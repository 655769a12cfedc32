------------------------------- MODULE I2CHost ------------------------------
(***************************************************************************)
(* The I2C host of gpio.cpp. A thread builds a transaction call by call in *)
(* a command link, one per thread and interface, which i2c_host_stop       *)
(* performs and deletes; i2c_host_write_to and read_from do it all in one  *)
(* call. The ESP-IDF driver, memory and bus are external and may fail at   *)
(* every call.                                                             *)
(*                                                                         *)
(* Calls touch only the link of their own thread until the driver performs *)
(* it, with the bus locked: each is one step. A call on an interface other *)
(* than 0 and 1, and an address above 0x3ff in write_addr, return false at *)
(* once.                                                                   *)
(***************************************************************************)
EXTENDS Integers, Sequences, SequencesExt, FiniteSets

CONSTANTS
  Threads,     (* Tasks of processes.                                      *)
  Interfaces,  (* Those of 0 and 1 that are used.                          *)
  Addresses,   (* Devices, refused ones included, with the read bit.       *)
  Bytes,       (* What write_byte is called with.                          *)
  Lines,       (* Pairs of pins to connect an interface to.                *)
  MaxQueue,    (* Bound: commands in all links, without those of write_to  *)
               (* and read_from.                                           *)
  Unconnected, (* Lines nobody has set.                                    *)
  NoLink       (* A null host_cmd.                                         *)

(* What a link is made of: <<"write">> and <<"read">> refer to a buffer.   *)
Commands ==
  {<<"start">>, <<"stop">>, <<"write">>, <<"read">>} \cup {"byte"} \X (0 .. 255)

ASSUME I2CAssumption ==
  /\ Interfaces \subseteq {0, 1} /\ MaxQueue \in Nat
  /\ Addresses \subseteq Nat \X {0, 1} /\ Bytes \subseteq 0 .. 255
  /\ NoLink \notin Seq(Commands)

VARIABLES
  lines, installed,  (* Of every interface: its pins, has it a driver.     *)
  host_cmd,          (* Of every thread, a link per interface.             *)
  links,             (* The links in the heap, by thread and interface.    *)
  life,              (* "new", "live" or "gone"                            *)
  buffer,            (* Whether a thread has its buffer mapped.            *)
  careless,          (* History: the threads that unmapped their buffer    *)
                     (* with a transaction begun.                          *)
  pending,           (* History: interfaces where a thread called for      *)
                     (* parts of a transaction since the last stop.        *)
  asked,             (* History: the calls of those that returned true;    *)
                     (* <<"failed">> for one that queued half an address.  *)
  bus                (* History: what the last step put on a bus when it   *)
                     (* returned true, and what had been asked for.        *)

vars ==
  <<lines, installed, host_cmd, links, life, buffer, careless, pending, asked, bus>>

Slots == Threads \X Interfaces

Quiet == [sent |-> <<>>, asked |-> <<>>]

Init ==
  /\ lines = [i \in Interfaces |-> Unconnected]
  /\ installed = [i \in Interfaces |-> FALSE]
  /\ host_cmd = [s \in Slots |-> NoLink]
  /\ links = {}
  /\ life = [t \in Threads |-> "new"]
  /\ buffer = [t \in Threads |-> FALSE]
  /\ careless = {}
  /\ pending = {}
  /\ asked = [s \in Slots |-> <<>>]
  /\ bus = Quiet

-----------------------------------------------------------------------------
(* Processes. They unmap buffers and end whenever they like.               *)
StartProcess(t) ==
  /\ life[t] = "new"
  /\ life' = [life EXCEPT ![t] = "live"]
  /\ bus' = Quiet
  /\ UNCHANGED <<lines, installed, host_cmd, links, buffer, careless, pending, asked>>

MapBuffer(t) ==
  /\ life[t] = "live"
  /\ buffer' = [buffer EXCEPT ![t] = TRUE]
  /\ bus' = Quiet
  /\ UNCHANGED <<lines, installed, host_cmd, links, life, careless, pending, asked>>

Begun(t) == {s \in pending : s[1] = t}

UnmapBuffer(t) ==
  /\ life[t] = "live"
  /\ buffer' = [buffer EXCEPT ![t] = FALSE]
  /\ careless' = IF Begun(t) = {} THEN careless ELSE careless \cup {t}
  /\ bus' = Quiet
  /\ UNCHANGED <<lines, installed, host_cmd, links, life, pending, asked>>

(* host_cmd is thread-local: it goes with the task, the links do not.      *)
EndProcess(t) ==
  /\ life[t] = "live"
  /\ life' = [life EXCEPT ![t] = "gone"]
  /\ buffer' = [buffer EXCEPT ![t] = FALSE]
  /\ host_cmd' = [s \in Slots |-> IF s[1] = t THEN NoLink ELSE host_cmd[s]]
  /\ asked' = [s \in Slots |-> IF s[1] = t THEN <<>> ELSE asked[s]]
  /\ bus' = Quiet
  /\ UNCHANGED <<lines, installed, links, careless, pending>>

-----------------------------------------------------------------------------
(* i2c_host_init: the pins are set before the driver is installed, which   *)
(* fails when it already is.                                               *)
HostInit(t, i, pair) ==
  /\ life[t] = "live"
  /\ lines' = [lines EXCEPT ![i] = pair]
  /\ \/ installed' = [installed EXCEPT ![i] = TRUE]
     \/ UNCHANGED installed
  /\ bus' = Quiet
  /\ UNCHANGED <<host_cmd, links, life, buffer, careless, pending, asked>>

-----------------------------------------------------------------------------
(* Addresses: 10 bits when the device needs more than 7, high ones first.  *)
Valid(device) == device <= 1023

Wide(device) == Valid(device) /\ device >= 128

(* Mutant: the two high bits are not moved to their place.                 *)
WideHeadUnshifted(device, read) == 240 + (device \div 256) + read

WideHead(device, read) == 240 + 2 * (device \div 256) + read

(* Mutant: the second byte is not cut to eight bits.                       *)
WideTailUncut(device) == device

WideTail(device) == device % 256

NarrowByte(device, read) == 2 * device + read

AddressCommands(device, read) ==
  IF Wide(device)
  THEN << <<"byte", WideHead(device, read)>>, <<"byte", WideTail(device)>> >>
  ELSE << <<"byte", NarrowByte(device, read)>> >>

-----------------------------------------------------------------------------
(* Command links. A call on a thread without one creates it, if there is   *)
(* memory.                                                                 *)
WithLink(cmd) == IF cmd = NoLink THEN {NoLink, <<>>} ELSE {cmd}

(* What calls that queue commands one after the other leave: the link and  *)
(* how many were queued. The first that fails ends them.                   *)
Queued(cmd, commands) ==
  UNION {IF c = NoLink THEN {[cmd |-> NoLink, count |-> 0]}
         ELSE {[cmd |-> c \o SubSeq(commands, 1, n), count |-> n]
                 : n \in 0 .. Len(commands)}
           : c \in WithLink(cmd)}

(* What i2c_host_stop puts on the bus when it returns true; <<>> stands    *)
(* for false. STOP may be missing then, or the bus not be used at all.     *)
Performed(i, cmd) ==
  {<<>>} \cup {Append(c, <<"stop">>) :
                 c \in (IF installed[i] THEN WithLink(cmd) \ {NoLink} ELSE {})}

-----------------------------------------------------------------------------
(* A request is a call for a part of a transaction.                        *)
CommandsOf(request) ==
  IF request[1] = "addr" THEN AddressCommands(request[2], request[3])
  ELSE <<request>>

Requests ==
  {<<"start">>, <<"write">>, <<"read">>} \cup {"byte"} \X Bytes
    \cup {<<"addr", a[1], a[2]>> : a \in Addresses}

Waiting ==
  UNION {{s} \X DOMAIN host_cmd[s] : s \in {r \in Slots : host_cmd[r] # NoLink}}

(* i2c_host_start, write_addr, write_byte, which queues its byte by value, *)
(* write_bytes and read_bytes; read_byte is like the last.                 *)
Request(t, i, request) ==
  LET s == <<t, i>>
      commands == CommandsOf(request)
  IN  /\ life[t] = "live"
      /\ request[1] = "addr" => Valid(request[2])
      /\ request[1] \in {"write", "read"} => buffer[t]
      /\ Cardinality(Waiting) + Len(commands) <= MaxQueue
      /\ \E q \in Queued(host_cmd[s], commands) :
           /\ host_cmd' = [host_cmd EXCEPT ![s] = q.cmd]
           /\ links' = IF q.cmd = NoLink THEN links ELSE links \cup {s}
           /\ asked' = [asked EXCEPT ![s] =
                IF q.count = Len(commands) THEN Append(@, request)
                ELSE IF q.count = 0 THEN @ ELSE Append(@, <<"failed">>)]
      /\ pending' = pending \cup {s}
      /\ bus' = Quiet
      /\ UNCHANGED <<lines, installed, life, buffer, careless>>

(* Mutant: the link is only deleted when the transaction was performed.    *)
FinishLeaks(s, sent, asks) ==
  /\ host_cmd' = [host_cmd EXCEPT ![s] = NoLink]
  /\ links' = IF sent = <<>> THEN links ELSE links \ {s}
  /\ pending' = pending \ {s}
  /\ asked' = [asked EXCEPT ![s] = <<>>]
  /\ bus' = IF sent = <<>> THEN Quiet ELSE [sent |-> sent, asked |-> asks]

(* The end of i2c_host_stop: the link is deleted and the pointer cleared,  *)
(* whatever failed.                                                        *)
Finish(s, sent, asks) ==
  /\ host_cmd' = [host_cmd EXCEPT ![s] = NoLink]
  /\ links' = links \ {s}
  /\ pending' = pending \ {s}
  /\ asked' = [asked EXCEPT ![s] = <<>>]
  /\ bus' = IF sent = <<>> THEN Quiet ELSE [sent |-> sent, asked |-> asks]

Stop(t, i) ==
  LET s == <<t, i>>
  IN  /\ life[t] = "live"
      /\ \E sent \in Performed(i, host_cmd[s]) : Finish(s, sent, asked[s])
      /\ UNCHANGED <<lines, installed, life, buffer, careless>>

(* i2c_host_write_to and i2c_host_read_from. An address above 0x3ff ends   *)
(* them after START. They stop in any case, and succeed when all succeeds. *)
Data(read) == IF read = 1 THEN <<"read">> ELSE <<"write">>

Transfer(device, read) == << <<"start">>, <<"addr", device, read>>, Data(read) >>

TransferCommands(device, read) ==
  IF Valid(device)
  THEN << <<"start">> >> \o AddressCommands(device, read) \o <<Data(read)>>
  ELSE << <<"start">> >>

(* Mutant: "&&" for "&": after a failure there is no stop.                 *)
TransactShortCircuits(t, i, device, read) ==
  LET s == <<t, i>>
      commands == TransferCommands(device, read)
  IN  /\ life[t] = "live" /\ buffer[t]
      /\ \E q \in Queued(host_cmd[s], commands) :
           IF Valid(device) /\ q.count = Len(commands)
           THEN \E sent \in Performed(i, q.cmd) :
                  Finish(s, sent, asked[s] \o Transfer(device, read))
           ELSE /\ host_cmd' = [host_cmd EXCEPT ![s] = q.cmd]
                /\ links' = IF q.cmd = NoLink THEN links ELSE links \cup {s}
                /\ pending' = pending \ {s}
                /\ bus' = Quiet
                /\ UNCHANGED asked
      /\ UNCHANGED <<lines, installed, life, buffer, careless>>

Transact(t, i, device, read) ==
  LET s == <<t, i>>
      commands == TransferCommands(device, read)
  IN  /\ life[t] = "live" /\ buffer[t]
      /\ \E q \in Queued(host_cmd[s], commands) :
         \E sent \in Performed(i, q.cmd) :
           Finish(s, IF Valid(device) /\ q.count = Len(commands) THEN sent ELSE <<>>,
                  asked[s] \o Transfer(device, read))
      /\ UNCHANGED <<lines, installed, life, buffer, careless>>

-----------------------------------------------------------------------------
ProcessStep(t) ==
  StartProcess(t) \/ MapBuffer(t) \/ UnmapBuffer(t) \/ EndProcess(t)

HostCall(t) ==
  \E i \in Interfaces :
    \/ \E pair \in Lines : HostInit(t, i, pair)
    \/ \E request \in Requests : Request(t, i, request)
    \/ Stop(t, i)
    \/ \E a \in Addresses : Transact(t, i, a[1], a[2])

Ended == (\A t \in Threads : life[t] = "gone") /\ UNCHANGED vars

Next == (\E t \in Threads : ProcessStep(t) \/ HostCall(t)) \/ Ended

Spec == Init /\ [][Next]_vars

-----------------------------------------------------------------------------
(* Type invariant; what is pending is known to its process.                *)
TypeOK ==
  /\ lines \in [Interfaces -> Lines \cup {Unconnected}]
  /\ installed \in [Interfaces -> BOOLEAN]
  /\ host_cmd \in [Slots -> Seq(Commands) \cup {NoLink}]
  /\ links \subseteq Slots
  /\ life \in [Threads -> {"new", "live", "gone"}]
  /\ buffer \in [Threads -> BOOLEAN] /\ careless \subseteq Threads
  /\ pending \subseteq Slots
  /\ asked \in [Slots -> Seq(Requests \cup {<<"failed">>})]

(* No command link is lost: every link in the heap is still the host_cmd   *)
(* of its thread, also when creating, queueing or performing fails, or of  *)
(* a process that ended and had not stopped what it had called for parts   *)
(* of.                                                                     *)
NoLinkLeak ==
  /\ \A s \in Slots : host_cmd[s] # NoLink => s \in links
  /\ \A s \in links :
       host_cmd[s] # NoLink \/ (life[s[1]] = "gone" /\ s \in pending)

(* A link refers to the buffers of its thread until it is performed, "this *)
(* operation may be delayed until i2c_host_stop is called": they are       *)
(* mapped as long as it does, for a process that unmaps none with a        *)
(* transaction begun. It knows of its own transactions, but not of one     *)
(* that write_to and read_from would leave behind.                         *)
BuffersOutliveLinks ==
  \A t \in Threads \ careless, i \in Interfaces :
    LET cmd == host_cmd[<<t, i>>]
    IN  cmd # NoLink /\ ~buffer[t] =>
          \A n \in DOMAIN cmd : cmd[n] \notin {<<"write">>, <<"read">>}

(* What a device on the bus makes of the bytes after START: an address of  *)
(* 7 bits or, when the first byte begins 11110, of 10 bits in two bytes.   *)
BeginsWide(byte) == byte \div 8 = 30

NarrowHeard(byte) == <<"addr", byte \div 2, byte % 2>>

WideHeard(head, tail) ==
  <<"addr", 256 * ((head \div 2) % 4) + tail, head % 2>>

Heard(sent) ==
  LET head(n) == n > 1 /\ sent[n - 1] = <<"start">> /\ sent[n][1] = "byte"
      wide(n) == head(n) /\ BeginsWide(sent[n][2])
  IN  FlattenSeq([n \in DOMAIN sent |->
        IF wide(n) THEN <<>>
        ELSE IF head(n) THEN <<NarrowHeard(sent[n][2])>>
        ELSE IF n > 2 /\ wide(n - 1) /\ sent[n][1] = "byte"
             THEN <<WideHeard(sent[n - 1][2], sent[n][2])>>
        ELSE <<sent[n]>>])

(* 7-bit addresses that begin like a 10-bit one: no device has them.       *)
Reserved == 120 .. 123

(* An address is asked for right after START, and no call of the process   *)
(* failed halfway.                                                         *)
WellFormed(asks) ==
  \A n \in DOMAIN asks :
    /\ asks[n] # <<"failed">>
    /\ asks[n][1] = "addr" =>
         n > 1 /\ asks[n - 1] = <<"start">> /\ asks[n][2] \notin Reserved

(* When stop, write_to or read_from returns true, the bus has carried what *)
(* the calls that returned true asked for, in order, and nothing else: a   *)
(* device hears the parts queued before, the whole address in the form it  *)
(* expects, the data and STOP. A byte the process wrote right after START  *)
(* it takes for an address, as it should.                                  *)
SuccessIsWhole ==
  bus # Quiet /\ WellFormed(bus.asked) =>
    Heard(bus.sent) = Heard(Append(bus.asked, <<"stop">>))
=============================================================================
