--------------------------- MODULE I2CHostProofs ---------------------------
(***************************************************************************)
(* Proofs about I2CHost, for any number of processes and any addresses.    *)
(***************************************************************************)
EXTENDS I2CHost, FlattenLemmas, TLAPS

(* A process that has a link has called for part of a transaction and not  *)
(* stopped it, so one that is careful does not unmap its buffer.           *)
LinksKnown ==
  \A t \in Threads, i \in Interfaces :
    host_cmd[<<t, i>>] # NoLink => <<t, i>> \in pending

(* What a link without a buffer is made of.                                *)
Unbuffered == Commands \ {<<"write">>, <<"read">>}

BuffersTyped ==
  \A t \in Threads \ careless, i \in Interfaces :
    host_cmd[<<t, i>>] # NoLink /\ ~buffer[t] =>
      host_cmd[<<t, i>>] \in Seq(Unbuffered)

IInv ==
  /\ TypeOK
  /\ NoLinkLeak
  /\ LinksKnown
  /\ BuffersTyped

-----------------------------------------------------------------------------
(* The high bits and the low byte of a device's number.                    *)
LEMMA HighAndLow ==
  ASSUME NEW device \in 0 .. 1023
  PROVE  \E high \in 0 .. 3, low \in 0 .. 255 :
           /\ device = 256 * high + low
           /\ device \div 256 = high /\ device % 256 = low
<1>1. ASSUME NEW high \in 0 .. 3, 256 * high <= device, device <= 256 * high + 255
      PROVE  /\ device - 256 * high \in 0 .. 255
             /\ device = 256 * high + (device - 256 * high)
             /\ device \div 256 = high /\ device % 256 = device - 256 * high
  BY <1>1
<1>2. \E high \in 0 .. 3 : 256 * high <= device /\ device <= 256 * high + 255
  <2> DEFINE Within(high) == 256 * high <= device /\ device <= 256 * high + 255
  <2>1. Within(0) \/ Within(1) \/ Within(2) \/ Within(3)
    OBVIOUS
  <2>2. 0 \in 0 .. 3 /\ 1 \in 0 .. 3 /\ 2 \in 0 .. 3 /\ 3 \in 0 .. 3
    OBVIOUS
  <2> HIDE DEF Within
  <2>3. \E high \in 0 .. 3 : Within(high)
    BY <2>1, <2>2
  <2> QED BY <2>3 DEF Within
<1> QED BY <1>1, <1>2

(* The bytes of an address are bytes.                                      *)
LEMMA AddressBytes ==
  ASSUME NEW device \in 0 .. 1023, NEW read \in {0, 1}
  PROVE  /\ WideHead(device, read) \in 0 .. 255 /\ WideTail(device) \in 0 .. 255
         /\ device < 128 => NarrowByte(device, read) \in 0 .. 255
<1>1. PICK high \in 0 .. 3, low \in 0 .. 255 :
        device = 256 * high + low /\ device \div 256 = high /\ device % 256 = low
  BY HighAndLow, ZenonT(30)
<1>2. WideTail(device) \in 0 .. 255
  <2>1. WideTail(device) = low
    BY <1>1 DEF WideTail
  <2>2. QED
    BY <2>1
<1>3. WideHead(device, read) = 240 + 2 * high + read
  BY <1>1 DEF WideHead
<1>4. 240 + 2 * high + read \in 0 .. 255
  OBVIOUS
<1>5. device < 128 => NarrowByte(device, read) \in 0 .. 255
  BY DEF NarrowByte
<1> QED BY <1>2, <1>3, <1>4, <1>5

(* Any device that has an address hears it as it was asked for: the bytes  *)
(* of write_addr are bytes, they say whether there are one or two, and the *)
(* device's number and the read bit can be told from them.                 *)
THEOREM AddressHeard ==
  ASSUME NEW device \in 0 .. 1023, device \notin Reserved, NEW read \in {0, 1}
  PROVE  IF Wide(device)
         THEN /\ WideHead(device, read) \in 0 .. 255
              /\ WideTail(device) \in 0 .. 255
              /\ BeginsWide(WideHead(device, read))
              /\ WideHeard(WideHead(device, read), WideTail(device))
                   = <<"addr", device, read>>
         ELSE /\ NarrowByte(device, read) \in 0 .. 255
              /\ ~BeginsWide(NarrowByte(device, read))
              /\ NarrowHeard(NarrowByte(device, read)) = <<"addr", device, read>>
<1>1. CASE Wide(device)
  <2>1. PICK high \in 0 .. 3, low \in 0 .. 255 :
          /\ device = 256 * high + low
          /\ device \div 256 = high /\ device % 256 = low
    BY HighAndLow, ZenonT(30)
  <2>2. /\ WideHead(device, read) = 240 + 2 * high + read
        /\ WideTail(device) = low
    BY <2>1 DEF WideHead, WideTail
  <2>3. /\ (240 + 2 * high + read) \div 8 = 30
        /\ (240 + 2 * high + read) \div 2 = 120 + high
        /\ (120 + high) % 4 = high
        /\ (240 + 2 * high + read) % 2 = read
    BY <2>1
  <2>4. BeginsWide(WideHead(device, read))
    BY <2>2, <2>3 DEF BeginsWide
  <2>5. WideHeard(WideHead(device, read), WideTail(device))
          = <<"addr", 256 * high + low, read>>
    BY <2>2, <2>3 DEF WideHeard
  <2>6. WideHead(device, read) \in 0 .. 255 /\ WideTail(device) \in 0 .. 255
    BY AddressBytes, ZenonT(60)
  <2> QED BY <1>1, <2>1, <2>4, <2>5, <2>6
<1>2. CASE ~Wide(device)
  <2>1. device \in 0 .. 127
    BY <1>2 DEF Wide, Valid
  <2>2. /\ (2 * device + read) \div 2 = device
        /\ (2 * device + read) % 2 = read
    BY <2>1
  <2>3. (2 * device + read) \div 8 # 30
    BY <2>1 DEF Reserved
  <2> QED BY <1>2, <2>1, <2>2, <2>3 DEF NarrowByte, BeginsWide, NarrowHeard
<1> QED BY <1>1, <1>2

(* A call that asks for no address asks for one command.                   *)
LEMMA PlainRequests ==
  ASSUME NEW request \in Requests, request[1] # "addr"
  PROVE  request \in Commands
<1>1. request \in {<<"start">>, <<"write">>, <<"read">>} \cup {"byte"} \X Bytes
  <2>1. ASSUME NEW a \in Addresses, request = <<"addr", a[1], a[2]>> PROVE FALSE
    BY <2>1
  <2>2. QED
    BY <2>1 DEF Requests
<1>2. CASE request \in {<<"start">>, <<"write">>, <<"read">>}
  BY <1>2 DEF Commands
<1>3. CASE request \in {"byte"} \X Bytes
  <2>1. PICK b \in Bytes : request = <<"byte", b>>
    BY <1>3
  <2>2. b \in 0 .. 255
    BY I2CAssumption
  <2>3. QED
    BY <2>1, <2>2 DEF Commands
<1>4. QED
  BY <1>1, <1>2, <1>3

(* The commands of a call, and which of them refer to a buffer.            *)
LEMMA CommandsTyped ==
  ASSUME NEW request \in Requests, request[1] = "addr" => Valid(request[2])
  PROVE  /\ CommandsOf(request) \in Seq(Commands)
         /\ request[1] \notin {"write", "read"} =>
              CommandsOf(request) \in Seq(Unbuffered)
<1>1. CASE request[1] = "addr"
  <2>1. PICK a \in Addresses : request = <<"addr", a[1], a[2]>>
    BY <1>1 DEF Requests
  <2>2. a[1] \in 0 .. 1023 /\ a[2] \in {0, 1}
    <3>1. a \in Nat \X {0, 1}
      BY I2CAssumption
    <3>2. Valid(a[1])
      BY <1>1, <2>1
    <3> QED BY <3>1, <3>2 DEF Valid
  <2>3. \A b \in 0 .. 255 : <<"byte", b>> \in Unbuffered
    BY DEF Unbuffered, Commands
  <2>4. WideHead(a[1], a[2]) \in 0 .. 255 /\ WideTail(a[1]) \in 0 .. 255
    BY <2>2, AddressBytes, ZenonT(60)
  <2>5. a[1] < 128 => NarrowByte(a[1], a[2]) \in 0 .. 255
    BY <2>2, AddressBytes, ZenonT(60)
  <2>6. CommandsOf(request) = AddressCommands(a[1], a[2])
    BY <1>1, <2>1 DEF CommandsOf
  <2>7. CASE Wide(a[1])
    <3> DEFINE head == <<"byte", WideHead(a[1], a[2])>>
               tail == <<"byte", WideTail(a[1])>>
    <3>1. head \in Unbuffered /\ tail \in Unbuffered
      BY <2>3, <2>4, <2>7 DEF Wide
    <3>2. AddressCommands(a[1], a[2]) = <<head, tail>>
      BY <2>7 DEF AddressCommands
    <3> HIDE DEF head, tail
    <3>3. <<head, tail>> \in Seq(Unbuffered)
      BY <3>1
    <3> QED BY <2>6, <3>2, <3>3 DEF Unbuffered
  <2>8. CASE ~Wide(a[1])
    <3> DEFINE byte == <<"byte", NarrowByte(a[1], a[2])>>
    <3>0. NarrowByte(a[1], a[2]) \in 0 .. 255
      BY <2>2, <2>5, <2>8 DEF Wide, Valid
    <3>1. byte \in Unbuffered
      BY <2>3, <3>0
    <3>2. AddressCommands(a[1], a[2]) = <<byte>>
      BY <2>8 DEF AddressCommands
    <3> HIDE DEF byte
    <3>3. <<byte>> \in Seq(Unbuffered)
      BY <3>1
    <3> QED BY <2>6, <3>2, <3>3 DEF Unbuffered
  <2> QED BY <2>7, <2>8
<1>2. CASE request[1] # "addr"
  <2>1. request \in Commands
    BY <1>2, PlainRequests
  <2>2. request[1] \notin {"write", "read"} => request \in Unbuffered
    BY <2>1 DEF Unbuffered
  <2>3. CommandsOf(request) = <<request>>
    BY <1>2 DEF CommandsOf
  <2>4. <<request>> \in Seq(Commands)
    BY <2>1
  <2>5. request[1] \notin {"write", "read"} => <<request>> \in Seq(Unbuffered)
    BY <2>2
  <2> QED BY <2>3, <2>4, <2>5
<1> QED BY <1>1, <1>2

(* What queueing leaves: null, or a link of the same kind of commands.     *)
LEMMA QueuedTyped ==
  ASSUME NEW S, NEW cmd, cmd \in Seq(S) \/ cmd = NoLink,
         NEW commands \in Seq(S), NEW q \in Queued(cmd, commands)
  PROVE  /\ q.cmd \in Seq(S) \/ q.cmd = NoLink
         /\ cmd # NoLink /\ NoLink \notin Seq(S) => q.cmd # NoLink
<1>1. PICK c \in WithLink(cmd) :
        q \in IF c = NoLink THEN {[cmd |-> NoLink, count |-> 0]}
              ELSE {[cmd |-> c \o SubSeq(commands, 1, n), count |-> n]
                      : n \in 0 .. Len(commands)}
  BY DEF Queued
<1>2. (c \in Seq(S) \/ c = NoLink) /\ (cmd # NoLink => c = cmd)
  <2>1. << >> \in Seq(S)
    OBVIOUS
  <2> QED BY <1>1, <2>1 DEF WithLink
<1>3. CASE c = NoLink
  BY <1>1, <1>2, <1>3
<1>4. CASE c # NoLink
  <2>1. PICK n \in 0 .. Len(commands) :
          q = [cmd |-> c \o SubSeq(commands, 1, n), count |-> n]
    BY <1>1, <1>4
  <2>2. SubSeq(commands, 1, n) \in Seq(S)
    BY <2>1
  <2>3. c \o SubSeq(commands, 1, n) \in Seq(S)
    BY <1>2, <1>4, <2>2
  <2> QED BY <2>1, <2>3
<1> QED BY <1>3, <1>4

-----------------------------------------------------------------------------
(* Before the first process, there is no link.                             *)
LEMMA InitInv == Init => IInv
  BY I2CAssumption DEF Init, IInv, TypeOK, NoLinkLeak, LinksKnown, BuffersTyped, Slots

(* Processes: one that unmaps its buffer has no link or is careless; the   *)
(* links of one that ends are lost where it knows of them.                 *)
LEMMA ProcessInv ==
  ASSUME IInv, NEW t \in Threads, ProcessStep(t)
  PROVE  IInv'
<1> USE DEF IInv
<1>1. CASE StartProcess(t)
  BY <1>1 DEF StartProcess, TypeOK, NoLinkLeak, LinksKnown, BuffersTyped
<1>2. CASE MapBuffer(t)
  BY <1>2 DEF MapBuffer, TypeOK, NoLinkLeak, LinksKnown, BuffersTyped
<1>3. CASE UnmapBuffer(t)
  <2> USE <1>3 DEF UnmapBuffer
  <2>1. TypeOK' BY DEF TypeOK
  <2>2. NoLinkLeak' /\ LinksKnown' BY DEF NoLinkLeak, LinksKnown
  <2>3. BuffersTyped'
    <3>1. ASSUME NEW u \in Threads \ careless', NEW i \in Interfaces,
                 host_cmd[<<u, i>>] # NoLink, ~buffer'[u]
          PROVE  u # t /\ u \notin careless
      <4>1. <<u, i>> \in pending
        BY <3>1 DEF LinksKnown
      <4>2. u = t => <<u, i>> \in Begun(t)
        BY <4>1 DEF Begun
      <4> QED BY <3>1, <4>2
    <3> QED BY <3>1 DEF BuffersTyped, TypeOK
  <2> QED BY <2>1, <2>2, <2>3
<1>4. CASE EndProcess(t)
  <2> USE <1>4 DEF EndProcess
  <2>1. \A s \in Slots : IF s[1] = t THEN host_cmd'[s] = NoLink
                          ELSE host_cmd'[s] = host_cmd[s]
    OBVIOUS
  <2>2. \A s \in Slots : host_cmd[s] # NoLink => s \in pending
    BY DEF LinksKnown, Slots
  <2>3. TypeOK'
    <3>1. \A s \in Slots : asked'[s] \in Seq(Requests \cup {<<"failed">>})
      BY DEF TypeOK
    <3>2. asked' \in [Slots -> Seq(Requests \cup {<<"failed">>})]
      BY <3>1
    <3>3. host_cmd' \in [Slots -> Seq(Commands) \cup {NoLink}]
      BY DEF TypeOK
    <3> QED BY <3>2, <3>3 DEF TypeOK
  <2>4. NoLinkLeak'
    <3>1. ASSUME NEW s \in Slots, host_cmd'[s] # NoLink PROVE s \in links'
      BY <2>1, <3>1 DEF NoLinkLeak
    <3>2. ASSUME NEW s \in links'
          PROVE  host_cmd'[s] # NoLink \/ (life'[s[1]] = "gone" /\ s \in pending')
      <4>1. s \in Slots /\ s \in links /\ s[1] \in Threads
        BY <3>2 DEF TypeOK, Slots
      <4>2. CASE s[1] = t
        BY <2>2, <4>1, <4>2 DEF NoLinkLeak, TypeOK
      <4>3. CASE s[1] # t
        BY <2>1, <4>1, <4>3 DEF NoLinkLeak, TypeOK
      <4> QED BY <4>2, <4>3
    <3> QED BY <3>1, <3>2 DEF NoLinkLeak
  <2>5. LinksKnown'
    BY <2>1, <2>2 DEF LinksKnown, Slots
  <2>6. BuffersTyped'
    <3>1. ASSUME NEW u \in Threads \ careless', NEW i \in Interfaces,
                 host_cmd'[<<u, i>>] # NoLink, ~buffer'[u]
          PROVE  host_cmd'[<<u, i>>] \in Seq(Unbuffered)
      <4>1. u # t /\ host_cmd'[<<u, i>>] = host_cmd[<<u, i>>]
        BY <2>1, <3>1 DEF Slots
      <4> QED BY <3>1, <4>1 DEF BuffersTyped, TypeOK
    <3> QED BY <3>1 DEF BuffersTyped
  <2> QED BY <2>3, <2>4, <2>5, <2>6
<1> QED BY <1>1, <1>2, <1>3, <1>4 DEF ProcessStep

(* i2c_host_init.                                                          *)
LEMMA HostInitInv ==
  ASSUME IInv, NEW t \in Threads, NEW i \in Interfaces, NEW pair \in Lines,
         HostInit(t, i, pair)
  PROVE  IInv'
  BY DEF HostInit, IInv, TypeOK, NoLinkLeak, LinksKnown, BuffersTyped

(* A call for a part of a transaction: created or not, the link in the     *)
(* heap is the one the thread has.                                         *)
LEMMA RequestInv ==
  ASSUME IInv, NEW t \in Threads, NEW i \in Interfaces,
         NEW request \in Requests, Request(t, i, request)
  PROVE  IInv'
<1> USE DEF IInv
<1> DEFINE s == <<t, i>>
           commands == CommandsOf(request)
<1>1. s \in Slots
  BY DEF Slots
<1>2. /\ request[1] = "addr" => Valid(request[2])
      /\ request[1] \in {"write", "read"} => buffer[t]
      /\ pending' = pending \cup {s}
      /\ UNCHANGED <<lines, installed, life, buffer, careless>>
  BY DEF Request
<1>3. PICK q \in Queued(host_cmd[s], commands) :
        /\ host_cmd' = [host_cmd EXCEPT ![s] = q.cmd]
        /\ links' = IF q.cmd = NoLink THEN links ELSE links \cup {s}
        /\ asked' = [asked EXCEPT ![s] =
             IF q.count = Len(commands) THEN Append(@, request)
             ELSE IF q.count = 0 THEN @ ELSE Append(@, <<"failed">>)]
  BY DEF Request
<1>4. commands \in Seq(Commands)
  BY <1>2, CommandsTyped
<1>5. host_cmd[s] \in Seq(Commands) \/ host_cmd[s] = NoLink
  BY <1>1 DEF TypeOK
<1>6. /\ q.cmd \in Seq(Commands) \/ q.cmd = NoLink
      /\ host_cmd[s] # NoLink => q.cmd # NoLink
  BY <1>3, <1>4, <1>5, QueuedTyped, I2CAssumption
<1>7. ~buffer[t] /\ t \notin careless => q.cmd \in Seq(Unbuffered) \/ q.cmd = NoLink
  <2> SUFFICES ASSUME ~buffer[t], t \notin careless PROVE q.cmd \in Seq(Unbuffered) \/ q.cmd = NoLink
    OBVIOUS
  <2>1. commands \in Seq(Unbuffered)
    BY <1>2, CommandsTyped
  <2>2. host_cmd[s] \in Seq(Unbuffered) \/ host_cmd[s] = NoLink
    BY DEF BuffersTyped
  <2> QED BY <1>3, <2>1, <2>2, QueuedTyped
<1> HIDE DEF commands
<1>8. TypeOK'
  <2>1. asked' \in [Slots -> Seq(Requests \cup {<<"failed">>})]
    <3>1. asked[s] \in Seq(Requests \cup {<<"failed">>})
      BY <1>1 DEF TypeOK
    <3>2. /\ Append(asked[s], request) \in Seq(Requests \cup {<<"failed">>})
          /\ Append(asked[s], <<"failed">>) \in Seq(Requests \cup {<<"failed">>})
      BY <3>1
    <3> QED BY <1>1, <1>3, <3>1, <3>2 DEF TypeOK
  <2>2. host_cmd' \in [Slots -> Seq(Commands) \cup {NoLink}]
    BY <1>1, <1>3, <1>6 DEF TypeOK
  <2>3. links' \subseteq Slots /\ pending' \subseteq Slots
    BY <1>1, <1>2, <1>3 DEF TypeOK
  <2> QED BY <1>2, <2>1, <2>2, <2>3 DEF TypeOK
<1>9. NoLinkLeak'
  <2>1. /\ host_cmd'[s] = q.cmd
        /\ \A r \in Slots : r # s => host_cmd'[r] = host_cmd[r]
    BY <1>1, <1>3 DEF TypeOK
  <2>2. links \subseteq links' /\ links' \subseteq links \cup {s} /\ links \subseteq Slots
        /\ (q.cmd # NoLink => s \in links')
    BY <1>3 DEF TypeOK
  <2>3. ASSUME NEW r \in Slots, host_cmd'[r] # NoLink PROVE r \in links'
    BY <2>1, <2>2, <2>3 DEF NoLinkLeak
  <2>4. ASSUME NEW r \in links'
        PROVE  host_cmd'[r] # NoLink \/ (life'[r[1]] = "gone" /\ r \in pending')
    <3>1. CASE r = s /\ q.cmd # NoLink
      BY <2>1, <3>1
    <3>2. CASE r = s /\ q.cmd = NoLink
      <4>1. r \in links /\ host_cmd[r] = NoLink
        BY <1>3, <1>6, <2>4, <3>2
      <4>2. QED
        BY <1>2, <4>1 DEF NoLinkLeak
    <3>3. CASE r # s
      <4>1. r \in links /\ r \in Slots
        BY <2>2, <2>4, <3>3
      <4>2. QED
        BY <1>2, <2>1, <3>3, <4>1 DEF NoLinkLeak
    <3>4. QED
      BY <3>1, <3>2, <3>3
  <2>5. QED
    BY <2>3, <2>4 DEF NoLinkLeak
<1>10. LinksKnown'
  BY <1>1, <1>2, <1>3 DEF LinksKnown, TypeOK, Slots
<1>11. BuffersTyped'
  BY <1>1, <1>2, <1>3, <1>7 DEF BuffersTyped, TypeOK, Slots
<1> QED BY <1>8, <1>9, <1>10, <1>11

(* Stopping, after whatever failed: neither heap nor thread has the link.  *)
LEMMA FinishInv ==
  ASSUME IInv, NEW s \in Slots, NEW sent, NEW asks, Finish(s, sent, asks),
         UNCHANGED <<lines, installed, life, buffer, careless>>
  PROVE  IInv'
<1> USE DEF IInv, Finish
<1>1. TypeOK' BY DEF TypeOK
<1>2. NoLinkLeak' BY DEF NoLinkLeak, TypeOK
<1>3. LinksKnown' BY DEF LinksKnown, TypeOK, Slots
<1>4. BuffersTyped' BY DEF BuffersTyped, TypeOK, Slots
<1> QED BY <1>1, <1>2, <1>3, <1>4

-----------------------------------------------------------------------------
(* Every reachable state satisfies the inductive invariant.                *)
THEOREM Invariance == Spec => []IInv
<1>1. Init => IInv
  BY InitInv
<1>2. IInv /\ [Next]_vars => IInv'
  <2>1. ASSUME IInv, UNCHANGED vars PROVE IInv'
    BY <2>1 DEF vars, IInv, TypeOK, NoLinkLeak, LinksKnown, BuffersTyped
  <2>2. ASSUME IInv, NEW t \in Threads, NEW i \in Interfaces, Stop(t, i) PROVE IInv'
    BY <2>2, FinishInv DEF Stop, Slots
  <2>3. ASSUME IInv, NEW t \in Threads, NEW i \in Interfaces, NEW a \in Addresses,
               Transact(t, i, a[1], a[2])
        PROVE  IInv'
    BY <2>3, FinishInv DEF Transact, Slots
  <2>4. ASSUME IInv, NEW t \in Threads, HostCall(t) PROVE IInv'
    BY <2>2, <2>3, <2>4, HostInitInv, RequestInv DEF HostCall
  <2> QED BY <2>1, <2>4, ProcessInv DEF Next, Ended
<1> QED BY <1>1, <1>2, PTL DEF Spec

(* The state of the I2C host keeps its types, for any addresses.           *)
THEOREM TypeCorrect == Spec => []TypeOK
  BY Invariance, PTL DEF IInv

(* No failure and no order of calls loses a command link.                  *)
THEOREM NoLinkLeakAlways == Spec => []NoLinkLeak
  BY Invariance, PTL DEF IInv

(* A link refers to buffers that are mapped, of a process that unmaps none *)
(* with a transaction begun.                                               *)
THEOREM BuffersAlways == Spec => []BuffersOutliveLinks
<1>1. IInv => BuffersOutliveLinks
  BY DEF IInv, BuffersTyped, BuffersOutliveLinks, Unbuffered
<1> QED BY <1>1, Invariance, PTL

-----------------------------------------------------------------------------
(* What a device makes of each command. It depends on the two before, not  *)
(* on those that follow: what is heard of a link grows with it.            *)
StartsAddress(sent, n) ==
  n > 1 /\ sent[n - 1] = <<"start">> /\ sent[n][1] = "byte"

StartsWide(sent, n) == StartsAddress(sent, n) /\ BeginsWide(sent[n][2])

Part(sent, n) ==
  IF StartsWide(sent, n) THEN <<>>
  ELSE IF StartsAddress(sent, n) THEN <<NarrowHeard(sent[n][2])>>
  ELSE IF n > 2 /\ StartsWide(sent, n - 1) /\ sent[n][1] = "byte"
       THEN <<WideHeard(sent[n - 1][2], sent[n][2])>>
  ELSE <<sent[n]>>

LEMMA HeardParts ==
  ASSUME NEW sent
  PROVE  Heard(sent) = FlattenSeq([n \in DOMAIN sent |-> Part(sent, n)])
BY DEF Heard, Part, StartsWide, StartsAddress

LEMMA PartShape ==
  ASSUME NEW sent, NEW n
  PROVE  Part(sent, n) = <<>> \/ \E y : Part(sent, n) = <<y>>
BY DEF Part

LEMMA SamePart ==
  ASSUME NEW sent, NEW more, NEW k \in Nat \ {0}, sent[k] = more[k],
         k > 1 => sent[k - 1] = more[k - 1],
         k > 2 => sent[(k - 1) - 1] = more[(k - 1) - 1]
  PROVE  Part(more, k) = Part(sent, k)
<1>1. StartsAddress(more, k) <=> StartsAddress(sent, k)
  BY DEF StartsAddress
<1>2. StartsWide(more, k) <=> StartsWide(sent, k)
  BY <1>1 DEF StartsWide
<1>3. k > 2 => (StartsWide(more, k - 1) <=> StartsWide(sent, k - 1))
  BY DEF StartsWide, StartsAddress
<1>4. StartsAddress(sent, k) => k > 1
  BY DEF StartsAddress
<1>5. QED
  BY <1>1, <1>2, <1>3 DEF Part

LEMMA HeardAppend ==
  ASSUME NEW C, NEW sent \in Seq(C), NEW c \in C
  PROVE  Heard(Append(sent, c)) =
           Heard(sent) \o Part(Append(sent, c), Len(sent) + 1)
<1>1. PICK n \in Nat : n = Len(sent)
  OBVIOUS
<1>2. PICK more : more = Append(sent, c)
  OBVIOUS
<1>3. /\ DOMAIN sent = 1 .. n /\ DOMAIN more = 1 .. n + 1
      /\ \A k \in 1 .. n : sent[k] = more[k]
  BY <1>1, <1>2
<1> DEFINE S == {Part(more, k)[1] : k \in 1 .. n + 1}
           parts == [k \in 1 .. n |-> Part(sent, k)]
           last == Part(more, n + 1)
<1>4. ASSUME NEW k \in 1 .. n PROVE Part(more, k) = Part(sent, k)
  <2>1. k \in Nat \ {0} /\ sent[k] = more[k]
    BY <1>3
  <2>2. k > 1 => k - 1 \in 1 .. n
    OBVIOUS
  <2>3. k > 2 => (k - 1) - 1 \in 1 .. n
    OBVIOUS
  <2>4. QED
    BY <1>3, <2>1, <2>2, <2>3, SamePart
<1>5. ASSUME NEW k \in 1 .. n + 1 PROVE Part(more, k) \in Seq(S)
  <2>1. CASE Part(more, k) = <<>>
    BY <2>1
  <2>2. ASSUME NEW y, Part(more, k) = <<y>> PROVE Part(more, k) \in Seq(S)
    <3>1. y = Part(more, k)[1]
      BY <2>2
    <3>2. y \in S
      BY <3>1
    <3>3. QED
      BY <2>2, <3>2
  <2>3. QED
    BY <2>1, <2>2, PartShape
<1> HIDE DEF S
<1>6. parts \in Seq(Seq(S)) /\ last \in Seq(S)
  BY <1>4, <1>5
<1>7. [k \in 1 .. n + 1 |-> Part(more, k)] = Append(parts, last)
  BY <1>4, <1>6
<1>8. FlattenSeq(Append(parts, last)) = FlattenSeq(parts) \o last
  BY <1>6, FlattenAppend
<1>9. QED
  BY <1>1, <1>2, <1>3, <1>7, <1>8, HeardParts

(* What follows is heard the same way after two sequences that end alike:  *)
(* both with START, both with the first byte of a 10-bit address, or both  *)
(* with something else.                                                    *)
EndsInStart(sent) == sent # <<>> /\ sent[Len(sent)] = <<"start">>

EndsInHead(sent) == sent # <<>> /\ StartsWide(sent, Len(sent))

EndAlike(sent, asks) ==
  /\ EndsInStart(sent) <=> EndsInStart(asks)
  /\ EndsInHead(sent) <=> EndsInHead(asks)
  /\ EndsInHead(sent) => sent[Len(sent)] = asks[Len(asks)]

(* What a device hears of a link is what it would hear of what was asked   *)
(* for, if that makes a transaction, and of what is queued next as well.   *)
Says(sent, asks) == Heard(sent) = Heard(asks) /\ EndAlike(sent, asks)

AskedInv ==
  \A s \in Slots :
    IF host_cmd[s] = NoLink THEN asked[s] = <<>>
    ELSE WellFormed(asked[s]) => Says(host_cmd[s], asked[s])

Asks == Requests \cup {<<"failed">>}

(* What may be asked for after what.                                       *)
LEMMA WellFormedAppend ==
  ASSUME NEW asks \in Seq(Asks), NEW request \in Asks, WellFormed(Append(asks, request))
  PROVE  /\ WellFormed(asks) /\ request # <<"failed">>
         /\ request[1] = "addr" =>
              /\ asks # <<>> /\ asks[Len(asks)] = <<"start">>
              /\ request[2] \notin Reserved
<1>1. PICK n \in Nat : n = Len(asks)
  OBVIOUS
<1>2. PICK more : more = Append(asks, request)
  OBVIOUS
<1>3. /\ DOMAIN asks = 1 .. n /\ DOMAIN more = 1 .. n + 1
      /\ more[n + 1] = request /\ \A k \in 1 .. n : asks[k] = more[k]
  BY <1>1, <1>2
<1>4. ASSUME NEW k \in 1 .. n
      PROVE  /\ asks[k] # <<"failed">>
             /\ asks[k][1] = "addr" =>
                  k > 1 /\ asks[k - 1] = <<"start">> /\ asks[k][2] \notin Reserved
  <2>1. k \in 1 .. n + 1 /\ (k > 1 => k - 1 \in 1 .. n)
    OBVIOUS
  <2>2. QED
    BY <1>2, <1>3, <2>1 DEF WellFormed
<1>5. WellFormed(asks)
  BY <1>3, <1>4 DEF WellFormed
<1>6. /\ request # <<"failed">>
      /\ request[1] = "addr" =>
           n + 1 > 1 /\ more[(n + 1) - 1] = <<"start">> /\ request[2] \notin Reserved
  <2>1. n + 1 \in DOMAIN more
    BY <1>3
  <2>2. WellFormed(more)
    BY <1>2
  <2>3. QED
    BY <1>3, <2>1, <2>2 DEF WellFormed
<1>7. request[1] = "addr" => n \in 1 .. n /\ (n + 1) - 1 = n
  BY <1>6
<1>8. QED
  BY <1>1, <1>3, <1>5, <1>6, <1>7

(* What one more command adds to a link, or one more call to what is asked. *)
LEMMA OneMore ==
  ASSUME NEW C, NEW sent \in Seq(C), NEW c \in C
  PROVE  /\ Append(sent, c) \in Seq(C)
         /\ Append(sent, c) # <<>>
         /\ Len(Append(sent, c)) = Len(sent) + 1
         /\ Append(sent, c)[Len(sent) + 1] = c
         /\ \A k \in 1 .. Len(sent) : Append(sent, c)[k] = sent[k]
         /\ sent \o <<c>> = Append(sent, c)
         /\ Heard(Append(sent, c)) = Heard(sent) \o Part(Append(sent, c), Len(sent) + 1)
<1>1. Heard(Append(sent, c)) = Heard(sent) \o Part(Append(sent, c), Len(sent) + 1)
  BY HeardAppend
<1>2. /\ Append(sent, c) \in Seq(C)
      /\ Append(sent, c) # <<>>
      /\ Len(Append(sent, c)) = Len(sent) + 1
      /\ Append(sent, c)[Len(sent) + 1] = c
  OBVIOUS
<1>3. \A k \in 1 .. Len(sent) : Append(sent, c)[k] = sent[k]
  OBVIOUS
<1>4. sent \o <<c>> = Append(sent, c)
  OBVIOUS
<1>5. QED
  BY <1>1, <1>2, <1>3, <1>4, Zenon

(* What one more is heard as, and how the sequence then ends, depends on   *)
(* how it ended before.                                                    *)
LEMMA LastPart ==
  ASSUME NEW C, NEW sent \in Seq(C), NEW c \in C
  PROVE  /\ Part(Append(sent, c), Len(sent) + 1) =
              IF c[1] = "byte" /\ EndsInStart(sent)
              THEN IF BeginsWide(c[2]) THEN <<>> ELSE <<NarrowHeard(c[2])>>
              ELSE IF c[1] = "byte" /\ EndsInHead(sent)
                   THEN <<WideHeard(sent[Len(sent)][2], c[2])>>
                   ELSE <<c>>
         /\ EndsInStart(Append(sent, c)) <=> c = <<"start">>
         /\ EndsInHead(Append(sent, c)) <=>
              EndsInStart(sent) /\ c[1] = "byte" /\ BeginsWide(c[2])
<1>1. PICK n \in Nat : n = Len(sent)
  OBVIOUS
<1>2. PICK more : more = Append(sent, c)
  OBVIOUS
<1>3. /\ more # <<>> /\ Len(more) = n + 1 /\ more[n + 1] = c
      /\ \A k \in 1 .. n : more[k] = sent[k]
  BY <1>1, <1>2
<1>4. sent # <<>> <=> n > 0
  BY <1>1
<1>5. n > 0 => n \in 1 .. n /\ more[n] = sent[n]
  BY <1>3
<1>6. (n + 1) - 1 = n /\ (n + 1 > 1 <=> n > 0)
  OBVIOUS
<1>7. StartsAddress(more, n + 1) <=> EndsInStart(sent) /\ c[1] = "byte"
  BY <1>1, <1>3, <1>4, <1>5, <1>6 DEF StartsAddress, EndsInStart
<1>8. StartsWide(more, n + 1) <=>
        EndsInStart(sent) /\ c[1] = "byte" /\ BeginsWide(c[2])
  BY <1>3, <1>7 DEF StartsWide
<1>9. n + 1 > 2 /\ StartsWide(more, n) <=> EndsInHead(sent)
  <2>1. n > 1 => n - 1 \in 1 .. n /\ more[n - 1] = sent[n - 1]
    BY <1>3
  <2>2. n > 1 => (StartsWide(more, n) <=> StartsWide(sent, n))
    BY <1>5, <2>1 DEF StartsWide, StartsAddress
  <2>3. StartsWide(sent, n) => n > 1
    BY DEF StartsWide, StartsAddress
  <2>4. n > 1 <=> n + 1 > 2
    OBVIOUS
  <2>5. QED
    BY <1>1, <1>4, <2>2, <2>3, <2>4 DEF EndsInHead
<1>10. Part(more, n + 1) =
         IF c[1] = "byte" /\ EndsInStart(sent)
         THEN IF BeginsWide(c[2]) THEN <<>> ELSE <<NarrowHeard(c[2])>>
         ELSE IF c[1] = "byte" /\ EndsInHead(sent)
              THEN <<WideHeard(sent[Len(sent)][2], c[2])>>
              ELSE <<c>>
  <2>1. EndsInHead(sent) => more[n] = sent[Len(sent)]
    BY <1>1, <1>4, <1>5 DEF EndsInHead
  <2>2. Part(more, n + 1) =
          IF StartsWide(more, n + 1) THEN <<>>
          ELSE IF StartsAddress(more, n + 1) THEN <<NarrowHeard(c[2])>>
          ELSE IF n + 1 > 2 /\ StartsWide(more, n) /\ c[1] = "byte"
               THEN <<WideHeard(more[n][2], c[2])>>
          ELSE <<c>>
    BY <1>3, <1>6 DEF Part
  <2>3. QED
    BY <1>7, <1>8, <1>9, <2>1, <2>2
<1>11. EndsInStart(more) <=> c = <<"start">>
  BY <1>3 DEF EndsInStart
<1>12. EndsInHead(more) <=> StartsWide(more, n + 1)
  BY <1>3 DEF EndsInHead
<1>13. QED
  BY <1>1, <1>2, <1>8, <1>10, <1>11, <1>12

(* A call that queues what it asks for, a START, a byte or data, is heard  *)
(* on the bus as among the calls.                                          *)
LEMMA PlainSays ==
  ASSUME NEW sent \in Seq(Commands), NEW asks \in Seq(Asks \cup {<<"stop">>}),
         Says(sent, asks),
         NEW c \in Commands, c \in Asks \cup {<<"stop">>}
  PROVE  Says(Append(sent, c), Append(asks, c))
<1>1. Heard(Append(sent, c)) = Heard(sent) \o Part(Append(sent, c), Len(sent) + 1)
  BY OneMore
<1>2. Heard(Append(asks, c)) = Heard(asks) \o Part(Append(asks, c), Len(asks) + 1)
  BY OneMore
<1>3. /\ Part(Append(sent, c), Len(sent) + 1) =
           IF c[1] = "byte" /\ EndsInStart(sent)
           THEN IF BeginsWide(c[2]) THEN <<>> ELSE <<NarrowHeard(c[2])>>
           ELSE IF c[1] = "byte" /\ EndsInHead(sent)
                THEN <<WideHeard(sent[Len(sent)][2], c[2])>>
                ELSE <<c>>
      /\ EndsInStart(Append(sent, c)) <=> c = <<"start">>
      /\ EndsInHead(Append(sent, c)) <=>
           EndsInStart(sent) /\ c[1] = "byte" /\ BeginsWide(c[2])
  BY LastPart
<1>4. /\ Part(Append(asks, c), Len(asks) + 1) =
           IF c[1] = "byte" /\ EndsInStart(asks)
           THEN IF BeginsWide(c[2]) THEN <<>> ELSE <<NarrowHeard(c[2])>>
           ELSE IF c[1] = "byte" /\ EndsInHead(asks)
                THEN <<WideHeard(asks[Len(asks)][2], c[2])>>
                ELSE <<c>>
      /\ EndsInStart(Append(asks, c)) <=> c = <<"start">>
      /\ EndsInHead(Append(asks, c)) <=>
           EndsInStart(asks) /\ c[1] = "byte" /\ BeginsWide(c[2])
  BY LastPart
<1>5. Append(sent, c)[Len(Append(sent, c))] = c /\ Append(asks, c)[Len(Append(asks, c))] = c
  OBVIOUS
<1>6. QED
  BY <1>1, <1>2, <1>3, <1>4, <1>5 DEF Says, EndAlike

(* What is heard is a sequence of parts.                                   *)
LEMMA HeardTyped ==
  ASSUME NEW C, NEW sent \in Seq(C)
  PROVE  \E A : Heard(sent) \in Seq(A)
<1>1. PICK n \in Nat : n = Len(sent) /\ DOMAIN sent = 1 .. n
  OBVIOUS
<1> DEFINE S == {Part(sent, k)[1] : k \in 1 .. n}
           parts == [k \in 1 .. n |-> Part(sent, k)]
<1>2. ASSUME NEW k \in 1 .. n PROVE Part(sent, k) \in Seq(S)
  <2>1. CASE Part(sent, k) = <<>>
    BY <2>1
  <2>2. ASSUME NEW y, Part(sent, k) = <<y>> PROVE Part(sent, k) \in Seq(S)
    <3>1. y = Part(sent, k)[1]
      BY <2>2
    <3>2. y \in S
      BY <3>1
    <3>3. QED
      BY <2>2, <3>2
  <2>3. QED
    BY <2>1, <2>2, PartShape
<1> HIDE DEF S
<1>3. parts \in Seq(Seq(S)) /\ <<>> \in Seq(S)
  BY <1>2
<1>4. FlattenSeq(parts) \in Seq(S)
  BY <1>3, FlattenAppend
<1>5. Heard(sent) \in Seq(S)
  BY <1>1, <1>4, HeardParts
<1>6. QED
  BY <1>5

(* A byte that does not begin like a 10-bit address, after START, is heard *)
(* as an address.                                                          *)
LEMMA NarrowAddressHeard ==
  ASSUME NEW sent \in Seq(Commands), EndsInStart(sent),
         NEW b \in 0 .. 255, ~BeginsWide(b)
  PROVE  LET more == sent \o << <<"byte", b>> >>
         IN  /\ Heard(more) = Heard(sent) \o <<NarrowHeard(b)>>
             /\ ~EndsInStart(more) /\ ~EndsInHead(more)
<1>1. PICK c \in Commands : c = <<"byte", b>>
  BY DEF Commands
<1>2. /\ sent \o <<c>> = Append(sent, c)
      /\ Heard(Append(sent, c)) = Heard(sent) \o Part(Append(sent, c), Len(sent) + 1)
  BY OneMore
<1>3. c[1] = "byte" /\ c[2] = b /\ c # <<"start">>
  BY <1>1
<1>4. /\ Part(Append(sent, c), Len(sent) + 1) = <<NarrowHeard(b)>>
      /\ ~EndsInStart(Append(sent, c)) /\ ~EndsInHead(Append(sent, c))
  BY <1>3, LastPart
<1>5. QED
  BY <1>1, <1>2, <1>4

(* One that does is heard with the byte that follows.                      *)
LEMMA WideAddressHeard ==
  ASSUME NEW sent \in Seq(Commands), EndsInStart(sent),
         NEW b \in 0 .. 255, BeginsWide(b), NEW d \in 0 .. 255
  PROVE  LET more == sent \o << <<"byte", b>>, <<"byte", d>> >>
         IN  /\ Heard(more) = Heard(sent) \o <<WideHeard(b, d)>>
             /\ ~EndsInStart(more) /\ ~EndsInHead(more)
<1>1. PICK head \in Commands : head = <<"byte", b>>
  BY DEF Commands
<1>2. PICK tail \in Commands : tail = <<"byte", d>>
  BY DEF Commands
<1>3. /\ head[1] = "byte" /\ head[2] = b /\ head # <<"start">>
      /\ tail[1] = "byte" /\ tail[2] = d /\ tail # <<"start">>
  BY <1>1, <1>2
<1>4. PICK more \in Seq(Commands) : more = Append(sent, head)
  BY OneMore, Zenon
<1>5. more[Len(more)] = head /\ sent \o <<head, tail>> = Append(more, tail)
  BY <1>4
<1>6. /\ Heard(more) = Heard(sent) \o Part(more, Len(sent) + 1)
      /\ Part(more, Len(sent) + 1) = <<>>
      /\ ~EndsInStart(more) /\ EndsInHead(more)
  <2>1. Heard(more) = Heard(sent) \o Part(more, Len(sent) + 1)
    BY <1>4, OneMore, Zenon
  <2>2. /\ Part(more, Len(sent) + 1) =
             IF head[1] = "byte" /\ EndsInStart(sent)
             THEN IF BeginsWide(head[2]) THEN <<>> ELSE <<NarrowHeard(head[2])>>
             ELSE IF head[1] = "byte" /\ EndsInHead(sent)
                  THEN <<WideHeard(sent[Len(sent)][2], head[2])>>
                  ELSE <<head>>
        /\ EndsInStart(more) <=> head = <<"start">>
        /\ EndsInHead(more) <=>
             EndsInStart(sent) /\ head[1] = "byte" /\ BeginsWide(head[2])
    BY <1>4, LastPart, Zenon
  <2>3. QED
    BY <1>3, <2>1, <2>2
<1>7. Heard(more) = Heard(sent)
  <2>1. PICK A : Heard(sent) \in Seq(A)
    BY HeardTyped
  <2>2. QED
    BY <1>6, <2>1, ConcatEmptySeq
<1>8. PICK all \in Seq(Commands) : all = Append(more, tail)
  BY OneMore, Zenon
<1>9. /\ Heard(all) = Heard(more) \o Part(all, Len(more) + 1)
      /\ Part(all, Len(more) + 1) = <<WideHeard(b, d)>>
      /\ ~EndsInStart(all) /\ ~EndsInHead(all)
  <2>1. Heard(all) = Heard(more) \o Part(all, Len(more) + 1)
    BY <1>8, OneMore, Zenon
  <2>2. /\ Part(all, Len(more) + 1) =
             IF tail[1] = "byte" /\ EndsInStart(more)
             THEN IF BeginsWide(tail[2]) THEN <<>> ELSE <<NarrowHeard(tail[2])>>
             ELSE IF tail[1] = "byte" /\ EndsInHead(more)
                  THEN <<WideHeard(more[Len(more)][2], tail[2])>>
                  ELSE <<tail>>
        /\ EndsInStart(all) <=> tail = <<"start">>
        /\ EndsInHead(all) <=>
             EndsInStart(more) /\ tail[1] = "byte" /\ BeginsWide(tail[2])
    BY <1>8, LastPart, Zenon
  <2>3. QED
    BY <1>3, <1>5, <1>6, <2>1, <2>2
<1>10. QED
  BY <1>1, <1>2, <1>5, <1>7, <1>8, <1>9

(* A call that returns true makes the link say what it was asked for.      *)
LEMMA SaysMore ==
  ASSUME NEW sent \in Seq(Commands), NEW asks \in Seq(Asks), Says(sent, asks),
         NEW request \in Requests, request[1] = "addr" => Valid(request[2]),
         WellFormed(Append(asks, request))
  PROVE  Says(sent \o CommandsOf(request), Append(asks, request))
<1>1. request \in Asks
  BY DEF Asks
<1>2. CASE request[1] # "addr"
  <2>1. CommandsOf(request) = <<request>>
    BY <1>2 DEF CommandsOf
  <2>2. request \in Commands
    BY <1>2, PlainRequests
  <2>3. asks \in Seq(Asks \cup {<<"stop">>})
    OBVIOUS
  <2>4. Says(Append(sent, request), Append(asks, request))
    BY <1>1, <2>2, <2>3, PlainSays
  <2>5. sent \o <<request>> = Append(sent, request)
    BY <2>2, OneMore
  <2>6. QED
    BY <2>1, <2>4, <2>5
<1>3. CASE request[1] = "addr"
  <2>1. PICK a \in Addresses : request = <<"addr", a[1], a[2]>>
    BY <1>3 DEF Requests
  <2>2. PICK device \in 0 .. 1023, read \in {0, 1} : request = <<"addr", device, read>>
    <3>1. PICK device \in Nat, read \in {0, 1} : a = <<device, read>>
      BY I2CAssumption
    <3>2. request = <<"addr", device, read>>
      BY <2>1, <3>1
    <3>3. Valid(device)
      BY <1>3, <3>2
    <3>4. device \in 0 .. 1023
      BY <3>3 DEF Valid
    <3>5. QED
      BY <3>2, <3>4
  <2>3. EndsInStart(asks) /\ device \notin Reserved
    <3>1. request[2] = device
      BY <2>2
    <3>2. /\ asks # <<>> /\ asks[Len(asks)] = <<"start">>
          /\ request[2] \notin Reserved
      BY <1>1, <1>3, WellFormedAppend, ZenonT(30)
    <3>3. QED
      BY <3>1, <3>2 DEF EndsInStart
  <2>4. EndsInStart(sent)
    BY <2>3 DEF Says, EndAlike
  <2>5. CommandsOf(request) = AddressCommands(device, read)
    BY <1>3, <2>2 DEF CommandsOf
  <2>6. PICK more : more = sent \o AddressCommands(device, read)
    OBVIOUS
  <2>7. /\ Heard(more) = Heard(sent) \o <<request>>
        /\ ~EndsInStart(more) /\ ~EndsInHead(more)
    <3>1. CASE ~Wide(device)
      <4>1. /\ NarrowByte(device, read) \in 0 .. 255
            /\ ~BeginsWide(NarrowByte(device, read))
            /\ NarrowHeard(NarrowByte(device, read)) = request
        <5>1. /\ NarrowByte(device, read) \in 0 .. 255
              /\ ~BeginsWide(NarrowByte(device, read))
              /\ NarrowHeard(NarrowByte(device, read)) = <<"addr", device, read>>
          BY <2>3, <3>1, AddressHeard, ZenonT(30)
        <5>2. QED
          BY <2>2, <5>1
      <4>2. PICK b \in 0 .. 255 : b = NarrowByte(device, read)
        BY <4>1
      <4>3. AddressCommands(device, read) = << <<"byte", b>> >>
        BY <3>1, <4>2 DEF AddressCommands
      <4>4. QED
        BY <2>4, <2>6, <4>1, <4>2, <4>3, NarrowAddressHeard
    <3>2. CASE Wide(device)
      <4>1. /\ WideHead(device, read) \in 0 .. 255 /\ WideTail(device) \in 0 .. 255
            /\ BeginsWide(WideHead(device, read))
            /\ WideHeard(WideHead(device, read), WideTail(device)) = request
        <5>1. /\ BeginsWide(WideHead(device, read))
              /\ WideHeard(WideHead(device, read), WideTail(device))
                   = <<"addr", device, read>>
          BY <2>3, <3>2, AddressHeard, ZenonT(30)
        <5>2. /\ WideHead(device, read) \in 0 .. 255
              /\ WideTail(device) \in 0 .. 255
          BY AddressBytes, ZenonT(60)
        <5>3. QED
          BY <2>2, <5>1, <5>2
      <4>2. PICK b \in 0 .. 255, d \in 0 .. 255 :
              b = WideHead(device, read) /\ d = WideTail(device)
        BY <4>1
      <4>3. AddressCommands(device, read) = << <<"byte", b>>, <<"byte", d>> >>
        BY <3>2, <4>2 DEF AddressCommands
      <4>4. BeginsWide(b) /\ WideHeard(b, d) = request
        BY <4>1, <4>2
      <4>5. /\ Heard(sent \o << <<"byte", b>>, <<"byte", d>> >>)
                 = Heard(sent) \o <<WideHeard(b, d)>>
            /\ ~EndsInStart(sent \o << <<"byte", b>>, <<"byte", d>> >>)
            /\ ~EndsInHead(sent \o << <<"byte", b>>, <<"byte", d>> >>)
        BY <2>4, <4>4, WideAddressHeard
      <4>6. QED
        BY <2>6, <4>3, <4>4, <4>5
    <3>3. QED
      BY <3>1, <3>2
  <2>8. /\ Heard(Append(asks, request)) = Heard(asks) \o <<request>>
        /\ ~EndsInStart(Append(asks, request)) /\ ~EndsInHead(Append(asks, request))
    <3>1. request[1] # "byte" /\ request # <<"start">>
      BY <2>2
    <3>2. /\ Part(Append(asks, request), Len(asks) + 1) =
               IF request[1] = "byte" /\ EndsInStart(asks)
               THEN IF BeginsWide(request[2]) THEN <<>> ELSE <<NarrowHeard(request[2])>>
               ELSE IF request[1] = "byte" /\ EndsInHead(asks)
                    THEN <<WideHeard(asks[Len(asks)][2], request[2])>>
                    ELSE <<request>>
          /\ EndsInStart(Append(asks, request)) <=> request = <<"start">>
          /\ EndsInHead(Append(asks, request)) <=>
               EndsInStart(asks) /\ request[1] = "byte" /\ BeginsWide(request[2])
      BY <1>1, LastPart, Zenon
    <3>3. Heard(Append(asks, request))
            = Heard(asks) \o Part(Append(asks, request), Len(asks) + 1)
      BY <1>1, HeardAppend, ZenonT(60)
    <3>4. QED
      BY <3>1, <3>2, <3>3
  <2>9. QED
    BY <2>5, <2>6, <2>7, <2>8 DEF Says, EndAlike
<1>4. QED
  BY <1>2, <1>3

(* What a transaction that is stopped puts on the bus.                     *)
LEMMA StopHeard ==
  ASSUME NEW sent \in Seq(Commands), NEW asks \in Seq(Asks), Says(sent, asks)
  PROVE  Heard(Append(sent, <<"stop">>)) = Heard(Append(asks, <<"stop">>))
<1>1. PICK c \in Commands : c = <<"stop">>
  BY DEF Commands
<1>2. asks \in Seq(Asks \cup {<<"stop">>})
  OBVIOUS
<1>3. QED
  BY <1>1, <1>2, PlainSays DEF Says

(* write_to and read_from queue their parts one after the other.           *)
LEMMA TransferParts ==
  ASSUME NEW sent \in Seq(Commands), NEW s \in Seq(Commands),
         NEW a \in Seq(Commands), NEW d \in Seq(Commands),
         NEW device, NEW read, Valid(device), s = << <<"start">> >>,
         a = AddressCommands(device, read), d = <<Data(read)>>,
         NEW asks, Says(((sent \o s) \o a) \o d, asks)
  PROVE  Says(sent \o TransferCommands(device, read), asks)
<1>1. TransferCommands(device, read) = (s \o a) \o d
  BY DEF TransferCommands
<1>2. (sent \o s) \o a = sent \o (s \o a)
  OBVIOUS
<1>3. PICK both \in Seq(Commands) : both = s \o a
  <2>1. s \o a \in Seq(Commands)
    OBVIOUS
  <2>2. QED
    BY <2>1, Zenon
<1>4. (sent \o both) \o d = sent \o (both \o d)
  OBVIOUS
<1>5. QED
  BY <1>1, <1>2, <1>3, <1>4

(* write_to and read_from after what was asked before.                     *)
LEMMA TransferSays ==
  ASSUME NEW sent \in Seq(Commands), NEW asks \in Seq(Asks),
         WellFormed(asks) => Says(sent, asks),
         NEW device \in Nat, NEW read \in {0, 1}, <<device, read>> \in Addresses,
         Valid(device), WellFormed(asks \o Transfer(device, read))
  PROVE  Says(sent \o TransferCommands(device, read), asks \o Transfer(device, read))
<1>1. PICK start \in Requests : start = <<"start">>
  BY DEF Requests
<1>2. PICK addr \in Requests : addr = <<"addr", device, read>>
  <2>1. PICK a \in Addresses : a = <<device, read>>
    OBVIOUS
  <2>2. a[1] = device /\ a[2] = read
    BY <2>1
  <2>3. QED
    BY <2>2 DEF Requests
<1>3. PICK data \in Requests : data = Data(read) /\ data[1] # "addr"
  <2>1. Data(read) = <<"read">> \/ Data(read) = <<"write">>
    BY DEF Data
  <2>2. QED
    BY <2>1 DEF Requests
<1>4. /\ CommandsOf(start) = << <<"start">> >> /\ CommandsOf(data) = <<Data(read)>>
      /\ CommandsOf(addr) = AddressCommands(device, read)
  BY <1>1, <1>2, <1>3 DEF CommandsOf
<1>5. /\ CommandsOf(start) \in Seq(Commands) /\ CommandsOf(data) \in Seq(Commands)
      /\ CommandsOf(addr) \in Seq(Commands)
  BY <1>1, <1>2, <1>3, CommandsTyped
<1>6. PICK first : first = Append(asks, start)
  OBVIOUS
<1>7. PICK second : second = Append(first, addr)
  OBVIOUS
<1>8. start \in Asks /\ addr \in Asks /\ data \in Asks
  BY DEF Asks
<1>9. first \in Seq(Asks) /\ second \in Seq(Asks)
  BY <1>6, <1>7, <1>8
<1>10. asks \o Transfer(device, read) = Append(second, data)
  <2>1. asks \o <<start, addr, data>> = Append(second, data)
    BY <1>6, <1>7, <1>8
  <2>2. QED
    BY <1>1, <1>2, <1>3, <2>1 DEF Transfer
<1>11. WellFormed(second)
  BY <1>8, <1>9, <1>10, WellFormedAppend
<1>12. WellFormed(first)
  BY <1>7, <1>8, <1>9, <1>11, WellFormedAppend
<1>13. WellFormed(asks)
  BY <1>6, <1>8, <1>12, WellFormedAppend
<1>14. Says(sent \o CommandsOf(start), first)
  BY <1>1, <1>6, <1>12, <1>13, SaysMore
<1>15. sent \o CommandsOf(start) \in Seq(Commands)
  BY <1>5
<1>16. Says((sent \o CommandsOf(start)) \o CommandsOf(addr), second)
  BY <1>2, <1>7, <1>9, <1>11, <1>14, <1>15, SaysMore
<1>17. (sent \o CommandsOf(start)) \o CommandsOf(addr) \in Seq(Commands)
  BY <1>5, <1>15
<1>18. Says(((sent \o CommandsOf(start)) \o CommandsOf(addr)) \o CommandsOf(data),
            Append(second, data))
  BY <1>3, <1>9, <1>10, <1>16, <1>17, SaysMore
<1>19. QED
  BY <1>4, <1>5, <1>10, <1>18, TransferParts

-----------------------------------------------------------------------------
(* Queueing: without memory for a link nothing is queued; otherwise some   *)
(* or all of the commands follow those of the link, or of a new one.       *)
LEMMA QueuedIs ==
  ASSUME NEW S, NEW cmd, cmd \in Seq(S) \/ cmd = NoLink,
         NEW commands \in Seq(S), NEW q \in Queued(cmd, commands)
  PROVE  \/ q.cmd = NoLink /\ cmd = NoLink /\ q.count = 0
         \/ \E c \in Seq(S) :
              /\ cmd = NoLink => c = <<>>
              /\ cmd # NoLink => c = cmd
              /\ q.cmd \in Seq(S) /\ q.count \in 0 .. Len(commands)
              /\ q.count = Len(commands) => q.cmd = c \o commands
              /\ q.count = 0 => q.cmd = c
<1>1. PICK c \in WithLink(cmd) :
        q \in IF c = NoLink THEN {[cmd |-> NoLink, count |-> 0]}
              ELSE {[cmd |-> c \o SubSeq(commands, 1, n), count |-> n]
                      : n \in 0 .. Len(commands)}
  BY DEF Queued
<1>2. CASE c = NoLink
  <2>1. cmd = NoLink
    BY <1>1, <1>2 DEF WithLink
  <2>2. QED
    BY <1>1, <1>2, <2>1
<1>3. CASE c # NoLink
  <2>1. PICK n \in 0 .. Len(commands) :
          q = [cmd |-> c \o SubSeq(commands, 1, n), count |-> n]
    BY <1>1, <1>3
  <2>2. /\ c \in Seq(S) /\ (cmd # NoLink => c = cmd)
        /\ cmd = NoLink => c = <<>>
    <3>1. <<>> \in Seq(S)
      OBVIOUS
    <3>2. QED
      BY <1>1, <1>3, <3>1 DEF WithLink
  <2>3. /\ q.count = n /\ q.cmd = c \o SubSeq(commands, 1, n)
        /\ q.cmd \in Seq(S)
    <3>1. SubSeq(commands, 1, n) \in Seq(S)
      BY <2>1
    <3>2. c \o SubSeq(commands, 1, n) \in Seq(S)
      BY <2>2, <3>1
    <3>3. QED
      BY <2>1, <3>2
  <2>4. n = Len(commands) => SubSeq(commands, 1, n) = commands
    OBVIOUS
  <2>5. n = 0 => SubSeq(commands, 1, n) = <<>>
    OBVIOUS
  <2>6. c \o <<>> = c
    BY <2>2, ConcatEmptySeq
  <2>7. QED
    BY <2>2, <2>3, <2>4, <2>5, <2>6
<1>4. QED
  BY <1>2, <1>3

(* A link that is not there says nothing, as does a new one.               *)
LEMMA NewLinkSays == Says(<<>>, <<>>)
  BY DEF Says, EndAlike, EndsInStart, EndsInHead

LEMMA LinkSays ==
  ASSUME AskedInv, NEW s \in Slots, NEW c,
         host_cmd[s] = NoLink => c = <<>>, host_cmd[s] # NoLink => c = host_cmd[s],
         WellFormed(asked[s])
  PROVE  Says(c, asked[s])
<1>1. CASE host_cmd[s] = NoLink
  BY <1>1, NewLinkSays DEF AskedInv
<1>2. CASE host_cmd[s] # NoLink
  BY <1>2 DEF AskedInv
<1>3. QED
  BY <1>1, <1>2

(* A request leaves a link that says what was asked for with it, or what   *)
(* was before, or it is known to have failed halfway.                      *)
LEMMA RequestAsked ==
  ASSUME IInv, AskedInv, NEW t \in Threads, NEW i \in Interfaces,
         NEW request \in Requests, Request(t, i, request)
  PROVE  AskedInv'
<1>1. PICK s \in Slots : s = <<t, i>>
  BY DEF Slots
<1>2. request[1] = "addr" => Valid(request[2])
  BY DEF Request
<1>3. PICK commands \in Seq(Commands) : commands = CommandsOf(request)
  BY <1>2, CommandsTyped
<1>4. PICK q \in Queued(host_cmd[s], commands) :
        /\ host_cmd' = [host_cmd EXCEPT ![s] = q.cmd]
        /\ asked' = [asked EXCEPT ![s] =
             IF q.count = Len(commands) THEN Append(@, request)
             ELSE IF q.count = 0 THEN @ ELSE Append(@, <<"failed">>)]
  BY <1>1, <1>3 DEF Request
<1>5. Len(commands) \in Nat \ {0}
  <2>1. CommandsOf(request) # <<>>
    BY DEF CommandsOf, AddressCommands
  <2>2. QED
    BY <1>3, <2>1, EmptySeq
<1>6. /\ host_cmd[s] \in Seq(Commands) \/ host_cmd[s] = NoLink
      /\ asked[s] \in Seq(Asks)
      /\ host_cmd'[s] = q.cmd
      /\ asked'[s] = IF q.count = Len(commands) THEN Append(asked[s], request)
                     ELSE IF q.count = 0 THEN asked[s]
                     ELSE Append(asked[s], <<"failed">>)
      /\ \A r \in Slots : r # s => host_cmd'[r] = host_cmd[r] /\ asked'[r] = asked[r]
  BY <1>4 DEF IInv, TypeOK, Asks
<1>7. IF q.cmd = NoLink THEN asked'[s] = <<>>
      ELSE WellFormed(asked'[s]) => Says(q.cmd, asked'[s])
  <2>1. CASE q.cmd = NoLink /\ host_cmd[s] = NoLink /\ q.count = 0
    BY <1>5, <1>6, <2>1 DEF AskedInv
  <2>2. ASSUME NEW c \in Seq(Commands),
               host_cmd[s] = NoLink => c = <<>>, host_cmd[s] # NoLink => c = host_cmd[s],
               q.cmd \in Seq(Commands), q.count \in 0 .. Len(commands),
               q.count = Len(commands) => q.cmd = c \o commands,
               q.count = 0 => q.cmd = c
        PROVE  IF q.cmd = NoLink THEN asked'[s] = <<>>
               ELSE WellFormed(asked'[s]) => Says(q.cmd, asked'[s])
    <3>1. CASE q.count = Len(commands)
      <4>1. q.cmd # NoLink
        BY <2>2, I2CAssumption
      <4>2. ASSUME WellFormed(Append(asked[s], request))
            PROVE  Says(c \o CommandsOf(request), Append(asked[s], request))
        <5>1. WellFormed(asked[s])
          BY <1>6, <4>2, WellFormedAppend DEF Asks
        <5>2. Says(c, asked[s])
          BY <2>2, <5>1, LinkSays
        <5>3. QED
          BY <1>2, <1>6, <4>2, <5>2, SaysMore
      <4>3. QED
        BY <1>3, <1>6, <2>2, <3>1, <4>1, <4>2
    <3>2. CASE q.count = 0
      <4>1. q.cmd = c /\ asked'[s] = asked[s] /\ q.cmd # NoLink
        BY <1>5, <1>6, <2>2, <3>2, I2CAssumption
      <4>2. QED
        BY <2>2, <4>1, LinkSays
    <3>3. CASE q.count # Len(commands) /\ q.count # 0
      <4>1. asked'[s] = Append(asked[s], <<"failed">>)
        BY <1>6, <3>3
      <4>2. ~WellFormed(Append(asked[s], <<"failed">>))
        BY <1>6, WellFormedAppend DEF Asks
      <4>3. q.cmd # NoLink
        BY <2>2, I2CAssumption
      <4>4. QED
        BY <4>1, <4>2, <4>3
    <3>4. QED
      BY <3>1, <3>2, <3>3
  <2>3. QED
    <3>1. \/ q.cmd = NoLink /\ host_cmd[s] = NoLink /\ q.count = 0
          \/ \E c \in Seq(Commands) :
               /\ host_cmd[s] = NoLink => c = <<>>
               /\ host_cmd[s] # NoLink => c = host_cmd[s]
               /\ q.cmd \in Seq(Commands) /\ q.count \in 0 .. Len(commands)
               /\ q.count = Len(commands) => q.cmd = c \o commands
               /\ q.count = 0 => q.cmd = c
      BY <1>6, QueuedIs
    <3>2. QED
      BY <2>1, <2>2, <3>1
<1>8. QED
  BY <1>6, <1>7 DEF AskedInv

(* A process that ends has no links any more; the other steps touch none.  *)
LEMMA ProcessAsked ==
  ASSUME IInv, AskedInv, NEW t \in Threads,
         \/ ProcessStep(t)
         \/ \E i \in Interfaces : \E pair \in Lines : HostInit(t, i, pair)
  PROVE  AskedInv' /\ bus' = Quiet
<1>1. CASE EndProcess(t)
  <2>1. bus' = Quiet
    BY <1>1 DEF EndProcess
  <2>2. ASSUME NEW s \in Slots
        PROVE  \/ host_cmd'[s] = NoLink /\ asked'[s] = <<>>
               \/ host_cmd'[s] = host_cmd[s] /\ asked'[s] = asked[s]
    BY <1>1 DEF EndProcess
  <2>3. QED
    BY <2>1, <2>2 DEF AskedInv
<1>2. CASE StartProcess(t) \/ MapBuffer(t) \/ UnmapBuffer(t)
           \/ \E i \in Interfaces : \E pair \in Lines : HostInit(t, i, pair)
  <2>1. asked' = asked /\ host_cmd' = host_cmd /\ bus' = Quiet
    BY <1>2 DEF StartProcess, MapBuffer, UnmapBuffer, HostInit
  <2>2. QED
    BY <2>1 DEF AskedInv
<1>3. QED
  BY <1>1, <1>2 DEF ProcessStep

LEMMA FinishAsked ==
  ASSUME IInv, AskedInv, NEW s \in Slots, NEW sent, NEW asks, Finish(s, sent, asks)
  PROVE  AskedInv'
<1>1. host_cmd'[s] = NoLink /\ asked'[s] = <<>>
  BY DEF Finish, IInv, TypeOK
<1>2. \A r \in Slots : r # s => host_cmd'[r] = host_cmd[r] /\ asked'[r] = asked[r]
  BY DEF Finish, IInv, TypeOK
<1>3. QED
  BY <1>1, <1>2 DEF AskedInv

(* What goes on the bus is what the calls that returned true asked for.    *)
LEMMA StopWhole ==
  ASSUME IInv, AskedInv, NEW t \in Threads, NEW i \in Interfaces, Stop(t, i)
  PROVE  SuccessIsWhole'
<1>1. PICK s \in Slots : s = <<t, i>>
  BY DEF Slots
<1>2. PICK sent \in Performed(i, host_cmd[s]) : Finish(s, sent, asked[s])
  BY <1>1 DEF Stop
<1>3. CASE sent = <<>>
  BY <1>2, <1>3 DEF Finish, SuccessIsWhole
<1>4. CASE sent # <<>>
  <2>1. PICK c \in WithLink(host_cmd[s]) \ {NoLink} : sent = Append(c, <<"stop">>)
    BY <1>2, <1>4 DEF Performed
  <2>2. /\ host_cmd[s] = NoLink => c = <<>>
        /\ host_cmd[s] # NoLink => c = host_cmd[s]
    BY <2>1 DEF WithLink
  <2>3. c \in Seq(Commands) /\ asked[s] \in Seq(Asks)
    <3>1. <<>> \in Seq(Commands)
      OBVIOUS
    <3>2. QED
      BY <2>2, <3>1 DEF IInv, TypeOK, Asks
  <2>4. ASSUME WellFormed(asked[s])
        PROVE  Heard(sent) = Heard(Append(asked[s], <<"stop">>))
    BY <2>1, <2>2, <2>3, <2>4, LinkSays, StopHeard
  <2>5. bus' = [sent |-> sent, asked |-> asked[s]]
    BY <1>2, <1>4 DEF Finish
  <2>6. bus'.sent = sent /\ bus'.asked = asked[s]
    BY <2>5
  <2>7. QED
    BY <2>4, <2>6 DEF SuccessIsWhole
<1>5. QED
  BY <1>3, <1>4

LEMMA TransactWhole ==
  ASSUME IInv, AskedInv, NEW t \in Threads, NEW i \in Interfaces, NEW a \in Addresses,
         Transact(t, i, a[1], a[2])
  PROVE  AskedInv' /\ SuccessIsWhole'
<1>1. PICK s \in Slots : s = <<t, i>>
  BY DEF Slots
<1>2. PICK device \in Nat, read \in {0, 1} : a = <<device, read>>
  BY I2CAssumption
<1>3. a[1] = device /\ a[2] = read /\ <<device, read>> \in Addresses
  BY <1>2
<1>4. PICK commands : commands = TransferCommands(device, read)
  OBVIOUS
<1>5. PICK asks : asks = asked[s] \o Transfer(device, read)
  OBVIOUS
<1>6. PICK q \in Queued(host_cmd[s], commands) :
        \E sent \in Performed(i, q.cmd) :
          Finish(s, IF Valid(device) /\ q.count = Len(commands) THEN sent ELSE <<>>, asks)
  BY <1>1, <1>3, <1>4, <1>5 DEF Transact
<1>7. PICK sent \in Performed(i, q.cmd) :
        Finish(s, IF Valid(device) /\ q.count = Len(commands) THEN sent ELSE <<>>, asks)
  BY <1>6
<1>8. AskedInv'
  BY <1>7, FinishAsked
<1>9. CASE ~(Valid(device) /\ q.count = Len(commands)) \/ sent = <<>>
  <2>1. bus' = Quiet
    BY <1>7, <1>9 DEF Finish
  <2>2. QED
    BY <1>8, <2>1 DEF SuccessIsWhole
<1>10. CASE Valid(device) /\ q.count = Len(commands) /\ sent # <<>>
  <2>1. commands \in Seq(Commands) /\ commands # <<>>
    <3>1. AddressCommands(device, read) \in Seq(Commands)
      <4>1. PICK request \in Requests : request = <<"addr", device, read>>
        BY <1>3 DEF Requests
      <4>2. CommandsOf(request) = AddressCommands(device, read)
        BY <4>1 DEF CommandsOf
      <4>3. QED
        BY <1>10, <4>1, <4>2, CommandsTyped
    <3>2. << <<"start">> >> \in Seq(Commands) /\ <<Data(read)>> \in Seq(Commands)
      BY DEF Commands, Data
    <3>3. commands = << <<"start">> >> \o AddressCommands(device, read) \o <<Data(read)>>
      BY <1>4, <1>10 DEF TransferCommands
    <3>4. QED
      BY <3>1, <3>2, <3>3
  <2>2. host_cmd[s] \in Seq(Commands) \/ host_cmd[s] = NoLink
    BY DEF IInv, TypeOK
  <2>3. asked[s] \in Seq(Asks)
    BY DEF IInv, TypeOK, Asks
  <2>4. PICK c \in Seq(Commands) :
          /\ host_cmd[s] = NoLink => c = <<>>
          /\ host_cmd[s] # NoLink => c = host_cmd[s]
          /\ q.cmd \in Seq(Commands) /\ q.count \in 0 .. Len(commands)
          /\ q.count = Len(commands) => q.cmd = c \o commands
          /\ q.count = 0 => q.cmd = c
    <3>1. Len(commands) \in Nat \ {0}
      BY <2>1, EmptySeq
    <3>2. q.count # 0
      BY <1>10, <3>1
    <3>3. QED
      BY <2>1, <2>2, <3>2, QueuedIs
  <2>5. sent = Append(q.cmd, <<"stop">>)
    BY <1>7, <1>10, <2>4, I2CAssumption DEF Performed, WithLink
  <2>6. ASSUME WellFormed(asks) PROVE Heard(sent) = Heard(Append(asks, <<"stop">>))
    <3>1. WellFormed(asked[s]) => Says(c, asked[s])
      BY <2>4, LinkSays
    <3>2. Says(c \o TransferCommands(device, read), asked[s] \o Transfer(device, read))
      BY <1>3, <1>5, <1>10, <2>3, <2>6, <3>1, TransferSays
    <3>3. Says(q.cmd, asks)
      BY <1>4, <1>5, <1>10, <2>4, <3>2
    <3>4. asks \in Seq(Asks)
      <4>1. Transfer(device, read) \in Seq(Asks)
        <5>1. /\ <<"start">> \in Requests /\ Data(read) \in Requests
              /\ <<"addr", device, read>> \in Requests
          BY <1>3 DEF Requests, Data
        <5>2. QED
          BY <5>1 DEF Transfer, Asks
      <4>2. QED
        BY <1>5, <2>3, <4>1
    <3>5. QED
      BY <2>4, <2>5, <3>3, <3>4, StopHeard
  <2>7. bus' = [sent |-> sent, asked |-> asks]
    BY <1>7, <1>10 DEF Finish
  <2>8. bus'.sent = sent /\ bus'.asked = asks
    BY <2>7
  <2>9. QED
    BY <1>8, <2>6, <2>8 DEF SuccessIsWhole
<1>11. QED
  BY <1>9, <1>10

(* When a call returns true, the bus has carried what was asked for.       *)
THEOREM SuccessIsWholeAlways == Spec => []SuccessIsWhole
<1>1. Init => AskedInv /\ SuccessIsWhole
  BY DEF Init, AskedInv, SuccessIsWhole
<1>2. ASSUME IInv, AskedInv, SuccessIsWhole, [Next]_vars
      PROVE  AskedInv' /\ SuccessIsWhole'
  <2>1. CASE UNCHANGED vars
    <3>1. host_cmd' = host_cmd /\ asked' = asked /\ bus' = bus
      BY <2>1 DEF vars
    <3>2. QED
      BY <1>2, <3>1 DEF AskedInv, SuccessIsWhole
  <2>2. ASSUME NEW t \in Threads,
               \/ ProcessStep(t)
               \/ \E i \in Interfaces : \E pair \in Lines : HostInit(t, i, pair)
        PROVE  AskedInv' /\ SuccessIsWhole'
    <3>1. AskedInv' /\ bus' = Quiet
      BY <1>2, <2>2, ProcessAsked
    <3>2. QED
      BY <3>1 DEF SuccessIsWhole
  <2>3. ASSUME NEW t \in Threads, NEW i \in Interfaces, NEW request \in Requests,
               Request(t, i, request)
        PROVE  AskedInv' /\ SuccessIsWhole'
    <3>1. AskedInv'
      BY <1>2, <2>3, RequestAsked
    <3>2. bus' = Quiet
      BY <2>3 DEF Request
    <3>3. QED
      BY <3>1, <3>2 DEF SuccessIsWhole
  <2>4. ASSUME NEW t \in Threads, NEW i \in Interfaces, Stop(t, i)
        PROVE  AskedInv' /\ SuccessIsWhole'
    <3>1. AskedInv'
      BY <1>2, <2>4, FinishAsked DEF Stop, Slots
    <3>2. QED
      BY <1>2, <2>4, <3>1, StopWhole
  <2>5. ASSUME NEW t \in Threads, NEW i \in Interfaces, NEW a \in Addresses,
               Transact(t, i, a[1], a[2])
        PROVE  AskedInv' /\ SuccessIsWhole'
    BY <1>2, <2>5, TransactWhole
  <2>6. QED
    BY <1>2, <2>1, <2>2, <2>3, <2>4, <2>5 DEF Next, HostCall, Ended
<1>3. QED
  BY <1>1, <1>2, Invariance, PTL DEF Spec
=============================================================================
