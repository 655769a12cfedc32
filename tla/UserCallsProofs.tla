-------------------------- MODULE UserCallsProofs --------------------------
(***************************************************************************)
(* Proofs about VectorTable and UserCalls, for tables and heaps anywhere,  *)
(* any exports and any number of processes. The theorems on the calls are  *)
(* for one host: UserCallsTwoHosts.cfg shows what two do.                  *)
(***************************************************************************)
EXTENDS UserCalls, TLAPS

-----------------------------------------------------------------------------
(* Division by a positive number: there is a quotient and a remainder.     *)
LEMMA Division ==
  ASSUME NEW x \in Int, NEW a \in Nat \ {0}
  PROVE  /\ x \div a \in Int /\ x % a \in 0 .. a - 1
         /\ x = a * (x \div a) + (x % a)
  OBVIOUS

(* There is only one of each.                                              *)
LEMMA DivisionUnique ==
  ASSUME NEW a \in Nat \ {0}, NEW p \in Int, NEW q \in Int,
         NEW r \in 0 .. a - 1, NEW s \in 0 .. a - 1, a * p + r = a * q + s
  PROVE  p = q /\ r = s
<1>1. a * (p - q) = s - r
  OBVIOUS
<1>2. p = q
  <2>1. CASE p > q
    <3>1. a * (p - q) >= a
      BY <2>1
    <3>2. QED
      BY <3>1, <1>1
  <2>2. CASE p < q
    <3>1. a * (q - p) >= a
      BY <2>2
    <3>2. QED
      BY <3>1, <1>1
  <2>3. QED
    BY <2>1, <2>2
<1>3. QED
  BY <1>1, <1>2

(* A number between -m and m - 1, divided by m, is its sign.               *)
LEMMA DivisionSign ==
  ASSUME NEW m \in Nat \ {0}, NEW x \in -m .. m - 1
  PROVE  x \div m = -1 \/ x \div m = 0
<1> DEFINE q == x \div m
<1>1. q \in Int /\ x % m \in 0 .. m - 1 /\ x = m * q + (x % m)
  BY Division
<1> HIDE DEF q
<1>2. q < 1
  <2>1. SUFFICES ASSUME q >= 1 PROVE FALSE
    BY <1>1
  <2>2. m * q >= m
    BY <2>1, <1>1
  <2>3. QED
    BY <2>2, <1>1
<1>3. q > -2
  <2>1. SUFFICES ASSUME q <= -2 PROVE FALSE
    BY <1>1
  <2>2. m * (-q) >= m * 2
    BY <2>1, <1>1
  <2>3. QED
    BY <2>2, <1>1
<1>4. QED
  BY <1>1, <1>2, <1>3 DEF q

(* Dividing twice is dividing by the product.                              *)
LEMMA DivisionTwice ==
  ASSUME NEW x \in Int, NEW a \in Nat \ {0}, NEW b \in Nat \ {0},
         NEW c \in Nat \ {0}, c = a * b
  PROVE  /\ x \div c = (x \div a) \div b
         /\ x % c = a * ((x \div a) % b) + (x % a)
<1>1. PICK q \in Int, r \in 0 .. a - 1 :
         q = x \div a /\ r = x % a /\ x = a * q + r
  BY Division
<1>2. PICK p \in Int, s \in 0 .. b - 1 :
         p = q \div b /\ s = q % b /\ q = b * p + s
  BY Division
<1>3. PICK d \in Int, t \in 0 .. c - 1 :
         d = x \div c /\ t = x % c /\ x = c * d + t
  BY Division
<1>4. a * q = c * p + a * s
  <2>1. a * q = a * (b * p) + a * s
    BY <1>2
  <2>2. a * (b * p) = (a * b) * p
    OBVIOUS
  <2>3. QED
    BY <2>1, <2>2
<1>5. a * s + r \in 0 .. c - 1
  <2>1. a * s >= 0 /\ a * s \in Int
    OBVIOUS
  <2>2. a * s <= a * (b - 1)
    OBVIOUS
  <2>3. a * (b - 1) = c - a
    OBVIOUS
  <2>4. QED
    BY <2>1, <2>2, <2>3
<1>6. c * p + (a * s + r) = c * d + t
  <2>1. a * s \in Int /\ c * p \in Int /\ r \in Int
    OBVIOUS
  <2>2. x = (c * p + a * s) + r
    BY <1>1, <1>4
  <2>3. (c * p + a * s) + r = c * p + (a * s + r)
    BY <2>1
  <2>4. QED
    BY <1>3, <2>2, <2>3
<1>7. p = d /\ a * s + r = t
  BY <1>5, <1>6, DivisionUnique
<1>8. QED
  BY <1>1, <1>2, <1>3, <1>7

(* readJAL finds the offset writeJAL was given, if a jal can hold it.      *)
LEMMA JalRoundTrip ==
  ASSUME NEW x \in Int, Reachable(x)
  PROVE  ReadJAL(WriteJAL(x)) = x
<1>1. PICK m \in Nat \ {0} : m = JumpRange /\ m = 4096 * 256
  BY DEF JumpRange
<1>2. x % 2 = 0 /\ x \in -m .. m - 1
  <2>1. m = JumpRange
    BY <1>1
  <2>2. QED
    BY <2>1 DEF Reachable
<1>3. PICK i \in Int : i = (x \div 2) % 1024 /\ x % 2048 = 2 * i
  <2>1. x % 2048 = 2 * ((x \div 2) % 1024) + (x % 2)
    BY DivisionTwice
  <2>2. x \div 2 \in Int
    BY Division
  <2>3. (x \div 2) % 1024 \in Int
    BY <2>2, Division
  <2>4. QED
    BY <1>2, <2>1, <2>3
<1>4. PICK j \in Int : j = (x \div 2048) % 2 /\ x % 4096 = 2048 * j + 2 * i
  <2>1. x % 4096 = 2048 * ((x \div 2048) % 2) + (x % 2048)
    BY DivisionTwice
  <2>2. x \div 2048 \in Int
    BY Division
  <2>3. (x \div 2048) % 2 \in Int
    BY <2>2, Division
  <2>4. QED
    BY <1>3, <2>1, <2>3
<1>5. PICK k \in Int : /\ k = (x \div 4096) % 256
                       /\ x % m = 4096 * k + 2048 * j + 2 * i
  <2>1. x % m = 4096 * ((x \div 4096) % 256) + (x % 4096)
    <3> DEFINE a == 4096
               b == 256
    <3>1. a \in Nat \ {0} /\ b \in Nat \ {0} /\ m = a * b
      BY <1>1
    <3> HIDE DEF a, b
    <3>2. x % m = a * ((x \div a) % b) + (x % a)
      BY <3>1, DivisionTwice
    <3>3. QED
      BY <3>2 DEF a, b
  <2>2. x \div 4096 \in Int
    BY Division
  <2>3. (x \div 4096) % 256 \in Int
    BY <2>2, Division
  <2>4. QED
    BY <1>4, <2>1, <2>3
<1>6. PICK n \in {0, 1} : n = (x \div m) % 2 /\ x \div m = -n
  <2>1. x \div m = -1 \/ x \div m = 0
    BY <1>2, DivisionSign
  <2>2. ASSUME NEW q \in {-1, 0}
        PROVE  q % 2 = -q
    <3>1. q % 2 \in 0 .. 1 /\ q = 2 * (q \div 2) + (q % 2) /\ q \div 2 \in Int
      BY Division
    <3>2. QED
      BY <3>1
  <2>3. (x \div m) % 2 = -(x \div m)
    BY <2>1, <2>2
  <2>4. QED
    BY <2>1, <2>3
<1>7. x = m * (x \div m) + (x % m)
  BY Division
<1>8. m * (x \div m) = -(m * n)
  BY <1>6
<1>9. ReadJAL(WriteJAL(x)) = 2 * i + 2048 * j + 4096 * k - m * n
  <2>1. WriteJAL(x) = [imm20 |-> n, imm19_12 |-> k, imm11 |-> j, imm10_1 |-> i]
    BY <1>1, <1>3, <1>4, <1>5, <1>6 DEF WriteJAL
  <2>2. QED
    BY <1>1, <2>1 DEF ReadJAL
<1>10. m * n \in Int
  OBVIOUS
<1>11. QED
  BY <1>5, <1>7, <1>8, <1>9, <1>10

-----------------------------------------------------------------------------
(* The vector table is the firmware's until init has run, and what         *)
(* VectorsKeepHandlers says from then on.                                  *)
BootInv ==
  /\ booted \in {"no", "yes", "dead"}
  /\ booted = "no" =>
       vectors = [n \in Entries |-> WriteJAL(Handlers[n] - (Base + 4 * n))]
  /\ VectorsKeepHandlers
  /\ booted = "yes" => trap \in Nat

(* It holds when the firmware starts.                                      *)
LEMMA BootHolds == BootInit => BootInv
  BY DEF BootInit, BootInv, VectorsKeepHandlers

(* The entries of a table written by writeJAL jump to the handlers.        *)
LEMMA FirmwareTargets ==
  ASSUME vectors = [n \in Entries |-> WriteJAL(Handlers[n] - (Base + 4 * n))],
         NEW n \in Entries
  PROVE  Target(vectors, n) = Handlers[n]
<1>1. Base \in Nat /\ n \in Nat /\ Handlers[n] \in Nat
      /\ Reachable(Handlers[n] - (Base + 4 * n))
  BY VectorAssumption DEF Entries
<1>2. ReadJAL(vectors[n]) = Handlers[n] - (Base + 4 * n)
  <2>1. Handlers[n] - (Base + 4 * n) \in Int
    BY <1>1
  <2>2. QED
    BY <1>1, <2>1, JalRoundTrip
<1>3. QED
  BY <1>1, <1>2 DEF Target

(* init keeps what BootInv says.                                           *)
LEMMA InitKeepsHandlers ==
  ASSUME BootInv, NEW copy \in Copies, KernelInit(copy)
  PROVE  BootInv'
<1>1. /\ vectors = [n \in Entries |-> WriteJAL(Handlers[n] - (Base + 4 * n))]
      /\ vectors' = [vectors EXCEPT ![0] = WriteJAL(copy - Base)]
      /\ Base \in Nat /\ copy \in Nat /\ 0 \in Entries
  BY VectorAssumption DEF BootInv, KernelInit, Entries
<1>2. \A n \in Entries : Target(vectors, n) = Handlers[n]
  BY <1>1, FirmwareTargets
<1>3. \A n \in Entries \ {0} : Target(vectors', n) = Handlers[n]
  <2>1. \A n \in Entries \ {0} : vectors'[n] = vectors[n]
    BY <1>1
  <2>2. QED
    BY <1>2, <2>1 DEF Target
<1>4. Reachable(copy - Base) => Target(vectors', 0) = copy
  <2>1. vectors'[0] = WriteJAL(copy - Base) /\ copy - Base \in Int
    BY <1>1
  <2>2. Reachable(copy - Base) => ReadJAL(vectors'[0]) = copy - Base
    BY <2>1, JalRoundTrip
  <2>3. QED
    BY <1>1, <2>2 DEF Target
<1>5. defaultTrapHandler' = Handlers[0]
  <2>1. Base + ReadJAL(vectors[0]) = Target(vectors, 0)
    <3>1. ReadJAL(vectors[0]) = Handlers[0] - Base
      <4>1. Handlers[0] \in Nat /\ Reachable(Handlers[0] - Base)
        BY <1>1, VectorAssumption
      <4>2. vectors[0] = WriteJAL(Handlers[0] - Base)
        BY <1>1, <4>1
      <4>3. Handlers[0] - Base \in Int
        BY <1>1, <4>1
      <4>4. QED
        BY <4>1, <4>2, <4>3, JalRoundTrip
    <3>2. Handlers[0] \in Nat
      BY <1>1, VectorAssumption
    <3>3. QED
      BY <1>1, <3>1, <3>2 DEF Target
  <2>2. QED
    BY <1>1, <1>2, <2>1 DEF KernelInit
<1>6. /\ interruptVectorTable' = [n \in Entries |-> Target(vectors', n)]
      /\ trap' = copy /\ booted' = "yes"
  BY DEF KernelInit
<1>7. QED
  BY <1>1, <1>3, <1>4, <1>5, <1>6 DEF BootInv, VectorsKeepHandlers

(* No other step touches the table.                                        *)
LEMMA BootKept ==
  ASSUME BootInv, [Next]_vars
  PROVE  BootInv'
<1>1. ASSUME Boot PROVE BootInv'
  <2>1. PICK copy \in Copies : KernelInit(copy) \/ KernelInitFails(copy)
    BY <1>1 DEF Boot
  <2>2. CASE KernelInitFails(copy)
    BY <2>2 DEF KernelInitFails, BootInv, VectorsKeepHandlers
  <2>3. QED
    BY <2>1, <2>2, InitKeepsHandlers
<1>2. ASSUME UNCHANGED bootVars PROVE BootInv'
  BY <1>2 DEF BootInv, VectorsKeepHandlers, bootVars, Target
<1>3. Boot \/ UNCHANGED bootVars
  BY DEF Next, vars, Export, Fill, Wrap, Copy, TakeTable, Call, End
<1>4. QED
  BY <1>1, <1>2, <1>3

(* After init no handler of the firmware is lost, wherever table, handlers *)
(* and heap are.                                                           *)
THEOREM VectorsAlways == Spec => []VectorsKeepHandlers
<1>1. Init => BootInv
  BY BootHolds DEF Init
<1>2. BootInv /\ [Next]_vars => BootInv'
  BY BootKept
<1>3. BootInv => VectorsKeepHandlers
  BY DEF BootInv
<1>4. QED
  BY <1>1, <1>2, <1>3, PTL DEF Spec

-----------------------------------------------------------------------------
(* Types.                                                                  *)

(* What a group exports is a symbol for a function.                        *)
LEMMA ExportTypes ==
  /\ DOMAIN Exports = 1 .. Len(Exports) /\ Len(Exports) \in Nat
  /\ 1 \in DOMAIN Exports
  /\ \A g \in DOMAIN Exports, n \in Names :
       n \in DOMAIN Exports[g] => Function(Exports[g][n]) \in Symbols
<1>1. DOMAIN Exports = 1 .. Len(Exports) /\ Len(Exports) \in Nat
  BY ExportsAssumption
<1>2. 1 \in DOMAIN Exports
  BY <1>1, ExportsAssumption DEF Names
<1>3. ASSUME NEW g \in DOMAIN Exports, NEW n \in DOMAIN Exports[g]
      PROVE  Function(Exports[g][n]) \in Symbols
  <2>1. Exports[g] \in UNION {[S -> Functions] : S \in SUBSET Names}
    BY <1>1, <1>3, ExportsAssumption
  <2>2. PICK S \in SUBSET Names : Exports[g] \in [S -> Functions]
    BY <2>1
  <2>3. Exports[g][n] \in Functions
    BY <2>2, <1>3
  <2>4. QED
    BY <2>3 DEF Symbols
<1>4. QED
  BY <1>1, <1>2, <1>3

(* The table only grows, and with it the wrappers there can be.            *)
LEMMA SymbolsGrow ==
  ASSUME Len(abiTable) \in Nat, Len(abiTable') \in Nat,
         Len(abiTable) <= Len(abiTable')
  PROVE  Symbols \subseteq Symbols'
  BY DEF Symbols

LEMMA Types ==
  ASSUME TypeOK, [Next]_vars
  PROVE  TypeOK'
<1> USE DEF TypeOK
<1>0. Len(abiTable) \in Nat
  OBVIOUS
<1>1. CASE Boot
  BY <1>1 DEF Boot, callVars, KernelInit, KernelInitFails, Symbols
<1>2. ASSUME NEW h \in Hosts, Export(h) PROVE TypeOK'
  BY <1>2 DEF Export, bootVars, Symbols
<1>3. ASSUME NEW h \in Hosts, Fill(h) PROVE TypeOK'
  <2>1. host[h].group \in DOMAIN Exports
    OBVIOUS
  <2>2. cache' \in [Names -> Symbols]
    BY <1>3, <2>1, ExportTypes DEF Fill
  <2>3. host' \in [Hosts -> [pc : {"idle", "fill", "wrap", "copy"},
                             group : DOMAIN Exports, todo : SUBSET Names]]
    <3>1. host[h].group < Len(Exports) => host[h].group + 1 \in DOMAIN Exports
      BY <2>1, ExportTypes
    <3>2. QED
      BY <1>3, <3>1, ExportTypes DEF Fill
  <2>4. Symbols' = Symbols
    BY <1>3 DEF Fill, Symbols
  <2>5. QED
    BY <1>3, <2>2, <2>3, <2>4 DEF Fill, bootVars
<1>4. ASSUME NEW h \in Hosts, Wrap(h) PROVE TypeOK'
  <2>1. PICK n \in host[h].todo, memory \in BOOLEAN :
           /\ Wrapped(n, memory)
           /\ host' = [host EXCEPT ![h].todo = @ \ {n}]
    BY <1>4 DEF Wrap
  <2>2. n \in Names /\ cache[n] \in Symbols
    OBVIOUS
  <2>3. /\ abiTable' = Append(abiTable, cache[n])
        /\ Len(abiTable') = Len(abiTable) + 1
    BY <2>1, <2>2 DEF Wrapped
  <2>4. Symbols \subseteq Symbols'
    BY <1>0, <2>3, SymbolsGrow
  <2>5. abiTable' \in Seq(Symbols')
    <3>1. abiTable' \in Seq(Symbols)
      BY <2>2, <2>3
    <3>2. QED
      BY <2>4, <3>1
  <2>6. cache' \in [Names -> Symbols']
    <3>1. Null \in Symbols' /\ Wrapper(Len(abiTable)) \in Symbols'
      BY <1>0, <2>3 DEF Symbols
    <3>2. QED
      BY <2>1, <2>4, <3>1 DEF Wrapped
  <2>7. symbols' \in [Processes -> [Names -> Symbols']]
    <3>1. \A p \in Processes : symbols[p] \in [Names -> Symbols']
      BY <2>4
    <3>2. QED
      BY <1>4, <3>1 DEF Wrap
  <2>8. u_abi_size' \in [Processes -> 0 .. Len(abiTable')]
    BY <1>0, <1>4, <2>3 DEF Wrap
  <2>9. host' \in [Hosts -> [pc : {"idle", "fill", "wrap", "copy"},
                             group : DOMAIN Exports, todo : SUBSET Names]]
    BY <2>1
  <2>10. QED
    BY <1>4, <2>5, <2>6, <2>7, <2>8, <2>9 DEF Wrap, bootVars
<1>5. ASSUME NEW h \in Hosts, Copy(h) PROVE TypeOK'
  <2>1. Idle \in [pc : {"idle", "fill", "wrap", "copy"},
                  group : DOMAIN Exports, todo : SUBSET Names]
    BY ExportTypes DEF Idle
  <2>2. Symbols' = Symbols
    BY <1>5 DEF Copy, Symbols
  <2>3. symbols' \in [Processes -> [Names -> Symbols]]
    BY <1>5 DEF Copy
  <2>4. life' \in [Processes -> {"new", "ready", "running", "ended"}]
    BY <1>5 DEF Copy
  <2>5. QED
    BY <1>5, <2>1, <2>2, <2>3, <2>4 DEF Copy, bootVars
<1>6. ASSUME NEW p \in Processes, TakeTable(p) PROVE TypeOK'
  <2>1. Symbols' = Symbols
    BY <1>6 DEF TakeTable, Symbols
  <2>2. u_abi_size' \in [Processes -> 0 .. Len(abiTable)]
    BY <1>0, <1>6 DEF TakeTable
  <2>3. QED
    BY <1>6, <2>1, <2>2 DEF TakeTable, bootVars
<1>7. ASSUME NEW p \in Processes, Call(p) PROVE TypeOK'
  <2>0. PICK n \in Names : \E outcome \in Outcomes(p, n) :
           /\ life' = [life EXCEPT ![p] =
                         IF Terminates(outcome) THEN "ended" ELSE life[p]]
           /\ halted' = Halts(outcome)
    BY <1>7 DEF Call
  <2>1. PICK outcome \in Outcomes(p, n) :
           /\ life' = [life EXCEPT ![p] =
                         IF Terminates(outcome) THEN "ended" ELSE life[p]]
           /\ halted' = Halts(outcome)
    BY <2>0
  <2>2. Halts(outcome) \in BOOLEAN
    BY DEF Halts
  <2>3. life' \in [Processes -> {"new", "ready", "running", "ended"}]
    BY <2>1
  <2>4. Symbols' = Symbols
    BY <1>7 DEF Call, Symbols
  <2>5. halted' \in BOOLEAN
    BY <2>1, <2>2
  <2>6. QED
    BY <1>7, <2>3, <2>4, <2>5 DEF Call, bootVars
<1>8. ASSUME NEW p \in Processes, End(p) PROVE TypeOK'
  BY <1>8 DEF End, bootVars, Symbols
<1>9. CASE UNCHANGED vars
  BY <1>9 DEF vars, bootVars, callVars, Symbols
<1>10. QED
  BY <1>1, <1>2, <1>3, <1>4, <1>5, <1>6, <1>7, <1>8, <1>9 DEF Next

(* The types hold for any number of hosts.                                 *)
THEOREM TypeCorrect == Spec => []TypeOK
<1>1. Init => TypeOK
  <2>1. ASSUME Init PROVE TypeOK
    <3>1. Absent \in Symbols
      BY DEF Symbols
    <3>2. Len(abiTable) = 0 /\ abiTable \in Seq(Symbols)
      BY <2>1 DEF Init
    <3>3. host \in [Hosts -> [pc : {"idle", "fill", "wrap", "copy"},
                              group : DOMAIN Exports, todo : SUBSET Names]]
      BY <2>1, ExportTypes DEF Init, Idle
    <3>4. u_abi_size \in [Processes -> 0 .. Len(abiTable)]
      BY <2>1, <3>2 DEF Init
    <3>5. cache \in [Names -> Symbols] /\ symbols \in [Processes -> [Names -> Symbols]]
      BY <2>1, <3>1 DEF Init
    <3>6. life \in [Processes -> {"new", "ready", "running", "ended"}]
      BY <2>1 DEF Init
    <3>7. booted \in {"no", "yes", "dead"} /\ halted \in BOOLEAN
      BY <2>1 DEF Init, BootInit
    <3>8. QED
      BY <3>2, <3>3, <3>4, <3>5, <3>6, <3>7 DEF TypeOK
  <2>2. QED
    BY <2>1
<1>2. TypeOK /\ [Next]_vars => TypeOK'
  BY Types
<1>3. QED
  BY <1>1, <1>2, PTL DEF Spec

-----------------------------------------------------------------------------
(* One host. Until the cache is complete no process has been started; from *)
(* then on cache and table do not change.                                  *)
NoneStarted == \A p \in Processes : life[p] = "new"

Empty == NoneStarted /\ abiTable = <<>> /\ NeedsInit

Complete == \A n \in Names : IsWrapped(n, cache[n])

(* What the groups before g have filled: the last of them to export a name *)
(* has it.                                                                 *)
FilledTo(c, g) ==
  \A n \in Names :
    \/ c[n] = Absent /\ \A j \in 1 .. g - 1 : n \notin DOMAIN Exports[j]
    \/ \E k \in 1 .. g - 1 :
         /\ n \in DOMAIN Exports[k] /\ c[n] = Function(Exports[k][n])
         /\ \A j \in 1 .. g - 1 : n \in DOMAIN Exports[j] => j <= k

PhaseOf(h) ==
  /\ host[h].pc = "idle" => host[h].group = 1 /\ (Empty \/ Complete)
  /\ host[h].pc = "fill" => NoneStarted /\ abiTable = <<>>
                            /\ FilledTo(cache, host[h].group)
  /\ host[h].pc = "wrap" =>
       /\ NoneStarted
       /\ \A n \in Names : IF n \in host[h].todo
                             THEN cache[n] = Function(Named(n))
                             ELSE IsWrapped(n, cache[n])
  /\ host[h].pc = "copy" => Complete

Phase == \A h \in Hosts : PhaseOf(h)

BootFirst ==
  /\ (\E h \in Hosts : host[h].pc # "idle") => booted = "yes"
  /\ (\E p \in Processes : life[p] # "new") => booted = "yes"
  /\ reached # Nothing => booted = "yes"

(* What was called was started, so the table no longer changes.            *)
CallInv == /\ TypeOK /\ BootInv /\ Phase /\ BootFirst
           /\ SymbolsWrapped /\ TableStaysPut /\ CallReachesNamed

(* After the last group every name stands for its function.                *)
LEMMA AllFilled ==
  ASSUME NEW c, FilledTo(c, Len(Exports) + 1)
  PROVE  \A n \in Names : c[n] = Function(Named(n))
<1> SUFFICES ASSUME NEW n \in Names PROVE c[n] = Function(Named(n))
  OBVIOUS
<1> DEFINE Last_(k) == /\ n \in DOMAIN Exports[k]
                       /\ \A j \in DOMAIN Exports : n \in DOMAIN Exports[j] => j <= k
<1>1. DOMAIN Exports = 1 .. Len(Exports) /\ Len(Exports) \in Nat
      /\ Len(Exports) + 1 - 1 = Len(Exports)
  BY ExportTypes
<1>2. \E g \in DOMAIN Exports : n \in DOMAIN Exports[g]
  BY DEF Names
<1>3. PICK k \in DOMAIN Exports : Last_(k) /\ c[n] = Function(Exports[k][n])
  BY <1>1, <1>2 DEF FilledTo
<1>4. \A g \in DOMAIN Exports : Last_(g) => g = k
  BY <1>1, <1>3
<1>5. (CHOOSE g \in DOMAIN Exports : Last_(g)) = k
  BY <1>3, <1>4
<1>6. Named(n) = Exports[k][n]
  BY <1>5 DEF Named
<1>7. QED
  BY <1>3, <1>6

(* What an empty cache is to the first group.                              *)
LEMMA NothingFilled ==
  ASSUME NeedsInit PROVE FilledTo(cache, 1)
  BY DEF NeedsInit, FilledTo

(* One group more.                                                         *)
LEMMA OneMoreFilled ==
  ASSUME NEW g \in DOMAIN Exports, FilledTo(cache, g),
         NEW c, c = [n \in Names |-> IF n \in DOMAIN Exports[g]
                                     THEN Function(Exports[g][n]) ELSE cache[n]]
  PROVE  FilledTo(c, g + 1)
<1>1. g \in Nat \ {0} /\ g + 1 - 1 = g
  BY ExportTypes
<1> SUFFICES ASSUME NEW n \in Names
             PROVE  \/ /\ c[n] = Absent
                       /\ \A j \in 1 .. g : n \notin DOMAIN Exports[j]
                    \/ \E k \in 1 .. g :
                         /\ n \in DOMAIN Exports[k]
                         /\ c[n] = Function(Exports[k][n])
                         /\ \A j \in 1 .. g : n \in DOMAIN Exports[j] => j <= k
  BY <1>1 DEF FilledTo
<1>2. CASE n \in DOMAIN Exports[g]
  <2>1. c[n] = Function(Exports[g][n]) /\ g \in 1 .. g
    BY <1>1, <1>2
  <2>2. \A j \in 1 .. g : j <= g
    BY <1>1
  <2>3. QED
    BY <1>2, <2>1, <2>2
<1>3. CASE n \notin DOMAIN Exports[g]
  <2>1. c[n] = cache[n]
    BY <1>3
  <2>2. \A j \in 1 .. g : n \in DOMAIN Exports[j] => j \in 1 .. g - 1
    BY <1>1, <1>3
  <2>3. 1 .. g - 1 \subseteq 1 .. g
    BY <1>1
  <2>4. CASE cache[n] = Absent /\ \A j \in 1 .. g - 1 : n \notin DOMAIN Exports[j]
    BY <2>1, <2>2, <2>4
  <2>5. ASSUME NEW k \in 1 .. g - 1, n \in DOMAIN Exports[k],
               cache[n] = Function(Exports[k][n]),
               \A j \in 1 .. g - 1 : n \in DOMAIN Exports[j] => j <= k
        PROVE  \E i \in 1 .. g :
                 /\ n \in DOMAIN Exports[i]
                 /\ c[n] = Function(Exports[i][n])
                 /\ \A j \in 1 .. g : n \in DOMAIN Exports[j] => j <= i
    BY <2>1, <2>2, <2>3, <2>5
  <2>6. QED
    BY <2>4, <2>5 DEF FilledTo
<1>4. QED
  BY <1>2, <1>3

(* A complete cache is not empty.                                          *)
LEMMA CompleteNotEmpty ==
  ASSUME Complete PROVE ~NeedsInit
<1>1. \A n \in Names : cache[n] # Absent
  BY DEF Complete, IsWrapped, Absent, Null, Symbol
<1>2. QED
  BY <1>1, ExportsAssumption DEF NeedsInit

(* Once a process has been started the cache is complete and is left alone. *)
LEMMA Started ==
  ASSUME TypeOK, Phase, ~NoneStarted, NEW h \in Hosts
  PROVE  host[h].pc \in {"idle", "copy"} /\ Complete
<1>1. PhaseOf(h) /\ host[h].pc \in {"idle", "fill", "wrap", "copy"}
  BY DEF Phase, TypeOK
<1>2. QED
  BY <1>1 DEF PhaseOf, Empty

(* A symbol that is wrapped stays so when the table grows.                 *)
LEMMA WrappedStays ==
  ASSUME abiTable \in Seq(Symbols), NEW e, abiTable' = Append(abiTable, e),
         e \in Symbols, NEW n, NEW s \in Symbols, IsWrapped(n, s)
  PROVE  IsWrapped(n, s)'
<1>1. CASE s = Null
  BY <1>1 DEF IsWrapped
<1>2. CASE s.kind = "wrapper" /\ abiTable[s.of + 1] = Function(Named(n))
  <2>1. PICK i \in 0 .. Len(abiTable) - 1 : s = Wrapper(i)
    BY <1>2 DEF Symbols, Absent, Null, Function, Wrapper, Symbol
  <2>2. s.of = i
    BY <2>1 DEF Wrapper, Symbol
  <2>3. i + 1 \in 1 .. Len(abiTable) /\ Len(abiTable) \in Nat
    BY <2>1
  <2>4. abiTable'[i + 1] = abiTable[i + 1]
    BY <2>3
  <2>5. QED
    BY <1>2, <2>2, <2>4 DEF IsWrapped
<1>3. QED
  BY <1>1, <1>2 DEF IsWrapped

(* One entry more: the name is wrapped with the index of its function.     *)
LEMMA WrapStep ==
  ASSUME TypeOK, NEW h \in Hosts, PhaseOf(h), host[h].pc = "wrap",
         NEW n \in host[h].todo, NEW memory \in BOOLEAN, Wrapped(n, memory),
         host' = [host EXCEPT ![h].todo = @ \ {n}], UNCHANGED life
  PROVE  PhaseOf(h)'
<1>1. /\ NoneStarted' /\ n \in Names /\ cache[n] \in Symbols
      /\ cache[n] = Function(Named(n))
  BY DEF PhaseOf, NoneStarted, TypeOK
<1>2. abiTable' = Append(abiTable, cache[n]) /\ abiTable \in Seq(Symbols)
  BY DEF Wrapped, TypeOK
<1>3. host'[h].pc = "wrap" /\ host'[h].todo = host[h].todo \ {n}
  BY DEF TypeOK
<1>4. ASSUME NEW m \in Names
      PROVE  IF m \in host'[h].todo THEN cache'[m] = Function(Named(m))
                                    ELSE IsWrapped(m, cache[m])' \/ m = n
  <2>1. m # n => cache'[m] = cache[m]
    BY DEF Wrapped, TypeOK
  <2>2. m # n /\ m \in host[h].todo => cache'[m] = Function(Named(m))
    BY <2>1 DEF PhaseOf
  <2>3. m # n /\ m \notin host[h].todo => IsWrapped(m, cache[m])'
    <3>1. SUFFICES ASSUME m # n, m \notin host[h].todo
                   PROVE  IsWrapped(m, cache[m])'
      OBVIOUS
    <3>2. IsWrapped(m, cache[m]) /\ cache[m] \in Symbols
      BY <3>1 DEF PhaseOf, TypeOK
    <3>3. PICK s \in Symbols : s = cache[m]
      BY <3>2
    <3>4. IsWrapped(m, s)'
      BY <1>1, <1>2, <3>2, <3>3, WrappedStays
    <3>5. cache'[m] = s
      BY <2>1, <3>1, <3>3
    <3>6. QED
      BY <3>4, <3>5
  <2>4. QED
    BY <1>3, <2>2, <2>3
<1>5. IsWrapped(n, cache[n])'
  <2>1. CASE cache'[n] = Null
    BY <2>1 DEF IsWrapped
  <2>2. CASE cache'[n] = Wrapper(Len(abiTable))
    <3>1. cache'[n].kind = "wrapper" /\ cache'[n].of = Len(abiTable)
      BY <2>2 DEF Wrapper, Symbol
    <3>2. abiTable'[Len(abiTable) + 1] = cache[n]
      BY <1>1, <1>2
    <3>3. QED
      BY <1>1, <3>1, <3>2 DEF IsWrapped
  <2>3. QED
    BY <1>1, <2>1, <2>2 DEF Wrapped, TypeOK
<1>6. QED
  BY <1>1, <1>3, <1>4, <1>5 DEF PhaseOf

OneHost == \E h : Hosts = {h}

(* What the invariant says of the steps of the host.                       *)
LEMMA HostKeepsCalls ==
  ASSUME CallInv, NEW h, Hosts = {h}, Export(h) \/ Fill(h) \/ Wrap(h) \/ Copy(h)
  PROVE  Phase' /\ BootFirst' /\ SymbolsWrapped' /\ TableStaysPut'
<1>1. /\ TypeOK /\ h \in Hosts /\ PhaseOf(h) /\ host[h].group \in DOMAIN Exports
      /\ (host[h].pc # "idle" => booted = "yes")
  BY DEF CallInv, Phase, TypeOK, BootFirst
<1>2. SUFFICES PhaseOf(h)' /\ booted = "yes" /\ SymbolsWrapped' /\ TableStaysPut'
  <2>1. booted' = booted
    BY DEF Export, Fill, Wrap, Copy, bootVars
  <2>2. QED
    BY <2>1 DEF Phase, BootFirst
<1>3. CASE Export(h)
  <2>1. booted = "yes" /\ host[h].pc = "idle" /\ host[h].group = 1
    BY <1>1, <1>3 DEF Export, PhaseOf
  <2>2. PhaseOf(h)'
    <3>1. CASE NeedsInit
      <4>1. Empty /\ FilledTo(cache, 1)
        BY <1>1, <2>1, <3>1, NothingFilled, CompleteNotEmpty DEF PhaseOf
      <4>2. host'[h].pc = "fill" /\ host'[h].group = 1
        BY <1>1, <1>3, <2>1, <3>1 DEF Export, TypeOK
      <4>3. NoneStarted' /\ abiTable' = <<>> /\ cache' = cache
        BY <1>3, <4>1 DEF Export, Empty, NoneStarted
      <4>4. QED
        BY <4>1, <4>2, <4>3 DEF PhaseOf
    <3>2. CASE ~NeedsInit
      <4>1. Complete
        BY <1>1, <2>1, <3>2 DEF PhaseOf, Empty
      <4>2. host'[h].pc = "copy"
        BY <1>1, <1>3, <3>2 DEF Export, TypeOK
      <4>3. Complete'
        BY <1>3, <4>1 DEF Export, Complete, IsWrapped
      <4>4. QED
        BY <4>2, <4>3 DEF PhaseOf
    <3>3. QED
      BY <3>1, <3>2
  <2>3. SymbolsWrapped' /\ TableStaysPut'
    BY <1>3 DEF CallInv, Export, SymbolsWrapped, TableStaysPut, IsWrapped
  <2>4. QED
    BY <2>1, <2>2, <2>3
<1>4. CASE Fill(h)
  <2> DEFINE g == host[h].group
  <2>1. /\ NoneStarted /\ abiTable = <<>> /\ FilledTo(cache, g)
        /\ booted = "yes" /\ g \in DOMAIN Exports
    BY <1>1, <1>4 DEF Fill, PhaseOf
  <2>2. NoneStarted' /\ abiTable' = <<>>
    BY <1>4, <2>1 DEF Fill, NoneStarted
  <2>3. FilledTo(cache', g + 1)
    BY <1>4, <2>1, OneMoreFilled DEF Fill
  <2>4. PhaseOf(h)'
    <3>1. CASE g < Len(Exports)
      <4>1. host'[h].pc = "fill" /\ host'[h].group = g + 1
        BY <1>1, <1>4, <3>1 DEF Fill, TypeOK
      <4>2. QED
        BY <2>2, <2>3, <4>1 DEF PhaseOf
    <3>2. CASE ~(g < Len(Exports))
      <4>1. host'[h].pc = "wrap" /\ host'[h].todo = Names
        BY <1>1, <1>4, <3>2 DEF Fill, TypeOK
      <4>2. g + 1 = Len(Exports) + 1
        BY <2>1, <3>2, ExportTypes
      <4>3. \A n \in Names : cache'[n] = Function(Named(n))
        BY <2>3, <4>2, AllFilled
      <4>4. QED
        BY <2>2, <4>1, <4>3 DEF PhaseOf
    <3>3. QED
      BY <3>1, <3>2
  <2>5. SymbolsWrapped' /\ TableStaysPut'
    BY <2>2 DEF NoneStarted, SymbolsWrapped, TableStaysPut
  <2>6. QED
    BY <2>1, <2>4, <2>5
<1>5. CASE Wrap(h)
  <2>1. NoneStarted /\ booted = "yes"
    BY <1>1, <1>5 DEF Wrap, PhaseOf
  <2>2. NoneStarted' /\ UNCHANGED life
    BY <1>5, <2>1 DEF Wrap, NoneStarted
  <2>3. PhaseOf(h)'
    BY <1>1, <1>5, <2>2, WrapStep DEF Wrap
  <2>4. SymbolsWrapped' /\ TableStaysPut'
    BY <2>2 DEF NoneStarted, SymbolsWrapped, TableStaysPut
  <2>5. QED
    BY <2>1, <2>3, <2>4
<1>6. CASE Copy(h)
  <2>1. Complete /\ booted = "yes"
    BY <1>1, <1>6 DEF Copy, PhaseOf, Complete
  <2>2. Complete'
    BY <1>6, <2>1 DEF Copy, Complete, IsWrapped
  <2>3. PhaseOf(h)'
    <3>1. host'[h].pc = "idle" /\ host'[h].group = 1
      BY <1>1, <1>6 DEF Copy, Idle, TypeOK
    <3>2. QED
      BY <2>2, <3>1 DEF PhaseOf
  <2>4. SymbolsWrapped'
    <3>1. ASSUME NEW p \in Processes, NEW n \in Names, life'[p] # "new"
          PROVE  IsWrapped(n, symbols'[p][n])
      <4>1. CASE life' = life /\ symbols' = symbols
        BY <3>1, <4>1 DEF CallInv, SymbolsWrapped
      <4>2. ASSUME NEW q \in Processes, life[q] = "new",
                   life' = [life EXCEPT ![q] = "ready"],
                   symbols' = [symbols EXCEPT ![q] = cache]
            PROVE  IsWrapped(n, symbols'[p][n])
        <5>1. CASE p = q
          BY <1>1, <2>1, <4>2, <5>1 DEF Complete, TypeOK
        <5>2. CASE p # q
          BY <1>1, <3>1, <4>2, <5>2 DEF CallInv, SymbolsWrapped, TypeOK
        <5>3. QED
          BY <5>1, <5>2
      <4>3. QED
        BY <1>6, <4>1, <4>2 DEF Copy
    <3>2. abiTable' = abiTable
      BY <1>6 DEF Copy
    <3>3. QED
      BY <3>1, <3>2 DEF SymbolsWrapped, IsWrapped
  <2>5. TableStaysPut'
    BY <1>1, <1>6 DEF CallInv, Copy, TableStaysPut, TypeOK
  <2>6. QED
    BY <2>1, <2>3, <2>4, <2>5
<1>7. QED
  BY <1>3, <1>4, <1>5, <1>6

(* A call by name of a running process, if the trap comes to the kernel.   *)
LEMMA CallStep ==
  ASSUME TypeOK, SymbolsWrapped, TableStaysPut, VectorsKeepHandlers,
         booted = "yes", Reachable(trap - Base),
         NEW p \in Processes, life[p] = "running", NEW n \in Names,
         NEW outcome \in Outcomes(p, n), outcome.what # Null
  PROVE  /\ outcome.name = n /\ outcome.by = "kernel"
         /\ outcome.what = Function(Named(n))
<1>1. IsWrapped(n, symbols[p][n]) /\ symbols[p][n] \in Symbols
      /\ u_abi_size[p] = Len(abiTable) /\ Target(vectors, 0) = trap
  BY DEF SymbolsWrapped, TableStaysPut, VectorsKeepHandlers, TypeOK
<1>2. symbols[p][n] # Null
  <2>1. SUFFICES ASSUME symbols[p][n] = Null PROVE FALSE
    OBVIOUS
  <2>2. outcome = [name |-> n, by |-> "user", what |-> Null]
    BY <2>1 DEF Outcomes, Null, Symbol
  <2>3. QED
    BY <2>2
<1>3. /\ symbols[p][n].kind = "wrapper"
      /\ abiTable[symbols[p][n].of + 1] = Function(Named(n))
  BY <1>1, <1>2 DEF IsWrapped
<1>4. PICK i \in 0 .. Len(abiTable) - 1 : symbols[p][n].of = i
  <2>1. PICK i \in 0 .. Len(abiTable) - 1 : symbols[p][n] = Wrapper(i)
    BY <1>1, <1>3 DEF Symbols, Absent, Null, Function, Wrapper, Symbol
  <2>2. QED
    BY <2>1 DEF Wrapper, Symbol
<1>5. i < u_abi_size[p] /\ Entry(p, i) = {Function(Named(n))}
  <2>1. Len(abiTable) \in Nat
    BY DEF TypeOK
  <2>2. QED
    BY <1>1, <1>3, <1>4, <2>1 DEF Entry
<1>6. outcome = [name |-> n, by |-> "kernel", what |-> Function(Named(n))]
  BY <1>1, <1>3, <1>4, <1>5 DEF Outcomes
<1>7. QED
  BY <1>6

(* What it says of the steps of a process.                                 *)
LEMMA ProcessKeepsCalls ==
  ASSUME CallInv, NEW p \in Processes, TakeTable(p) \/ Call(p) \/ End(p)
  PROVE  Phase' /\ BootFirst' /\ SymbolsWrapped' /\ TableStaysPut'
         /\ CallReachesNamed'
<1>1. /\ life[p] # "new" /\ TypeOK /\ booted = "yes"
      /\ UNCHANGED <<bootVars, cache, abiTable, host, symbols>>
      /\ ~NoneStarted
  BY DEF CallInv, TakeTable, Call, End, BootFirst, NoneStarted
<1>2. \A q \in Processes : life'[q] # "new" => life[q] # "new"
  BY <1>1 DEF TakeTable, Call, End, TypeOK
<1>3. Phase'
  <2>1. SUFFICES ASSUME NEW h \in Hosts PROVE PhaseOf(h)'
    BY <1>1 DEF Phase
  <2>2. host[h].pc \in {"idle", "copy"} /\ Complete /\ PhaseOf(h)
    BY <1>1, Started DEF CallInv, Phase
  <2>3. Complete'
    BY <1>1, <2>2 DEF Complete, IsWrapped
  <2>4. QED
    BY <1>1, <2>2, <2>3 DEF PhaseOf
<1>4. BootFirst'
  BY <1>1 DEF BootFirst, bootVars
<1>5. SymbolsWrapped'
  BY <1>1, <1>2 DEF CallInv, SymbolsWrapped, IsWrapped
<1>6. TableStaysPut'
  BY <1>1 DEF CallInv, TableStaysPut, TakeTable, Call, End, TypeOK
<1>7. CallReachesNamed'
  <2>1. CASE reached' = reached
    BY <1>1, <2>1 DEF CallInv, CallReachesNamed, bootVars
  <2>2. CASE Call(p)
    <3>1. PICK n \in Names : \E outcome \in Outcomes(p, n) : reached' = outcome
      BY <2>2 DEF Call
    <3>2. reached' \in Outcomes(p, n) /\ life[p] = "running" /\ trap' = trap
      BY <1>1, <2>2, <3>1 DEF Call, bootVars
    <3>3. PICK outcome \in Outcomes(p, n) : outcome = reached'
      BY <3>2
    <3>4. Reachable(trap - Base) /\ outcome.what # Null =>
            /\ outcome.name = n /\ outcome.by = "kernel"
            /\ outcome.what = Function(Named(n))
      BY <1>1, <3>2, CallStep DEF CallInv, BootInv
    <3>5. QED
      BY <3>2, <3>3, <3>4 DEF CallReachesNamed
  <2>3. QED
    BY <2>1, <2>2 DEF TakeTable, End
<1>8. QED
  BY <1>3, <1>4, <1>5, <1>6, <1>7

(* CallInv is inductive for one host.                                      *)
LEMMA CallsKept ==
  ASSUME OneHost, CallInv, [Next]_vars
  PROVE  CallInv'
<1>1. TypeOK' /\ BootInv'
  BY Types, BootKept DEF CallInv
<1>2. CASE Boot
  <2>1. UNCHANGED callVars /\ booted = "no"
    BY <1>2 DEF Boot, KernelInit, KernelInitFails
  <2>2. /\ reached = Nothing /\ NoneStarted
        /\ \A h \in Hosts : host[h].pc = "idle"
    BY <2>1 DEF CallInv, BootFirst, NoneStarted
  <2>3. Phase'
    BY <2>1 DEF CallInv, Phase, PhaseOf, Empty, Complete, FilledTo, NoneStarted,
                NeedsInit, IsWrapped, callVars
  <2>4. BootFirst' /\ CallReachesNamed' /\ SymbolsWrapped' /\ TableStaysPut'
    BY <2>1, <2>2 DEF BootFirst, CallReachesNamed, SymbolsWrapped, TableStaysPut,
                      NoneStarted, callVars
  <2>5. QED
    BY <1>1, <2>3, <2>4 DEF CallInv
<1>3. ASSUME NEW h \in Hosts, Export(h) \/ Fill(h) \/ Wrap(h) \/ Copy(h)
      PROVE  CallInv'
  <2>1. Hosts = {h}
    BY <1>3 DEF OneHost
  <2>2. Phase' /\ BootFirst' /\ SymbolsWrapped' /\ TableStaysPut'
    BY <1>3, <2>1, HostKeepsCalls
  <2>3. CallReachesNamed'
    BY <1>3 DEF CallInv, CallReachesNamed, Export, Fill, Wrap, Copy, bootVars
  <2>4. QED
    BY <1>1, <2>2, <2>3 DEF CallInv
<1>4. ASSUME NEW p \in Processes, TakeTable(p) \/ Call(p) \/ End(p)
      PROVE  CallInv'
  BY <1>1, <1>4, ProcessKeepsCalls DEF CallInv
<1>5. CASE UNCHANGED vars
  <2>1. UNCHANGED callVars /\ UNCHANGED bootVars
    BY <1>5 DEF vars
  <2>2. Phase'
    BY <2>1 DEF CallInv, Phase, PhaseOf, Empty, Complete, FilledTo, NoneStarted,
                NeedsInit, IsWrapped, callVars
  <2>3. BootFirst' /\ SymbolsWrapped' /\ TableStaysPut' /\ CallReachesNamed'
    BY <2>1 DEF CallInv, BootFirst, SymbolsWrapped, TableStaysPut, CallReachesNamed,
                IsWrapped, callVars, bootVars
  <2>4. QED
    BY <1>1, <2>2, <2>3 DEF CallInv
<1>6. QED
  BY <1>2, <1>3, <1>4, <1>5 DEF Next

(* It holds at first.                                                      *)
LEMMA CallsHold ==
  ASSUME Init, TypeOK PROVE CallInv
<1>1. BootInv
  BY BootHolds DEF Init
<1>2. NoneStarted /\ Empty
  BY DEF Init, NoneStarted, Empty, NeedsInit
<1>3. Phase
  BY <1>2 DEF Init, Phase, PhaseOf, Idle
<1>4. BootFirst
  BY DEF Init, BootFirst, Idle
<1>5. SymbolsWrapped /\ TableStaysPut /\ CallReachesNamed
  BY DEF Init, SymbolsWrapped, TableStaysPut, CallReachesNamed
<1>6. QED
  BY <1>1, <1>3, <1>4, <1>5 DEF CallInv

(* With one host everything CallInv says holds always.                     *)
LEMMA CallsAlways ==
  ASSUME OneHost PROVE Spec => []CallInv
<1>1. Init /\ TypeOK => CallInv
  BY CallsHold
<1>2. CallInv /\ [Next]_vars => CallInv'
  BY CallsKept
<1>3. QED
  BY <1>1, <1>2, TypeCorrect, PTL DEF Spec

(* With one host a program is only linked to wrappers of what it asked     *)
(* for, or to null.                                                        *)
THEOREM SymbolsWrappedAlways == ASSUME OneHost PROVE Spec => []SymbolsWrapped
<1>1. CallInv => SymbolsWrapped
  BY DEF CallInv
<1>2. QED
  BY <1>1, CallsAlways, PTL

(* With one host the table a running process was given is never grown.     *)
THEOREM TableStaysPutAlways == ASSUME OneHost PROVE Spec => []TableStaysPut
<1>1. CallInv => TableStaysPut
  BY DEF CallInv
<1>2. QED
  BY <1>1, CallsAlways, PTL

(* With one host a call by name runs the function of that name.            *)
THEOREM CallReachesNamedAlways == ASSUME OneHost PROVE Spec => []CallReachesNamed
<1>1. CallInv => CallReachesNamed
  BY DEF CallInv
<1>2. QED
  BY <1>1, CallsAlways, PTL
=============================================================================
