---------------------------- MODULE RunnerProofs ----------------------------
(***************************************************************************)
(* Proofs about Runner, for any files and what they need, any memory and   *)
(* any number of starts. Those that need more than that say so: one host,  *)
(* or an exportSymbols that does not fail.                                 *)
(***************************************************************************)
EXTENDS Runner, FiniteSetTheorems, TLAPS

-----------------------------------------------------------------------------
(* Types. No number beyond MaxStarts is given out because a call of        *)
(* newContext that has begun has a start of its own: of the starts so far, *)
(* those that have yet to write nextPID back are not counted in it.        *)

LoadType ==
  [pc : HostPCs, pid : Pids \cup {0}, file : Names \cup Builtin \cup {""},
   files : Seq(Names), libs : SUBSET (Names \cup Builtin), fds : SUBSET Names]

TaskType ==
  [pc : TaskPCs, pid : Pids \cup {0}, thread : Pids \cup {0}, files : Seq(Names)]

MemTypes ==
  heap \subseteq Blocks /\ Live \subseteq Pids /\ owned \in [Live -> SUBSET Blocks]

HostTypes ==
  /\ registered \subseteq Libraries
  /\ load \in [Hosts -> LoadType]
  /\ open \in [Hosts -> SUBSET Names]

TaskTypes == tasks \in [Tasks -> TaskType] /\ frame \in [Pids -> Tasks \cup {0}]

Counters ==
  nextPID \in Nat \ {0} /\ starts \in 0 .. MaxStarts /\ halted \in BOOLEAN

Creating == {h \in Hosts : load[h].pc \in {"number", "insert"}}

NumbersGiven ==
  /\ IsFiniteSet(Creating)
  /\ nextPID + Cardinality(Creating) <= starts + 1
  /\ \A h \in Hosts :
       At(h, "insert") =>
         load[h].pid # 0 /\ load[h].pid + Cardinality(Creating) <= starts + 1

TypeInv == MemTypes /\ HostTypes /\ TaskTypes /\ Counters /\ NumbersGiven

(* A call of newContext that has begun has a number in the bounds.         *)
LEMMA NumberInBounds ==
  ASSUME TypeInv
  PROVE  /\ nextPID <= starts + 1 /\ Cardinality(Creating) \in Nat
         /\ \A h \in Hosts :
              /\ At(h, "number") => nextPID \in Pids
              /\ At(h, "insert") => load[h].pid \in Pids
<1> USE RunnerAssumption
<1>1. Cardinality(Creating) \in Nat
  BY FS_CardinalityType DEF TypeInv, NumbersGiven
<1>2. ASSUME NEW h \in Creating PROVE Cardinality(Creating) # 0
  BY <1>2, FS_EmptySet DEF TypeInv, NumbersGiven
<1>3. nextPID <= starts + 1
  BY <1>1 DEF TypeInv, NumbersGiven, Counters
<1>4. ASSUME NEW h \in Hosts, At(h, "number") PROVE nextPID \in Pids
  <2>1. Cardinality(Creating) # 0
    BY <1>2, <1>4 DEF Creating, At
  <2>2. QED
    BY <1>1, <2>1 DEF TypeInv, NumbersGiven, Counters, Pids
<1>5. ASSUME NEW h \in Hosts, At(h, "insert") PROVE load[h].pid \in Pids
  <2>1. Cardinality(Creating) # 0
    BY <1>2, <1>5 DEF Creating, At
  <2>2. load[h].pid \in Pids \cup {0}
    BY DEF TypeInv, HostTypes, LoadType
  <2>3. QED
    BY <1>1, <1>5, <2>1, <2>2 DEF TypeInv, NumbersGiven, Counters, Pids
<1>6. QED
  BY <1>1, <1>3, <1>4, <1>5

LEMMA TypeInvImplies == TypeInv => TypeOK
<1> SUFFICES ASSUME TypeInv PROVE TypeOK
  OBVIOUS
<1>1. nextPID \in 1 .. starts + 1
  BY NumberInBounds, RunnerAssumption DEF TypeInv, Counters
<1>2. QED
  BY <1>1
     DEF TypeInv, MemTypes, HostTypes, LoadType, TaskTypes, TaskType, Counters, TypeOK

LEMMA Beginnings == NoLoad \in LoadType /\ NoTask \in TaskType
<1>1. <<>> \in Seq(Names)
  OBVIOUS
<1>2. NoLoad \in LoadType
  BY <1>1 DEF NoLoad, LoadType, HostPCs
<1>3. NoTask \in TaskType
  BY <1>1 DEF NoTask, TaskType, TaskPCs
<1>4. QED
  BY <1>2, <1>3

LEMMA TypeInit == Init => TypeInv
<1> SUFFICES ASSUME Init PROVE TypeInv
  OBVIOUS
<1>1. \A h \in Hosts : load[h].pc = "idle"
  BY DEF Init, NoLoad
<1>2. Creating = {}
  BY <1>1 DEF Creating
<1>3. NumbersGiven
  BY <1>1, <1>2, FS_EmptySet DEF Init, NumbersGiven, At
<1>4. MemTypes
  BY DEF Init, Mem!Init, MemTypes, Live
<1>5. HostTypes
  BY Beginnings DEF Init, HostTypes
<1>6. TaskTypes
  BY Beginnings DEF Init, TaskTypes
<1>7. Counters
  <2>1. halted \in BOOLEAN
    BY DEF Init
  <2>2. nextPID \in Nat \ {0} /\ starts \in 0 .. MaxStarts
    BY RunnerAssumption DEF Init
  <2>3. QED
    BY <2>1, <2>2 DEF Counters
<1>8. QED
  BY <1>3, <1>4, <1>5, <1>6, <1>7 DEF TypeInv

(* Whatever is done to memory, it stays in its types.                      *)
LEMMA MemoryTyped ==
  ASSUME MemTypes, NEW p, NEW b,
         Mem!Create(p) \/ Mem!MapBlock(p, b) \/ Mem!UnmapBlock(p, b) \/ Mem!Delete(p)
  PROVE  MemTypes'
<1>1. CASE Mem!Create(p)
  BY <1>1 DEF Mem!Create, Mem!Live, MemTypes, Live
<1>2. CASE Mem!MapBlock(p, b)
  BY <1>2 DEF Mem!MapBlock, Mem!Live, MemTypes, Live
<1>3. CASE Mem!UnmapBlock(p, b)
  BY <1>3 DEF Mem!UnmapBlock, Mem!Live, MemTypes, Live
<1>4. CASE Mem!Delete(p)
  BY <1>4 DEF Mem!Delete, Mem!Live, MemTypes, Live
<1>5. QED
  BY <1>1, <1>2, <1>3, <1>4

(* Most steps have nothing to do with newContext.                          *)
LEMMA NumbersKept ==
  ASSUME TypeInv, UNCHANGED <<nextPID, starts, halted>>,
         \A h \in Hosts :
           \/ load'[h] = load[h]
           \/ load[h].pc \notin {"number", "insert"}
                /\ load'[h].pc \notin {"number", "insert"}
  PROVE  Counters' /\ NumbersGiven'
<1>1. Creating' = Creating
  BY DEF Creating
<1>2. NumbersGiven'
  BY <1>1 DEF TypeInv, NumbersGiven, At
<1>3. QED
  BY <1>2 DEF TypeInv, Counters

LEMMA ReadTyped ==
  ASSUME TypeInv, NEW h \in Hosts, ReadPID(h)
  PROVE  TypeInv'
<1>1. At(h, "number") /\ nextPID \in Pids
  BY NumberInBounds DEF ReadPID
<1>2. MemTypes' /\ TaskTypes' /\ Counters'
  BY DEF TypeInv, ReadPID, MemTypes, Live, TaskTypes, Counters
<1>3. HostTypes'
  <2> DEFINE l == [load[h] EXCEPT !.pid = nextPID, !.pc = "insert"]
  <2>1. load[h] \in LoadType
    BY DEF TypeInv, HostTypes
  <2>2. l \in LoadType
    BY <1>1, <2>1 DEF LoadType, HostPCs
  <2>3. load' = [load EXCEPT ![h] = l]
    BY DEF TypeInv, HostTypes, ReadPID
  <2>4. QED
    BY <2>2, <2>3 DEF TypeInv, HostTypes, ReadPID
<1>4. Creating' = Creating
  BY <1>1 DEF TypeInv, HostTypes, ReadPID, Creating, At, LoadType
<1>5. NumbersGiven'
  <2>1. ASSUME NEW g \in Hosts, At(g, "insert")'
        PROVE  load'[g].pid = nextPID \/ (At(g, "insert") /\ load'[g] = load[g])
    BY <2>1 DEF TypeInv, HostTypes, ReadPID, At, LoadType
  <2>2. nextPID # 0 /\ starts' = starts /\ nextPID' = nextPID
    BY DEF TypeInv, Counters, ReadPID
  <2>3. QED
    BY <1>4, <2>1, <2>2 DEF TypeInv, NumbersGiven
<1>6. QED
  BY <1>2, <1>3, <1>5 DEF TypeInv

LEMMA InsertTyped ==
  ASSUME TypeInv, NEW h \in Hosts, InsertContext(h)
  PROVE  TypeInv'
<1>1. At(h, "insert") /\ load[h].pid \in Pids
  BY NumberInBounds DEF InsertContext
<1>2. MemTypes'
  <2>1. CASE load[h].pid \in Live
    BY <2>1 DEF TypeInv, InsertContext, MemTypes, Live
  <2>2. CASE load[h].pid \notin Live
    BY <2>2, MemoryTyped DEF TypeInv, InsertContext
  <2>3. QED
    BY <2>1, <2>2
<1>3. TaskTypes' /\ HostTypes'
  <2>1. TaskTypes'
    BY DEF TypeInv, InsertContext, TaskTypes
  <2>2. load' \in [Hosts -> LoadType]
    <3>1. [load[h] EXCEPT !.pc = "load"] \in LoadType
      BY DEF TypeInv, HostTypes, LoadType, HostPCs
    <3>2. load' = [load EXCEPT ![h] = [load[h] EXCEPT !.pc = "load"]]
      BY DEF TypeInv, HostTypes, InsertContext, Goto
    <3>3. QED
      BY <3>1, <3>2 DEF TypeInv, HostTypes
  <2>3. HostTypes'
    BY <2>2 DEF TypeInv, HostTypes, InsertContext
  <2>4. QED
    BY <2>1, <2>3
<1>4. Counters'
  BY <1>1 DEF TypeInv, InsertContext, Counters, Pids
<1>5. Creating' = Creating \ {h} /\ h \in Creating
  BY <1>1 DEF TypeInv, HostTypes, InsertContext, Goto, Creating, At, LoadType
<1>6. /\ IsFiniteSet(Creating')
      /\ Cardinality(Creating) \in Nat
      /\ Cardinality(Creating') = Cardinality(Creating) - 1
  BY <1>5, FS_RemoveElement, NumberInBounds DEF TypeInv, NumbersGiven
<1>7. NumbersGiven'
  <2>1. /\ load[h].pid + Cardinality(Creating) <= starts + 1
        /\ nextPID' = load[h].pid + 1 /\ starts' = starts
    BY <1>1 DEF TypeInv, NumbersGiven, InsertContext
  <2>2. nextPID' + Cardinality(Creating') <= starts' + 1
    BY <1>1, <1>6, <2>1 DEF TypeInv, Counters, Pids
  <2>3. ASSUME NEW g \in Hosts, At(g, "insert")'
        PROVE  /\ load'[g].pid # 0
               /\ load'[g].pid + Cardinality(Creating') <= starts' + 1
    <3>1. At(g, "insert") /\ load'[g] = load[g]
      BY <2>3 DEF TypeInv, HostTypes, InsertContext, Goto, At, LoadType
    <3>2. load[g].pid \in Pids /\ load[g].pid + Cardinality(Creating) <= starts + 1
      BY <3>1, NumberInBounds DEF TypeInv, NumbersGiven
    <3>3. QED
      BY <1>6, <2>1, <3>1, <3>2 DEF TypeInv, Counters, Pids
  <2>4. QED
    BY <1>6, <2>2, <2>3 DEF NumbersGiven
<1>8. QED
  BY <1>2, <1>3, <1>4, <1>7 DEF TypeInv

LEMMA StartTyped ==
  ASSUME TypeInv, NEW h \in Hosts, NEW exe \in Executables,
         NEW opened \in {TRUE, FALSE}, Start(h, exe, opened)
  PROVE  TypeInv'
<1> USE RunnerAssumption
<1>1. MemTypes' /\ TaskTypes'
  BY DEF TypeInv, Start, MemTypes, Live, TaskTypes
<1>2. Counters' /\ starts' = starts + 1 /\ nextPID' = nextPID
  BY DEF TypeInv, Start, Counters
<1>3. exe \in Names /\ open' \in [Hosts -> SUBSET Names]
  BY DEF TypeInv, Start, HostTypes
<1>4. PICK l \in LoadType : load' = [load EXCEPT ![h] = l] /\ l.pc = "number"
  <2> DEFINE l == [NoLoad EXCEPT !.pc = "number", !.file = exe, !.fds = open'[h]]
  <2>1. l \in LoadType /\ l.pc = "number"
    BY <1>3, Beginnings DEF LoadType, HostPCs, NoLoad
  <2>2. QED
    BY <2>1 DEF Start
<1>5. HostTypes'
  BY <1>3, <1>4 DEF TypeInv, Start, HostTypes
<1>6. Creating' = Creating \cup {h} /\ h \notin Creating
  BY <1>4 DEF TypeInv, HostTypes, Start, Creating, At
<1>7. /\ IsFiniteSet(Creating')
      /\ Cardinality(Creating) \in Nat
      /\ Cardinality(Creating') = Cardinality(Creating) + 1
  BY <1>6, FS_AddElement, NumberInBounds DEF TypeInv, NumbersGiven
<1>8. NumbersGiven'
  <2>1. ASSUME NEW g \in Hosts, At(g, "insert")'
        PROVE  /\ load'[g].pid # 0
               /\ load'[g].pid + Cardinality(Creating') <= starts' + 1
    <3>1. At(g, "insert") /\ load'[g] = load[g]
      BY <1>4, <2>1 DEF TypeInv, HostTypes, At
    <3>2. load[g].pid \in Pids /\ load[g].pid + Cardinality(Creating) <= starts + 1
      BY <3>1, NumberInBounds DEF TypeInv, NumbersGiven
    <3>3. QED
      BY <1>2, <1>7, <3>1, <3>2 DEF TypeInv, Counters, Pids
  <2>2. nextPID' + Cardinality(Creating') <= starts' + 1
    BY <1>2, <1>7 DEF TypeInv, NumbersGiven, Counters
  <2>3. QED
    BY <1>7, <2>1, <2>2 DEF NumbersGiven
<1>9. QED
  BY <1>1, <1>2, <1>5, <1>8 DEF TypeInv

LEMMA LoadTyped ==
  ASSUME TypeInv, NEW h \in Hosts, LoadFile(h) \/ LoadFails(h)
  PROVE  TypeInv'
<1>1. load[h] \in LoadType /\ open[h] \subseteq Names /\ At(h, "load")
  BY DEF TypeInv, HostTypes, LoadFile, LoadFails
<1>2. MemTypes'
  <2>1. CASE UNCHANGED <<heap, owned>>
    BY <2>1 DEF TypeInv, MemTypes, Live
  <2>2. ASSUME NEW b \in Blocks, Mem!MapBlock(load[h].pid, b) PROVE MemTypes'
    BY <2>2, MemoryTyped DEF TypeInv
  <2>3. ASSUME NEW b \in Blocks, UNCHANGED heap,
               owned' = [owned EXCEPT ![load[h].pid] = @ \cup {b}]
        PROVE  MemTypes'
    BY <2>3 DEF TypeInv, MemTypes, Live
  <2>4. QED
    BY <2>1, <2>2, <2>3 DEF LoadFile, LoadFails
<1>3. TaskTypes'
  BY DEF TypeInv, LoadFile, LoadFails, TaskTypes
<1>4. CASE LoadFile(h)
  <2> DEFINE l == [load[h] EXCEPT !.files = Append(@, load[h].file),
                                  !.libs = @ \cup {load[h].file} \cup Builtin,
                                  !.fds = @ \cup {load[h].file},
                                  !.pc = "needed"]
  <2>1. load[h].file \in Names
    BY <1>1, <1>4 DEF LoadFile
  <2>2. Append(load[h].files, load[h].file) \in Seq(Names)
    <3>1. load[h].files \in Seq(Names)
      BY <1>1 DEF LoadType
    <3>2. QED
      BY <2>1, <3>1
  <2>3. l \in LoadType /\ l.pc = "needed"
    BY <1>1, <2>1, <2>2 DEF LoadType, HostPCs
  <2>4. load' = [load EXCEPT ![h] = l]
    BY <1>4 DEF TypeInv, HostTypes, LoadFile
  <2> HIDE DEF l
  <2>5. HostTypes'
    <3>1. UNCHANGED <<registered, open>>
      BY <1>4 DEF LoadFile
    <3>2. QED
      BY <2>3, <2>4, <3>1 DEF TypeInv, HostTypes
  <2>6. Counters' /\ NumbersGiven'
    BY <1>1, <1>4, <2>3, <2>4, NumbersKept DEF TypeInv, HostTypes, LoadFile, At
  <2>7. QED
    BY <1>2, <1>3, <2>5, <2>6 DEF TypeInv
<1>5. CASE LoadFails(h)
  <2>1. HostTypes'
    BY <1>1, <1>5 DEF TypeInv, HostTypes, LoadFails, Goto, LoadType, HostPCs
  <2>2. Counters' /\ NumbersGiven'
    BY <1>1, <1>5, NumbersKept DEF TypeInv, HostTypes, LoadFails, Goto, At, LoadType
  <2>3. QED
    BY <1>2, <1>3, <2>1, <2>2 DEF TypeInv
<1>6. QED
  BY <1>4, <1>5

(* A name that is missing is a name.                                       *)
LEMMA MissingNames ==
  ASSUME NEW files \in Seq(Names), NEW libs, NEW at \in Missing(files, libs)
  PROVE  /\ at[1] \in DOMAIN files /\ at[2] \in DOMAIN Needed[files[at[1]]]
         /\ Needed[files[at[1]]][at[2]] \in (Names \cup Builtin) \ libs
<1>0. PICK i \in DOMAIN files :
        at \in {<<i, j>> : j \in {k \in DOMAIN Needed[files[i]] : Needed[files[i]][k] \notin libs}}
  BY DEF Missing
<1>1. PICK j \in DOMAIN Needed[files[i]] :
        at = <<i, j>> /\ Needed[files[i]][j] \notin libs
  BY <1>0
<1>2. Needed[files[i]] \in Seq(Names \cup Builtin)
  BY RunnerAssumption
<1>3. Needed[files[i]][j] \in Names \cup Builtin
  BY <1>1, <1>2
<1>4. QED
  BY <1>1, <1>3

LEMMA FindChoice ==
  ASSUME TypeInv, NEW h \in Hosts, FindLibrary(h)
  PROVE  \E lib \in (Names \cup Builtin) \ load[h].libs, opened \in {TRUE, FALSE} :
           /\ opened => lib \in registered
           /\ open' = [open EXCEPT ![h] = IF opened THEN @ \cup {lib} ELSE @]
           /\ load' = [load EXCEPT ![h] =
                [load[h] EXCEPT !.libs = @ \cup {lib}, !.file = lib,
                                !.pc = IF opened THEN "load" ELSE "fail"]]
<1> DEFINE missing == Missing(load[h].files, load[h].libs)
           name(at) == Needed[load[h].files[at[1]]][at[2]]
<1>1. PICK at \in missing, opened \in {TRUE, FALSE} :
        /\ opened => name(at) \in registered
        /\ open' = [open EXCEPT ![h] = IF opened THEN @ \cup {name(at)} ELSE @]
        /\ load' = [load EXCEPT ![h].libs = @ \cup {name(at)}, ![h].file = name(at),
                                ![h].pc = IF opened THEN "load" ELSE "fail"]
  BY DEF FindLibrary
<1>2. load[h].files \in Seq(Names)
  BY DEF TypeInv, HostTypes, LoadType
<1>3. name(at) \in (Names \cup Builtin) \ load[h].libs
  BY <1>2, MissingNames
<1> HIDE DEF missing, name
<1>4. load' = [load EXCEPT ![h] =
        [load[h] EXCEPT !.libs = @ \cup {name(at)}, !.file = name(at),
                        !.pc = IF opened THEN "load" ELSE "fail"]]
  BY <1>1 DEF TypeInv, HostTypes
<1>5. QED
  BY <1>1, <1>3, <1>4

LEMMA FindTyped ==
  ASSUME TypeInv, NEW h \in Hosts, FindLibrary(h)
  PROVE  TypeInv'
<1> USE RunnerAssumption
<1>1. load[h] \in LoadType /\ At(h, "needed")
  BY DEF TypeInv, HostTypes, FindLibrary
<1>2. PICK lib \in Names \cup Builtin, opened \in {TRUE, FALSE} :
        /\ opened => lib \in registered
        /\ open' = [open EXCEPT ![h] = IF opened THEN @ \cup {lib} ELSE @]
        /\ load' = [load EXCEPT ![h] =
             [load[h] EXCEPT !.libs = @ \cup {lib}, !.file = lib,
                             !.pc = IF opened THEN "load" ELSE "fail"]]
  BY FindChoice
<1>3. MemTypes' /\ TaskTypes'
  BY DEF TypeInv, FindLibrary, MemTypes, Live, TaskTypes
<1> DEFINE l == [load[h] EXCEPT !.libs = @ \cup {lib}, !.file = lib,
                               !.pc = IF opened THEN "load" ELSE "fail"]
<1>4. l \in LoadType /\ l.pc \in {"load", "fail"}
  BY <1>1 DEF LoadType, HostPCs
<1>5. load' = [load EXCEPT ![h] = l]
  BY <1>2 DEF TypeInv, HostTypes
<1> HIDE DEF l
<1>6. HostTypes'
  <2>1. open' \in [Hosts -> SUBSET Names]
    BY <1>2 DEF TypeInv, HostTypes
  <2>2. QED
    BY <1>4, <1>5, <2>1 DEF TypeInv, HostTypes, FindLibrary
<1>7. Counters' /\ NumbersGiven'
  BY <1>1, <1>4, <1>5, NumbersKept DEF TypeInv, HostTypes, FindLibrary, At
<1>8. QED
  BY <1>3, <1>6, <1>7 DEF TypeInv

LEMMA FinishTyped ==
  ASSUME TypeInv, NEW h \in Hosts,
         \/ Link(h) \/ TaskFails(h) \/ DeleteAfterFailure(h) \/ CloseFiles(h)
  PROVE  TypeInv'
<1>1. load[h] \in LoadType
  BY DEF TypeInv, HostTypes
<1>2. MemTypes'
  <2>1. CASE UNCHANGED <<heap, owned>>
    BY <2>1 DEF TypeInv, MemTypes, Live
  <2>2. CASE Mem!Delete(load[h].pid)
    BY <2>2, MemoryTyped DEF TypeInv
  <2>3. QED
    BY <2>1, <2>2 DEF Link, TaskFails, DeleteAfterFailure, CloseFiles
<1>3. TaskTypes' /\ registered' = registered
  BY DEF TypeInv, Link, TaskFails, DeleteAfterFailure, CloseFiles, TaskTypes
<1>4. CASE CloseFiles(h)
  <2>1. NoLoad \in LoadType /\ NoLoad.pc = "idle"
    BY Beginnings DEF NoLoad
  <2>2. HostTypes'
    BY <1>3, <1>4, <2>1 DEF TypeInv, HostTypes, CloseFiles
  <2>3. Counters' /\ NumbersGiven'
    BY <1>4, <2>1, NumbersKept DEF TypeInv, HostTypes, CloseFiles, At
  <2>4. QED
    BY <1>2, <1>3, <2>2, <2>3 DEF TypeInv
<1>5. CASE Link(h) \/ TaskFails(h) \/ DeleteAfterFailure(h)
  <2>1. PICK pc \in {"start", "fail", "close"} : Goto(h, pc)
    BY <1>5 DEF Link, TaskFails, DeleteAfterFailure
  <2>2. HostTypes'
    <3>1. open' = open
      BY <1>5 DEF Link, TaskFails, DeleteAfterFailure
    <3>2. QED
      BY <1>1, <1>3, <2>1, <3>1 DEF TypeInv, HostTypes, Goto, LoadType, HostPCs
  <2>3. load[h].pc \in {"needed", "start", "fail"}
    BY <1>5 DEF Link, TaskFails, DeleteAfterFailure, At
  <2>4. UNCHANGED <<nextPID, starts, halted>>
    BY <1>5 DEF Link, TaskFails, DeleteAfterFailure
  <2>5. Counters' /\ NumbersGiven'
    BY <1>1, <2>1, <2>3, <2>4, NumbersKept DEF TypeInv, HostTypes, Goto, LoadType
  <2>6. QED
    BY <1>2, <1>3, <2>2, <2>5 DEF TypeInv
<1>6. QED
  BY <1>4, <1>5

LEMMA CreateTyped ==
  ASSUME TypeInv, NEW h \in Hosts, CreateTask(h)
  PROVE  TypeInv'
<1>1. load[h] \in LoadType /\ At(h, "start")
  BY DEF TypeInv, HostTypes, CreateTask
<1>2. MemTypes'
  BY DEF TypeInv, CreateTask, MemTypes, Live
<1>3. TaskTypes'
  <2> DEFINE new == [NoTask EXCEPT !.pc = "collect", !.pid = load[h].pid,
                                   !.files = load[h].files]
  <2>1. new \in TaskType
    BY <1>1, Beginnings DEF TaskType, LoadType, NoTask, TaskPCs
  <2>2. PICK t \in Tasks : tasks' = [tasks EXCEPT ![t] = new]
    BY DEF CreateTask
  <2> HIDE DEF new
  <2>3. QED
    BY <2>1, <2>2 DEF TypeInv, TaskTypes, CreateTask
<1>4. HostTypes'
  <2> DEFINE l == [load[h] EXCEPT !.files = <<>>, !.pc = "close"]
  <2>1. <<>> \in Seq(Names)
    OBVIOUS
  <2>2. l \in LoadType
    BY <1>1, <2>1 DEF LoadType, HostPCs
  <2>3. load' = [load EXCEPT ![h] = l]
    BY DEF TypeInv, HostTypes, CreateTask
  <2> HIDE DEF l
  <2>4. QED
    BY <2>2, <2>3 DEF TypeInv, HostTypes, CreateTask
<1>5. Counters' /\ NumbersGiven'
  BY <1>1, NumbersKept DEF TypeInv, HostTypes, CreateTask, At, LoadType
<1>6. QED
  BY <1>2, <1>3, <1>4, <1>5 DEF TypeInv

LEMMA HostTyped ==
  ASSUME TypeInv, NEW h \in Hosts, HostStep(h) \/ HostCall(h)
  PROVE  TypeInv'
<1>1. CASE HostStep(h)
  BY <1>1, ReadTyped, InsertTyped, LoadTyped, FindTyped, CreateTyped, FinishTyped
     DEF HostStep
<1>2. ASSUME NEW exe \in Executables, NEW opened \in {TRUE, FALSE},
             Start(h, exe, opened)
      PROVE  TypeInv'
  BY <1>2, StartTyped
<1>3. ASSUME NEW n \in Libraries, Register(h, n) \/ Unregister(h, n)
      PROVE  TypeInv'
  <2>1. HostTypes' /\ UNCHANGED load
    BY <1>3 DEF TypeInv, HostTypes, Register, Unregister
  <2>2. MemTypes' /\ TaskTypes'
    BY <1>3 DEF TypeInv, MemTypes, Live, TaskTypes, Register, Unregister
  <2>3. Counters' /\ NumbersGiven'
    BY <1>3, <2>1, NumbersKept DEF Register, Unregister
  <2>4. QED
    BY <2>1, <2>2, <2>3 DEF TypeInv
<1>4. QED
  BY <1>1, <1>2, <1>3 DEF HostCall

LEMMA TaskTyped ==
  ASSUME TypeInv, NEW t \in Tasks, TaskStep(t) \/ AppStep(t)
  PROVE  TypeInv'
<1>1. tasks[t] \in TaskType
  BY DEF TypeInv, TaskTypes
<1>2. UNCHANGED <<nextPID, registered, load, open, starts, halted>>
  BY DEF TaskStep, AppStep, Collect, SetContext, JumpToApp, EndContext, EndTask,
         AppEnds, AppMaps, AppUnmaps
<1>3. HostTypes' /\ Counters' /\ NumbersGiven'
  BY <1>2, NumbersKept DEF TypeInv, HostTypes
<1>4. MemTypes'
  <2>1. CASE UNCHANGED <<heap, owned>>
    BY <2>1 DEF TypeInv, MemTypes, Live
  <2>2. CASE ~UNCHANGED <<heap, owned>>
    BY <2>2, MemoryTyped
       DEF TypeInv, TaskStep, AppStep, Collect, SetContext, JumpToApp, EndContext,
           EndTask, AppEnds, AppMaps, AppUnmaps
  <2>3. QED
    BY <2>1, <2>2
<1>5. TaskTypes'
  <2>1. CASE Collect(t)
    <3> DEFINE new == [tasks[t] EXCEPT !.files = <<>>, !.pc = "bind"]
    <3>1. <<>> \in Seq(Names)
      OBVIOUS
    <3>2. new \in TaskType
      BY <1>1, <3>1 DEF TaskType, TaskPCs
    <3>3. tasks' = [tasks EXCEPT ![t] = new] /\ frame' = frame
      BY <2>1 DEF TypeInv, TaskTypes, Collect
    <3> HIDE DEF new
    <3>4. QED
      BY <3>2, <3>3 DEF TypeInv, TaskTypes
  <2>2. CASE SetContext(t)
    <3> DEFINE new == [tasks[t] EXCEPT !.thread = tasks[t].pid, !.pc = "jump"]
    <3>1. new \in TaskType
      BY <1>1 DEF TaskType, TaskPCs
    <3>2. tasks' = [tasks EXCEPT ![t] = new] /\ frame' = frame
      BY <2>2 DEF TypeInv, TaskTypes, SetContext
    <3> HIDE DEF new
    <3>3. QED
      BY <3>1, <3>2 DEF TypeInv, TaskTypes
  <2>3. CASE UNCHANGED tasks /\ UNCHANGED frame
    BY <2>3 DEF TypeInv, TaskTypes
  <2>4. ASSUME NEW pc \in TaskPCs, Step(t, pc),
               frame' = frame \/ frame' = [frame EXCEPT ![tasks[t].pid] = t]
        PROVE  TaskTypes'
    BY <1>1, <2>4 DEF TypeInv, TaskTypes, TaskType, Step
  <2>5. QED
    BY <2>1, <2>2, <2>3, <2>4
       DEF TaskStep, AppStep, JumpToApp, EndContext, EndTask, AppEnds, AppMaps,
           AppUnmaps, TaskPCs
<1>6. QED
  BY <1>3, <1>4, <1>5 DEF TypeInv

LEMMA NextTyped == TypeInv /\ [Next]_vars => TypeInv'
<1> SUFFICES ASSUME TypeInv, [Next]_vars PROVE TypeInv'
  OBVIOUS
<1>1. CASE \E h \in Hosts : HostStep(h) \/ HostCall(h)
  BY <1>1, HostTyped
<1>2. CASE \E t \in Tasks : TaskStep(t) \/ AppStep(t)
  BY <1>2, TaskTyped
<1>3. CASE Halt \/ UNCHANGED vars
  <2>1. UNCHANGED <<heap, owned, nextPID, registered, load, open, tasks, frame, starts>>
    BY <1>3 DEF Halt, vars
  <2>2. halted' \in BOOLEAN
    BY <1>3 DEF Halt, vars, TypeInv, Counters
  <2>3. Creating' = Creating
    BY <2>1 DEF Creating
  <2>4. QED
    BY <2>1, <2>2, <2>3
       DEF TypeInv, MemTypes, Live, HostTypes, TaskTypes, Counters, NumbersGiven, At
<1>4. QED
  BY <1>1, <1>2, <1>3 DEF Next, Halted

LEMMA TypeAlways == Spec => []TypeInv
  BY TypeInit, NextTyped, PTL DEF Spec

(* Every variable keeps its type, with any number of hosts; and of n calls *)
(* of startFD newContext makes no more than n numbers, although the hosts  *)
(* read and write nextPID in any order.                                    *)
THEOREM TypeCorrect == Spec => []TypeOK
  BY TypeAlways, TypeInvImplies, PTL

-----------------------------------------------------------------------------
(* Files and handles of one call of startFD. While a library is loaded its *)
(* handle is the only one that fds may not have, and its name is the only  *)
(* one in libs that is not of a loaded file or built in.                   *)

Handled(call, handles) ==
  /\ call.fds \subseteq handles
  /\ call.pc = "idle" => handles = {}
  /\ IF call.pc = "load" THEN handles \subseteq call.fds \cup {call.file}
     ELSE handles = call.fds

NeededBy(files) ==
  {n \in Names \cup Builtin :
     \E i \in DOMAIN files : n \in Range(Needed[files[i]])}

Loaded(call) ==
  LET loaded == Range(call.files)
  IN  /\ IsInjective(call.files) /\ loaded \subseteq call.fds
      /\ call.pc \in {"number", "insert"} => call.files = <<>> /\ call.libs = {}
      /\ call.pc = "load" =>
           \/ call.files = <<>> /\ call.libs = {}
           \/ /\ call.libs = loaded \cup Builtin \cup {call.file}
              /\ call.file \notin loaded
      /\ call.pc = "needed" => call.libs = loaded \cup Builtin
      /\ call.pc = "start" => NeededBy(call.files) \subseteq loaded \cup Builtin

CallInv == \A h \in Hosts : Handled(load[h], open[h]) /\ Loaded(load[h])

(* A sequence without repetition gets one more element.                    *)
LEMMA AppendLemma ==
  ASSUME NEW S, NEW s \in Seq(S), NEW x \in S, x \notin Range(s), IsInjective(s)
  PROVE  IsInjective(Append(s, x)) /\ Range(Append(s, x)) = Range(s) \cup {x}
<1> DEFINE new == Append(s, x)
<1>1. /\ new \in Seq(S) /\ Len(new) = Len(s) + 1 /\ Len(s) \in Nat
      /\ DOMAIN new = 1 .. Len(s) + 1 /\ DOMAIN s = 1 .. Len(s)
      /\ new[Len(s) + 1] = x
      /\ \A i \in 1 .. Len(s) : new[i] = s[i]
  OBVIOUS
<1> HIDE DEF new
<1>2. DOMAIN new = DOMAIN s \cup {Len(s) + 1}
  BY <1>1
<1>3. Range(new) = Range(s) \cup {x}
  BY <1>1, <1>2 DEF Range
<1>4. ASSUME NEW i \in DOMAIN new, NEW j \in DOMAIN new, new[i] = new[j]
      PROVE  i = j
  <2>1. CASE i \in DOMAIN s /\ j \in DOMAIN s
    BY <1>1, <1>4, <2>1 DEF IsInjective
  <2>2. \A k \in DOMAIN s : new[k] # x
    BY <1>1 DEF Range
  <2>3. QED
    BY <1>1, <1>2, <1>4, <2>1, <2>2
<1>5. QED
  BY <1>3, <1>4 DEF new, IsInjective

LEMMA NothingLoaded ==
  /\ IsInjective(<<>>) /\ Range(<<>>) = {}
  /\ NoLoad.pc = "idle" /\ NoLoad.files = <<>> /\ NoLoad.fds = {} /\ NoLoad.libs = {}
<1>1. DOMAIN <<>> = {}
  OBVIOUS
<1>2. QED
  BY <1>1 DEF IsInjective, Range, NoLoad

LEMMA CallInit == Init => CallInv
<1> SUFFICES ASSUME Init, NEW h \in Hosts PROVE Handled(load[h], open[h]) /\ Loaded(load[h])
  BY DEF CallInv
<1>1. load[h] = NoLoad /\ open[h] = {}
  BY DEF Init
<1>2. QED
  BY <1>1, NothingLoaded DEF Handled, Loaded

(* A step of a host is about its own call of startFD.                      *)
LEMMA OtherCalls ==
  ASSUME TypeInv, NEW h \in Hosts, HostStep(h) \/ HostCall(h),
         NEW g \in Hosts, g # h
  PROVE  load'[g] = load[g] /\ open'[g] = open[g]
<1>1. CASE UNCHANGED <<load, open>>
  BY <1>1
<1>2. CASE \E exe \in Executables, opened \in {TRUE, FALSE} : Start(h, exe, opened)
  BY <1>2 DEF TypeInv, HostTypes, Start
<1>3. CASE HostStep(h)
  BY <1>3 DEF TypeInv, HostTypes, HostStep, ReadPID, InsertContext, LoadFile, LoadFails,
              FindLibrary, Link, CreateTask, TaskFails, DeleteAfterFailure, CloseFiles,
              Goto
<1>4. QED
  BY <1>1, <1>2, <1>3 DEF HostCall, Register, Unregister

LEMMA StartCall ==
  ASSUME TypeInv, NEW h \in Hosts, NEW exe \in Executables, NEW opened \in {TRUE, FALSE},
         Start(h, exe, opened)
  PROVE  Handled(load'[h], open'[h]) /\ Loaded(load'[h])
<1>1. load'[h] = [NoLoad EXCEPT !.pc = "number", !.file = exe, !.fds = open'[h]]
  BY DEF TypeInv, HostTypes, Start
<1>2. QED
  BY <1>1, NothingLoaded DEF NoLoad, Handled, Loaded

(* Steps that load nothing and open nothing.                               *)
LEMMA GoOnCall ==
  ASSUME TypeInv, NEW h \in Hosts, Handled(load[h], open[h]), Loaded(load[h]),
         \/ ReadPID(h) \/ InsertContext(h) \/ Link(h) \/ CreateTask(h)
         \/ TaskFails(h) \/ DeleteAfterFailure(h) \/ CloseFiles(h)
  PROVE  Handled(load'[h], open'[h]) /\ Loaded(load'[h])
<1>1. load[h] \in LoadType
  BY DEF TypeInv, HostTypes
<1>2. CASE ReadPID(h)
  <2>1. load'[h] = [load[h] EXCEPT !.pid = nextPID, !.pc = "insert"] /\ open' = open
    BY <1>2 DEF TypeInv, HostTypes, ReadPID
  <2>2. /\ load'[h].pc = "insert" /\ load'[h].files = load[h].files
        /\ load'[h].libs = load[h].libs /\ load'[h].fds = load[h].fds
    BY <1>1, <2>1 DEF LoadType
  <2>3. load[h].pc = "number"
    BY <1>2 DEF ReadPID, At
  <2>4. QED
    BY <2>1, <2>2, <2>3 DEF Handled, Loaded
<1>3. CASE InsertContext(h)
  <2>1. load'[h] = [load[h] EXCEPT !.pc = "load"] /\ open' = open
    BY <1>3 DEF TypeInv, HostTypes, InsertContext, Goto
  <2>2. QED
    BY <1>1, <1>3, <2>1 DEF InsertContext, At, LoadType, Handled, Loaded
<1>4. CASE Link(h)
  <2>1. PICK pc \in {"start", "fail"} : load'[h] = [load[h] EXCEPT !.pc = pc]
    BY <1>4 DEF TypeInv, HostTypes, Link, Goto
  <2>2. /\ Missing(load[h].files, load[h].libs) = {} /\ load[h].pc = "needed"
        /\ open' = open
    BY <1>4 DEF Link, At
  <2>3. NeededBy(load[h].files) \subseteq load[h].libs
    <3>1. SUFFICES ASSUME NEW i \in DOMAIN load[h].files,
                          NEW n \in Range(Needed[load[h].files[i]]), n \notin load[h].libs
                   PROVE  FALSE
      BY DEF NeededBy
    <3>2. PICK j \in DOMAIN Needed[load[h].files[i]] : n = Needed[load[h].files[i]][j]
      BY DEF Range
    <3>3. <<i, j>> \in Missing(load[h].files, load[h].libs)
      BY <3>1, <3>2 DEF Missing
    <3>4. QED
      BY <2>2, <3>3
  <2>4. QED
    BY <1>1, <2>1, <2>2, <2>3 DEF LoadType, Handled, Loaded
<1>5. CASE CreateTask(h)
  <2>1. load'[h] = [load[h] EXCEPT !.files = <<>>, !.pc = "close"] /\ open' = open
    BY <1>5 DEF TypeInv, HostTypes, CreateTask
  <2>2. /\ load'[h].pc = "close" /\ load'[h].files = <<>>
        /\ load'[h].fds = load[h].fds
    BY <1>1, <2>1 DEF LoadType
  <2>3. load[h].pc = "start"
    BY <1>5 DEF CreateTask, At
  <2>4. QED
    BY <2>1, <2>2, <2>3, NothingLoaded DEF Handled, Loaded
<1>6. CASE TaskFails(h) \/ DeleteAfterFailure(h)
  <2>1. PICK pc \in {"fail", "close"} : load'[h] = [load[h] EXCEPT !.pc = pc]
    BY <1>6 DEF TypeInv, HostTypes, TaskFails, DeleteAfterFailure, Goto
  <2>2. load[h].pc \in {"start", "fail"} /\ open' = open
    BY <1>6 DEF TaskFails, DeleteAfterFailure, At
  <2>3. QED
    BY <1>1, <2>1, <2>2 DEF LoadType, Handled, Loaded
<1>7. CASE CloseFiles(h)
  <2>1. /\ load'[h] = NoLoad /\ open'[h] = open[h] \ load[h].fds
        /\ load[h].pc = "close"
    BY <1>7 DEF TypeInv, HostTypes, CloseFiles, At
  <2>2. open'[h] = {}
    BY <2>1 DEF Handled
  <2>3. QED
    BY <2>1, <2>2, NothingLoaded DEF Handled, Loaded
<1>8. QED
  BY <1>2, <1>3, <1>4, <1>5, <1>6, <1>7

LEMMA LoadCall ==
  ASSUME TypeInv, NEW h \in Hosts, Handled(load[h], open[h]), Loaded(load[h]),
         LoadFile(h) \/ LoadFails(h)
  PROVE  Handled(load'[h], open'[h]) /\ Loaded(load'[h])
<1>1. load[h] \in LoadType /\ load[h].pc = "load" /\ open[h] \in SUBSET Names
  BY DEF TypeInv, HostTypes, LoadFile, LoadFails, At
<1>2. CASE LoadFile(h)
  <2> DEFINE file == load[h].file
             files == load[h].files
  <2>1. /\ load'[h] = [load[h] EXCEPT !.files = Append(files, file),
                                      !.libs = load[h].libs \cup {file} \cup Builtin,
                                      !.fds = load[h].fds \cup {file},
                                      !.pc = "needed"]
        /\ open' = open /\ file \in open[h]
    BY <1>2 DEF TypeInv, HostTypes, LoadFile
  <2>2. files \in Seq(Names) /\ file \in Names /\ file \notin Range(files)
    BY <1>1, <2>1, NothingLoaded DEF LoadType, Loaded
  <2>3. IsInjective(Append(files, file)) /\ Range(Append(files, file)) = Range(files) \cup {file}
    BY <2>2, AppendLemma DEF Loaded
  <2>4. load[h].libs \cup {file} \cup Builtin = Range(files) \cup {file} \cup Builtin
    BY <1>1, NothingLoaded DEF Loaded
  <2> HIDE DEF file, files
  <2>5. /\ load'[h].pc = "needed" /\ load'[h].files = Append(files, file)
        /\ load'[h].libs = Range(files) \cup {file} \cup Builtin
        /\ load'[h].fds = load[h].fds \cup {file}
    BY <1>1, <2>1, <2>4 DEF LoadType
  <2>6. Loaded(load'[h])
    BY <2>3, <2>5 DEF Loaded, files
  <2>7. Handled(load'[h], open'[h])
    BY <1>1, <2>1, <2>5 DEF Handled, file
  <2>8. QED
    BY <2>6, <2>7
<1>3. CASE LoadFails(h)
  <2>1. /\ load'[h] = [load[h] EXCEPT !.pc = "fail"]
        /\ open'[h] = open[h] \cap load[h].fds
    BY <1>3 DEF TypeInv, HostTypes, LoadFails, Goto
  <2>2. QED
    BY <1>1, <2>1 DEF LoadType, Handled, Loaded
<1>4. QED
  BY <1>2, <1>3

LEMMA FindCall ==
  ASSUME TypeInv, NEW h \in Hosts, Handled(load[h], open[h]), Loaded(load[h]),
         FindLibrary(h)
  PROVE  Handled(load'[h], open'[h]) /\ Loaded(load'[h])
<1>1. load[h] \in LoadType /\ load[h].pc = "needed" /\ open[h] \in SUBSET Names
  BY DEF TypeInv, HostTypes, FindLibrary, At
<1>2. PICK lib \in (Names \cup Builtin) \ load[h].libs, opened \in {TRUE, FALSE} :
        /\ open'[h] = IF opened THEN open[h] \cup {lib} ELSE open[h]
        /\ load'[h] = [load[h] EXCEPT !.libs = @ \cup {lib}, !.file = lib,
                                      !.pc = IF opened THEN "load" ELSE "fail"]
  BY FindChoice DEF TypeInv, HostTypes
<1>3. /\ load'[h].pc = (IF opened THEN "load" ELSE "fail")
      /\ load'[h].file = lib /\ load'[h].files = load[h].files
      /\ load'[h].libs = load[h].libs \cup {lib} /\ load'[h].fds = load[h].fds
  BY <1>1, <1>2 DEF LoadType
<1>4. Handled(load'[h], open'[h])
  BY <1>1, <1>2, <1>3 DEF Handled
<1>5. Loaded(load'[h])
  BY <1>1, <1>3 DEF Loaded
<1>6. QED
  BY <1>4, <1>5

LEMMA CallNext == TypeInv /\ CallInv /\ [Next]_vars => CallInv'
<1> SUFFICES ASSUME TypeInv, CallInv, [Next]_vars PROVE CallInv'
  OBVIOUS
<1>1. CASE UNCHANGED <<load, open>>
  BY <1>1 DEF CallInv
<1>2. ASSUME NEW h \in Hosts, HostStep(h) \/ HostCall(h) PROVE CallInv'
  <2>1. Handled(load[h], open[h]) /\ Loaded(load[h])
    BY DEF CallInv
  <2>2. CASE HostStep(h)
    <3>1. Handled(load'[h], open'[h]) /\ Loaded(load'[h])
      BY <2>1, <2>2, GoOnCall, LoadCall, FindCall DEF HostStep
    <3>2. QED
      BY <2>2, <3>1, OtherCalls DEF CallInv
  <2>3. ASSUME NEW exe \in Executables, NEW opened \in {TRUE, FALSE}, Start(h, exe, opened)
        PROVE  CallInv'
    BY <1>2, <2>3, StartCall, OtherCalls DEF CallInv
  <2>4. QED
    BY <1>1, <1>2, <2>2, <2>3 DEF HostCall, Register, Unregister
<1>3. ASSUME NEW t \in Tasks, TaskStep(t) \/ AppStep(t) PROVE UNCHANGED <<load, open>>
  BY <1>3 DEF TaskStep, AppStep, Collect, SetContext, JumpToApp, EndContext, EndTask,
              AppEnds, AppMaps, AppUnmaps
<1>4. QED
  BY <1>1, <1>2, <1>3 DEF Next, Halt, Halted, vars

LEMMA CallAlways == Spec => []CallInv
  BY CallInit, CallNext, TypeAlways, PTL DEF Spec

(* "File descriptor is closed when finished": on every path through        *)
(* startFD, whichever of its calls fail, every handle is closed when it    *)
(* returns and those that are needed are open until then.                  *)
THEOREM HandlesClosedAlways == Spec => []HandlesClosed
<1>1. CallInv => HandlesClosed
  BY DEF CallInv, Handled, HandlesClosed, At
<1>2. QED
  BY <1>1, CallAlways, PTL

(* A program that goes to startPreloaded has everything that is needed     *)
(* loaded, once, however the needs of its libraries refer to each other.   *)
THEOREM LinkedCompleteAlways == Spec => []LinkedComplete
<1>1. ASSUME TypeInv, CallInv PROVE LinkedComplete
  <2>1. SUFFICES ASSUME NEW h \in Hosts, At(h, "start")
                 PROVE  LET files == load[h].files
                        IN  /\ \A i \in DOMAIN files : \A n \in Range(Needed[files[i]]) :
                                 n \in Range(files) \cup Builtin
                            /\ IsInjective(files)
                            /\ Range(files) \subseteq open[h]
    BY DEF LinkedComplete
  <2> DEFINE files == load[h].files
  <2>2. files \in Seq(Names) /\ load[h].pc = "start"
    BY <1>1, <2>1 DEF TypeInv, HostTypes, LoadType, At
  <2>3. /\ IsInjective(files) /\ Range(files) \subseteq open[h]
        /\ NeededBy(files) \subseteq Range(files) \cup Builtin
    BY <1>1, <2>2 DEF CallInv, Handled, Loaded
  <2>4. ASSUME NEW i \in DOMAIN files, NEW n \in Range(Needed[files[i]])
        PROVE  n \in Range(files) \cup Builtin
    <3>1. Needed[files[i]] \in Seq(Names \cup Builtin)
      BY <2>2, RunnerAssumption
    <3>2. n \in Names \cup Builtin
      BY <3>1, <2>4 DEF Range
    <3>3. QED
      BY <2>3, <2>4, <3>2 DEF NeededBy
  <2>5. QED
    BY <2>3, <2>4
<1>2. QED
  BY <1>1, CallAlways, TypeAlways, PTL

-----------------------------------------------------------------------------
(* How far a call is from its return: FindLibrary takes one of the names   *)
(* that are left, and between two of its steps there are at most three.    *)
(* The libraries built in do not count, the first file loaded brings them. *)

LEMMA RemainingIs ==
  ASSUME IsFiniteSet(Names), NEW call, call.pc \in HostPCs \ {"idle"}
  PROVE  /\ Cardinality(Names \ call.libs) \in Nat
         /\ Remaining(call) = 2 * Cardinality(Names \ call.libs) + Stage[call.pc]
         /\ Remaining(call) > 0
<1>1. IsFiniteSet(Names \ call.libs)
  BY FS_Subset
<1>2. Cardinality(Names \ call.libs) \in Nat
  BY <1>1, FS_CardinalityType
<1>3. Stage[call.pc] \in 1 .. 7
  BY DEF Stage, HostPCs
<1>4. Remaining(call) = 2 * Cardinality(Names \ call.libs) + Stage[call.pc]
  BY DEF Remaining
<1>5. QED
  BY <1>2, <1>3, <1>4

(* A later stage with no more names left is closer.                        *)
LEMMA LaterStage ==
  ASSUME IsFiniteSet(Names), NEW call, NEW more,
         call.pc \in HostPCs \ {"idle"}, more.pc \in HostPCs \ {"idle"},
         call.libs \subseteq more.libs, Stage[more.pc] < Stage[call.pc]
  PROVE  Remaining(more) < Remaining(call)
<1>1. IsFiniteSet(Names \ call.libs) /\ Names \ more.libs \subseteq Names \ call.libs
  BY FS_Subset
<1>2. Cardinality(Names \ more.libs) <= Cardinality(Names \ call.libs)
  BY <1>1, FS_Subset
<1>3. Stage[more.pc] \in 1 .. 7 /\ Stage[call.pc] \in 1 .. 7
  BY DEF Stage, HostPCs
<1>4. QED
  BY <1>2, <1>3, RemainingIs

(* So is any stage after the next library is looked for.                   *)
LEMMA NextLibrary ==
  ASSUME IsFiniteSet(Names), NEW call, NEW more, NEW lib \in Names,
         lib \notin call.libs, more.libs = call.libs \cup {lib},
         call.pc = "needed", more.pc \in {"load", "fail"}
  PROVE  Remaining(more) < Remaining(call)
<1>1. IsFiniteSet(Names \ call.libs) /\ lib \in Names \ call.libs
  BY FS_Subset
<1>2. Names \ more.libs = (Names \ call.libs) \ {lib}
  OBVIOUS
<1>3. PICK left : left = Names \ call.libs
  OBVIOUS
<1>4. IsFiniteSet(left) /\ lib \in left
  BY <1>1, <1>3
<1>5. Cardinality(left \ {lib}) = Cardinality(left) - 1
  BY <1>4, FS_RemoveElement, ZenonT(30)
<1>6. Cardinality(Names \ more.libs) = Cardinality(Names \ call.libs) - 1
  BY <1>2, <1>3, <1>5
<1>7. Stage[more.pc] <= 5 /\ Stage[more.pc] \in Nat /\ Stage[call.pc] = 4
  BY DEF Stage
<1>8. call.pc \in HostPCs \ {"idle"} /\ more.pc \in HostPCs \ {"idle"}
  BY DEF HostPCs
<1>9. QED
  BY <1>6, <1>7, <1>8, RemainingIs

LEMMA HostAdvances ==
  ASSUME IsFiniteSet(Names), TypeInv, CallInv, NEW h \in Hosts, HostStep(h)
  PROVE  Remaining(load'[h]) < Remaining(load[h])
<1>1. load[h] \in LoadType
  BY DEF TypeInv, HostTypes
<1>2. CASE ReadPID(h)
  <2>1. load'[h] = [load[h] EXCEPT !.pid = nextPID, !.pc = "insert"]
    BY <1>2 DEF TypeInv, HostTypes, ReadPID
  <2>2. load[h].pc = "number" /\ load'[h].pc = "insert" /\ load'[h].libs = load[h].libs
    BY <1>1, <1>2, <2>1 DEF LoadType, ReadPID, At
  <2>3. QED
    BY <2>2, LaterStage DEF Stage, HostPCs
<1>3. CASE InsertContext(h)
  <2>1. load'[h] = [load[h] EXCEPT !.pc = "load"]
    BY <1>3 DEF TypeInv, HostTypes, InsertContext, Goto
  <2>2. load[h].pc = "insert" /\ load'[h].pc = "load" /\ load'[h].libs = load[h].libs
    BY <1>1, <1>3, <2>1 DEF LoadType, InsertContext, At
  <2>3. QED
    BY <2>2, LaterStage DEF Stage, HostPCs
<1>4. CASE LoadFile(h)
  <2>1. load'[h] = [load[h] EXCEPT !.files = Append(load[h].files, load[h].file),
                                   !.libs = load[h].libs \cup {load[h].file} \cup Builtin,
                                   !.fds = load[h].fds \cup {load[h].file},
                                   !.pc = "needed"]
    BY <1>4 DEF TypeInv, HostTypes, LoadFile
  <2>2. load[h].pc = "load"
    BY <1>4 DEF LoadFile, At
  <2>3. load'[h].pc = "needed"
    BY <1>1, <2>1 DEF LoadType
  <2>4. load'[h].libs = load[h].libs \cup {load[h].file} \cup Builtin
    BY <1>1, <2>1 DEF LoadType
  <2>5. load[h].libs \subseteq load'[h].libs
    BY <2>4
  <2>6. QED
    BY <2>2, <2>3, <2>5, LaterStage DEF Stage, HostPCs
<1>5. CASE LoadFails(h)
  <2>1. load'[h] = [load[h] EXCEPT !.pc = "fail"]
    BY <1>5 DEF TypeInv, HostTypes, LoadFails, Goto
  <2>2. load[h].pc = "load" /\ load'[h].pc = "fail" /\ load'[h].libs = load[h].libs
    BY <1>1, <1>5, <2>1 DEF LoadType, LoadFails, At
  <2>3. QED
    BY <2>2, LaterStage DEF Stage, HostPCs
<1>6. CASE FindLibrary(h)
  <2>1. PICK lib \in (Names \cup Builtin) \ load[h].libs, opened \in {TRUE, FALSE} :
          load'[h] = [load[h] EXCEPT !.libs = @ \cup {lib}, !.file = lib,
                                     !.pc = IF opened THEN "load" ELSE "fail"]
    BY <1>6, FindChoice DEF TypeInv, HostTypes
  <2>2. load[h].pc = "needed"
    BY <1>6 DEF FindLibrary, At
  <2>3. Builtin \subseteq load[h].libs
    BY <2>2 DEF CallInv, Loaded
  <2>4. lib \in Names /\ lib \notin load[h].libs
    BY <2>1, <2>3
  <2>5. load'[h].libs = load[h].libs \cup {lib} /\ load'[h].pc \in {"load", "fail"}
    BY <1>1, <2>1 DEF LoadType
  <2>6. QED
    BY <2>2, <2>4, <2>5, NextLibrary
<1>7. CASE Link(h) \/ TaskFails(h) \/ DeleteAfterFailure(h)
  <2>1. PICK pc \in {"start", "fail", "close"} :
          /\ load'[h] = [load[h] EXCEPT !.pc = pc]
          /\ \/ load[h].pc = "needed" /\ pc \in {"start", "fail"}
             \/ load[h].pc = "start" /\ pc = "fail"
             \/ load[h].pc = "fail" /\ pc = "close"
    BY <1>7 DEF TypeInv, HostTypes, Link, TaskFails, DeleteAfterFailure, Goto, At
  <2>2. load'[h].pc = pc /\ load'[h].libs = load[h].libs
    BY <1>1, <2>1 DEF LoadType
  <2>3. /\ load[h].pc \in HostPCs \ {"idle"} /\ load'[h].pc \in HostPCs \ {"idle"}
        /\ Stage[load'[h].pc] < Stage[load[h].pc]
    <3>1. CASE load[h].pc = "needed" /\ pc = "start"
      BY <2>2, <3>1 DEF Stage, HostPCs
    <3>2. CASE load[h].pc = "needed" /\ pc = "fail"
      BY <2>2, <3>2 DEF Stage, HostPCs
    <3>3. CASE load[h].pc = "start" /\ pc = "fail"
      BY <2>2, <3>3 DEF Stage, HostPCs
    <3>4. CASE load[h].pc = "fail" /\ pc = "close"
      BY <2>2, <3>4 DEF Stage, HostPCs
    <3>5. QED
      BY <2>1, <3>1, <3>2, <3>3, <3>4
  <2>4. load[h].libs \subseteq load'[h].libs
    BY <2>2
  <2>5. QED
    BY <2>3, <2>4, LaterStage
<1>8. CASE CreateTask(h)
  <2>1. load'[h] = [load[h] EXCEPT !.files = <<>>, !.pc = "close"]
    BY <1>8 DEF TypeInv, HostTypes, CreateTask
  <2>2. load[h].pc = "start" /\ load'[h].pc = "close" /\ load'[h].libs = load[h].libs
    BY <1>1, <1>8, <2>1 DEF LoadType, CreateTask, At
  <2>3. QED
    BY <2>2, LaterStage DEF Stage, HostPCs
<1>9. CASE CloseFiles(h)
  <2>1. load'[h].pc = "idle" /\ load[h].pc = "close"
    BY <1>9 DEF TypeInv, HostTypes, CloseFiles, At, NoLoad
  <2>2. Remaining(load'[h]) = 0
    BY <2>1 DEF Remaining
  <2>3. Remaining(load[h]) > 0
    BY <2>1, RemainingIs DEF HostPCs
  <2>4. QED
    BY <2>2, <2>3
<1>10. QED
  BY <1>2, <1>3, <1>4, <1>5, <1>6, <1>7, <1>8, <1>9 DEF HostStep

(* startFD comes closer to its return with every step, for any files that  *)
(* need each other in any way, and any number of hosts.                    *)
THEOREM StartAdvancesAlways == ASSUME IsFiniteSet(Names) PROVE Spec => StartAdvances
<1> DEFINE Advances ==
             \A h \in Hosts :
               ~At(h, "idle") /\ load'[h] # load[h] => Remaining(load'[h]) < Remaining(load[h])
<1>1. ASSUME TypeInv, CallInv, [Next]_vars PROVE Advances
  <2> SUFFICES ASSUME NEW h \in Hosts, ~At(h, "idle"), load'[h] # load[h]
               PROVE  Remaining(load'[h]) < Remaining(load[h])
    OBVIOUS
  <2>1. ASSUME NEW g \in Hosts, HostStep(g) \/ HostCall(g)
        PROVE  Remaining(load'[h]) < Remaining(load[h])
    <3>1. g = h
      BY <1>1, <2>1, OtherCalls
    <3>2. CASE HostStep(g)
      BY <1>1, <3>1, <3>2, HostAdvances
    <3>3. CASE HostCall(g)
      BY <3>1, <3>3 DEF HostCall, Start, Register, Unregister, At
    <3>4. QED
      BY <2>1, <3>2, <3>3
  <2>2. ASSUME NEW t \in Tasks, TaskStep(t) \/ AppStep(t) PROVE UNCHANGED load
    BY <2>2 DEF TaskStep, AppStep, Collect, SetContext, JumpToApp, EndContext, EndTask,
                AppEnds, AppMaps, AppUnmaps
  <2>3. QED
    BY <1>1, <2>1, <2>2 DEF Next, Halt, Halted, vars
<1>2. TypeInv /\ CallInv /\ [Next]_vars => [Advances]_vars
  BY <1>1
<1>3. QED
  BY <1>2, TypeAlways, CallAlways, PTL DEF Spec, StartAdvances

-----------------------------------------------------------------------------
(* Contexts, when one thread at a time starts processes: RunnerShared.cfg  *)
(* shows what two do. The number newContext has read is then still the     *)
(* next one when it is written back, and above that of every context, so   *)
(* the context is a new one. It has one user at a time: the start, then    *)
(* the task.                                                               *)

OneHost == \E h : Hosts = {h}

FreshNumber ==
  /\ \A p \in Live : p < nextPID
  /\ \A h \in Hosts : At(h, "insert") => load[h].pid = nextPID

OneUser ==
  \A p \in Pids, t \in Tasks :
    TaskUses(t, p) =>
      /\ \A u \in Tasks : TaskUses(u, p) => u = t
      /\ \A h \in Hosts : ~HostUses(h, p)

OwnNumber ==
  \A t \in Tasks :
    /\ tasks[t].pc \in {"jump", "run", "exit"} =>
         tasks[t].pid \in Pids /\ tasks[t].thread = tasks[t].pid
    /\ Doing(t, "run") => frame[tasks[t].pid] = t

UseInv ==
  FreshNumber /\ ContextOutlivesUsers /\ NoOrphanContext /\ OneUser /\ OwnNumber

LEMMA UseInit == Init => UseInv
<1> SUFFICES ASSUME Init PROVE UseInv
  OBVIOUS
<1>1. Live = {}
  BY DEF Init, Mem!Init, Live
<1>2. \A h \in Hosts : load[h].pc = "idle"
  BY DEF Init, NoLoad
<1>3. \A t \in Tasks : tasks[t].pc = "none"
  BY DEF Init, NoTask
<1>4. QED
  BY <1>1, <1>2, <1>3
     DEF UseInv, FreshNumber, ContextOutlivesUsers, NoOrphanContext, OneUser, OwnNumber,
         HostUses, TaskUses, At, Doing

(* Memory is mapped and unmapped without a change to what contexts exist.  *)
LEMMA SameContexts ==
  ASSUME NEW p, NEW b, Mem!MapBlock(p, b) \/ Mem!UnmapBlock(p, b)
  PROVE  Live' = Live
BY DEF Mem!MapBlock, Mem!UnmapBlock, Live

(* Most steps neither begin nor end a use of a context.                    *)
LEMMA UsesKept ==
  ASSUME UseInv, UNCHANGED nextPID, Live' = Live,
         \A h \in Hosts, p \in Pids : HostUses(h, p)' <=> HostUses(h, p),
         \A t \in Tasks, p \in Pids : TaskUses(t, p)' <=> TaskUses(t, p),
         \A h \in Hosts : At(h, "insert")' => load'[h].pid = nextPID,
         Live \subseteq Pids, OwnNumber'
  PROVE  UseInv'
<1>1. FreshNumber'
  BY DEF UseInv, FreshNumber
<1>2. ContextOutlivesUsers'
  BY DEF UseInv, ContextOutlivesUsers
<1>3. NoOrphanContext'
  BY DEF UseInv, NoOrphanContext
<1>4. OneUser'
  BY DEF UseInv, OneUser
<1>5. QED
  BY <1>1, <1>2, <1>3, <1>4 DEF UseInv

LEMMA HostKeepsUses ==
  ASSUME TypeInv, UseInv, NEW h \in Hosts,
         \/ ReadPID(h) \/ LoadFile(h) \/ LoadFails(h) \/ FindLibrary(h) \/ Link(h)
         \/ TaskFails(h) \/ CloseFiles(h) \/ HostCall(h)
  PROVE  UseInv'
<1>1. UNCHANGED <<nextPID, tasks, frame>>
  BY DEF ReadPID, LoadFile, LoadFails, FindLibrary, Link, TaskFails, CloseFiles,
         HostCall, Start, Register, Unregister
<1>2. Live' = Live
  <2>1. CASE UNCHANGED owned
    BY <2>1 DEF Live
  <2>2. CASE \E b \in Blocks : Mem!MapBlock(load[h].pid, b)
    BY <2>2, SameContexts
  <2>3. CASE \E b \in Blocks : owned' = [owned EXCEPT ![load[h].pid] = @ \cup {b}]
    BY <2>3 DEF Live
  <2>4. QED
    BY <2>1, <2>2, <2>3
       DEF ReadPID, LoadFile, LoadFails, FindLibrary, Link, TaskFails, CloseFiles,
           HostCall, Start, Register, Unregister
<1>3. load[h] \in LoadType
  BY DEF TypeInv, HostTypes
<1>4. \A g \in Hosts : g # h => load'[g] = load[g]
  BY OtherCalls DEF HostStep
<1>5. /\ load[h].pc \in {"load", "needed", "start", "fail"} <=>
           load'[h].pc \in {"load", "needed", "start", "fail"}
      /\ load'[h].pc \in {"load", "needed", "start", "fail"} => load'[h].pid = load[h].pid
      /\ load'[h].pc = "insert" => load'[h].pid = nextPID \/ load'[h] = load[h]
  <2>1. CASE ReadPID(h)
    <3>1. load[h].pc = "number" /\ load'[h] = [load[h] EXCEPT !.pid = nextPID, !.pc = "insert"]
      BY <2>1 DEF TypeInv, HostTypes, ReadPID, At
    <3>2. QED
      BY <1>3, <3>1 DEF LoadType
  <2>2. CASE LoadFile(h)
    <3>1. /\ load[h].pc = "load"
          /\ load'[h].pc = "needed" /\ load'[h].pid = load[h].pid
      BY <1>3, <2>2 DEF TypeInv, HostTypes, LoadFile, At, LoadType
    <3>2. QED
      BY <3>1
  <2>3. CASE FindLibrary(h)
    <3>1. PICK lib \in Names \cup Builtin, opened \in {TRUE, FALSE} :
            load'[h] = [load[h] EXCEPT !.libs = @ \cup {lib}, !.file = lib,
                                       !.pc = IF opened THEN "load" ELSE "fail"]
      BY <2>3, FindChoice DEF TypeInv, HostTypes
    <3>2. load'[h].pc \in {"load", "fail"} /\ load'[h].pid = load[h].pid
      BY <1>3, <3>1 DEF LoadType
    <3>3. load[h].pc = "needed"
      BY <2>3 DEF FindLibrary, At
    <3>4. QED
      BY <3>2, <3>3
  <2>4. CASE LoadFails(h) \/ Link(h) \/ TaskFails(h)
    <3>1. /\ load[h].pc \in {"load", "needed", "start"}
          /\ load'[h].pc \in {"fail", "start"} /\ load'[h].pid = load[h].pid
      BY <1>3, <2>4
         DEF TypeInv, HostTypes, LoadFails, Link, TaskFails, Goto, At, LoadType
    <3>2. QED
      BY <3>1
  <2>5. CASE CloseFiles(h)
    <3>1. load[h].pc = "close" /\ load'[h].pc = "idle"
      BY <2>5 DEF TypeInv, HostTypes, CloseFiles, At, NoLoad
    <3>2. QED
      BY <3>1
  <2>6. ASSUME NEW exe \in Executables, NEW opened \in {TRUE, FALSE}, Start(h, exe, opened)
        PROVE  load[h].pc = "idle" /\ load'[h].pc = "number"
    BY <2>6 DEF TypeInv, HostTypes, Start, At, NoLoad
  <2>7. QED
    BY <2>1, <2>2, <2>3, <2>4, <2>5, <2>6 DEF HostCall, Register, Unregister
<1>6. \A g \in Hosts, p \in Pids : HostUses(g, p)' <=> HostUses(g, p)
  BY <1>4, <1>5 DEF HostUses
<1>7. \A t \in Tasks, p \in Pids : TaskUses(t, p)' <=> TaskUses(t, p)
  BY <1>1 DEF TaskUses
<1>8. \A g \in Hosts : At(g, "insert")' => load'[g].pid = nextPID
  BY <1>4, <1>5 DEF UseInv, FreshNumber, At
<1>9. OwnNumber'
  BY <1>1 DEF UseInv, OwnNumber, Doing
<1>10. QED
  BY <1>1, <1>2, <1>6, <1>7, <1>8, <1>9, UsesKept DEF TypeInv, MemTypes

LEMMA TaskKeepsUses ==
  ASSUME TypeInv, UseInv, NEW t \in Tasks,
         \/ Collect(t) \/ SetContext(t) \/ JumpToApp(t) \/ EndTask(t) \/ AppStep(t)
  PROVE  UseInv'
<1>1. UNCHANGED <<nextPID, load>>
  BY DEF Collect, SetContext, JumpToApp, EndTask, AppStep, AppEnds, AppMaps, AppUnmaps
<1>2. Live' = Live
  <2>1. CASE UNCHANGED owned
    BY <2>1 DEF Live
  <2>2. QED
    BY <2>1, SameContexts
       DEF Collect, SetContext, JumpToApp, EndTask, AppStep, AppEnds, AppMaps, AppUnmaps
<1>3. tasks[t] \in TaskType
  BY DEF TypeInv, TaskTypes
<1>4. \A u \in Tasks : u # t => tasks'[u] = tasks[u]
  BY DEF TypeInv, TaskTypes, Collect, SetContext, JumpToApp, EndTask, AppStep, AppEnds,
         AppMaps, AppUnmaps, Step
<1>5. /\ tasks'[t].pid = tasks[t].pid
      /\ tasks[t].pc \in {"collect", "bind", "jump", "run", "exit"} <=>
           tasks'[t].pc \in {"collect", "bind", "jump", "run", "exit"}
  BY <1>3
     DEF TypeInv, TaskTypes, TaskType, Collect, SetContext, JumpToApp, EndTask, AppStep,
         AppEnds, AppMaps, AppUnmaps, Step, Doing
<1>6. \A h \in Hosts, p \in Pids : HostUses(h, p)' <=> HostUses(h, p)
  BY <1>1 DEF HostUses
<1>7. \A u \in Tasks, p \in Pids : TaskUses(u, p)' <=> TaskUses(u, p)
  BY <1>4, <1>5 DEF TaskUses
<1>8. \A h \in Hosts : At(h, "insert")' => load'[h].pid = nextPID
  BY <1>1 DEF UseInv, FreshNumber, At
<1>9. OwnNumber'
  <2>1. CASE JumpToApp(t)
    <3>1. /\ tasks[t].pid \in Pids /\ tasks[t].pc = "jump" /\ tasks[t].thread = tasks[t].pid
          /\ frame' = [frame EXCEPT ![tasks[t].pid] = t]
          /\ tasks'[t].thread = tasks[t].thread /\ tasks'[t].pc = "run"
      BY <1>3, <2>1
         DEF JumpToApp, TypeInv, TaskTypes, TaskType, Step, Doing, UseInv, OwnNumber
    <3>2. TaskUses(t, tasks[t].pid)
      BY <3>1 DEF TaskUses
    <3>3. ASSUME NEW u \in Tasks, u # t, tasks[u].pc = "run"
          PROVE  tasks[u].pid \in Pids /\ tasks[u].pid # tasks[t].pid
      BY <3>1, <3>2, <3>3 DEF TaskUses, UseInv, OneUser, OwnNumber
    <3>4. frame \in [Pids -> Tasks \cup {0}]
      BY DEF TypeInv, TaskTypes
    <3>5. QED
      BY <1>4, <1>5, <3>1, <3>3, <3>4 DEF UseInv, OwnNumber, Doing
  <2>2. CASE SetContext(t)
    <3>1. tasks'[t].pc = "jump" /\ tasks'[t].thread = tasks[t].pid /\ tasks[t].pid \in Pids
      BY <1>3, <2>2 DEF SetContext, TypeInv, TaskTypes, TaskType, MemTypes
    <3>2. frame' = frame
      BY <2>2 DEF SetContext
    <3>3. QED
      BY <1>4, <1>5, <3>1, <3>2 DEF UseInv, OwnNumber, Doing
  <2>3. CASE ~JumpToApp(t) /\ ~SetContext(t)
    <3>1. /\ frame' = frame /\ tasks'[t].thread = tasks[t].thread
          /\ tasks'[t].pc = "run" => tasks[t].pc = "run"
          /\ tasks'[t].pc \in {"jump", "run", "exit"} => tasks[t].pc \in {"jump", "run", "exit"}
      BY <1>3, <2>3
         DEF TypeInv, TaskTypes, TaskType, Collect, EndTask, AppStep, AppEnds, AppMaps,
             AppUnmaps, Step, Doing
    <3>2. QED
      BY <1>4, <1>5, <3>1 DEF UseInv, OwnNumber, Doing
  <2>4. QED
    BY <2>1, <2>2, <2>3
<1>10. QED
  BY <1>1, <1>2, <1>6, <1>7, <1>8, <1>9, UsesKept DEF TypeInv, MemTypes

(* The context newContext makes has nobody else's number.                  *)
LEMMA InsertUses ==
  ASSUME TypeInv, UseInv, NEW h, Hosts = {h}, InsertContext(h)
  PROVE  UseInv'
<1> DEFINE pid == load[h].pid
<1>1. /\ pid = nextPID /\ pid \in Pids /\ pid \notin Live
      /\ load[h].pc = "insert" /\ Live \subseteq Pids /\ nextPID \in Nat
  BY NumberInBounds
     DEF UseInv, FreshNumber, InsertContext, At, TypeInv, MemTypes, Counters, Pids
<1>2. Live' = Live \cup {pid} /\ nextPID' = pid + 1 /\ UNCHANGED <<tasks, frame>>
  BY <1>1 DEF InsertContext, Mem!Create, Mem!Live, Live
<1>3. load'[h].pc = "load" /\ load'[h].pid = pid
  BY DEF InsertContext, Goto, TypeInv, HostTypes, LoadType
<1> HIDE DEF pid
<1>4. FreshNumber'
  <2>1. \A p \in Live : p \in Int /\ p < nextPID
    BY <1>1 DEF UseInv, FreshNumber, Pids
  <2>2. \A p \in Live' : p < nextPID'
    BY <1>1, <1>2, <2>1
  <2>3. QED
    BY <1>3, <2>2 DEF FreshNumber, At
<1>5. /\ \A p \in Pids : HostUses(h, p)' <=> p = pid
      /\ \A p \in Pids : ~HostUses(h, p)
      /\ \A t \in Tasks, p \in Pids : TaskUses(t, p)' <=> TaskUses(t, p)
  BY <1>1, <1>2, <1>3 DEF HostUses, TaskUses
<1>6. \A t \in Tasks : ~TaskUses(t, pid)
  BY <1>1 DEF UseInv, ContextOutlivesUsers
<1>7. ContextOutlivesUsers' /\ NoOrphanContext'
  BY <1>1, <1>2, <1>5 DEF UseInv, ContextOutlivesUsers, NoOrphanContext
<1>8. OneUser'
  BY <1>5, <1>6 DEF UseInv, OneUser
<1>9. OwnNumber'
  BY <1>2 DEF UseInv, OwnNumber, Doing
<1>10. QED
  BY <1>4, <1>7, <1>8, <1>9 DEF UseInv

(* startPreloaded hands the context over.                                  *)
LEMMA CreateUses ==
  ASSUME TypeInv, UseInv, NEW h, Hosts = {h}, CreateTask(h)
  PROVE  UseInv'
<1> DEFINE pid == load[h].pid
<1>1. load[h].pc = "start" /\ UNCHANGED <<nextPID, frame, owned>> /\ Live' = Live
  BY DEF CreateTask, At, Live
<1>2. load'[h].pc = "close"
  BY DEF CreateTask, TypeInv, HostTypes, LoadType
<1>3. PICK t \in Tasks :
        /\ tasks[t].pc = "none"
        /\ tasks' = [tasks EXCEPT ![t] =
             [NoTask EXCEPT !.pc = "collect", !.pid = pid, !.files = load[h].files]]
  BY DEF CreateTask
<1>4. /\ tasks'[t].pc = "collect" /\ tasks'[t].pid = pid
      /\ \A u \in Tasks : u # t => tasks'[u] = tasks[u]
  BY <1>3 DEF TypeInv, TaskTypes, NoTask
<1> HIDE DEF pid
<1>5. /\ \A p \in Pids : ~HostUses(h, p)'
      /\ \A p \in Pids : HostUses(h, p) <=> p = pid
      /\ \A p \in Pids : TaskUses(t, p)' <=> p = pid
      /\ \A p \in Pids : ~TaskUses(t, p)
      /\ \A u \in Tasks, p \in Pids : u # t => (TaskUses(u, p)' <=> TaskUses(u, p))
  BY <1>1, <1>2, <1>3, <1>4 DEF HostUses, TaskUses, pid
<1>6. FreshNumber'
  BY <1>1, <1>2 DEF UseInv, FreshNumber, At
<1>7. Live \subseteq Pids
  BY DEF TypeInv, MemTypes
<1>8. ContextOutlivesUsers' /\ NoOrphanContext'
  <2>1. ASSUME NEW p \in Pids
        PROVE  (\E u \in Tasks : TaskUses(u, p)') <=>
                 HostUses(h, p) \/ \E u \in Tasks : TaskUses(u, p)
    BY <1>5
  <2>2. QED
    BY <1>1, <1>5, <1>7, <2>1 DEF UseInv, ContextOutlivesUsers, NoOrphanContext
<1>9. OneUser'
  BY <1>5 DEF UseInv, OneUser
<1>10. OwnNumber'
  BY <1>1, <1>4 DEF UseInv, OwnNumber, Doing
<1>11. QED
  BY <1>6, <1>8, <1>9, <1>10 DEF UseInv

(* deleteContext ends the one use there is.                                *)
LEMMA DeleteUses ==
  ASSUME TypeInv, UseInv, NEW h, Hosts = {h},
         DeleteAfterFailure(h) \/ \E t \in Tasks : EndContext(t)
  PROVE  UseInv'
<1>1. PICK pid \in Pids :
        /\ Live' = Live \ {pid} /\ UNCHANGED <<nextPID, frame>>
        /\ \/ /\ HostUses(h, pid) /\ load' = [load EXCEPT ![h].pc = "close"]
              /\ UNCHANGED tasks
           \/ \E t \in Tasks : /\ TaskUses(t, pid) /\ tasks' = [tasks EXCEPT ![t].pc = "free"]
                              /\ UNCHANGED load
  <2>1. CASE DeleteAfterFailure(h)
    BY <2>1
       DEF DeleteAfterFailure, Mem!Delete, Mem!Live, Live, At, Goto, HostUses, TypeInv, MemTypes
  <2>2. ASSUME NEW t \in Tasks, EndContext(t)
        PROVE  /\ tasks[t].pid \in Pids /\ Live' = Live \ {tasks[t].pid}
               /\ TaskUses(t, tasks[t].pid) /\ tasks' = [tasks EXCEPT ![t].pc = "free"]
               /\ UNCHANGED <<nextPID, frame, load>>
    BY <2>2 DEF EndContext, Mem!Delete, Mem!Live, Live, Doing, Step, TaskUses, TypeInv, MemTypes
  <2>3. QED
    BY <2>1, <2>2
<1>2. Live \subseteq Pids
  BY DEF TypeInv, MemTypes
<1>3. /\ \A p \in Pids : HostUses(h, p)' <=> HostUses(h, p) /\ p # pid
      /\ \A t \in Tasks, p \in Pids : TaskUses(t, p)' <=> TaskUses(t, p) /\ p # pid
      /\ \A g \in Hosts : At(g, "insert")' => load'[g].pid = nextPID
      /\ OwnNumber'
  <2>1. CASE HostUses(h, pid) /\ load' = [load EXCEPT ![h].pc = "close"] /\ UNCHANGED tasks
    <3>1. \A t \in Tasks : ~TaskUses(t, pid)
      BY <2>1 DEF UseInv, OneUser
    <3>2. load'[h].pc = "close" /\ load[h].pid = pid
      BY <2>1 DEF TypeInv, HostTypes, LoadType, HostUses
    <3>3. /\ \A p \in Pids : HostUses(h, p)' <=> HostUses(h, p) /\ p # pid
          /\ \A g \in Hosts : ~At(g, "insert")'
      BY <3>2 DEF HostUses, At
    <3>4. \A t \in Tasks, p \in Pids : TaskUses(t, p)' <=> TaskUses(t, p) /\ p # pid
      BY <2>1, <3>1 DEF TaskUses
    <3>5. OwnNumber'
      BY <1>1, <2>1 DEF UseInv, OwnNumber, Doing
    <3>6. QED
      BY <3>3, <3>4, <3>5
  <2>2. ASSUME NEW t \in Tasks, TaskUses(t, pid), tasks' = [tasks EXCEPT ![t].pc = "free"],
               UNCHANGED load
        PROVE  /\ \A p \in Pids : HostUses(h, p)' <=> HostUses(h, p) /\ p # pid
               /\ \A u \in Tasks, p \in Pids : TaskUses(u, p)' <=> TaskUses(u, p) /\ p # pid
               /\ \A g \in Hosts : At(g, "insert")' => load'[g].pid = nextPID
               /\ OwnNumber'
    <3>1. ~HostUses(h, pid) /\ \A u \in Tasks : TaskUses(u, pid) => u = t
      BY <2>2 DEF UseInv, OneUser
    <3>2. /\ tasks'[t].pc = "free" /\ tasks'[t].pid = tasks[t].pid /\ tasks[t].pid = pid
          /\ \A u \in Tasks : u # t => tasks'[u] = tasks[u]
      BY <2>2 DEF TypeInv, TaskTypes, TaskType, TaskUses
    <3>3. \A p \in Pids : HostUses(h, p)' <=> HostUses(h, p) /\ p # pid
      BY <2>2, <3>1 DEF HostUses
    <3>4. \A u \in Tasks, p \in Pids : TaskUses(u, p)' <=> TaskUses(u, p) /\ p # pid
      BY <3>1, <3>2 DEF TaskUses
    <3>5. \A g \in Hosts : At(g, "insert")' => load'[g].pid = nextPID
      BY <2>2 DEF UseInv, FreshNumber, At
    <3>6. OwnNumber'
      BY <1>1, <3>2 DEF UseInv, OwnNumber, Doing
    <3>7. QED
      BY <3>3, <3>4, <3>5, <3>6
  <2>3. QED
    BY <1>1, <2>1, <2>2
<1>4. FreshNumber'
  BY <1>1, <1>3 DEF UseInv, FreshNumber
<1>5. ContextOutlivesUsers' /\ NoOrphanContext'
  BY <1>1, <1>2, <1>3 DEF UseInv, ContextOutlivesUsers, NoOrphanContext
<1>6. OneUser'
  BY <1>3 DEF UseInv, OneUser
<1>7. QED
  BY <1>3, <1>4, <1>5, <1>6 DEF UseInv

LEMMA UseNext == ASSUME OneHost PROVE TypeInv /\ UseInv /\ [Next]_vars => UseInv'
<1> SUFFICES ASSUME TypeInv, UseInv, [Next]_vars PROVE UseInv'
  OBVIOUS
<1>1. PICK h : Hosts = {h}
  BY DEF OneHost
<1>2. CASE HostStep(h) \/ HostCall(h)
  BY <1>1, <1>2, HostKeepsUses, InsertUses, CreateUses, DeleteUses DEF HostStep
<1>3. ASSUME NEW t \in Tasks, TaskStep(t) \/ AppStep(t) PROVE UseInv'
  BY <1>1, <1>3, TaskKeepsUses, DeleteUses DEF TaskStep
<1>4. CASE Halt \/ UNCHANGED vars
  <2>1. UNCHANGED <<owned, nextPID, load, tasks, frame>>
    BY <1>4 DEF Halt, vars
  <2>2. QED
    BY <2>1 DEF UseInv, FreshNumber, ContextOutlivesUsers, NoOrphanContext, OneUser,
                OwnNumber, HostUses, TaskUses, At, Doing, Live
<1>5. QED
  BY <1>1, <1>2, <1>3, <1>4 DEF Next, Halted

LEMMA UseAlways == ASSUME OneHost PROVE Spec => []UseInv
  BY UseInit, UseNext, TypeAlways, PTL DEF Spec

(* A context is there until its last use: startFD, which may delete it,    *)
(* and the task, which deletes it, do so after it.                         *)
THEOREM ContextOutlivesUsersAlways == ASSUME OneHost PROVE Spec => []ContextOutlivesUsers
<1>1. UseInv => ContextOutlivesUsers
  BY DEF UseInv
<1>2. QED
  BY <1>1, UseAlways, PTL

(* No failure of a start and no exit leaves a context that nobody will     *)
(* delete.                                                                 *)
THEOREM NoOrphanAlways == ASSUME OneHost PROVE Spec => []NoOrphanContext
<1>1. UseInv => NoOrphanContext
  BY DEF UseInv
<1>2. QED
  BY <1>1, UseAlways, PTL

(* "Create a new numbered ABI context": two starts or processes never have *)
(* the same one.                                                           *)
THEOREM ContextsNotSharedAlways == ASSUME OneHost PROVE Spec => []ContextsNotShared
<1>1. ASSUME OneHost, UseInv PROVE ContextsNotShared
  <2>1. PICK h : Hosts = {h}
    BY <1>1 DEF OneHost
  <2> DEFINE usersOf(p) == {g \in Hosts : HostUses(g, p)} \X {"host"}
                             \cup {t \in Tasks : TaskUses(t, p)} \X {"task"}
  <2> SUFFICES ASSUME NEW p \in Pids PROVE Cardinality(usersOf(p)) <= 1
    BY DEF ContextsNotShared
  <2> DEFINE users == usersOf(p)
  <2>2. ASSUME NEW x \in users, NEW y \in users PROVE x = y
    BY <1>1, <2>1, <2>2 DEF UseInv, OneUser
  <2>3. CASE users = {}
    BY <2>3, FS_EmptySet
  <2>4. ASSUME NEW x \in users PROVE Cardinality(users) <= 1
    <3>1. users = {x}
      BY <2>2, <2>4
    <3>2. Cardinality({x}) = 1
      BY FS_Singleton
    <3> HIDE DEF users
    <3>3. QED
      BY <3>1, <3>2
  <2>5. QED
    BY <2>3, <2>4
<1>2. QED
  BY <1>1, UseAlways, PTL

(* _exit of a running process comes back to the taskCode that called it.   *)
THEOREM ExitReturnsAlways == ASSUME OneHost PROVE Spec => []ExitReturnsToOwnTask
<1>1. ASSUME UseInv PROVE ExitReturnsToOwnTask
  <2>1. SUFFICES ASSUME NEW t \in Tasks, Doing(t, "run") PROVE OwnFrame(t)
    BY DEF ExitReturnsToOwnTask
  <2>2. /\ tasks[t].pid \in Pids /\ tasks[t].thread = tasks[t].pid
        /\ frame[tasks[t].pid] = t /\ TaskUses(t, tasks[t].pid)
    BY <1>1, <2>1 DEF UseInv, OwnNumber, TaskUses, Doing
  <2>3. QED
    BY <1>1, <2>1, <2>2 DEF UseInv, ContextOutlivesUsers, OwnFrame
<1>2. QED
  BY <1>1, UseAlways, PTL

-----------------------------------------------------------------------------
(* Memory, with any number of hosts. If exportSymbols fails the block is   *)
(* free and still owned: RunnerExport.cfg.                                 *)

LEMMA MemoryStep ==
  ASSUME ~ExportMayFail, TypeInv, [Next]_vars
  PROVE  [Mem!Next]_Mem!memVars
<1>1. CASE UNCHANGED <<heap, owned>>
  BY <1>1 DEF Mem!memVars
<1>2. ASSUME NEW p \in Live, NEW b, Mem!MapBlock(p, b) \/ Mem!UnmapBlock(p, b)
      PROVE  Mem!Next
  <2>1. p \in Pids /\ b \in Blocks
    BY <1>2 DEF TypeInv, MemTypes, Live, Mem!MapBlock, Mem!UnmapBlock
  <2>2. QED
    BY <1>2, <2>1 DEF Mem!Next
<1>3. ASSUME NEW p, Mem!Create(p) \/ Mem!Delete(p) PROVE Mem!Next
  <2>1. p \in Pids
    BY <1>3 DEF TypeInv, MemTypes, Live, Mem!Create, Mem!Delete, Mem!Live
  <2>2. QED
    BY <1>3, <2>1 DEF Mem!Next
<1>4. ASSUME NEW p, NEW b, Mem!MapBlock(p, b) \/ Mem!UnmapBlock(p, b) PROVE p \in Live
  BY <1>4 DEF Mem!MapBlock, Mem!UnmapBlock, Mem!Live, Live
<1>5. ASSUME NEW h \in Hosts, HostStep(h) \/ HostCall(h)
      PROVE  [Mem!Next]_Mem!memVars
  BY <1>1, <1>2, <1>3, <1>4, <1>5
     DEF HostStep, HostCall, Start, Register, Unregister, ReadPID, InsertContext, LoadFile,
         LoadFails, FindLibrary, Link, CreateTask, TaskFails, DeleteAfterFailure, CloseFiles
<1>6. ASSUME NEW t \in Tasks, TaskStep(t) \/ AppStep(t)
      PROVE  [Mem!Next]_Mem!memVars
  BY <1>1, <1>2, <1>3, <1>4, <1>6
     DEF TaskStep, AppStep, Collect, SetContext, JumpToApp, EndContext, EndTask, AppEnds,
         AppMaps, AppUnmaps
<1>7. QED
  BY <1>1, <1>5, <1>6 DEF Next, Halt, Halted, vars

(* Whatever starts, fails, runs and exits does to memory is what contexts  *)
(* promise of it.                                                          *)
THEOREM RefinesMemory == ASSUME ~ExportMayFail PROVE Spec => Mem!Spec
<1>1. Init => Mem!Init
  BY DEF Init
<1>2. QED
  BY <1>1, MemoryStep, TypeAlways, PTL DEF Spec, Mem!Spec

LEMMA OwnedOnceStep ==
  ASSUME MemTypes, Mem!OwnedOnce, [Mem!Next]_Mem!memVars
  PROVE  Mem!OwnedOnce'
<1>1. /\ heap = UNION {owned[p] : p \in Live}
      /\ \A p, q \in Live : p # q => owned[p] \cap owned[q] = {}
  BY DEF Mem!OwnedOnce, Mem!Live, Live
<1>2. CASE UNCHANGED <<heap, owned>>
  BY <1>2 DEF Mem!OwnedOnce, Mem!Live
<1>3. ASSUME NEW p, Mem!Create(p) PROVE Mem!OwnedOnce'
  BY <1>1, <1>3 DEF Mem!Create, Mem!OwnedOnce, Mem!Live, Live
<1>4. ASSUME NEW p, Mem!Delete(p) PROVE Mem!OwnedOnce'
  BY <1>1, <1>4 DEF Mem!Delete, Mem!OwnedOnce, Mem!Live, Live
<1>5. ASSUME NEW p, NEW b, Mem!MapBlock(p, b) PROVE Mem!OwnedOnce'
  BY <1>1, <1>5 DEF Mem!MapBlock, Mem!OwnedOnce, Mem!Live, Live
<1>6. ASSUME NEW p, NEW b, Mem!UnmapBlock(p, b) PROVE Mem!OwnedOnce'
  BY <1>1, <1>6 DEF Mem!UnmapBlock, Mem!OwnedOnce, Mem!Live, Live
<1>7. QED
  BY <1>2, <1>3, <1>4, <1>5, <1>6 DEF Mem!Next, Mem!memVars

(* "Actual allocated blocks of memory": every block in use belongs to one  *)
(* context, which will free it once.                                       *)
THEOREM MemoryOwnedOnceAlways == ASSUME ~ExportMayFail PROVE Spec => []MemoryOwnedOnce
<1>1. Init => MemoryOwnedOnce
  BY DEF Init, Mem!Init, MemoryOwnedOnce, Mem!OwnedOnce, Mem!Live
<1>2. TypeInv /\ MemoryOwnedOnce /\ [Next]_vars => MemoryOwnedOnce'
  BY MemoryStep, OwnedOnceStep DEF TypeInv, MemoryOwnedOnce
<1>3. QED
  BY <1>1, <1>2, TypeAlways, PTL DEF Spec
=============================================================================
