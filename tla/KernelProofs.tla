---------------------------- MODULE KernelProofs ----------------------------
(***************************************************************************)
(* Proofs about Kernel, for any number of processes, when a process gets   *)
(* the processor only while no other process is inside (~AnySwitch). Hosts *)
(* and other tasks take it from a process anywhere. That a process keeps   *)
(* the active context then rests on Alone: one process is inside at most.  *)
(***************************************************************************)
EXTENDS Kernel, TLAPS

(* A process is inside alone, and no other process has the processor.      *)
Alone ==
  \A p \in Processes :
    pc[p] \in Inside =>
      /\ cur \in {p, None}
      /\ \A q \in Processes \ {p} : pc[q] \notin Inside

(* The process that is inside has its context active, in the right mode,   *)
(* also while another task of the firmware has the processor.              *)
OwnActive ==
  \A p \in Processes :
    pc[p] \in {"jump", "user", "abi", "fault"} =>
      /\ mscratch = p
      /\ super[p] <=> pc[p] \in {"jump", "abi"}

(* The active context is that of a task between setCtx and setDefaultCtx.  *)
ActiveInside == mscratch \in Processes => pc[mscratch] \in Inside \cup {"yield"}

(* The locals of handlers and of abi_yield name the task's own context,    *)
(* and a process about to start has its first registers in it.             *)
OwnLocals ==
  \A p \in Processes :
    /\ pc[p] \in {"abi", "fault", "yield"} => local[p] = p
    /\ pc[p] = "yield" => kept[p] = p
    /\ pc[p] = "jump" => u[p] = <<p, "user">>

IInv ==
  /\ TypeOK
  /\ RunsOwnRegisters
  /\ OwnActive
  /\ ExitFindsMachineFrame
  /\ Alone
  /\ ActiveInside
  /\ OwnLocals

USE DEF Contexts, PCs, Inside

-----------------------------------------------------------------------------
(* Before the first process, nothing is active.                            *)
LEMMA InitInv == Init => IInv
  BY KernelAssumption
  DEF Init, IInv, TypeOK, RunsOwnRegisters, Lost, OwnActive,
      ExitFindsMachineFrame, Alone, ActiveInside, OwnLocals

(* FreeRTOS: creating and switching tasks.                                 *)
LEMMA SchedulerInv ==
  ASSUME IInv, ~AnySwitch,
         \/ \E p \in Processes : Create(p)
         \/ \E p \in Processes \cup {None} : Switch(p)
  PROVE  IInv'
<1>1. ASSUME NEW p \in Processes, Create(p) PROVE IInv'
  <2> USE <1>1 DEF Create, Goto
  <2>1. TypeOK' BY KernelAssumption DEF IInv, TypeOK
  <2>2. RunsOwnRegisters' BY DEF IInv, TypeOK, RunsOwnRegisters, Lost
  <2>3. OwnActive' BY KernelAssumption DEF IInv, TypeOK, OwnActive
  <2>4. ExitFindsMachineFrame' BY DEF IInv, TypeOK, ExitFindsMachineFrame
  <2>5. Alone' BY DEF IInv, TypeOK, Alone
  <2>6. ActiveInside' BY DEF IInv, TypeOK, ActiveInside
  <2>7. OwnLocals' BY DEF IInv, TypeOK, OwnLocals
  <2> QED BY <2>1, <2>2, <2>3, <2>4, <2>5, <2>6, <2>7 DEF IInv
<1>2. ASSUME NEW p \in Processes \cup {None}, Switch(p) PROVE IInv'
  <2> USE <1>2 DEF Switch
  <2>1. TypeOK' BY DEF IInv, TypeOK, Live
  <2>2. RunsOwnRegisters' BY DEF IInv, RunsOwnRegisters, Lost
  <2>3. OwnActive' BY DEF IInv, OwnActive
  <2>4. ExitFindsMachineFrame' BY DEF IInv, ExitFindsMachineFrame
  <2>5. Alone' BY DEF IInv, Alone, Others
  <2>6. ActiveInside' /\ OwnLocals' BY DEF IInv, ActiveInside, OwnLocals
  <2> QED BY <2>1, <2>2, <2>3, <2>4, <2>5, <2>6 DEF IInv
<1> QED BY <1>1, <1>2

(* What a task outside a process does, or one that enters it: it finds no  *)
(* other task inside.                                                      *)
LEMMA EnterInv ==
  ASSUME IInv, NEW p \in Processes,
         SetUpFails(p) \/ SetUp(p) \/ SetDefaultCtx(p) \/ EndTask(p)
  PROVE  IInv'
<1> USE KernelAssumption DEF IInv, TypeOK, Goto, Running, SetCtx
<1>0. <<p, "user">> \in Frames
  BY DEF Frames
<1>1. CASE SetUpFails(p)
  BY <1>1 DEF SetUpFails, RunsOwnRegisters, Lost, OwnActive,
      ExitFindsMachineFrame, Alone, ActiveInside, OwnLocals
<1>2. CASE SetUp(p)
  <2> USE <1>2 DEF SetUp
  <2>1. TypeOK' BY <1>0
  <2>2. RunsOwnRegisters' BY DEF RunsOwnRegisters, Lost
  <2>3. OwnActive' BY DEF OwnActive, Alone
  <2>4. ExitFindsMachineFrame' BY DEF ExitFindsMachineFrame
  <2>5. Alone' BY DEF Alone
  <2>6. ActiveInside' BY DEF ActiveInside
  <2>7. OwnLocals' BY DEF OwnLocals
  <2> QED BY <2>1, <2>2, <2>3, <2>4, <2>5, <2>6, <2>7 DEF IInv
<1>3. CASE SetDefaultCtx(p)
  BY <1>3 DEF SetDefaultCtx, RunsOwnRegisters, Lost, OwnActive,
      ExitFindsMachineFrame, Alone, ActiveInside, OwnLocals
<1>4. CASE EndTask(p)
  BY <1>4 DEF EndTask, RunsOwnRegisters, Lost, OwnActive,
      ExitFindsMachineFrame, Alone, ActiveInside, OwnLocals
<1> QED BY <1>1, <1>2, <1>3, <1>4
(* Where a trap of the running process lands: in its own context, in the   *)
(* half that belongs to it.                                                *)
LEMMA TrapLands ==
  ASSUME IInv, NEW p \in Processes, cur = p,
         pc[p] \in {"jump", "user", "abi", "fault"}
  PROVE  /\ mscratch = p
         /\ super[p] <=> pc[p] \in {"jump", "abi"}
         /\ \A q \in Processes \ {p} : pc[q] \notin Inside
         /\ pc[p] = "jump" => u[p] = <<p, "user">>
         /\ pc[p] # "jump" => local[p] = p \/ pc[p] = "user"
         /\ pc[p] # "jump" /\ ~halted => m[p] = <<p, "jump">>
         /\ pc[p] = "abi" /\ ~halted => u[p] = <<p, "user">>
  BY DEF IInv, OwnActive, Alone, OwnLocals, ExitFindsMachineFrame

(* What a process does, and the kernel for it.                             *)
LEMMA InsideInv ==
  ASSUME IInv, ~halted, NEW p \in Processes,
         \/ UserJump(p) \/ ABICall(p) \/ ABIReturns(p) \/ ABITraps(p)
         \/ Yield(p) \/ YieldReturns(p)
         \/ UserEnds(p) \/ UserFaults(p) \/ FaultEnds(p)
  PROVE  IInv'
<1> USE KernelAssumption DEF IInv, TypeOK, Goto, Running
<1>0. \A at \in {"jump", "user", "abi"} : <<p, at>> \in Frames
  BY DEF Frames
<1>1. CASE UserJump(p)
  <2>1. /\ cur = p /\ pc[p] = "jump" /\ mscratch = p
        /\ super[p] /\ u[p] = <<p, "user">>
        /\ \A q \in Processes \ {p} : pc[q] \notin Inside
    BY TrapLands, <1>1 DEF UserJump
  <2>2. /\ m' = [m EXCEPT ![p] = <<p, "jump">>]
        /\ super' = [super EXCEPT ![p] = FALSE]
        /\ pc' = [pc EXCEPT ![p] = "user"]
        /\ UNCHANGED <<mscratch, u, local, kept, cur, halted>>
    BY <1>1, <2>1 DEF UserJump, Saved, RestoreUser
  <2>3. TypeOK' BY <1>0, <2>1, <2>2
  <2>4. RunsOwnRegisters' BY <2>1, <2>2 DEF RunsOwnRegisters, Lost
  <2>5. OwnActive' BY <2>1, <2>2 DEF OwnActive
  <2>6. ExitFindsMachineFrame' BY <2>1, <2>2 DEF ExitFindsMachineFrame
  <2>7. Alone' BY <2>1, <2>2 DEF Alone
  <2>8. ActiveInside' BY <2>1, <2>2 DEF ActiveInside
  <2>9. OwnLocals' BY <2>1, <2>2 DEF OwnLocals
  <2> QED BY <2>3, <2>4, <2>5, <2>6, <2>7, <2>8, <2>9
<1>2. CASE ABICall(p)
  <2>1. /\ cur = p /\ pc[p] = "user" /\ mscratch = p
        /\ ~super[p] /\ m[p] = <<p, "jump">>
        /\ \A q \in Processes \ {p} : pc[q] \notin Inside
    BY TrapLands, <1>2 DEF ABICall
  <2>2. /\ u' = [u EXCEPT ![p] = <<p, "user">>]
        /\ super' = [super EXCEPT ![p] = TRUE]
        /\ pc' = [pc EXCEPT ![p] = "abi"]
        /\ local' = [local EXCEPT ![p] = p]
        /\ UNCHANGED <<mscratch, m, kept, cur, halted>>
    BY <1>2, <2>1 DEF ABICall, Saved, Handle
  <2>3. TypeOK' BY <1>0, <2>1, <2>2
  <2>4. RunsOwnRegisters' BY <2>1, <2>2 DEF RunsOwnRegisters, Lost
  <2>5. OwnActive' BY <2>1, <2>2 DEF OwnActive
  <2>6. ExitFindsMachineFrame' BY <2>1, <2>2 DEF ExitFindsMachineFrame
  <2>7. Alone' BY <2>1, <2>2 DEF Alone
  <2>8. ActiveInside' BY <2>1, <2>2 DEF ActiveInside
  <2>9. OwnLocals' BY <2>1, <2>2 DEF OwnLocals
  <2> QED BY <2>3, <2>4, <2>5, <2>6, <2>7, <2>8, <2>9
<1>3. CASE ABIReturns(p)
  <2>1. /\ cur = p /\ pc[p] = "abi" /\ mscratch = p /\ local[p] = p
        /\ super[p] /\ m[p] = <<p, "jump">> /\ u[p] = <<p, "user">>
        /\ \A q \in Processes \ {p} : pc[q] \notin Inside
    BY TrapLands, <1>3 DEF ABIReturns
  <2>2. /\ super' = [super EXCEPT ![p] = FALSE]
        /\ pc' = [pc EXCEPT ![p] = "user"]
        /\ UNCHANGED <<mscratch, u, m, local, kept, cur, halted>>
    BY <1>3, <2>1 DEF ABIReturns
  <2>3. TypeOK' BY <1>0, <2>1, <2>2
  <2>4. RunsOwnRegisters' BY <2>1, <2>2 DEF RunsOwnRegisters, Lost
  <2>5. OwnActive' BY <2>1, <2>2 DEF OwnActive
  <2>6. ExitFindsMachineFrame' BY <2>1, <2>2 DEF ExitFindsMachineFrame
  <2>7. Alone' BY <2>1, <2>2 DEF Alone
  <2>8. ActiveInside' BY <2>1, <2>2 DEF ActiveInside
  <2>9. OwnLocals' BY <2>1, <2>2 DEF OwnLocals
  <2> QED BY <2>3, <2>4, <2>5, <2>6, <2>7, <2>8, <2>9
<1>4. CASE ABITraps(p)
  <2>1. /\ cur = p /\ pc[p] = "abi" /\ mscratch = p
        /\ super[p] /\ m[p] = <<p, "jump">> /\ u[p] = <<p, "user">>
        /\ \A q \in Processes \ {p} : pc[q] \notin Inside
    BY TrapLands, <1>4 DEF ABITraps
  <2>2. /\ m' = [m EXCEPT ![p] = <<p, "abi">>]
        /\ halted' = TRUE
        /\ UNCHANGED <<mscratch, super, u, pc, local, kept, cur>>
    BY <1>4, <2>1 DEF ABITraps, Saved, Panic
  <2>3. TypeOK' BY <1>0, <2>1, <2>2
  <2>4. RunsOwnRegisters' BY <2>1, <2>2 DEF RunsOwnRegisters, Lost
  <2>5. OwnActive' BY <2>1, <2>2 DEF OwnActive
  <2>6. ExitFindsMachineFrame' BY <2>1, <2>2 DEF ExitFindsMachineFrame
  <2>7. Alone' BY <2>1, <2>2 DEF Alone
  <2>8. ActiveInside' BY <2>1, <2>2 DEF ActiveInside
  <2>9. OwnLocals' BY <2>1, <2>2 DEF OwnLocals
  <2> QED BY <2>3, <2>4, <2>5, <2>6, <2>7, <2>8, <2>9
<1>5. CASE Yield(p)
  <2>1. /\ cur = p /\ pc[p] = "abi" /\ mscratch = p
        /\ super[p] /\ m[p] = <<p, "jump">> /\ u[p] = <<p, "user">>
        /\ \A q \in Processes \ {p} : pc[q] \notin Inside
    BY TrapLands, <1>5 DEF Yield
  <2>2. /\ kept' = [kept EXCEPT ![p] = p]
        /\ pc' = [pc EXCEPT ![p] = "yield"]
        /\ UNCHANGED <<mscratch, super, u, m, local, cur, halted>>
    BY <1>5, <2>1 DEF Yield
  <2>3. TypeOK' BY <1>0, <2>1, <2>2
  <2>4. RunsOwnRegisters' BY <2>1, <2>2 DEF RunsOwnRegisters, Lost
  <2>5. OwnActive' BY <2>1, <2>2 DEF OwnActive
  <2>6. ExitFindsMachineFrame' BY <2>1, <2>2 DEF ExitFindsMachineFrame
  <2>7. Alone' BY <2>1, <2>2 DEF Alone
  <2>8. ActiveInside' BY <2>1, <2>2 DEF ActiveInside
  <2>9. OwnLocals' BY <2>1, <2>2 DEF OwnLocals
  <2> QED BY <2>3, <2>4, <2>5, <2>6, <2>7, <2>8, <2>9
<1>6. CASE YieldReturns(p)
  <2>1. /\ cur = p /\ pc[p] = "yield"
        /\ \A q \in Processes \ {p} : pc[q] \notin Inside
    BY <1>6 DEF YieldReturns, Alone
  <2>2. /\ mscratch' = p
        /\ super' = [super EXCEPT ![p] = TRUE]
        /\ pc' = [pc EXCEPT ![p] = "abi"]
        /\ UNCHANGED <<u, m, local, kept, cur, halted>>
    BY <1>6 DEF YieldReturns, SetCtx, OwnLocals
  <2>3. TypeOK' BY <1>0, <2>1, <2>2
  <2>4. RunsOwnRegisters' BY <2>1, <2>2 DEF RunsOwnRegisters, Lost
  <2>5. OwnActive' BY <2>1, <2>2 DEF OwnActive
  <2>6. ExitFindsMachineFrame' BY <2>1, <2>2 DEF ExitFindsMachineFrame
  <2>7. Alone' BY <2>1, <2>2 DEF Alone
  <2>8. ActiveInside' BY <2>1, <2>2 DEF ActiveInside
  <2>9. OwnLocals' BY <2>1, <2>2 DEF OwnLocals
  <2> QED BY <2>3, <2>4, <2>5, <2>6, <2>7, <2>8, <2>9
<1>7. CASE UserEnds(p)
  <2>1. /\ cur = p /\ pc[p] = "user" /\ mscratch = p
        /\ ~super[p] /\ m[p] = <<p, "jump">>
        /\ \A q \in Processes \ {p} : pc[q] \notin Inside
    BY TrapLands, <1>7 DEF UserEnds
  <2>2. /\ u' = [u EXCEPT ![p] = <<p, "user">>]
        /\ super' = [super EXCEPT ![p] = TRUE]
        /\ pc' = [pc EXCEPT ![p] = "back"]
        /\ UNCHANGED <<mscratch, m, local, kept, cur, halted>>
    BY <1>7, <2>1 DEF UserEnds, Saved, RestoreKernel
  <2>3. TypeOK' BY <1>0, <2>1, <2>2
  <2>4. RunsOwnRegisters' BY <2>1, <2>2 DEF RunsOwnRegisters, Lost
  <2>5. OwnActive' BY <2>1, <2>2 DEF OwnActive
  <2>6. ExitFindsMachineFrame' BY <2>1, <2>2 DEF ExitFindsMachineFrame
  <2>7. Alone' BY <2>1, <2>2 DEF Alone
  <2>8. ActiveInside' BY <2>1, <2>2 DEF ActiveInside
  <2>9. OwnLocals' BY <2>1, <2>2 DEF OwnLocals
  <2> QED BY <2>3, <2>4, <2>5, <2>6, <2>7, <2>8, <2>9
<1>8. CASE UserFaults(p)
  <2>1. /\ cur = p /\ pc[p] = "user" /\ mscratch = p
        /\ ~super[p] /\ m[p] = <<p, "jump">>
        /\ \A q \in Processes \ {p} : pc[q] \notin Inside
    BY TrapLands, <1>8 DEF UserFaults
  <2>2. /\ u' = [u EXCEPT ![p] = <<p, "user">>]
        /\ pc' = [pc EXCEPT ![p] = "fault"]
        /\ local' = [local EXCEPT ![p] = p]
        /\ UNCHANGED <<mscratch, super, m, kept, cur, halted>>
    BY <1>8, <2>1 DEF UserFaults, Saved, Handle
  <2>3. TypeOK' BY <1>0, <2>1, <2>2
  <2>4. RunsOwnRegisters' BY <2>1, <2>2 DEF RunsOwnRegisters, Lost
  <2>5. OwnActive' BY <2>1, <2>2 DEF OwnActive
  <2>6. ExitFindsMachineFrame' BY <2>1, <2>2 DEF ExitFindsMachineFrame
  <2>7. Alone' BY <2>1, <2>2 DEF Alone
  <2>8. ActiveInside' BY <2>1, <2>2 DEF ActiveInside
  <2>9. OwnLocals' BY <2>1, <2>2 DEF OwnLocals
  <2> QED BY <2>3, <2>4, <2>5, <2>6, <2>7, <2>8, <2>9
<1>9. CASE FaultEnds(p)
  <2>1. /\ cur = p /\ pc[p] = "fault" /\ mscratch = p /\ local[p] = p
        /\ ~super[p] /\ m[p] = <<p, "jump">>
        /\ \A q \in Processes \ {p} : pc[q] \notin Inside
    BY TrapLands, <1>9 DEF FaultEnds
  <2>2. /\ super' = [super EXCEPT ![p] = TRUE]
        /\ pc' = [pc EXCEPT ![p] = "back"]
        /\ UNCHANGED <<mscratch, u, m, local, kept, cur, halted>>
    BY <1>9, <2>1 DEF FaultEnds, RestoreKernel
  <2>3. TypeOK' BY <1>0, <2>1, <2>2
  <2>4. RunsOwnRegisters' BY <2>1, <2>2 DEF RunsOwnRegisters, Lost
  <2>5. OwnActive' BY <2>1, <2>2 DEF OwnActive
  <2>6. ExitFindsMachineFrame' BY <2>1, <2>2 DEF ExitFindsMachineFrame
  <2>7. Alone' BY <2>1, <2>2 DEF Alone
  <2>8. ActiveInside' BY <2>1, <2>2 DEF ActiveInside
  <2>9. OwnLocals' BY <2>1, <2>2 DEF OwnLocals
  <2> QED BY <2>3, <2>4, <2>5, <2>6, <2>7, <2>8, <2>9
<1> QED BY <1>1, <1>2, <1>3, <1>4, <1>5, <1>6, <1>7, <1>8, <1>9

(* Every step.                                                             *)
LEMMA NextInv ==
  ASSUME IInv, ~AnySwitch, [Next]_vars
  PROVE  IInv'
<1>1. CASE UNCHANGED vars
  BY <1>1 DEF vars, IInv, TypeOK, RunsOwnRegisters, Lost, OwnActive,
      ExitFindsMachineFrame, Alone, ActiveInside, OwnLocals
<1>2. CASE Next
  BY <1>1, <1>2, SchedulerInv, EnterInv, InsideInv DEF Next, ProcessStep
<1> QED BY <1>1, <1>2

-----------------------------------------------------------------------------
(* With no process switched to while another is inside, every reachable    *)
(* state satisfies the inductive invariant.                                *)
THEOREM Invariance == ASSUME ~AnySwitch PROVE Spec => []IInv
<1>1. Init => IInv
  BY InitInv
<1>2. IInv /\ [Next]_vars => IInv'
  BY NextInv
<1> QED BY <1>1, <1>2, PTL DEF Spec

(* The kernel's state keeps its types, and handlers only ever work on      *)
(* contexts of processes.                                                  *)
THEOREM TypeCorrect == ASSUME ~AnySwitch PROVE Spec => []TypeOK
<1>1. IInv => TypeOK
  BY DEF IInv
<1> QED BY <1>1, Invariance, PTL

(* A task that can trap has its own context active, in the right mode.     *)
THEOREM OwnContextAlways == ASSUME ~AnySwitch PROVE Spec => []TrapsFindOwnContext
<1>1. IInv => TrapsFindOwnContext
  BY DEF IInv, OwnActive, TrapsFindOwnContext
<1> QED BY <1>1, Invariance, PTL

(* No task goes on with registers of another or of another time.           *)
THEOREM OwnRegistersAlways == ASSUME ~AnySwitch PROVE Spec => []RunsOwnRegisters
<1>1. IInv => RunsOwnRegisters
  BY DEF IInv
<1> QED BY <1>1, Invariance, PTL

(* SYS_EXIT and a fault find the frame of runUserCode, and an ABI call the *)
(* registers of its process.                                               *)
THEOREM MachineFrameAlways ==
  ASSUME ~AnySwitch PROVE Spec => []ExitFindsMachineFrame
<1>1. IInv => ExitFindsMachineFrame
  BY DEF IInv
<1> QED BY <1>1, Invariance, PTL

(* The active context outlives its task's use of the processor.            *)
THEOREM ActiveContextAlways == ASSUME ~AnySwitch PROVE Spec => []ActiveContextExists
<1>1. IInv => ActiveContextExists
  BY DEF IInv, ActiveInside, ActiveContextExists, Inside
<1> QED BY <1>1, Invariance, PTL

(* A process cannot make the kernel panic from user mode.                  *)
THEOREM NoUserPanic == ASSUME ~AnySwitch PROVE Spec => UserCannotPanic
<1>1. ASSUME IInv, [Next]_vars PROVE [halted' # halted => pc[cur] = "abi"]_vars
  <2>1. CASE UNCHANGED vars
    BY <2>1
  <2>2. SUFFICES ASSUME Next, halted' # halted PROVE pc[cur] = "abi"
    BY <1>1, <2>1
  <2>3. ASSUME NEW p \in Processes, ABICall(p) \/ UserEnds(p) \/ UserFaults(p)
        PROVE  halted' = halted
    BY <1>1, <2>3, TrapLands
    DEF ABICall, UserEnds, UserFaults, Running, Handle, RestoreUser, RestoreKernel
  <2>4. ASSUME NEW p \in Processes, FaultEnds(p) PROVE halted' = halted
    BY <1>1, <2>4, TrapLands DEF FaultEnds, Running, RestoreKernel
  <2>5. ASSUME NEW p \in Processes, ABITraps(p) PROVE pc[cur] = "abi"
    BY <2>5 DEF ABITraps, Running
  <2>6. ASSUME NEW p \in Processes,
               \/ Create(p) \/ SetUpFails(p) \/ SetUp(p) \/ UserJump(p)
               \/ ABIReturns(p) \/ Yield(p) \/ YieldReturns(p)
               \/ SetDefaultCtx(p) \/ EndTask(p)
        PROVE  halted' = halted
    BY <2>6 DEF Create, SetUpFails, SetUp, UserJump, ABIReturns, Yield,
        YieldReturns, SetDefaultCtx, EndTask
  <2>7. ASSUME NEW p \in Processes \cup {None}, Switch(p) PROVE halted' = halted
    BY <2>7 DEF Switch
  <2> QED BY <2>2, <2>3, <2>4, <2>5, <2>6, <2>7 DEF Next, ProcessStep, vars
<1> QED BY <1>1, Invariance, PTL DEF Spec, UserCannotPanic
=============================================================================
