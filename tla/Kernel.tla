------------------------------- MODULE Kernel -------------------------------
(***************************************************************************)
(* User mode (CONFIG_BADGEABI_ENABLE_KERNEL): the trap handler of trap.S,  *)
(* the system calls of kernel.cpp, the ABI call of abicall.S, and their    *)
(* use by runUserCode and taskCode and by yield and the delays.            *)
(*                                                                         *)
(* Every process has a FreeRTOS task and a kernel context, kctx, with two  *)
(* register files: u for the process, m for the kernel frame SYS_EXIT goes *)
(* back to. A trap saves into the context that mscratch points to. What is *)
(* kept of registers is whose they are and where they were taken.          *)
(*                                                                         *)
(* A trap runs with interrupts off and is one step, but for the ABI        *)
(* function it calls and for the handler of other traps.                   *)
(***************************************************************************)
EXTENDS Naturals, FiniteSets

CONSTANTS
  Processes,  (* Process numbers; each process runs once.                  *)
  Default,    (* kernel::defualtCtx                                        *)
  None,       (* No context, no registers, no process.                     *)
  AnySwitch,  (* Whether FreeRTOS switches between processes wherever      *)
              (* interrupts are on, or only in yield, the delays and       *)
              (* outside them. Other tasks interrupt anywhere.             *)
  MaxLive     (* Bound: processes that exist at once.                      *)

ASSUME KernelAssumption ==
  /\ Default \notin Processes /\ None \notin Processes /\ Default # None
  /\ AnySwitch \in BOOLEAN /\ MaxLive \in Nat

VARIABLES
  mscratch,   (* The active context.                                       *)
  super,      (* is_super of every context.                                *)
  u, m,       (* The register files of every context.                      *)
  pc,         (* What the task of a process is doing.                      *)
  local,      (* The context a handler works on, a local of it.            *)
  kept,       (* The context abi_yield has in a local.                     *)
  cur,        (* The process whose task has the processor.                 *)
  halted      (* The kernel has panicked.                                  *)

vars == <<mscratch, super, u, m, pc, local, kept, cur, halted>>

Contexts == Processes \cup {Default}
Frames == Processes \X {"jump", "user", "abi"}

Init ==
  /\ mscratch = None
  /\ super = [c \in Contexts |-> FALSE]
  /\ u = [c \in Contexts |-> None]
  /\ m = [c \in Contexts |-> None]
  /\ pc = [p \in Processes |-> "none"]
  /\ local = [p \in Processes |-> None]
  /\ kept = [p \in Processes |-> None]
  /\ cur = None
  /\ halted = FALSE

-----------------------------------------------------------------------------
(* FreeRTOS: startPreloaded creates the task, the scheduler switches.      *)
(* mscratch is not part of what it switches.                               *)
Live == {p \in Processes : pc[p] \notin {"none", "gone"}}

(* kctx is a local of taskCode: is_super is what the stack held.           *)
Create(p) ==
  /\ pc[p] = "none"
  /\ Cardinality(Live) < MaxLive
  /\ pc' = [pc EXCEPT ![p] = "start"]
  /\ \E s \in BOOLEAN : super' = [super EXCEPT ![p] = s]
  /\ UNCHANGED <<mscratch, u, m, local, kept, cur, halted>>

(* A task is inside its process between setCtx and setDefaultCtx, but not  *)
(* while it has left the processor to others in yield or a delay.          *)
Inside == {"jump", "user", "abi", "fault", "back"}

Others(p) == {q \in Processes \ {p} : pc[q] \in Inside}

(* The processor goes to the task of p, or, p = None, to a host or another *)
(* task of the firmware.                                                   *)
Switch(p) ==
  /\ p # cur
  /\ p \in Live \cup {None}
  /\ p # None /\ ~AnySwitch => Others(p) = {}
  /\ cur' = p
  /\ UNCHANGED <<mscratch, super, u, m, pc, local, kept, halted>>

Running(p, at) == cur = p /\ pc[p] = at

Goto(p, at) == pc' = [pc EXCEPT ![p] = at]

-----------------------------------------------------------------------------
(* Entering and leaving a trap.                                            *)
(* Mutant: is_super is not looked at.                                      *)
SavedAsKernel(p, at) == [u |-> u, m |-> [m EXCEPT ![mscratch] = <<p, at>>]]

(* customTrap0: a trap saves the registers of the process p, which is at   *)
(* its point `at`, in the half of the context that is_super selects.       *)
Saved(p, at) ==
  IF super[mscratch]
  THEN [u |-> u, m |-> [m EXCEPT ![mscratch] = <<p, at>>]]
  ELSE [u |-> [u EXCEPT ![mscratch] = <<p, at>>], m |-> m]

(* Mutant: is_super is not cleared.                                        *)
RestoreUserKeepsMode(p, regs) ==
  /\ Goto(p, IF regs.u[mscratch] = <<p, "user">> THEN "user" ELSE "lost")
  /\ u' = regs.u /\ m' = regs.m
  /\ UNCHANGED super

(* .urestore, .mrestore: the task goes on with the registers it finds in   *)
(* the active context. With any but its own it is lost: what it does then  *)
(* is not modelled.                                                        *)
RestoreUser(p, regs) ==
  /\ super' = [super EXCEPT ![mscratch] = FALSE]
  /\ Goto(p, IF regs.u[mscratch] = <<p, "user">> THEN "user" ELSE "lost")
  /\ u' = regs.u /\ m' = regs.m

RestoreKernel(p, regs) ==
  /\ super' = [super EXCEPT ![mscratch] = TRUE]
  /\ Goto(p, IF regs.m[mscratch] = <<p, "jump">> THEN "back" ELSE "lost")
  /\ u' = regs.u /\ m' = regs.m

(* A handler that lets other tasks run keeps the context in a local.       *)
Handle(p, at, regs) ==
  /\ local' = [local EXCEPT ![p] = mscratch]
  /\ Goto(p, at)
  /\ u' = regs.u /\ m' = regs.m
  /\ UNCHANGED halted

(* panic: prints and stops with interrupts off.                            *)
Panic(regs) ==
  /\ halted' = TRUE
  /\ u' = regs.u /\ m' = regs.m
  /\ UNCHANGED <<super, pc>>

(* Mutant: is_super is not set.                                            *)
SetCtxKeepsMode(c) ==
  /\ mscratch' = c
  /\ UNCHANGED super

(* setCtx                                                                  *)
SetCtx(c) ==
  /\ mscratch' = c
  /\ super' = [super EXCEPT ![c] = TRUE]

-----------------------------------------------------------------------------
(* runUserCode: without a stack it returns; otherwise it makes kctx active *)
(* and is about to ask for user mode.                                      *)
SetUpFails(p) ==
  /\ Running(p, "start")
  /\ Goto(p, "back")
  /\ UNCHANGED <<mscratch, super, u, m, local, kept, cur, halted>>

SetUp(p) ==
  /\ Running(p, "start")
  /\ u' = [u EXCEPT ![p] = <<p, "user">>]
  /\ SetCtx(p)
  /\ Goto(p, "jump")
  /\ UNCHANGED <<m, local, kept, cur, halted>>

(* SYS_USERJUMP. From a context that is not supervising it is refused, and *)
(* m_pc has been moved: the frame in m is no longer the one saved there.   *)
UserJump(p) ==
  LET regs == Saved(p, "jump")
  IN  /\ Running(p, "jump")
      /\ IF super[mscratch]
         THEN RestoreUser(p, regs)
         ELSE RestoreKernel(p, [regs EXCEPT !.m[mscratch] = None])
      /\ UNCHANGED <<mscratch, local, kept, cur, halted>>

(* SYS_ABICALL of a function in the table, which runs with interrupts on.  *)
ABICall(p) ==
  LET regs == Saved(p, "user")
  IN  /\ Running(p, "user")
      /\ IF super[mscratch]
         THEN Panic(regs) /\ UNCHANGED local
         ELSE Handle(p, "abi", regs) /\ super' = [super EXCEPT ![mscratch] = TRUE]
      /\ UNCHANGED <<mscratch, kept, cur>>

(* It returns: the context of the local leaves supervisor mode, the trap   *)
(* handler reads mscratch again.                                           *)
ABIReturns(p) ==
  /\ Running(p, "abi")
  /\ super' = [super EXCEPT ![local[p]] = FALSE, ![mscratch] = FALSE]
  /\ Goto(p, IF u[mscratch] = <<p, "user">> THEN "user" ELSE "lost")
  /\ UNCHANGED <<mscratch, u, m, local, kept, cur, halted>>

(* It traps, as abort does.                                                *)
ABITraps(p) ==
  LET regs == Saved(p, "abi")
  IN  /\ Running(p, "abi")
      /\ IF super[mscratch]
         THEN Panic(regs) /\ UNCHANGED local
         ELSE Handle(p, "fault", regs) /\ UNCHANGED super
      /\ UNCHANGED <<mscratch, kept, cur>>

(* abi_yield, abi_delay_ms: the active context is kept over the switch and *)
(* made active again after it.                                             *)
Yield(p) ==
  /\ Running(p, "abi")
  /\ kept' = [kept EXCEPT ![p] = mscratch]
  /\ Goto(p, "yield")
  /\ UNCHANGED <<mscratch, super, u, m, local, cur, halted>>

(* Mutant: the active context is left as it is.                            *)
YieldReturnsForgets(p) ==
  /\ Running(p, "yield")
  /\ Goto(p, "abi")
  /\ UNCHANGED <<mscratch, super, u, m, local, kept, cur, halted>>

(* Mutant: the default context is made active.                             *)
YieldReturnsDefault(p) ==
  /\ Running(p, "yield")
  /\ SetCtx(Default)
  /\ Goto(p, "abi")
  /\ UNCHANGED <<u, m, local, kept, cur, halted>>

YieldReturns(p) ==
  /\ Running(p, "yield")
  /\ SetCtx(kept[p])
  /\ Goto(p, "abi")
  /\ UNCHANGED <<u, m, local, kept, cur, halted>>

(* SYS_EXIT, a call only the kernel may make, an unknown call, an ABI call *)
(* outside the table: the process is left for the frame in m. From a       *)
(* context that is supervising, the kernel's calls send it to the user     *)
(* registers there, past the instruction they were taken at.               *)
UserEnds(p) ==
  LET regs == Saved(p, "user")
  IN  /\ Running(p, "user")
      /\ IF super[mscratch]
         THEN \/ Panic(regs)
              \/ /\ RestoreUser(p, [regs EXCEPT !.u[mscratch] = None])
                 /\ UNCHANGED halted
         ELSE RestoreKernel(p, regs) /\ UNCHANGED halted
      /\ UNCHANGED <<mscratch, local, kept, cur>>

(* Any other trap of the process goes to trapHandler, interrupts on, ...   *)
UserFaults(p) ==
  LET regs == Saved(p, "user")
  IN  /\ Running(p, "user")
      /\ IF super[mscratch]
         THEN Panic(regs) /\ UNCHANGED local
         ELSE Handle(p, "fault", regs) /\ UNCHANGED super
      /\ UNCHANGED <<mscratch, kept, cur>>

(* ... which looks at is_super again, and the process is left as above.    *)
FaultEnds(p) ==
  LET regs == [u |-> u, m |-> m]
  IN  /\ Running(p, "fault")
      /\ IF super[local[p]]
         THEN Panic(regs)
         ELSE RestoreKernel(p, regs) /\ UNCHANGED halted
      /\ UNCHANGED <<mscratch, local, kept, cur>>

(* Mutant: the context of the process stays active.                        *)
SetDefaultCtxForgotten(p) ==
  /\ Running(p, "back")
  /\ Goto(p, "free")
  /\ UNCHANGED <<mscratch, super, u, m, local, kept, cur, halted>>

(* taskCode: the default context, then the task and kctx go.               *)
SetDefaultCtx(p) ==
  /\ Running(p, "back")
  /\ SetCtx(Default)
  /\ Goto(p, "free")
  /\ UNCHANGED <<u, m, local, kept, cur, halted>>

EndTask(p) ==
  /\ Running(p, "free")
  /\ Goto(p, "gone")
  /\ cur' = None
  /\ UNCHANGED <<mscratch, super, u, m, local, kept, halted>>

-----------------------------------------------------------------------------
ProcessStep(p) ==
  \/ SetUpFails(p) \/ SetUp(p) \/ UserJump(p)
  \/ ABICall(p) \/ ABIReturns(p) \/ ABITraps(p) \/ Yield(p) \/ YieldReturns(p)
  \/ UserEnds(p) \/ UserFaults(p) \/ FaultEnds(p)
  \/ SetDefaultCtx(p) \/ EndTask(p)

Lost == \E p \in Processes : pc[p] = "lost"

(* All processes have run, or nothing more is modelled.                    *)
Stopped == halted \/ Lost \/ (cur = None /\ \A p \in Processes : pc[p] = "gone")

Next ==
  \/ /\ ~halted /\ ~Lost
     /\ \/ \E p \in Processes : Create(p) \/ ProcessStep(p)
        \/ \E p \in Processes \cup {None} : Switch(p)
  \/ Stopped /\ UNCHANGED vars

Spec == Init /\ [][Next]_vars

-----------------------------------------------------------------------------
PCs == {"none", "start", "jump", "user", "abi", "yield", "fault", "back",
        "free", "gone", "lost"}

(* Type invariant; system calls and yield never work on the default        *)
(* context.                                                                *)
TypeOK ==
  /\ mscratch \in Contexts \cup {None}
  /\ super \in [Contexts -> BOOLEAN]
  /\ u \in [Contexts -> Frames \cup {None}]
  /\ m \in [Contexts -> Frames \cup {None}]
  /\ pc \in [Processes -> PCs]
  /\ local \in [Processes -> Processes \cup {None}]
  /\ kept \in [Processes -> Processes \cup {None}]
  /\ cur \in Processes \cup {None}
  /\ halted \in BOOLEAN

(* Between setCtx and setDefaultCtx, the task that has the processor finds *)
(* its own context in mscratch, and is_super says whether a trap comes     *)
(* from the process or from the kernel on its behalf.                      *)
TrapsFindOwnContext ==
  cur \in Processes /\ pc[cur] \in {"jump", "user", "abi", "fault"} =>
    /\ mscratch = cur
    /\ super[cur] <=> pc[cur] \in {"jump", "abi"}

(* No task ever goes on with registers that are not its own.               *)
RunsOwnRegisters == ~Lost

(* While a process is in user mode, in an ABI call or switched away in     *)
(* one, its context has the frame that SYS_EXIT and a fault go back to,    *)
(* and during an ABI call the registers to return to the process with.     *)
(* Calls and switches of other processes overwrite neither.                *)
ExitFindsMachineFrame ==
  \A p \in Processes :
    pc[p] \in {"user", "abi", "yield", "fault"} /\ ~halted =>
      /\ m[p] = <<p, "jump">>
      /\ pc[p] \in {"abi", "yield"} => u[p] = <<p, "user">>

(* The active context is never one whose task has gone, with kctx on its   *)
(* stack.                                                                  *)
ActiveContextExists ==
  mscratch \in Processes => pc[mscratch] # "gone"

(* A process in user mode cannot bring the kernel down with any call or    *)
(* trap: a panic comes from an ABI function that traps.                    *)
UserCannotPanic == [][halted' # halted => pc[cur] = "abi"]_vars
=============================================================================
