---------------------------- MODULE VectorTable ----------------------------
(***************************************************************************)
(* kernel::init: the interrupt vector table is a row of jal instructions,  *)
(* the first for traps. Its target is kept, and it is patched to reach a   *)
(* copy of customTrap in RAM, with interrupts off. The copy of the         *)
(* interrupt handler is not installed.                                     *)
(***************************************************************************)
EXTENDS Integers

CONSTANTS
  Base,      (* interruptPointer: mtvec without its mode.                  *)
  Last,      (* The last entry of the table: 31 in the code.               *)
  Handlers,  (* What the entries of the firmware's table jump to.          *)
  Copies,    (* Where malloc can put the copy of customTrap.               *)
  NoCopy

Entries == 0 .. Last

(* The offsets a jal can hold: even numbers of 21 bits with their sign.    *)
JumpRange == 1024 * 1024
Reachable(offset) == offset \in -JumpRange .. JumpRange - 1 /\ offset % 2 = 0

ASSUME VectorAssumption ==
  /\ Base \in Nat /\ Last \in Nat /\ Copies \subseteq Nat
  /\ Handlers \in [Entries -> Nat]
  /\ \A n \in Entries : Reachable(Handlers[n] - (Base + 4 * n))
  /\ NoCopy \notin Copies

VARIABLES
  vectors,               (* The table, as fields of its instructions.      *)
  defaultTrapHandler,
  interruptVectorTable,
  trap,                  (* History: where the copy of customTrap is.      *)
  booted                 (* "no", "yes" or "dead"                          *)

bootVars == <<vectors, defaultTrapHandler, interruptVectorTable, trap, booted>>

Instructions == [imm20 : 0 .. 1, imm19_12 : 0 .. 255, imm11 : 0 .. 1,
                 imm10_1 : 0 .. 1023]

-----------------------------------------------------------------------------
(* readJAL: the sign is extended from imm20.                               *)
ReadJAL(inst) ==
  2 * inst.imm10_1 + 2048 * inst.imm11 + 4096 * inst.imm19_12
    - JumpRange * inst.imm20

(* writeJAL: bits 1 to 20 of the offset, as two's complement.              *)
WriteJAL(offset) ==
  [imm20    |-> (offset \div JumpRange) % 2,
   imm19_12 |-> (offset \div 4096) % 256,
   imm11    |-> (offset \div 2048) % 2,
   imm10_1  |-> (offset \div 2) % 1024]

Target(table, n) == Base + 4 * n + ReadJAL(table[n])

(* Mutant: the default handler is read from the patched entry.             *)
InitReadsLate(copy) ==
  /\ booted = "no"
  /\ vectors' = [vectors EXCEPT ![0] = WriteJAL(copy - Base)]
  /\ defaultTrapHandler' = Base + ReadJAL(vectors'[0])
  /\ interruptVectorTable' = [n \in Entries |-> Target(vectors', n)]
  /\ trap' = copy
  /\ booted' = "yes"

(* init                                                                    *)
KernelInit(copy) ==
  /\ booted = "no"
  /\ defaultTrapHandler' = Base + ReadJAL(vectors[0])
  /\ vectors' = [vectors EXCEPT ![0] = WriteJAL(copy - Base)]
  /\ interruptVectorTable' = [n \in Entries |-> Target(vectors', n)]
  /\ trap' = copy
  /\ booted' = "yes"

(* A null from malloc is copied to: the firmware stops, before or after    *)
(* the first entry was patched.                                            *)
KernelInitFails(copy) ==
  /\ booted = "no"
  /\ defaultTrapHandler' = Base + ReadJAL(vectors[0])
  /\ \/ UNCHANGED <<vectors, trap>>
     \/ /\ vectors' = [vectors EXCEPT ![0] = WriteJAL(copy - Base)]
        /\ trap' = copy
  /\ booted' = "dead"
  /\ UNCHANGED interruptVectorTable

BootInit ==
  /\ vectors = [n \in Entries |-> WriteJAL(Handlers[n] - (Base + 4 * n))]
  /\ defaultTrapHandler = 0
  /\ interruptVectorTable = [n \in Entries |-> 0]
  /\ trap = NoCopy
  /\ booted = "no"

-----------------------------------------------------------------------------
(* After init, no handler of the firmware is lost: traps that are not the  *)
(* kernel's are forwarded to the one that was there, interrupts go where   *)
(* they went, and interruptVectorTable says where. A copy of customTrap    *)
(* that a jal can reach is what traps go to.                               *)
VectorsKeepHandlers ==
  booted = "yes" =>
    /\ defaultTrapHandler = Handlers[0]
    /\ \A n \in Entries \ {0} :
         Target(vectors, n) = Handlers[n] /\ interruptVectorTable[n] = Handlers[n]
    /\ Reachable(trap - Base) => Target(vectors, 0) = trap
=============================================================================
