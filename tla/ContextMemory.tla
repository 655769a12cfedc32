--------------------------- MODULE ContextMemory ---------------------------
(***************************************************************************)
(* What the ABI contexts promise about memory, with addresses abstracted   *)
(* away: a context owns a set of heap blocks, every heap block in use is   *)
(* owned by exactly one context, and a block goes back to the heap when it *)
(* is unmapped or when its context is destroyed, whichever comes first.    *)
(*                                                                         *)
(* AbiContext implements this module with lists of address ranges; Runner  *)
(* drives it as the memory of the processes it starts.                     *)
(***************************************************************************)
EXTENDS Integers, FiniteSets

CONSTANTS
  Pids,     (* The numbers a context can have.                             *)
  Blocks    (* Everything the allocator can return.                        *)

VARIABLES
  heap,     (* Blocks the allocator has handed out and not got back.       *)
  owned     (* For every live context, the blocks it holds.                *)

memVars == <<heap, owned>>

Live == DOMAIN owned

(* No block is in use before the first context exists.                     *)
Init ==
  /\ heap = {}
  /\ owned = [p \in {} |-> {}]

-----------------------------------------------------------------------------
(* A context that does not exist yet is created and holds nothing.         *)
Create(p) ==
  /\ p \in Pids \ Live
  /\ UNCHANGED heap
  /\ owned' = [q \in Live \cup {p} |-> IF q = p THEN {} ELSE owned[q]]

(* A context gets a block nobody holds.                                    *)
MapBlock(p, b) ==
  /\ p \in Live
  /\ b \in Blocks \ heap
  /\ heap' = heap \cup {b}
  /\ owned' = [owned EXCEPT ![p] = @ \cup {b}]

(* A context gives one of its blocks back.                                 *)
UnmapBlock(p, b) ==
  /\ p \in Live
  /\ b \in owned[p]
  /\ heap' = heap \ {b}
  /\ owned' = [owned EXCEPT ![p] = @ \ {b}]

(* A context is destroyed and everything it holds goes back to the heap.   *)
Delete(p) ==
  /\ p \in Live
  /\ heap' = heap \ owned[p]
  /\ owned' = [q \in Live \ {p} |-> owned[q]]

Next ==
  \E p \in Pids :
    \/ Create(p)
    \/ Delete(p)
    \/ \E b \in Blocks : MapBlock(p, b) \/ UnmapBlock(p, b)

Spec == Init /\ [][Next]_memVars

-----------------------------------------------------------------------------
(* The blocks in use are exactly the blocks some context holds, and no two *)
(* contexts hold the same one: nothing leaks and nothing is freed twice.   *)
OwnedOnce ==
  /\ heap = UNION {owned[p] : p \in Live}
  /\ \A p, q \in Live : p # q => owned[p] \cap owned[q] = {}
=============================================================================
