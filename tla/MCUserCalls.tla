---------------------------- MODULE MCUserCalls ----------------------------
EXTENDS UserCalls, TLC

CONSTANTS h1, h2, p1, p2

(* A table of three entries in RAM, the first for traps.                   *)
MCBase == 1082130432
MCHandlers == [n \in 0 .. 2 |-> MCBase + 512 + 4 * n]

(* The heap may be above or below the table, or too far away for a jump.   *)
MCCopies == {MCBase + 1048574, MCBase - 65536, MCBase + 1048576}

OneHost == {h1}
TwoHosts == {h1, h2}
MCProcesses == {p1, p2}

(* Two groups: an alias, a function that needs the context, one that is    *)
(* exported by both.                                                       *)
MCExports == << [n \in {"_exit", "printf"} |->
                   IF n = "_exit" THEN "appExited" ELSE "printf"],
                [n \in {"yield", "sched_yield"} |-> "abi_yield"] >>
MCFunctions == {"appExited", "printf", "abi_yield"}

Symmetric == Permutations(MCProcesses)
=============================================================================
