------------------------------ MODULE MCRunner ------------------------------
(* Instances of Runner for TLC. The program needs two libraries, which     *)
(* need each other and the program; the tool needs none.                   *)
EXTENDS Runner, TLC

CONSTANTS h1, h2, b1, b2, b3, b4, b5

OneHost == {h1}
TwoHosts == {h1, h2}
MCNames == {"app", "tool", "liba", "libb"}
MCExecutables == {"app", "tool"}
MCLibraries == {"liba", "libb"}
MCBuiltin == {"libc"}
MCNeeded == "app" :> <<"libc", "liba">> @@ "liba" :> <<"libb", "app">>
              @@ "libb" :> <<"liba", "libc">> @@ "tool" :> <<"libc">>

BlockSymmetry == Permutations(Blocks)
=============================================================================
