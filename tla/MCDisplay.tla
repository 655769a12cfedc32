----------------------------- MODULE MCDisplay -----------------------------
(* Instances of Display for TLC: areas inside, at and over the edges of    *)
(* the sizes, one that is negative and one whose sum overflows.            *)
EXTENDS Display, TLC

Area(x, y, w, h) == [x |-> x, y |-> y, w |-> w, h |-> h]

MCSizes == {<<1, 2>>, <<2, 2>>, <<3, 2>>}
MCAreas == {Area(1, 0, 1, 2), Area(2, 0, 1, 2), Area(0, 1, 1, 2),
            Area(-1, 0, 2, 1), Area(0, 0, 2, 3), Area(7, 0, 1, 1)}

ProcessSymmetry == Permutations(Processes)
=============================================================================
