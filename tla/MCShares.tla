------------------------------ MODULE MCShares ------------------------------
(* The instance of Shares for TLC: one actor sends in every way, the other *)
(* passes on what it receives, shares what it allocates in its fixed heap, *)
(* and answers by copy.                                                    *)
EXTENDS Shares, TLC
CONSTANTS a1, a2
TwoActors == {a1, a2}
EveryWay == [a \in TwoActors |-> IF a = a1 THEN {"copy", "big", "share", "move"}
                                 ELSE {"share"}]
Copies == [a \in TwoActors |-> IF a = a1 THEN {"copy", "big"} ELSE {}]
Symmetric == Permutations(Slabs) \cup Permutations(Objects)
=============================================================================
