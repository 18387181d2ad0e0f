----------------------------- MODULE MCConfine -----------------------------
(* A launcher that starts, confines and ends small processes. *)
EXTENDS Confine, TLC

CONSTANTS l, a1, a2, a3, r1, b1, b2

Symm == Permutations(Actors \ {l}) \cup Permutations(Blocks)
=============================================================================
