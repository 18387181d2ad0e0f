----------------------------- MODULE MCRegions -----------------------------
(* The instance of Regions for TLC. *)
EXTENDS Regions, TLC
Kinds == {"loop", "arena", "cloop", "call"}
Nestings == {<<k>> : k \in Kinds}
            \cup {<<k, l>> : k \in {"call", "cloop"}, l \in {"call", "cloop"}}
            \cup {<<"loop", "call">>, <<"arena", "cloop">>, <<"call", "loop">>}
Symmetric == Permutations(Slabs) \cup Permutations(Scopes)
=============================================================================
