------------------------------ MODULE MCVector ------------------------------
(***************************************************************************)
(* Vector for TLC: which programs are run.                                 *)
(***************************************************************************)
EXTENDS Vector

All == {"make", "push", "get", "dup", "map", "split"}
Turns == {"make", "push", "mail", "turns"}
Program(elem, vals, ops, names, len) ==
  [elem |-> elem, vals |-> vals, ops |-> ops, names |-> names, len |-> len]
MCPrograms ==
  {Program(e, 2, All, 2, 2) : e \in {"Int", "Flt"}}
  \cup {Program(e, 1, All, 2, 2) : e \in {"Box", "IntFlt"}}
  \cup {Program(e, 1, All, 2, 1) : e \in {"IntBox", "Tree"}}
  \cup {Program("Int", 1, {"make", "lanes"}, n, 4 - n) : n \in 2 .. 3}
  \cup {Program("Int", 1, Turns, 2, 1), Program("IntBox", 1, Turns, 2, 1),
         Program("IntBox", 1, Turns, 1, 2), Program("Tree", 1, Turns, 1, 1),
         Program("Tree", 1, {"make", "push", "mail", "wrap"}, 1, 1),
         Program("Int", 1, {"make", "get", "lanes"}, 1, 1),
         Program("Int", 1, {"images"}, 1, 1)}
ImagePrograms == {Program("Int", 1, {"images"}, 1, 1)}
MCLaneOps ==
  {[f |-> "axpb", a |-> 2, b |-> 1], [f |-> "sar", a |-> 1], [f |-> "minS", a |-> 0],
   [f |-> "maxS", a |-> 1], [f |-> "ges", a |-> 1], [f |-> "eqS", a |-> 0], [f |-> "absv"]}
MCZipOps == {"add", "sub", "mul", "min", "max", "lt", "eq", "div"}
=============================================================================
