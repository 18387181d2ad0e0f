----------------------------- MODULE MCBuiltin -----------------------------
(* The instance of Builtin for TLC: the allocator alone, with requests large *)
(* enough to share a size class; regions nested in one another; references. *)
EXTENDS Builtin
Plain == [arc |-> FALSE, top |-> 11, requests |-> {1, 3, 4}, bulk |-> BOOLEAN, depth |-> 0]
Nested == [arc |-> FALSE, top |-> 8, requests |-> {1}, bulk |-> {FALSE}, depth |-> 2]
Counted == [arc |-> TRUE, top |-> 7, requests |-> {}, bulk |-> {}, depth |-> 0]
All == {Plain, Nested, Counted}
=============================================================================
