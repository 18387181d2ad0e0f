------------------------------ MODULE MCSched ------------------------------
(***************************************************************************)
(* Programs for the scheduler.  Main is pinned to hart 0; a2 is placed by  *)
(* spawnOn on any hart; a1 is free to be stolen.                           *)
(***************************************************************************)
EXTENDS Sched
CONSTANTS main, a1, a2

Program3(m, p, q) == [a \in Actors |-> CASE a = main -> m [] a = a1 -> p [] a = a2 -> q]

\* wakes in flight while the receiver is preempted and stolen; kills of an
\* actor in every state; watchers of a dying actor
MCProgs ==
  {Program3({"spawn", "receive"}, {"receive", "yield"}, {"send", "return"}),
   Program3({"spawn", "kill", "send"}, {"receive", "yield"}, {"yield"}),
   Program3({"spawn", "receiveFromRes"}, {"yield", "return"},
            {"kill", "receiveFromRes"})}

\* three harts: one leaves a context, one steals it, the third kills it
ReapProgs == {Program3({"spawn", "kill"}, {"yield"}, {})}

\* two actors on two harts, each placing new actors on the other's hart
Spawners == {[a \in Actors |-> IF a \in {main, a1} THEN {"spawn", "yield"} ELSE {"yield"}]}
=============================================================================
