------------------------------ MODULE MCSleep ------------------------------
(* One sleeper and the timer service on two harts. *)
EXTENDS Sleep
MCSpans == {1}
=============================================================================
