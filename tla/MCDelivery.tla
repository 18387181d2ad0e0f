----------------------------- MODULE MCDelivery -----------------------------
(* The instance of Delivery for TLC: one sender sends twice, so that a     *)
(* ring fills; the other once.                                             *)
EXTENDS Delivery
CONSTANTS s1, s2
TwoSenders == {s1, s2}
TwiceAndOnce == [s \in TwoSenders |-> IF s = s1 THEN 2 ELSE 1]
OneAndTwo == [s \in TwoSenders |-> IF s = s1 THEN 1 ELSE 2]
=============================================================================
