----------------------------- MODULE MCMailbox -----------------------------
(* Small mailboxes: which actors send how much, which receives are made. *)
EXTENDS Mailbox
CONSTANTS s1, s2, s3

Mixed == [s \in Senders |-> IF s = s2 THEN 2 ELSE 1]
Once  == [s \in Senders |-> 1]

Plain  == [op |-> "receive",        who |-> NoOne]
Res    == [op |-> "receiveRes",     who |-> NoOne]
From   == [op |-> "receiveFrom",    who |-> s2]
OrDead == [op |-> "receiveFromRes", who |-> s1]

\* Plain receives from two dedicated rings and the shared one, whose claims the
\* senders race for while one of them may die; receives that skip to a Result
\* in rings of two; selective receives from one dedicated ring and a shared one
\* that grows, with the owner killed as well.
MCBoxes ==
  {[d |-> 2, cap |-> 2, dyn |-> FALSE, sends |-> Mixed, ops |-> {Plain},
    mortal |-> {s1}],
   [d |-> 1, cap |-> 2, dyn |-> FALSE, sends |-> [Mixed EXCEPT ![s1] = 0], ops |-> {Plain, Res},
    mortal |-> {}],
   [d |-> 1, cap |-> 1, dyn |-> TRUE, sends |-> Once, ops |-> {From, OrDead},
    mortal |-> {s1, Owner}]}
=============================================================================
