------------------------------- MODULE Inbox -------------------------------
(***************************************************************************)
(* What an actor's mailbox promises its receiver.  Messages wait in lanes  *)
(* (a lane of one sender, or the shared one); a published message stays in *)
(* its lane until it is delivered, once.  A receive takes the oldest       *)
(* message of a lane, a selective one the oldest that matches; "dead       *)
(* actor" is answered only when nothing is left of what that sender        *)
(* published before it died.                                               *)
(*                                                                         *)
(* Order is promised within a lane only.  The sender named by a selective  *)
(* receive is promised while it lives.                                     *)
(***************************************************************************)
EXTENDS Naturals, Sequences, SequencesExt

CONSTANTS
  Senders,    \* actors that send to this mailbox
  Lanes,      \* channels of the mailbox
  Msgs,       \* messages: records with the field from
  Results,    \* the messages of Msgs that are Result values
  NoOne,      \* no sender
  NoMsg       \* no message

VARIABLES
  lane,       \* [Lanes -> Seq(Msgs)]: published, not delivered
  got,        \* the delivered messages
  ended,      \* the senders that have died
  late,       \* messages published by senders that had died
  reply       \* the last answer: [op, who, msg]

vars == <<got, ended, late, reply, lane>>

Pending == UNION {Range(lane[l]) : l \in Lanes}

NoReply == [op |-> "none", who |-> NoOne, msg |-> NoMsg]

Init ==
  /\ lane = [l \in Lanes |-> <<>>]
  /\ got = {}
  /\ ended = {}
  /\ late = {}
  /\ reply = NoReply

\* the receiver asks again
Ask ==
  /\ reply' = NoReply
  /\ UNCHANGED <<got, ended, late, lane>>

Publish(l, m) ==
  /\ UNCHANGED <<got, ended, reply>>
  /\ m \notin Pending \cup got
  /\ lane' = [lane EXCEPT ![l] = Append(@, m)]
  /\ late' = IF m.from \in ended THEN late \cup {m} ELSE late

\* m may answer the receive op naming who
Accepts(op, who, m) ==
  /\ op = "receiveRes" => m \in Results
  /\ op \in {"receiveFrom", "receiveFromRes"} => m.from = who \/ who \in ended

\* j may not be overtaken when m is taken by op
Precedes(op, j, m) ==
  CASE op = "receive"    -> TRUE
    [] op = "receiveRes" -> j \in Results
    [] OTHER             -> j.from = m.from

Deliver(m, op, who) ==
  /\ got' = got \cup {m}
  /\ reply' = [op |-> op, who |-> who, msg |-> m]
  /\ UNCHANGED <<ended, late>>
  /\ Accepts(op, who, m)
  /\ \E l \in Lanes : \E k \in 1 .. Len(lane[l]) :
       /\ lane[l][k] = m
       /\ \A j \in 1 .. k - 1 : ~Precedes(op, lane[l][j], m)
       /\ lane' = [lane EXCEPT ![l] = RemoveAt(@, k)]

AnswerDead(s) ==
  /\ s \in ended
  /\ reply' = [op |-> "dead", who |-> s, msg |-> NoMsg]
  /\ \A m \in Pending : m.from = s => m \in late
  /\ UNCHANGED <<got, ended, late, lane>>

End(s) ==
  /\ s \notin ended
  /\ ended' = ended \cup {s}
  /\ UNCHANGED <<got, late, reply, lane>>

Next ==
  \/ Ask
  \/ \E m \in Msgs \ got :
       \/ \E l \in Lanes : Publish(l, m)
       \/ \E op \in {"receive", "receiveRes", "receiveFrom", "receiveFromRes"},
             who \in Senders \cup {NoOne} : Deliver(m, op, who)
  \/ \E s \in Senders : AnswerDead(s) \/ End(s)

Spec == Init /\ [][Next]_vars
=============================================================================
