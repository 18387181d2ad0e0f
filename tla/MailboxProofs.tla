--------------------------- MODULE MailboxProofs ---------------------------
(***************************************************************************)
(* Proofs about the mailbox of module Mailbox, for any number of senders,  *)
(* slots and messages: the rings are sound (RingsSound), and the inductive *)
(* invariant behind it, which fairness, waiting and the refinement start   *)
(* from.                                                                   *)
(*                                                                         *)
(* A sender may be killed anywhere.  All is proved of the states where     *)
(* overrun is still FALSE, that is up to a claim of a slot whose killed    *)
(* sender has yet to leave it (see OneWriter in module Mailbox); overrun   *)
(* never turns back, so each step only has to look at ~overrun'.           *)
(*                                                                         *)
(* IInv has a part per claim the code makes without a lock.  A sender owns *)
(* the slot it writes (Owns), from the scan that found no slot of its own  *)
(* (Scans) and the candidate whose key is free or dead (Cands) to the CAS, *)
(* won only if that key stands; what it loaded in ring_push stays true     *)
(* while no one else may claim the slot it stands in (Holds, Grows,        *)
(* Filled); what the owner found is still there when it takes it (Takes).  *)
(* First come lemmas that say what each action does to a few variables;    *)
(* then, part by part, a sender's step (...Send) and a step of the owner   *)
(* (...Recv) keep the invariant.                                           *)
(*                                                                         *)
(* Its second half is what the owner of a mailbox is promised: receive     *)
(* serves the channels in turn (FairTurns), the owner is never left parked *)
(* beside a message it waits for (NoStrand), and the mailbox implements    *)
(* the inbox (ImplementsInbox): nothing published is lost, repeated, made  *)
(* up or taken out of its lane's order, and "dead actor" is answered after *)
(* the sender's last message.                                              *)
(*                                                                         *)
(* Turns counts, for every channel, how far the scan of receive has come   *)
(* since it last served it: a channel with a message has been passed at    *)
(* most as often as the scan's start is behind it.                         *)
(*                                                                         *)
(* Heard is the Dekker pairing of block_unless and fpr_send_as: from the   *)
(* moment the owner is BLOCKED, a wanted message at a channel its second   *)
(* look has passed (Seen) was published after that, so its sender, which   *)
(* wakes after publishing, has woken the owner or is about to.             *)
(*                                                                         *)
(* For the refinement, a lane is what a ring holds between head and tail.  *)
(* Publish appends to it; a delivery removes one position, whether take_at *)
(* reads the head or moves the entries before the taken one up; no other   *)
(* step, growth included, changes a lane.  Beside IInv and WaitInv this    *)
(* needs that a message is queued once (Numbered, Once), that the one      *)
(* being taken is the oldest that answers (Chosen), and that a search      *)
(* begun after the sender's death leaves nothing of it behind (DeadSeen).  *)
(***************************************************************************)
EXTENDS Mailbox, SequenceTheorems, WellFoundedInduction, TLAPS

USE DEF chans, acb, sending, deaths, recving, history, SGoto, Sent, Top, Found, Missed,
        Answer, Selective

\* where a sender has its channel, and where it is about to fill a slot of it
Resolved == {"push", "write", "publish", "grow", "install"}
Holding  == {"write", "publish"}

\* the types, in groups that a step can disturb on its own
TKeys   == sender \in [Slots -> Senders \cup {NoOne, SHARED}] /\ shlock \in Senders \cup {NoOne}
TTail   == rt \in [Slots -> Nat] /\ rtSeen \in [Slots -> Nat]
THead   == rh \in [Slots -> Nat] /\ rhSeen \in [Slots -> Nat]
TPassed == passed \in [Slots -> Nat]
TOwner  ==
  /\ status \in {"READY", "BLOCKED", "DEAD"} /\ scan \in 0 .. D
  /\ watch \in Senders \cup {NoOne}
TDeaths ==
  /\ dead \subseteq Senders /\ mourn \subseteq dead
  /\ late \subseteq Msgs /\ overrun \in BOOLEAN
TSpc    ==
  spc \in [Senders -> {"idle", "scan", "claim", "push", "write", "publish",
                       "grow", "install", "wake"}]
TSend   == nsent \in [Senders -> Nat] /\ at \in [Senders -> Nat] /\ blk \in [Senders -> Nat]
TChan   == chan \in [Senders -> Slots]
TCand   == cand \in [Senders -> {<<>>} \cup ((1 .. D) \X (Senders \cup {NoOne}))]
TRecv   ==
  rpc \in {"idle", "look", "ask", "find", "avail", "tags", "block", "askAgain",
           "unblock", "parked", "gone", "take", "free"}
TOp     == op \in box.ops \cup {Idle}
TPlace  == n \in 0 .. SHIDX /\ k \in Nat
Types   ==
  /\ box \in Boxes
  /\ TKeys /\ TTail /\ THead /\ TPassed /\ TOwner /\ TDeaths
  /\ TSpc /\ TSend /\ TChan /\ TCand /\ TRecv /\ TOp /\ TPlace

\* what ring c stores, and how far apart its counters may be
Stores(c) ==
  /\ ring[c] = [cap |-> ring[c].cap, slot |-> ring[c].slot]
  /\ ring[c].cap \in Nat \ {0}
  /\ ring[c].slot \in [0 .. ring[c].cap - 1 -> Msgs \cup {NoMsg}]
Ordered(c) ==
  /\ rhSeen[c] <= rh[c] /\ rh[c] <= rt[c] /\ rtSeen[c] <= rt[c]
  /\ rt[c] - rh[c] <= ring[c].cap
Stored  == ring = [c \in Slots |-> ring[c]] /\ \A c \in Slots : Stores(c)
Counted == \A c \in Slots : Ordered(c)

\* the last slot is the shared one; an unbound slot is empty
Keys ==
  /\ sender[SHIDX] = SHARED
  /\ \A c \in 1 .. D : sender[c] = NoOne => rt[c] = rh[c]

\* a sender inside send has a message to send
Due(s) == spc[s] # "idle" => nsent[s] < box.sends[s]

\* the scan of chan_for has met no slot of s so far
Scans(s) ==
  /\ spc[s] = "idle" => chan[s] = 1
  /\ spc[s] = "scan" => chan[s] <= D /\ \A j \in 1 .. D : j < chan[s] => sender[j] # s
  /\ spc[s] = "claim" => cand[s] # <<>> /\ \A j \in 1 .. D : sender[j] # s

\* its candidate was unbound, or its key was dead
Cands(s) == cand[s] # <<>> => cand[s][2] \in dead \cup {NoOne}

\* the channel it has resolved is its own, or the shared one
Owns(s) == spc[s] \in Resolved => chan[s] = SHIDX \/ sender[chan[s]] = s

\* the tail, the room and the block that ring_push saw are still those in force
Holds(s) ==
  spc[s] \in Holding =>
    /\ at[s] = rt[chan[s]]
    /\ rt[chan[s]] - rh[chan[s]] < ring[chan[s]].cap
    /\ blk[s] = ring[chan[s]].cap
    /\ chan[s] = SHIDX => shlock = s

\* a ring about to grow has the size that was seen, or a racer has doubled it
Grows(s) ==
  spc[s] \in {"grow", "install"} =>
    /\ blk[s] > 0
    /\ ring[chan[s]].cap = blk[s] \/ ring[chan[s]].cap >= 2 * blk[s]

\* the slot about to be published holds the message
Filled(s) ==
  spc[s] = "publish" => At(chan[s], at[s]) = [from |-> s, no |-> nsent[s] + 1]

\* position i of channel c lies between its head and its tail
Live(c, i) == rh[c] <= i /\ i < rt[c]
Real(c)    == \A i \in Nat : Live(c, i) => At(c, i) \in Msgs

\* the message the owner is about to take is there, and is the one it has read
Taking == rpc \in {"take", "free"}
Takes  == Taking => n \in Slots /\ rh[n] <= k /\ k < rt[n] /\ ~check
Loaded == rpc = "free" => k = rh[n] /\ held = At(n, k)

\* where the owner stands fits the receive it is in
Froms == {"receiveFrom", "receiveFromRes"}
Looks ==
  /\ rpc # "idle" => op # Idle
  /\ rpc = "look" => op.op \in {"receive", "receiveRes"} /\ n <= D
  /\ rpc \in {"ask", "find", "avail", "tags", "askAgain"} => op.op \in Froms
  /\ rpc = "find" => n \in 1 .. D
  /\ rpc = "avail" => n \in 1 .. D /\ (sender[n] = op.who \/ op.who \in dead)
  /\ rpc \in {"ask", "askAgain"} => op.op = "receiveFromRes"
  /\ sawDead => op.op = "receiveFromRes" /\ op.who \in dead /\ rpc # "ask"

Producers ==
  \A s \in Senders :
    Due(s) /\ Scans(s) /\ Cands(s) /\ Owns(s) /\ Holds(s) /\ Grows(s) /\ Filled(s)
Reals == \A c \in Slots : Real(c)

\* the inductive invariant
IInv ==
  /\ Types /\ Stored /\ Counted /\ Keys /\ OneSlot /\ Producers /\ Reals
  /\ Takes /\ Loaded /\ Looks
  /\ got \subseteq Msgs

-----------------------------------------------------------------------------
\* a factor of at least one does not shrink a product
LEMMA MulGrows == ASSUME NEW c \in Nat, NEW x \in Int, x >= 1 PROVE c * x >= c
<1>1. c * x = c * (x - 1) + c
  OBVIOUS
<1>2. c * (x - 1) >= 0
  OBVIOUS
<1> QED BY <1>1, <1>2

\* positions less than c apart fall in different slots of a ring of c
LEMMA ModApart ==
  ASSUME NEW a \in Nat, NEW b \in Nat, NEW c \in Nat \ {0}, a < b, b - a < c
  PROVE a % c # b % c
  <1> SUFFICES ASSUME a % c = b % c PROVE FALSE OBVIOUS
  <1> DEFINE p == a \div c  q == b \div c
  <1>1. p \in Int /\ q \in Int OBVIOUS
  <1>2. a = c * p + (a % c) /\ b = c * q + (b % c) OBVIOUS
  <1>3. b - a = c * q - c * p BY <1>2
  <1> HIDE DEF p, q
  <1>4. c * q - c * p = c * (q - p) BY <1>1
  <1>5. CASE q - p >= 1 BY <1>5, <1>1, <1>3, <1>4, MulGrows
  <1>6. CASE q - p <= 0
    <2>1. c * (p - q) >= 0 BY <1>6, <1>1
    <2>2. c * (q - p) = -(c * (p - q)) BY <1>1
    <2> QED BY <2>1, <2>2, <1>3, <1>4, <1>1
  <1> QED BY <1>5, <1>6, <1>1

\* the same, whichever comes first
LEMMA ModDistinct ==
  ASSUME NEW a \in Nat, NEW b \in Nat, NEW c \in Nat \ {0}, a # b, a - b < c, b - a < c
  PROVE a % c # b % c
<1>1. CASE a < b
  BY <1>1, ModApart
<1>2. CASE b < a
  BY <1>2, ModApart
<1> QED BY <1>1, <1>2

\* the sizes of a mailbox, from the assumption on the constants
LEMMA Const ==
  ASSUME box \in Boxes
  PROVE /\ D \in Nat /\ D >= 1 /\ SHIDX = D + 1 /\ SHIDX \in Nat /\ Slots = 1 .. SHIDX
             /\ SHIDX \in Slots
        /\ 1 .. D \subseteq Slots /\ D < MaxSlots
        /\ box.cap \in Nat \ {0} /\ box.sends \in [Senders -> 0 .. MaxSends]
        /\ MaxSends \in Nat
        /\ NoOne \notin Senders
<1>1. box.d \in 1 .. MaxSlots - 1 /\ MaxSlots \in Nat
  BY MailboxAssumption
<1>2. D \in Nat /\ D >= 1 /\ SHIDX = D + 1 /\ D < MaxSlots
  BY <1>1 DEF D, SHIDX
<1>3. SHIDX \in Nat /\ Slots = 1 .. SHIDX /\ SHIDX \in Slots /\ 1 .. D \subseteq Slots
  BY <1>2 DEF Slots
<1>4. box.cap \in Nat \ {0} /\ box.sends \in [Senders -> 0 .. MaxSends] /\ MaxSends \in Nat
        /\ NoOne \notin Senders
  BY MailboxAssumption
<1> QED BY <1>2, <1>3, <1>4

\* the receives a mailbox may make
OpRec == [op : {"receive", "receiveRes"}, who : {NoOne}]
           \cup [op : {"receiveFrom", "receiveFromRes"}, who : Senders]

\* what a receive in progress may be
LEMMA Ops ==
  ASSUME box \in Boxes, op \in box.ops \cup {Idle}
  PROVE /\ op.op \in {"none", "receive", "receiveRes", "receiveFrom", "receiveFromRes"}
        /\ op.who \in Senders \cup {NoOne}
        /\ op # Idle <=> op.op # "none"
        /\ op.op \in Froms => op.who \in Senders
        /\ \A o \in box.ops : o.op # "none" /\ o.who \in Senders \cup {NoOne}
             /\ o.op \in {"receive", "receiveRes", "receiveFrom", "receiveFromRes"}
<1>1. box.ops \subseteq OpRec
  BY MailboxAssumption DEF OpRec
<1>2. \A o \in OpRec : o.op # "none" /\ o.who \in Senders \cup {NoOne}
        /\ o.op \in {"receive", "receiveRes", "receiveFrom", "receiveFromRes"}
  BY DEF OpRec
<1>3. \A o \in OpRec : o.op \in Froms => o.who \in Senders
  BY DEF OpRec, Froms
<1> QED BY <1>1, <1>2, <1>3 DEF Idle, Froms

\* a remainder is a slot number
LEMMA ModRange == ASSUME NEW a \in Nat, NEW c \in Nat \ {0} PROVE a % c \in 0 .. c - 1
  OBVIOUS

\* a candidate is a dedicated slot and a key
LEMMA Pair ==
  ASSUME TCand, NEW s \in Senders, cand[s] # <<>>
  PROVE  cand[s][1] \in 1 .. D /\ cand[s][2] \in Senders \cup {NoOne}
BY DEF TCand

\* CHOOSE picks the least member of a set of positions
LEMMA FirstOf ==
  ASSUME NEW R, R \subseteq Nat, R # {}
  PROVE  LET F == CHOOSE i \in R : \A j \in R : i <= j
         IN  F \in R /\ \A j \in R : F <= j
<1>1. PICK i \in R : \A j \in R : ~(<<j, i>> \in OpToRel(<, Nat))
  BY NatLessThanWellFounded, WFMin
<1>2. ASSUME NEW j \in R PROVE i <= j
  <2>1. i \in Nat /\ j \in Nat
    OBVIOUS
  <2>2. SUFFICES ASSUME j < i PROVE FALSE
    BY <2>1
  <2>3. <<j, i>> \in OpToRel(<, Nat)
    BY <2>1, <2>2 DEF OpToRel
  <2> QED BY <2>3, <1>1
<1>3. \E i1 \in R : \A j \in R : i1 <= j
  BY <1>2
<1> QED BY <1>3

\* one mailbox is looked at: its sizes do not change
LEMMA Same == ASSUME box' = box PROVE D' = D /\ SHIDX' = SHIDX /\ Slots' = Slots
  BY DEF D, SHIDX, Slots

\* what the steps that move a head or a tail do to the channels
LEMMA TakeEffect ==
  ASSUME Free \/ TakeInner
  PROVE  /\ rh' = [rh EXCEPT ![n] = @ + 1] /\ Taking
         /\ UNCHANGED <<sender, rt, rtSeen, rhSeen, sending, deaths>>
BY DEF Free, TakeInner, Taking

\* Publish moves one tail
LEMMA PublishEffect ==
  ASSUME NEW s \in Senders, Publish(s)
  PROVE  /\ rt' = [rt EXCEPT ![chan[s]] = at[s] + 1]
         /\ spc[s] = "publish" /\ spc' = [spc EXCEPT ![s] = "wake"]
         /\ UNCHANGED <<sender, rh, rtSeen, rhSeen, ring, nsent, chan, cand, at, blk>>
         /\ late' = (IF s \in dead THEN late \cup {[from |-> s, no |-> nsent[s] + 1]} ELSE late)
         /\ UNCHANGED <<dead, mourn, overrun, recving, history, acb>>
BY DEF Publish

\* Claim writes its key over the candidate's, or scans again
LEMMA ClaimEffect ==
  ASSUME NEW s \in Senders, Claim(s)
  PROVE  /\ spc[s] = "claim" /\ cand' = [cand EXCEPT ![s] = <<>>]
         /\ \/ /\ sender[cand[s][1]] = cand[s][2]
               /\ sender' = [sender EXCEPT ![cand[s][1]] = s]
               /\ overrun' = (overrun \/ StillUses(cand[s][2], cand[s][1]))
               /\ chan' = [chan EXCEPT ![s] = cand[s][1]]
               /\ spc' = [spc EXCEPT ![s] = "push"]
            \/ /\ sender' = sender /\ overrun' = overrun
               /\ chan' = [chan EXCEPT ![s] = 1]
               /\ spc' = [spc EXCEPT ![s] = "scan"]
         /\ UNCHANGED <<rt, rh, rtSeen, rhSeen, ring, nsent, at, blk>>
         /\ UNCHANGED <<dead, mourn, late, recving, history, acb>>
BY DEF Claim

\* a step of the scan finds the sender's slot, or goes on with a candidate
LEMMA ScanEffect ==
  ASSUME NEW s \in Senders, ScanSlot(s), NEW i, i = chan[s], DOMAIN cand = Senders
  PROVE  /\ spc[s] = "scan"
         /\ \/ /\ sender[i] = s /\ cand' = [cand EXCEPT ![s] = <<>>] /\ chan' = chan
               /\ spc' = [spc EXCEPT ![s] = "push"]
            \/ /\ sender[i] # s
               /\ \E best : /\ cand' = [cand EXCEPT ![s] = best]
                            /\ best = cand[s] \/ (Reclaimable(i) /\ best = <<i, sender[i]>>)
                            /\ \/ /\ i < D /\ chan' = [chan EXCEPT ![s] = i + 1]
                                  /\ spc' = [spc EXCEPT ![s] = "scan"]
                               \/ /\ ~(i < D) /\ chan' = [chan EXCEPT ![s] = SHIDX]
                                  /\ spc' = [spc EXCEPT ![s] = "push"]
                               \/ /\ ~(i < D) /\ chan' = [chan EXCEPT ![s] = i]
                                  /\ spc' = [spc EXCEPT ![s] = "claim"]
                                  /\ best # <<>>
         /\ UNCHANGED <<chans, shlock, acb, nsent, at, blk, deaths, recving, history>>
<1> DEFINE best == IF cand[s] = <<>> /\ Reclaimable(i) THEN <<i, sender[i]>> ELSE cand[s]
<1>1. CASE sender[i] = s
  BY <1>1 DEF ScanSlot
<1>2. CASE sender[i] # s
  <2>1. /\ spc[s] = "scan"
        /\ cand' = [cand EXCEPT ![s] = best]
        /\ chan' = [chan EXCEPT ![s] = IF i < D THEN i + 1
                                           ELSE IF best = <<>> THEN SHIDX ELSE i]
        /\ spc' = [spc EXCEPT ![s] = IF i < D THEN "scan"
                        ELSE IF best = <<>> THEN "push" ELSE "claim"]
        /\ UNCHANGED <<chans, shlock, acb, nsent, at, blk, deaths, recving, history>>
    BY <1>2 DEF ScanSlot
  <2>2. best = cand[s] \/ (Reclaimable(i) /\ best = <<i, sender[i]>>)
    OBVIOUS
  <2> HIDE DEF best
  <2>3. CASE i < D
    BY <1>2, <2>1, <2>2, <2>3
  <2>4. CASE ~(i < D) /\ best = <<>>
    BY <1>2, <2>1, <2>2, <2>4
  <2>5. CASE ~(i < D) /\ best # <<>>
    BY <1>2, <2>1, <2>2, <2>5
  <2> QED BY <2>3, <2>4, <2>5
<1> QED BY <1>1, <1>2

\* a step of sender s, or of its death
Act(s) == SendStep(s) \/ Die(s) \/ WakeWatchers(s)

\* a sender's step leaves the locals of the others alone
LEMMA Others ==
  ASSUME NEW s \in Senders, NEW t \in Senders \ {s}, TSpc, TSend, TChan, TCand, Act(s)
  PROVE  /\ spc'[t] = spc[t] /\ nsent'[t] = nsent[t] /\ chan'[t] = chan[t]
         /\ cand'[t] = cand[t] /\ at'[t] = at[t] /\ blk'[t] = blk[t]
<1>1. /\ DOMAIN spc = Senders /\ DOMAIN nsent = Senders /\ DOMAIN chan = Senders
      /\ DOMAIN cand = Senders /\ DOMAIN at = Senders /\ DOMAIN blk = Senders
  BY DEF TSpc, TSend, TChan, TCand
<1>2. CASE SendStart(s) \/ ScanSlot(s) \/ Claim(s) \/ Push(s)
  BY <1>1, <1>2 DEF SendStart, ScanSlot, Claim, Push
<1>3. CASE Write(s) \/ Publish(s) \/ Grow(s) \/ Install(s) \/ Wake(s) \/ Die(s)
             \/ WakeWatchers(s)
  BY <1>1, <1>3 DEF Write, Publish, Grow, Install, Wake, Die, WakeWatchers
<1> QED BY <1>2, <1>3 DEF Act, SendStep

\* what a scan knows survives a step of anyone's scan ...
LEMMA Scans1 ==
  ASSUME NEW s \in Senders, NEW t \in Senders, box' = box, box \in Boxes, ScanSlot(s),
         DOMAIN cand = Senders, TSpc, TChan, TKeys, Scans(s), Scans(t)
  PROVE  Scans(t)'
<1> DEFINE i == chan[s]
<1>1. i \in Slots
  BY DEF TChan
<1> HIDE DEF i
<1>2. /\ spc[s] = "scan" /\ sender' = sender /\ D' = D
      /\ \/ /\ sender[i] = s /\ spc' = [spc EXCEPT ![s] = "push"] /\ chan' = chan
            /\ cand' = [cand EXCEPT ![s] = <<>>]
         \/ /\ sender[i] # s
            /\ \E best : /\ cand' = [cand EXCEPT ![s] = best]
                         /\ \/ /\ i < D /\ chan' = [chan EXCEPT ![s] = i + 1]
                               /\ spc' = [spc EXCEPT ![s] = "scan"]
                            \/ chan' = [chan EXCEPT ![s] = SHIDX]
                                 /\ spc' = [spc EXCEPT ![s] = "push"]
                            \/ /\ ~(i < D) /\ chan' = [chan EXCEPT ![s] = i]
                               /\ spc' = [spc EXCEPT ![s] = "claim"] /\ best # <<>>
  BY ScanEffect, Same DEF i
<1>3. CASE t # s
  BY <1>2, <1>3, Same DEF TSpc, TChan, Scans
<1>4. CASE t = s
  <2>1. CASE sender[i] = s
    BY <1>2, <1>4, <2>1 DEF TSpc, Scans
  <2>2. CASE sender[i] # s
    <3>1. PICK best : cand' = [cand EXCEPT ![s] = best]
                      /\ \/ i < D /\ chan' = [chan EXCEPT ![s] = i + 1]
                              /\ spc' = [spc EXCEPT ![s] = "scan"]
                         \/ spc' = [spc EXCEPT ![s] = "push"]
                         \/ ~(i < D) /\ spc' = [spc EXCEPT ![s] = "claim"] /\ best # <<>>
      BY <1>2, <2>2
    <3>2. i \in Nat /\ D \in Nat /\ D >= 1 /\ \A j \in 1 .. D : j < i => sender[j] # s
      BY <1>1, <1>2, Const DEF Scans, i
    <3>3. CASE spc' = [spc EXCEPT ![s] = "scan"] /\ i < D /\ chan' = [chan EXCEPT ![s] = i + 1]
      BY <1>2, <1>4, <2>2, <3>2, <3>3 DEF TSpc, TChan, Scans
    <3>4. CASE spc' = [spc EXCEPT ![s] = "push"]
      BY <1>4, <3>4 DEF TSpc, Scans
    <3>5. CASE spc' = [spc EXCEPT ![s] = "claim"] /\ ~(i < D) /\ best # <<>>
      <4>1. spc'[s] = "claim" /\ cand'[s] = best
        BY <3>1, <3>5 DEF TSpc
      <4>2. \A j \in 1 .. D : sender'[j] # s
        BY <1>2, <2>2, <3>2, <3>5
      <4> QED BY <1>2, <1>4, <3>5, <4>1, <4>2 DEF Scans
    <3> QED BY <3>1, <3>3, <3>4, <3>5
  <2> QED BY <2>1, <2>2
<1> QED BY <1>3, <1>4

\* ... and anyone's claim
LEMMA Scans2 ==
  ASSUME NEW s \in Senders, NEW t \in Senders, box' = box, box \in Boxes, Claim(s),
         TCand, TSpc, TSend, TChan, TKeys, Scans(s), Scans(t)
  PROVE  Scans(t)'
<1>1. cand[s] # <<>> /\ cand[s][1] \in 1 .. D /\ cand[s][1] \in Slots
  BY Pair, ClaimEffect, Const DEF Scans
<1>2. cand' = [cand EXCEPT ![s] = <<>>] /\ DOMAIN cand = Senders
  BY ClaimEffect DEF TCand
<1>3. CASE t # s
  <2>1. spc'[t] = spc[t] /\ chan'[t] = chan[t] /\ cand'[t] = cand[t]
    BY <1>3, Others DEF Act, SendStep
  <2>2. \A j \in 1 .. D : sender[j] # t => sender'[j] # t
    BY <1>1, <1>3, ClaimEffect, Const DEF TKeys
  <2> QED BY <2>1, <2>2, Same DEF Scans
<1>4. CASE t = s
  <2>1. spc'[s] = "push" \/ (spc'[s] = "scan" /\ chan'[s] = 1)
    BY ClaimEffect DEF TSpc, TChan
  <2> QED BY <2>1, <1>4, Const, Same DEF Scans
<1> QED BY <1>3, <1>4

\* an unbound slot stays empty after a claim ...
LEMMA Keys1 ==
  ASSUME NEW s \in Senders, box' = box, box \in Boxes, Claim(s),
         TCand, TKeys, Keys, Scans(s)
  PROVE  Keys'
<1>1. cand[s] # <<>> /\ cand[s][1] \in 1 .. D
  BY Pair, ClaimEffect DEF Scans
<1>2. /\ sender' = sender \/ sender' = [sender EXCEPT ![cand[s][1]] = s]
      /\ UNCHANGED <<rt, rh>>
  BY ClaimEffect
<1>3. ASSUME NEW c \in 1 .. D, sender'[c] = NoOne PROVE sender[c] = NoOne
  <2>1. c \in Slots /\ s # NoOne /\ sender \in [Slots -> Senders \cup {NoOne, SHARED}]
    BY Const DEF TKeys
  <2> QED BY <1>2, <1>3, <2>1
<1>4. sender'[SHIDX] = SHARED
  <2>1. cand[s][1] # SHIDX /\ SHIDX \in Slots
    BY <1>1, Const
  <2> QED BY <1>2, <2>1 DEF Keys, TKeys
<1> QED BY <1>2, <1>3, <1>4, Same DEF Keys

\* ... after a message is published ...
LEMMA Keys2 ==
  ASSUME NEW s \in Senders, box' = box, box \in Boxes, Publish(s),
         TTail, THead, TChan, TSend, Keys, Owns(s)
  PROVE  Keys'
<1>1. UNCHANGED <<sender, rh>> /\ rt' = [rt EXCEPT ![chan[s]] = at[s] + 1]
  BY PublishEffect
<1>2. chan[s] = SHIDX \/ sender[chan[s]] = s
  BY PublishEffect DEF Owns, Resolved
<1>3. ASSUME NEW c \in 1 .. D, sender[c] = NoOne PROVE rt'[c] = rh'[c]
  <2>1. c # chan[s]
    BY <1>2, <1>3, Const
  <2> QED BY <2>1, <1>1, <1>3 DEF Keys, TTail
<1> QED BY <1>1, <1>3, Same DEF Keys

\* ... and after one is taken
LEMMA Keys3 ==
  ASSUME box' = box, box \in Boxes, Free \/ TakeInner,
         TTail, THead, TPlace, Keys, Takes
  PROVE  Keys'
<1>1. UNCHANGED <<sender, rt>> /\ rh' = [rh EXCEPT ![n] = @ + 1]
  BY TakeEffect
<1>2. n \in Slots /\ rh[n] < rt[n]
  BY TakeEffect DEF Takes, TPlace, THead, TTail
<1>3. ASSUME NEW c \in 1 .. D, sender[c] = NoOne PROVE rt'[c] = rh'[c]
  <2>1. c # n /\ c \in Slots
    BY <1>2, <1>3, Const DEF Keys, TTail, THead
  <2> QED BY <2>1, <1>1, <1>3 DEF Keys, THead
<1> QED BY <1>1, <1>3, Same DEF Keys

\* the counters of a channel stay in order when a producer looks at its head ...
LEMMA Ordered1 ==
  ASSUME NEW s \in Senders, box' = box, box \in Boxes, Push(s), NEW c \in Slots,
         TTail, THead, TChan, Ordered(c), ring[c].cap \in Nat
  PROVE  Ordered(c)'
<1>1. /\ UNCHANGED <<rt, rh, rtSeen, ring>>
      /\ rhSeen' = rhSeen \/ rhSeen' = [rhSeen EXCEPT ![chan[s]] = HeadView(chan[s])]
  BY DEF Push
<1>2. \A d \in Slots : HeadView(d) \in {rh[d], rhSeen[d]}
  BY DEF HeadView
<1> QED BY <1>1, <1>2 DEF Ordered, TTail, THead, TChan

\* ... when it publishes ...
LEMMA Ordered2 ==
  ASSUME NEW s \in Senders, box' = box, box \in Boxes, Publish(s), NEW c \in Slots,
         TTail, THead, TChan, TSend, Ordered(c), ring[c].cap \in Nat, Holds(s)
  PROVE  Ordered(c)'
BY PublishEffect DEF Ordered, TTail, THead, TChan, TSend, Holds, Holding

\* ... and when the owner gives a slot back
LEMMA Ordered3 ==
  ASSUME box' = box, box \in Boxes, Free \/ TakeInner, NEW c \in Slots,
         TTail, THead, TPlace, Ordered(c), ring[c].cap \in Nat, ring'[c].cap = ring[c].cap,
           Takes
  PROVE  Ordered(c)'
BY TakeEffect DEF Ordered, TTail, THead, TPlace, Takes

-----------------------------------------------------------------------------
\* what a step does to the slots
LEMMA RingStill ==
  ASSUME NEW s \in Senders
  PROVE  /\ SendStep(s) /\ ~Write(s) /\ ~Install(s) => ring' = ring
         /\ Die(s) \/ WakeWatchers(s) => ring' = ring
<1>1. SendStart(s) \/ ScanSlot(s) \/ Claim(s) \/ Push(s) => ring' = ring
  BY DEF SendStart, ScanSlot, Claim, Push
<1>2. Publish(s) \/ Grow(s) \/ Wake(s) \/ Die(s) \/ WakeWatchers(s) => ring' = ring
  BY DEF Publish, Grow, Wake, Die, WakeWatchers
<1> QED BY <1>1, <1>2 DEF SendStep

\* the owner writes a ring only in take_at further in
LEMMA RingStillRecv ==
  ASSUME ReceiveStep \/ KillOwner, ~TakeInner PROVE ring' = ring
<1>1. Receive \/ LookAny \/ LookRes \/ Ask \/ Find \/ Avail \/ Tags => ring' = ring
  BY DEF Receive, LookAny, LookRes, Ask, Find, Avail, Tags
<1>2. Block \/ AskAgain \/ Unblock \/ Resume \/ TakeHead \/ Free \/ KillOwner => ring' = ring
  BY DEF Block, AskAgain, Unblock, Resume, TakeHead, Free, KillOwner
<1> QED BY <1>1, <1>2 DEF ReceiveStep

\* Write fills the slot at the tail and no slot of a queued message
LEMMA RingWrite ==
  ASSUME NEW s \in Senders, Write(s), NEW c \in Slots, c = chan[s], Stored, Counted, Holds(s),
           TTail, THead
  PROVE  /\ \A d \in Slots \ {c} : ring'[d] = ring[d]
         /\ ring'[c].cap = ring[c].cap
         /\ ring'[c].slot = [ring[c].slot EXCEPT ![rt[c] % ring[c].cap] = [from |-> s,
              no |-> nsent[s] + 1]]
         /\ \A d \in Slots, i \in Nat : Live(d, i) => At(d, i)' = At(d, i)
         /\ At(c, rt[c])' = [from |-> s, no |-> nsent[s] + 1]
         /\ DOMAIN ring' = Slots
<1> DEFINE m == [from |-> s, no |-> nsent[s] + 1]
<1>1. at[s] = rt[c] /\ blk[s] = ring[c].cap /\ rt[c] - rh[c] < ring[c].cap
  BY DEF Write, Holds, Holding
<1>2. ring' = [ring EXCEPT ![c].slot[rt[c] % ring[c].cap] = m]
  BY <1>1 DEF Write
<1>3. ring = [d \in Slots |-> ring[d]] /\ ring[c] = [cap |-> ring[c].cap, slot |-> ring[c].slot]
  BY DEF Stored, Stores
<1>4. /\ ring[c].cap \in Nat \ {0}
           /\ ring[c].slot \in [0 .. ring[c].cap - 1 -> Msgs \cup {NoMsg}]
      /\ rt[c] \in Nat /\ rh[c] \in Nat
  BY DEF Stored, Stores, TTail, THead
<1>5. \A d \in Slots \ {c} : ring'[d] = ring[d]
  BY <1>2, <1>3
<1>6. ring'[c].cap = ring[c].cap
        /\ ring'[c].slot = [ring[c].slot EXCEPT ![rt[c] % ring[c].cap] = m]
  BY <1>2, <1>3
<1>7. ASSUME NEW i \in Nat, Live(c, i) PROVE At(c, i)' = At(c, i)
  <2>1. i < rt[c] /\ rt[c] - i < ring[c].cap
    BY <1>1, <1>4, <1>7 DEF Live
  <2>2. i % ring[c].cap # rt[c] % ring[c].cap
    BY <2>1, <1>4, ModApart
  <2> QED BY <1>4, <1>6, <2>2 DEF At
<1>8. At(c, rt[c])' = m
  <2>1. rt'[c] = rt[c]
    BY DEF Write
  <2>2. rt[c] % ring[c].cap \in DOMAIN ring[c].slot
    BY <1>4, ModRange
  <2> QED BY <2>1, <2>2, <1>6 DEF At
<1>9. \A d \in Slots \ {c}, i \in Nat : At(d, i)' = At(d, i)
  BY <1>5 DEF At
<1>10. DOMAIN ring' = Slots
  BY <1>2, <1>3
<1> QED BY <1>5, <1>6, <1>7, <1>8, <1>9, <1>10

\* Install doubles a ring and keeps every queued message in its place
LEMMA RingInstall ==
  ASSUME NEW s \in Senders, Install(s), NEW c \in Slots, c = chan[s], Stored, Counted, Grows(s),
           TTail, THead, TSend
  PROVE  /\ \A d \in Slots \ {c} : ring'[d] = ring[d]
         /\ \/ ring'[c] = ring[c]
            \/ /\ ring'[c].cap = 2 * ring[c].cap /\ blk[s] = ring[c].cap
               /\ Stores(c)'
         /\ \A d \in Slots, i \in Nat : Live(d, i) => At(d, i)' = At(d, i)
         /\ DOMAIN ring' = Slots
<1>1. /\ ring[c].cap \in Nat \ {0}
           /\ ring[c].slot \in [0 .. ring[c].cap - 1 -> Msgs \cup {NoMsg}]
      /\ rt[c] \in Nat /\ rh[c] \in Nat /\ DOMAIN ring = Slots /\ rh[c] <= rt[c]
           /\ rt[c] - rh[c] <= ring[c].cap
      /\ blk[s] \in Nat /\ blk[s] > 0
  BY DEF Stored, Stores, TTail, THead, Counted, Ordered, TSend, Grows, Install
<1>2. CASE ring' = ring
  BY <1>1, <1>2 DEF At
<1> DEFINE C == 2 * blk[s]
           Fill(i) == IF \E j \in rh[c] .. rt[c] - 1 : j % C = i
                         THEN At(c, CHOOSE j \in rh[c] .. rt[c] - 1 : j % C = i)
                         ELSE NoMsg
           S == [i \in 0 .. C - 1 |-> Fill(i)]
<1>3. CASE ring' # ring
  <2>1. ~(ring[c].cap >= 2 * blk[s]) /\ ring' = [ring EXCEPT ![c] = [cap |-> C, slot |-> S]]
    BY <1>3 DEF Install
  <2>2. blk[s] = ring[c].cap
    BY <1>1, <2>1 DEF Grows, Install
  <2> HIDE DEF S
  <2>3. /\ \A d \in Slots \ {c} : ring'[d] = ring[d]
        /\ ring'[c] = [cap |-> C, slot |-> S]
        /\ DOMAIN ring' = Slots
    BY <2>1, <1>1
  <2>4. \A i \in Nat : At(c, i) \in Msgs \cup {NoMsg}
    BY <1>1, ModRange DEF At
  <2> C \in Nat \ {0}
    BY <1>1
  <2> HIDE DEF C
  <2>5. S \in [0 .. C - 1 -> Msgs \cup {NoMsg}]
    <3>1. \A i \in 0 .. C - 1 : Fill(i) \in Msgs \cup {NoMsg}
      <4> SUFFICES ASSUME NEW i \in 0 .. C - 1 PROVE Fill(i) \in Msgs \cup {NoMsg}
        OBVIOUS
      <4>1. CASE \E j \in rh[c] .. rt[c] - 1 : j % C = i
        <5>1. (CHOOSE j \in rh[c] .. rt[c] - 1 : j % C = i) \in rh[c] .. rt[c] - 1
          BY <4>1
        <5>2. rh[c] .. rt[c] - 1 \subseteq Nat
          BY <1>1
        <5> QED BY <4>1, <5>1, <5>2, <2>4
      <4>2. CASE ~\E j \in rh[c] .. rt[c] - 1 : j % C = i
        BY <4>2
      <4> QED BY <4>1, <4>2
    <3> HIDE DEF Fill
    <3> QED BY <3>1 DEF S
  <2>6. ASSUME NEW i \in Nat, Live(c, i) PROVE At(c, i)' = At(c, i)
    <3>1. i \in rh[c] .. rt[c] - 1
      BY <2>6, <1>1 DEF Live
    <3>2. \A j \in rh[c] .. rt[c] - 1 : j % C = i % C => j = i
      <4> SUFFICES ASSUME NEW j \in rh[c] .. rt[c] - 1, j # i PROVE j % C # i % C
        OBVIOUS
      <4>1. ring[c].cap <= C
        BY <1>1, <2>2 DEF C
      <4>2. j \in Nat /\ i - j < ring[c].cap /\ j - i < ring[c].cap
        BY <1>1, <3>1
      <4>3. i - j < C /\ j - i < C
        BY <1>1, <4>1, <4>2
      <4> QED BY <4>2, <4>3, ModDistinct
    <3>3. (CHOOSE j \in rh[c] .. rt[c] - 1 : j % C = i % C) = i
      BY <3>1, <3>2
    <3>4. i % C \in 0 .. C - 1
      BY ModRange
    <3>5. S[i % C] = At(c, i)
      BY <3>1, <3>3, <3>4 DEF S
    <3> QED BY <2>3, <3>5 DEF At
  <2>7. \A d \in Slots \ {c}, i \in Nat : At(d, i)' = At(d, i)
    BY <2>3 DEF At
  <2>8. Stores(c)' /\ ring'[c].cap = 2 * ring[c].cap
    BY <2>2, <2>3, <2>5 DEF Stores, C
  <2> QED BY <2>2, <2>3, <2>6, <2>7, <2>8
<1> QED BY <1>2, <1>3

\* take_at further in moves the entries before the taken one up by one
LEMMA RingInner ==
  ASSUME TakeInner, NEW c \in Slots, c = n, Stored, Counted, Takes, TTail, THead, TPlace
  PROVE  /\ \A d \in Slots \ {c} : ring'[d] = ring[d]
         /\ ring'[c].cap = ring[c].cap
         /\ Stores(c)'
         /\ \A d \in Slots \ {c}, i \in Nat : At(d, i)' = At(d, i)
         /\ \A i \in Nat : rh[c] < i /\ i <= k => At(c, i)' = At(c, i - 1)
         /\ \A i \in Nat : k < i /\ i <= rh[c] + ring[c].cap => At(c, i)' = At(c, i)
         /\ DOMAIN ring' = Slots
<1> DEFINE C == ring[c].cap
           W == rh[c] + 1 .. k
           From(j) == At(c, j - 1)
           S == [i \in DOMAIN ring[c].slot |->
                  IF \E j \in W : j % C = i
                    THEN From(CHOOSE j \in W : j % C = i)
                    ELSE ring[c].slot[i]]
<1>1. /\ C \in Nat \ {0} /\ ring[c].slot \in [0 .. C - 1 -> Msgs \cup {NoMsg}]
      /\ rt[c] \in Nat /\ rh[c] \in Nat /\ DOMAIN ring = Slots
           /\ ring[c] = [cap |-> C, slot |-> ring[c].slot]
      /\ k \in Nat
  BY DEF Stored, Stores, TTail, THead, TPlace
<1>0. k < rt[c] /\ rt[c] - rh[c] <= C
  BY DEF Takes, Taking, TakeInner, Counted, Ordered
<1>2. ring' = [ring EXCEPT ![c].slot = S]
  BY DEF TakeInner
<1> HIDE DEF S
<1>3. /\ \A d \in Slots \ {c} : ring'[d] = ring[d]
      /\ ring'[c] = [cap |-> C, slot |-> S]
      /\ DOMAIN ring' = Slots
  BY <1>1, <1>2
<1>4. \A i \in Nat : At(c, i) \in Msgs \cup {NoMsg} /\ At(c, i) = ring[c].slot[i % C]
        /\ i % C \in 0 .. C - 1
  BY <1>1, ModRange DEF At
<1> HIDE DEF C
<1>5. S \in [0 .. C - 1 -> Msgs \cup {NoMsg}]
  <2>1. ASSUME NEW i \in 0 .. C - 1
        PROVE  (IF \E j \in W : j % C = i THEN From(CHOOSE j \in W : j % C = i)
                   ELSE ring[c].slot[i]) \in Msgs \cup {NoMsg}
    <3>1. CASE \E j \in W : j % C = i
      <4>1. (CHOOSE j \in W : j % C = i) \in W
        BY <3>1
      <4>2. (CHOOSE j \in W : j % C = i) - 1 \in Nat
        BY <4>1, <1>1
      <4> QED BY <3>1, <4>2, <1>4
    <3>2. CASE ~\E j \in W : j % C = i
      BY <3>2, <1>1
    <3> QED BY <3>1, <3>2
  <2> HIDE DEF From, W
  <2> QED BY <2>1, <1>1 DEF S
<1>6. ASSUME NEW i \in Nat, rh[c] < i, i <= rh[c] + C
      PROVE  At(c, i)' = IF i <= k THEN At(c, i - 1) ELSE At(c, i)
  <2>1. \A j \in W : j % C = i % C => j = i
    <3> SUFFICES ASSUME NEW j \in W, j # i PROVE j % C # i % C
      OBVIOUS
    <3>1. j \in Nat /\ j - i < C /\ i - j < C
      BY <1>1, <1>6, <1>0
    <3> QED BY <3>1, <1>1, ModDistinct
  <2>2. At(c, i)' = S[i % C]
    BY <1>3 DEF At
  <2>3. i % C \in DOMAIN ring[c].slot
    BY <1>1, <1>4
  <2>4. CASE i <= k
    <3>1. i \in W
      BY <2>4, <1>6, <1>1
    <3>2. (CHOOSE j \in W : j % C = i % C) = i
      BY <3>1, <2>1
    <3> HIDE DEF W
    <3> QED BY <2>2, <2>3, <2>4, <3>1, <3>2 DEF S
  <2>5. CASE ~(i <= k)
    <3>1. ~\E j \in W : j % C = i % C
      BY <2>1, <2>5, <1>1
    <3> HIDE DEF W
    <3> QED BY <2>2, <2>3, <2>5, <3>1, <1>4 DEF S
  <2> QED BY <2>4, <2>5
<1>7. \A d \in Slots \ {c}, i \in Nat : At(d, i)' = At(d, i)
  BY <1>3 DEF At
<1>8. Stores(c)' /\ ring'[c].cap = ring[c].cap
  BY <1>1, <1>3, <1>5 DEF Stores, C
<1>9. k <= rh[c] + C
  BY <1>1, <1>0
<1>10. \A i \in Nat : rh[c] < i /\ i <= k => At(c, i)' = At(c, i - 1)
  BY <1>1, <1>6, <1>9
<1>11. \A i \in Nat : k < i /\ i <= rh[c] + C => At(c, i)' = At(c, i)
  <2>1. rh[c] <= k
    BY DEF Takes, Taking, TakeInner
  <2> QED BY <2>1, <1>1, <1>6
<1> QED BY <1>3, <1>7, <1>8, <1>10, <1>11 DEF C

-----------------------------------------------------------------------------
\* one producer at a time
LEMMA OneProducer ==
  ASSUME NEW s \in Senders, NEW t \in Senders \ {s}, Owns(s), Owns(t), chan[s] = chan[t],
         spc[s] \in Resolved, spc[t] \in Resolved
  PROVE  chan[s] = SHIDX
BY DEF Owns

\* ring_push up to its decision: fill, grow, or answer an error
LEMMA PushEffect ==
  ASSUME NEW s \in Senders, Push(s), NEW c, c = chan[s]
  PROVE  /\ spc[s] = "push" /\ (c = SHIDX => shlock = NoOne)
         /\ \/ /\ spc' = [spc EXCEPT ![s] = "write"]
               /\ rt[c] - HeadView(c) < ring[c].cap
               /\ at' = [at EXCEPT ![s] = rt[c]] /\ blk' = [blk EXCEPT ![s] = ring[c].cap]
               /\ shlock' = (IF c = SHIDX THEN s ELSE shlock)
               /\ chan' = chan /\ nsent' = nsent
            \/ /\ spc' = [spc EXCEPT ![s] = "grow"]
               /\ blk' = [blk EXCEPT ![s] = ring[c].cap]
               /\ shlock' = shlock /\ chan' = chan /\ nsent' = nsent
            \/ /\ spc' = [spc EXCEPT ![s] = "idle"]
               /\ shlock' = shlock
               /\ nsent' = [nsent EXCEPT ![s] = @ + 1]
         /\ UNCHANGED <<sender, rt, rh, rtSeen, ring, cand>>
         /\ UNCHANGED <<deaths, recving, history, acb>>
BY DEF Push

\* the steps of a sender that touch no tail, no lock and no slot
Quiet(s) == SendStart(s) \/ ScanSlot(s) \/ Claim(s) \/ Grow(s) \/ Wake(s) \/ Die(s)
  \/ WakeWatchers(s)

\* they are quiet
LEMMA QuietEffect ==
  ASSUME NEW s \in Senders, Quiet(s)
  PROVE  UNCHANGED <<rt, rh, rtSeen, rhSeen, ring, shlock>>
<1>1. CASE SendStart(s) \/ ScanSlot(s) \/ Claim(s)
  BY <1>1 DEF SendStart, ScanSlot, Claim
<1>2. CASE Grow(s) \/ Wake(s) \/ Die(s) \/ WakeWatchers(s)
  BY <1>2 DEF Grow, Wake, Die, WakeWatchers
<1> QED BY <1>1, <1>2 DEF Quiet

\* what a producer holds survives a step of another
LEMMA HoldsOther ==
  ASSUME NEW s \in Senders, NEW t \in Senders \ {s}, box' = box, box \in Boxes, Act(s),
         TSpc, TSend, TChan, TCand, TTail, THead, Stored, Counted,
         Owns(s), Owns(t), Holds(s), Holds(t), Grows(s)
  PROVE  Holds(t)'
<1>1. /\ spc'[t] = spc[t] /\ chan'[t] = chan[t] /\ at'[t] = at[t] /\ blk'[t] = blk[t]
  BY Others
<1> SUFFICES ASSUME spc[t] \in Holding PROVE Holds(t)'
  BY <1>1 DEF Holds
<1> DEFINE c == chan[t]
<1>2. c \in Slots /\ chan[s] \in Slots
  BY DEF TChan
<1>3. spc[s] \in Holding => chan[s] # c
  BY OneProducer, Const DEF Holds, Holding, Resolved, TSpc
<1>4. spc[s] \in Resolved => chan[s] # c \/ c = SHIDX
  BY OneProducer DEF Holding, Resolved
<1>5. /\ at[t] = rt[c] /\ rt[c] - rh[c] < ring[c].cap /\ blk[t] = ring[c].cap
      /\ c = SHIDX => shlock = t
  BY DEF Holds
<1> HIDE DEF c
<1>6. rt'[c] = rt[c] /\ rh'[c] = rh[c] /\ ring'[c].cap = ring[c].cap
        /\ (c = SHIDX => shlock' = t)
  <2>1. CASE Quiet(s)
    BY <2>1, <1>5, QuietEffect
  <2>2. CASE Push(s)
    BY <2>2, <1>5, <1>2, PushEffect, Const
  <2>3. CASE Write(s)
    <3>1. ring'[c] = ring[c]
      BY <2>3, <1>2, <1>3, RingWrite DEF Write, Holding
    <3> QED BY <2>3, <3>1, <1>5 DEF Write
  <2>4. CASE Publish(s)
    <3>1. chan[s] # c
      BY <2>4, <1>3 DEF Publish, Holding
    <3>2. spc[s] \in Holding
      BY <2>4 DEF Publish, Holding
    <3>3. c = SHIDX => shlock' = t
      BY <2>4, <3>1, <1>5 DEF Publish
    <3> QED BY <2>4, <3>1, <3>3, <1>2, PublishEffect DEF TTail
  <2>5. CASE Install(s)
    <3>1. chan[s] # c
      BY <2>5, <1>4, <1>5, Const DEF Install, Resolved
    <3>2. ring'[c] = ring[c]
      BY <2>5, <3>1, <1>2, RingInstall
    <3> QED BY <2>5, <3>2, <1>5 DEF Install
  <2> QED BY <2>1, <2>2, <2>3, <2>4, <2>5 DEF Act, SendStep, Quiet
<1> QED BY <1>1, <1>5, <1>6, Same DEF Holds, c

\* a producer holds what it has loaded
LEMMA HoldsOwn ==
  ASSUME NEW s \in Senders, box' = box, box \in Boxes, Act(s),
         TSpc, TSend, TChan, TCand, TTail, THead, Stored, Counted, Holds(s)
  PROVE  Holds(s)'
<1> DEFINE c == chan[s]
<1>1. c \in Slots /\ DOMAIN spc = Senders /\ DOMAIN at = Senders /\ DOMAIN blk = Senders
  BY DEF TChan, TSpc, TSend
<1>2. CASE Push(s)
  <2> SUFFICES ASSUME spc'[s] \in Holding PROVE Holds(s)'
    BY DEF Holds
  <2>1. HeadView(c) <= rh[c] /\ HeadView(c) \in Nat /\ rh[c] \in Nat /\ rt[c] \in Nat
          /\ ring[c].cap \in Nat
    BY <1>1 DEF HeadView, Counted, Ordered, THead, TTail, Stored, Stores
  <2>2. rt[c] - HeadView(c) < ring[c].cap => rt[c] - rh[c] < ring[c].cap
    BY <2>1
  <2>3. /\ rt[c] - HeadView(c) < ring[c].cap /\ at'[s] = rt[c] /\ blk'[s] = ring[c].cap
        /\ shlock' = (IF c = SHIDX THEN s ELSE shlock) /\ chan' = chan
    BY <1>1, <1>2, PushEffect DEF Holding
  <2> QED BY <2>2, <2>3, <1>2, PushEffect, Same DEF Holds
<1>3. CASE Write(s)
  <2>1. ring'[c].cap = ring[c].cap
    BY <1>1, <1>3, RingWrite
  <2>2. spc[s] \in Holding /\ UNCHANGED <<rt, rh, shlock, chan, at, blk>>
    BY <1>3 DEF Write, Holding
  <2> QED BY <2>1, <2>2, Same DEF Holds
<1>4. CASE ~Push(s) /\ ~Write(s)
  <2>1. CASE spc'[s] \notin Holding
    BY <2>1 DEF Holds
  <2>2. CASE spc'[s] \in Holding
    <3>1. Die(s) \/ WakeWatchers(s)
      <4>1. ~(SendStart(s) \/ Claim(s))
        BY <2>2, <1>1 DEF SendStart, Claim, Holding
      <4>2. ~(Publish(s) \/ Grow(s) \/ Install(s) \/ Wake(s))
        BY <2>2, <1>1 DEF Publish, Grow, Install, Wake, Holding
      <4>3. ~ScanSlot(s)
        BY <2>2, <1>1 DEF ScanSlot, Holding
      <4> QED BY <4>1, <4>2, <4>3, <1>4 DEF Act, SendStep
    <3>2. UNCHANGED <<chans, shlock, sending>>
      BY <3>1 DEF Die, WakeWatchers
    <3> QED BY <3>2, Same DEF Holds
  <2> QED BY <2>1, <2>2
<1> QED BY <1>2, <1>3, <1>4

\* the owner leaves keys, tails and the senders' locals alone
LEMMA RecvLocals ==
  ASSUME ReceiveStep \/ KillOwner
  PROVE  UNCHANGED <<sending, deaths, rt, rhSeen, sender, shlock>>
<1>1. CASE Receive \/ LookAny \/ LookRes \/ Ask \/ Find \/ Avail \/ Tags
  BY <1>1 DEF Receive, LookAny, LookRes, Ask, Find, Avail, Tags
<1>2. CASE Block \/ AskAgain \/ Unblock \/ Resume \/ TakeHead \/ Free \/ TakeInner \/ KillOwner
  BY <1>2 DEF Block, AskAgain, Unblock, Resume, TakeHead, Free, TakeInner, KillOwner
<1> QED BY <1>1, <1>2 DEF ReceiveStep

\* the owner's steps that take nothing leave the heads alone
LEMMA RecvHeads ==
  ASSUME ReceiveStep \/ KillOwner
  PROVE  rh' = rh \/ Free \/ TakeInner
<1>1. CASE Receive \/ LookAny \/ LookRes \/ Ask \/ Find \/ Avail \/ Tags
  BY <1>1 DEF Receive, LookAny, LookRes, Ask, Find, Avail, Tags
<1>2. CASE Block \/ AskAgain \/ Unblock \/ Resume \/ TakeHead \/ Free \/ TakeInner \/ KillOwner
  BY <1>2 DEF Block, AskAgain, Unblock, Resume, TakeHead, Free, TakeInner, KillOwner
<1> QED BY <1>1, <1>2 DEF ReceiveStep

\* no head moves back and, when the owner moves, no ring changes its size
LEMMA RecvRings ==
  ASSUME ReceiveStep \/ KillOwner, NEW c \in Slots, Stored, Counted, Takes, TTail, THead, TPlace
  PROVE  ring'[c].cap = ring[c].cap /\ rh'[c] >= rh[c] /\ rh'[c] \in Nat
<1>1. ring'[c].cap = ring[c].cap
  <2>1. CASE TakeInner
    <3>1. n \in Slots
      BY <2>1 DEF TakeInner, Takes, Taking
    <3>2. CASE c = n
      BY <2>1, <3>1, <3>2, RingInner
    <3>3. CASE c # n
      BY <2>1, <3>1, <3>3, RingInner
    <3> QED BY <3>2, <3>3
  <2> QED BY <2>1, RingStillRecv
<1>2. rh'[c] >= rh[c] /\ rh'[c] \in Nat
  BY RecvHeads, TakeEffect DEF THead
<1> QED BY <1>1, <1>2

\* what a producer holds survives the owner: room only grows
LEMMA HoldsRecv ==
  ASSUME NEW t \in Senders, box' = box, box \in Boxes, ReceiveStep \/ KillOwner,
         TSpc, TChan, TTail, THead, TPlace, Stored, Counted, Takes, Holds(t)
  PROVE  Holds(t)'
<1> SUFFICES ASSUME spc'[t] \in Holding PROVE Holds(t)'
  BY DEF Holds
<1> DEFINE c == chan[t]
<1>1. c \in Slots /\ UNCHANGED <<rt, shlock, sending>>
  BY RecvLocals DEF TChan
<1>2. ring'[c].cap = ring[c].cap /\ rh'[c] >= rh[c] /\ rh'[c] \in Nat
  BY <1>1, RecvRings
<1>3. rt[c] - rh[c] < ring[c].cap => rt[c] - rh'[c] < ring[c].cap
  BY <1>1, <1>2 DEF TTail, THead, Stored, Stores
<1> QED BY <1>1, <1>2, <1>3, Same DEF Holds

-----------------------------------------------------------------------------
\* a sender leaves the owner's locals and the heads alone
LEMMA SendLocals ==
  ASSUME NEW s \in Senders, Act(s)
  PROVE  UNCHANGED <<scan, watch, rh, rtSeen, recving, history>>
<1>1. CASE SendStart(s) \/ ScanSlot(s) \/ Claim(s) \/ Push(s) \/ Write(s)
  BY <1>1 DEF SendStart, ScanSlot, Claim, Push, Write
<1>2. CASE Publish(s) \/ Grow(s) \/ Install(s) \/ Wake(s) \/ Die(s) \/ WakeWatchers(s)
  BY <1>2 DEF Publish, Grow, Install, Wake, Die, WakeWatchers
<1> QED BY <1>1, <1>2 DEF Act, SendStep

\* who is dead, and what history keeps of it, changes in three of a sender's steps
LEMMA DeathsSend ==
  ASSUME NEW s \in Senders, Act(s)
  PROVE  /\ dead' = dead \/ (Die(s) /\ dead' = dead \cup {s} /\ mourn' = mourn \cup {s})
         /\ mourn' = mourn \/ Die(s) \/ (WakeWatchers(s) /\ mourn' = mourn \ {s})
         /\ late' = late \/ Publish(s)
         /\ overrun' = overrun \/ Claim(s)
<1>1. CASE SendStart(s) \/ ScanSlot(s) \/ Claim(s) \/ Push(s) \/ Write(s)
  BY <1>1 DEF SendStart, ScanSlot, Claim, Push, Write
<1>2. CASE Publish(s) \/ Grow(s) \/ Install(s) \/ Wake(s) \/ Die(s) \/ WakeWatchers(s)
  BY <1>2 DEF Publish, Grow, Install, Wake, Die, WakeWatchers
<1> QED BY <1>1, <1>2 DEF Act, SendStep

\* only Publish moves a tail
LEMMA TailsSend ==
  ASSUME NEW s \in Senders, Act(s)
  PROVE  rt' = rt \/ Publish(s)
<1>1. CASE SendStart(s) \/ ScanSlot(s) \/ Claim(s) \/ Push(s) \/ Write(s)
  BY <1>1 DEF SendStart, ScanSlot, Claim, Push, Write
<1>2. CASE Grow(s) \/ Install(s) \/ Wake(s) \/ Die(s) \/ WakeWatchers(s)
  BY <1>2 DEF Grow, Install, Wake, Die, WakeWatchers
<1> QED BY <1>1, <1>2 DEF Act, SendStep

\* the types after a sender's step
LEMMA TypesSend ==
  ASSUME IInv, NEW s \in Senders, Act(s), box' = box
  PROVE  Types'
<1> USE DEF Act, SendStep
<1>a. Types /\ Scans(s) /\ Stored /\ box \in Boxes
  BY DEF IInv, Producers, Types
<1>1. TKeys'
  <2>1. TKeys /\ TChan /\ TCand /\ Scans(s) /\ UNCHANGED Slots
    BY <1>a, Same DEF Types
  <2>2. CASE SendStart(s) \/ ScanSlot(s) \/ Push(s) \/ Write(s)
    BY <2>1, <2>2, Const DEF TKeys, SendStart, ScanSlot, Push, Write
  <2>3. CASE Claim(s)
    BY <2>1, <2>3, <1>a, Const, Same DEF TKeys, TChan, TCand, Claim
  <2>4. CASE Publish(s) \/ Grow(s) \/ Install(s)
    BY <2>1, <2>4, Const DEF TKeys, Publish, Grow, Install
  <2>5. CASE Wake(s) \/ Die(s) \/ WakeWatchers(s)
    BY <2>1, <2>5, Const DEF TKeys, Wake, Die, WakeWatchers
  <2> QED BY <2>2, <2>3, <2>4, <2>5
<1>2. TTail'
  <2>1. TTail /\ TSend
    BY <1>a DEF Types
  <2>2. UNCHANGED rtSeen
    BY SendLocals
  <2>3. rt' = rt \/ rt' = [rt EXCEPT ![chan[s]] = at[s] + 1]
    BY TailsSend, PublishEffect
  <2> QED BY <2>1, <2>2, <2>3, Same DEF TTail, TSend
<1>3. THead'
  <2>1. THead
    BY <1>a DEF Types
  <2> QED BY <2>1, Same DEF THead, HeadView, SendStart, ScanSlot, Claim, Push, Write, Publish,
        Grow, Install, Wake, Die, WakeWatchers
<1>4. TPassed' /\ TRecv' /\ TOp' /\ TPlace'
  <2>1. TPassed /\ TRecv /\ TOp /\ TPlace
    BY <1>a DEF Types
  <2> QED BY <2>1, SendLocals, Same DEF TPassed, TRecv, TOp, TPlace
<1>5. TOwner'
  <2>1. TOwner
    BY <1>a DEF Types
  <2> QED BY <2>1, SendLocals, Same DEF TOwner, SendStart, ScanSlot, Claim, Push, Write,
        Publish, Grow, Install, Wake, Die, WakeWatchers
<1>6. TDeaths'
  <2>1. TDeaths /\ TSend /\ Due(s)
    BY <1>a DEF Types, IInv, Producers
  <2>2. CASE Publish(s)
    <3>1. nsent[s] + 1 \in 1 .. MaxSends
      BY <1>a, <2>1, <2>2, Const, PublishEffect DEF Due, TSend
    <3> QED BY <2>1, <2>2, <3>1, PublishEffect DEF TDeaths, Msgs
  <2>3. CASE ~Publish(s)
    <3>1. dead' \subseteq Senders /\ mourn' \subseteq dead' /\ late' \subseteq Msgs
      BY <2>1, <2>3, DeathsSend DEF TDeaths, Die
    <3>2. overrun' \in BOOLEAN
      <4>1. CASE Claim(s)
        BY <2>1, <4>1, ClaimEffect DEF TDeaths
      <4> QED BY <4>1, <2>1, DeathsSend DEF TDeaths
    <3> QED BY <3>1, <3>2 DEF TDeaths
  <2> QED BY <2>2, <2>3
<1>7. TSpc'
  <2>1. TSpc
    BY <1>a DEF Types
  <2> QED BY <2>1 DEF TSpc, SendStart, ScanSlot, Claim, Push, Write, Publish, Grow, Install,
        Wake, Die, WakeWatchers
<1>8. TSend'
  <2>1. TSend /\ chan[s] \in Slots /\ rt[chan[s]] \in Nat /\ ring[chan[s]].cap \in Nat
    BY <1>a DEF Types, TChan, TTail, Stored, Stores
  <2>2. CASE Push(s)
    BY <2>1, <2>2 DEF TSend, Push
  <2>3. CASE ~Push(s)
    <3>1. CASE SendStart(s) \/ ScanSlot(s) \/ Claim(s) \/ Write(s) \/ Publish(s)
      <4>1. CASE SendStart(s)
        BY <2>1, <4>1 DEF TSend, SendStart
      <4>2. CASE ~SendStart(s)
        BY <2>1, <3>1, <4>2 DEF TSend, ScanSlot, Claim, Write, Publish
      <4> QED BY <4>1, <4>2
    <3>2. CASE Grow(s) \/ Install(s) \/ Wake(s)
      <4>1. CASE Grow(s)
        BY <2>1, <4>1 DEF TSend, Grow
      <4>2. CASE Install(s)
        <5>1. \/ UNCHANGED <<nsent, at, blk>>
              \/ /\ nsent' = [nsent EXCEPT ![s] = @ + 1] /\ at' = [at EXCEPT ![s] = 0]
                 /\ blk' = [blk EXCEPT ![s] = 0]
          BY <4>2 DEF Install
        <5> QED BY <2>1, <5>1 DEF TSend
      <4>3. CASE Wake(s)
        BY <2>1, <4>3 DEF TSend, Wake
      <4> QED BY <3>2, <4>1, <4>2, <4>3
    <3>3. CASE Die(s) \/ WakeWatchers(s)
      BY <2>1, <3>3 DEF TSend, Die, WakeWatchers
    <3> QED BY <2>3, <3>1, <3>2, <3>3
  <2> QED BY <2>2, <2>3
<1>9. TChan'
  <2>1. TChan /\ TCand /\ Scans(s)
    BY <1>a DEF Types
  <2>2. CASE Claim(s)
    <3>1. chan' = [chan EXCEPT ![s] = cand[s][1]] \/ chan' = [chan EXCEPT ![s] = 1]
      BY <2>2, ClaimEffect
    <3>2. cand[s][1] \in Slots /\ 1 \in Slots
      BY <1>a, <2>1, <2>2, Pair, Const, ClaimEffect DEF Scans
    <3> QED BY <2>1, <3>1, <3>2, Same DEF TChan
  <2>3. CASE ~Claim(s)
    <3>1. CASE SendStart(s) \/ Push(s) \/ Write(s) \/ Publish(s)
      BY <2>1, <3>1, <1>a, Const, Same DEF TChan, SendStart, Push, Write, Publish
    <3>2. CASE ScanSlot(s)
      BY <2>1, <3>2, <1>a, Const, Same DEF TChan, Scans, ScanSlot
    <3>3. CASE Grow(s) \/ Install(s) \/ Wake(s) \/ Die(s) \/ WakeWatchers(s)
      BY <2>1, <3>3, <1>a, Const, Same DEF TChan, Grow, Install, Wake, Die, WakeWatchers
    <3> QED BY <2>3, <3>1, <3>2, <3>3
  <2> QED BY <2>2, <2>3
<1>10. TCand'
  <2>1. TCand /\ TKeys /\ TChan /\ TDeaths
    BY <1>a DEF Types
  <2>2. CASE ScanSlot(s)
    <3>1. chan[s] \in 1 .. D
      BY <2>2, <1>a, <2>1, Const DEF Scans, TChan, ScanSlot
    <3>2. Reclaimable(chan[s]) => sender[chan[s]] \in Senders \cup {NoOne}
      BY <2>1, Const DEF Reclaimable, TDeaths
    <3> QED BY <2>1, <2>2, <3>1, <3>2, Same DEF TCand, ScanSlot
  <2>3. CASE ~ScanSlot(s)
    BY <2>1, <2>3, Same DEF TCand, SendStart, Claim, Push, Write, Publish, Grow, Install, Wake,
       Die, WakeWatchers
  <2> QED BY <2>2, <2>3
<1> QED BY <1>a, <1>1, <1>2, <1>3, <1>4, <1>5, <1>6, <1>7, <1>8, <1>9, <1>10 DEF Types

\* the channel a scan looks at
LookAt == ((IF check THEN n ELSE scan + n) % SHIDX) + 1

\* a scan looks at a channel there is
LEMMA LookSlot ==
  ASSUME box \in Boxes, scan \in 0 .. D, n \in 0 .. SHIDX
  PROVE  LookAt \in Slots /\ LookAt % SHIDX \in 0 .. D
<1>1. SHIDX \in Nat \ {0} /\ D = SHIDX - 1 /\ Slots = 1 .. SHIDX
  BY Const
<1>2. (IF check THEN n ELSE scan + n) \in Nat
  BY <1>1
<1>3. (IF check THEN n ELSE scan + n) % SHIDX \in 0 .. SHIDX - 1
  BY <1>1, <1>2, ModRange
<1>4. LookAt \in 1 .. SHIDX
  BY <1>1, <1>3 DEF LookAt
<1>5. LookAt % SHIDX \in 0 .. SHIDX - 1
  <2>1. LookAt \in Nat
    BY <1>1, <1>4
  <2> QED BY <1>1, <2>1, ModRange
<1> QED BY <1>1, <1>4, <1>5

\* what that scan, and the one of the shared ring, may take
LookView == IF sender[LookAt] = NoOne THEN rtSeen[LookAt] ELSE TailView(LookAt)

\* the Results queued in channel c, the entries tagged with the sender asked for, and
\* the first of a set of positions
Answers(c) == {i \in rh[c] .. rt[c] - 1 : At(c, i) \in Results}
Tagged == {i \in rh[SHIDX] .. rt[SHIDX] - 1 : At(SHIDX, i).from = op.who}
Oldest(R) == CHOOSE i \in R : \A j \in R : i <= j

\* a look of receive, with its outcomes
LEMMA LookAnyEffect ==
  ASSUME LookAny
  PROVE  /\ rpc = "look" /\ op.op = "receive" /\ rtSeen' = [rtSeen EXCEPT ![LookAt] = LookView]
         /\ \/ /\ sender[LookAt] # NoOne /\ LookView # rh[LookAt] /\ check
               /\ rpc' = "unblock" /\ n' = n /\ k' = k /\ scan' = scan
            \/ /\ sender[LookAt] # NoOne /\ LookView # rh[LookAt] /\ ~check
               /\ rpc' = "take" /\ n' = LookAt /\ k' = rh[LookAt] /\ scan' = LookAt % SHIDX
            \/ /\ ~(sender[LookAt] # NoOne /\ LookView # rh[LookAt]) /\ n < D
               /\ rpc' = rpc /\ n' = n + 1 /\ k' = k /\ scan' = scan
            \/ /\ ~(sender[LookAt] # NoOne /\ LookView # rh[LookAt]) /\ ~(n < D)
               /\ Missed /\ scan' = scan
         /\ UNCHANGED <<op, check, sawDead, held, history, status, watch>>
<1>1. /\ rpc = "look" /\ op.op = "receive" /\ rtSeen' = [rtSeen EXCEPT ![LookAt] = LookView]
      /\ UNCHANGED <<op, check, sawDead, held, history, status, watch>>
  BY DEF LookAny, LookAt, LookView
<1>2. IF sender[LookAt] # NoOne /\ LookView # rh[LookAt]
          THEN /\ Found(LookAt, rh[LookAt])
               /\ scan' = IF check THEN scan ELSE LookAt % SHIDX
          ELSE /\ IF n < D THEN n' = n + 1 /\ UNCHANGED <<rpc, k>> ELSE Missed
               /\ UNCHANGED scan
  BY DEF LookAny, LookAt, LookView
<1> QED BY <1>1, <1>2

\* a look of receiveRes, with its outcomes
LEMMA LookResEffect ==
  ASSUME LookRes
  PROVE  /\ rpc = "look" /\ op.op = "receiveRes"
         /\ \/ /\ sender[LookAt] # NoOne /\ Answers(LookAt) # {} /\ check
               /\ rpc' = "unblock" /\ n' = n /\ k' = k
            \/ /\ sender[LookAt] # NoOne /\ Answers(LookAt) # {} /\ ~check
               /\ rpc' = "take" /\ n' = LookAt /\ k' = Oldest(Answers(LookAt))
            \/ /\ ~(sender[LookAt] # NoOne /\ Answers(LookAt) # {}) /\ n < D
               /\ rpc' = rpc /\ n' = n + 1 /\ k' = k
            \/ /\ ~(sender[LookAt] # NoOne /\ Answers(LookAt) # {}) /\ ~(n < D) /\ Missed
         /\ UNCHANGED <<op, check, sawDead, held, history, acb, chans>>
<1>1. /\ rpc = "look" /\ op.op = "receiveRes"
      /\ UNCHANGED <<op, check, sawDead, held, history, acb, chans>>
  BY DEF LookRes
<1>2. IF sender[LookAt] # NoOne /\ Answers(LookAt) # {}
          THEN Found(LookAt, Oldest(Answers(LookAt)))
          ELSE IF n < D THEN n' = n + 1 /\ UNCHANGED <<rpc, k>> ELSE Missed
  BY DEF LookRes, LookAt, Answers, Oldest
<1> QED BY <1>1, <1>2

\* the look at the shared ring's tags, with its outcomes
LEMMA TagsEffect ==
  ASSUME Tags
  PROVE  /\ rpc = "tags"
         /\ \/ /\ Tagged # {} /\ check /\ rpc' = "unblock" /\ n' = n /\ k' = k
               /\ UNCHANGED <<watch, reply, op, sawDead>>
            \/ /\ Tagged # {} /\ ~check
               /\ rpc' = "take" /\ n' = SHIDX /\ k' = Oldest(Tagged)
               /\ UNCHANGED <<watch, reply, op, sawDead>>
            \/ /\ Tagged = {} /\ sawDead
               /\ reply' = [op |-> "dead", who |-> op.who, msg |-> NoMsg]
               /\ rpc' = "idle" /\ op' = Idle /\ sawDead' = FALSE /\ n' = 0 /\ k' = k
               /\ UNCHANGED watch
            \/ /\ Tagged = {} /\ ~sawDead /\ Missed
               /\ watch' = IF op.op = "receiveFromRes" THEN op.who ELSE watch
               /\ UNCHANGED <<reply, op, sawDead>>
         /\ UNCHANGED <<chans, status, scan, check, held, got, passed>>
<1>1. CASE Tagged # {}
  BY <1>1 DEF Tags, Tagged, Oldest
<1>2. CASE Tagged = {} /\ sawDead
  BY <1>2 DEF Tags, Tagged, Oldest
<1>3. CASE Tagged = {} /\ ~sawDead
  BY <1>3 DEF Tags, Tagged, Oldest
<1> QED BY <1>1, <1>2, <1>3

\* the types after a step of the owner
LEMMA TypesRecv ==
  ASSUME IInv, ReceiveStep \/ KillOwner, box' = box
  PROVE  Types'
<1>a. Types /\ Looks /\ Takes /\ box \in Boxes
  BY DEF IInv, Types
<1>1. TKeys' /\ TDeaths' /\ TSpc' /\ TSend' /\ TChan' /\ TCand'
  <2>1. TKeys /\ TDeaths /\ TSpc /\ TSend /\ TChan /\ TCand
    BY <1>a DEF Types
  <2> QED BY <2>1, RecvLocals, Same DEF TKeys, TDeaths, TSpc, TSend, TChan, TCand
<1>2. TTail'
  <2>1. TTail
    BY <1>a DEF Types
  <2>2. UNCHANGED rt
    BY RecvLocals
  <2>3. CASE LookAny
    BY <2>1, <2>2, <2>3, Same DEF TTail, LookAny, TailView
  <2>4. CASE Avail
    BY <2>1, <2>2, <2>4, Same DEF TTail, Avail, TailView
  <2>5. CASE ~LookAny /\ ~Avail
    <3>1. UNCHANGED rtSeen
      BY <2>5 DEF ReceiveStep, Receive, LookRes, Ask, Find, Tags, Block, AskAgain, Unblock,
         Resume, TakeHead, Free, TakeInner, KillOwner
    <3> QED BY <2>1, <2>2, <3>1, Same DEF TTail
  <2> QED BY <2>3, <2>4, <2>5
<1>3. THead'
  <2>1. THead
    BY <1>a DEF Types
  <2> QED BY <2>1, RecvHeads, RecvLocals, TakeEffect, Same DEF THead
<1>4. TPassed'
  <2>1. TPassed
    BY <1>a DEF Types
  <2>2. CASE Free \/ TakeInner
    BY <2>1, <2>2, Same DEF TPassed, Free, TakeInner
  <2>3. CASE ~Free /\ ~TakeInner
    <3>1. UNCHANGED passed
      BY <2>3 DEF ReceiveStep, Receive, LookAny, LookRes, Ask, Find, Avail, Tags, Block,
         AskAgain, Unblock, Resume, TakeHead, KillOwner
    <3> QED BY <2>1, <3>1, Same DEF TPassed
  <2> QED BY <2>2, <2>3
<1>5. TRecv'
  <2>1. TRecv
    BY <1>a DEF Types
  <2> QED BY <2>1 DEF TRecv, ReceiveStep, Receive, LookAny, LookRes, Ask, Find, Avail, Tags,
        Block, AskAgain, Unblock, Resume, TakeHead, Free, TakeInner, KillOwner
<1>6. TOp'
  <2>1. TOp
    BY <1>a DEF Types
  <2> QED BY <2>1 DEF TOp, ReceiveStep, Receive, LookAny, LookRes, Ask, Find, Avail, Tags,
        Block, AskAgain, Unblock, Resume, TakeHead, Free, TakeInner, KillOwner
<1>7. TOwner'
  <2>1. TOwner /\ TOp /\ scan \in 0 .. D
    BY <1>a DEF Types, TOwner
  <2>2. op.who \in Senders \cup {NoOne}
    BY <1>a, <2>1, Ops DEF TOp
  <2>3. scan' \in 0 .. D
    <3>1. CASE LookAny
      <4>1. n \in 0 .. SHIDX
        BY <1>a DEF Types, TPlace
      <4> QED BY <3>1, <4>1, <2>1, <1>a, LookSlot DEF LookAny, LookAt
    <3>2. CASE ~LookAny
      <4>1. UNCHANGED scan
        BY <3>2 DEF ReceiveStep, Receive, LookRes, Ask, Find, Avail, Tags, Block, AskAgain,
           Unblock, Resume, TakeHead, Free, TakeInner, KillOwner
      <4> QED BY <4>1, <2>1
    <3> QED BY <3>1, <3>2
  <2>4. watch' \in Senders \cup {NoOne}
    BY <2>1, <2>2 DEF TOwner, ReceiveStep, Receive, LookAny, LookRes, Ask, Find, Avail, Tags,
       Block, AskAgain, Unblock, Resume, TakeHead, Free, TakeInner, KillOwner
  <2>5. status' \in {"READY", "BLOCKED", "DEAD"}
    BY <2>1 DEF TOwner, ReceiveStep, Receive, LookAny, LookRes, Ask, Find, Avail, Tags, Block,
       AskAgain, Unblock, Resume, TakeHead, Free, TakeInner, KillOwner
  <2> QED BY <2>3, <2>4, <2>5, Same DEF TOwner
<1>8. TPlace'
  <2>1. n \in 0 .. SHIDX /\ k \in Nat /\ rh \in [Slots -> Nat] /\ rt \in [Slots -> Nat]
    BY <1>a DEF Types, TPlace, THead, TTail
  <2>2. D \in Nat /\ SHIDX = D + 1 /\ SHIDX \in Slots /\ 1 .. D \subseteq Slots
          /\ Slots = 1 .. SHIDX
    BY <1>a, Const
  <2>3. CASE LookAny
    <3> DEFINE c == LookAt
    <3>1. c \in Slots
      BY <1>a, <2>1, LookSlot DEF Types, TOwner
    <3>2. n \in 0 .. D
      BY <2>3, <1>a, <2>1, <2>2 DEF LookAny, Looks
    <3>3. \/ (n' = c /\ k' = rh[c]) \/ (n' = n /\ k' = k) \/ (n' = n + 1 /\ k' = k /\ n < D)
               \/ (n' = 0 /\ k' = k)
      BY <2>3, LookAnyEffect
    <3> HIDE DEF c
    <3> QED BY <3>1, <3>2, <3>3, <2>1, <2>2, Same DEF TPlace
  <2>4. CASE LookRes
    <3> DEFINE c == LookAt
               R == Answers(LookAt)
    <3>1. c \in Slots
      BY <1>a, <2>1, LookSlot DEF Types, TOwner
    <3>2. n \in 0 .. D
      BY <2>4, <1>a, <2>1, <2>2 DEF LookRes, Looks
    <3>3. \/ n' = c /\ (\E i \in R : k' = i)
          \/ (n' = n /\ k' = k) \/ (n' = n + 1 /\ k' = k /\ n < D) \/ (n' = 0 /\ k' = k)
      <4> DEFINE F == Oldest(R)
      <4>1. \/ R # {} /\ n' = c /\ k' = F
            \/ (n' = n /\ k' = k) \/ (n' = n + 1 /\ k' = k /\ n < D) \/ (n' = 0 /\ k' = k)
        BY <2>4, LookResEffect
      <4>a. R \subseteq Nat
        BY <2>1, <3>1 DEF Answers
      <4>2. R # {} => F \in R
        <5> HIDE DEF R
        <5> QED BY <4>a, FirstOf DEF Oldest
      <4> HIDE DEF R, F
      <4> QED BY <4>1, <4>2
    <3>4. R \subseteq Nat
      BY <2>1, <3>1 DEF Answers
    <3> HIDE DEF c, R
    <3>5. k' \in Nat
      BY <3>3, <3>4, <2>1
    <3>6. n' \in 0 .. SHIDX
      BY <3>1, <3>2, <3>3, <2>2
    <3> QED BY <3>5, <3>6, Same DEF TPlace
  <2>5. CASE Tags
    <3> DEFINE R == Tagged
               F == Oldest(R)
    <3>1. (R # {} /\ n' = SHIDX /\ k' = F) \/ (n' = n /\ k' = k) \/ (n' = 0 /\ k' = k)
      BY <2>5, TagsEffect
    <3>3. R \subseteq Nat
      BY <2>1, <2>2 DEF Tagged
    <3> HIDE DEF R
    <3>2. R # {} => F \in R
      BY <3>3, FirstOf DEF Oldest
    <3> HIDE DEF F
    <3>5. k' \in Nat
      BY <3>1, <3>2, <3>3, <2>1
    <3>6. n' \in 0 .. SHIDX
      BY <3>1, <2>1, <2>2
    <3> QED BY <3>5, <3>6, Same DEF TPlace
  <2>6. CASE Find \/ Avail
    <3>1. n \in 1 .. D
      BY <2>6, <1>a, <2>2 DEF Find, Avail, Looks
    <3>2. CASE Find
      <4>1. k' = k /\ (n' = n \/ (n' = n + 1 /\ n < D) \/ n' = 0)
        BY <3>2 DEF Find
      <4>2. n' \in 0 .. SHIDX
        BY <4>1, <3>1, <2>2
      <4> QED BY <4>1, <4>2, <2>1, Same DEF TPlace
    <3>3. CASE Avail
      <4>1. n' \in {n, 0} /\ k' \in {k, rh[n]}
        BY <3>3 DEF Avail, Found
      <4>2. rh[n] \in Nat
        BY <3>1, <2>1, <2>2
      <4>3. n' \in 0 .. SHIDX
        BY <4>1, <3>1, <2>2
      <4> QED BY <4>1, <4>2, <4>3, <2>1, Same DEF TPlace
    <3> QED BY <2>6, <3>2, <3>3
  <2>7. CASE ~(LookAny \/ LookRes \/ Tags \/ Find \/ Avail)
    <3>1. n' \in {n, 0, 1} /\ k' \in {k, 0}
      BY <2>7 DEF ReceiveStep, Receive, Ask, Block, AskAgain, Unblock, Resume, TakeHead, Free,
         TakeInner, KillOwner
    <3> QED BY <3>1, <2>1, <2>2, Same DEF TPlace
  <2> QED BY <2>3, <2>4, <2>5, <2>6, <2>7
<1> QED BY <1>a, <1>1, <1>2, <1>3, <1>4, <1>5, <1>6, <1>7, <1>8 DEF Types

-----------------------------------------------------------------------------
\* The producers, one fact at a time, after a sender's step.
\* A message to send remains until send returns.
LEMMA DueSend ==
  ASSUME NEW s \in Senders, NEW t \in Senders, box' = box, box \in Boxes, Act(s),
         TSpc, TSend, TChan, TCand, Due(s), Due(t)
  PROVE  Due(t)'
<1>1. CASE t # s
  BY <1>1, Others DEF Due
<1>2. CASE t = s
  <2>0. DOMAIN spc = Senders /\ DOMAIN nsent = Senders
    BY DEF TSpc, TSend
  <2>1. CASE Die(s)
    BY <1>2, <2>1 DEF Due, Die
  <2>2. CASE ~Die(s) /\ spc'[s] # "idle"
    <3>1. spc[s] # "idle" \/ SendStart(s)
      BY <2>0, <2>2 DEF Act, SendStep, ScanSlot, Claim, Push, Write, Publish, Grow, Install,
         Wake, WakeWatchers
    <3>2. nsent[s] < box.sends[s]
      BY <3>1 DEF Due, SendStart
    <3>3. nsent'[s] = nsent[s]
      <4>1. CASE SendStart(s) \/ ScanSlot(s) \/ Claim(s) \/ Push(s) \/ Write(s)
        BY <2>0, <2>2, <4>1 DEF SendStart, ScanSlot, Claim, Push, Write
      <4>2. CASE Publish(s) \/ Grow(s) \/ Install(s) \/ Wake(s) \/ WakeWatchers(s)
        BY <2>0, <2>2, <4>2 DEF Publish, Grow, Install, Wake, WakeWatchers
      <4> QED BY <4>1, <4>2, <2>2 DEF Act, SendStep
    <3> QED BY <1>2, <2>2, <3>2, <3>3 DEF Due
  <2>3. CASE spc'[s] = "idle"
    BY <1>2, <2>3 DEF Due
  <2> QED BY <2>1, <2>2, <2>3
<1> QED BY <1>1, <1>2

\* only a claim changes a key
LEMMA SenderSend ==
  ASSUME NEW s \in Senders, Act(s)
  PROVE  sender' = sender \/ (Claim(s) /\ sender[cand[s][1]] = cand[s][2]
                              /\ sender' = [sender EXCEPT ![cand[s][1]] = s])
<1>1. CASE SendStart(s) \/ ScanSlot(s) \/ Claim(s) \/ Push(s) \/ Write(s)
  BY <1>1 DEF SendStart, ScanSlot, Claim, Push, Write
<1>2. CASE Publish(s) \/ Grow(s) \/ Install(s) \/ Wake(s) \/ Die(s) \/ WakeWatchers(s)
  BY <1>2 DEF Publish, Grow, Install, Wake, Die, WakeWatchers
<1> QED BY <1>1, <1>2 DEF Act, SendStep

\* what a scan knows, after a sender's step
LEMMA ScansSend ==
  ASSUME NEW s \in Senders, NEW t \in Senders, box' = box, box \in Boxes, Act(s),
         TSpc, TSend, TChan, TCand, TKeys, Scans(s), Scans(t)
  PROVE  Scans(t)'
<1>1. CASE ScanSlot(s)
  <2>1. DOMAIN cand = Senders
    BY DEF TCand
  <2> QED BY <1>1, <2>1, Scans1
<1>2. CASE Claim(s)
  BY <1>2, Scans2
<1>3. CASE ~ScanSlot(s) /\ ~Claim(s)
  <2>1. sender' = sender
    BY <1>3, SenderSend
  <2>2. CASE t # s
    BY <2>1, <2>2, Others, Same DEF Scans
  <2>3. CASE t = s
    <3>0. DOMAIN spc = Senders /\ DOMAIN chan = Senders /\ DOMAIN cand = Senders
      BY DEF TSpc, TChan, TCand
    <3>1. \/ spc'[s] = spc[s] /\ chan'[s] = chan[s] /\ cand'[s] = cand[s]
          \/ spc'[s] = "idle" /\ chan'[s] = 1
          \/ spc'[s] = "scan" /\ SendStart(s) /\ chan'[s] = chan[s]
          \/ spc'[s] \in Resolved \cup {"wake"}
      <4>1. CASE SendStart(s) \/ Push(s) \/ Write(s) \/ Publish(s)
        BY <3>0, <4>1 DEF SendStart, Push, Write, Publish, Resolved
      <4>2. CASE Grow(s) \/ Install(s) \/ Wake(s) \/ Die(s) \/ WakeWatchers(s)
        BY <3>0, <4>2 DEF Grow, Install, Wake, Die, WakeWatchers, Resolved
      <4> QED BY <4>1, <4>2, <1>3 DEF Act, SendStep
    <3> QED BY <2>1, <2>3, <3>1, Const, Same DEF Scans, Resolved, SendStart
  <2> QED BY <2>2, <2>3
<1> QED BY <1>1, <1>2, <1>3

\* the candidates after a sender's step
LEMMA CandsSend ==
  ASSUME NEW s \in Senders, NEW t \in Senders, Act(s),
         TSpc, TSend, TChan, TCand, Cands(t)
  PROVE  Cands(t)'
<1>0. dead \subseteq dead'
  BY DeathsSend
<1>1. CASE ScanSlot(s)
  <2>1. DOMAIN cand = Senders
    BY DEF TCand
  <2> QED BY <1>1, <2>1, ScanEffect DEF Cands, Reclaimable
<1>2. CASE Claim(s)
  BY <1>2, ClaimEffect DEF Cands, TCand
<1>3. CASE ~ScanSlot(s) /\ ~Claim(s)
  <2>1. cand' = cand
    <3>1. CASE SendStart(s) \/ Push(s) \/ Write(s) \/ Publish(s)
      BY <3>1 DEF SendStart, Push, Write, Publish
    <3>2. CASE Grow(s) \/ Install(s) \/ Wake(s) \/ Die(s) \/ WakeWatchers(s)
      BY <3>2 DEF Grow, Install, Wake, Die, WakeWatchers
    <3> QED BY <3>1, <3>2, <1>3 DEF Act, SendStep
  <2> QED BY <2>1, <1>0 DEF Cands
<1> QED BY <1>1, <1>2, <1>3

\* a resolved channel stays its producer's after a sender's step: a claim under it would
\* overrun it
LEMMA OwnsSend ==
  ASSUME NEW s \in Senders, NEW t \in Senders, box' = box, box \in Boxes, Act(s),
         ~overrun', TSpc, TSend, TChan, TCand, TKeys, Owns(s), Owns(t), Scans(s)
  PROVE  Owns(t)'
<1>1. CASE t # s
  <2>1. spc'[t] = spc[t] /\ chan'[t] = chan[t] /\ chan[t] \in Slots
    BY <1>1, Others DEF TChan
  <2>2. CASE sender' = sender
    BY <2>1, <2>2, Same DEF Owns
  <2>3. CASE Claim(s) /\ sender[cand[s][1]] = cand[s][2]
               /\ sender' = [sender EXCEPT ![cand[s][1]] = s]
    <3>1. cand[s] # <<>> /\ cand[s][1] \in Slots
      BY <2>3, Pair, Const, ClaimEffect DEF Scans
    <3>2. overrun' = (overrun \/ StillUses(cand[s][2], cand[s][1]))
      BY <2>3 DEF Claim
    <3>3. cand[s][2] = t /\ chan[t] = cand[s][1] => spc[t] \notin Resolved
      BY <3>2 DEF StillUses, Resolved
    <3>4. spc[t] \in Resolved /\ chan[t] # SHIDX => sender'[chan[t]] = t
      <4> SUFFICES ASSUME spc[t] \in Resolved, chan[t] # SHIDX PROVE sender'[chan[t]] = t
        OBVIOUS
      <4>1. sender[chan[t]] = t
        BY DEF Owns
      <4>2. chan[t] # cand[s][1]
        BY <4>1, <2>3, <3>3
      <4> QED BY <4>1, <4>2, <2>3
    <3> QED BY <2>1, <3>4, Same DEF Owns
  <2> QED BY <2>2, <2>3, SenderSend
<1>2. CASE t = s
  <2>0. DOMAIN spc = Senders /\ DOMAIN chan = Senders /\ DOMAIN sender = Slots
    BY DEF TSpc, TChan, TKeys
  <2>1. CASE ScanSlot(s)
    <3>1. DOMAIN cand = Senders
      BY DEF TCand
    <3> QED BY <1>2, <2>0, <2>1, <3>1, ScanEffect, Same DEF Owns, Resolved
  <2>2. CASE Claim(s)
    <3>1. cand[s] # <<>> /\ cand[s][1] \in Slots
      BY <2>2, Pair, Const, ClaimEffect DEF Scans
    <3> QED BY <1>2, <2>0, <2>2, <3>1, ClaimEffect, Same DEF Owns, Resolved
  <2>3. CASE ~ScanSlot(s) /\ ~Claim(s)
    <3>1. sender' = sender
      BY <2>3, SenderSend
    <3>2. spc'[s] \notin Resolved \/ (spc[s] \in Resolved /\ chan'[s] = chan[s])
      <4>1. CASE SendStart(s) \/ Push(s) \/ Write(s) \/ Publish(s)
        BY <2>0, <4>1 DEF SendStart, Push, Write, Publish, Resolved
      <4>2. CASE Grow(s) \/ Install(s) \/ Wake(s) \/ Die(s) \/ WakeWatchers(s)
        BY <2>0, <4>2 DEF Grow, Install, Wake, Die, WakeWatchers, Resolved
      <4> QED BY <4>1, <4>2, <2>3 DEF Act, SendStep
    <3> QED BY <1>2, <3>1, <3>2, Same DEF Owns
  <2> QED BY <2>1, <2>2, <2>3
<1> QED BY <1>1, <1>2

\* the unbound slots after a sender's step
LEMMA KeysSend ==
  ASSUME NEW s \in Senders, box' = box, box \in Boxes, Act(s),
         TCand, TKeys, TTail, THead, TChan, TSend, Keys, Owns(s), Scans(s)
  PROVE  Keys'
<1>1. CASE Claim(s)
  BY <1>1, Keys1
<1>2. CASE Publish(s)
  BY <1>2, Keys2
<1>3. CASE ~Claim(s) /\ ~Publish(s)
  <2>1. UNCHANGED <<sender, rt, rh>>
    <3>1. CASE SendStart(s) \/ ScanSlot(s) \/ Push(s) \/ Write(s)
      BY <3>1 DEF SendStart, ScanSlot, Push, Write
    <3>2. CASE Grow(s) \/ Install(s) \/ Wake(s) \/ Die(s) \/ WakeWatchers(s)
      BY <3>2 DEF Grow, Install, Wake, Die, WakeWatchers
    <3> QED BY <3>1, <3>2, <1>3 DEF Act, SendStep
  <2> QED BY <2>1, Same DEF Keys
<1> QED BY <1>1, <1>2, <1>3

\* the rings after a sender's step
LEMMA RingsSend ==
  ASSUME IInv, NEW s \in Senders, Act(s), box' = box
  PROVE  /\ Stored'
         /\ \A c \in Slots : \/ ring'[c].cap = ring[c].cap
                             \/ /\ Install(s) /\ c = chan[s] /\ blk[s] = ring[c].cap
                                /\ ring'[c].cap = 2 * ring[c].cap
         /\ \A c \in Slots, i \in Nat : Live(c, i) => At(c, i)' = At(c, i)
<1>1. /\ Stored /\ Counted /\ Holds(s) /\ Grows(s) /\ TTail /\ THead /\ TSend
           /\ chan[s] \in Slots
      /\ Due(s) /\ nsent[s] \in Nat /\ box \in Boxes
  BY DEF IInv, Producers, Types, TChan, TSend
<1>2. CASE Write(s)
  <2>0. PICK c \in Slots : c = chan[s]
    BY <1>1
  <2> DEFINE m == [from |-> s, no |-> nsent[s] + 1]
  <2>1. /\ \A d \in Slots \ {c} : ring'[d] = ring[d]
        /\ ring'[c].cap = ring[c].cap
        /\ ring'[c].slot = [ring[c].slot EXCEPT ![rt[c] % ring[c].cap] = m]
        /\ \A d \in Slots, i \in Nat : Live(d, i) => At(d, i)' = At(d, i)
        /\ DOMAIN ring' = Slots
    BY <1>1, <1>2, <2>0, RingWrite
  <2>2. m \in Msgs
    <3>1. nsent[s] < box.sends[s] /\ box.sends[s] \in 0 .. MaxSends /\ MaxSends \in Nat
      BY <1>1, <1>2, Const DEF Due, Write
    <3> QED BY <3>1, <1>1 DEF Msgs
  <2>3. Stores(c)'
    <3>1. ring[c].cap \in Nat \ {0}
            /\ ring[c].slot \in [0 .. ring[c].cap - 1 -> Msgs \cup {NoMsg}]
      BY <1>1 DEF Stored, Stores
    <3>2. ring'[c] = [cap |-> ring'[c].cap, slot |-> ring'[c].slot]
      BY <1>1, <1>2 DEF Write, Stored, Stores
    <3> HIDE DEF m
    <3>3. ring'[c].slot \in [0 .. ring[c].cap - 1 -> Msgs \cup {NoMsg}]
      BY <2>1, <2>2, <3>1
    <3> QED BY <2>1, <3>1, <3>2, <3>3 DEF Stores
  <2>4. \A d \in Slots \ {c} : Stores(d)'
    BY <2>1, <1>1 DEF Stored, Stores
  <2>5. ring' = [d \in Slots |-> ring'[d]]
    BY <1>1, <1>2 DEF Write, Stored
  <2>6. \A d \in Slots : Stores(d)'
    BY <2>3, <2>4
  <2>7. Stored'
    BY <2>5, <2>6, Same DEF Stored
  <2>8. \A d \in Slots : ring'[d].cap = ring[d].cap
    BY <2>1
  <2> QED BY <2>1, <2>7, <2>8
<1>3. CASE Install(s)
  <2>0. PICK c \in Slots : c = chan[s]
    BY <1>1
  <2>1. /\ \A d \in Slots \ {c} : ring'[d] = ring[d]
        /\ \/ ring'[c] = ring[c]
           \/ ring'[c].cap = 2 * ring[c].cap /\ blk[s] = ring[c].cap /\ Stores(c)'
        /\ \A d \in Slots, i \in Nat : Live(d, i) => At(d, i)' = At(d, i)
        /\ DOMAIN ring' = Slots
    BY <1>1, <1>3, <2>0, RingInstall
  <2>2. \A d \in Slots : Stores(d)'
    BY <2>1, <1>1 DEF Stored, Stores
  <2>3. ring' = [d \in Slots |-> ring'[d]]
    BY <1>1, <1>3 DEF Install, Stored
  <2>4. Stored'
    BY <2>2, <2>3, Same DEF Stored
  <2> QED BY <1>3, <2>0, <2>1, <2>4
<1>4. CASE ~Write(s) /\ ~Install(s)
  <2>1. ring' = ring
    BY <1>4, RingStill DEF Act
  <2> QED BY <2>1, <1>1, Same DEF Stored, Stores, At
<1> QED BY <1>2, <1>3, <1>4

\* the rings about to grow, after a sender's step
LEMMA GrowsSend ==
  ASSUME IInv, NEW s \in Senders, NEW t \in Senders, Act(s), box' = box
  PROVE  Grows(t)'
<1>1. /\ TSpc /\ TSend /\ TChan /\ TCand /\ Grows(s) /\ Grows(t) /\ Stored
           /\ DOMAIN spc = Senders
      /\ DOMAIN blk = Senders
  BY DEF IInv, Producers, Types, TSpc, TSend
<1>2. CASE t # s
  <2>1. PICK c \in Slots : c = chan[t] /\ c = chan'[t]
    BY <1>1, <1>2, Others DEF TChan
  <2>2. spc'[t] = spc[t] /\ blk'[t] = blk[t] /\ blk[t] \in Nat /\ ring[c].cap \in Nat
    BY <1>1, <1>2, Others DEF TSend, Stored, Stores
  <2>3. ring'[c].cap = ring[c].cap \/ ring'[c].cap = 2 * ring[c].cap
    BY RingsSend
  <2> QED BY <1>1, <2>1, <2>2, <2>3 DEF Grows
<1>3. CASE t = s
  <2>1. PICK c \in Slots : c = chan[s]
    BY <1>1 DEF TChan
  <2>2. CASE Push(s)
    <3> SUFFICES ASSUME spc'[s] \in {"grow", "install"} PROVE Grows(s)'
      BY <1>3 DEF Grows
    <3>1. blk'[s] = ring[c].cap /\ chan' = chan /\ ring' = ring
      BY <1>1, <2>1, <2>2, PushEffect
    <3> QED BY <1>1, <2>1, <3>1 DEF Grows, Stored, Stores
  <2>3. CASE ~Push(s) /\ spc'[s] \in {"grow", "install"}
    <3>1. spc[s] \in {"grow", "install"} /\ blk'[s] = blk[s] /\ chan'[s] = chan[s]
            /\ ring' = ring
      <4>1. ~(SendStart(s) \/ Claim(s) \/ Write(s) \/ Publish(s) \/ ScanSlot(s))
        BY <1>1, <2>3 DEF SendStart, ScanSlot, Claim, Write, Publish
      <4>2. ~(Install(s) \/ Wake(s))
        BY <1>1, <2>3 DEF Install, Wake
      <4>3. CASE Grow(s) \/ Die(s) \/ WakeWatchers(s)
        BY <1>1, <2>3, <4>3 DEF Grow, Die, WakeWatchers
      <4> QED BY <2>3, <4>1, <4>2, <4>3 DEF Act, SendStep
    <3> QED BY <1>1, <1>3, <3>1 DEF Grows
  <2>4. CASE spc'[s] \notin {"grow", "install"}
    BY <1>3, <2>4 DEF Grows
  <2> QED BY <2>2, <2>3, <2>4
<1> QED BY <1>2, <1>3

\* what producers hold, after a sender's step
LEMMA HoldsSend ==
  ASSUME IInv, NEW s \in Senders, NEW t \in Senders, Act(s), box' = box
  PROVE  Holds(t)'
<1>1. /\ TSpc /\ TSend /\ TChan /\ TCand /\ TTail /\ THead /\ Stored /\ Counted /\ box \in Boxes
      /\ Owns(s) /\ Owns(t) /\ Holds(s) /\ Holds(t) /\ Grows(s)
  BY DEF IInv, Producers, Types
<1>2. CASE t # s
  BY <1>1, <1>2, HoldsOther
<1>3. CASE t = s
  BY <1>1, <1>3, HoldsOwn
<1> QED BY <1>2, <1>3

\* no one else writes the ring of a producer that holds its slot
LEMMA RingHeld ==
  ASSUME IInv, NEW s \in Senders, NEW t \in Senders \ {s}, Act(s), box' = box,
         spc[t] \in Holding
  PROVE  ring'[chan[t]] = ring[chan[t]]
<1>1. /\ TSpc /\ TSend /\ TChan /\ TCand /\ TTail /\ THead /\ Stored /\ Counted /\ box \in Boxes
      /\ Owns(s) /\ Owns(t) /\ Holds(s) /\ Holds(t) /\ Grows(s) /\ NoOne \notin Senders
  BY Const DEF IInv, Producers, Types
<1>2. spc[s] \in Holding => chan[s] # chan[t]
  BY <1>1, OneProducer DEF Holds, Holding, Resolved
<1>3. CASE Write(s)
  BY <1>1, <1>2, <1>3, RingWrite DEF TChan, Write, Holding
<1>4. CASE Install(s)
  <2>1. chan[s] = chan[t] => chan[t] = SHIDX
    BY <1>1, <1>4, OneProducer DEF Install, Resolved, Holding
  <2>2. chan[s] # chan[t]
    BY <1>1, <1>4, <2>1 DEF Install, Holds
  <2> QED BY <1>1, <1>4, <2>2, RingInstall DEF TChan
<1>5. CASE ~Write(s) /\ ~Install(s)
  BY <1>5, RingStill DEF Act
<1> QED BY <1>3, <1>4, <1>5

\* the slots about to be published, after a sender's step
LEMMA FilledSend ==
  ASSUME IInv, NEW s \in Senders, NEW t \in Senders, Act(s), box' = box
  PROVE  Filled(t)'
<1>1. /\ TSpc /\ TSend /\ TChan /\ TCand /\ TTail /\ THead /\ Stored /\ Counted
      /\ Holds(s) /\ Filled(t) /\ DOMAIN spc = Senders
  BY DEF IInv, Producers, Types, TSpc
<1>2. CASE t # s
  <2>1. /\ spc'[t] = spc[t] /\ chan'[t] = chan[t] /\ at'[t] = at[t] /\ nsent'[t] = nsent[t]
    BY <1>1, <1>2, Others
  <2>2. spc[t] = "publish" => ring'[chan[t]] = ring[chan[t]]
    BY <1>2, RingHeld DEF Holding
  <2> QED BY <1>1, <2>1, <2>2 DEF Filled, At
<1>3. CASE t = s
  <2>1. CASE Write(s)
    <3>1. PICK c \in Slots : c = chan[s]
      BY <1>1 DEF TChan
    <3>2. At(c, rt[c])' = [from |-> s, no |-> nsent[s] + 1] /\ at[s] = rt[c]
      BY <1>1, <2>1, <3>1, RingWrite DEF Write, Holds, Holding
    <3>3. UNCHANGED <<chan, at, nsent, rt>>
      BY <2>1 DEF Write
    <3>4. At(c, at[s])' = [from |-> s, no |-> nsent[s] + 1]
      BY <3>2, <3>3 DEF At
    <3> QED BY <1>3, <3>1, <3>3, <3>4 DEF Filled, At
  <2>2. CASE ~Write(s) /\ spc'[s] = "publish"
    <3>1. Die(s) \/ WakeWatchers(s)
      <4>1. ~(SendStart(s) \/ Claim(s) \/ ScanSlot(s) \/ Push(s) \/ Publish(s))
        BY <1>1, <2>2 DEF SendStart, ScanSlot, Claim, Push, Publish
      <4>2. ~(Grow(s) \/ Install(s) \/ Wake(s))
        BY <1>1, <2>2 DEF Grow, Install, Wake
      <4> QED BY <2>2, <4>1, <4>2 DEF Act, SendStep
    <3>2. UNCHANGED <<ring, sending>>
      BY <3>1 DEF Die, WakeWatchers
    <3> QED BY <1>1, <1>3, <3>2 DEF Filled, At
  <2>3. CASE spc'[s] # "publish"
    BY <1>3, <2>3 DEF Filled
  <2> QED BY <2>1, <2>2, <2>3
<1> QED BY <1>2, <1>3

\* what Publish adds to a lane
LEMMA Published ==
  ASSUME IInv, NEW s \in Senders, Publish(s), NEW c \in Slots, c = chan[s], NEW p, p = rt[c]
  PROVE  /\ rt' = [rt EXCEPT ![c] = p + 1] /\ p \in Nat
         /\ At(c, p)' = [from |-> s, no |-> nsent[s] + 1]
         /\ [from |-> s, no |-> nsent[s] + 1] \in Msgs
         /\ rt[c] - rh[c] < ring[c].cap
         /\ ring' = ring /\ rh' = rh
<1>1. /\ Holds(s) /\ Filled(s) /\ Due(s) /\ TTail /\ nsent[s] \in Nat /\ box \in Boxes
  BY DEF IInv, Producers, Types, TSend
<1>2. at[s] = rt[c] /\ rt[c] - rh[c] < ring[c].cap /\ rt[c] \in Nat
  BY <1>1 DEF Holds, Holding, Publish, TTail
<1>3. UNCHANGED <<ring, rh>> /\ rt' = [rt EXCEPT ![c] = rt[c] + 1]
  BY <1>2, PublishEffect
<1>4. At(c, rt[c]) = [from |-> s, no |-> nsent[s] + 1]
  BY <1>1, <1>2, PublishEffect DEF Filled
<1>5. nsent[s] < box.sends[s] /\ box.sends[s] \in 0 .. MaxSends /\ MaxSends \in Nat
  BY <1>1, Const, PublishEffect DEF Due
<1>6. [from |-> s, no |-> nsent[s] + 1] \in Msgs
  BY <1>1, <1>5 DEF Msgs
<1>7. At(c, p)' = At(c, p)
  BY <1>3 DEF At
<1> QED BY <1>2, <1>3, <1>4, <1>6, <1>7

\* the counters after a sender's step
LEMMA CountedSend ==
  ASSUME IInv, NEW s \in Senders, Act(s), box' = box
  PROVE  Counted'
<1>1. /\ TTail /\ THead /\ TChan /\ TSend /\ Stored /\ Counted /\ Holds(s) /\ box \in Boxes
  BY DEF IInv, Producers, Types
<1> SUFFICES ASSUME NEW c \in Slots PROVE Ordered(c)'
  BY Same DEF Counted
<1>2. Ordered(c) /\ ring[c].cap \in Nat
  BY <1>1 DEF Counted, Stored, Stores
<1>3. CASE Push(s)
  BY <1>1, <1>2, <1>3, Ordered1
<1>4. CASE Publish(s)
  BY <1>1, <1>2, <1>4, Ordered2
<1>5. CASE ~Push(s) /\ ~Publish(s)
  <2>1. UNCHANGED <<rt, rh, rtSeen, rhSeen>>
    <3>1. CASE SendStart(s) \/ ScanSlot(s) \/ Claim(s) \/ Write(s)
      BY <3>1 DEF SendStart, ScanSlot, Claim, Write
    <3>2. CASE Grow(s) \/ Install(s) \/ Wake(s) \/ Die(s) \/ WakeWatchers(s)
      BY <3>2 DEF Grow, Install, Wake, Die, WakeWatchers
    <3> QED BY <3>1, <3>2, <1>5 DEF Act, SendStep
  <2>2. ring'[c].cap = ring[c].cap \/ ring'[c].cap = 2 * ring[c].cap
    BY RingsSend
  <2>3. rt[c] \in Nat /\ rh[c] \in Nat
    BY <1>1 DEF TTail, THead
  <2>4. rt[c] - rh[c] <= ring'[c].cap
    BY <1>2, <2>2, <2>3 DEF Ordered
  <2> QED BY <1>2, <2>1, <2>4 DEF Ordered
<1> QED BY <1>3, <1>4, <1>5

\* a message that is in a lane after the step was there before, unless it has
\* just been published
LEMMA LiveSend ==
  ASSUME IInv, NEW s \in Senders, Act(s), box' = box, NEW c \in Slots, NEW i \in Nat,
           Live(c, i)'
  PROVE  \/ Live(c, i) /\ At(c, i)' = At(c, i)
         \/ /\ Publish(s) /\ c = chan[s] /\ i = rt[c]
            /\ At(c, i)' = [from |-> s, no |-> nsent[s] + 1]
            /\ [from |-> s, no |-> nsent[s] + 1] \in Msgs
<1>1. /\ TTail /\ THead /\ TChan
  BY DEF IInv, Types
<1>2. CASE Live(c, i)
  BY <1>2, RingsSend
<1>3. CASE ~Live(c, i)
  <2>1. rh' = rh
    BY SendLocals
  <2>2. rt' # rt
    BY <1>3, <2>1 DEF Live
  <2>3. Publish(s) /\ chan[s] \in Slots
    BY <1>1, <2>2, TailsSend DEF TChan
  <2>4. rt' = [rt EXCEPT ![chan[s]] = rt[chan[s]] + 1]
    BY <2>3, Published
  <2>5. c = chan[s] /\ i = rt[c]
    BY <1>1, <1>3, <2>1, <2>3, <2>4 DEF Live, TTail, THead
  <2> QED BY <2>3, <2>5, Published
<1> QED BY <1>2, <1>3

\* the queued messages are messages after a sender's step
LEMMA RealsSend ==
  ASSUME IInv, NEW s \in Senders, Act(s), box' = box
  PROVE  Reals'
<1> SUFFICES ASSUME NEW c \in Slots, NEW i \in Nat, Live(c, i)' PROVE At(c, i)' \in Msgs
  BY Same DEF Reals, Real, Msgs
<1>1. \A j \in Nat : Live(c, j) => At(c, j) \in Msgs
  BY DEF IInv, Reals, Real
<1> QED BY LiveSend, <1>1

\* what the owner found is still there after a sender's step
LEMMA OwnerSend ==
  ASSUME IInv, NEW s \in Senders, Act(s), box' = box
  PROVE  Takes' /\ Loaded' /\ Looks'
<1>1. /\ Takes /\ Loaded /\ Looks /\ UNCHANGED <<rpc, op, check, sawDead, n, k, held, rh>>
  BY SendLocals DEF IInv
<1>2. /\ TTail /\ THead /\ TPlace /\ TDeaths /\ TKeys /\ TOp /\ TCand /\ box \in Boxes
      /\ Cands(s) /\ Scans(s) /\ TChan /\ TSend
  BY DEF IInv, Types, Producers
<1>3. \A c \in Slots : rt'[c] >= rt[c] /\ rt'[c] \in Nat
  <2> SUFFICES ASSUME NEW c \in Slots PROVE rt'[c] >= rt[c] /\ rt'[c] \in Nat
    OBVIOUS
  <2>1. CASE Publish(s)
    <3>1. chan[s] \in Slots /\ rt' = [rt EXCEPT ![chan[s]] = rt[chan[s]] + 1]
      BY <1>2, <2>1, Published DEF TChan
    <3> QED BY <3>1, <1>2 DEF TTail
  <2>2. CASE ~Publish(s)
    BY <1>2, <2>2, TailsSend DEF TTail
  <2> QED BY <2>1, <2>2
<1>4. Takes'
  BY <1>1, <1>2, <1>3, Same DEF Takes, Taking, TTail, THead, TPlace
<1>5. Loaded'
  <2> SUFFICES ASSUME rpc = "free" PROVE k = rh[n] /\ held = At(n, k)'
    BY <1>1 DEF Loaded
  <2>1. n \in Slots /\ k \in Nat /\ Live(n, k) /\ k = rh[n] /\ held = At(n, k)
    BY <1>1, <1>2 DEF Takes, Taking, Loaded, Live, TPlace
  <2>2. PICK c \in Slots, i \in Nat : c = n /\ i = k
    BY <2>1
  <2>3. At(c, i)' = At(c, i)
    BY <2>1, <2>2, RingsSend
  <2>4. At(n, k)' = At(c, i)'
    BY <2>2, <1>1 DEF At
  <2> QED BY <2>1, <2>2, <2>3, <2>4
<1>6. Looks'
  <2>1. dead \subseteq dead'
    BY DeathsSend
  <2>2. rpc = "avail" => sender'[n] = op.who \/ op.who \in dead'
    <3> SUFFICES ASSUME rpc = "avail", op.who \notin dead PROVE sender'[n] = op.who
      BY <2>1
    <3>1. sender[n] = op.who /\ n \in 1 .. D /\ op.op \in Froms
      BY <1>1 DEF Looks
    <3>2. op.who \in Senders
      BY <1>2, <3>1, Ops DEF TOp
    <3>3. CASE Claim(s) /\ sender[cand[s][1]] = cand[s][2]
                 /\ sender' = [sender EXCEPT ![cand[s][1]] = s]
      <4>1. cand[s][2] \in dead \cup {NoOne}
        BY <1>2, <3>3, ClaimEffect DEF Scans, Cands
      <4>2. cand[s][1] # n
        BY <3>1, <3>2, <3>3, <4>1, <1>2, Const
      <4> QED BY <3>1, <3>3, <4>2, <1>2, Const DEF TKeys
    <3> QED BY <3>1, <3>3, SenderSend
  <2> QED BY <1>1, <2>1, <2>2, Same DEF Looks
<1> QED BY <1>4, <1>5, <1>6

\* who claims a slot owns no other
LEMMA OneSlotSend ==
  ASSUME IInv, NEW s \in Senders, Act(s), box' = box
  PROVE  OneSlot'
<1>1. OneSlot /\ TKeys /\ TCand /\ Scans(s) /\ box \in Boxes
  BY DEF IInv, Types, Producers
<1>2. CASE Claim(s) /\ sender[cand[s][1]] = cand[s][2]
             /\ sender' = [sender EXCEPT ![cand[s][1]] = s]
  <2>1. cand[s][1] \in 1 .. D /\ \A j \in 1 .. D : sender[j] # s
    BY <1>1, <1>2, Pair, ClaimEffect DEF Scans
  <2> QED BY <1>1, <1>2, <2>1, Const, Same DEF OneSlot, TKeys
<1> QED BY <1>1, <1>2, SenderSend, Same DEF OneSlot

\* the rings after a step of the owner
LEMMA StoredRecv ==
  ASSUME IInv, ReceiveStep \/ KillOwner, box' = box
  PROVE  Stored'
<1>1. Stored /\ Counted /\ Takes /\ TTail /\ THead /\ TPlace
  BY DEF IInv, Types
<1>2. CASE TakeInner
  <2>1. PICK c \in Slots : c = n
    BY <1>1, <1>2 DEF TakeInner, Takes, Taking
  <2>2. Stores(c)' /\ \A d \in Slots \ {c} : ring'[d] = ring[d]
    BY <1>1, <1>2, <2>1, RingInner
  <2>3. \A d \in Slots : Stores(d)'
    BY <2>2, <1>1 DEF Stored, Stores
  <2>4. ring' = [d \in Slots |-> ring'[d]]
    BY <1>1, <1>2 DEF TakeInner, Stored
  <2> QED BY <2>3, <2>4, Same DEF Stored
<1>3. CASE ~TakeInner
  BY <1>1, <1>3, RingStillRecv, Same DEF Stored, Stores
<1> QED BY <1>2, <1>3

\* the owner's view of a tail is an old one or the tail
LEMMA SeenRecv ==
  ASSUME ReceiveStep \/ KillOwner, TTail, NEW c \in Slots
  PROVE  rtSeen'[c] \in {rtSeen[c], rt[c]}
<1>1. CASE LookAny \/ Avail
  BY <1>1 DEF LookAny, Avail, TailView, TTail
<1>2. CASE ~LookAny /\ ~Avail
  BY <1>2 DEF ReceiveStep, Receive, LookRes, Ask, Find, Tags, Block, AskAgain, Unblock, Resume,
              TakeHead, Free, TakeInner, KillOwner
<1> QED BY <1>1, <1>2

\* the counters after a step of the owner
LEMMA CountedRecv ==
  ASSUME IInv, ReceiveStep \/ KillOwner, box' = box
  PROVE  Counted'
<1>1. Stored /\ Counted /\ Takes /\ TTail /\ THead /\ TPlace /\ box \in Boxes
  BY DEF IInv, Types
<1> SUFFICES ASSUME NEW c \in Slots PROVE Ordered(c)'
  BY Same DEF Counted
<1>2. Ordered(c) /\ ring[c].cap \in Nat /\ ring'[c].cap = ring[c].cap
  BY <1>1, RecvRings DEF Counted, Stored, Stores
<1>3. CASE Free \/ TakeInner
  BY <1>1, <1>2, <1>3, Ordered3
<1>4. CASE rh' = rh
  BY <1>1, <1>2, <1>4, RecvLocals, SeenRecv DEF Ordered, TTail, THead
<1> QED BY <1>3, <1>4, RecvHeads

\* the producers and the keys after a step of the owner
LEMMA ProducersRecv ==
  ASSUME IInv, ReceiveStep \/ KillOwner, box' = box
  PROVE  Producers' /\ Keys' /\ OneSlot'
<1>1. /\ Stored /\ Counted /\ Takes /\ TTail /\ THead /\ TPlace /\ TSpc /\ TChan /\ TSend
           /\ TCand
      /\ Keys /\ OneSlot /\ box \in Boxes
  BY DEF IInv, Types
<1>2. UNCHANGED <<sending, deaths, rt, sender, shlock>>
  BY RecvLocals
<1>3. Keys' /\ OneSlot'
  <2>1. Keys'
    <3>1. CASE Free \/ TakeInner
      BY <1>1, <3>1, Keys3
    <3>2. CASE rh' = rh
      BY <1>1, <1>2, <3>2, Same DEF Keys
    <3> QED BY <3>1, <3>2, RecvHeads
  <2> QED BY <1>1, <1>2, <2>1, Same DEF OneSlot
<1>4. ASSUME NEW t \in Senders
      PROVE  Due(t)' /\ Scans(t)' /\ Cands(t)' /\ Owns(t)' /\ Holds(t)' /\ Grows(t)'
               /\ Filled(t)'
  <2>1. Due(t) /\ Scans(t) /\ Cands(t) /\ Owns(t) /\ Holds(t) /\ Grows(t) /\ Filled(t)
    BY DEF IInv, Producers
  <2>2. Due(t)' /\ Scans(t)' /\ Owns(t)'
    BY <1>2, <2>1, Same DEF Due, Scans, Owns
  <2>3. Cands(t)'
    BY <1>2, <2>1 DEF Cands
  <2>4. Holds(t)'
    BY <1>1, <2>1, HoldsRecv
  <2>5. PICK c \in Slots : c = chan[t] /\ c = chan'[t]
    BY <1>1, <1>2 DEF TChan
  <2>6. Grows(t)'
    <3>1. ring'[c].cap = ring[c].cap
      BY <1>1, RecvRings
    <3> QED BY <1>2, <2>1, <2>5, <3>1 DEF Grows
  <2>7. Filled(t)'
    <3> SUFFICES ASSUME spc[t] = "publish" PROVE At(c, at[t])' = At(c, at[t])
      BY <1>2, <2>1, <2>5 DEF Filled, At
    <3>1. at[t] = rt[c] /\ rt[c] - rh[c] < ring[c].cap
      BY <2>1, <2>5 DEF Holds, Holding
    <3>2. CASE TakeInner /\ c = n
      <4>1. k < rt[c] /\ rt[c] <= rh[c] + ring[c].cap /\ rt[c] \in Nat
        BY <1>1, <3>1, <3>2 DEF Takes, Taking, TakeInner, TTail, THead, Stored, Stores
      <4>2. PICK i \in Nat : i = at[t]
        BY <3>1, <4>1
      <4>3. At(c, i)' = At(c, i)
        BY <1>1, <3>1, <3>2, <4>1, <4>2, RingInner
      <4> QED BY <1>2, <4>2, <4>3 DEF At
    <3>3. CASE TakeInner /\ c # n
      <4>1. n \in Slots
        BY <1>1, <3>3 DEF Takes, Taking, TakeInner
      <4>2. ring'[c] = ring[c]
        BY <1>1, <3>3, <4>1, RingInner
      <4> QED BY <1>2, <4>2 DEF At
    <3>4. CASE ~TakeInner
      BY <1>2, <3>4, RingStillRecv DEF At
    <3> QED BY <3>2, <3>3, <3>4
  <2> QED BY <2>2, <2>3, <2>4, <2>6, <2>7
<1> QED BY <1>3, <1>4 DEF Producers

\* the lanes after a step of the owner: the one a message is taken from closes
\* up behind it, the others stay
LEMMA LiveRecv ==
  ASSUME IInv, ReceiveStep \/ KillOwner, box' = box, NEW c \in Slots, NEW i \in Nat, Live(c, i)'
  PROVE  IF (Free \/ TakeInner) /\ c = n /\ i <= k
           THEN TakeInner /\ i > rh[c] /\ Live(c, i - 1) /\ At(c, i)' = At(c, i - 1)
           ELSE Live(c, i) /\ At(c, i)' = At(c, i)
<1>1. Stored /\ Counted /\ Takes /\ Loaded /\ TTail /\ THead /\ TPlace /\ UNCHANGED rt
  BY RecvLocals DEF IInv, Types
<1>2. CASE TakeInner
  <2>1. PICK d \in Slots : d = n
    BY <1>1, <1>2 DEF TakeInner, Takes, Taking
  <2>2. rh' = [rh EXCEPT ![d] = rh[d] + 1] /\ k \in Nat /\ rh[d] \in Nat /\ rt[d] \in Nat
          /\ ring[d].cap \in Nat
    BY <1>1, <1>2, <2>1, TakeEffect DEF TPlace, THead, TTail, Stored, Stores
  <2>3. CASE c # n
    <3>1. rh'[c] = rh[c] /\ At(c, i)' = At(c, i)
      BY <1>1, <1>2, <2>1, <2>2, <2>3, RingInner DEF THead
    <3> QED BY <1>1, <2>3, <3>1 DEF Live
  <2>4. CASE c = n
    <3>1. rh'[c] = rh[c] + 1
      BY <1>1, <2>1, <2>2, <2>4 DEF THead
    <3>2. rh[c] < i /\ i < rt[c] /\ i <= rh[c] + ring[c].cap
      BY <1>1, <2>1, <2>2, <2>4, <3>1 DEF Live, Counted, Ordered
    <3>3. IF i <= k THEN At(c, i)' = At(c, i - 1) ELSE At(c, i)' = At(c, i)
      BY <1>1, <1>2, <2>2, <2>4, <3>2, RingInner
    <3> QED BY <1>2, <2>1, <2>2, <2>4, <3>2, <3>3 DEF Live
  <2> QED BY <2>3, <2>4
<1>3. CASE ~TakeInner
  <2>1. At(c, i)' = At(c, i)
    BY <1>3, RingStillRecv DEF At
  <2>2. CASE rh' = rh
    <3>1. ~Free
      <4> SUFFICES ASSUME Free PROVE FALSE
        OBVIOUS
      <4>1. n \in Slots /\ rh' = [rh EXCEPT ![n] = rh[n] + 1]
        BY <1>1, TakeEffect DEF Takes
      <4> QED BY <2>2, <4>1, <1>1 DEF THead
    <3> QED BY <1>1, <1>3, <2>1, <2>2, <3>1 DEF Live
  <2>3. CASE Free
    <3>1. n \in Slots /\ rh' = [rh EXCEPT ![n] = rh[n] + 1] /\ k = rh[n]
      BY <1>1, <2>3, TakeEffect DEF Takes, Loaded, Free
    <3> QED BY <1>1, <1>3, <2>1, <2>3, <3>1 DEF Live, THead, TTail
  <2> QED BY <1>3, <2>2, <2>3, RecvHeads
<1> QED BY <1>2, <1>3

\* the queued messages are messages after a step of the owner
LEMMA RealsRecv ==
  ASSUME IInv, ReceiveStep \/ KillOwner, box' = box
  PROVE  Reals'
<1> SUFFICES ASSUME NEW c \in Slots, NEW i \in Nat, Live(c, i)' PROVE At(c, i)' \in Msgs
  BY Same DEF Reals, Real, Msgs
<1>1. rh[c] \in Nat
  BY DEF IInv, Types, THead
<1>2. \A j \in Nat : Live(c, j) => At(c, j) \in Msgs
  BY DEF IInv, Reals, Real
<1>3. i > rh[c] => i - 1 \in Nat
  BY <1>1
<1> QED BY LiveRecv, <1>2, <1>3

\* what the owner delivers was queued
LEMMA GotRecv ==
  ASSUME IInv, ReceiveStep \/ KillOwner
  PROVE  got' = got \/ ((Free \/ TakeInner) /\ got' = got \cup {At(n, k)} /\ At(n, k) \in Msgs
                         /\ n \in Slots /\ Live(n, k))
<1>1. Takes /\ Loaded /\ Reals /\ TPlace
  BY DEF IInv, Types
<1>2. Taking => n \in Slots /\ k \in Nat /\ Live(n, k) /\ At(n, k) \in Msgs
  BY <1>1 DEF Takes, TPlace, Live, Reals, Real
<1>3. CASE Free
  BY <1>1, <1>2, <1>3 DEF Free, Loaded, Taking
<1>4. CASE TakeInner
  BY <1>1, <1>2, <1>4 DEF TakeInner, Taking
<1>5. CASE ~Free /\ ~TakeInner
  BY <1>5 DEF ReceiveStep, Receive, LookAny, LookRes, Ask, Find, Avail, Tags, Block, AskAgain,
     Unblock, Resume,
              TakeHead, KillOwner
<1> QED BY <1>3, <1>4, <1>5

\* what Avail does
LEMMA AvailEffect ==
  ASSUME Avail
  PROVE  /\ rpc = "avail" /\ rtSeen' = [rtSeen EXCEPT ![n] = TailView(n)]
         /\ \/ TailView(n) # rh[n] /\ check /\ rpc' = "unblock" /\ n' = n /\ k' = k
            \/ TailView(n) # rh[n] /\ ~check /\ rpc' = "take" /\ n' = n /\ k' = rh[n]
            \/ TailView(n) = rh[n] /\ rpc' = "tags" /\ n' = 0 /\ k' = k
         /\ UNCHANGED <<op, check, sawDead, held, history, acb>>
BY DEF Avail

\* a channel the owner finds something in holds something
LEMMA ViewHolds ==
  ASSUME TTail, THead, Counted, NEW c \in Slots, TailView(c) # rh[c]
  PROVE  rh[c] < rt[c]
<1>1. Ordered(c) /\ rt[c] \in Nat /\ rh[c] \in Nat /\ rtSeen[c] \in Nat
  BY DEF TTail, THead, Counted
<1> QED BY <1>1 DEF Ordered, TailView

\* the oldest of some positions is one of them
LEMMA OldestIn ==
  ASSUME NEW R, R \subseteq Nat, R # {}
  PROVE  Oldest(R) \in R /\ \A j \in R : Oldest(R) <= j
BY FirstOf DEF Oldest

\* the step that starts to take a message, and what it has found
LEMMA Finding ==
  ASSUME IInv, LookAny \/ LookRes \/ Avail \/ Tags, box' = box
  PROVE  rpc' = "take" =>
           /\ ~check /\ check' = check /\ op' = op /\ n' \in Slots /\ Live(n', k')
           /\ UNCHANGED <<rh, rt, ring>>
<1> SUFFICES ASSUME rpc' = "take"
             PROVE  ~check /\ check' = check /\ op' = op /\ n' \in Slots /\ rh[n'] <= k'
                      /\ k' < rt[n']
  BY DEF Live, LookAny, LookRes, Avail, Tags
<1>1. /\ TTail /\ THead /\ TPlace /\ Counted /\ Looks /\ box \in Boxes /\ scan \in 0 .. D
           /\ n \in 0 .. SHIDX
      /\ rh \in [Slots -> Nat] /\ rt \in [Slots -> Nat]
  BY DEF IInv, Types, TPlace, TOwner, THead, TTail
<1>2. PICK c \in Slots : c = LookAt
  BY <1>1, LookSlot
<1>3. CASE LookAny
  <2>1. n' = c /\ k' = rh[c] /\ sender[c] # NoOne /\ LookView # rh[c] /\ ~check /\ op' = op
          /\ check' = check
    BY <1>2, <1>3, LookAnyEffect
  <2>2. LookView = TailView(c)
    BY <1>2, <2>1 DEF LookView
  <2>3. rh[c] < rt[c] /\ rh[c] \in Nat
    BY <1>1, <2>1, <2>2, ViewHolds
  <2> QED BY <2>1, <2>3
<1>4. CASE LookRes
  <2>1. n' = c /\ k' = Oldest(Answers(c)) /\ Answers(c) # {} /\ ~check /\ op' = op
          /\ check' = check
    BY <1>2, <1>4, LookResEffect
  <2>2. Answers(c) \subseteq rh[c] .. rt[c] - 1 /\ rh[c] \in Nat /\ rt[c] \in Nat
    BY <1>1 DEF Answers
  <2>3. Oldest(Answers(c)) \in Answers(c)
    BY <2>1, <2>2, OldestIn
  <2>4. PICK i \in rh[c] .. rt[c] - 1 : i = Oldest(Answers(c))
    BY <2>2, <2>3
  <2>5. i \in Nat /\ rh[c] <= i /\ i < rt[c]
    BY <2>2
  <2> QED BY <2>1, <2>2, <2>4, <2>5
<1>5. CASE Avail
  <2>1. n' = n /\ k' = rh[n] /\ TailView(n) # rh[n] /\ ~check /\ op' = op /\ check' = check
    BY <1>5, AvailEffect
  <2>2. n \in Slots
    BY <1>1, <1>5, Const DEF Looks, Avail
  <2>3. rh[n] < rt[n] /\ rh[n] \in Nat
    BY <1>1, <2>1, <2>2, ViewHolds
  <2> QED BY <2>1, <2>2, <2>3
<1>6. CASE Tags
  <2>1. n' = SHIDX /\ k' = Oldest(Tagged) /\ Tagged # {} /\ ~check /\ op' = op /\ check' = check
    BY <1>6, TagsEffect
  <2>2. PICK d \in Slots : d = SHIDX
    BY <1>1, Const
  <2>3. Tagged \subseteq rh[d] .. rt[d] - 1 /\ rh[d] \in Nat /\ rt[d] \in Nat
    BY <1>1, <2>2 DEF Tagged
  <2>4. Oldest(Tagged) \in Tagged
    <3>1. Tagged \subseteq Nat
      BY <2>3
    <3> QED BY <2>1, <3>1, OldestIn
  <2>5. rh[d] <= Oldest(Tagged) /\ Oldest(Tagged) < rt[d]
    <3>1. PICK i \in rh[d] .. rt[d] - 1 : i = Oldest(Tagged)
      BY <2>3, <2>4
    <3>2. i \in Nat /\ rh[d] <= i /\ i < rt[d]
      BY <2>3
    <3> QED BY <3>1, <3>2
  <2> QED BY <2>1, <2>2, <2>5
<1> QED BY <1>3, <1>4, <1>5, <1>6

\* what the owner is about to take is there, after its own step
LEMMA TakesRecv ==
  ASSUME IInv, ReceiveStep \/ KillOwner, box' = box
  PROVE  Takes' /\ Loaded'
<1>1. Takes /\ Loaded /\ TTail /\ THead /\ TPlace /\ UNCHANGED rt
  BY RecvLocals DEF IInv, Types
<1>2. CASE LookAny \/ LookRes \/ Avail \/ Tags
  <2>1. rpc' # "free"
    <3>1. CASE LookAny
      BY <3>1, LookAnyEffect
    <3>2. CASE LookRes
      BY <3>2, LookResEffect
    <3>3. CASE Avail \/ Tags
      BY <3>3, AvailEffect, TagsEffect
    <3> QED BY <1>2, <3>1, <3>2, <3>3
  <2> QED BY <1>2, <2>1, Finding, Same DEF Takes, Loaded, Taking, Live
<1>3. CASE TakeHead
  <2>1. rpc = "take" /\ rpc' = "free" /\ k = rh[n] /\ held' = At(n, k)
          /\ UNCHANGED <<chans, n, k, check>>
    BY <1>3 DEF TakeHead
  <2>2. Takes'
    BY <1>1, <2>1, Same DEF Takes, Taking
  <2>3. At(n, k)' = At(n, k)
    BY <2>1 DEF At
  <2> QED BY <2>1, <2>2, <2>3 DEF Loaded
<1>4. CASE KillOwner
  <2>1. UNCHANGED <<chans, recving>>
    BY <1>4 DEF KillOwner
  <2> QED BY <1>1, <2>1, Same DEF Takes, Taking, Loaded, At
<1>5. CASE Receive \/ Ask \/ Find \/ Block \/ AskAgain \/ Unblock \/ Resume \/ Free \/ TakeInner
  <2>1. rpc' \notin {"take", "free"}
    BY <1>5 DEF Receive, Ask, Find, Block, AskAgain, Unblock, Resume, Free, TakeInner
  <2> QED BY <2>1 DEF Takes, Loaded, Taking
<1> QED BY <1>2, <1>3, <1>4, <1>5 DEF ReceiveStep

\* where the head of a receive's loop leads
LEMMA TopEffect ==
  ASSUME NEW o, o.op \in {"receive", "receiveRes", "receiveFrom", "receiveFromRes"}, Top(o)
  PROVE  /\ check' = FALSE /\ sawDead' = FALSE
         /\ \/ o.op \in {"receive", "receiveRes"} /\ rpc' = "look" /\ n' = 0
            \/ o.op = "receiveFrom" /\ rpc' = "find" /\ n' = 1
            \/ o.op = "receiveFromRes" /\ rpc' = "ask" /\ n' = 0
OBVIOUS

\* where the owner stands, after its own step
LEMMA LooksRecv ==
  ASSUME IInv, ReceiveStep \/ KillOwner, box' = box
  PROVE  Looks'
<1>1. /\ Looks /\ TOp /\ box \in Boxes /\ n \in 0 .. SHIDX /\ UNCHANGED <<sender, dead>>
      /\ D \in Nat /\ D >= 1 /\ SHIDX = D + 1 /\ D' = D /\ SHIDX' = SHIDX
  BY RecvLocals, Const, Same DEF IInv, Types, TPlace
<1>2. op.op \in {"none", "receive", "receiveRes", "receiveFrom", "receiveFromRes"}
        /\ (op # Idle <=> op.op # "none")
  BY <1>1, Ops DEF TOp
<1>3. CASE Receive
  <2>1. PICK o \in box.ops : op' = o /\ Top(o)
    BY <1>3 DEF Receive
  <2>2. o.op \in {"receive", "receiveRes", "receiveFrom", "receiveFromRes"} /\ o # Idle
    BY <1>1, Ops DEF TOp, Idle
  <2> QED BY <1>1, <2>1, <2>2, TopEffect DEF Looks, Froms
<1>4. CASE Unblock \/ Resume
  <2>1. op' = op /\ Top(op) /\ op.op # "none" /\ op # Idle
    BY <1>1, <1>2, <1>4 DEF Unblock, Resume, Looks
  <2> QED BY <1>1, <1>2, <2>1, TopEffect DEF Looks, Froms
<1>5. CASE LookAny
  BY <1>1, <1>5, LookAnyEffect DEF Looks, Froms
<1>6. CASE LookRes
  BY <1>1, <1>6, LookResEffect DEF Looks, Froms
<1>7. CASE Tags
  <2>1. op.op \in Froms /\ op # Idle /\ UNCHANGED check
    BY <1>1, <1>7, TagsEffect DEF Looks
  <2>2. CASE rpc' = "idle"
    <3>1. sawDead' = FALSE
      BY <1>1, <1>7, <2>2, TagsEffect
    <3> QED BY <2>2, <3>1 DEF Looks
  <2>3. CASE rpc' # "idle"
    <3>1. op' = op /\ sawDead' = sawDead
            /\ rpc' \in {"unblock", "take", "block", "askAgain", "parked"}
      BY <1>7, <2>3, TagsEffect
    <3>2. rpc' = "askAgain" => op.op = "receiveFromRes"
      BY <1>7, TagsEffect
    <3> QED BY <1>1, <2>1, <3>1, <3>2 DEF Looks
  <2> QED BY <2>2, <2>3
<1>8. CASE Find
  BY <1>1, <1>2, <1>8 DEF Looks, Froms, Find
<1>9. CASE Avail
  BY <1>1, <1>2, <1>9, AvailEffect DEF Looks, Froms
<1>10. CASE Ask \/ AskAgain
  <2>1. CASE Ask
    <3>1. rpc' = "find" /\ n' = 1 /\ op' = op /\ op.op = "receiveFromRes" /\ op # Idle
      BY <1>1, <2>1 DEF Looks, Ask
    <3>2. sawDead' => op.who \in dead
      BY <2>1 DEF Ask
    <3>3. UNCHANGED <<sender, dead>> /\ op.op \in Froms /\ 1 \in 1 .. D
      BY <1>1, <3>1 DEF Froms
    <3> QED BY <1>1, <3>1, <3>2, <3>3 DEF Looks
  <2>2. CASE AskAgain
    BY <1>1, <2>2 DEF Looks, Froms, AskAgain
  <2> QED BY <1>10, <2>1, <2>2
<1>11. CASE Block
  BY <1>1, <1>2, <1>11 DEF Looks, Froms, Block
<1>12. CASE TakeHead \/ KillOwner
  BY <1>1, <1>12 DEF Looks, Froms, TakeHead, KillOwner
<1>13. CASE Free \/ TakeInner
  BY <1>1, <1>13 DEF Looks, Froms, Free, TakeInner
<1> QED BY <1>3, <1>4, <1>5, <1>6, <1>7, <1>8, <1>9, <1>10, <1>11, <1>12, <1>13 DEF ReceiveStep

\* the invariant holds of a fresh mailbox
LEMMA InitInv ==
  ASSUME Init
  PROVE  IInv
<1>1. /\ box \in Boxes /\ D \in Nat /\ D >= 1 /\ SHIDX = D + 1 /\ SHIDX \in Nat
           /\ Slots = 1 .. SHIDX
      /\ SHIDX \in Slots /\ 1 .. D \subseteq Slots /\ box.cap \in Nat \ {0}
           /\ NoOne \notin Senders
  BY Const DEF Init
<1>2. Types
  <2>1. TKeys /\ TTail /\ THead /\ TPassed
    BY <1>1 DEF Init, TKeys, TTail, THead, TPassed
  <2>2. TOwner /\ TRecv /\ TOp /\ TPlace
    BY <1>1 DEF Init, TOwner, TRecv, TOp, TPlace
  <2>4. TDeaths
    BY DEF Init, TDeaths
  <2>3. TSpc /\ TSend /\ TChan /\ TCand
    BY <1>1 DEF Init, TSpc, TSend, TChan, TCand
  <2> QED BY <1>1, <2>1, <2>2, <2>3, <2>4 DEF Types
<1>3. \A c \in Slots : ring[c] = [cap |-> box.cap, slot |-> [i \in 0 .. box.cap - 1 |-> NoMsg]]
  BY DEF Init
<1>4. Stored
  BY <1>1, <1>3 DEF Init, Stored, Stores
<1>5. Counted
  BY <1>1, <1>3 DEF Init, Counted, Ordered
<1>6. Keys
  BY <1>1 DEF Init, Keys
<1>7. OneSlot
  BY <1>1 DEF Init, OneSlot
<1>8. Producers
  BY <1>1 DEF Init, Producers, Due, Scans, Cands, Owns, Holds, Grows, Filled, Resolved,
     Holding
<1>9. Reals
  BY <1>1 DEF Init, Reals, Real, Live
<1>10. Takes /\ Loaded /\ Looks /\ got \subseteq Msgs
  BY <1>1 DEF Init, Takes, Loaded, Looks, Taking
<1> QED BY <1>2, <1>4, <1>5, <1>6, <1>7, <1>8, <1>9, <1>10 DEF IInv

\* a slot once overrun has been overrun for good
LEMMA OverrunStays == overrun /\ [Next]_vars => overrun'
<1> SUFFICES ASSUME overrun, [Next]_vars PROVE overrun'
  OBVIOUS
<1>1. ASSUME NEW s \in Senders, Act(s) PROVE overrun'
  <2>1. CASE Claim(s)
    BY <2>1, ClaimEffect
  <2> QED BY <1>1, <2>1, DeathsSend
<1>2. CASE ReceiveStep \/ KillOwner
  BY <1>2, RecvLocals
<1>3. CASE UNCHANGED vars
  BY <1>3 DEF vars
<1> QED BY <1>1, <1>2, <1>3 DEF Next, Step, Act

\* and every step that overruns no slot keeps it
LEMMA StepInv ==
  ASSUME IInv, ~overrun', [Next]_vars
  PROVE  IInv'
<1>1. CASE Next
  <2>1. box' = box /\ box \in Boxes
    BY <1>1 DEF Next, IInv, Types
  <2>2. CASE \E s \in Senders : Act(s)
    <3>1. PICK s \in Senders : Act(s)
      BY <2>2
    <3>2. /\ TSpc /\ TSend /\ TChan /\ TCand /\ TKeys /\ TTail /\ THead /\ Keys
          /\ \A t \in Senders : Due(t) /\ Scans(t) /\ Cands(t) /\ Owns(t)
      BY DEF IInv, Types, Producers
    <3>3. Types' /\ Stored' /\ Counted'
      BY <2>1, <3>1, TypesSend, RingsSend, CountedSend
    <3>4. Keys' /\ OneSlot'
      BY <2>1, <3>1, <3>2, KeysSend, OneSlotSend
    <3>5. Producers'
      <4> SUFFICES ASSUME NEW t \in Senders
                   PROVE  Due(t)' /\ Scans(t)' /\ Cands(t)' /\ Owns(t)' /\ Holds(t)'
                            /\ Grows(t)' /\ Filled(t)'
        BY DEF Producers
      <4>1. Due(t)' /\ Scans(t)'
        BY <2>1, <3>1, <3>2, DueSend, ScansSend
      <4>2. Cands(t)' /\ Owns(t)'
        BY <2>1, <3>1, <3>2, CandsSend, OwnsSend
      <4>3. Holds(t)' /\ Grows(t)' /\ Filled(t)'
        BY <2>1, <3>1, HoldsSend, GrowsSend, FilledSend
      <4> QED BY <4>1, <4>2, <4>3
    <3>6. Reals' /\ Takes' /\ Loaded' /\ Looks'
      BY <2>1, <3>1, RealsSend, OwnerSend
    <3>7. (got \subseteq Msgs)'
      BY <3>1, SendLocals DEF IInv, Msgs
    <3> QED BY <3>3, <3>4, <3>5, <3>6, <3>7 DEF IInv
  <2>3. CASE ReceiveStep \/ KillOwner
    <3>1. Types' /\ Stored' /\ Counted' /\ Keys' /\ OneSlot' /\ Producers'
      BY <2>1, <2>3, TypesRecv, StoredRecv, CountedRecv, ProducersRecv
    <3>2. Reals' /\ Takes' /\ Loaded' /\ Looks'
      BY <2>1, <2>3, RealsRecv, TakesRecv, LooksRecv
    <3>3. (got \subseteq Msgs)'
      BY <2>3, GotRecv DEF IInv, Msgs
    <3> QED BY <3>1, <3>2, <3>3 DEF IInv
  <2> QED BY <1>1, <2>2, <2>3 DEF Next, Step, Act
<1>2. CASE UNCHANGED vars
  <2>1. UNCHANGED <<box, chans, shlock, acb, sending, deaths, recving, history>>
    BY <1>2 DEF vars
  <2>2. Types'
    BY <2>1, Same DEF IInv, Types, TKeys, TTail, THead, TPassed, TOwner, TDeaths, TSpc, TSend,
       TChan, TCand, TRecv, TOp, TPlace
  <2>3. Stored' /\ Counted' /\ Keys' /\ OneSlot' /\ (got \subseteq Msgs)'
    BY <2>1, Same DEF IInv, Stored, Stores, Counted, Ordered, Keys, OneSlot, Msgs
  <2>4. Producers'
    BY <2>1, Same DEF IInv, Producers, Due, Scans, Cands, Owns, Holds, Grows, Filled, At
  <2>5. Reals' /\ Takes' /\ Loaded' /\ Looks'
    BY <2>1, Same DEF IInv, Reals, Real, Live, Takes, Taking, Loaded, Looks, At, Msgs
  <2> QED BY <2>2, <2>3, <2>4, <2>5 DEF IInv
<1> QED BY <1>1, <1>2

\* The invariant of the mailbox: every claim a sender or the owner makes without a lock
\* (chan_for, ring_push, take_at) stays true until it acts on it, whoever is killed and
\* wherever it stands, as long as no slot has been claimed from a killed sender that still
\* uses it.
THEOREM InductiveInvariant == Spec => [](~overrun => IInv)
<1>1. Init => (~overrun => IInv)
  BY InitInv
<1>2. (~overrun => IInv) /\ [Next]_vars => (~overrun => IInv)'
  BY StepInv, OverrunStays
<1> QED BY <1>1, <1>2, PTL DEF Spec

\* the invariant says all that RingsSound does
LEMMA Implied == (~overrun => IInv) => RingsSound
<1> SUFFICES ASSUME IInv PROVE TypeOK /\ OneSlot /\ OneWriter
  BY DEF RingsSound
<1>1. CountersOK
  BY DEF IInv, Types, TTail, THead, Stored, Stores, Counted, Ordered, CountersOK
<1>2. TypeOK
  BY <1>1 DEF IInv, Types, TKeys, TOwner, TDeaths, TSpc, TChan, TRecv, TypeOK
<1>3. OneWriter
  <2> SUFFICES ASSUME NEW s \in Senders, NEW t \in Senders \ {s}, spc[s] \in Holding,
                      spc[t] \in Holding, chan[s] = chan[t]
               PROVE  FALSE
    BY DEF OneWriter, Holding
  <2>1. Owns(s) /\ Owns(t) /\ Holds(s) /\ Holds(t)
    BY DEF IInv, Producers
  <2>2. chan[s] = SHIDX
    BY <2>1, OneProducer DEF Holding, Resolved
  <2> QED BY <2>1, <2>2 DEF Holds
<1> QED BY <1>2, <1>3 DEF IInv

\* The rings are sound: no counter passes another it must not pass, no ring holds more
\* than its slots, no sender owns two and none has two writers, however claims, reclaims,
\* growth, takes and deaths race, until a slot is claimed from a killed sender that still
\* uses it.
THEOREM RingsSoundHolds == Spec => []RingsSound
<1>1. (~overrun => IInv) => RingsSound
  BY Implied
<1> QED BY <1>1, InductiveInvariant, PTL

-----------------------------------------------------------------------------

USE DEF chans, acb, sending, deaths, recving, history, SGoto, Sent, Top, Found, Missed,
        Answer, Selective

\* how far channel c is from the start of receive's scan
Dist(c) == IF c - 1 >= scan THEN c - 1 - scan ELSE c - 1 - scan + SHIDX

\* a channel with a message has been passed at most as often as the scan has
\* come nearer to it; the channel just chosen is now the farthest
Turns ==
  /\ \A c \in Slots : passed[c] > 0 => rh[c] # rt[c]
  /\ \A c \in Slots : passed[c] <= D
  /\ \A c \in Slots : ~(Taking /\ op.op = "receive") => passed[c] <= D - Dist(c)
  /\ Taking /\ op.op = "receive" =>
       /\ Dist(n) = D
       /\ \A c \in Slots \ {n} : passed[c] + 1 <= D - Dist(c)
  /\ rpc = "look" /\ op.op = "receive" /\ ~check =>
       n <= D /\ \A c \in Slots : Dist(c) < n => passed[c] = 0

\* channel c is behind the look in progress
Seen(c) ==
  \/ rpc = "look" /\ c <= n
  \/ rpc = "find" /\ c < n
  \/ rpc = "avail" /\ c # n /\ c # SHIDX
  \/ rpc = "tags" /\ c # SHIDX
  \/ rpc \in {"askAgain", "parked"}

\* the owner has been woken, or someone is about to wake it
Wakened == status # "BLOCKED" \/ (\E s \in Senders : spc[s] = "wake") \/ watch \in mourn

\* message m answers the receive in progress
Wants(m) ==
  CASE op.op = "receive"    -> TRUE
    [] op.op = "receiveRes" -> m \in Results
    [] OTHER                -> m.from = op.who

\* when the owner is in the predicate of block_unless, and what it has set by then
Checks ==
  /\ rpc \in {"parked", "askAgain"} => check
  /\ check => /\ rpc \in {"look", "find", "avail", "tags", "askAgain", "parked", "unblock"}
              /\ ~sawDead
  /\ rpc = "block" => ~sawDead
  /\ (check \/ rpc = "block") /\ op.op = "receiveFromRes" => watch = op.who

\* a dedicated channel holds messages of the sender it is bound to only
Bound == \A c \in 1 .. D, i \in Nat : Live(c, i) => At(c, i).from = sender[c]

\* a wanted message that the second look has missed, or a watched death that
\* its last question has missed, wakes the owner
Heard ==
  /\ check => \A c \in Slots, i \in Nat : Seen(c) /\ Live(c, i) /\ Wants(At(c, i)) => Wakened
  /\ rpc = "parked" /\ op.op = "receiveFromRes" /\ op.who \in dead => Wakened

-----------------------------------------------------------------------------
\* division with remainder
LEMMA Quotient ==
  ASSUME NEW a \in Nat, NEW c \in Nat \ {0}
  PROVE  a = c * (a \div c) + (a % c) /\ a \div c \in Int
<1> DEFINE p == a \div c
<1>1. p \in Int
  OBVIOUS
<1>2. a = c * p + (a % c)
  OBVIOUS
<1> QED BY <1>1, <1>2

\* the remainder of a number below twice the divisor
LEMMA ModTwice ==
  ASSUME NEW a \in Nat, NEW c \in Nat \ {0}, a < 2 * c
  PROVE  a % c = IF a < c THEN a ELSE a - c
<1>1. CASE a < c
  <2>1. a % c \in 0 .. c - 1 /\ a = c * (a \div c) + (a % c) /\ a \div c \in Int
    BY Quotient, ModRange
  <2>2. a \div c = 0
    <3>1. ~(a \div c >= 1)
      <4> SUFFICES ASSUME a \div c >= 1 PROVE FALSE
        OBVIOUS
      <4> QED BY <1>1, <2>1, MulGrows
    <3>2. ~(a \div c <= -1)
      <4> SUFFICES ASSUME a \div c <= -1 PROVE FALSE
        OBVIOUS
      <4>1. c * (-(a \div c)) >= c
        BY <2>1, MulGrows
      <4>2. c * (-(a \div c)) = -(c * (a \div c))
        BY <2>1
      <4> QED BY <2>1, <4>1, <4>2
    <3> QED BY <2>1, <3>1, <3>2
  <2> QED BY <1>1, <2>1, <2>2
<1>2. CASE ~(a < c)
  <2>1. a - c \in Nat /\ a - c < c /\ a % c \in 0 .. c - 1
    BY <1>2
  <2>2. a = c * (a \div c) + (a % c) /\ a \div c \in Int
    BY Quotient
  <2>3. a \div c = 1
    <3> DEFINE q == a \div c
    <3>1. c * q = c * (q - 1) + c
      BY <2>2
    <3>2. ~(q - 1 >= 1)
      <4> SUFFICES ASSUME q - 1 >= 1 PROVE FALSE
        OBVIOUS
      <4>1. c * (q - 1) >= c
        BY <2>2, MulGrows
      <4> QED BY <2>1, <2>2, <3>1, <4>1
    <3>3. ~(q - 1 <= -1)
      <4> SUFFICES ASSUME 1 - q >= 1 PROVE FALSE
        BY <2>2
      <4>1. c * (1 - q) >= c
        BY <2>2, MulGrows
      <4>2. c * (1 - q) = c - c * q
        BY <2>2
      <4> QED BY <1>2, <2>1, <2>2, <4>1, <4>2
    <3> QED BY <2>2, <3>2, <3>3
  <2> QED BY <1>2, <2>1, <2>2, <2>3
<1> QED BY <1>1, <1>2

\* a number below the divisor is its own remainder
LEMMA ModSmall ==
  ASSUME NEW a \in Nat, NEW c \in Nat \ {0}, a < c
  PROVE  a % c = a
BY ModTwice

\* the channel at distance n of the scan is the one it looks at
LEMMA LookDist ==
  ASSUME box \in Boxes, scan \in 0 .. D, n \in 0 .. D, ~check
  PROVE  LookAt \in Slots /\ \A c \in Slots : Dist(c) = n <=> c = LookAt
<1>1. SHIDX \in Nat \ {0} /\ D = SHIDX - 1 /\ Slots = 1 .. SHIDX
  BY Const
<1>2. LookAt = (IF scan + n < SHIDX THEN scan + n ELSE scan + n - SHIDX) + 1
  <2>0. PICK a \in Nat : a = scan + n
    BY <1>1
  <2>1. a < 2 * SHIDX
    BY <1>1, <2>0
  <2>2. LookAt = (a % SHIDX) + 1
    BY <2>0 DEF LookAt
  <2>3. a % SHIDX = IF a < SHIDX THEN a ELSE a - SHIDX
    BY <1>1, <2>1, ModTwice
  <2> QED BY <1>1, <2>0, <2>1, <2>2, <2>3
<1> QED BY <1>1, <1>2 DEF Dist

\* after a plain receive has chosen channel c the scan starts behind it
LEMMA Turned ==
  ASSUME box \in Boxes, box' = box, scan \in 0 .. D, n \in 0 .. D, NEW c \in Slots, Dist(c) = n,
         scan' = c % SHIDX
  PROVE  /\ Dist(c)' = D
         /\ \A d \in Slots \ {c} : Dist(d)' <= D - 1
                                   /\ (Dist(d) > n => Dist(d)' = Dist(d) - n - 1)
<1>1. SHIDX \in Nat \ {0} /\ D = SHIDX - 1 /\ Slots = 1 .. SHIDX /\ D' = D /\ SHIDX' = SHIDX
  BY Const, Same
<1>2. scan' = IF c < SHIDX THEN c ELSE c - SHIDX
  <2>1. c \in Nat /\ c < 2 * SHIDX
    BY <1>1
  <2> QED BY <1>1, <2>1, ModTwice
<1> QED BY <1>1, <1>2 DEF Dist

\* a distance is at most D
LEMMA DistRange ==
  ASSUME box \in Boxes, scan \in 0 .. D, NEW c \in Slots
  PROVE  Dist(c) \in 0 .. D /\ D \in Nat
BY Const DEF Dist

\* only a delivery moves a head or the counts, and only receive's look the scan's start
LEMMA PassedRecv ==
  ASSUME ReceiveStep \/ KillOwner, ~Free, ~TakeInner
  PROVE  UNCHANGED <<rt, rh, passed>> /\ (scan' = scan \/ LookAny)
<1>1. UNCHANGED <<passed, rh>>
  <2>1. CASE Receive \/ LookAny \/ LookRes \/ Ask \/ Find \/ Avail
    BY <2>1 DEF Receive, LookAny, LookRes, Ask, Find, Avail
  <2>2. CASE Tags \/ Block \/ AskAgain \/ Unblock \/ Resume \/ TakeHead \/ KillOwner
    BY <2>2 DEF Tags, Block, AskAgain, Unblock, Resume, TakeHead, KillOwner
  <2> QED BY <2>1, <2>2 DEF ReceiveStep
<1>2. scan' = scan \/ LookAny
  <2>1. CASE Receive \/ LookRes \/ Ask \/ Find \/ Avail
    BY <2>1 DEF Receive, LookRes, Ask, Find, Avail
  <2>2. CASE Tags \/ Block \/ AskAgain \/ Unblock \/ Resume \/ TakeHead \/ KillOwner
    BY <2>2 DEF Tags, Block, AskAgain, Unblock, Resume, TakeHead, KillOwner
  <2> QED BY <2>1, <2>2 DEF ReceiveStep
<1> QED BY <1>1, <1>2, RecvLocals

\* a scan that finds nothing at a channel has found it empty
LEMMA Nothing ==
  ASSUME IInv, LookAt \in Slots, ~(sender[LookAt] # NoOne /\ LookView # rh[LookAt])
  PROVE  rh[LookAt] = rt[LookAt]
<1>1. PICK c \in Slots : c = LookAt
  OBVIOUS
<1>2. Keys /\ rt[c] \in Nat /\ rh[c] \in Nat /\ rtSeen[c] \in Nat /\ box \in Boxes
  BY DEF IInv, Types, TTail, THead
<1>3. CASE sender[c] = NoOne
  <2>1. c # SHIDX
    BY <1>2, <1>3, MailboxAssumption DEF Keys, SHARED
  <2> QED BY <1>1, <1>2, <1>3, <2>1, Const DEF Keys
<1>4. CASE sender[c] # NoOne
  <2>1. TailView(c) = rh[c]
    BY <1>1, <1>4 DEF LookView
  <2> QED BY <1>1, <1>2, <2>1 DEF TailView
<1> QED BY <1>3, <1>4

\* a look of receive keeps the turns: what it passes over is empty
LEMMA TurnsLook ==
  ASSUME IInv, Turns, LookAny, box' = box
  PROVE  Turns'
<1>1. /\ box \in Boxes /\ scan \in 0 .. D /\ n \in 0 .. D /\ D \in Nat /\ SHIDX = D + 1
           /\ passed \in [Slots -> Nat]
      /\ rpc = "look" /\ op.op = "receive" /\ op' = op /\ check' = check
           /\ UNCHANGED <<rt, rh, passed>>
      /\ D' = D /\ Slots' = Slots /\ SHIDX' = SHIDX
  <2>1. Types /\ Looks
    BY DEF IInv
  <2>2. n \in 0 .. SHIDX /\ scan \in 0 .. D /\ box \in Boxes /\ passed \in [Slots -> Nat]
    BY <2>1 DEF Types, TPlace, TOwner, TPassed
  <2>3. rpc = "look" /\ op.op = "receive" /\ op' = op /\ check' = check
    BY LookAnyEffect
  <2>4. UNCHANGED <<rt, rh, passed>>
    BY DEF LookAny
  <2> QED BY <2>1, <2>2, <2>3, <2>4, Const, Same DEF Looks
<1>2. /\ \A c \in Slots : passed[c] > 0 => rh[c] # rt[c]
      /\ \A c \in Slots : passed[c] <= D
      /\ \A c \in Slots : passed[c] <= D - Dist(c)
      /\ ~check => \A c \in Slots : Dist(c) < n => passed[c] = 0
  BY <1>1 DEF Turns, Taking
<1>3. \A c \in Slots : Dist(c) \in 0 .. D
  BY <1>1, DistRange
<1>4. CASE sender[LookAt] # NoOne /\ LookView # rh[LookAt] /\ ~check
  <2>1. rpc' = "take" /\ n' = LookAt /\ scan' = LookAt % SHIDX
    BY <1>4, LookAnyEffect
  <2>2. PICK c \in Slots : c = LookAt /\ Dist(c) = n /\ \A d \in Slots : Dist(d) = n => d = c
    BY <1>1, <1>4, LookDist
  <2>3. /\ Dist(c)' = D
        /\ \A d \in Slots \ {c} : Dist(d)' <= D - 1
             /\ (Dist(d) > n => Dist(d)' = Dist(d) - n - 1)
    BY <1>1, <2>1, <2>2, Turned
  <2>4. ASSUME NEW d \in Slots \ {c} PROVE passed[d] + 1 <= D - Dist(d)'
    <3>1. CASE Dist(d) < n
      <4>1. Dist(d)' \in Int
        <5>1. scan' \in 0 .. D'
          BY <1>1, <2>1, <2>2, Const, LookSlot
        <5> QED BY <1>1, <5>1, Const DEF Dist
      <4> QED BY <1>1, <1>2, <1>4, <2>3, <3>1, <4>1
    <3>2. CASE Dist(d) > n
      BY <1>1, <1>2, <1>3, <2>3, <3>2
    <3> QED BY <1>1, <1>3, <2>2, <3>1, <3>2
  <2>5. Dist(n)' = D /\ n' = c
    BY <2>1, <2>2, <2>3 DEF Dist
  <2>7. Taking' /\ op'.op = "receive" /\ rpc' # "look"
    BY <1>1, <2>1 DEF Taking
  <2> QED BY <1>1, <1>2, <2>4, <2>5, <2>7 DEF Turns
<1>5. CASE ~(sender[LookAt] # NoOne /\ LookView # rh[LookAt]) /\ n < D
  <2>1. rpc' = "look" /\ n' = n + 1 /\ scan' = scan
    BY <1>1, <1>5, LookAnyEffect
  <2>2. ~check => \A d \in Slots : Dist(d) < n + 1 => passed[d] = 0
    <3> SUFFICES ASSUME ~check, NEW d \in Slots, Dist(d) < n + 1 PROVE passed[d] = 0
      OBVIOUS
    <3>1. CASE Dist(d) < n
      BY <1>2, <3>1
    <3>2. CASE Dist(d) = n
      <4>1. d = LookAt
        BY <1>1, <3>2, LookDist
      <4>2. rh[d] = rt[d]
        BY <1>5, <4>1, Nothing
      <4> QED BY <1>1, <1>2, <4>2
    <3> QED BY <1>1, <1>3, <3>1, <3>2
  <2>3. \A d \in Slots : Dist(d)' = Dist(d)
    BY <1>1, <2>1 DEF Dist
  <2>4. ~Taking'
    BY <2>1 DEF Taking
  <2>5. n + 1 <= D
    BY <1>1, <1>5
  <2> QED BY <1>1, <1>2, <2>1, <2>2, <2>3, <2>4, <2>5 DEF Turns
<1>6. CASE ~(sender[LookAt] # NoOne /\ LookView # rh[LookAt] /\ ~check)
           /\ ~(~(sender[LookAt] # NoOne /\ LookView # rh[LookAt]) /\ n < D)
  <2>1. rpc' \notin {"look", "take", "free"} /\ scan' = scan
    BY <1>1, <1>6, LookAnyEffect
  <2>3. \A d \in Slots : Dist(d)' = Dist(d)
    BY <1>1, <2>1 DEF Dist
  <2> QED BY <1>1, <1>2, <2>1, <2>3 DEF Turns, Taking
<1> QED BY <1>4, <1>5, <1>6

\* a delivery counts one turn for every channel that waits
LEMMA TurnsTake ==
  ASSUME IInv, Turns, Free \/ TakeInner, box' = box
  PROVE  Turns'
<1>1. /\ box \in Boxes /\ scan \in 0 .. D /\ D \in Nat /\ passed \in [Slots -> Nat]
           /\ n \in Slots
      /\ rh \in [Slots -> Nat] /\ D' = D /\ Slots' = Slots /\ SHIDX' = SHIDX
  <2>1. Types /\ Takes
    BY DEF IInv
  <2>2. scan \in 0 .. D /\ box \in Boxes /\ passed \in [Slots -> Nat] /\ rh \in [Slots -> Nat]
    BY <2>1 DEF Types, TOwner, TPassed, THead
  <2>3. n \in Slots
    BY <2>1, TakeEffect DEF Takes
  <2> QED BY <2>2, <2>3, Const, Same
<1>2. /\ passed' = [c \in Slots |->
           IF c = n \/ rh[c] = rt[c] THEN 0
           ELSE IF op.op = "receive" THEN passed[c] + 1 ELSE passed[c]]
      /\ rpc' = "idle" /\ scan' = scan /\ Taking
      /\ UNCHANGED rt /\ rh' = [rh EXCEPT ![n] = @ + 1]
  <2>1. CASE Free
    BY <2>1 DEF Free, Taking
  <2>2. CASE TakeInner
    BY <2>2 DEF TakeInner, Taking
  <2> QED BY <2>1, <2>2
<1>3. \A c \in Slots : Dist(c) \in 0 .. D /\ Dist(c)' = Dist(c)
  BY <1>1, <1>2, DistRange DEF Dist
<1>4. ASSUME NEW c \in Slots
      PROVE  (passed'[c] > 0 => rh'[c] # rt'[c]) /\ passed'[c] <= D - Dist(c) /\ passed'[c] <= D
  <2>1. CASE c = n \/ rh[c] = rt[c]
    <3>1. passed'[c] = 0
      BY <1>2, <2>1
    <3> QED BY <1>1, <1>3, <3>1
  <2>2. CASE c # n /\ rh[c] # rt[c]
    <3>1. rh'[c] # rt'[c]
      BY <1>1, <1>2, <2>2
    <3>2. CASE op.op = "receive"
      <4>1. passed'[c] = passed[c] + 1 /\ passed[c] + 1 <= D - Dist(c)
        BY <1>2, <2>2, <3>2 DEF Turns
      <4> QED BY <1>1, <1>3, <3>1, <4>1
    <3>3. CASE op.op # "receive"
      <4>1. passed'[c] = passed[c] /\ passed[c] <= D - Dist(c)
        BY <1>2, <2>2, <3>3 DEF Turns
      <4> QED BY <1>1, <1>3, <3>1, <4>1
    <3> QED BY <3>2, <3>3
  <2> QED BY <2>1, <2>2
<1> QED BY <1>1, <1>2, <1>3, <1>4 DEF Turns, Taking

\* the other steps of the owner choose no channel for receive
LEMMA TurnsOther ==
  ASSUME IInv, Turns, ReceiveStep \/ KillOwner, ~LookAny, ~Free, ~TakeInner, box' = box
  PROVE  Turns'
<1>1. UNCHANGED <<rt, rh, passed, scan>> /\ D' = D /\ Slots' = Slots /\ SHIDX' = SHIDX
        /\ D \in Nat /\ scan \in 0 .. D /\ box \in Boxes
  BY PassedRecv, Same, Const DEF IInv, Types, TOwner
<1>2. \A c \in Slots : Dist(c) \in 0 .. D /\ Dist(c)' = Dist(c)
  BY <1>1, DistRange DEF Dist
<1>3. CASE TakeHead \/ KillOwner
  <2>1. UNCHANGED <<op, n, check>> /\ (Taking' <=> Taking) /\ (rpc' = "look" => rpc = "look")
    BY <1>3 DEF TakeHead, KillOwner, Taking
  <2>2. Dist(n)' = Dist(n)
    BY <1>1, <2>1 DEF Dist
  <2> QED BY <1>1, <1>2, <2>1, <2>2 DEF Turns
<1>4. CASE ~TakeHead /\ ~KillOwner
  <2>1. ~(Taking /\ op.op = "receive")
    BY <1>4 DEF ReceiveStep, Receive, LookRes, Ask, Find, Avail, Tags, Block, AskAgain, Unblock,
       Resume, Taking
  <2>2. Taking' => op'.op # "receive"
    <3>1. CASE LookRes
      BY <3>1, LookResEffect DEF Taking
    <3>2. CASE Avail \/ Tags
      <4>1. op.op # "receive"
        BY <3>2, AvailEffect, TagsEffect DEF IInv, Looks, Froms
      <4> QED BY <3>2, <4>1, AvailEffect, TagsEffect DEF Taking
    <3>3. CASE Receive \/ Ask \/ Find \/ Block \/ AskAgain \/ Unblock \/ Resume
      BY <3>3 DEF Receive, Ask, Find, Block, AskAgain, Unblock, Resume, Taking
    <3> QED BY <1>4, <3>1, <3>2, <3>3 DEF ReceiveStep
  <2>3. rpc' = "look" /\ op'.op = "receive" /\ ~check' => n' = 0
    <3>1. CASE LookRes
      BY <3>1, LookResEffect
    <3>2. CASE Avail \/ Tags
      BY <3>2, AvailEffect, TagsEffect
    <3>3. CASE Receive \/ Ask \/ Find \/ Block \/ AskAgain \/ Unblock \/ Resume
      BY <3>3 DEF Receive, Ask, Find, Block, AskAgain, Unblock, Resume
    <3> QED BY <1>4, <3>1, <3>2, <3>3 DEF ReceiveStep
  <2>4. /\ \A c \in Slots : passed[c] > 0 => rh[c] # rt[c]
        /\ \A c \in Slots : passed[c] <= D
        /\ \A c \in Slots : passed[c] <= D - Dist(c)
    BY <2>1 DEF Turns
  <2> QED BY <1>1, <1>2, <2>2, <2>3, <2>4 DEF Turns
<1> QED BY <1>3, <1>4

\* a sender's step empties no channel
LEMMA TurnsSend ==
  ASSUME IInv, Turns, NEW s \in Senders, Act(s), box' = box
  PROVE  Turns'
<1>1. UNCHANGED <<scan, rh, rpc, op, check, n, passed>> /\ D' = D /\ Slots' = Slots
        /\ SHIDX' = SHIDX
  BY SendLocals, Same
<1>2. \A c \in Slots : rh[c] # rt[c] => rh[c] # rt'[c]
  <2> SUFFICES ASSUME NEW c \in Slots, rh[c] # rt[c] PROVE rh[c] # rt'[c]
    OBVIOUS
  <2>1. TTail /\ THead /\ TChan /\ Counted
    BY DEF IInv, Types
  <2>2. CASE Publish(s)
    <3>1. chan[s] \in Slots /\ rt' = [rt EXCEPT ![chan[s]] = rt[chan[s]] + 1]
      BY <2>1, <2>2, Published DEF TChan
    <3> QED BY <2>1, <3>1 DEF TTail, THead, Counted, Ordered
  <2> QED BY <2>2, TailsSend
<1>3. \A c : Dist(c)' = Dist(c)
  BY <1>1 DEF Dist
<1>4. Dist(n)' = Dist(n)
  BY <1>1 DEF Dist
<1> QED BY <1>1, <1>2, <1>3, <1>4 DEF Turns, Taking

\* "fair receive: round-robin over channels" (a_receive), until a slot is claimed from a
\* killed sender that still uses it
THEOREM FairTurnsHolds == Spec => []FairTurns
<1>1. Init => Turns
  <2> SUFFICES ASSUME Init PROVE Turns
    OBVIOUS
  <2>1. box \in Boxes /\ scan \in 0 .. D /\ passed = [c \in Slots |-> 0]
    BY Const DEF Init
  <2>2. \A c \in Slots : Dist(c) \in 0 .. D /\ D \in Nat
    BY <2>1, DistRange
  <2>3. rpc = "idle"
    BY DEF Init
  <2> QED BY <2>1, <2>2, <2>3, Const DEF Turns, Taking
<1>2. IInv /\ Turns /\ [Next]_vars => Turns'
  <2> SUFFICES ASSUME IInv, Turns, [Next]_vars PROVE Turns'
    OBVIOUS
  <2>1. CASE UNCHANGED vars
    <3>1. UNCHANGED <<box, rt, rh, scan, rpc, op, check, n, passed>>
      BY <2>1 DEF vars
    <3> QED BY <3>1, Same DEF Turns, Taking, Dist
  <2>2. CASE Next
    <3>1. box' = box
      BY <2>2 DEF Next
    <3>2. CASE ReceiveStep \/ KillOwner
      BY <3>1, <3>2, TurnsLook, TurnsTake, TurnsOther
    <3>3. CASE \E s \in Senders : Act(s)
      BY <3>1, <3>3, TurnsSend
    <3> QED BY <2>2, <3>2, <3>3 DEF Next, Step, Act
  <2> QED BY <2>1, <2>2
<1>3. (~overrun => IInv /\ Turns) /\ [Next]_vars => (~overrun => IInv /\ Turns)'
  BY <1>2, StepInv, OverrunStays
<1>4. Init => (~overrun => IInv /\ Turns)
  BY <1>1, InitInv
<1>5. (~overrun => IInv /\ Turns) => FairTurns
  BY DEF Turns, FairTurns
<1> QED BY <1>3, <1>4, <1>5, PTL DEF Spec

\* a channel is claimed empty, and only its owner publishes on it
LEMMA BoundSend ==
  ASSUME IInv, Bound, NEW s \in Senders, Act(s), box' = box, ~overrun'
  PROVE  Bound'
<1> SUFFICES ASSUME NEW c \in 1 .. D, NEW i \in Nat, Live(c, i)'
                      PROVE At(c, i)'.from = sender'[c]
  BY Same DEF Bound
<1>1. c \in Slots /\ c # SHIDX /\ TKeys /\ TCand /\ TChan /\ Scans(s) /\ Owns(s)
        /\ TTail /\ THead
  BY Const DEF IInv, Types, Producers
<1>2. CASE Publish(s) /\ c = chan[s] /\ At(c, i)' = [from |-> s, no |-> nsent[s] + 1]
  <2>1. sender[c] = s /\ sender' = sender
    BY <1>1, <1>2, PublishEffect DEF Owns, Resolved
  <2> QED BY <1>2, <2>1
<1>3. CASE Live(c, i) /\ At(c, i)' = At(c, i)
  <2>1. At(c, i).from = sender[c]
    BY <1>3 DEF Bound
  <2>2. sender'[c] = sender[c]
    <3>1. CASE Claim(s) /\ sender[cand[s][1]] = cand[s][2]
                 /\ sender' = [sender EXCEPT ![cand[s][1]] = s]
      <4>1. ~StillUses(cand[s][2], cand[s][1])
        BY <3>1 DEF Claim
      <4>2. rt[cand[s][1]] = rh[cand[s][1]]
        BY <4>1 DEF StillUses
      <4>3. cand[s][1] # c
        BY <1>1, <1>3, <4>2 DEF Live, TTail, THead
      <4> QED BY <3>1, <4>3, <1>1 DEF TKeys
    <3> QED BY <3>1, SenderSend
  <2> QED BY <1>3, <2>1, <2>2
<1> QED BY <1>1, <1>2, <1>3, LiveSend

\* a delivery moves a message inside its channel
LEMMA BoundRecv ==
  ASSUME IInv, Bound, ReceiveStep \/ KillOwner, box' = box
  PROVE  Bound'
<1> SUFFICES ASSUME NEW c \in 1 .. D, NEW i \in Nat, Live(c, i)'
                      PROVE At(c, i)'.from = sender'[c]
  BY Same DEF Bound
<1>1. c \in Slots /\ sender' = sender /\ rh[c] \in Nat
  BY Const, RecvLocals DEF IInv, Types, THead
<1>2. i > rh[c] => i - 1 \in Nat
  BY <1>1
<1> QED BY <1>1, <1>2, LiveRecv DEF Bound

\* once woken, the owner stays so until it goes on
LEMMA WakenedSend ==
  ASSUME IInv, NEW s \in Senders, Act(s)
  PROVE  /\ Wakened => Wakened'
         /\ Publish(s) => Wakened'
<1>1. TSpc /\ TSend /\ TChan /\ TCand /\ DOMAIN spc = Senders /\ watch' = watch
  BY SendLocals DEF IInv, Types, TSpc
<1>2. Publish(s) => spc'[s] = "wake"
  BY <1>1, PublishEffect
<1>3. CASE Wake(s)
  BY <1>3 DEF Wake, Wakened
<1>4. CASE WakeWatchers(s)
  <2>1. spc' = spc /\ mourn' = mourn \ {s}
    BY <1>4 DEF WakeWatchers
  <2>2. status' = IF watch = s /\ status = "BLOCKED" THEN "READY" ELSE status
    BY <1>4 DEF WakeWatchers
  <2> QED BY <1>1, <1>2, <2>1, <2>2 DEF Wakened
<1>5. CASE ~Wake(s) /\ ~WakeWatchers(s)
  <2>1. mourn \subseteq mourn'
    BY <1>5, DeathsSend DEF Die
  <2>2. status' = status
    <3>1. CASE SendStart(s) \/ ScanSlot(s) \/ Claim(s) \/ Push(s) \/ Write(s)
      BY <3>1 DEF SendStart, ScanSlot, Claim, Push, Write
    <3>2. CASE Publish(s) \/ Grow(s) \/ Install(s) \/ Die(s)
      BY <3>2 DEF Publish, Grow, Install, Die
    <3> QED BY <1>5, <3>1, <3>2 DEF Act, SendStep
  <2>3. \A t \in Senders : spc[t] = "wake" => spc'[t] = "wake"
    <3> SUFFICES ASSUME NEW t \in Senders, spc[t] = "wake" PROVE spc'[t] = "wake"
      OBVIOUS
    <3>1. CASE t # s
      BY <1>1, <3>1, Others
    <3>2. CASE t = s
      <4>1. ~(SendStart(s) \/ ScanSlot(s) \/ Claim(s) \/ Push(s) \/ Write(s))
        BY <3>2 DEF SendStart, ScanSlot, Claim, Push, Write
      <4>2. ~(Publish(s) \/ Grow(s) \/ Install(s))
        BY <3>2 DEF Publish, Grow, Install
      <4>3. Die(s)
        BY <1>5, <4>1, <4>2 DEF Act, SendStep
      <4> QED BY <3>2, <4>3 DEF Die
    <3> QED BY <3>1, <3>2
  <2> QED BY <1>1, <1>2, <2>1, <2>2, <2>3 DEF Wakened
<1> QED BY <1>3, <1>4, <1>5

\* after a sender's step the parked owner is still awaited by whoever it missed
LEMMA HeardSend ==
  ASSUME IInv, Checks, Heard, NEW s \in Senders, Act(s), box' = box
  PROVE  Checks' /\ Heard'
<1>1. UNCHANGED <<watch, rpc, op, check, sawDead, n, SHIDX, Slots>>
  BY SendLocals, Same
<1>2. Checks'
  BY <1>1 DEF Checks
<1>3. ASSUME check, NEW c \in Slots, NEW i \in Nat, Seen(c), Live(c, i)', Wants(At(c, i)')
      PROVE  Wakened'
  <2>1. CASE Live(c, i) /\ At(c, i)' = At(c, i)
    <3>1. Wakened
      BY <1>3, <2>1 DEF Heard
    <3> QED BY <3>1, WakenedSend
  <2>2. CASE Publish(s)
    BY <2>2, WakenedSend
  <2> QED BY <1>3, <2>1, <2>2, LiveSend
<1>4. ASSUME rpc = "parked", op.op = "receiveFromRes", op.who \in dead'
      PROVE  Wakened'
  <2>1. CASE op.who \in dead
    BY <1>4, <2>1, WakenedSend DEF Heard
  <2>2. CASE op.who \notin dead
    <3>1. mourn' = mourn \cup {s} /\ op.who = s
      BY <1>4, <2>2, DeathsSend
    <3>2. watch' = op.who
      BY <1>1, <1>4 DEF Checks
    <3> QED BY <3>1, <3>2 DEF Wakened
  <2> QED BY <2>1, <2>2
<1>5. \A c \in Slots : Seen(c)' <=> Seen(c)
  BY <1>1 DEF Seen
<1>6. \A c \in Slots, i \in Nat : Wants(At(c, i))' <=> Wants(At(c, i)')
  BY <1>1 DEF Wants
<1> QED BY <1>1, <1>2, <1>3, <1>4, <1>5, <1>6 DEF Heard

\* where a step of the owner leaves its control block
LEMMA ChecksRecv ==
  ASSUME IInv, Checks, ReceiveStep \/ KillOwner
  PROVE  Checks'
<1>1. Looks /\ Takes
  BY DEF IInv
<1>2. CASE LookAny
  <2>1. ~sawDead /\ op.op = "receive"
    BY <1>1, <1>2, LookAnyEffect DEF Looks
  <2> QED BY <1>2, <2>1, LookAnyEffect DEF Checks
<1>3. CASE LookRes
  <2>1. ~sawDead /\ op.op = "receiveRes"
    BY <1>1, <1>3, LookResEffect DEF Looks
  <2>2. watch' = watch
    BY <1>3, LookResEffect
  <2> QED BY <1>3, <2>1, <2>2, LookResEffect DEF Checks
<1>4. CASE Tags
  <2>1. CASE rpc' = "idle"
    <3>1. rpc = "tags" /\ sawDead /\ check' = check
      BY <1>4, <2>1, TagsEffect
    <3> QED BY <2>1, <3>1 DEF Checks
  <2>2. CASE rpc' # "idle"
    <3>1. op' = op /\ sawDead' = sawDead /\ check' = check /\ rpc = "tags"
          /\ watch' \in {watch, op.who}
      BY <1>4, <2>2, TagsEffect
    <3>2. CASE rpc' \in {"unblock", "take"}
      <4>1. watch' = watch
        BY <1>4, <3>2, TagsEffect
      <4>2. check => rpc' = "unblock"
        BY <1>4, <3>2, TagsEffect
      <4> QED BY <3>1, <3>2, <4>1, <4>2 DEF Checks
    <3>3. CASE rpc' \notin {"unblock", "take"}
      <4>1. ~sawDead /\ (op.op = "receiveFromRes" => watch' = op.who)
            /\ (IF check THEN rpc' \in {"askAgain", "parked"} ELSE rpc' = "block")
        BY <1>4, <2>2, <3>3, TagsEffect
      <4> QED BY <3>1, <4>1 DEF Checks
    <3> QED BY <3>2, <3>3
  <2> QED BY <2>1, <2>2
<1>5. CASE Avail
  BY <1>5, AvailEffect DEF Checks
<1>6. CASE Find \/ Block \/ AskAgain
  BY <1>6 DEF Checks, Find, Block, AskAgain
<1>7. CASE Ask
  <2>1. rpc = "ask" /\ rpc' = "find" /\ check' = check
    BY <1>7 DEF Ask
  <2> QED BY <2>1 DEF Checks
<1>8. CASE Receive \/ Unblock \/ Resume
  <2>1. check' = FALSE /\ rpc' \in {"look", "find", "ask"}
    BY <1>8 DEF Receive, Unblock, Resume
  <2> QED BY <2>1 DEF Checks
<1>9. CASE TakeHead
  <2>1. rpc = "take" /\ rpc' = "free" /\ check' = check
    BY <1>9 DEF TakeHead
  <2> QED BY <2>1 DEF Checks
<1>10. CASE Free \/ TakeInner
  <2>1. check' = FALSE /\ rpc' = "idle"
    BY <1>10 DEF Free, TakeInner
  <2> QED BY <2>1 DEF Checks
<1>11. CASE KillOwner
  <2>1. UNCHANGED <<watch, recving>>
    BY <1>11 DEF KillOwner
  <2> QED BY <2>1 DEF Checks
<1> QED BY <1>2, <1>3, <1>4, <1>5, <1>6, <1>7, <1>8, <1>9, <1>10, <1>11 DEF ReceiveStep

\* what the owner has looked into holds nothing it waits for when it moves on
LEMMA SeenRecvd ==
  ASSUME IInv, Checks, Bound, Heard, ReceiveStep \/ KillOwner, box' = box, check', check,
         NEW c \in Slots, NEW i \in Nat, Seen(c)', Live(c, i), Wants(At(c, i))
  PROVE  Seen(c) \/ status' # "BLOCKED"
<1>0. /\ Looks /\ TTail /\ THead /\ TPlace /\ TOp /\ box \in Boxes /\ SHIDX' = SHIDX
           /\ D \in Nat /\ D >= 1
      /\ SHIDX = D + 1 /\ Slots = 1 .. SHIDX /\ rt[c] \in Nat /\ rh[c] \in Nat /\ OneSlot
           /\ TKeys
  BY Const, Same DEF IInv, Types, TTail, THead
<1>1. CASE LookAny
  <2> SUFFICES ASSUME ~Seen(c) PROVE FALSE
    OBVIOUS
  <2>1. LookAt \in Slots /\ LookAt = n + 1 /\ rpc = "look"
    <3>1. n \in 0 .. D /\ SHIDX \in Nat \ {0}
      BY <1>0, <1>1, LookAnyEffect DEF Looks, TPlace
    <3>2. n % SHIDX = n
      BY <1>0, <3>1, ModSmall
    <3> QED BY <1>0, <1>1, <3>1, <3>2, LookAnyEffect DEF LookAt
  <2>2. ~(sender[LookAt] # NoOne /\ LookView # rh[LookAt])
    BY <1>1, LookAnyEffect DEF Seen
  <2>3. rh[LookAt] = rt[LookAt]
    BY <2>1, <2>2, Nothing
  <2>4. c = LookAt
    <3>1. \/ rpc' = "look" /\ n' = n + 1
          \/ ~(n < D)
      BY <1>1, <2>1, <2>2, LookAnyEffect
    <3>2. n \in 0 .. D /\ c > n
      BY <1>0, <2>1, <1>1, LookAnyEffect DEF Seen, Looks, TPlace
    <3> QED BY <1>0, <2>1, <3>1, <3>2 DEF Seen
  <2> QED BY <1>0, <2>3, <2>4 DEF Live
<1>2. CASE LookRes
  <2> SUFFICES ASSUME ~Seen(c) PROVE FALSE
    OBVIOUS
  <2>1. LookAt \in Slots /\ LookAt = n + 1 /\ rpc = "look" /\ n \in 0 .. D
    <3>1. n \in 0 .. D /\ SHIDX \in Nat \ {0}
      BY <1>0, <1>2, LookResEffect DEF Looks, TPlace
    <3>2. n % SHIDX = n
      BY <1>0, <3>1, ModSmall
    <3> QED BY <1>0, <1>2, <3>1, <3>2, LookResEffect DEF LookAt
  <2>2. ~(sender[LookAt] # NoOne /\ Answers(LookAt) # {})
    BY <1>2, LookResEffect DEF Seen
  <2>4. c = LookAt
    <3>1. \/ rpc' = "look" /\ n' = n + 1
          \/ ~(n < D)
      BY <1>2, <2>1, <2>2, LookResEffect
    <3>2. n \in 0 .. D /\ c > n
      BY <1>0, <2>1 DEF Seen
    <3> QED BY <1>0, <2>1, <3>1, <3>2 DEF Seen
  <2>5. CASE sender[c] = NoOne
    <3>1. c # SHIDX /\ Keys
      BY <2>5, MailboxAssumption DEF IInv, Keys, SHARED
    <3> QED BY <1>0, <2>5, <3>1 DEF Live, Keys
  <2>6. CASE Answers(c) = {}
    <3>1. At(c, i) \in Results
      BY <1>2, LookResEffect DEF Wants
    <3>2. i \in rh[c] .. rt[c] - 1
      BY <1>0 DEF Live
    <3> QED BY <2>6, <3>1, <3>2 DEF Answers
  <2> QED BY <2>2, <2>4, <2>5, <2>6
<1>3. CASE Find
  <2>0. rpc = "find" /\ n \in 1 .. D /\ op.op \in Froms
    BY <1>0, <1>3 DEF Find, Looks
  <2>1. At(c, i).from = op.who /\ op.who \in Senders
    BY <1>0, <2>0, Ops DEF TOp, Wants, Froms
  <2>2. c \in 1 .. D => sender[c] = op.who
    BY <2>1 DEF Bound
  <2>3. CASE sender[n] = op.who
    <3>1. rpc' = "avail" /\ n' = n
      BY <1>3, <2>3 DEF Find
    <3>2. c # n /\ c # SHIDX
      BY <1>0, <3>1 DEF Seen
    <3>3. c \in 1 .. D /\ sender[c] = op.who
      BY <1>0, <2>2, <3>2
    <3> QED BY <1>0, <2>0, <2>1, <2>3, <3>2, <3>3, Const DEF OneSlot
  <2>4. CASE sender[n] # op.who
    <3>1. c # n
      BY <2>0, <2>2, <2>4
    <3>2. (rpc' = "find" /\ n' = n + 1) \/ (rpc' = "tags" /\ n = D)
      BY <1>0, <1>3, <2>0, <2>4 DEF Find
    <3> QED BY <1>0, <2>0, <3>1, <3>2 DEF Seen
  <2> QED BY <2>3, <2>4
<1>4. CASE Avail
  <2>0. rpc = "avail" /\ n \in 1 .. D /\ rtSeen[n] \in Nat /\ rt[n] \in Nat /\ rh[n] \in Nat
    BY <1>0, <1>4 DEF Avail, Looks, TTail, THead
  <2>1. TailView(n) = rh[n] /\ rpc' = "tags"
    BY <1>4, AvailEffect DEF Seen
  <2>2. rh[n] = rt[n]
    BY <2>0, <2>1 DEF TailView
  <2>3. c # n
    BY <1>0, <2>0, <2>2 DEF Live
  <2> QED BY <1>0, <2>0, <2>1, <2>3 DEF Seen
<1>5. CASE Tags
  <2>0. rpc = "tags" /\ op.op \in Froms
    BY <1>0, <1>5, TagsEffect DEF Looks
  <2>1. At(c, i).from = op.who
    BY <2>0 DEF Wants, Froms
  <2>2. Tagged = {}
    BY <1>5, TagsEffect DEF Seen, Checks
  <2>3. c # SHIDX
    <3> SUFFICES ASSUME c = SHIDX PROVE FALSE
      OBVIOUS
    <3>1. i \in rh[SHIDX] .. rt[SHIDX] - 1
      BY <1>0 DEF Live
    <3> QED BY <2>1, <2>2, <3>1 DEF Tagged
  <2> QED BY <2>0, <2>3 DEF Seen
<1>6. CASE AskAgain
  BY <1>6 DEF AskAgain, Seen
<1>7. CASE KillOwner
  BY <1>7 DEF KillOwner
<1>8. CASE Block
  BY <1>8 DEF Block, Checks
<1>9. CASE Receive \/ Ask \/ Unblock \/ Resume \/ TakeHead \/ Free \/ TakeInner
  <2>1. ~check \/ ~check'
    BY <1>9 DEF Receive, Ask, Unblock, Resume, TakeHead, Free, TakeInner, Checks
  <2> QED BY <2>1
<1> QED BY <1>1, <1>2, <1>3, <1>4, <1>5, <1>6, <1>7, <1>8, <1>9 DEF ReceiveStep

\* the owner does not undo a wake-up
LEMMA StatusRecv ==
  ASSUME Checks, ReceiveStep \/ KillOwner, check, check', Wakened, TOwner
  PROVE  Wakened'
<1>1. UNCHANGED <<spc, mourn>>
  BY RecvLocals
<1>2. CASE LookAny
  BY <1>1, <1>2, LookAnyEffect DEF Wakened
<1>3. CASE Tags
  <2>1. watch' = watch /\ status' = status
    BY <1>3, TagsEffect DEF Checks
  <2> QED BY <1>1, <2>1 DEF Wakened
<1>4. CASE LookRes \/ Avail \/ AskAgain \/ Find
  <2>1. watch' = watch /\ status' = status
    BY <1>4 DEF LookRes, Avail, AskAgain, Find
  <2> QED BY <1>1, <2>1 DEF Wakened
<1>5. CASE KillOwner
  BY <1>5 DEF KillOwner, Wakened
<1>6. CASE Receive \/ Ask \/ Block \/ Unblock \/ Resume \/ TakeHead \/ Free \/ TakeInner
  <2>1. ~check \/ ~check'
    BY <1>6 DEF Receive, Ask, Block, Unblock, Resume, TakeHead, Free, TakeInner, Checks
  <2> QED BY <2>1
<1> QED BY <1>2, <1>3, <1>4, <1>5, <1>6 DEF ReceiveStep

\* after a step of the owner, what its second look has missed wakes it
LEMMA HeardRecv ==
  ASSUME IInv, Checks, Bound, Heard, ReceiveStep \/ KillOwner, box' = box
  PROVE  Heard'
<1>1. TOwner /\ Slots' = Slots /\ TPlace /\ SHIDX' = SHIDX
  BY Same DEF IInv, Types
<1>2. ASSUME check', NEW c \in Slots, NEW i \in Nat, Seen(c)', Live(c, i)', Wants(At(c, i))'
      PROVE  Wakened'
  <2>1. CASE ~check
    <3>1. Block /\ rpc' \in {"look", "find"} /\ (rpc' = "look" => n' = 0)
            /\ (rpc' = "find" => n' = 1)
      <4>1. ~(LookAny \/ LookRes \/ Avail \/ Tags)
        BY <1>2, <2>1, LookAnyEffect, LookResEffect, AvailEffect, TagsEffect
      <4>2. ~(Receive \/ Ask \/ Find \/ AskAgain \/ Unblock \/ Resume \/ TakeHead \/ Free
              \/ TakeInner \/ KillOwner)
        BY <1>2, <2>1 DEF Receive, Ask, Find, AskAgain, Unblock, Resume, TakeHead, Free,
           TakeInner, KillOwner
      <4>3. Block
        BY <4>1, <4>2 DEF ReceiveStep
      <4> QED BY <1>2, <2>1, <4>3 DEF Block
    <3>2. c >= 1 /\ c \in Nat
      BY Const DEF IInv, Types
    <3> QED BY <1>2, <3>1, <3>2 DEF Seen
  <2>2. CASE check
    <3>1. ~Free /\ ~TakeInner
      BY <1>2 DEF Free, TakeInner
    <3>2. Live(c, i) /\ At(c, i)' = At(c, i)
      BY <1>2, <3>1, LiveRecv
    <3>3. op' = op
      <4>1. CASE LookAny \/ LookRes \/ Avail
        BY <4>1, LookAnyEffect, LookResEffect, AvailEffect
      <4>2. CASE Tags
        BY <2>2, <4>2, TagsEffect DEF Checks
      <4>3. CASE Ask \/ Find \/ Block \/ AskAgain \/ Unblock \/ Resume \/ TakeHead \/ KillOwner
        BY <4>3 DEF Ask, Find, Block, AskAgain, Unblock, Resume, TakeHead, KillOwner
      <4>4. ~Receive
        BY <1>2 DEF Receive
      <4> QED BY <3>1, <4>1, <4>2, <4>3, <4>4 DEF ReceiveStep
    <3>4. Wants(At(c, i))
      BY <1>2, <3>2, <3>3 DEF Wants
    <3>5. Seen(c) \/ status' # "BLOCKED"
      BY <1>2, <2>2, <3>2, <3>4, SeenRecvd
    <3>6. CASE Seen(c)
      <4>1. Wakened
        BY <2>2, <3>2, <3>4, <3>6 DEF Heard
      <4> QED BY <1>1, <1>2, <2>2, <4>1, StatusRecv
    <3> QED BY <3>5, <3>6 DEF Wakened
  <2> QED BY <2>1, <2>2
<1>3. ASSUME rpc' = "parked", op'.op = "receiveFromRes", op'.who \in dead'
      PROVE  Wakened'
  <2>1. CASE AskAgain
    <3>1. op' = op /\ dead' = dead /\ op.who \notin dead
      BY <1>3, <2>1 DEF AskAgain
    <3> QED BY <1>3, <3>1
  <2>2. CASE KillOwner
    BY <2>2 DEF KillOwner, Wakened
  <2>3. ~(LookAny \/ LookRes \/ Avail \/ Tags)
    BY <1>3, LookAnyEffect, LookResEffect, AvailEffect, TagsEffect
  <2>4. ~(Receive \/ Ask \/ Find \/ Block \/ Unblock \/ Resume \/ TakeHead \/ Free \/ TakeInner)
    BY <1>3 DEF Receive, Ask, Find, Block, Unblock, Resume, TakeHead, Free, TakeInner
  <2> QED BY <2>1, <2>2, <2>3, <2>4 DEF ReceiveStep
<1> QED BY <1>1, <1>2, <1>3 DEF Heard

\* a queued message has a position in its channel
LEMMA QueuedLive ==
  ASSUME IInv, NEW m \in Queued
  PROVE  \E c \in Slots, i \in Nat : Live(c, i) /\ m = At(c, i)
<1>1. PICK c \in Slots : m \in Range(Lane(c))
  BY DEF Queued
<1>2. rt[c] \in Nat /\ rh[c] \in Nat
  BY DEF IInv, Types, TTail, THead
<1>3. PICK j \in 1 .. rt[c] - rh[c] : m = At(c, rh[c] + j - 1)
  BY <1>1 DEF Range, Lane
<1>4. PICK i \in Nat : i = rh[c] + j - 1
  BY <1>2
<1> QED BY <1>2, <1>3, <1>4 DEF Live

\* the invariant of waiting, beside IInv
WaitInv == Bound /\ Checks /\ Heard

\* it holds of a fresh mailbox
LEMMA WaitInit == Init => WaitInv
<1> SUFFICES ASSUME Init PROVE WaitInv
  OBVIOUS
<1>1. box \in Boxes /\ rpc = "idle" /\ check = FALSE /\ sawDead = FALSE
        /\ rt = [c \in Slots |-> 0] /\ rh = [c \in Slots |-> 0]
      /\ 1 .. D \subseteq Slots
  BY Const DEF Init
<1>2. Bound
  BY <1>1 DEF Bound, Live
<1> QED BY <1>1, <1>2 DEF WaitInv, Checks, Heard

\* and every step keeps it
LEMMA WaitStep ==
  ASSUME IInv, WaitInv, ~overrun', [Next]_vars
  PROVE  WaitInv'
<1> USE DEF WaitInv
<1>1. CASE UNCHANGED vars
  <2>1. UNCHANGED <<box, rt, rh, ring, sender, status, watch, spc, dead, mourn, recving>>
    BY <1>1 DEF vars
  <2> QED BY <2>1, Same DEF Bound, Checks, Heard, Live, At, Seen, Wants, Wakened
<1>2. CASE Next
  <2>1. box' = box
    BY <1>2 DEF Next
  <2>2. CASE ReceiveStep \/ KillOwner
    BY <2>1, <2>2, BoundRecv, ChecksRecv, HeardRecv
  <2>3. CASE \E s \in Senders : Act(s)
    BY <2>1, <2>3, BoundSend, HeardSend
  <2> QED BY <1>2, <2>2, <2>3 DEF Next, Step, Act
<1> QED BY <1>1, <1>2

\* with it the owner is not stranded
LEMMA WaitImplied == IInv /\ WaitInv => NoStrand
<1> SUFFICES ASSUME IInv, WaitInv, rpc = "parked", status = "BLOCKED", Wanted
             PROVE  (\E s \in Senders : spc[s] = "wake") \/ watch \in mourn
  BY DEF NoStrand
<1>1. check /\ op # Idle /\ Checks /\ Heard /\ TOp /\ box \in Boxes
  BY DEF WaitInv, Checks, IInv, Looks, Types
<1>2. op.op \in {"receive", "receiveRes", "receiveFrom", "receiveFromRes"}
  BY <1>1, Ops DEF TOp
<1>3. ASSUME NEW m \in Queued, Wants(m) PROVE Wakened
  <2>1. PICK c \in Slots, i \in Nat : Live(c, i) /\ m = At(c, i)
    BY QueuedLive
  <2> QED BY <1>1, <1>3, <2>1 DEF Heard, Seen
<1>4. CASE op.op = "receive"
  BY <1>3, <1>4 DEF Wanted, Wants, Wakened
<1>5. CASE op.op = "receiveRes"
  BY <1>3, <1>5 DEF Wanted, Wants, Wakened
<1>6. CASE op.op \in {"receiveFrom", "receiveFromRes"}
  <2>1. (\E m \in Queued : m.from = op.who) \/ (op.op = "receiveFromRes" /\ op.who \in dead)
    BY <1>6 DEF Wanted
  <2>2. CASE \E m \in Queued : m.from = op.who
    BY <1>3, <1>6, <2>2 DEF Wants, Wakened
  <2>3. CASE op.op = "receiveFromRes" /\ op.who \in dead
    BY <1>1, <2>3 DEF Heard, Wakened
  <2> QED BY <2>1, <2>2, <2>3
<1> QED BY <1>2, <1>4, <1>5, <1>6

\* "a parked receiver is woken", until a slot is claimed from a killed sender that still
\* uses it
THEOREM NoStrandHolds == Spec => []NoStrand
<1>1. Init => (~overrun => IInv /\ WaitInv)
  BY InitInv, WaitInit
<1>2. (~overrun => IInv /\ WaitInv) /\ [Next]_vars => (~overrun => IInv /\ WaitInv)'
  BY StepInv, WaitStep, OverrunStays
<1>3. (~overrun => IInv /\ WaitInv) => NoStrand
  BY WaitImplied DEF NoStrand
<1> QED BY <1>1, <1>2, <1>3, PTL DEF Spec

-----------------------------------------------------------------------------
\* the messages of sender s published so far are numbered up to this
Upto(s) == IF spc[s] = "wake" THEN nsent[s] + 1 ELSE nsent[s]

\* no message is numbered ahead of its sender's count
Numbered ==
  /\ \A c \in Slots, i \in Nat : Live(c, i) => At(c, i).no <= Upto(At(c, i).from)
  /\ \A m \in got : m.no <= Upto(m.from)

\* a message is queued once, and not after it was delivered
Once ==
  /\ \A c, d \in Slots, i, j \in Nat :
       Live(c, i) /\ Live(d, j) /\ At(c, i) = At(d, j) => c = d /\ i = j
  /\ \A c \in Slots, i \in Nat : Live(c, i) => At(c, i) \notin got

\* a sender's count never falls, and a publish raises it by one
LEMMA UptoSend ==
  ASSUME IInv, NEW s \in Senders, Act(s)
  PROVE  /\ \A t \in Senders : Upto(t) \in Nat /\ Upto(t)' \in Nat /\ Upto(t) <= Upto(t)'
         /\ Publish(s) => Upto(s) = nsent[s] /\ Upto(s)' = nsent[s] + 1
<1>1. TSpc /\ TSend /\ TChan /\ TCand
  BY DEF IInv, Types
<1>2. ASSUME NEW t \in Senders
      PROVE  Upto(t) \in Nat /\ Upto(t)' \in Nat /\ Upto(t) <= Upto(t)'
  <2>1. Upto(t) \in Nat
    BY <1>1 DEF Upto, TSend
  <2>2. CASE t # s
    BY <1>1, <2>1, <2>2, Others DEF Upto
  <2>3. CASE t = s
    <3>1. CASE SendStart(s) \/ ScanSlot(s) \/ Claim(s) \/ Push(s)
      BY <1>1, <2>3, <3>1 DEF SendStart, ScanSlot, Claim, Push, Upto, TSpc, TSend
    <3>2. CASE Write(s) \/ Publish(s) \/ Grow(s) \/ Install(s)
      BY <1>1, <2>3, <3>2 DEF Write, Publish, Grow, Install, Upto, TSpc, TSend
    <3>3. CASE Wake(s) \/ Die(s) \/ WakeWatchers(s)
      BY <1>1, <2>3, <3>3 DEF Wake, Die, WakeWatchers, Upto, TSpc, TSend
    <3> QED BY <3>1, <3>2, <3>3 DEF Act, SendStep
  <2> QED BY <2>2, <2>3
<1>3. ASSUME Publish(s) PROVE Upto(s) = nsent[s] /\ Upto(s)' = nsent[s] + 1
  BY <1>1, <1>3, PublishEffect DEF Upto, TSpc
<1> QED BY <1>2, <1>3

\* a sender's step queues at most one message, with a new number
LEMMA NumberedSend ==
  ASSUME IInv, Numbered, Once, NEW s \in Senders, Act(s), box' = box
  PROVE  Numbered' /\ Once'
<1>1. got' = got /\ Slots' = Slots /\ got \subseteq Msgs /\ Reals /\ TSend /\ TTail
  BY SendLocals, Same DEF IInv, Types
<1>2. \A t \in Senders : Upto(t) \in Nat /\ Upto(t)' \in Nat /\ Upto(t) <= Upto(t)'
  BY UptoSend
<1>3. \A m \in Msgs : m.from \in Senders /\ m.no \in Nat
  BY MailboxAssumption DEF Msgs
<1>4. Numbered'
  <2>1. ASSUME NEW c \in Slots, NEW i \in Nat, Live(c, i)'
        PROVE  At(c, i)'.no <= Upto(At(c, i).from)'
    <3>1. CASE Live(c, i) /\ At(c, i)' = At(c, i)
      <4>1. At(c, i) \in Msgs /\ At(c, i).no <= Upto(At(c, i).from)
        BY <1>1, <3>1 DEF Numbered, Reals, Real
      <4>2. PICK t \in Senders : t = At(c, i).from
        BY <1>3, <4>1
      <4>3. At(c, i).no <= Upto(t) /\ At(c, i).no \in Nat /\ Upto(At(c, i).from)' = Upto(t)'
        BY <1>3, <3>1, <4>1, <4>2 DEF Upto
      <4> QED BY <1>2, <3>1, <4>3
    <3>2. CASE Publish(s) /\ At(c, i)' = [from |-> s, no |-> nsent[s] + 1]
      <4>1. At(c, i)'.from = s /\ At(c, i)'.no = nsent[s] + 1
        BY <3>2
      <4>2. Upto(s)' = nsent[s] + 1 /\ Upto(s)' \in Nat
        BY <3>2, UptoSend
      <4>3. Upto(At(c, i).from)' = Upto(s)'
        BY <4>1 DEF Upto
      <4> QED BY <4>1, <4>2, <4>3
    <3> QED BY <2>1, <3>1, <3>2, LiveSend
  <2>2. ASSUME NEW m \in got PROVE m.no <= Upto(m.from)'
    BY <1>1, <1>2, <1>3, <2>2 DEF Numbered
  <2>3. \A m \in got' : m.no <= Upto(m.from)'
    BY <1>1, <2>2
  <2>4. \A c \in Slots', i \in Nat : Live(c, i)' => At(c, i)'.no <= Upto(At(c, i).from)'
    BY <1>1, <2>1
  <2> QED BY <2>3, <2>4 DEF Numbered, Upto
<1>5. ASSUME NEW c \in Slots, NEW i \in Nat, Publish(s), Live(c, i)
      PROVE  At(c, i) # [from |-> s, no |-> nsent[s] + 1]
  <2>1. At(c, i) \in Msgs /\ At(c, i).no <= Upto(At(c, i).from)
    BY <1>1, <1>5 DEF Numbered, Reals, Real
  <2>2. Upto(s) = nsent[s] /\ nsent[s] \in Nat
    BY <1>1, <1>5, UptoSend DEF TSend
  <2> SUFFICES ASSUME At(c, i) = [from |-> s, no |-> nsent[s] + 1] PROVE FALSE
    OBVIOUS
  <2>3. At(c, i).from = s /\ At(c, i).no = nsent[s] + 1
    OBVIOUS
  <2>4. nsent[s] + 1 <= Upto(s)
    BY <2>1, <2>3
  <2> QED BY <2>2, <2>4
<1>6. ASSUME Publish(s) PROVE [from |-> s, no |-> nsent[s] + 1] \notin got
  <2>1. Upto(s) = nsent[s] /\ nsent[s] \in Nat
    BY <1>1, <1>6, UptoSend DEF TSend
  <2> SUFFICES ASSUME NEW m \in got, m = [from |-> s, no |-> nsent[s] + 1] PROVE FALSE
    OBVIOUS
  <2>2. m.no <= Upto(m.from) /\ m.from = s /\ m.no = nsent[s] + 1
    BY DEF Numbered
  <2> QED BY <2>1, <2>2
<1>7. ASSUME NEW c \in Slots, NEW d \in Slots, NEW i \in Nat, NEW j \in Nat,
             Live(c, i)', Live(d, j)', At(c, i)' = At(d, j)'
      PROVE  c = d /\ i = j
  <2>1. \/ Live(c, i) /\ At(c, i)' = At(c, i)
        \/ Publish(s) /\ c = chan[s] /\ i = rt[c]
             /\ At(c, i)' = [from |-> s, no |-> nsent[s] + 1]
    BY <1>7, LiveSend
  <2>2. \/ Live(d, j) /\ At(d, j)' = At(d, j)
        \/ Publish(s) /\ d = chan[s] /\ j = rt[d]
             /\ At(d, j)' = [from |-> s, no |-> nsent[s] + 1]
    BY <1>7, LiveSend
  <2>3. CASE Live(c, i) /\ At(c, i)' = At(c, i) /\ Live(d, j) /\ At(d, j)' = At(d, j)
    <3>1. At(c, i) = At(d, j)
      BY <1>7, <2>3
    <3> QED BY <2>3, <3>1 DEF Once
  <2> QED BY <1>5, <1>7, <2>1, <2>2, <2>3
<1>8. ASSUME NEW c \in Slots, NEW i \in Nat, Live(c, i)' PROVE At(c, i)' \notin got
  <2>1. CASE Live(c, i) /\ At(c, i)' = At(c, i)
    BY <2>1 DEF Once
  <2> QED BY <1>6, <1>8, <2>1, LiveSend
<1> QED BY <1>1, <1>4, <1>7, <1>8 DEF Once

\* a step of the owner queues nothing, and moves the taken message out of its channel
LEMMA NumberedRecv ==
  ASSUME IInv, Numbered, Once, ReceiveStep \/ KillOwner, box' = box
  PROVE  Numbered' /\ Once'
<1>1. Slots' = Slots /\ THead /\ TPlace /\ UNCHANGED <<spc, nsent>>
  BY RecvLocals, Same DEF IInv, Types
<1>2. \A m : Upto(m.from)' = Upto(m.from)
  BY <1>1 DEF Upto
<1> DEFINE Was(c, i, j) == j \in Nat /\ Live(c, j) /\ At(c, i)' = At(c, j)
                           /\ IF (Free \/ TakeInner) /\ c = n
                                /\ i <= k THEN j = i - 1 ELSE j = i
<1>3. ASSUME NEW c \in Slots, NEW i \in Nat, Live(c, i)' PROVE \E j : Was(c, i, j)
  <2>1. CASE (Free \/ TakeInner) /\ c = n /\ i <= k
    <3>1. i > rh[c] /\ Live(c, i - 1) /\ At(c, i)' = At(c, i - 1)
      BY <1>3, <2>1, LiveRecv
    <3>2. i - 1 \in Nat
      BY <1>1, <3>1 DEF THead
    <3> QED BY <2>1, <3>1, <3>2
  <2>2. CASE ~((Free \/ TakeInner) /\ c = n /\ i <= k)
    BY <1>3, <2>2, LiveRecv
  <2> QED BY <2>1, <2>2
<1>4. Numbered'
  <2>1. ASSUME NEW c \in Slots, NEW i \in Nat, Live(c, i)'
        PROVE  At(c, i)'.no <= Upto(At(c, i).from)'
    BY <1>2, <1>3, <2>1 DEF Numbered
  <2>2. ASSUME NEW m \in got' PROVE m.no <= Upto(m.from)'
    <3>1. CASE m \in got
      BY <1>2, <3>1 DEF Numbered
    <3>2. CASE m = At(n, k) /\ n \in Slots /\ Live(n, k)
      BY <1>1, <1>2, <3>2 DEF Numbered, TPlace
    <3> QED BY <2>2, <3>1, <3>2, GotRecv
  <2> QED BY <1>1, <2>1, <2>2 DEF Numbered
<1>5. ASSUME NEW c \in Slots, NEW d \in Slots, NEW i \in Nat, NEW j \in Nat,
             Live(c, i)', Live(d, j)', At(c, i)' = At(d, j)'
      PROVE  c = d /\ i = j
  <2>1. PICK a : Was(c, i, a)
    BY <1>3, <1>5
  <2>2. PICK b : Was(d, j, b)
    BY <1>3, <1>5
  <2>3. c = d /\ a = b
    BY <1>5, <2>1, <2>2 DEF Once
  <2> QED BY <1>1, <2>1, <2>2, <2>3 DEF TPlace
<1>6. ASSUME NEW c \in Slots, NEW i \in Nat, Live(c, i)' PROVE At(c, i)' \notin got'
  <2>1. PICK a : Was(c, i, a)
    BY <1>3, <1>6
  <2>2. At(c, i)' \notin got
    BY <2>1 DEF Once
  <2>3. ASSUME (Free \/ TakeInner), n \in Slots, Live(n, k) PROVE At(c, i)' # At(n, k)
    <3>1. ~(c = n /\ a = k)
      <4>1. CASE c = n /\ i > k
        BY <2>1, <4>1
      <4> QED BY <1>1, <2>1, <2>3, <4>1 DEF TPlace
    <3>2. k \in Nat
      BY <1>1 DEF TPlace
    <3> QED BY <2>1, <2>3, <3>1, <3>2 DEF Once
  <2> QED BY <2>2, <2>3, GotRecv
<1> QED BY <1>1, <1>4, <1>5, <1>6 DEF Once

\* the message being taken answers the receive, and is the oldest of its channel that does
Chosen ==
  Taking =>
    /\ op.op = "receiveRes" => At(n, k) \in Results
    /\ op.op \in Froms => At(n, k).from = op.who \/ op.who \in dead
    /\ \A j \in Nat : rh[n] <= j /\ j < k => ~Abs!Precedes(op.op, At(n, j), At(n, k))

\* once the sender's death has been read, what the search has passed holds nothing of it
\* but what it published after it died
DeadSeen ==
  sawDead /\ rpc \in {"find", "avail", "tags"} =>
    \A c \in Slots, i \in Nat :
      Seen(c) /\ Live(c, i) /\ At(c, i).from = op.who => At(c, i) \in late

\* a sender's step leaves the chosen message the oldest that answers
LEMMA ChosenSend ==
  ASSUME IInv, Chosen, NEW s \in Senders, Act(s), box' = box
  PROVE  Chosen'
<1> SUFFICES ASSUME Taking PROVE Chosen'
  BY SendLocals DEF Chosen, Taking
<1>1. UNCHANGED <<rh, rpc, op, n, k>> /\ Takes /\ TPlace /\ THead /\ TTail
  BY SendLocals DEF IInv, Types
<1>2. n \in Slots /\ k \in Nat /\ rh[n] \in Nat /\ rh[n] <= k /\ k < rt[n] /\ rt[n] \in Nat
  BY <1>1 DEF Takes, TPlace, THead, TTail
<1>3. \A j \in Nat : rh[n] <= j /\ j <= k => At(n, j)' = At(n, j)
  <2> SUFFICES ASSUME NEW j \in Nat, rh[n] <= j, j <= k PROVE At(n, j)' = At(n, j)
    OBVIOUS
  <2>1. Live(n, j)
    BY <1>2 DEF Live
  <2> QED BY <1>1, <1>2, <2>1, RingsSend DEF At
<1>4. dead \subseteq dead'
  BY DeathsSend
<1>5. At(n, k)' = At(n, k)
  BY <1>1, <1>2, <1>3 DEF At
<1>6. (op.op = "receiveRes" => At(n, k) \in Results)'
  BY <1>1, <1>5 DEF Chosen, Results
<1>7. (op.op \in Froms => At(n, k).from = op.who \/ op.who \in dead)'
  BY <1>1, <1>4, <1>5 DEF Chosen
<1>8. ASSUME NEW j \in Nat, rh'[n'] <= j, j < k'
      PROVE  ~Abs!Precedes(op'.op, At(n, j)', At(n, k)')
  <2>1. At(n, j)' = At(n, j)
    BY <1>1, <1>2, <1>3, <1>8
  <2> QED BY <1>1, <1>5, <1>8, <2>1 DEF Chosen
<1> QED BY <1>6, <1>7, <1>8 DEF Chosen, Abs!Precedes, Results

\* the owner chooses the oldest message that answers
LEMMA ChosenRecv ==
  ASSUME IInv, Bound, Chosen, ReceiveStep \/ KillOwner, box' = box
  PROVE  Chosen'
<1> SUFFICES ASSUME Taking' PROVE Chosen'
  BY DEF Chosen
<1>1. /\ Looks /\ TPlace /\ THead /\ TTail /\ TOp /\ TOwner /\ box \in Boxes /\ dead' = dead
      /\ SHIDX' = SHIDX
  BY RecvLocals, Same DEF IInv, Types
<1>2. CASE TakeHead \/ KillOwner
  <2>1. UNCHANGED <<rh, ring, op, n, k, dead>> /\ Taking
    BY <1>2 DEF TakeHead, KillOwner, Taking
  <2> QED BY <2>1 DEF Chosen, At
<1>3. CASE LookAny \/ LookRes \/ Avail \/ Tags
  <2>1. rpc' = "take"
    <3>1. CASE LookAny
      BY <3>1, LookAnyEffect DEF Taking
    <3>2. CASE LookRes
      BY <3>2, LookResEffect DEF Taking
    <3>3. CASE Avail \/ Tags
      BY <3>3, AvailEffect, TagsEffect DEF Taking
    <3> QED BY <1>3, <3>1, <3>2, <3>3
  <2>2. /\ op' = op /\ n' \in Slots /\ Live(n', k') /\ UNCHANGED <<rh, rt, ring>>
        /\ \A c \in Slots, j \in Nat : At(c, j)' = At(c, j)
    BY <1>3, <2>1, Finding DEF At
  <2>3. CASE LookAny
    <3>1. op.op = "receive" /\ k' = rh[n']
      BY <2>1, <2>3, LookAnyEffect
    <3> QED BY <1>1, <2>2, <3>1 DEF Chosen, THead, Froms
  <2>4. CASE LookRes
    <3>1. /\ op.op = "receiveRes" /\ n' = LookAt /\ Answers(n') # {}
          /\ k' = Oldest(Answers(n'))
      BY <2>1, <2>4, LookResEffect
    <3>2. PICK c \in Slots : c = n'
      BY <2>2
    <3>3. Answers(c) \subseteq Nat /\ Answers(c) # {} /\ k' = Oldest(Answers(c))
      BY <1>1, <3>1, <3>2 DEF Answers, THead, TTail
    <3>4. k' \in Answers(c) /\ \A j \in Answers(c) : k' <= j
      BY <3>3, OldestIn
    <3>5. At(c, k') \in Results /\ k' \in Nat /\ k' < rt[c]
      BY <1>1, <3>4 DEF Answers, THead, TTail
    <3>6. ASSUME NEW j \in Nat, rh[c] <= j, j < k' PROVE At(c, j) \notin Results
      <4>1. j \in rh[c] .. rt[c] - 1
        BY <1>1, <3>5, <3>6 DEF THead, TTail
      <4> QED BY <3>4, <3>5, <3>6, <4>1 DEF Answers
    <3>7. At(n, k)' = At(c, k')
      BY <2>2, <3>2 DEF At
    <3>8. \A j : At(n, j)' = At(c, j)
      BY <2>2, <3>2 DEF At
    <3> QED BY <2>2, <3>1, <3>2, <3>5, <3>6, <3>7, <3>8 DEF Chosen, Abs!Precedes, Froms, Results
  <2>5. CASE Avail
    <3>1. rpc = "avail" /\ n' = n /\ k' = rh[n]
      BY <2>1, <2>5, AvailEffect
    <3>2. op.op \in Froms /\ n \in 1 .. D /\ (sender[n] = op.who \/ op.who \in dead)
      BY <1>1, <3>1 DEF Looks
    <3>3. Live(n, k') /\ k' \in Nat /\ n \in Slots
      BY <1>1, <2>2, <3>1, <3>2, Const DEF THead
    <3>4. At(n, k').from = sender[n]
      BY <3>2, <3>3 DEF Bound
    <3>5. At(n, k)' = At(n, k')
      BY <2>2, <3>1 DEF At
    <3> QED BY <1>1, <2>2, <3>1, <3>2, <3>3, <3>4, <3>5 DEF Chosen, Froms, THead
  <2>6. CASE Tags
    <3>1. /\ rpc = "tags" /\ n' = SHIDX /\ Tagged # {} /\ k' = Oldest(Tagged)
      BY <2>1, <2>6, TagsEffect
    <3>2. op.op \in Froms /\ SHIDX \in Slots
      BY <1>1, <3>1, Const DEF Looks
    <3>3. Tagged \subseteq Nat
      BY <1>1, <3>2 DEF Tagged, THead, TTail
    <3>4. k' \in Tagged /\ \A j \in Tagged : k' <= j
      BY <3>1, <3>3, OldestIn
    <3>5. At(SHIDX, k').from = op.who /\ k' \in Nat /\ k' < rt[SHIDX]
      BY <1>1, <3>2, <3>4 DEF Tagged, THead, TTail
    <3>6. ASSUME NEW j \in Nat, rh[SHIDX] <= j, j < k' PROVE At(SHIDX, j).from # op.who
      <4>1. j \in rh[SHIDX] .. rt[SHIDX] - 1
        BY <1>1, <3>2, <3>5, <3>6 DEF THead, TTail
      <4> QED BY <3>4, <3>5, <3>6, <4>1 DEF Tagged
    <3>8. \A j : At(n, j)' = At(SHIDX, j)
      BY <2>2, <3>1 DEF At
    <3>7. At(n, k)' = At(SHIDX, k')
      BY <2>2, <3>1 DEF At
    <3> QED BY <2>2, <3>1, <3>2, <3>5, <3>6, <3>7, <3>8 DEF Chosen, Abs!Precedes, Froms
  <2> QED BY <1>3, <2>3, <2>4, <2>5, <2>6
<1>4. CASE ~(TakeHead \/ KillOwner) /\ ~(LookAny \/ LookRes \/ Avail \/ Tags)
  BY <1>4 DEF ReceiveStep, Receive, Ask, Find, Block, AskAgain, Unblock, Resume, Free,
     TakeInner, Taking
<1> QED BY <1>2, <1>3, <1>4

\* what the dead publish is late
LEMMA DeadSeenSend ==
  ASSUME IInv, DeadSeen, NEW s \in Senders, Act(s), box' = box
  PROVE  DeadSeen'
<1>1. UNCHANGED <<rpc, op, sawDead, n, Slots, SHIDX>> /\ Looks
  BY SendLocals, Same DEF IInv
<1>2. late \subseteq late'
  BY DeathsSend, PublishEffect
<1>3. ASSUME sawDead, rpc \in {"find", "avail", "tags"}, NEW c \in Slots, NEW i \in Nat,
             Seen(c), Live(c, i)', At(c, i)'.from = op.who
      PROVE  At(c, i)' \in late'
  <2>1. op.who \in dead
    BY <1>1, <1>3 DEF Looks
  <2>2. CASE Live(c, i) /\ At(c, i)' = At(c, i)
    BY <1>2, <1>3, <2>2 DEF DeadSeen
  <2>3. CASE Publish(s) /\ At(c, i)' = [from |-> s, no |-> nsent[s] + 1]
    <3>1. s \in dead
      BY <1>3, <2>1, <2>3
    <3> QED BY <2>3, <3>1, PublishEffect
  <2> QED BY <1>3, <2>2, <2>3, LiveSend
<1> QED BY <1>1, <1>3 DEF DeadSeen, Seen

\* what the search passes over is bound to others, or empty
LEMMA DeadSeenRecv ==
  ASSUME IInv, Checks, Bound, DeadSeen, ReceiveStep \/ KillOwner, box' = box
  PROVE  DeadSeen'
<1> SUFFICES ASSUME sawDead', rpc' \in {"find", "avail", "tags"}, NEW c \in Slots,
                      NEW i \in Nat,
                      Seen(c)', Live(c, i)', At(c, i)'.from = op'.who
             PROVE  At(c, i)' \in late'
  BY Same DEF DeadSeen
<1>0. /\ Looks /\ TTail /\ THead /\ TPlace /\ TOp /\ box \in Boxes /\ SHIDX' = SHIDX
           /\ D \in Nat /\ D >= 1
      /\ SHIDX = D + 1 /\ Slots = 1 .. SHIDX /\ rt[c] \in Nat /\ rh[c] \in Nat /\ OneSlot
           /\ TKeys
      /\ late' = late
  BY RecvLocals, Const, Same DEF IInv, Types, TTail, THead
<1>1. CASE Ask
  <2>1. rpc' = "find" /\ n' = 1
    BY <1>1 DEF Ask
  <2> QED BY <1>0, <2>1 DEF Seen
<1>2. CASE Find
  <2>0. rpc = "find" /\ n \in 1 .. D /\ sawDead
          /\ UNCHANGED <<op, rt, rh, ring>> /\ op.who \in Senders
    <3>1. rpc = "find" /\ sawDead /\ UNCHANGED <<op, rt, rh, ring>>
      BY <1>2 DEF Find
    <3>2. op.op \in Froms
      BY <1>0, <3>1 DEF Looks
    <3> QED BY <1>0, <3>1, <3>2, Ops DEF Looks, TOp
  <2>1. Live(c, i) /\ At(c, i)' = At(c, i)
    BY <2>0 DEF Live, At
  <2>2. c \in 1 .. D => At(c, i).from = sender[c]
    BY <2>1 DEF Bound
  <2>3. CASE sender[n] = op.who
    <3>1. rpc' = "avail" /\ n' = n
      BY <1>2, <2>3 DEF Find
    <3>2. c # n /\ c \in 1 .. D
      BY <1>0, <3>1 DEF Seen
    <3>3. sender[c] # op.who
      BY <1>0, <2>0, <2>3, <3>2, Const DEF OneSlot
    <3> QED BY <2>0, <2>1, <2>2, <3>2, <3>3
  <2>4. CASE sender[n] # op.who
    <3>1. (rpc' = "find" /\ n' = n + 1) \/ (rpc' = "tags" /\ n = D)
      BY <1>0, <1>2, <2>0, <2>4 DEF Find
    <3>2. c < n \/ c = n
      BY <1>0, <2>0, <3>1 DEF Seen
    <3>3. CASE c = n
      BY <2>0, <2>1, <2>2, <2>4, <3>3
    <3>4. CASE c < n
      BY <1>0, <2>0, <2>1, <3>4 DEF DeadSeen, Seen
    <3> QED BY <3>2, <3>3, <3>4
  <2> QED BY <2>3, <2>4
<1>3. CASE Avail
  <2>0. /\ rpc = "avail" /\ n \in 1 .. D /\ rtSeen[n] \in Nat /\ rt[n] \in Nat /\ rh[n] \in Nat
        /\ sawDead /\ UNCHANGED <<op, rt, rh, ring>>
    <3>1. rpc = "avail" /\ sawDead /\ UNCHANGED <<op, rt, rh, ring>>
      BY <1>3 DEF Avail
    <3>2. n \in 1 .. D
      BY <1>0, <3>1 DEF Looks
    <3> QED BY <1>0, <3>1, <3>2 DEF TTail, THead
  <2>1. TailView(n) = rh[n] /\ rpc' = "tags"
    BY <1>3, AvailEffect
  <2>2. rh[n] = rt[n]
    BY <2>0, <2>1 DEF TailView
  <2>3. Live(c, i) /\ At(c, i)' = At(c, i)
    BY <2>0 DEF Live, At
  <2>4. c # n
    BY <1>0, <2>0, <2>2, <2>3 DEF Live
  <2>5. Seen(c)
    BY <1>0, <2>0, <2>1, <2>4 DEF Seen
  <2> QED BY <1>0, <2>0, <2>3, <2>5 DEF DeadSeen
<1>4. CASE LookAny \/ LookRes
  <2>1. rpc = "look" /\ sawDead' = sawDead /\ op.op \in {"receive", "receiveRes"}
    BY <1>4, LookAnyEffect, LookResEffect
  <2> QED BY <1>0, <2>1 DEF Looks
<1>5. CASE Tags
  BY <1>5, TagsEffect
<1>6. CASE KillOwner
  <2>1. UNCHANGED <<rpc, op, sawDead, n, rh, rt, ring>>
    BY <1>6 DEF KillOwner
  <2> QED BY <1>0, <2>1 DEF DeadSeen, Seen, Live, At
<1>7. CASE Block
  BY <1>7 DEF Block, Checks
<1>8. CASE Receive \/ AskAgain \/ Unblock \/ Resume \/ TakeHead \/ Free \/ TakeInner
  <2>1. ~sawDead' \/ rpc' \notin {"find", "avail", "tags"}
    BY <1>8 DEF Receive, AskAgain, Unblock, Resume, TakeHead, Free, TakeInner
  <2> QED BY <2>1
<1> QED BY <1>1, <1>2, <1>3, <1>4, <1>5, <1>6, <1>7, <1>8 DEF ReceiveStep

\* the invariant behind the refinement, beside IInv and WaitInv
InboxInv == Numbered /\ Once /\ Chosen /\ DeadSeen

\* the invariant holds of a fresh mailbox
LEMMA InboxInit == Init => InboxInv
<1> SUFFICES ASSUME Init PROVE InboxInv
  OBVIOUS
<1>1. /\ rpc = "idle" /\ sawDead = FALSE /\ got = {}
      /\ \A c \in Slots : rt[c] = 0 /\ rh[c] = 0
  BY DEF Init
<1>2. \A c \in Slots, i \in Nat : ~Live(c, i)
  BY <1>1 DEF Live
<1> QED BY <1>1, <1>2 DEF InboxInv, Numbered, Once, Chosen, Taking, DeadSeen

\* and every step keeps it
LEMMA InboxStep ==
  ASSUME IInv, WaitInv, InboxInv, [Next]_vars
  PROVE  InboxInv'
<1> USE DEF InboxInv, WaitInv
<1>1. CASE UNCHANGED vars
  <2>1. UNCHANGED <<box, rt, rh, ring, dead, late, recving, got, spc, nsent>>
    BY <1>1 DEF vars
  <2>2. Slots' = Slots
    BY <2>1, Same
  <2>3. Numbered'
    BY <2>1, <2>2 DEF Numbered, Live, At, Upto
  <2>4. Once'
    BY <2>1, <2>2 DEF Once, Live, At
  <2>5. UNCHANGED <<op, n, k, held, rpc, rhSeen, sawDead>>
    BY <1>1 DEF vars
  <2>6. Chosen' /\ DeadSeen'
    BY <2>1, <2>2, <2>5, Same DEF Chosen, DeadSeen, Live, At, Seen, Taking, Upto
  <2> QED BY <2>3, <2>4, <2>6
<1>2. CASE Next
  <2>1. box' = box
    BY <1>2 DEF Next
  <2>2. CASE ReceiveStep \/ KillOwner
    BY <2>1, <2>2, NumberedRecv, ChosenRecv, DeadSeenRecv
  <2>3. CASE \E s \in Senders : Act(s)
    BY <2>1, <2>3, NumberedSend, ChosenSend, DeadSeenSend
  <2> QED BY <1>2, <2>2, <2>3 DEF Next, Step, Act
<1> QED BY <1>1, <1>2

\* a lane is a sequence of messages, its entries the queued positions of the channel
LEMMA LaneIs ==
  ASSUME IInv, NEW c \in Slots
  PROVE  /\ Lane(c) \in Seq(Msgs) /\ Len(Lane(c)) = rt[c] - rh[c]
         /\ rt[c] - rh[c] \in Nat /\ rh[c] \in Nat /\ rt[c] \in Nat
         /\ \A i \in 1 .. rt[c] - rh[c] : Lane(c)[i] = At(c, rh[c] + i - 1)
                                          /\ rh[c] + i - 1 \in Nat /\ Live(c, rh[c] + i - 1)
<1>1. TTail /\ THead /\ Counted /\ Reals
  BY DEF IInv, Types
<1>2. PICK l \in Nat : l = rt[c] - rh[c] /\ rt[c] \in Nat /\ rh[c] \in Nat
  BY <1>1 DEF TTail, THead, Counted, Ordered
<1>3. ASSUME NEW i \in 1 .. l
      PROVE  /\ rh[c] + i - 1 \in Nat /\ Live(c, rh[c] + i - 1)
             /\ At(c, rh[c] + i - 1) \in Msgs
  <2>1. PICK j \in Nat : j = rh[c] + i - 1
    BY <1>2
  <2>2. Live(c, j)
    BY <1>2, <2>1 DEF Live
  <2>3. At(c, j) \in Msgs
    BY <1>1, <2>2 DEF Reals, Real
  <2> QED BY <2>1, <2>2, <2>3
<1>4. Lane(c) = [i \in 1 .. l |-> At(c, rh[c] + i - 1)]
  BY <1>2 DEF Lane
<1>5. Lane(c) \in [1 .. l -> Msgs]
  BY <1>3, <1>4
<1>6. Lane(c) \in Seq(Msgs) /\ Len(Lane(c)) = l
  BY <1>5
<1> QED BY <1>2, <1>3, <1>4, <1>6

\* a channel whose counters and queued entries stay has the same lane
LEMMA LaneStill ==
  ASSUME NEW c \in Slots, rt'[c] = rt[c], rh'[c] = rh[c], rt[c] \in Nat, rh[c] \in Nat,
         \A i \in Nat : Live(c, i) => At(c, i)' = At(c, i)
  PROVE  Lane(c)' = Lane(c)
<1>1. ASSUME NEW i \in 1 .. rt[c] - rh[c]
      PROVE  At(c, rh[c] + i - 1)' = At(c, rh[c] + i - 1)
  <2>1. PICK j \in Nat : j = rh[c] + i - 1
    OBVIOUS
  <2>2. Live(c, j)
    BY <2>1 DEF Live
  <2>3. At(c, j)' = At(c, j)
    BY <2>2
  <2>4. At(c, rh[c] + i - 1)' = At(c, j)'
    BY <2>1 DEF At
  <2> QED BY <2>1, <2>3, <2>4
<1> QED BY <1>1 DEF Lane

\* a publish appends to its lane
LEMMA LanePublish ==
  ASSUME IInv, NEW s \in Senders, Publish(s), NEW c \in Slots, c = chan[s]
  PROVE  Lane(c)' = Append(Lane(c), [from |-> s, no |-> nsent[s] + 1])
<1> DEFINE m == [from |-> s, no |-> nsent[s] + 1]
<1>1. PICK p \in Nat : p = rt[c]
  BY LaneIs
<1>2. rt'[c] = p + 1 /\ rh' = rh /\ ring' = ring /\ m \in Msgs /\ At(c, p)' = m
  BY <1>1, Published DEF IInv, Types, TTail
<1>3. PICK h \in Nat : h = rh[c]
  BY LaneIs
<1>4. PICK l \in Nat : l = p - h
  BY <1>1, <1>3, LaneIs
<1>5. Lane(c)' = [i \in 1 .. l + 1 |-> At(c, h + i - 1)']
  <2>1. rt'[c] - rh'[c] = l + 1 /\ rh'[c] = h
    BY <1>1, <1>2, <1>3, <1>4
  <2> QED BY <2>1 DEF Lane
<1>6. Lane(c) \in Seq(Msgs) /\ Len(Lane(c)) = l
        /\ \A i \in 1 .. l : Lane(c)[i] = At(c, h + i - 1)
  BY <1>1, <1>3, <1>4, LaneIs
<1>7. \A i \in 1 .. l : At(c, h + i - 1)' = At(c, h + i - 1)
  BY <1>2 DEF At
<1>8. Append(Lane(c), m) = [i \in 1 .. l + 1 |-> IF i <= l THEN Lane(c)[i] ELSE m]
  BY <1>2, <1>6
<1>9. ASSUME NEW i \in 1 .. l + 1
      PROVE  At(c, h + i - 1)' = IF i <= l THEN Lane(c)[i] ELSE m
  <2>1. CASE i <= l
    <3>1. i \in 1 .. l
      BY <2>1
    <3>2. At(c, h + i - 1)' = At(c, h + i - 1)
      BY <1>7, <3>1
    <3>3. Lane(c)[i] = At(c, h + i - 1)
      BY <1>6, <3>1
    <3> QED BY <2>1, <3>2, <3>3
  <2>2. CASE i = l + 1
    <3>1. h + i - 1 = p
      BY <1>4, <2>2
    <3>2. At(c, h + i - 1)' = At(c, p)'
      BY <3>1 DEF At
    <3> QED BY <1>2, <2>2, <3>2
  <2> QED BY <2>1, <2>2
<1> QED BY <1>5, <1>8, <1>9

\* what RemoveAt leaves, position by position
LEMMA RemoveAtIs ==
  ASSUME NEW S, NEW s \in Seq(S), NEW i \in 1 .. Len(s)
  PROVE  RemoveAt(s, i) = [j \in 1 .. Len(s) - 1 |-> IF j < i THEN s[j] ELSE s[j + 1]]
<1>1. Len(s) \in Nat /\ \A j \in 1 .. Len(s) : s[j] \in S
  OBVIOUS
<1>2. /\ SubSeq(s, 1, i - 1) \in Seq(S) /\ Len(SubSeq(s, 1, i - 1)) = i - 1
      /\ \A j \in 1 .. i - 1 : SubSeq(s, 1, i - 1)[j] = s[j]
  <2>1. 1 \in Int /\ i - 1 \in Int /\ \A j \in 1 .. i - 1 : s[j] \in S
    BY <1>1
  <2>2. /\ SubSeq(s, 1, i - 1) \in Seq(S)
        /\ Len(SubSeq(s, 1, i - 1)) = IF 1 <= i - 1 THEN i - 1 - 1 + 1 ELSE 0
        /\ \A j \in 1 .. i - 1 - 1 + 1 : SubSeq(s, 1, i - 1)[j] = s[1 + j - 1]
    BY <2>1, SubSeqProperties
  <2> QED BY <1>1, <2>2
<1>3. /\ SubSeq(s, i + 1, Len(s)) \in Seq(S) /\ Len(SubSeq(s, i + 1, Len(s))) = Len(s) - i
      /\ \A j \in 1 .. Len(s) - i : SubSeq(s, i + 1, Len(s))[j] = s[i + j]
  <2>1. i + 1 \in Int /\ Len(s) \in Int /\ \A j \in i + 1 .. Len(s) : s[j] \in S
    BY <1>1
  <2>2. /\ SubSeq(s, i + 1, Len(s)) \in Seq(S)
        /\ Len(SubSeq(s, i + 1, Len(s))) = IF i + 1 <= Len(s) THEN Len(s) - (i + 1) + 1 ELSE 0
        /\ \A j \in 1 .. Len(s) - (i + 1) + 1 : SubSeq(s, i + 1, Len(s))[j] = s[i + 1 + j - 1]
    BY <2>1, SubSeqProperties
  <2> QED BY <1>1, <2>2
<1> DEFINE a == SubSeq(s, 1, i - 1)  b == SubSeq(s, i + 1, Len(s))
           t == [j \in 1 .. Len(s) - 1 |-> IF j < i THEN s[j] ELSE s[j + 1]]
<1> HIDE DEF a, b
<1>4. /\ a \o b \in Seq(S) /\ Len(a \o b) = Len(s) - 1
      /\ \A j \in 1 .. Len(s) - 1 : (a \o b)[j] = IF j <= i - 1 THEN a[j] ELSE b[j - (i - 1)]
  <2>1. a \in Seq(S) /\ b \in Seq(S) /\ Len(a) = i - 1 /\ Len(b) = Len(s) - i
    BY <1>2, <1>3 DEF a, b
  <2>2. /\ a \o b \in Seq(S) /\ Len(a \o b) = Len(a) + Len(b)
        /\ \A j \in 1 .. Len(a) + Len(b) :
             (a \o b)[j] = IF j <= Len(a) THEN a[j] ELSE b[j - Len(a)]
    BY <2>1, ConcatProperties
  <2>3. Len(a) + Len(b) = Len(s) - 1
    BY <1>1, <2>1
  <2> QED BY <2>1, <2>2, <2>3
<1>5. t \in Seq(S) /\ Len(t) = Len(s) - 1
  <2>1. t \in [1 .. Len(s) - 1 -> S]
    BY <1>1
  <2>2. Len(s) - 1 \in Nat
    BY <1>1
  <2> QED BY <2>1, <2>2
<1>6. ASSUME NEW j \in 1 .. Len(s) - 1 PROVE (a \o b)[j] = t[j]
  <2>1. CASE j < i
    <3>1. a[j] = s[j]
      BY <1>1, <1>2, <2>1 DEF a
    <3> QED BY <1>1, <1>4, <2>1, <3>1
  <2>2. CASE ~(j < i)
    <3>1. PICK d \in 1 .. Len(s) - i : d = j - (i - 1)
      BY <1>1, <2>2
    <3>2. b[d] = s[i + d]
      BY <1>3 DEF b
    <3>3. i + d = j + 1
      BY <3>1
    <3>4. (a \o b)[j] = b[d]
      BY <1>1, <1>4, <2>2, <3>1
    <3> QED BY <2>2, <3>2, <3>3, <3>4
  <2> QED BY <2>1, <2>2
<1>7. a \o b = t
  BY <1>4, <1>5, <1>6, SeqEqual
<1> QED BY <1>7 DEF RemoveAt, a, b

\* a delivery removes one position of its lane and touches no other
LEMMA LaneTake ==
  ASSUME IInv, Free \/ TakeInner, box' = box, NEW c \in Slots, c = n
  PROVE  /\ k - rh[c] + 1 \in 1 .. Len(Lane(c)) /\ k \in Nat /\ Live(c, k)
         /\ Lane(c)[k - rh[c] + 1] = At(c, k)
         /\ Lane(c)' = RemoveAt(Lane(c), k - rh[c] + 1)
         /\ \A d \in Slots \ {c} : Lane(d)' = Lane(d)
<1>1. rh[c] <= k /\ k < rt[c] /\ k \in Nat /\ rh[c] \in Nat /\ rt[c] \in Nat
  <2>1. Takes /\ TPlace /\ TTail /\ THead
    BY DEF IInv, Types
  <2> QED BY <2>1, TakeEffect DEF Takes, TPlace, TTail, THead
<1>2. rt' = rt /\ rh'[c] = rh[c] + 1 /\ \A d \in Slots \ {c} : rh'[d] = rh[d]
  BY <1>1, TakeEffect DEF IInv, Types, THead
<1>3. PICK h \in Nat : h = rh[c]
  BY <1>1
<1>4. PICK l \in Nat : l = rt[c] - h /\ l > 0
  BY <1>1, <1>3
<1>5. PICK p \in 1 .. l : p = k - h + 1
  BY <1>1, <1>3, <1>4
<1>6. /\ Lane(c) \in Seq(Msgs) /\ Len(Lane(c)) = l
      /\ \A i \in 1 .. l : Lane(c)[i] = At(c, h + i - 1)
  BY <1>1, <1>3, <1>4, LaneIs
<1>7. RemoveAt(Lane(c), p) = [i \in 1 .. l - 1 |-> IF i < p THEN Lane(c)[i] ELSE Lane(c)[i + 1]]
  BY <1>6, RemoveAtIs
<1>8. Lane(c)' = [i \in 1 .. l - 1 |-> At(c, h + 1 + i - 1)']
  <2>1. rt'[c] - rh'[c] = l - 1 /\ rh'[c] = h + 1
    BY <1>1, <1>2, <1>3, <1>4
  <2> QED BY <2>1 DEF Lane
<1>9. ASSUME NEW i \in 1 .. l - 1
      PROVE  At(c, h + 1 + i - 1)' = IF i < p THEN Lane(c)[i] ELSE Lane(c)[i + 1]
  <2>1. PICK q \in Nat : q = h + i
    OBVIOUS
  <2>2. At(c, h + 1 + i - 1)' = At(c, q)'
    <3>1. h + 1 + i - 1 = q
      BY <2>1
    <3> QED BY <3>1 DEF At
  <2>3. Live(c, q)'
    <3>1. rh'[c] <= q /\ q < rt'[c]
      BY <1>1, <1>2, <1>3, <1>4, <2>1
    <3> QED BY <3>1 DEF Live
  <2>4. Lane(c)[i] = At(c, q - 1) /\ Lane(c)[i + 1] = At(c, q)
    <3>1. q - 1 = h + i - 1 /\ q = h + (i + 1) - 1 /\ i \in 1 .. l /\ i + 1 \in 1 .. l
      BY <1>4, <2>1
    <3>2. Lane(c)[i] = At(c, h + i - 1) /\ Lane(c)[i + 1] = At(c, h + (i + 1) - 1)
      BY <1>6, <3>1
    <3> QED BY <3>1, <3>2
  <2>5. i < p <=> q <= k
    BY <1>1, <1>5, <2>1
  <2> QED BY <1>1, <2>2, <2>3, <2>4, <2>5, LiveRecv DEF ReceiveStep
<1>10. Lane(c)' = RemoveAt(Lane(c), p)
  BY <1>7, <1>8, <1>9
<1>11. Lane(c)[p] = At(c, k)
  <2>1. h + p - 1 = k
    BY <1>1, <1>5
  <2> QED BY <1>6, <2>1
<1>12. ASSUME NEW d \in Slots \ {c} PROVE Lane(d)' = Lane(d)
  <2>1. rt'[d] = rt[d] /\ rh'[d] = rh[d] /\ rt[d] \in Nat /\ rh[d] \in Nat
    BY <1>2, LaneIs
  <2>2. ASSUME NEW i \in Nat, Live(d, i) PROVE At(d, i)' = At(d, i)
    <3>1. Live(d, i)'
      BY <2>1, <2>2 DEF Live
    <3> QED BY <1>1, <3>1, LiveRecv DEF ReceiveStep
  <2> QED BY <2>1, <2>2, LaneStill
<1>13. Live(c, k)
  BY <1>1 DEF Live
<1> QED BY <1>1, <1>3, <1>5, <1>6, <1>10, <1>11, <1>12, <1>13

\* the lanes of the abstract inbox
Lines == [c \in 1 .. MaxSlots |-> IF c \in Slots THEN Lane(c) ELSE <<>>]

\* channels with the same lanes make the same lines
LEMMA LinesSame ==
  ASSUME box' = box, \A c \in Slots : Lane(c)' = Lane(c)
  PROVE  Lines' = Lines
BY Same DEF Lines

\* a pending message of the inbox has a position in a channel
LEMMA Pends ==
  ASSUME IInv, NEW m \in Abs!Pending
  PROVE  \E c \in Slots, i \in Nat : Live(c, i) /\ m = At(c, i)
<1>1. PICK c \in 1 .. MaxSlots : m \in Range(Lines[c])
  BY DEF Abs!Pending, Lines, Abs!Range, Range
<1>2. CASE c \in Slots
  <2>1. m \in Range(Lane(c))
    BY <1>1, <1>2 DEF Lines
  <2>2. m \in Queued
    BY <1>2, <2>1 DEF Queued
  <2> QED BY <2>2, QueuedLive
<1>3. CASE c \notin Slots
  BY <1>1, <1>3 DEF Lines, Range
<1> QED BY <1>2, <1>3

\* a sender's step other than Publish changes no lane ...
LEMMA StillSend ==
  ASSUME IInv, NEW s \in Senders, Act(s), ~Publish(s), box' = box
  PROVE  Lines' = Lines
<1>1. rt' = rt /\ rh' = rh
  BY TailsSend, SendLocals
<1>2. ASSUME NEW c \in Slots PROVE Lane(c)' = Lane(c)
  <2>1. rt'[c] = rt[c] /\ rh'[c] = rh[c] /\ rt[c] \in Nat /\ rh[c] \in Nat
    BY <1>1, LaneIs
  <2>2. \A i \in Nat : Live(c, i) => At(c, i)' = At(c, i)
    BY RingsSend
  <2> QED BY <2>1, <2>2, LaneStill
<1> QED BY <1>2, LinesSame

\* ... nor does a step of the owner that delivers nothing
LEMMA StillRecv ==
  ASSUME IInv, ReceiveStep \/ KillOwner, ~Free, ~TakeInner, box' = box
  PROVE  Lines' = Lines
<1>1. rt' = rt /\ rh' = rh
  BY PassedRecv
<1>2. ASSUME NEW c \in Slots PROVE Lane(c)' = Lane(c)
  <2>1. rt'[c] = rt[c] /\ rh'[c] = rh[c] /\ rt[c] \in Nat /\ rh[c] \in Nat
    BY <1>1, LaneIs
  <2>2. ASSUME NEW i \in Nat, Live(c, i) PROVE At(c, i)' = At(c, i)
    <3>1. Live(c, i)'
      BY <1>1, <2>2 DEF Live
    <3> QED BY <3>1, LiveRecv
  <2> QED BY <2>1, <2>2, LaneStill
<1> QED BY <1>2, LinesSame

\* Publish is a Publish of the inbox
LEMMA PublishMaps ==
  ASSUME IInv, Numbered, NEW s \in Senders, Publish(s), box' = box
  PROVE  \E m \in Msgs \ got : \E l \in 1 .. MaxSlots : Abs!Publish(l, m)
<1>1. PICK c \in Slots : c = chan[s]
  BY DEF IInv, Types, TChan
<1>a. PICK m \in Msgs : m = [from |-> s, no |-> nsent[s] + 1]
  BY <1>1, Published
<1>2. /\ m \in Msgs /\ UNCHANGED <<got, dead, reply>> /\ nsent[s] \in Nat /\ c \in 1 .. MaxSlots
      /\ late' = (IF s \in dead THEN late \cup {m} ELSE late)
      /\ m.from = s /\ m.no = nsent[s] + 1 /\ box \in Boxes /\ Slots \subseteq 1 .. MaxSlots
  <2>1. box \in Boxes /\ nsent[s] \in Nat
    BY DEF IInv, Types, TSend
  <2>2. Slots \subseteq 1 .. MaxSlots
    BY <2>1, Const, MailboxAssumption
  <2>3. /\ UNCHANGED <<got, dead, reply>>
        /\ late' = (IF s \in dead THEN late \cup {m} ELSE late)
    BY <1>a, PublishEffect
  <2> QED BY <1>1, <1>a, <2>1, <2>2, <2>3
<1>3. Upto(s) = nsent[s]
  BY UptoSend DEF Act, SendStep
<1>4. m \notin got
  <2> SUFFICES ASSUME m \in got PROVE FALSE
    OBVIOUS
  <2>1. m.no <= Upto(m.from)
    BY DEF Numbered
  <2> QED BY <1>2, <1>3, <2>1
<1>5. m \notin Abs!Pending
  <2> SUFFICES ASSUME m \in Abs!Pending PROVE FALSE
    OBVIOUS
  <2>1. PICK d \in Slots, i \in Nat : Live(d, i) /\ m = At(d, i)
    BY Pends
  <2>2. m.no <= Upto(m.from)
    BY <2>1 DEF Numbered
  <2> QED BY <1>2, <1>3, <2>2
<1>6. Lane(c)' = Append(Lane(c), m)
  BY <1>1, <1>a, LanePublish
<1>7. \A d \in Slots \ {c} : Lane(d)' = Lane(d)
  <2> SUFFICES ASSUME NEW d \in Slots \ {c} PROVE Lane(d)' = Lane(d)
    OBVIOUS
  <2>1. rt'[d] = rt[d] /\ rh'[d] = rh[d] /\ rt[d] \in Nat /\ rh[d] \in Nat
    BY <1>1, PublishEffect, LaneIs DEF IInv, Types, TTail
  <2>2. \A i \in Nat : Live(d, i) => At(d, i)' = At(d, i)
    BY RingsSend DEF Act, SendStep
  <2> QED BY <2>1, <2>2, LaneStill
<1>8. Lines' = [Lines EXCEPT ![c] = Append(@, m)]
  <2>1. Slots' = Slots
    BY Same
  <2>2. \A d \in 1 .. MaxSlots : Lines'[d] = IF d = c THEN Append(Lines[d], m) ELSE Lines[d]
    BY <1>2, <1>6, <1>7, <2>1 DEF Lines
  <2> QED BY <2>2 DEF Lines
<1>9. Abs!Publish(c, m)
  BY <1>2, <1>4, <1>5, <1>8 DEF Abs!Publish, Lines
<1> QED BY <1>2, <1>4, <1>9

\* a delivery, at the head or further in, is a Deliver of the inbox
LEMMA TakeMaps ==
  ASSUME IInv, Once, Chosen, Free \/ TakeInner, box' = box
  PROVE  \E m \in Msgs \ got : \E o \in {"receive", "receiveRes", "receiveFrom",
           "receiveFromRes"},
           w \in Senders \cup {NoOne} : Abs!Deliver(m, o, w)
<1>1. PICK c \in Slots : c = n
  BY TakeEffect DEF IInv, Takes
<1>a. At(c, k) \in Msgs /\ k - rh[c] + 1 \in Int
  BY <1>1, LaneTake DEF IInv, Reals, Real
<1>b. PICK m \in Msgs, p \in Int : m = At(c, k) /\ p = k - rh[c] + 1
  BY <1>a
<1>2. /\ p \in 1 .. Len(Lane(c)) /\ k \in Nat /\ Live(c, k) /\ Lane(c)[p] = m
      /\ Lane(c)' = RemoveAt(Lane(c), p) /\ \A d \in Slots \ {c} : Lane(d)' = Lane(d)
  BY <1>1, <1>b, LaneTake
<1>3. /\ m \in Msgs /\ m \notin got /\ rh[c] \in Nat /\ Len(Lane(c)) = rt[c] - rh[c]
           /\ rt[c] \in Nat
      /\ \A j \in 1 .. rt[c] - rh[c] : Lane(c)[j] = At(c, rh[c] + j - 1)
  <2>1. m \notin got
    BY <1>2, <1>b DEF Once
  <2> QED BY <1>b, <2>1, LaneIs
<1>4. /\ op.op \in {"receive", "receiveRes", "receiveFrom", "receiveFromRes"}
      /\ op.who \in Senders \cup {NoOne}
  <2>1. box \in Boxes /\ TOp /\ Looks
    BY DEF IInv, Types
  <2>2. op # Idle
    BY <2>1, TakeEffect DEF Looks, Taking
  <2> QED BY <2>1, <2>2, Ops DEF TOp
<1>5. /\ got' = got \cup {m} /\ reply' = [op |-> op.op, who |-> op.who, msg |-> m]
           /\ dead' = dead /\ late' = late
  <2>1. CASE Free
    <3>1. held = m
      BY <1>1, <1>b, <2>1 DEF Free, IInv, Loaded
    <3> QED BY <2>1, <3>1 DEF Free
  <2>2. CASE TakeInner
    BY <1>1, <1>b, <2>2 DEF TakeInner
  <2> QED BY <2>1, <2>2
<1>6. Abs!Accepts(op.op, op.who, m)
  BY <1>1, <1>b, TakeEffect DEF Chosen, Abs!Accepts, Froms, Results
<1>7. \A j \in 1 .. p - 1 : ~Abs!Precedes(op.op, Lane(c)[j], m)
  <2> SUFFICES ASSUME NEW j \in 1 .. p - 1 PROVE ~Abs!Precedes(op.op, Lane(c)[j], m)
    OBVIOUS
  <2>1. PICK q \in Nat : q = rh[c] + j - 1
    BY <1>3
  <2>2. rh[c] <= q /\ q < k
    <3>1. k \in Int /\ rh[c] \in Int /\ p = k - rh[c] + 1
      BY <1>2, <1>3, <1>b
    <3>2. j \in Int /\ 1 <= j /\ j <= p - 1
      BY <3>1
    <3> QED BY <3>1, <3>2, <2>1
  <2>3. Lane(c)[j] = At(c, q)
    <3>1. j \in 1 .. rt[c] - rh[c]
      BY <1>2, <1>3
    <3> QED BY <1>3, <2>1, <3>1
  <2> QED BY <1>1, <1>b, <2>2, <2>3, TakeEffect DEF Chosen
<1>8. Slots \subseteq 1 .. MaxSlots
  <2>1. box \in Boxes
    BY DEF IInv, Types
  <2> QED BY <2>1, Const, MailboxAssumption
<1>9. Lines[c] = Lane(c) /\ Lines' = [Lines EXCEPT ![c] = RemoveAt(@, p)]
  <2>1. Slots' = Slots
    BY Same
  <2>2. \A d \in 1 .. MaxSlots : Lines'[d] = IF d = c THEN RemoveAt(Lines[d], p) ELSE Lines[d]
    BY <1>2, <1>8, <2>1 DEF Lines
  <2>3. Lines[c] = Lane(c)
    BY <1>8 DEF Lines
  <2> QED BY <2>2, <2>3 DEF Lines
<1>10. /\ c \in 1 .. MaxSlots /\ p \in 1 .. Len(Lines[c]) /\ Lines[c][p] = m
       /\ \A j \in 1 .. p - 1 : ~Abs!Precedes(op.op, Lines[c][j], m)
  BY <1>2, <1>7, <1>8, <1>9
<1>c. PICK o \in {"receive", "receiveRes", "receiveFrom", "receiveFromRes"},
           w \in Senders \cup {NoOne} : o = op.op /\ w = op.who
  BY <1>4
<1>11. Abs!Deliver(m, o, w)
  <2>1. /\ got' = got \cup {m} /\ reply' = [op |-> o, who |-> w, msg |-> m]
        /\ dead' = dead /\ late' = late
    BY <1>5, <1>c
  <2>2. Abs!Accepts(o, w, m)
    BY <1>6, <1>c
  <2>3. Lines' = [Lines EXCEPT ![c] = Abs!RemoveAt(@, p)]
    BY <1>9 DEF RemoveAt, Abs!RemoveAt
  <2>4. \A j \in 1 .. p - 1 : ~Abs!Precedes(o, Lines[c][j], m)
    BY <1>10, <1>c
  <2> HIDE DEF Abs!Precedes, Abs!RemoveAt
  <2> QED BY <1>10, <2>1, <2>2, <2>3, <2>4 DEF Abs!Deliver, Lines
<1> QED BY <1>3, <1>11

\* the answer "dead actor" is an AnswerDead of the inbox
LEMMA DeadMaps ==
  ASSUME IInv, DeadSeen, Tags, Tagged = {}, sawDead, box' = box
  PROVE  \E s \in Senders : Abs!AnswerDead(s)
<1>1. /\ rpc = "tags" /\ reply' = [op |-> "dead", who |-> op.who, msg |-> NoMsg]
      /\ UNCHANGED <<got, dead, late>>
  BY TagsEffect, RecvLocals DEF ReceiveStep
<1>2. op.who \in dead /\ op.who \in Senders /\ THead /\ TTail
  BY DEF IInv, Looks, Types, TDeaths
<1>3. Lines' = Lines
  BY StillRecv DEF ReceiveStep, Tags, Free, TakeInner
<1>4. ASSUME NEW m \in Abs!Pending, m.from = op.who PROVE m \in late
  <2>1. PICK c \in Slots, i \in Nat : Live(c, i) /\ m = At(c, i)
    BY Pends
  <2>2. CASE c = SHIDX
    <3>1. i \in rh[SHIDX] .. rt[SHIDX] - 1
      BY <1>2, <2>1, <2>2 DEF Live, THead, TTail
    <3> QED BY <1>4, <2>1, <2>2, <3>1 DEF Tagged
  <2>3. CASE c # SHIDX
    BY <1>1, <1>4, <2>1, <2>3 DEF DeadSeen, Seen
  <2> QED BY <2>2, <2>3
<1>5. Abs!AnswerDead(op.who)
  BY <1>1, <1>2, <1>3, <1>4 DEF Abs!AnswerDead, Lines
<1> QED BY <1>2, <1>5

\* the answer changes when a receive starts, delivers or finds its sender dead
LEMMA RecvReply ==
  ASSUME ReceiveStep \/ KillOwner, ~Free, ~TakeInner
  PROVE  /\ got' = got
         /\ reply' = reply \/ (Receive /\ reply' = NoReply) \/ (Tags /\ Tagged = {} /\ sawDead)
<1>1. CASE Receive \/ LookAny \/ LookRes \/ Ask \/ Find \/ Avail
  BY <1>1 DEF Receive, LookAny, LookRes, Ask, Find, Avail
<1>2. CASE Tags
  BY <1>2, TagsEffect
<1>3. CASE Block \/ AskAgain \/ Unblock \/ Resume \/ TakeHead \/ KillOwner
  BY <1>3 DEF Block, AskAgain, Unblock, Resume, TakeHead, KillOwner
<1> QED BY <1>1, <1>2, <1>3 DEF ReceiveStep

\* a fresh mailbox is an empty inbox
LEMMA InitMaps == Init => Abs!Init
<1> SUFFICES ASSUME Init PROVE Abs!Init
  OBVIOUS
<1>1. /\ got = {} /\ dead = {} /\ late = {} /\ reply = NoReply
      /\ \A c \in Slots : rt[c] = 0 /\ rh[c] = 0
  BY DEF Init
<1>2. \A c \in Slots : Lane(c) = <<>>
  BY <1>1 DEF Lane
<1>3. Lines = [l \in 1 .. MaxSlots |-> <<>>]
  BY <1>2 DEF Lines
<1> QED BY <1>1, <1>3 DEF Abs!Init, Lines, NoReply, Abs!NoReply

\* every step of the mailbox is a step of the inbox or changes nothing of it
LEMMA StepMaps ==
  ASSUME IInv, InboxInv, [Next]_vars
  PROVE  [Abs!Next]_(Abs!vars)
<1> USE DEF InboxInv
<1>0. ASSUME UNCHANGED <<got, dead, late, reply>>, Lines' = Lines PROVE UNCHANGED Abs!vars
  BY <1>0 DEF Abs!vars, Lines
<1>1. CASE UNCHANGED vars
  <2>1. UNCHANGED <<box, rt, rh, ring, got, dead, late, reply>>
    BY <1>1 DEF vars
  <2>2. Lines' = Lines
    BY <2>1, Same DEF Lines, Lane, At
  <2> QED BY <1>0, <2>1, <2>2
<1>2. CASE Next
  <2>1. box' = box
    BY <1>2 DEF Next
  <2>2. ASSUME NEW s \in Senders, Act(s) PROVE [Abs!Next]_(Abs!vars)
    <3>1. UNCHANGED <<got, reply>>
      BY <2>2, SendLocals
    <3>2. CASE Publish(s)
      <4>1. \E m \in Msgs \ got : \E l \in 1 .. MaxSlots : Abs!Publish(l, m)
        BY <2>1, <3>2, PublishMaps
      <4> QED BY <4>1 DEF Abs!Next
    <3>3. CASE Die(s)
      <4>1. ~Publish(s)
        <5>1. Die(s) => rt' = rt /\ spc' = spc
          BY DEF Die
        <5>2. Publish(s) => spc' = [spc EXCEPT ![s] = "wake"] /\ spc[s] = "publish"
          BY PublishEffect
        <5>3. TSpc
          BY DEF IInv, Types
        <5> QED BY <3>3, <5>1, <5>2, <5>3 DEF TSpc
      <4>2. Lines' = Lines
        BY <2>1, <2>2, <4>1, StillSend
      <4>3. s \notin dead /\ dead' = dead \cup {s} /\ late' = late
        BY <3>3 DEF Die
      <4>4. Abs!End(s)
        BY <3>1, <4>2, <4>3 DEF Abs!End, Lines
      <4> QED BY <4>4 DEF Abs!Next
    <3>4. CASE ~Publish(s) /\ ~Die(s)
      <4>1. Lines' = Lines /\ dead' = dead /\ late' = late
        BY <2>1, <2>2, <3>4, StillSend, DeathsSend
      <4> QED BY <1>0, <3>1, <4>1
    <3> QED BY <3>2, <3>3, <3>4
  <2>3. CASE ReceiveStep \/ KillOwner
    <3>1. dead' = dead /\ late' = late
      BY <2>3, RecvLocals
    <3>2. CASE Free \/ TakeInner
      <4>1. \E m \in Msgs \ got : \E o \in {"receive", "receiveRes", "receiveFrom",
              "receiveFromRes"},
              w \in Senders \cup {NoOne} : Abs!Deliver(m, o, w)
        BY <2>1, <3>2, TakeMaps
      <4> QED BY <4>1 DEF Abs!Next
    <3>3. CASE ~Free /\ ~TakeInner
      <4>1. Lines' = Lines /\ got' = got
        BY <2>1, <2>3, <3>3, StillRecv, RecvReply
      <4>2. CASE reply' = reply
        BY <1>0, <3>1, <4>1, <4>2
      <4>3. CASE reply' = NoReply
        <5>1. Abs!Ask
          BY <3>1, <4>1, <4>3 DEF Abs!Ask, Lines, NoReply, Abs!NoReply
        <5> QED BY <5>1 DEF Abs!Next
      <4>4. CASE Tags /\ Tagged = {} /\ sawDead
        <5>1. \E s \in Senders : Abs!AnswerDead(s)
          BY <2>1, <4>4, DeadMaps
        <5> QED BY <5>1 DEF Abs!Next
      <4> QED BY <2>3, <3>3, <4>2, <4>3, <4>4, RecvReply
    <3> QED BY <3>2, <3>3
  <2> QED BY <1>2, <2>2, <2>3 DEF Next, Step, Act
<1> QED BY <1>1, <1>2

\* The rings, the claims and take_at (chan_for, ring_push, a_receive and its selective
\* forms) together are the inbox of module Inbox, whoever is killed and wherever it stands,
\* until a slot is claimed from a killed sender that still uses it.
THEOREM Implements == Spec => ImplementsInbox
<1> DEFINE Good == IInv /\ WaitInv /\ InboxInv
<1>1. Init => (~overrun => Good)
  BY InitInv, WaitInit, InboxInit
<1>2. (~overrun => Good) /\ [Next]_vars => (~overrun => Good)'
  BY StepInv, WaitStep, InboxStep, OverrunStays
<1>3. Init => Abs!Init
  BY InitMaps
<1>4. (~overrun => Good) /\ [Next]_vars => [~overrun' => Abs!Next]_(Abs!vars)
  <2> SUFFICES ASSUME ~overrun => Good, [Next]_vars, ~overrun'
               PROVE  [Abs!Next]_(Abs!vars)
    OBVIOUS
  <2>1. Good
    BY OverrunStays
  <2> QED BY <2>1, StepMaps
<1> QED BY <1>1, <1>2, <1>3, <1>4, PTL DEF Spec, ImplementsInbox
=============================================================================
