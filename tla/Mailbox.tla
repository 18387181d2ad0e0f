------------------------------ MODULE Mailbox ------------------------------
(***************************************************************************)
(* One actor's mailbox (runtime/actors.c): D dedicated single-producer     *)
(* rings, each claimed by one sender, and one shared ring behind shlock    *)
(* for every further sender.  Senders run fpr_send_as, the owner runs      *)
(* receive, receiveFrom, receiveFromRes or receiveRes, all on different    *)
(* harts.  One step is one atomic access that another hart can tell apart, *)
(* or one lock region.                                                     *)
(*                                                                         *)
(* Abstractions.  A message is its sender and its number, which also       *)
(* stands for the tag of a shared slot.  The counters do not wrap.  The    *)
(* channel block stays mapped: its life after the owner's death, and       *)
(* bounded inboxes (inbox_max_messages), are not part of this module.      *)
(*                                                                         *)
(* A sender killed by another hart runs on to its next safepoint, so Die   *)
(* may hit it anywhere and it may even send again.  chan_for does not see  *)
(* that: a slot whose dead key's ring is drained is claimed while the dead *)
(* sender may still be in ring_push there.  overrun records that this has  *)
(* happened; from then on the ring has two writers and nothing is promised.*)
(***************************************************************************)
EXTENDS Naturals, Integers, FiniteSets, Sequences, SequencesExt

CONSTANTS
  Senders,     \* the actors that send here
  NoOne,       \* sender = 0: an unbound slot; also the null watch
  Boxes,       \* the mailboxes looked at, each with who uses it how:
               \*   d       dedicated slots
               \*   cap     slots of a fresh ring (spawnCap)
               \*   dyn     Dynamic n: a full ring doubles
               \*   sends   [Senders -> Nat]: sends made by each (a bound)
               \*   ops     the receives made: records [op, who]
               \*   mortal  the actors that may end: senders, and Owner
  MaxSlots,    \* bound: channels
  MaxSends,    \* bound: sends of a sender
  RingMax,     \* RING_MAX, where a Dynamic ring stops doubling
  ResultNos    \* which of a sender's messages are Results

ASSUME MailboxAssumption ==
  /\ NoOne \notin Senders \cup {"shared"}
  /\ \A b \in Boxes :
       /\ b.d \in 1 .. MaxSlots - 1 /\ b.cap \in Nat \ {0} /\ b.dyn \in BOOLEAN
       /\ b.sends \in [Senders -> 0 .. MaxSends]
       /\ b.ops \subseteq [op : {"receive", "receiveRes"}, who : {NoOne}]
                           \cup [op : {"receiveFrom", "receiveFromRes"}, who : Senders]
  /\ MaxSlots \in Nat /\ MaxSends \in Nat /\ RingMax \in Nat
  /\ ResultNos \subseteq Nat

SHARED  == "shared"                \* SHARED_KEY
Owner   == "owner"                 \* the actor that receives here
Msgs    == [from : Senders, no : 1 .. MaxSends]
NoMsg   == [from |-> NoOne, no |-> 0]
Results == {m \in Msgs : m.no \in ResultNos}

VARIABLES
  box,         \* the mailbox, of Boxes
  \* the channels
  sender,      \* [Slots -> key]
  rt, rh,      \* free-running tail and head
  rtSeen,      \* the consumer's last view of rt
  rhSeen,      \* the producer's last view of rh
  ring,        \* the ring in force: [cap, slot]
  shlock,      \* who holds a->shlock, or NoOne
  \* the owner's control block
  status,      \* its status word
  scan,        \* where the round-robin scan starts
  watch,       \* the sender its receiveFromRes waits for
  \* the senders
  spc, nsent,
  chan,        \* the slot being scanned, then the channel resolved
  cand,        \* free_slot and free_expect: <<slot, key>>, or <<>>
  at, blk,     \* rt and the ring's capacity as ring_push loaded them
  dead,        \* the senders that are DEAD
  mourn,       \* those whose watchers are still to be woken
  late,        \* history: messages published by senders already dead
  overrun,     \* history: a slot was claimed from a sender still using it
  \* the owner inside a receive
  rpc, op,     \* where it stands, and the receive it is in
  check,       \* it is running block_unless's predicate
  sawDead,     \* receiveFromRes: the status read first
  n,           \* channels looked at so far; then the one found
  k,           \* the logical position found there
  held,        \* the message take_at has loaded
  \* history
  got, reply,  \* the delivered messages, the last answer
  passed       \* receives that took from elsewhere while a channel waited

chans   == <<sender, rt, rh, rtSeen, rhSeen, ring>>
acb     == <<status, scan, watch>>
sending == <<spc, nsent, chan, cand, at, blk>>
deaths  == <<dead, mourn, late, overrun>>
recving == <<rpc, op, check, sawDead, n, k, held>>
history == <<got, reply, passed>>
vars    == <<box, chans, shlock, acb, sending, deaths, recving, history>>

D       == box.d
SHIDX   == D + 1                   \* slots are numbered from 1
Slots   == 1 .. SHIDX

Idle    == [op |-> "none", who |-> NoOne]
NoReply == [op |-> "none", who |-> NoOne, msg |-> NoMsg]

\* fpr_actors_init, spawn: every slot unbound, every counter zero
Init ==
  /\ box \in Boxes
  /\ sender = [c \in Slots |-> IF c = SHIDX THEN SHARED ELSE NoOne]
  /\ rt = [c \in Slots |-> 0] /\ rh = [c \in Slots |-> 0]
  /\ rtSeen = [c \in Slots |-> 0] /\ rhSeen = [c \in Slots |-> 0]
  /\ ring = [c \in Slots |-> [cap |-> box.cap, slot |-> [i \in 0 .. box.cap - 1 |-> NoMsg]]]
  /\ shlock = NoOne
  /\ status = "READY" /\ scan = 0 /\ watch = NoOne
  /\ spc = [s \in Senders |-> "idle"] /\ nsent = [s \in Senders |-> 0]
  /\ chan = [s \in Senders |-> 1] /\ cand = [s \in Senders |-> <<>>]
  /\ at = [s \in Senders |-> 0] /\ blk = [s \in Senders |-> 0]
  /\ dead = {} /\ mourn = {} /\ late = {} /\ overrun = FALSE
  /\ rpc = "idle" /\ op = Idle /\ check = FALSE /\ sawDead = FALSE
  /\ n = 0 /\ k = 0 /\ held = NoMsg
  /\ got = {} /\ reply = NoReply
  /\ passed = [c \in Slots |-> 0]

-----------------------------------------------------------------------------
\* SLOT(rv, i)
At(c, i) == ring[c].slot[i % ring[c].cap]

\* the messages of channel c, oldest first
Lane(c) == [i \in 1 .. rt[c] - rh[c] |-> At(c, rh[c] + i - 1)]

Queued == UNION {Range(Lane(c)) : c \in Slots}

\* dead + drained: the slot may be claimed from its key
Reclaimable(c) ==
  sender[c] = NoOne \/ (sender[c] \in dead /\ rh[c] = rt[c])

SGoto(s, l) == spc' = [spc EXCEPT ![s] = l]

\* the send is over; its locals go
Sent(s) ==
  /\ SGoto(s, "idle")
  /\ nsent' = [nsent EXCEPT ![s] = @ + 1]
  /\ chan' = [chan EXCEPT ![s] = 1]
  /\ at' = [at EXCEPT ![s] = 0]
  /\ blk' = [blk EXCEPT ![s] = 0]
  /\ UNCHANGED cand

\* Bound: two writers can send the counters of a ring past each other for good,
\* so no send and no receive begins once a slot has been overrun.

(* fpr_send_as: a dead target is an answer, not a send *)
SendStart(s) ==
  /\ spc[s] = "idle" /\ ~overrun /\ nsent[s] < box.sends[s]
  /\ IF status = "DEAD"
       THEN Sent(s)
       ELSE SGoto(s, "scan") /\ UNCHANGED <<nsent, chan, cand, at, blk>>
  /\ UNCHANGED <<chans, shlock, acb, deaths, recving, history>>

\* Mutant: the first free slot ends the scan
ScanSlotEager(s) ==
  /\ spc[s] = "scan"
  /\ LET i == chan[s] IN
     \/ /\ sender[i] = s /\ SGoto(s, "push")
        /\ UNCHANGED <<chan, cand>>
     \/ /\ sender[i] # s /\ Reclaimable(i) /\ SGoto(s, "claim")
        /\ cand' = [cand EXCEPT ![s] = <<i, sender[i]>>]
        /\ UNCHANGED chan
     \/ /\ sender[i] # s /\ ~Reclaimable(i)
        /\ chan' = [chan EXCEPT ![s] = i + 1]
        /\ SGoto(s, IF i < D THEN "scan" ELSE "push")
        /\ UNCHANGED cand
  /\ UNCHANGED <<chans, shlock, acb, nsent, at, blk, deaths, recving, history>>

(* chan_for: one slot of the scan *)
ScanSlot(s) ==
  /\ spc[s] = "scan"
  /\ LET i    == chan[s]
         best == IF cand[s] = <<>> /\ Reclaimable(i) THEN <<i, sender[i]>> ELSE cand[s]
     IN
     IF sender[i] = s
       THEN SGoto(s, "push") /\ cand' = [cand EXCEPT ![s] = <<>>] /\ UNCHANGED chan
       ELSE /\ cand' = [cand EXCEPT ![s] = best]
            /\ chan' = [chan EXCEPT ![s] = IF i < D THEN i + 1
                                           ELSE IF best = <<>> THEN SHIDX ELSE i]
            /\ SGoto(s, IF i < D THEN "scan"
                        ELSE IF best = <<>> THEN "push" ELSE "claim")
  /\ UNCHANGED <<chans, shlock, acb, nsent, at, blk, deaths, recving, history>>

\* the sender o that slot i is claimed from has left a message there, or has
\* resolved the slot and stands in ring_push
StillUses(o, i) ==
  \/ rh[i] # rt[i]
  \/ /\ o \in Senders /\ chan[o] = i
     /\ spc[o] \in {"push", "write", "publish", "grow", "install"}

\* Mutant: the candidate's counters are reset before the CAS is won
ClaimResets(s) ==
  /\ spc[s] = "claim"
  /\ LET i == cand[s][1] IN
     /\ rt' = [rt EXCEPT ![i] = rh[i]]
     /\ IF sender[i] = cand[s][2]
          THEN /\ sender' = [sender EXCEPT ![i] = s]
               /\ overrun' = (overrun \/ StillUses(cand[s][2], i))
               /\ chan' = [chan EXCEPT ![s] = i]
               /\ SGoto(s, "push")
          ELSE /\ chan' = [chan EXCEPT ![s] = 1]
               /\ SGoto(s, "scan")
               /\ UNCHANGED <<sender, overrun>>
  /\ cand' = [cand EXCEPT ![s] = <<>>]
  /\ UNCHANGED <<rh, rtSeen, rhSeen, ring, shlock, acb, nsent, at, blk, dead,
                 mourn, late, recving, history>>

\* chan_for: the CAS on the candidate's sender key; the loser scans again
Claim(s) ==
  /\ spc[s] = "claim"
  /\ LET i == cand[s][1] IN
     IF sender[i] = cand[s][2]
       THEN /\ sender' = [sender EXCEPT ![i] = s]
            /\ overrun' = (overrun \/ StillUses(cand[s][2], i))
            /\ chan' = [chan EXCEPT ![s] = i]
            /\ SGoto(s, "push")
       ELSE /\ chan' = [chan EXCEPT ![s] = 1]
            /\ SGoto(s, "scan")
            /\ UNCHANGED <<sender, overrun>>
  /\ cand' = [cand EXCEPT ![s] = <<>>]
  /\ UNCHANGED <<rt, rh, rtSeen, rhSeen, ring, shlock, acb, nsent, at, blk, dead,
                 mourn, late, recving, history>>

\* the producer's view of the head: rh is read again only when it looks full
HeadView(c) == IF rt[c] - rhSeen[c] >= ring[c].cap THEN rh[c] ELSE rhSeen[c]

(* ring_push, up to its decision; the shared ring is pushed under shlock *)
Push(s) ==
  /\ spc[s] = "push"
  /\ LET c == chan[s] IN
     /\ c = SHIDX => shlock = NoOne
     /\ \/ /\ status = "DEAD"
           /\ Sent(s)
           /\ UNCHANGED <<rhSeen, shlock>>
        \/ /\ status # "DEAD" /\ rt[c] - HeadView(c) < ring[c].cap
           /\ rhSeen' = [rhSeen EXCEPT ![c] = HeadView(c)]
           /\ at' = [at EXCEPT ![s] = rt[c]]
           /\ blk' = [blk EXCEPT ![s] = ring[c].cap]
           /\ shlock' = IF c = SHIDX THEN s ELSE shlock
           /\ SGoto(s, "write")
           /\ UNCHANGED <<nsent, chan, cand>>
        \/ /\ status # "DEAD" /\ rt[c] - HeadView(c) >= ring[c].cap
           /\ rhSeen' = [rhSeen EXCEPT ![c] = HeadView(c)]
           /\ IF box.dyn /\ ring[c].cap < RingMax
                THEN /\ blk' = [blk EXCEPT ![s] = ring[c].cap]
                     /\ SGoto(s, "grow")
                     /\ UNCHANGED <<nsent, chan, cand, at>>
                ELSE Sent(s)                              \* "mailbox full"
           /\ UNCHANGED shlock
  /\ UNCHANGED <<sender, rt, rh, rtSeen, ring, acb, deaths, recving, history>>

\* the slot is filled (in the block that was in force at Push) ...
Write(s) ==
  /\ spc[s] = "write"
  /\ LET c == chan[s] IN
     ring' = IF ring[c].cap = blk[s]
               THEN [ring EXCEPT ![c].slot[at[s] % blk[s]] =
                                    [from |-> s, no |-> nsent[s] + 1]]
               ELSE ring
  /\ SGoto(s, "publish")
  /\ UNCHANGED <<sender, rt, rh, rtSeen, rhSeen, shlock, acb, nsent, chan, cand, at, blk,
                 deaths, recving, history>>

\* ... then rt is released
Publish(s) ==
  /\ spc[s] = "publish"
  /\ rt' = [rt EXCEPT ![chan[s]] = at[s] + 1]
  /\ shlock' = IF chan[s] = SHIDX THEN NoOne ELSE shlock
  /\ late' = IF s \in dead THEN late \cup {[from |-> s, no |-> nsent[s] + 1]} ELSE late
  /\ SGoto(s, "wake")
  /\ UNCHANGED <<sender, rh, rtSeen, rhSeen, ring, acb, nsent, chan, cand, at, blk,
                 dead, mourn, overrun, recving, history>>

(* the doubled block is taken outside the lock; there may be none *)
Grow(s) ==
  /\ spc[s] = "grow"
  /\ \/ SGoto(s, "install") /\ UNCHANGED <<nsent, chan, cand, at, blk>>
     \/ Sent(s)                                           \* "mailbox full"
  /\ UNCHANGED <<chans, shlock, acb, deaths, recving, history>>

\* under shlock: a racer may have grown the ring; ring_install copies [rh, rt)
Install(s) ==
  /\ spc[s] = "install" /\ shlock = NoOne
  /\ LET c == chan[s] IN
     \/ /\ status = "DEAD" /\ Sent(s) /\ UNCHANGED ring
     \/ /\ status # "DEAD"
        /\ ring' =
             IF ring[c].cap >= 2 * blk[s] THEN ring
             ELSE [ring EXCEPT ![c] =
                    [cap  |-> 2 * blk[s],
                     slot |-> [i \in 0 .. 2 * blk[s] - 1 |->
                       IF \E j \in rh[c] .. rt[c] - 1 : j % (2 * blk[s]) = i
                         THEN At(c, CHOOSE j \in rh[c] .. rt[c] - 1 : j % (2 * blk[s]) = i)
                         ELSE NoMsg]]]
        /\ SGoto(s, "push")
        /\ UNCHANGED <<nsent, chan, cand, at, blk>>
  /\ UNCHANGED <<sender, rt, rh, rtSeen, rhSeen, shlock, acb, deaths, recving, history>>

(* after the fence, wake: CAS BLOCKED -> READY *)
Wake(s) ==
  /\ spc[s] = "wake"
  /\ status' = IF status = "BLOCKED" THEN "READY" ELSE status
  /\ Sent(s)
  /\ UNCHANGED <<chans, shlock, scan, watch, deaths, recving, history>>

(* a sender returns, or is killed wherever it stands; its watchers are next *)
Die(s) ==
  /\ s \in box.mortal \ dead
  /\ dead' = dead \cup {s}
  /\ mourn' = mourn \cup {s}
  /\ UNCHANGED <<chans, shlock, acb, sending, late, overrun, recving, history>>

WakeWatchers(s) ==
  /\ s \in mourn
  /\ status' = IF watch = s /\ status = "BLOCKED" THEN "READY" ELSE status
  /\ mourn' = mourn \ {s}
  /\ UNCHANGED <<chans, shlock, scan, watch, sending, dead, late, overrun, recving,
                 history>>

(* the owner is killed *)
KillOwner ==
  /\ Owner \in box.mortal /\ status # "DEAD"
  /\ status' = "DEAD"
  /\ UNCHANGED <<chans, shlock, scan, watch, sending, deaths, recving, history>>

-----------------------------------------------------------------------------
Selective == op.op \in {"receiveFrom", "receiveFromRes"}

\* the head of the loop of receive o
Top(o) ==
  /\ rpc' = CASE o.op = "receiveFrom"    -> "find"
              [] o.op = "receiveFromRes" -> "ask"
              [] OTHER                   -> "look"
  /\ n' = IF o.op = "receiveFrom" THEN 1 ELSE 0
  /\ check' = FALSE
  /\ sawDead' = FALSE

Receive ==
  /\ rpc = "idle" /\ ~overrun
  /\ \E o \in box.ops : op' = o /\ Top(o)
  /\ reply' = NoReply
  /\ UNCHANGED <<chans, shlock, acb, sending, deaths, k, held, got, passed>>

\* a message is there: take it; or, in the predicate, do not park
Found(c, i) ==
  IF check
    THEN rpc' = "unblock" /\ UNCHANGED <<n, k>>
    ELSE rpc' = "take" /\ n' = c /\ k' = i

\* nothing found: park, or after block_unless's second look stay parked
Missed ==
  /\ rpc' = IF ~check THEN "block"
            ELSE IF op.op = "receiveFromRes" THEN "askAgain" ELSE "parked"
  /\ n' = 0
  /\ UNCHANGED k

\* Mutant: the predicate of block_unless trusts the cached view
TailViewCached(c) == IF check \/ rtSeen[c] - rh[c] > 0 THEN rtSeen[c] ELSE rt[c]

\* the consumer's view of the tail: rt is read again only when the view, taken
\* as a signed difference, holds nothing
TailView(c) == IF rtSeen[c] - rh[c] > 0 THEN rtSeen[c] ELSE rt[c]

\* Mutant: the scan starts at the same channel every time
LookAnyFixed ==
  /\ rpc = "look" /\ op.op = "receive"
  /\ LET c == (n % SHIDX) + 1
         v == IF sender[c] = NoOne THEN rtSeen[c] ELSE TailView(c)
     IN
     /\ rtSeen' = [rtSeen EXCEPT ![c] = v]
     /\ IF sender[c] # NoOne /\ v # rh[c]
          THEN Found(c, rh[c])
          ELSE IF n < D THEN n' = n + 1 /\ UNCHANGED <<rpc, k>> ELSE Missed
  /\ UNCHANGED <<sender, rt, rh, rhSeen, ring, shlock, acb, sending, deaths,
                 op, check, sawDead, held, history>>

\* one channel of the scan of a_receive or of p_any
LookAny ==
  /\ rpc = "look" /\ op.op = "receive"
  /\ LET c == ((IF check THEN n ELSE scan + n) % SHIDX) + 1
         v == IF sender[c] = NoOne THEN rtSeen[c] ELSE TailView(c)
     IN
     /\ rtSeen' = [rtSeen EXCEPT ![c] = v]
     /\ IF sender[c] # NoOne /\ v # rh[c]
          THEN /\ Found(c, rh[c])
               /\ scan' = IF check THEN scan ELSE c % SHIDX
          ELSE /\ IF n < D THEN n' = n + 1 /\ UNCHANGED <<rpc, k>> ELSE Missed
               /\ UNCHANGED scan
  /\ UNCHANGED <<sender, rt, rh, rhSeen, ring, shlock, status, watch, sending, deaths,
                 op, check, sawDead, held, history>>

\* one channel of the scan of a_receive_res or of p_res
LookRes ==
  /\ rpc = "look" /\ op.op = "receiveRes"
  /\ LET c == ((IF check THEN n ELSE scan + n) % SHIDX) + 1
         R == {i \in rh[c] .. rt[c] - 1 : At(c, i) \in Results}
     IN IF sender[c] # NoOne /\ R # {}
          THEN Found(c, CHOOSE i \in R : \A j \in R : i <= j)
          ELSE IF n < D THEN n' = n + 1 /\ UNCHANGED <<rpc, k>> ELSE Missed
  /\ UNCHANGED <<chans, shlock, acb, sending, deaths, op, check, sawDead, held, history>>

\* receiveFromRes reads the sender's death before the queues
Ask ==
  /\ rpc = "ask"
  /\ sawDead' = (op.who \in dead)
  /\ rpc' = "find" /\ n' = 1
  /\ UNCHANGED <<chans, shlock, acb, sending, deaths, op, check, k, held, history>>

\* chan_for(a, who, 0): the slot whose key is who
Find ==
  /\ rpc = "find"
  /\ IF sender[n] = op.who
       THEN rpc' = "avail" /\ UNCHANGED n
       ELSE IF n < D THEN n' = n + 1 /\ UNCHANGED rpc
                     ELSE rpc' = "tags" /\ n' = 0
  /\ UNCHANGED <<chans, shlock, acb, sending, deaths, op, check, sawDead, k, held, history>>

\* ch_avail of the slot found
Avail ==
  /\ rpc = "avail"
  /\ rtSeen' = [rtSeen EXCEPT ![n] = TailView(n)]
  /\ IF TailView(n) # rh[n]
       THEN Found(n, rh[n])
       ELSE rpc' = "tags" /\ n' = 0 /\ UNCHANGED k
  /\ UNCHANGED <<sender, rt, rh, rhSeen, ring, shlock, acb, sending, deaths, op, check,
                 sawDead, held, history>>

\* sh_has_from: the first entry of the shared ring tagged who; if there is
\* none, answer the death that was read first, or publish watch and park
Tags ==
  /\ rpc = "tags"
  /\ LET R == {i \in rh[SHIDX] .. rt[SHIDX] - 1 : At(SHIDX, i).from = op.who} IN
     \/ /\ R # {}
        /\ Found(SHIDX, CHOOSE i \in R : \A j \in R : i <= j)
        /\ UNCHANGED <<watch, reply, op, sawDead>>
     \/ /\ R = {} /\ sawDead
        /\ reply' = [op |-> "dead", who |-> op.who, msg |-> NoMsg]
        /\ rpc' = "idle" /\ op' = Idle /\ sawDead' = FALSE
        /\ n' = 0
        /\ UNCHANGED <<k, watch>>
     \/ /\ R = {} /\ ~sawDead
        /\ Missed
        /\ watch' = IF op.op = "receiveFromRes" THEN op.who ELSE watch
        /\ UNCHANGED <<reply, op, sawDead>>
  /\ UNCHANGED <<chans, shlock, status, scan, sending, deaths, check, held, got, passed>>

(* block_unless: CAS READY -> BLOCKED; a killed owner parks for ever *)
Block ==
  /\ rpc = "block"
  /\ IF status = "READY"
       THEN /\ status' = "BLOCKED"
            /\ check' = TRUE
            /\ rpc' = IF Selective THEN "find" ELSE "look"
            /\ n' = IF Selective THEN 1 ELSE 0
       ELSE rpc' = "gone" /\ UNCHANGED <<status, check, n>>
  /\ UNCHANGED <<chans, shlock, scan, watch, sending, deaths, op, sawDead, k, held, history>>

\* p_from_dead's last question
AskAgain ==
  /\ rpc = "askAgain"
  /\ rpc' = IF op.who \in dead THEN "unblock" ELSE "parked"
  /\ UNCHANGED <<chans, shlock, acb, sending, deaths, op, check, sawDead, n, k, held, history>>

\* the wait is over before it began
Unblock ==
  /\ rpc = "unblock"
  /\ status' = IF status = "BLOCKED" THEN "READY" ELSE status
  /\ watch' = NoOne
  /\ Top(op)
  /\ UNCHANGED <<chans, shlock, scan, sending, deaths, op, k, held, history>>

\* woken and dispatched again
Resume ==
  /\ rpc = "parked" /\ status = "READY"
  /\ watch' = NoOne
  /\ Top(op)
  /\ UNCHANGED <<chans, shlock, status, scan, sending, deaths, op, k, held, history>>

\* the message taken at channel c answers the receive
Answer(m) ==
  /\ got' = got \cup {m}
  /\ reply' = [op |-> op.op, who |-> op.who, msg |-> m]
  /\ passed' = [c \in Slots |->
       IF c = n \/ rh[c] = rt[c] THEN 0
       ELSE IF op.op = "receive" THEN passed[c] + 1 ELSE passed[c]]
  /\ rpc' = "idle" /\ op' = Idle /\ check' = FALSE /\ sawDead' = FALSE
  /\ n' = 0 /\ k' = 0 /\ held' = NoMsg

(* take_at the head: the slot is read ... *)
TakeHead ==
  /\ rpc = "take" /\ k = rh[n]
  /\ held' = At(n, k)
  /\ rpc' = "free"
  /\ UNCHANGED <<chans, shlock, acb, sending, deaths, op, check, sawDead, n, k, history>>

\* ... and only then given back
Free ==
  /\ rpc = "free"
  /\ rh' = [rh EXCEPT ![n] = @ + 1]
  /\ Answer(held)
  /\ UNCHANGED <<sender, rt, rtSeen, rhSeen, ring, shlock, acb, sending, deaths>>

(* take_at further in, under shlock: the entries before it move up one *)
TakeInner ==
  /\ rpc = "take" /\ k # rh[n] /\ shlock = NoOne
  /\ LET cap == ring[n].cap IN
     ring' = [ring EXCEPT ![n].slot =
               [i \in DOMAIN @ |->
                  IF \E j \in rh[n] + 1 .. k : j % cap = i
                    THEN At(n, (CHOOSE j \in rh[n] + 1 .. k : j % cap = i) - 1)
                    ELSE @[i]]]
  /\ rh' = [rh EXCEPT ![n] = @ + 1]
  /\ Answer(At(n, k))
  /\ UNCHANGED <<sender, rt, rtSeen, rhSeen, shlock, acb, sending, deaths>>

-----------------------------------------------------------------------------
SendStep(s) ==
  \/ SendStart(s) \/ ScanSlot(s) \/ Claim(s) \/ Push(s) \/ Write(s) \/ Publish(s)
  \/ Grow(s) \/ Install(s) \/ Wake(s)

ReceiveStep ==
  \/ Receive \/ LookAny \/ LookRes \/ Ask \/ Find \/ Avail \/ Tags
  \/ Block \/ AskAgain \/ Unblock \/ Resume \/ TakeHead \/ Free \/ TakeInner

Step ==
  \/ \E s \in Senders : SendStep(s) \/ Die(s) \/ WakeWatchers(s)
  \/ ReceiveStep
  \/ KillOwner

Next == Step /\ UNCHANGED box

Spec == Init /\ [][Next]_vars
-----------------------------------------------------------------------------
\* The counters keep their order whoever reads and writes them: no view of a
\* head is ahead of it, no ring holds more than its slots, and the tail is
\* never behind the head ("4 billion queued", ch_avail).
CountersOK ==
  \A c \in Slots :
    /\ rt[c] \in Nat /\ rh[c] \in Nat /\ rtSeen[c] \in Nat /\ rhSeen[c] \in Nat
    /\ rhSeen[c] <= rh[c] /\ rh[c] <= rt[c] /\ rtSeen[c] <= rt[c]
    /\ rt[c] - rh[c] <= ring[c].cap
    /\ ring[c].slot \in [0 .. ring[c].cap - 1 -> Msgs \cup {NoMsg}]

TypeOK ==
  /\ CountersOK
  /\ sender \in [Slots -> Senders \cup {NoOne, SHARED}]
  /\ shlock \in Senders \cup {NoOne}
  /\ status \in {"READY", "BLOCKED", "DEAD"} /\ scan \in 0 .. D
  /\ watch \in Senders \cup {NoOne}
  /\ spc \in [Senders -> {"idle", "scan", "claim", "push", "write", "publish",
                          "grow", "install", "wake"}]
  /\ chan \in [Senders -> Slots] /\ dead \subseteq Senders /\ mourn \subseteq dead
  /\ late \subseteq Msgs /\ overrun \in BOOLEAN
  /\ rpc \in {"idle", "look", "ask", "find", "avail", "tags", "block", "askAgain",
              "unblock", "parked", "gone", "take", "free"}
  /\ got \subseteq Msgs

\* A sender never owns two slots, however the claims and reclaims race.
OneSlot ==
  \A c, d \in 1 .. D : sender[c] = sender[d] /\ sender[c] # NoOne => c = d

\* the receive in progress has something to return for
Wanted ==
  CASE op.op = "receive"    -> Queued # {}
    [] op.op = "receiveRes" -> Queued \cap Results # {}
    [] OTHER -> \/ \E m \in Queued : m.from = op.who
                \/ op.op = "receiveFromRes" /\ op.who \in dead

\* The owner is not left parked while what it waits for is there, unless a
\* sender or a dying actor is about to wake it: the Dekker pairing of
\* block_unless and fpr_send_as, seen through the cached tails and the claims,
\* until a slot is claimed under a killed sender that still uses it.
NoStrand ==
  ~overrun /\ rpc = "parked" /\ status = "BLOCKED" /\ Wanted =>
    \/ \E s \in Senders : spc[s] = "wake"
    \/ watch \in mourn

\* "fair receive: round-robin over channels" (a_receive): while a channel holds
\* a message, receive answers from the others at most once each (until a slot
\* is claimed under a killed sender that still uses it).
FairTurns == ~overrun => \A c \in Slots : passed[c] <= D

\* The rings, the claims and take_at together are the inbox of module Inbox:
\* nothing published is lost, repeated, made up or taken out of its lane's
\* order, and "dead actor" comes after all the sender published while it lived.
\* This is so whoever is killed and wherever it stands, as long as no slot has
\* been claimed from a killed sender that still uses it (overrun).
Abs == INSTANCE Inbox WITH Lanes <- 1 .. MaxSlots,
                           lane <- [c \in 1 .. MaxSlots |-> IF c \in Slots THEN Lane(c) ELSE <<>>],
                           ended <- dead
ImplementsInbox == Abs!Init /\ [][~overrun' => Abs!Next]_(Abs!vars)

\* "selective receive by SENDER: only that sender's channel" (a_receive_from):
\* what a selective receive returns was sent by the actor it names.
FromRight ==
  reply.op \in {"receiveFrom", "receiveFromRes"} => reply.msg.from = reply.who

\* "per-sender FIFO, including the shared overflow ring"
\* (docs/2026-10-13-DEADLINES-JOINS.md): with plain receives, no message is
\* delivered while an earlier one of its sender is still queued.
SenderFIFO ==
  \A m \in got, q \in Queued : m.from = q.from => m.no < q.no

\* "Every ring in the system still has exactly one writer and one reader": two
\* senders never fill the same ring at once.
OneWriter ==
  \A s, t \in Senders :
    spc[s] \in {"write", "publish"} /\ spc[t] \in {"write", "publish"}
      /\ chan[s] = chan[t] => s = t

\* The rings are sound: counters keep their order, no ring overflows, no sender
\* owns two of them and none has two writers, wherever a sender is killed, as
\* long as no slot has been claimed from a killed sender that still uses it.
RingsSound == ~overrun => TypeOK /\ OneSlot /\ OneWriter
=============================================================================
