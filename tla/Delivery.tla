------------------------------ MODULE Delivery ------------------------------
(***************************************************************************)
(* What happens to a message, and to the block of channels it is put in,   *)
(* when anyone dies on the way: sends to bounded and unbounded mailboxes   *)
(* against the kill and the reaping of the target and of the sender, the   *)
(* limbo list with its epochs, and the admission of a new actor that is    *)
(* given the dead one's block (runtime/actors.c).                          *)
(*                                                                         *)
(* A sender and the reaper run on harts of their own.  One action is one   *)
(* lock region or the accesses between two points where another hart can   *)
(* see a difference.  A sender's program counter is at "idle", "copy",     *)
(* "pin" or "grow" when its actor may be parked (it waits for memory):     *)
(* only there can its hart come round its loop, and only there is a killed *)
(* sender reaped.  Rings are sets: Mailbox is about their order.           *)
(***************************************************************************)
EXTENDS Integers, FiniteSets, FiniteSetsExt, Sequences, SequencesExt

CONSTANTS
  Senders,      \* sending actors, each on a hart of its own
  Actors,       \* the acbs of receiving actors
  First,        \* the one that exists at boot; the others are spawned
  Blocks,       \* blocks of channels (chblk_t)
  MaxMessages,  \* a bounded mailbox's limits
  MaxBytes,
  Size,         \* what each sender's messages are charged
  RingCap,      \* RING_CAP: slots of a channel of a fresh block
  MaxCap,       \* RING_MAX: where a Dynamic ring stops doubling
  SendMax,      \* bound: how often each sender sends
  SpawnMax,     \* bound: admissions tried
  Mortal,       \* senders that may be killed
  None,         \* nobody, nothing
  Kinds         \* "copy" (send), "move" (sendLinear of a received root)

Home == "home"        \* the hart that reaps and spawns
Harts == Senders \cup {Home}
Messages == UNION {{s} \X (1..SendMax[s]) : s \in Senders}

ASSUME DeliveryAssumption ==
  /\ First \in Actors /\ IsFiniteSet(Actors) /\ IsFiniteSet(Senders)
  /\ None \notin Senders \cup Actors \cup Blocks \cup Messages
  /\ Home \notin Senders
  /\ {MaxMessages, MaxBytes, RingCap, MaxCap} \subseteq Nat \ {0}
  /\ SendMax \in [Senders -> Nat]
  /\ SpawnMax \in Nat /\ Size \in [Senders -> Nat] /\ Mortal \subseteq Senders
  /\ Kinds \subseteq {"copy", "move"}

\* What one admission reserves, in a_spawn_heap's and a_spawn_inbox's order.
Order(kind) ==
  IF kind = "heap"
  THEN <<"grant", "stack", "buckets", "channels", "entry", "acb">>
  ELSE <<"stack", "buckets", "channels", "charges", "entry", "acb">>
Items == ToSet(Order("heap")) \cup ToSet(Order("inbox"))

VARIABLES
  acb,    \* receiving actors: status word, channel block, inbox account
  blk,    \* channel blocks: where each is, what its rings hold, its stamp
  snd,    \* senders: their acb's send_* fields and their registers
  rc,     \* ARC count of each message root
  out,    \* how many of each resource are taken
  sp      \* the spawner and its admission_t
vars == <<acb, blk, snd, rc, out, sp>>

-----------------------------------------------------------------------------
Entry == [m : Messages, to : Actors, charge : Nat]
NoEntry == [m |-> None, to |-> None, charge |-> 0]

Unborn == [var |-> "unborn", ch |-> None, bounded |-> FALSE, messages |-> 0,
           bytes |-> 0, items |-> {}, shlock |-> None, hand |-> NoEntry,
           rx |-> {}, life |-> "none"]

\* An actor with its block b, as spawn_on_pid_cap_heap leaves it.
Born(b, bounded, items) ==
  [Unborn EXCEPT !.var = "READY", !.ch = b, !.bounded = bounded,
                 !.items = items, !.life = "built"]

\* chan_init for every channel of a block: empty rings, nobody's budget.
Fresh(at) == [at |-> at, q |-> {}, owner |-> None,
              cap |-> [s \in Senders |-> RingCap], since |-> [h \in Harts |-> 0]]

SpawnItems(bounded) ==
  {"stack", "buckets", "channels", "entry", "acb"}
    \cup (IF bounded THEN {"charges"} ELSE {})

Init ==
  \E bounded \in BOOLEAN, b \in Blocks :
    /\ acb = [a \in Actors |-> IF a = First
                               THEN Born(b, bounded, SpawnItems(bounded))
                               ELSE Unborn]
    /\ blk = [c \in Blocks |->
                IF c = b THEN [Fresh("held") EXCEPT
                                 !.owner = IF bounded THEN First ELSE None]
                ELSE Fresh("list")]
    /\ snd = [s \in Senders |->
                [var |-> "READY", pc |-> "idle", to |-> None, m |-> None,
                 charge |-> 0, c |-> None, send_to |-> None,
                 send_root |-> None, hold |-> FALSE, left |-> SendMax[s]]]
    /\ rc = [m \in Messages |-> 0]
    /\ out = [i \in Items |-> IF i \in SpawnItems(bounded) THEN 1 ELSE 0]
    /\ sp = [var |-> "READY", pc |-> "idle", kind |-> "heap", n |-> 0,
             ch |-> None, cleanup |-> FALSE, left |-> SpawnMax]

-----------------------------------------------------------------------------
(* The account of a bounded mailbox.                                       *)

\* Mutant of Reservable: the bytes are compared before the new ones.
ReservableOff(a, z) ==
  /\ acb[a].var # "DEAD"
  /\ acb[a].messages < MaxMessages
  /\ acb[a].bytes <= MaxBytes

\* inbox_reserve under inbox_lock.
Reservable(a, z) ==
  /\ acb[a].var # "DEAD"
  /\ acb[a].messages < MaxMessages
  /\ acb[a].bytes + z <= MaxBytes

Charge(x, z) == [x EXCEPT !.messages = @ + 1, !.bytes = @ + z]

\* inbox_release: nothing for an actor without a limit.
Release(x, z) ==
  IF x.bounded THEN [x EXCEPT !.messages = @ - 1, !.bytes = @ - z] ELSE x

\* The entries es leave the rings of a's block: chan_drain's two calls.
ReleaseAll(x, es) ==
  IF x.bounded
  THEN [x EXCEPT !.messages = @ - Cardinality(es),
                 !.bytes = @ - MapThenSumSet(LAMBDA e : e.charge, es)]
  ELSE x

Decref(ms) == [m \in Messages |-> IF m \in ms THEN rc[m] - 1 ELSE rc[m]]
Roots(es) == {e.m : e \in es}

-----------------------------------------------------------------------------
(* A send.                                                                 *)

Ready(s, step) == snd[s].pc = step

Idle(x) == [x EXCEPT !.pc = "idle", !.to = None, !.m = None, !.charge = 0,
                     !.c = None, !.send_to = None, !.send_root = None,
                     !.hold = FALSE]

\* fpr_send_as, a_send_linear: the first look at the target and, for a
\* bounded one, the reservation.  A moved root comes with the count of the
\* turn that received it.
Start(s, a, kind) ==
  LET z == Size[s]
      m == <<s, snd[s].left>>
      b == acb[a].bounded
  IN
  /\ Ready(s, "idle") /\ snd[s].left > 0
  /\ acb[a].var # "unborn"
  /\ acb[a].var # "DEAD" /\ (b => Reservable(a, z))
  /\ snd' = [snd EXCEPT ![s] =
       [@ EXCEPT !.pc = CASE kind = "copy" -> "copy"
                          [] kind = "move" /\ b -> "lock"
                          [] OTHER -> "check",
                 !.to = a, !.m = m, !.left = snd[s].left - 1,
                 !.charge = IF b THEN z ELSE 0,
                 !.send_to = IF b THEN a ELSE None,
                 !.send_root = IF b /\ kind = "move" THEN m ELSE None]]
  /\ acb' = [acb EXCEPT ![a] = IF b THEN Charge(@, z) ELSE @]
  /\ rc' = [rc EXCEPT ![m] = IF kind = "move" THEN 1 ELSE @]
  /\ UNCHANGED <<blk, out, sp>>

\* "dead actor", "mailbox full", "message too large": a moved root is
\* dropped with the count it came with, a value to copy is left alone.
Refused(s, a) ==
  /\ Ready(s, "idle") /\ snd[s].left > 0
  /\ \/ acb[a].var = "DEAD"
     \/ acb[a].var = "READY" /\ acb[a].bounded /\ ~Reservable(a, Size[s])
  /\ snd' = [snd EXCEPT ![s].left = @ - 1]
  /\ UNCHANGED <<acb, blk, rc, out, sp>>

\* fpr_msg_copy_to, fpr_msg_copy_held_to: the copy is made, and for a
\* bounded target its slab is held for the sender.
Copy(s) ==
  /\ Ready(s, "copy")
  /\ snd' = [snd EXCEPT ![s].pc = "pin", ![s].hold = snd[s].send_to # None]
  /\ UNCHANGED <<acb, blk, rc, out, sp>>

\* fpr_arc_incref, and the root recorded before the hold is given up.
Pin(s) ==
  /\ Ready(s, "pin")
  /\ rc' = [rc EXCEPT ![snd[s].m] = @ + 1]
  /\ snd' = [snd EXCEPT ![s] =
       IF snd[s].send_to # None
       THEN [@ EXCEPT !.pc = "lock", !.send_root = snd[s].m, !.hold = FALSE]
       ELSE [@ EXCEPT !.pc = "check"]]
  /\ UNCHANGED <<acb, blk, out, sp>>

\* Mutant of Cancelled: the reservation is kept.
CancelledKeeps(s, acbs) == acbs

\* send_cancel: the root, then the reservation.
Cancelled(s, acbs) ==
  IF snd[s].send_to = None THEN acbs
  ELSE [acbs EXCEPT ![snd[s].send_to] = Release(@, snd[s].charge)]
CancelRoots(s) == IF snd[s].send_root = None THEN {} ELSE {snd[s].send_root}

\* ring_push of a bounded send: under shlock, the death check.
Lock(s) ==
  LET a == snd[s].to IN
  /\ Ready(s, "lock") /\ acb[a].shlock = None
  /\ IF acb[a].var = "DEAD"
     THEN /\ acb' = Cancelled(s, acb)
          /\ rc' = Decref(CancelRoots(s))
          /\ snd' = [snd EXCEPT ![s] = Idle(@)]
     ELSE /\ acb' = [acb EXCEPT ![a].shlock = s]
          /\ snd' = [snd EXCEPT ![s].pc = "publish"]
          /\ UNCHANGED rc
  /\ UNCHANGED <<blk, out, sp>>

Room(s, b) == Cardinality({e \in blk[b].q : e.m[1] = s}) < blk[b].cap[s]
Mail(s) == [m |-> snd[s].m, to |-> snd[s].to, charge |-> snd[s].charge]

\* Still under shlock: the channel, the slot and its charge, the unlock,
\* and send_committed; or a full ring, and send_cancel.
Publish(s) ==
  LET a == snd[s].to
      b == acb[a].ch
      unlocked == [acb EXCEPT ![a].shlock = None]
  IN
  /\ Ready(s, "publish") /\ b # None
  /\ IF Room(s, b)
     THEN /\ blk' = [blk EXCEPT ![b].q = @ \cup {Mail(s)}]
          /\ acb' = unlocked
          /\ UNCHANGED rc
     ELSE /\ acb' = Cancelled(s, unlocked)
          /\ rc' = Decref(CancelRoots(s))
          /\ UNCHANGED blk
  /\ snd' = [snd EXCEPT ![s] = Idle(@)]
  /\ UNCHANGED <<out, sp>>

\* The same to an unbounded target takes no lock against the reaper.
\* The message goes back if it has no one to go to.
GiveUp(s) ==
  /\ rc' = Decref({snd[s].m})
  /\ snd' = [snd EXCEPT ![s] = Idle(@)]

Check(s) ==
  /\ Ready(s, "check")
  /\ IF acb[snd[s].to].var = "DEAD"
     THEN GiveUp(s)
     ELSE snd' = [snd EXCEPT ![s].pc = "resolve"] /\ UNCHANGED rc
  /\ UNCHANGED <<acb, blk, out, sp>>

\* chan_for reads a->ch.
Resolve(s) ==
  /\ Ready(s, "resolve") /\ acb[snd[s].to].ch # None
  /\ snd' = [snd EXCEPT ![s].pc = "push", ![s].c = acb[snd[s].to].ch]
  /\ UNCHANGED <<acb, blk, rc, out, sp>>

\* The block is gone and the pointer is nil: the program faults here.
Fault(s) ==
  /\ snd[s].pc \in {"resolve", "publish"} /\ acb[snd[s].to].ch = None
  /\ snd' = [snd EXCEPT ![s].pc = "fault"]
  /\ UNCHANGED <<acb, blk, rc, out, sp>>

\* ring_push: the death check and the look at the ring.
PushLook(s) ==
  LET b == snd[s].c
      step(p) == snd' = [snd EXCEPT ![s].pc = p] /\ UNCHANGED rc
  IN
  /\ Ready(s, "push")
  /\ CASE acb[snd[s].to].var = "DEAD" -> GiveUp(s)
       [] acb[snd[s].to].var # "DEAD" /\ Room(s, b) -> step("write")
       [] acb[snd[s].to].var # "DEAD" /\ ~Room(s, b) ->
            IF blk[b].cap[s] < MaxCap THEN step("grow") ELSE GiveUp(s)
  /\ UNCHANGED <<acb, blk, out, sp>>

Write(s) ==
  /\ Ready(s, "write")
  /\ blk' = [blk EXCEPT ![snd[s].c].q = @ \cup {Mail(s)}]
  /\ snd' = [snd EXCEPT ![s] = Idle(@)]
  /\ UNCHANGED <<acb, rc, out, sp>>

\* ring_block_d has answered: no memory, or, under shlock, the target has
\* died, or the ring is doubled and the push tried again.
Grow(s) ==
  /\ Ready(s, "grow")
  /\ \/ GiveUp(s) /\ UNCHANGED blk
     \/ /\ acb[snd[s].to].var # "DEAD"
        /\ blk' = [blk EXCEPT ![snd[s].c].cap[s] = 2 * @]
        /\ snd' = [snd EXCEPT ![s].pc = "push"]
        /\ UNCHANGED rc
  /\ UNCHANGED <<acb, out, sp>>

Send(s) ==
  \/ \E a \in Actors, kind \in Kinds : Start(s, a, kind)
  \/ \E a \in Actors : Refused(s, a)
  \/ Copy(s) \/ Pin(s) \/ Lock(s) \/ Publish(s)
  \/ Check(s) \/ Resolve(s) \/ Fault(s) \/ PushLook(s) \/ Write(s) \/ Grow(s)

-----------------------------------------------------------------------------
(* The receiver.                                                           *)

\* take_at: the slot is freed, the root is in the receiver's hand.
Take(a, e) ==
  /\ acb[a].var = "READY" /\ acb[a].hand = NoEntry
  /\ e \in blk[acb[a].ch].q
  /\ blk' = [blk EXCEPT ![acb[a].ch].q = @ \ {e}]
  /\ acb' = [acb EXCEPT ![a].hand = e]
  /\ UNCHANGED <<snd, rc, out, sp>>

\* inbox_release and fpr_rx_push: the root belongs to the turn.
Taken(a) ==
  LET e == acb[a].hand IN
  /\ e # NoEntry
  /\ acb' = [acb EXCEPT ![a] = [Release(@, e.charge) EXCEPT
                                  !.hand = NoEntry, !.rx = acb[a].rx \cup {e.m}]]
  /\ UNCHANGED <<blk, snd, rc, out, sp>>

\* fpr_rx_release at the turn's end.
EndTurn(a) ==
  /\ acb[a].var = "READY" /\ acb[a].hand = NoEntry /\ acb[a].rx # {}
  /\ rc' = Decref(acb[a].rx)
  /\ acb' = [acb EXCEPT ![a].rx = {}]
  /\ UNCHANGED <<blk, snd, out, sp>>

-----------------------------------------------------------------------------
(* Death.                                                                  *)

Kill(a) ==
  /\ acb[a].var = "READY"
  /\ acb' = [acb EXCEPT ![a].var = "DEAD"]
  /\ UNCHANGED <<blk, snd, rc, out, sp>>

\* reap's first half: one hart has it, and only off the actor's context.
Claim(a) ==
  /\ acb[a].var = "DEAD" /\ acb[a].life = "built" /\ acb[a].hand = NoEntry
  /\ acb' = [acb EXCEPT ![a].life = "claimed"]
  /\ UNCHANGED <<blk, snd, rc, out, sp>>

\* A bounded actor's reaper waits for the producer that holds shlock.
Barrier(a) == acb[a].bounded => acb[a].shlock = None

\* chb_drain, fpr_rx_reclaim, the charge slots, the pool and the stack.
Drain(a) ==
  LET b == acb[a].ch
      es == blk[b].q
  IN
  /\ acb[a].life = "claimed" /\ Barrier(a)
  /\ acb' = [acb EXCEPT ![a] = [ReleaseAll(@, es) EXCEPT
               !.life = "drained", !.rx = {},
               !.items = acb[a].items \cap {"channels", "entry", "acb"}]]
  /\ blk' = [blk EXCEPT ![b].q = {}]
  /\ rc' = Decref(Roots(es) \cup acb[a].rx)
  /\ out' = [i \in Items |->
               IF i \in acb[a].items \ {"channels", "entry", "acb"}
               THEN out[i] - 1 ELSE out[i]]
  /\ UNCHANGED <<snd, sp>>

\* chb_limbo_put: stamped with every live hart's epoch.  `since` is how far
\* each has come since then; more than two is as good as two.
Limbo(a) ==
  /\ acb[a].life = "drained"
  /\ blk' = [blk EXCEPT ![acb[a].ch] =
               [@ EXCEPT !.at = "limbo", !.since = [h \in Harts |-> 0]]]
  /\ acb' = [acb EXCEPT ![a].life = "limbo"]
  /\ UNCHANGED <<snd, rc, out, sp>>

\* a->ch = 0 and the entry closure.
Clear(a) ==
  /\ acb[a].life = "limbo"
  /\ acb' = [acb EXCEPT ![a].ch = None, ![a].life = "gone",
                        ![a].items = {"acb"}]
  /\ out' = [out EXCEPT !["channels"] = @ - 1, !["entry"] = @ - 1]
  /\ UNCHANGED <<blk, snd, rc, sp>>

Parkable == {"idle", "copy", "pin", "grow"}

KillSender(s) ==
  /\ s \in Mortal /\ snd[s].var = "READY"
  /\ snd' = [snd EXCEPT ![s].var = "DEAD"]
  /\ UNCHANGED <<acb, blk, rc, out, sp>>

\* reap of a sender: send_cancel.  What its C stack held is forgotten.
ReapSender(s) ==
  /\ snd[s].var = "DEAD" /\ snd[s].pc \in Parkable
  /\ acb' = Cancelled(s, acb)
  /\ rc' = Decref(CancelRoots(s))
  /\ snd' = [snd EXCEPT ![s].pc = "gone", ![s].send_to = None,
                        ![s].send_root = None, ![s].hold = FALSE,
                        ![s].m = IF snd[s].pc = "grow" THEN @ ELSE None]
  /\ UNCHANGED <<blk, out, sp>>

\* hart_loop's h->epoch++.
Turn(h) ==
  /\ IF h = Home
     THEN \A a \in Actors : acb[a].life \notin {"claimed", "drained", "limbo"}
     ELSE snd[h].pc \in Parkable \cup {"gone"}
  /\ \E b \in Blocks : blk[b].at = "limbo" /\ blk[b].since[h] < 2
  /\ blk' = [b \in Blocks |->
       IF blk[b].at = "limbo" /\ blk[b].since[h] < 2
       THEN [blk[b] EXCEPT !.since[h] = @ + 1] ELSE blk[b]]
  /\ UNCHANGED <<acb, snd, rc, out, sp>>

-----------------------------------------------------------------------------
(* Admission of a new actor: a_spawn_heap, a_spawn_inbox.                  *)

Got == {Order(sp.kind)[i] : i \in 1..sp.n}
Wants == Order(sp.kind)[sp.n + 1]

\* The record on the spawner's stack, and its cleanup.
Admit(kind) ==
  /\ sp.pc = "idle" /\ sp.var = "READY" /\ sp.left > 0
  /\ \E a \in Actors : acb[a].var = "unborn"
  /\ sp' = [sp EXCEPT !.pc = "reserve", !.kind = kind, !.n = 0, !.ch = None,
                      !.cleanup = TRUE, !.left = @ - 1]
  /\ UNCHANGED <<acb, blk, snd, rc, out>>

Reserve ==
  /\ sp.pc = "reserve" /\ sp.n < Len(Order(sp.kind)) /\ Wants # "channels"
  /\ out' = [out EXCEPT ![Wants] = @ + 1]
  /\ sp' = [sp EXCEPT !.n = @ + 1]
  /\ UNCHANGED <<acb, blk, snd, rc>>

\* Mutant of Matured: reuse at once.
MaturedAtOnce(b) == TRUE

\* chb_matured.
Matured(b) == \A h \in Harts : blk[b].since[h] >= 2

\* chb_take: a matured block of the limbo list, else one never used.
TakeBlock(b) ==
  /\ sp.pc = "reserve" /\ sp.n < Len(Order(sp.kind)) /\ Wants = "channels"
  /\ \/ blk[b].at = "limbo" /\ Matured(b)
     \/ /\ blk[b].at = "list"
        /\ ~\E c \in Blocks : blk[c].at = "limbo" /\ Matured(c)
  /\ blk' = [blk EXCEPT ![b].at = "held"]
  /\ sp' = [sp EXCEPT !.pc = "init", !.ch = b]
  /\ out' = [out EXCEPT !["channels"] = @ + 1]
  /\ UNCHANGED <<acb, snd, rc>>

\* Mutant of InitBlock: the rings are reset and not drained.
InitBlockBlind ==
  /\ sp.pc = "init"
  /\ blk' = [blk EXCEPT ![sp.ch] = Fresh("held")]
  /\ sp' = [sp EXCEPT !.pc = "reserve", !.n = @ + 1]
  /\ UNCHANGED <<acb, snd, rc, out>>

\* chb_drain of what a send that raced the kill left there, and chan_init.
InitBlock ==
  LET b == sp.ch
      es == blk[b].q
  IN
  /\ sp.pc = "init"
  /\ rc' = Decref(Roots(es))
  /\ acb' = IF blk[b].owner = None THEN acb
            ELSE [acb EXCEPT ![blk[b].owner] = ReleaseAll(@, es)]
  /\ blk' = [blk EXCEPT ![b] = Fresh("held")]
  /\ sp' = [sp EXCEPT !.pc = "reserve", !.n = @ + 1]
  /\ UNCHANGED <<snd, out>>

\* Everything is there: the cleanup is cleared, the actor built and shipped.
Build(a) ==
  LET bounded == sp.kind = "inbox" IN
  /\ sp.pc = "reserve" /\ sp.n = Len(Order(sp.kind)) /\ acb[a].var = "unborn"
  /\ acb' = [acb EXCEPT ![a] = Born(sp.ch, bounded, Got)]
  /\ blk' = [blk EXCEPT ![sp.ch].owner = IF bounded THEN a ELSE None]
  /\ sp' = [sp EXCEPT !.pc = "idle", !.cleanup = FALSE]
  /\ UNCHANGED <<snd, rc, out>>

\* admission_rollback: what the record holds goes back; a block that was
\* never published may go to the free list.
Rollback ==
  /\ out' = [i \in Items |-> IF i \in Got THEN out[i] - 1 ELSE out[i]]
  /\ blk' = IF "channels" \in Got THEN [blk EXCEPT ![sp.ch].at = "list"] ELSE blk

\* A reservation fails.
Deny ==
  /\ sp.pc = "reserve" /\ sp.n < Len(Order(sp.kind))
  /\ Rollback
  /\ sp' = [sp EXCEPT !.pc = "idle", !.cleanup = FALSE]
  /\ UNCHANGED <<acb, snd, rc>>

KillSpawner ==
  /\ sp.var = "READY"
  /\ sp' = [sp EXCEPT !.var = "DEAD"]
  /\ UNCHANGED <<acb, blk, snd, rc, out>>

\* reap of the spawner runs its cleanup.
ReapSpawner ==
  /\ sp.var = "DEAD" /\ sp.pc \in {"idle", "reserve"}
  /\ IF sp.cleanup THEN Rollback ELSE UNCHANGED <<out, blk>>
  /\ sp' = [sp EXCEPT !.pc = "gone", !.cleanup = FALSE]
  /\ UNCHANGED <<acb, snd, rc>>

Spawning ==
  \/ \E kind \in {"heap", "inbox"} : Admit(kind)
  \/ Reserve \/ InitBlock \/ Deny \/ KillSpawner \/ ReapSpawner
  \/ \E b \in Blocks : TakeBlock(b)
  \/ \E a \in Actors : Build(a)

Receive(a) ==
  \/ \E e \in (IF acb[a].ch = None THEN {} ELSE blk[acb[a].ch].q) : Take(a, e)
  \/ Taken(a) \/ EndTurn(a)
Reap(a) == Claim(a) \/ Drain(a) \/ Limbo(a) \/ Clear(a)

Next ==
  \/ \E s \in Senders : Send(s) \/ KillSender(s) \/ ReapSender(s)
  \/ \E a \in Actors : Receive(a) \/ Kill(a) \/ Reap(a)
  \/ \E h \in Harts : Turn(h)
  \/ Spawning

Spec == Init /\ [][Next]_vars

-----------------------------------------------------------------------------
(* Properties.                                                             *)

Steps == Parkable \cup {"lock", "publish", "check", "resolve", "push",
                        "write", "fault", "gone"}

TypeOK ==
  /\ \A a \in Actors :
       /\ acb[a].var \in {"unborn", "READY", "DEAD"}
       /\ acb[a].ch \in Blocks \cup {None}
       /\ acb[a].messages \in 0..MaxMessages /\ acb[a].bytes \in 0..MaxBytes
       /\ acb[a].items \subseteq Items
       /\ acb[a].shlock \in Senders \cup {None}
       /\ acb[a].hand \in Entry \cup {NoEntry}
       /\ acb[a].rx \subseteq Messages
       /\ acb[a].life \in {"none", "built", "claimed", "drained", "limbo", "gone"}
  /\ \A b \in Blocks :
       /\ blk[b].at \in {"list", "held", "limbo"}
       /\ blk[b].q \subseteq Entry
       /\ blk[b].owner \in Actors \cup {None}
       /\ blk[b].since \in [Harts -> 0..2]
  /\ \A s \in Senders : snd[s].pc \in Steps /\ snd[s].left \in 0..SendMax[s]
  /\ rc \in [Messages -> {0, 1}]
  /\ out \in [Items -> Nat]
  /\ sp.pc \in {"idle", "reserve", "init", "gone"}

Queued(a) == {e \in UNION {blk[b].q : b \in Blocks} : e.to = a}
Reserved(a) == {s \in Senders : snd[s].send_to = a}
Holding(a) == IF acb[a].hand = NoEntry THEN {} ELSE {acb[a].hand}

\* What a bounded mailbox has counted is what is queued, what its senders
\* have reserved and not yet published or cancelled, and the message its
\* owner is just taking: no kill, full ring, refusal or reaping gives a
\* charge back twice (inbox_release would panic) or never.
ChargesBalance ==
  \A a \in Actors :
    acb[a].bounded =>
      /\ acb[a].messages = Cardinality(Queued(a)) + Cardinality(Reserved(a))
                             + Cardinality(Holding(a))
      /\ acb[a].bytes = MapThenSumSet(LAMBDA e : e.charge, Queued(a) \cup Holding(a))
                          + MapThenSumSet(LAMBDA s : snd[s].charge, Reserved(a))

\* Where a counted root can be: in a ring, in a sender's registers, or
\* with the receiver.
InRing(m) == {b \in Blocks : m \in Roots(blk[b].q)}
InHand(m) == {a \in Actors : acb[a].hand.m = m \/ m \in acb[a].rx}
InSend(m) == {s \in Senders : snd[s].m = m /\ snd[s].pc \notin {"copy", "pin"}}

\* Every count on a message is somebody's: a message is dropped exactly
\* once, by its receiver, by a sender that could not deliver it, or by
\* whoever clears the rings of the dead.  (A sender that dies waiting for a
\* bigger ring keeps its message for good: see NoneStranded.)
Accounted ==
  \A m \in Messages :
    rc[m] = Cardinality(InRing(m)) + Cardinality(InHand(m)) + Cardinality(InSend(m))

\* A sender about to store into a ring, having looked at a block its target
\* had, finds that block still its target's or waiting in limbo: never with
\* the spawner, on the free list or under another actor.
NoStaleWriter ==
  \A s \in Senders :
    snd[s].pc = "write" =>
      \/ blk[snd[s].c].at = "limbo"
      \/ acb[snd[s].to].ch = snd[s].c

\* A producer of a bounded mailbox that passed the death check under shlock
\* finds the channel block and the charge slots there until it unlocks.
BoundedCovered ==
  \A s \in Senders :
    snd[s].pc \in {"publish", "fault"} /\ snd[s].send_to # None =>
      /\ acb[snd[s].to].ch # None
      /\ "charges" \in acb[snd[s].to].items

\* Each thing taken for an admission is in exactly one place: the record of
\* an admission under way or the actor it was made for; a block on the free
\* list holds no message and is nobody's.
Reserving == sp.cleanup
Conserved ==
  /\ \A i \in Items :
       out[i] = Cardinality({a \in Actors : i \in acb[a].items})
                  + (IF Reserving /\ (i \in Got \/ (i = "channels" /\ sp.pc = "init"))
                     THEN 1 ELSE 0)
  /\ \A b \in Blocks :
       LET holders == {a \in Actors : acb[a].ch = b /\ acb[a].life # "limbo"} IN
       /\ blk[b].at = "held" <=>
            Cardinality(holders)
              + (IF Reserving /\ sp.ch = b THEN 1 ELSE 0) = 1
       /\ blk[b].at = "list" => blk[b].q = {}

\* A send to an actor that died is an answer and nothing else (lines
\* 642-645: "a stale handle's send is a harmless read of var").
NeverNil == \A s \in Senders : snd[s].pc # "fault"

\* A killed sender leaves no message behind that nobody will drop.
NoneStranded == \A s \in Senders : snd[s].pc = "gone" => snd[s].m = None

\* A bounded mailbox's charges are released exactly once, and are there to be
\* released as long as a producer that was let in is at work.
ChargesKept == ChargesBalance /\ BoundedCovered

\* Nothing is dropped twice or left behind: neither a message's count, nor
\* anything taken for an admission.
NothingLeaks == Accounted /\ Conserved
=============================================================================
