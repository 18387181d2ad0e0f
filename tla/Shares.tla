------------------------------- MODULE Shares -------------------------------
(***************************************************************************)
(* Who keeps a slab alive (runtime/runtime.c, with the borrow windows of   *)
(* runtime/actors.c).                                                      *)
(*                                                                         *)
(* An object another actor may hold has an entry in the ARC table, whose   *)
(* count is its number of holders: messages on their way, roots received   *)
(* and not yet released, the sender's own share of what it sent with       *)
(* sendArc.  A slab is kept by its owner's pool, by the entries in it      *)
(* ("escaped") and by its holds: the sender that still packs messages into *)
(* it, and every actor that dropped a root of it and may read on until its *)
(* next receive.  Each of these is taken and given back by a step of a     *)
(* different actor, in any order, and any actor may end at any time.       *)
(*                                                                         *)
(* One action is what an actor does in one lock region of arc_lock; the    *)
(* table itself is ArcTable's, the rings Mailbox's, the death of a sender  *)
(* inside a send Delivery's.                                               *)
(***************************************************************************)
EXTENDS Integers, FiniteSets, FiniteSetsExt, Sequences, SequencesExt

CONSTANTS
  Actors,
  FixedHeap,   \* those that run in one admitted grant (spawnHeap)
  Slabs,
  Objects,     \* names for message roots and for shared local values
  PackCap,     \* how many small messages a message slab holds
  WindowCap,   \* DP_N: borrow windows one actor keeps open
  BoxCap,      \* bound: messages waiting at one actor
  MaxShares,   \* bound: holders of one object
  Kinds,       \* which of "copy", "big", "share", "move" each actor sends
  None

ASSUME SharesAssumption ==
  /\ FixedHeap \subseteq Actors
  /\ {PackCap, WindowCap, BoxCap, MaxShares} \subseteq Nat \ {0}
  /\ Kinds \in [Actors -> SUBSET {"copy", "big", "share", "move"}]

VARIABLES
  mem,    \* slabs, where each object lies, the ARC table, the borrow windows
  box,    \* messages delivered to each actor and not yet received
  rx,     \* the roots of an actor's turn (fpr_rx_t), oldest first
  mine,   \* local values an actor has shared or is about to: its own share
  slot,   \* the slab an actor's sends pack into (acb_t.msg_slab)
  op,     \* where in an operation an actor is
  life,   \* "run", "dead", "reaped"
  reads,  \* ghost: slabs an actor may still read because it dropped a root
          \* of them since its last receive; with "sole" or "shared"
  stray   \* ghost: shares of an object that no list accounts for any more
vars == <<mem, box, rx, mine, slot, op, life, reads, stray>>

AtHome == [at |-> "home", owner |-> None, escaped |-> 0, holds |-> 0,
           promoted |-> FALSE, fill |-> 0]
Idle == [k |-> "idle"]

Init ==
  /\ mem = [slab |-> [s \in Slabs |-> AtHome], where |-> [v \in Objects |-> None],
            cnt |-> [v \in Objects |-> 0], dp |-> [a \in Actors |-> <<>>]]
  /\ box = [a \in Actors |-> <<>>]
  /\ rx = [a \in Actors |-> <<>>]
  /\ mine = [a \in Actors |-> {}]
  /\ slot = [a \in Actors |-> None]
  /\ op = [a \in Actors |-> Idle]
  /\ life = [a \in Actors |-> "run"]
  /\ reads = [a \in Actors |-> {}]
  /\ stray = [v \in Objects |-> 0]

-----------------------------------------------------------------------------
(* The operations on slabs, each a step of the memory record under arc_lock. *)

\* A slab goes home, and what lay in it is gone.  A slab that is already
\* there has been given back twice.
slab_home(m, s) ==
  [m EXCEPT !.slab[s] =
              [AtHome EXCEPT !.at = IF m.slab[s].at = "out" THEN "home" ELSE "twice"],
            !.where = [v \in Objects |-> IF @[v] = s THEN None ELSE @[v]]]

\* A fresh slab with one object in it: owned by a pool, or by nobody.
Issue(m, s, owner, v, holds) ==
  [m EXCEPT !.slab[s] = [AtHome EXCEPT !.at = "out", !.owner = owner,
                                       !.holds = holds, !.fill = 1],
            !.where[v] = s]

\* fpr_slab_unhold: the last keeper of an ownerless slab sends it home.
slab_unhold(m, s) ==
  LET m1 == [m EXCEPT !.slab[s].holds = @ - 1]
  IN IF m1.slab[s].holds = 0 /\ m1.slab[s].escaped = 0 /\ m1.slab[s].owner = None
     THEN slab_home(m1, s) ELSE m1

slabs_unhold(m, ss) == FoldLeft(slab_unhold, m, ss)

\* Mutant of drop_park: one slab parked on its dropper, as before slabs were shared.
park_one(m, a, s) ==
  IF a = None
  THEN IF m.slab[s].holds = 0 /\ m.slab[s].escaped = 0 THEN slab_home(m, s) ELSE m
  ELSE LET m1 == IF m.dp[a] = <<>> THEN m
                 ELSE [slab_unhold(m, Head(m.dp[a])) EXCEPT !.dp[a] = Tail(@)]
       IN [m1 EXCEPT !.dp[a] = Append(@, s), !.slab[s].holds = @ + 1]

\* fpr_drop_park: the dropper takes a hold until its next receive; where
\* nobody is running there is no window.
drop_park(m, a, s) ==
  IF a = None
  THEN IF m.slab[s].holds = 0 /\ m.slab[s].escaped = 0 THEN slab_home(m, s) ELSE m
  ELSE LET m1 == IF Len(m.dp[a]) < WindowCap THEN m
                 ELSE [slab_unhold(m, Head(m.dp[a])) EXCEPT !.dp[a] = Tail(@)]
       IN [m1 EXCEPT !.dp[a] = Append(@, s), !.slab[s].holds = @ + 1]

drop_drain(m, a) == [slabs_unhold(m, m.dp[a]) EXCEPT !.dp[a] = <<>>]

\* fpr_arc_incref and fpr_arc_promote_share: an object's first entry pins
\* its slab, and a share gives the sender one too.
Counted(m, v, first) ==
  IF m.cnt[v] > 0 THEN [m EXCEPT !.cnt[v] = @ + 1]
  ELSE [m EXCEPT !.cnt[v] = first + 1, !.slab[m.where[v]].escaped = @ + 1,
                 !.slab[m.where[v]].promoted = TRUE]
arc_incref(m, v) == Counted(m, v, 0)
\* Mutant of arc_promote_share: the sender of a share keeps none.
share_moves(m, v) == Counted(m, v, 0)

arc_promote_share(m, v) == Counted(m, v, 1)

IsFixed(m, s) == m.slab[s].owner \in FixedHeap

\* fpr_free of a dead shared value: its cell goes back to its owner's pool.
Freed(m, v) == [m EXCEPT !.where[v] = None]

\* Mutant of arc_dead: the dropper gets no window.
dead_without_window(m, a, v) ==
  LET s == m.where[v]
      m1 == [m EXCEPT !.slab[s].escaped = @ - 1]
  IN IF m1.slab[s].owner = None THEN drop_park(m1, None, s)
     ELSE IF IsFixed(m1, s) THEN m1 ELSE Freed(m1, v)

\* The last holder let go: the entry dies and with it a reason to keep the slab.
arc_dead(m, a, v) ==
  LET s == m.where[v]
      m1 == [m EXCEPT !.slab[s].escaped = @ - 1]
  IN IF m1.slab[s].owner = None THEN drop_park(m1, a, s)
     ELSE IF IsFixed(m1, s) THEN m1 ELSE Freed(m1, v)

\* arc_decref_in, a holder of v letting go on behalf of actor a.
arc_decref(m, a, v) ==
  LET s == m.where[v]
      m1 == IF IsFixed(m, s) THEN drop_park(m, a, s) ELSE m
      m2 == [m1 EXCEPT !.cnt[v] = @ - 1]
  IN IF ~m.slab[s].promoted \/ m.cnt[v] = 0 THEN m
     ELSE IF m2.cnt[v] > 0 THEN m2 ELSE arc_dead(m2, a, v)

PoolOf(m, a) == {s \in Slabs : m.slab[s].owner = a}

\* fpr_arc_teardown_pool and the walk of Sys.poolReset: clean slabs go home,
\* the others are orphaned.  Only the first looks at the holds.
ReleasePool(m, a, alsoHolds) ==
  LET keep == {s \in PoolOf(m, a) : \/ m.slab[s].escaped > 0
                                    \/ alsoHolds /\ m.slab[s].holds > 0}
      home == PoolOf(m, a) \ keep
  IN [m EXCEPT !.slab = [s \in Slabs |-> IF s \in home THEN AtHome
                                         ELSE IF s \in keep THEN [@[s] EXCEPT !.owner = None]
                                         ELSE @[s]],
               !.where = [v \in Objects |-> IF @[v] \in home THEN None ELSE @[v]]]

-----------------------------------------------------------------------------
(* Sending. *)

Ready(a) == life[a] = "run" /\ op[a] = Idle
Unused(v) == mem.where[v] = None /\ mem.cnt[v] = 0

Fits(s) == mem.slab[s].fill < PackCap
Send(a, k, b, v) == op' = [op EXCEPT ![a] = [k |-> k, to |-> b, v |-> v]]

\* msg_copy_held_in: straight into the slab the sender packs.
CopyPacked(a, b, v) ==
  /\ Ready(a) /\ "copy" \in Kinds[a] /\ life[b] = "run" /\ Unused(v)
  /\ slot[a] # None /\ Fits(slot[a])
  /\ mem' = [mem EXCEPT !.slab[slot[a]].fill = @ + 1, !.where[v] = slot[a]]
  /\ Send(a, "promote", b, v)
  /\ UNCHANGED <<box, rx, mine, slot, life, reads, stray>>

\* ... which is full, or too small for this message: the sender's hold ends.
CopyFull(a, b, v, big) ==
  /\ Ready(a) /\ (IF big THEN "big" ELSE "copy") \in Kinds[a] /\ life[b] = "run" /\ Unused(v)
  /\ slot[a] # None /\ (big \/ ~Fits(slot[a]))
  /\ mem' = slab_unhold(mem, slot[a])
  /\ slot' = [slot EXCEPT ![a] = None]
  /\ Send(a, IF big THEN "big" ELSE "fresh", b, v)
  /\ UNCHANGED <<box, rx, mine, life, reads, stray>>

CopyNoSlot(a, b, v, big) ==
  /\ Ready(a) /\ (IF big THEN "big" ELSE "copy") \in Kinds[a] /\ life[b] = "run" /\ Unused(v)
  /\ slot[a] = None
  /\ Send(a, IF big THEN "big" ELSE "fresh", b, v)
  /\ UNCHANGED <<mem, box, rx, mine, slot, life, reads, stray>>

\* A new message slab: the sender goes on packing into it, unless the
\* message has it to itself.
CopyFresh(a, s) ==
  /\ op[a].k \in {"fresh", "big"} /\ Unused(op[a].v) /\ mem.slab[s].at = "home"
  /\ IF op[a].k = "fresh"
     THEN /\ mem' = Issue(mem, s, None, op[a].v, 1)
          /\ slot' = [slot EXCEPT ![a] = s]
     ELSE /\ mem' = Issue(mem, s, None, op[a].v, 0)
          /\ UNCHANGED slot
  /\ Send(a, "promote", op[a].to, op[a].v)
  /\ UNCHANGED <<box, rx, mine, life, reads, stray>>

Promote(a) ==
  /\ op[a].k = "promote"
  /\ mem' = arc_incref(mem, op[a].v)
  /\ Send(a, "push", op[a].to, op[a].v)
  /\ UNCHANGED <<box, rx, mine, slot, life, reads, stray>>

\* fpr_rx_forget: the newest mention of v, if there is one.
rx_forget(q, v) ==
  IF v \in ToSet(q) THEN RemoveAt(q, Max({i \in DOMAIN q : q[i] = v})) ELSE q

\* The ring push of every send.  The message that cannot go is let go with
\* fpr_arc_decref, which also strikes it off the roots of the sender's turn.
Publish(a) ==
  LET b == op[a].to
      v == op[a].v
  IN /\ op[a].k = "push"
     /\ op' = [op EXCEPT ![a] = Idle]
     /\ IF life[b] = "run" /\ Len(box[b]) < BoxCap
        THEN /\ box' = [box EXCEPT ![b] = Append(@, v)]
             /\ UNCHANGED <<mem, rx, stray>>
        ELSE /\ mem' = arc_decref(mem, a, v)
             /\ rx' = [rx EXCEPT ![a] = rx_forget(@, v)]
             /\ stray' = [stray EXCEPT ![v] = @ + Len(rx[a]) - Len(rx'[a])]
             /\ UNCHANGED box
     /\ UNCHANGED <<mine, slot, life, reads>>

\* An allocation in the actor's pool of a value it will share.
Allocate(a, s, v) ==
  /\ Ready(a) /\ Unused(v) /\ "share" \in Kinds[a]
  /\ IF PoolOf(mem, a) # {}
     THEN /\ s \in PoolOf(mem, a)
          /\ mem' = [mem EXCEPT !.where[v] = s]
     ELSE /\ mem.slab[s].at = "home" /\ a \notin FixedHeap
          /\ mem' = Issue(mem, s, a, v, 0)
  /\ mine' = [mine EXCEPT ![a] = @ \cup {v}]
  /\ UNCHANGED <<box, rx, slot, op, life, reads, stray>>

\* The one slab of a fixed heap, given at the spawn.
Grant(a, s) ==
  /\ Ready(a) /\ a \in FixedHeap /\ PoolOf(mem, a) = {} /\ mem.slab[s].at = "home"
  /\ mem' = [mem EXCEPT !.slab[s] = [AtHome EXCEPT !.at = "out", !.owner = a]]
  /\ UNCHANGED <<box, rx, mine, slot, op, life, reads, stray>>

Holds(a, v) == v \in mine[a] \/ v \in ToSet(rx[a])

\* a_send_arc: the receiver gets a share of the same object.
ShareSend(a, b, v) ==
  /\ Ready(a) /\ "share" \in Kinds[a] /\ Holds(a, v) /\ life[b] = "run" /\ mem.cnt[v] < MaxShares
  /\ mem' = arc_promote_share(mem, v)
  /\ Send(a, "push", b, v)
  /\ UNCHANGED <<box, rx, mine, slot, life, reads, stray>>

arc_movable_root(v) == mem.slab[mem.where[v]].owner = None /\ mem.cnt[v] > 0

Forget(a, v) ==
  IF v \in ToSet(rx[a])
  THEN rx' = [rx EXCEPT ![a] = rx_forget(@, v)] /\ UNCHANGED mine
  ELSE mine' = [mine EXCEPT ![a] = @ \ {v}] /\ UNCHANGED rx

\* a_send_linear of a root the sender received: its share moves with it.
MoveSend(a, b, v) ==
  /\ Ready(a) /\ "move" \in Kinds[a] /\ Holds(a, v) /\ arc_movable_root(v)
  /\ Forget(a, v)
  /\ Send(a, "push", b, v)
  /\ UNCHANGED <<mem, box, slot, life, reads, stray>>

-----------------------------------------------------------------------------
(* Receiving, dropping, the turn's end. *)

\* a_receive: the windows of the previous activation close first.
ReceiveDrain(a) ==
  /\ Ready(a)
  /\ mem' = drop_drain(mem, a)
  /\ reads' = [reads EXCEPT ![a] = {}]
  /\ op' = [op EXCEPT ![a] = [k |-> "take"]]
  /\ UNCHANGED <<box, rx, mine, slot, life, stray>>

ReceiveTake(a) ==
  /\ op[a].k = "take" /\ box[a] # <<>>
  /\ box' = [box EXCEPT ![a] = Tail(@)]
  /\ rx' = [rx EXCEPT ![a] = Append(@, Head(box[a]))]
  /\ op' = [op EXCEPT ![a] = Idle]
  /\ UNCHANGED <<mem, mine, slot, life, reads, stray>>

\* What the dropper of v may read until its next receive, and whether it was
\* the last holder.  What lives in another actor's pool has that pool's life.
Borrowed(v) ==
  LET s == mem.where[v]
  IN IF mem.slab[s].owner \notin FixedHeap \cup {None} THEN {}
     ELSE {<<s, IF mem.cnt[v] = 1 \/ IsFixed(mem, s) THEN "sole" ELSE "shared">>}

\* fpr_arc_decref: `drop`, after the destructure.
Drop(a, v) ==
  /\ Ready(a) /\ Holds(a, v) /\ mem.cnt[v] > 0
  /\ Forget(a, v)
  /\ mem' = arc_decref(mem, a, v)
  /\ reads' = [reads EXCEPT ![a] = @ \cup Borrowed(v)]
  /\ UNCHANGED <<box, slot, op, life, stray>>

\* A region's boundary, or Sys.poolReset, begins: the roots of the turn go.
TurnEnds(a, k) ==
  /\ Ready(a) /\ k \in {"turn", "reset"} /\ (k = "turn" => rx[a] # <<>>)
  /\ op' = [op EXCEPT ![a] = [k |-> k]]
  /\ UNCHANGED <<mem, box, rx, mine, slot, life, reads, stray>>

\* fpr_rx_release: the newest root first; popped before it is let go.
ReleaseRoot(a) ==
  /\ op[a].k \in {"turn", "reset"} /\ rx[a] # <<>>
  /\ rx' = [rx EXCEPT ![a] = Front(@)]
  /\ mem' = arc_decref(mem, a, Last(rx[a]))
  /\ UNCHANGED <<box, mine, slot, op, life, reads, stray>>

TurnDone(a) ==
  /\ op[a].k = "turn" /\ rx[a] = <<>>
  /\ op' = [op EXCEPT ![a] = Idle]
  /\ UNCHANGED <<mem, box, rx, mine, slot, life, reads, stray>>

\* g_poolReset: no window survives it and no local value does; a fixed heap
\* that something still reads ends its actor instead.
PoolReset(a) ==
  LET m == drop_drain(mem, a)
      pool == PoolOf(m, a)
      shared == {v \in mine[a] : m.cnt[v] > 0}
  IN /\ op[a].k = "reset" /\ rx[a] = <<>>
     /\ reads' = [reads EXCEPT ![a] = {}]
     /\ op' = [op EXCEPT ![a] = Idle]
     /\ IF a \in FixedHeap
        THEN IF \A s \in pool : m.slab[s].escaped = 0 /\ m.slab[s].holds = 0
             THEN /\ mem' = [m EXCEPT !.where = [v \in Objects |->
                                         IF @[v] \in pool THEN None ELSE @[v]]]
                  /\ mine' = [mine EXCEPT ![a] = shared]
                  /\ UNCHANGED life
             ELSE /\ mem' = m
                  /\ life' = [life EXCEPT ![a] = "dead"]
                  /\ UNCHANGED mine
        ELSE /\ mem' = ReleasePool(m, a, FALSE)
             /\ mine' = [mine EXCEPT ![a] = shared]
             /\ UNCHANGED life
     /\ UNCHANGED <<box, rx, slot, stray>>

-----------------------------------------------------------------------------
(* Death: killed or returned, then torn down by a hart that runs nobody.     *)

Die(a) ==
  /\ life[a] = "run" /\ op[a].k \in {"idle", "take"}
  /\ life' = [life EXCEPT ![a] = "dead"]
  /\ op' = [op EXCEPT ![a] = Idle]
  /\ reads' = [reads EXCEPT ![a] = {}]
  /\ UNCHANGED <<mem, box, rx, mine, slot, stray>>

ReapMail(a) ==
  /\ life[a] = "dead" /\ box[a] # <<>>
  /\ box' = [box EXCEPT ![a] = Tail(@)]
  /\ mem' = arc_decref(mem, None, Head(box[a]))
  /\ UNCHANGED <<rx, mine, slot, op, life, reads, stray>>

ReapRoot(a) ==
  /\ life[a] = "dead" /\ box[a] = <<>> /\ rx[a] # <<>>
  /\ rx' = [rx EXCEPT ![a] = Front(@)]
  /\ mem' = arc_decref(mem, None, Last(rx[a]))
  /\ UNCHANGED <<box, mine, slot, op, life, reads, stray>>

ReapPool(a) ==
  LET m1 == drop_drain(mem, a)
      m2 == IF slot[a] = None THEN m1 ELSE slab_unhold(m1, slot[a])
  IN /\ life[a] = "dead" /\ box[a] = <<>> /\ rx[a] = <<>>
     /\ mem' = ReleasePool(m2, a, TRUE)
     /\ slot' = [slot EXCEPT ![a] = None]
     /\ mine' = [mine EXCEPT ![a] = {v \in @ : m2.cnt[v] > 0}]
     /\ life' = [life EXCEPT ![a] = "reaped"]
     /\ UNCHANGED <<box, rx, op, reads, stray>>

Sends(a) ==
  \/ \E b \in Actors \ {a}, v \in Objects :
       \/ CopyPacked(a, b, v)
       \/ ShareSend(a, b, v)
       \/ MoveSend(a, b, v)
       \/ \E big \in BOOLEAN : CopyFull(a, b, v, big) \/ CopyNoSlot(a, b, v, big)
  \/ \E s \in Slabs : CopyFresh(a, s) \/ Grant(a, s)
  \/ Promote(a) \/ Publish(a)
Turns(a) ==
  \/ \E s \in Slabs, v \in Objects : Allocate(a, s, v)
  \/ \E v \in Objects : Drop(a, v)
  \/ \E k \in {"turn", "reset"} : TurnEnds(a, k)
  \/ ReceiveDrain(a) \/ ReceiveTake(a)
  \/ ReleaseRoot(a) \/ TurnDone(a) \/ PoolReset(a)
Ends(a) == Die(a) \/ ReapMail(a) \/ ReapRoot(a) \/ ReapPool(a)

Next == \E a \in Actors : Sends(a) \/ Turns(a) \/ Ends(a)
Spec == Init /\ [][Next]_vars

-----------------------------------------------------------------------------
(* Properties. *)

\* Every variable has the values the code gives it.
TypeOK ==
  /\ mem.slab \in [Slabs -> [at : {"home", "out", "twice"}, owner : Actors \cup {None},
                             escaped : 0..Cardinality(Objects), holds : Int,
                             promoted : BOOLEAN, fill : 0..PackCap]]
  /\ mem.where \in [Objects -> Slabs \cup {None}]
  /\ mem.cnt \in [Objects -> 0..MaxShares + 1]
  /\ \A a \in Actors : /\ ToSet(mem.dp[a]) \subseteq Slabs /\ Len(mem.dp[a]) <= WindowCap
                       /\ ToSet(box[a]) \subseteq Objects /\ Len(box[a]) <= BoxCap
                       /\ ToSet(rx[a]) \subseteq Objects
                       /\ mine[a] \subseteq Objects
                       /\ slot[a] \in Slabs \cup {None}
                       /\ life[a] \in {"run", "dead", "reaped"}
                       /\ reads[a] \subseteq Slabs \X {"sole", "shared"}

Times(q, v) == Cardinality({i \in DOMAIN q : q[i] = v})
Holders(v) ==
  MapThenSumSet(LAMBDA a : Times(box[a], v) + Times(rx[a], v)
                             + (IF op[a].k = "push" /\ op[a].v = v THEN 1 ELSE 0)
                             + (IF v \in mine[a] THEN 1 ELSE 0), Actors)

\* An object's count is its number of holders, whoever sent it, received it,
\* passed it on or died with it: never too few, so no holder reads a freed
\* object, and too many only by the shares a refused sendArc strayed.
CountIsHolders ==
  \A v \in Objects : mem.cnt[v] > 0 => mem.cnt[v] = Holders(v) + stray[v]

\* What an actor may still use lies in a slab that has not gone home: the
\* messages on their way, the roots of the turn, its own shares, its packing
\* slab and the slabs its windows hold.
NothingDangles ==
  \A a \in Actors :
    /\ \A v \in ToSet(box[a]) \cup ToSet(rx[a]) : mem.cnt[v] > 0 /\ mem.where[v] # None
    /\ life[a] = "run" => \A v \in mine[a] : mem.where[v] # None
    /\ op[a].k \in {"promote", "push"} => mem.where[op[a].v] # None
    /\ \A s \in ToSet(mem.dp[a]) \cup ({slot[a]} \ {None}) : mem.slab[s].at = "out"

\* A slab goes home once for each time it was taken.
HomeOnce == \A s \in Slabs : mem.slab[s].at # "twice"

\* A slab is out exactly as long as something keeps it: its two counts are
\* what they stand for, and a slab nobody owns, packs, reads or has a root
\* in is home - the last of the droppers, in whatever order, sent it there.
KeptForAReason ==
  \A s \in Slabs :
    LET sl == mem.slab[s]
    IN /\ sl.escaped = Cardinality({v \in Objects : mem.where[v] = s /\ mem.cnt[v] > 0})
       /\ sl.holds = MapThenSumSet(LAMBDA a : Times(mem.dp[a], s)
                                               + (IF slot[a] = s THEN 1 ELSE 0), Actors)
       /\ (sl.at = "out" /\ sl.owner = None /\ sl.escaped = 0 /\ sl.holds = 0)
            => \E a \in Actors : op[a].k = "promote" /\ mem.where[op[a].v] = s

\* The lock-free pre-check of a drop is sound: a slab with an object in the
\* table says so, so no drop that has an entry to find returns early.
PrecheckSound ==
  \A v \in Objects : mem.cnt[v] > 0 => mem.slab[mem.where[v]].promoted

\* An actor that dropped a message as its last holder, or any share of a
\* fixed heap's value, may read it until its next receive: neither the
\* sender, nor another dropper, nor a death or a reset takes the slab away.
BorrowKept ==
  \A a \in Actors : \A b \in reads[a] : b[2] = "sole" => mem.slab[b[1]].at = "out"

\* What the comments of arc_decref_in and DP_N say: so may every dropper.
EveryBorrowKept ==
  \A a \in Actors : \A b \in reads[a] : mem.slab[b[1]].at = "out"

\* What a_send_arc says of a refused share: it is returned, and the sender's
\* own share still dies with its turn.
NoStrayShare == \A v \in Objects : stray[v] = 0

\* Counts are the holders they stand for, and a drop's lock-free look at the
\* slab never misses one.
CountsExact == TypeOK /\ CountIsHolders /\ PrecheckSound

\* Nothing that is still read, by its holders or in the window after the last
\* drop, is given away.
ReadersKept == NothingDangles /\ BorrowKept

\* Every slab goes home exactly once, when and only when nothing keeps it.
SlabsGoHome == HomeOnce /\ KeptForAReason
=============================================================================
