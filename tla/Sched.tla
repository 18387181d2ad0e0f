------------------------------- MODULE Sched -------------------------------
(***************************************************************************)
(* The actor scheduler of the runtime (runtime/actors.c): N harts, each    *)
(* running hart_loop on its own boot stack, share the actors of the        *)
(* program.  A READY actor waits in its owner hart's backlog, is admitted  *)
(* to that hart's run queue and is dispatched from there; a hart with      *)
(* nothing to do steals from another hart's backlog, then sleeps in wfi    *)
(* until its doorbell (msip) is raised.  An actor made ready by another    *)
(* hart travels to its owner through the single-producer ring xr[s][d].    *)
(*                                                                         *)
(* One step of the specification is one lock region or one atomic access   *)
(* of the code, taken by one hart; pc[h] names the next one of hart h.     *)
(* Atomic accesses are sequentially consistent here: the code orders every *)
(* pair that matters with seq_cst operations or fences.                    *)
(*                                                                         *)
(* Abstractions.  The backlog and the run queue are sets: their order and  *)
(* the tiers of select_backlog are left open, so any READY entry may be    *)
(* admitted here.  A mailbox is one bit: the                               *)
(* condition a parked receive waits for.  Stacks, pools and message bytes  *)
(* are left out; "reaped" stands for their release by reap.                *)
(***************************************************************************)
EXTENDS Naturals, Sequences, FiniteSets

CONSTANTS
  N,          \* live harts (fpr_live_harts), numbered from 0
  Actors,     \* actor control blocks
  Main,       \* main_acb: actor 0, pinned to hart 0, never killed
  Pinned,     \* actors placed by spawnOn (pin = 1), and Main
  RQ_CAP,     \* run-queue admissions per refill batch
  DONATE_HI,  \* backlog length past which an idle hart is rung
  XCAP,       \* entries of a cross-hart wake ring
  Progs,      \* the programs: which runtime calls each actor makes
  NoActor     \* the null pointer

ASSUME SchedAssumption ==
  /\ N \in Nat \ {0}
  /\ Main \in Pinned
  /\ Pinned \subseteq Actors
  /\ NoActor \notin Actors
  /\ IsFiniteSet(Actors)
  /\ RQ_CAP \in Nat \ {0}
  /\ XCAP \in Nat \ {0}
  /\ DONATE_HI \in Nat
  /\ Progs \subseteq [Actors -> SUBSET {"yield", "send", "receive",
                         "receiveFromRes", "spawn", "kill", "return"}]

Harts  == 0 .. N - 1
NoHart == N                   \* running = 0: no hart has the context

VARIABLES
  prog,       \* the program being run, one of Progs, fixed at boot
  \* the actor control block
  var,        \* status word: "NEW" (not spawned), "READY", "BLOCKED", "DEAD"
  owner,      \* the hart field: the owner hart
  running,    \* the hart whose loop has switched into this context, or NoHart
  mail,       \* a message its current or next receive accepts is queued
  from,       \* the sender its receive names, or NoActor for any
  watch,      \* the sender it is parked on in receiveFromRes, or NoActor
  inRecv,     \* the actors whose context stands inside a receive
  reaped,     \* reap's teardown has released its stack
  \* queues
  backlog,    \* [Harts -> SUBSET Actors]
  rq,         \* [Harts -> SUBSET Actors]: admitted, not yet dispatched
  xr,         \* xr[s][d]: actors shipped by hart s to hart d
  \* per hart
  pc,         \* where hart h stands
  cont,       \* where it continues after an admission, a ship or a reap
  then,       \* where it continues after a walk over the watchers
  dying,      \* the actor whose watchers it is waking
  cur,        \* h->current
  hand,       \* the actor it is admitting, shipping, dispatching or reaping
  tgt,        \* the destination a ship read from the owner field
  todo,       \* harts or actors a scan has still to visit
  src,        \* the ring being drained
  snap,       \* entries of that ring still covered by the tail it read
  pass,       \* 1: hot path; 2: after clearing the doorbell
  fell,       \* history: the dead this call of deq has popped
  bell,       \* msip: the doorbell
  idle        \* the flag offer() reads

mbox  == <<mail, from, watch, inRecv>>
acb   == <<var, owner, running, mbox, reaped>>
lists == <<backlog, rq, xr>>
call  == <<cont, hand, tgt>>
walk  == <<then, dying>>
scan  == <<todo, src, snap, pass, fell>>
hart  == <<cur, bell, idle>>
vars  == <<prog, acb, lists, pc, call, walk, scan, hart>>

-----------------------------------------------------------------------------
Others(h) == Harts \ {h}
Born      == {a \in Actors : var[a] # "NEW"}

\* the predicate block_unless is given: a message, or the death of the sender
\* receiveFromRes names (p_any, p_from, p_from_dead)
Pred(a) == mail[a] \/ (from[a] # NoActor /\ var[from[a]] = "DEAD")

\* Mutant: a thief that trusts the list and not the running marker
StealableUnsaved(v) == {a \in backlog[v] \ Pinned : var[a] = "READY"}

\* in_bl || in_rq: both flags are set and cleared with the list they describe
Listed(a) == \E h \in Harts : a \in backlog[h] \/ a \in rq[h]

\* what a thief may take: never pinned, never a context not yet saved
Stealable(v) ==
  {a \in backlog[v] \ Pinned : running[a] = NoHart /\ var[a] = "READY"}

Goto(h, l) == pc' = [pc EXCEPT ![h] = l]

\* the next turn of the loop starts by visiting every inbound ring
Visit(h) == todo' = [todo EXCEPT ![h] = Others(h)]

\* hart h starts a runtime call on actor a and continues at k afterwards
Start(h, l, a, k) ==
  /\ Goto(h, l)
  /\ hand' = [hand EXCEPT ![h] = a]
  /\ cont' = [cont EXCEPT ![h] = k]

\* the call is over
Finish(h) == Start(h, cont[h], NoActor, "none")

\* the places a hart can stand at, and those a call can return to
Labels == {"drain", "refill", "pop", "steal", "add", "offer", "ship", "push",
           "ipi", "claim", "run", "recv", "block", "recheck", "wake", "walk",
           "tosched", "after", "reap", "teardown", "panic"}
Conts  == {"none", "drain", "refill", "pop", "run", "walk", "tosched"}

ActorsOK ==
  /\ var \in [Actors -> {"NEW", "READY", "BLOCKED", "DEAD"}]
  /\ owner \in [Actors -> Harts]
  /\ running \in [Actors -> Harts \cup {NoHart}]
  /\ reaped \in [Actors -> BOOLEAN]
MailOK ==
  /\ mail \in [Actors -> BOOLEAN]
  /\ from \in [Actors -> Actors \cup {NoActor}]
  /\ watch \in [Actors -> Actors \cup {NoActor}]
  /\ inRecv \in SUBSET Actors
ListsOK ==
  /\ backlog \in [Harts -> SUBSET Actors]
  /\ rq \in [Harts -> SUBSET Actors]
  /\ xr \in [Harts -> [Harts -> Seq(Actors)]]
CallOK ==
  /\ pc \in [Harts -> Labels]
  /\ cont \in [Harts -> Conts]
  /\ hand \in [Harts -> Actors \cup {NoActor}]
  /\ tgt \in [Harts -> Harts]
WalkOK ==
  /\ then \in [Harts -> {"run", "ship", "tosched"}]
  /\ dying \in [Harts -> Actors \cup {NoActor}]
ScanOK ==
  /\ todo \in [Harts -> SUBSET (Harts \cup Actors)]
  /\ src \in [Harts -> Harts]
  /\ snap \in [Harts -> Nat]
  /\ pass \in [Harts -> {1, 2}]
  /\ fell \in [Harts -> SUBSET Actors]
HartOK ==
  /\ cur \in [Harts -> Actors \cup {NoActor}]
  /\ bell \in [Harts -> BOOLEAN]
  /\ idle \in [Harts -> BOOLEAN]

TypeOK ==
  /\ prog \in Progs
  /\ ActorsOK /\ MailOK /\ ListsOK /\ CallOK /\ WalkOK /\ ScanOK /\ HartOK

\* fpr_actors_init: actor 0 is enqueued on hart 0, every loop starts at its top
Init ==
  /\ prog \in Progs
  /\ var = [a \in Actors |-> IF a = Main THEN "READY" ELSE "NEW"]
  /\ owner = [a \in Actors |-> 0]
  /\ running = [a \in Actors |-> NoHart]
  /\ mail = [a \in Actors |-> FALSE]
  /\ from = [a \in Actors |-> NoActor]
  /\ watch = [a \in Actors |-> NoActor]
  /\ inRecv = {}
  /\ reaped = [a \in Actors |-> FALSE]
  /\ backlog = [h \in Harts |-> IF h = 0 THEN {Main} ELSE {}]
  /\ rq = [h \in Harts |-> {}]
  /\ xr = [s \in Harts |-> [d \in Harts |-> <<>>]]
  /\ pc = [h \in Harts |-> "drain"]
  /\ cont = [h \in Harts |-> "none"]
  /\ then = [h \in Harts |-> "run"]
  /\ dying = [h \in Harts |-> NoActor]
  /\ cur = [h \in Harts |-> NoActor]
  /\ hand = [h \in Harts |-> NoActor]
  /\ tgt = [h \in Harts |-> h]
  /\ todo = [h \in Harts |-> Others(h)]
  /\ src = [h \in Harts |-> h]
  /\ snap = [h \in Harts |-> 0]
  /\ pass = [h \in Harts |-> 1]
  /\ fell = [h \in Harts |-> {}]
  /\ bell = [h \in Harts |-> FALSE]
  /\ idle = [h \in Harts |-> FALSE]

-----------------------------------------------------------------------------
(* hart_loop: the top of a turn is the first drain *)
\* Mutant: the tail read is one short
DrainVisitShort(h) ==
  /\ pc[h] = "drain" /\ snap[h] = 0
  /\ \E s \in todo[h] \cap Harts :
       /\ todo' = [todo EXCEPT ![h] = @ \ {s}]
       /\ snap' = [snap EXCEPT ![h] = Len(xr[s][h]) - 1]
       /\ src' = [src EXCEPT ![h] = s]
  /\ UNCHANGED <<acb, lists, pc, call, walk, pass, fell, hart>>

(* drain: read one inbound ring's tail; its entries up to there are taken *)
DrainVisit(h) ==
  /\ pc[h] = "drain" /\ snap[h] = 0
  /\ \E s \in todo[h] \cap Harts :
       /\ todo' = [todo EXCEPT ![h] = @ \ {s}]
       /\ snap' = [snap EXCEPT ![h] = Len(xr[s][h])]
       /\ src' = [src EXCEPT ![h] = IF xr[s][h] = <<>> THEN h ELSE s]
  /\ UNCHANGED <<acb, lists, pc, call, walk, pass, fell, hart>>

DrainPop(h) ==
  /\ pc[h] = "drain" /\ snap[h] > 0
  /\ xr' = [xr EXCEPT ![src[h]][h] = Tail(@)]
  /\ snap' = [snap EXCEPT ![h] = @ - 1]
  /\ Start(h, "add", Head(xr[src[h]][h]), "drain")
  /\ UNCHANGED <<acb, backlog, rq, tgt, walk, todo, src, pass, fell,
                 hart>>

DrainDone(h) ==
  /\ pc[h] = "drain" /\ snap[h] = 0 /\ todo[h] = {}
  /\ src' = [src EXCEPT ![h] = h]
  /\ fell' = [fell EXCEPT ![h] = {}]
  /\ Goto(h, "refill")
  /\ UNCHANGED <<acb, lists, call, walk, todo, snap, pass, hart>>

(* refill and select_backlog, under the hart's own bl_lock *)
DeadIn(h) == {a \in backlog[h] : var[a] = "DEAD"}

\* the scan unlinks a DEAD entry, unlocks, reaps it and starts again
RefillDead(h) ==
  /\ pc[h] = "refill" /\ Cardinality(rq[h]) < RQ_CAP
  /\ \E a \in DeadIn(h) :
       /\ backlog' = [backlog EXCEPT ![h] = @ \ {a}]
       /\ Start(h, "reap", a, "refill")
  /\ UNCHANGED <<acb, rq, xr, tgt, walk, scan, hart>>

\* the scan unlinks what is not READY and admits one that is
Admit(h) ==
  /\ pc[h] = "refill" /\ Cardinality(rq[h]) < RQ_CAP
  /\ DeadIn(h) = {}
  /\ \E a \in backlog[h] :
       /\ var[a] = "READY"
       /\ backlog' = [backlog EXCEPT ![h] = {b \in @ \ {a} : var[b] = "READY"}]
       /\ rq' = [rq EXCEPT ![h] = @ \cup {a}]
  /\ Goto(h, IF Cardinality(rq[h]) + 1 < RQ_CAP THEN "refill" ELSE "pop")
  /\ UNCHANGED <<acb, xr, call, walk, scan, hart>>

RefillDone(h) ==
  /\ pc[h] = "refill"
  /\ \/ /\ Cardinality(rq[h]) >= RQ_CAP
        /\ UNCHANGED backlog
     \/ /\ Cardinality(rq[h]) < RQ_CAP
        /\ \A a \in backlog[h] : var[a] \notin {"READY", "DEAD"}
        /\ backlog' = [backlog EXCEPT ![h] = {}]
  /\ Goto(h, "pop")
  /\ UNCHANGED <<acb, rq, xr, call, walk, scan, hart>>

(* deq: a READY entry is dispatched, a DEAD one reaped, a stale one skipped *)
Pop(h) ==
  /\ pc[h] = "pop"
  /\ \E a \in rq[h] :
       /\ rq' = [rq EXCEPT ![h] = @ \ {a}]
       /\ \/ /\ var[a] = "READY" /\ Start(h, "claim", a, "none")
             /\ fell' = [fell EXCEPT ![h] = {}]
          \/ /\ var[a] = "DEAD" /\ Start(h, "reap", a, "pop")
             /\ fell' = [fell EXCEPT ![h] = @ \cup {a}]
          \/ var[a] = "BLOCKED" /\ UNCHANGED <<pc, hand, cont, fell>>
  /\ UNCHANGED <<acb, backlog, xr, tgt, walk, todo, src, snap, pass, hart>>

\* Mutant: the doorbell is cleared without a second look at the rings
LookAgainBlind(h) ==
  /\ pc[h] = "pop" /\ rq[h] = {} /\ pass[h] = 1
  /\ bell' = [bell EXCEPT ![h] = FALSE]
  /\ pass' = [pass EXCEPT ![h] = 2]
  /\ UNCHANGED <<acb, lists, pc, call, walk, todo, src, snap, fell, cur, idle>>

\* nothing visible: hal_ipi_clear, the fence, and the second look
LookAgain(h) ==
  /\ pc[h] = "pop" /\ rq[h] = {} /\ pass[h] = 1
  /\ bell' = [bell EXCEPT ![h] = FALSE]
  /\ pass' = [pass EXCEPT ![h] = 2]
  /\ Visit(h)
  /\ Goto(h, "drain")
  /\ UNCHANGED <<acb, lists, call, walk, src, snap, fell, cur, idle>>

\* still nothing: idle is raised BEFORE the scan of the other backlogs
GoIdle(h) ==
  /\ pc[h] = "pop" /\ rq[h] = {} /\ pass[h] = 2
  /\ idle' = [idle EXCEPT ![h] = TRUE]
  /\ pass' = [pass EXCEPT ![h] = 1]
  /\ Visit(h)
  /\ Goto(h, "steal")
  /\ UNCHANGED <<acb, lists, call, walk, src, snap, fell, cur, bell>>

(* steal_from, under the victim's bl_lock: unlink and publish the new owner *)
StealFrom(h) ==
  /\ pc[h] = "steal"
  /\ \E v \in todo[h] \cap Harts :
       \E a \in Stealable(v) :
         /\ backlog' = [backlog EXCEPT ![v] = @ \ {a}]
         /\ owner' = [owner EXCEPT ![a] = h]
         /\ Start(h, "add", a, "drain")
  /\ idle' = [idle EXCEPT ![h] = FALSE]
  /\ Visit(h)
  /\ UNCHANGED <<var, running, mbox, reaped, rq, xr, tgt, walk, src, snap, pass,
                 fell, cur, bell>>

StealMiss(h) ==
  /\ pc[h] = "steal"
  /\ \E v \in todo[h] \cap Harts :
       /\ Stealable(v) = {}
       /\ todo' = [todo EXCEPT ![h] = @ \ {v}]
  /\ UNCHANGED <<acb, lists, pc, call, walk, src, snap, pass, fell, hart>>

(* hal_wfi: the scan found nothing, the hart sleeps *)
Asleep(h) == pc[h] = "steal" /\ todo[h] = {}

\* it returns when the doorbell is up, and consumes it
WfiBell(h) ==
  /\ Asleep(h) /\ bell[h]
  /\ bell' = [bell EXCEPT ![h] = FALSE]
  /\ Visit(h)
  /\ Goto(h, "drain")
  /\ UNCHANGED <<acb, lists, call, walk, src, snap, pass, fell, cur, idle>>

\* hart 0 arms the timer every DETECT_TICKS
WfiTimer(h) ==
  /\ Asleep(h) /\ h = 0
  /\ Visit(h)
  /\ Goto(h, "drain")
  /\ UNCHANGED <<acb, lists, call, walk, src, snap, pass, fell, hart>>

-----------------------------------------------------------------------------
\* Mutant: admission that does not follow a migrated actor to its owner
AddHere(h) ==
  /\ pc[h] = "add"
  /\ IF Listed(hand[h])
       THEN UNCHANGED backlog
       ELSE backlog' = [backlog EXCEPT ![h] = @ \cup {hand[h]}]
  /\ Finish(h)
  /\ UNCHANGED <<acb, rq, xr, tgt, walk, scan, hart>>

(* backlog_add, under h's bl_lock: an entry whose owner moved on is shipped *)
(* after it, a listed one is dropped                                        *)
Add(h) ==
  /\ pc[h] = "add"
  /\ LET a == hand[h] IN
     \/ /\ owner[a] # h
        /\ Goto(h, "ship")
        /\ UNCHANGED <<backlog, hand, cont>>
     \/ /\ owner[a] = h /\ Listed(a)
        /\ Finish(h)
        /\ UNCHANGED backlog
     \/ /\ owner[a] = h /\ ~Listed(a)
        /\ backlog' = [backlog EXCEPT ![h] = @ \cup {a}]
        /\ IF Cardinality(backlog[h]) + 1 > DONATE_HI
             THEN Goto(h, "offer") /\ UNCHANGED <<hand, cont>>
             ELSE Finish(h)
  /\ UNCHANGED <<acb, rq, xr, tgt, walk, scan, hart>>

(* offer: the entry is listed, now look for an idle hart to ring *)
Offer(h) ==
  /\ pc[h] = "offer"
  /\ LET I == {i \in Others(h) : idle[i]} IN
     bell' = [i \in Harts |-> bell[i] \/ (i \in I /\ \A j \in I : i <= j)]
  /\ Finish(h)
  /\ UNCHANGED <<acb, lists, tgt, walk, scan, cur, idle>>

(* ship: one read of the owner decides both the ring and the doorbell *)
Ship(h) ==
  /\ pc[h] = "ship"
  /\ tgt' = [tgt EXCEPT ![h] = owner[hand[h]]]
  /\ Goto(h, IF owner[hand[h]] = h THEN "add" ELSE "push")
  /\ UNCHANGED <<acb, lists, hand, cont, walk, scan, hart>>

\* xpush spins while the ring is full
Push(h) ==
  /\ pc[h] = "push"
  /\ Len(xr[h][tgt[h]]) < XCAP
  /\ xr' = [xr EXCEPT ![h][tgt[h]] = Append(@, hand[h])]
  /\ Goto(h, "ipi")
  /\ UNCHANGED <<acb, backlog, rq, call, walk, scan, hart>>

\* publish the work, THEN raise msip
Ipi(h) ==
  /\ pc[h] = "ipi"
  /\ bell' = [bell EXCEPT ![tgt[h]] = TRUE]
  /\ tgt' = [tgt EXCEPT ![h] = h]
  /\ Finish(h)
  /\ UNCHANGED <<acb, lists, walk, scan, cur, idle>>

-----------------------------------------------------------------------------
(* hart_loop: dispatch.  A context already live elsewhere is double_run.    *)
Claim(h) ==
  /\ pc[h] = "claim"
  /\ cur' = [cur EXCEPT ![h] = hand[h]]
  /\ \/ /\ running[hand[h]] = NoHart
        /\ running' = [running EXCEPT ![hand[h]] = h]
        /\ Start(h, IF hand[h] \in inRecv THEN "recv" ELSE "run", NoActor, "none")
     \/ /\ running[hand[h]] # NoHart
        /\ Start(h, "panic", hand[h], "none")
        /\ UNCHANGED running
  /\ idle' = [idle EXCEPT ![h] = FALSE]
  /\ pass' = [pass EXCEPT ![h] = 1]
  /\ UNCHANGED <<var, owner, mbox, reaped, lists, tgt, walk, todo, src, snap,
                 fell, bell>>

(* to_sched: the context is saved and the running marker dropped *)
ToSched(h) ==
  /\ pc[h] = "tosched"
  /\ running' = [running EXCEPT ![cur[h]] = NoHart]
  /\ Goto(h, "after")
  /\ UNCHANGED <<var, owner, mbox, reaped, lists, call, walk, scan, hart>>

\* back on the loop's stack: a context that left DEAD is reaped here
After(h) ==
  /\ pc[h] = "after"
  /\ cur' = [cur EXCEPT ![h] = NoActor]
  /\ IF var[cur[h]] = "DEAD"
       THEN Start(h, "reap", cur[h], "drain")
       ELSE Goto(h, "drain") /\ UNCHANGED <<hand, cont>>
  /\ Visit(h)
  /\ UNCHANGED <<acb, lists, tgt, walk, src, snap, pass, fell, bell, idle>>

(* reap: the running check, then the CAS on reaping and the teardown *)
Reap(h) ==
  /\ pc[h] = "reap"
  /\ IF running[hand[h]] = NoHart
       THEN Goto(h, "teardown") /\ UNCHANGED <<hand, cont>>
       ELSE Finish(h)
  /\ UNCHANGED <<acb, lists, tgt, walk, scan, hart>>

Teardown(h) ==
  /\ pc[h] = "teardown"
  /\ reaped' = [reaped EXCEPT ![hand[h]] = TRUE]
  /\ Finish(h)
  /\ UNCHANGED <<var, owner, running, mbox, lists, tgt, walk, scan, hart>>

-----------------------------------------------------------------------------
(* The running actor, cur[h], makes one of the calls of its program.       *)
Runs(h, c) == pc[h] = "run" /\ c \in prog[cur[h]]

\* nobody is sent what it never receives
Receivers == {a \in Actors : prog[a] \cap {"receive", "receiveFromRes"} # {}}

(* a_yield and fpr_fuel_exhausted: listed before its context is saved *)
Yield(h) ==
  /\ Runs(h, "yield")
  /\ Start(h, "add", cur[h], "tosched")
  /\ UNCHANGED <<acb, lists, tgt, walk, scan, hart>>

(* fpr_send_as: publish the message, then wake the receiver *)
Send(h) ==
  /\ Runs(h, "send")
  /\ \E b \in Born \cap Receivers :
       /\ var[b] # "DEAD"
       /\ mail' = [mail EXCEPT ![b] = TRUE]
       /\ Start(h, "wake", b, "run")
  /\ UNCHANGED <<var, owner, running, from, watch, inRecv, reaped, lists, tgt,
                 walk, scan, hart>>

(* wake: CAS BLOCKED -> READY; the winner ships *)
Wake(h) ==
  /\ pc[h] = "wake"
  /\ IF var[hand[h]] = "BLOCKED"
       THEN /\ var' = [var EXCEPT ![hand[h]] = "READY"]
            /\ Goto(h, "ship")
            /\ UNCHANGED <<hand, cont>>
       ELSE /\ Finish(h)
            /\ UNCHANGED var
  /\ UNCHANGED <<owner, running, mbox, reaped, lists, tgt, walk, scan, hart>>

(* a_receive, or a_receive_from_res naming the sender s *)
Receive(h) ==
  /\ \/ /\ Runs(h, "receive")
        /\ UNCHANGED from
     \/ /\ Runs(h, "receiveFromRes")
        /\ \E s \in Born : from' = [from EXCEPT ![cur[h]] = s]
  /\ inRecv' = inRecv \cup {cur[h]}
  /\ Goto(h, "recv")
  /\ UNCHANGED <<var, owner, running, mail, watch, reaped, lists, call, walk,
                 scan, hart>>

\* the head of the receive loop: take, or report the death, or park
RecvLook(h) ==
  /\ pc[h] = "recv"
  /\ LET c == cur[h] IN
     IF Pred(c)
       THEN /\ mail' = [mail EXCEPT ![c] = FALSE]
            /\ watch' = [watch EXCEPT ![c] = NoActor]
            /\ from' = [from EXCEPT ![c] = NoActor]
            /\ inRecv' = inRecv \ {c}
            /\ Goto(h, "run")
       ELSE /\ watch' = [watch EXCEPT ![c] = from[c]]
            /\ Goto(h, "block")
            /\ UNCHANGED <<mail, from, inRecv>>
  /\ UNCHANGED <<var, owner, running, reaped, lists, call, walk, scan, hart>>

(* block_unless: CAS READY -> BLOCKED; it fails only on a killed actor *)
Block(h) ==
  /\ pc[h] = "block"
  /\ IF var[cur[h]] = "READY"
       THEN /\ var' = [var EXCEPT ![cur[h]] = "BLOCKED"]
            /\ Goto(h, "recheck")
       ELSE /\ Goto(h, "tosched")
            /\ UNCHANGED var
  /\ UNCHANGED <<owner, running, mbox, reaped, lists, call, walk, scan, hart>>

\* Mutant: parking without the second look
RecheckNever(h) ==
  /\ pc[h] = "recheck"
  /\ Goto(h, "tosched")
  /\ UNCHANGED <<acb, lists, call, walk, scan, hart>>

\* Mutant: the early un-block stores READY instead of swapping it in
RecheckStore(h) ==
  /\ pc[h] = "recheck"
  /\ IF Pred(cur[h])
       THEN /\ var' = [var EXCEPT ![cur[h]] = "READY"]
            /\ Goto(h, "recv")
       ELSE /\ Goto(h, "tosched")
            /\ UNCHANGED var
  /\ UNCHANGED <<owner, running, mbox, reaped, lists, call, walk, scan, hart>>

\* fence, and look again: CAS BLOCKED -> READY if the wait is over already
Recheck(h) ==
  /\ pc[h] = "recheck"
  /\ IF Pred(cur[h])
       THEN /\ var' = [var EXCEPT ![cur[h]] = IF @ = "BLOCKED" THEN "READY" ELSE @]
            /\ Goto(h, "recv")
       ELSE /\ Goto(h, "tosched")
            /\ UNCHANGED var
  /\ UNCHANGED <<owner, running, mbox, reaped, lists, call, walk, scan, hart>>

(* spawn_on_pid_cap_heap: spawn keeps the hart, spawnOn names one and pins *)
Spawn(h) ==
  /\ Runs(h, "spawn")
  /\ \E a \in Actors \ Born :
       /\ \E d \in IF a \in Pinned THEN Harts ELSE {h} :
            owner' = [owner EXCEPT ![a] = d]
       /\ var' = [var EXCEPT ![a] = "READY"]
       /\ Start(h, "ship", a, "run")
  /\ UNCHANGED <<running, mbox, reaped, lists, tgt, walk, scan, hart>>

\* v dies by an act of hart h's actor: its watchers are woken first, then k
Die(h, v, k) ==
  /\ var' = [var EXCEPT ![v] = "DEAD"]
  /\ dying' = [dying EXCEPT ![h] = v]
  /\ then' = [then EXCEPT ![h] = k]
  /\ todo' = [todo EXCEPT ![h] = Born]
  /\ Goto(h, "walk")
  /\ UNCHANGED <<owner, running, mbox, reaped, lists, call, src, snap, pass, fell, hart>>

\* Mutant: the victim is left for its hart to find, whatever it was doing
KillNoShip(h) ==
  /\ Runs(h, "kill")
  /\ \E v \in Born \ {Main} :
       /\ var[v] # "DEAD"
       /\ Die(h, v, IF v = cur[h] THEN "tosched" ELSE "run")

(* a_kill: CAS to DEAD; a victim that was BLOCKED is on no queue, ship it *)
Kill(h) ==
  /\ Runs(h, "kill")
  /\ \E v \in Born \ {Main} :
       /\ var[v] # "DEAD"
       /\ Die(h, v, IF v = cur[h] THEN "tosched"
                    ELSE IF var[v] = "BLOCKED" THEN "ship" ELSE "run")

(* trampoline: the body returned (main's return ends the program instead) *)
Return(h) ==
  /\ Runs(h, "return") /\ cur[h] # Main
  /\ Die(h, cur[h], "tosched")

(* fpr_actor_fail by an actor another one has killed meanwhile *)
FailDead(h) ==
  /\ pc[h] = "run" /\ var[cur[h]] = "DEAD"
  /\ Goto(h, "tosched")
  /\ UNCHANGED <<acb, lists, call, walk, scan, hart>>

(* wake_watchers: walk the ledger, wake whoever is parked on the dead actor *)
WalkStep(h) ==
  /\ pc[h] = "walk"
  /\ \E w \in todo[h] \cap Born :
       /\ todo' = [todo EXCEPT ![h] = @ \ {w}]
       /\ IF watch[w] = dying[h]
            THEN Start(h, "wake", w, "walk")
            ELSE UNCHANGED <<pc, hand, cont>>
  /\ UNCHANGED <<acb, lists, tgt, walk, src, snap, pass, fell, hart>>

WalkDone(h) ==
  /\ pc[h] = "walk" /\ todo[h] = {}
  /\ IF then[h] = "ship"
       THEN Start(h, "ship", dying[h], "run")
       ELSE Goto(h, then[h]) /\ UNCHANGED <<hand, cont>>
  /\ then' = [then EXCEPT ![h] = "run"]
  /\ dying' = [dying EXCEPT ![h] = NoActor]
  /\ UNCHANGED <<acb, lists, tgt, scan, hart>>

-----------------------------------------------------------------------------
\* what the hart loop does by itself
Loop(h) ==
  \/ DrainVisit(h) \/ DrainPop(h) \/ DrainDone(h)
  \/ RefillDead(h) \/ Admit(h) \/ RefillDone(h) \/ Pop(h) \/ LookAgain(h)
  \/ GoIdle(h) \/ StealFrom(h) \/ StealMiss(h)
  \/ WfiBell(h) \/ WfiTimer(h) \/ Claim(h) \/ After(h) \/ Reap(h) \/ Teardown(h)

\* runtime calls in progress, the loop's or the running actor's
Call(h) ==
  \/ Add(h) \/ Offer(h) \/ Ship(h) \/ Push(h) \/ Ipi(h) \/ Wake(h)
  \/ RecvLook(h) \/ Block(h) \/ Recheck(h) \/ WalkStep(h) \/ WalkDone(h)
  \/ ToSched(h)

\* what the running actor asks for
Program(h) ==
  \/ Yield(h) \/ Send(h) \/ Receive(h) \/ Spawn(h) \/ Kill(h) \/ Return(h)
  \/ FailDead(h)

HartStep(h) == Loop(h) \/ Call(h) \/ Program(h)

Next == UNCHANGED prog /\ \E h \in Harts : HartStep(h)

Spec == Init /\ [][Next]_vars

\* no hart stops between two instructions
Fairness == \A h \in Harts : WF_vars(UNCHANGED prog /\ HartStep(h))
FairSpec == Spec /\ Fairness

-----------------------------------------------------------------------------
\* hart h stands inside the context of the actor cur[h]
InContext(h) ==
  \/ pc[h] \in {"run", "recv", "block", "recheck", "wake", "walk", "tosched"}
  \/ pc[h] \in {"add", "offer", "ship", "push", "ipi"}
     /\ cont[h] \in {"run", "walk", "tosched"}

\* A context is live on at most one hart: double_run ("one context resumed on
\* two harts") is unreachable although the wake that made an actor ready, its
\* fuel preemption and a thief may all be moving the same actor at once.
OneContext ==
  /\ \A h \in Harts : pc[h] # "panic"
  /\ \A h, g \in Harts :
       InContext(h) /\ InContext(g) /\ cur[h] = cur[g] => h = g

\* "one entry is the invariant" (backlog_add): an actor stands in at most one
\* queue of one hart, its owner's, and never in a run queue while it runs; the
\* panic of refill ("run queue double entry") is unreachable.
OneEntry ==
  \A a \in Actors :
    /\ \A h \in Harts :
         a \in backlog[h] \cup rq[h] => owner[a] = h
    /\ \A h \in Harts : a \notin backlog[h] \cap rq[h]
    /\ (\E h \in Harts : a \in rq[h]) => running[a] = NoHart

\* where the runtime can still find actor a
Held(h, a) == hand[h] = a /\ pc[h] \in {"add", "offer", "ship", "push", "claim",
                                        "reap", "teardown"}
InRing(a)  == \E s, d \in Harts : \E i \in DOMAIN xr[s][d] : xr[s][d][i] = a
Tracked(a) ==
  \/ Listed(a)
  \/ InRing(a)
  \/ \E h \in Harts : cur[h] = a \/ Held(h, a) \/ (dying[h] = a /\ then[h] = "ship")

\* No actor falls between the queues: one that is ready, or that has died and
\* is not yet reaped, is in some queue, ring or hart's hands, whatever was
\* killed, stolen or woken meanwhile (the leak a_kill's last comment is about).
NothingLost ==
  \A a \in Actors :
    var[a] = "READY" \/ (var[a] = "DEAD" /\ ~reaped[a]) => Tracked(a)

\* The two halves of block_unless and of the senders meet: an actor is not
\* left parked on a condition that holds unless a hart is just about to wake it.
NoLostWake ==
  \A a \in Actors :
    var[a] = "BLOCKED" /\ Pred(a) =>
      \E h \in Harts :
        \/ pc[h] = "wake" /\ hand[h] = a
        \/ pc[h] = "recheck" /\ cur[h] = a
        \/ from[a] # NoActor /\ dying[h] = from[a] /\ a \in todo[h]

\* A hart does not sleep on work that was shipped to it: with its doorbell
\* down its rings hold only entries whose sender has yet to ring, and its
\* backlog nothing ready.  The one way out the code has: deq refills once, so
\* a second look that popped a full batch of RQ_CAP actors, every one of them
\* killed since it admitted it, gives up on the rest of the backlog.
NoSleepOnWork ==
  \A h \in Harts : Asleep(h) /\ ~bell[h] =>
    /\ \A s \in Harts : xr[s][h] # <<>> => pc[s] = "ipi" /\ tgt[s] = h
    /\ rq[h] = {}
    /\ Cardinality(fell[h]) < RQ_CAP => \A a \in backlog[h] : var[a] # "READY"

\* A killed actor stays dead: neither a wake in flight nor its own early
\* un-block (block_unless) turns the status word back.
StayDead == [][\A a \in Actors : var[a] = "DEAD" => var'[a] = "DEAD"]_var

\* The teardown of a context never overlaps its being live: "we are on the
\* hart-loop stack now, so ITS stack is safe to reclaim" (hart_loop).
ReapedNotLive == \A a \in Actors : reaped[a] => running[a] = NoHart

\* A full wake ring delays its producer only until the peer drains it
\* (docs/2026-10-02-SCHED-MODEL.md): every push ends.
PushEnds == \A h \in Harts : pc[h] = "push" ~> pc[h] # "push"

-----------------------------------------------------------------------------
(***************************************************************************)
(* Why OneContext and OneEntry hold: an inductive invariant (SchedProofs). *)
(* An actor's owner field decides which hart may list, dispatch or run it; *)
(* a thief changes it only for an entry it takes out of the backlog.       *)
(***************************************************************************)
\* a hart in the middle of a call knows for which actor and where to go on
CallOf(h) ==
  /\ pc[h] \in {"add", "offer", "ship", "push", "ipi", "claim", "wake",
                "reap", "teardown"} => hand[h] # NoActor
  /\ pc[h] \in {"add", "offer", "ship", "push", "ipi"} =>
       cont[h] \in {"drain", "run", "walk", "tosched"}
  /\ pc[h] = "wake" => cont[h] \in {"run", "walk"}
  /\ pc[h] \in {"reap", "teardown"} => cont[h] \in {"drain", "refill", "pop"}
  /\ pc[h] \notin {"add", "offer", "ship", "push", "ipi", "wake", "reap",
                   "teardown"} => cont[h] = "none"
  /\ pc[h] = "walk" \/ cont[h] = "walk" => dying[h] # NoActor
  /\ pc[h] # "panic"
  /\ hand[h] # NoActor => var[hand[h]] # "NEW"
  /\ dying[h] # NoActor => var[dying[h]] # "NEW"

Calls == \A h \in Harts : CallOf(h)

\* the rings hold spawned actors, and what a drain will still take is there
Rings ==
  /\ \A s, d \in Harts : \A i \in 1 .. Len(xr[s][d]) :
       var[xr[s][d][i]] # "NEW"
  /\ \A h \in Harts : snap[h] <= Len(xr[src[h]][h])

\* a queued actor is its owner's, once, and dispatched from there only saved
Queues ==
  \A a \in Actors, h \in Harts :
    /\ a \in backlog[h] \cup rq[h] => owner[a] = h /\ var[a] # "NEW"
    /\ a \in rq[h] => a \notin backlog[h] /\ running[a] = NoHart

\* an actor about to be dispatched is its owner's, saved and in no queue
Popped ==
  \A h \in Harts : pc[h] = "claim" =>
    /\ owner[hand[h]] = h
    /\ running[hand[h]] = NoHart
    /\ hand[h] \notin backlog[h] \cup rq[h]

\* the running marker names exactly the hart inside the context, the owner
Live ==
  /\ \A h \in Harts : InContext(h) => cur[h] # NoActor /\ running[cur[h]] = h
  /\ \A a \in Actors, h \in Harts :
       running[a] = h => InContext(h) /\ cur[h] = a /\ owner[a] = h /\ var[a] # "NEW"

\* between the switch back and the reap the loop still has current set
Switched == \A h \in Harts : pc[h] = "after" => cur[h] # NoActor /\ var[cur[h]] # "NEW"

IInv == TypeOK /\ Calls /\ Rings /\ Queues /\ Popped /\ Live /\ Switched

-----------------------------------------------------------------------------
(***************************************************************************)
(* Why NothingLost, NoLostWake and NoSleepOnWork hold: what IInv has to be *)
(* strengthened with (SchedProofs).                                        *)
(***************************************************************************)
\* whoever is mourned is dead, and a hart that will leave its context after the
\* walk mourns the actor it runs
Mourning ==
  \A h \in Harts :
    /\ dying[h] # NoActor => /\ pc[h] = "walk" \/ cont[h] = "walk"
                             /\ var[dying[h]] = "DEAD"
    /\ then[h] = "tosched" => dying[h] = cur[h] /\ cur[h] # NoActor
    /\ ~InContext(h) /\ pc[h] # "after" => cur[h] = NoActor

\* an actor is BLOCKED only from its own block_unless until its wake, and its
\* watch field names the sender it waits for all that time
Parked ==
  /\ \A h \in Harts :
       /\ InContext(h) /\ pc[h] \notin {"recheck", "tosched"} =>
            var[cur[h]] # "BLOCKED"
       /\ pc[h] = "claim" => var[hand[h]] # "BLOCKED"
       /\ pc[h] = "block" => watch[cur[h]] = from[cur[h]]
       /\ \A a \in rq[h] : var[a] # "BLOCKED"
  /\ \A a \in Actors : var[a] = "BLOCKED" => watch[a] = from[a]

\* where an actor that is READY can be: queued, under way to a queue or to its
\* dispatch, or running in a context that does not leave before it blocks
Moving(h, a) == hand[h] = a /\ pc[h] \in {"add", "ship", "push", "claim"}
Active(h)    == InContext(h) /\ pc[h] \notin {"recheck", "tosched"}
                             /\ cont[h] # "tosched"
ReadyHeld ==
  \A a \in Actors : var[a] = "READY" =>
    \/ Listed(a) \/ InRing(a)
    \/ \E h \in Harts : Moving(h, a) \/ (Active(h) /\ cur[h] = a)

\* where one that died can be until it is reaped
DeadHeld ==
  \A a \in Actors : var[a] = "DEAD" /\ ~reaped[a] =>
    \/ Listed(a) \/ InRing(a)
    \/ \E h \in Harts :
         \/ Moving(h, a) \/ cur[h] = a
         \/ pc[h] \in {"reap", "teardown"} /\ hand[h] = a
         \/ dying[h] = a /\ then[h] = "ship"

\* hart h is between the top of a turn and its first refill
Draining(h) == pc[h] = "drain" \/ cont[h] = "drain"

\* entries of ring s that hart h's drain has covered already
Covered(s, h) == IF src[h] = s THEN snap[h] ELSE 0

\* an entry that no drain has covered is announced: the bell is up or about to
\* be raised, or the hart will still visit that ring
Rung ==
  /\ \A s, h \in Harts : Len(xr[s][h]) > Covered(s, h) =>
       \/ bell[h]
       \/ pc[s] = "ipi" /\ tgt[s] = h
       \/ Draining(h) /\ s \in todo[h]
  /\ \A h \in Harts : /\ snap[h] > 0 => Draining(h)
                      /\ xr[h][h] = <<>>
                      /\ pc[h] = "push" => tgt[h] # h

\* a hart between its refill and its sleep leaves entries in its backlog only
\* when the batch was full, and what it popped of the batch since was dead
Popping(h) == pc[h] \in {"pop", "steal"} \/ cont[h] = "pop"
Batch ==
  \A h \in Harts :
    /\ pc[h] = "steal" => rq[h] = {}
    /\ Popping(h) /\ backlog[h] # {} => Cardinality(rq[h] \cup fell[h]) >= RQ_CAP

WInv == Mourning /\ Parked /\ NoLostWake /\ ReadyHeld /\ DeadHeld /\ Rung /\ Batch
=============================================================================
