------------------------------- MODULE Sleep -------------------------------
(***************************************************************************)
(* Time on a machine of several harts: parked sleeps (Sys.sleepUs), the    *)
(* one timer deadline of the timer service, what a hart arms before it     *)
(* sleeps, the doorbell and condition variable it sleeps on                *)
(* (runtime/actors.c, machine/unix/park.c).                                *)
(*                                                                         *)
(* hal_wfi is modelled without its 20 ms cap: nothing may depend on it.    *)
(* Queues are sets: who is picked is left open.  One entry of a sleep list *)
(* is drained at a time; the rest of a hart's pass is its own list's.      *)
(* Backlog and run queue are one set, so a hart finds whatever is queued   *)
(* whenever it looks; that deq refills once per look is module Sched's.    *)
(***************************************************************************)
EXTENDS Integers, FiniteSets, Sequences, SequencesExt, FiniteSetsExt

CONSTANTS
  Sleepers,   \* actors that call Sys.sleepUs
  Svc,        \* the timer service (tmr_act)
  None,
  HartCount,  \* harts 0..HartCount-1; the last is the irq hart
  Spans,      \* how long a sleep or a timer is asked for, in ticks
  Detect,     \* DETECT_TICKS
  MaxTime,    \* bound: the clock stops here
  Sleeps,     \* bound: sleeps a sleeper starts
  Arms,       \* bound: deadlines the service sets
  Pokes,      \* bound: messages and kills
  Steals      \* bound: steals (two harts could pass one actor to and fro
              \* for ever only if its hart always lost the backlog's lock)

ASSUME SleepAssumption ==
  /\ HartCount \in Nat \ {0} /\ Spans \subseteq Nat \ {0}
  /\ {Detect, MaxTime} \subseteq Nat \ {0} /\ {Sleeps, Arms, Pokes, Steals} \subseteq Nat
  /\ IsFiniteSet(Sleepers) /\ Svc \notin Sleepers
  /\ None \notin Sleepers \cup {Svc} \cup 0..(HartCount - 1)

Harts == 0..(HartCount - 1)
IrqHart == HartCount - 1
Actors == Sleepers \cup {Svc}

VARIABLES
  now,      \* hal_mtime
  hart,     \* each hart's loop, park and sleep list
  act,      \* each actor
  ready,    \* what is queued on each hart (ring, backlog, run queue)
  ringing,  \* <<s, h>>: s has raised h's bell and not yet looked at waiting
  tmr,      \* tmr_deadline and what the service's mailbox holds
  count     \* g_blocked and g_sleepers
vars == <<now, hart, act, ready, ringing, tmr, count>>

\* Where a pass begins: tmr_drain is the irq hart's alone.
First(h) == IF h = IrqHart THEN "tmr" ELSE "slp"

\* The service is about to receive on the irq hart, the sleepers are on 0.
Init ==
  /\ now = 1
  /\ hart = [h \in Harts |-> [pc |-> First(h), cur |-> None, again |-> FALSE,
                              slp |-> <<>>, at |-> 1, cmp |-> 0, bell |-> FALSE,
                              waiting |-> FALSE]]
  /\ act = [a \in Actors |-> [pc |-> IF a = Svc THEN "check" ELSE "go", var |-> "READY",
                              hart |-> IF a = Svc THEN IrqHart ELSE 0,
                              on |-> FALSE, slpHart |-> 0, wakeAt |-> 0,
                              running |-> None, parked |-> FALSE, reaped |-> FALSE,
                              left |-> IF a = Svc THEN Arms ELSE Sleeps]]
  /\ ready = [h \in Harts |-> {a \in Actors : act[a].hart = h}]
  /\ ringing = {}
  /\ tmr = [dl |-> 0, mail |-> 0, pokes |-> Pokes, steals |-> Steals]
  /\ count = [blocked |-> 0, sleepers |-> 0]

Runs(h, a) == hart[h].pc = "run" /\ hart[h].cur = a
At(h, pc) == hart[h].pc = pc
Goto(h, pc) == [hart EXCEPT ![h].pc = pc]

-----------------------------------------------------------------------------
(* Waking and ringing.                                                     *)

Bell(H, h) == [H EXCEPT ![h].bell = TRUE]
Ring(R, s, h) == R \cup {<<s, h>>}

\* ship: queued on its own hart, whose bell is raised by another.
Ship(a, s, H) ==
  LET h == act[a].hart IN
  /\ ready' = [ready EXCEPT ![h] = @ \cup {a}]
  /\ hart' = IF s = h THEN H ELSE Bell(H, h)
  /\ ringing' = IF s = h THEN ringing ELSE Ring(ringing, s, h)

\* wake(a) by hart s; A and H are what the caller makes of act and hart.
Wake(a, s, A, H) ==
  IF act[a].var = "BLOCKED"
  THEN act' = [A EXCEPT ![a].var = "READY"] /\ Ship(a, s, H)
  ELSE act' = A /\ hart' = H /\ UNCHANGED <<ready, ringing>>

\* hal_ipi_send's second half: a hart seen waiting is signalled under its
\* mutex, which is free once it is inside the wait.
RingLook(s, h) ==
  /\ <<s, h>> \in ringing
  /\ hart[h].waiting => hart[h].pc \in {"asleep", "leave2"}
  /\ ringing' = ringing \ {<<s, h>>}
  /\ hart' = IF hart[h].waiting /\ At(h, "asleep") THEN Goto(h, "wait") ELSE hart
  /\ UNCHANGED <<now, act, ready, tmr, count>>

-----------------------------------------------------------------------------
(* An actor that sleeps.                                                   *)

\* Mutant of MayLink: the sleeper links itself again.
MayLinkAlways(a) == TRUE
\* The slp_on test of a_sleep_us.
MayLink(a) == ~act[a].on

\* a_sleep_us: linked at the head of this hart's list, or, while it is still
\* on one, the host's sleep, which holds the hart.
SleepStart(h, a, d) ==
  /\ Runs(h, a) /\ act[a].pc = "go" /\ act[a].left > 0 /\ now + d <= MaxTime
  /\ IF MayLink(a)
     THEN /\ act' = [act EXCEPT ![a] = [@ EXCEPT !.pc = "check", !.on = TRUE,
                       !.slpHart = h, !.wakeAt = now + d, !.left = act[a].left - 1]]
          /\ hart' = [hart EXCEPT ![h].slp = <<a>> \o @]
          /\ count' = [count EXCEPT !.sleepers = @ + 1]
     ELSE /\ act' = [act EXCEPT ![a].pc = "host", ![a].left = @ - 1]
          /\ UNCHANGED <<hart, count>>
  /\ UNCHANGED <<now, ready, ringing, tmr>>

HostSlept(h, a) ==
  /\ Runs(h, a) /\ act[a].pc = "host"
  /\ act' = [act EXCEPT ![a].pc = "go"]
  /\ UNCHANGED <<now, hart, ready, ringing, tmr, count>>

\* to_sched: the hart is back in its loop, the actor may run elsewhere; a
\* dead one is reaped there.  x is the actor as it leaves.
Left(h) == [hart EXCEPT ![h] = [@ EXCEPT !.pc = First(h), !.cur = None, !.at = 1]]
Out(x) == IF x.var = "DEAD" THEN [x EXCEPT !.running = None, !.parked = FALSE, !.reaped = TRUE]
          ELSE [x EXCEPT !.running = None]

\* What the actor waits for: p_sleep, or the service's p_any.
Holds(a) == IF a = Svc THEN tmr.mail > 0 ELSE now >= act[a].wakeAt
Past(a) == IF a = Svc THEN "arm" ELSE "unlink"

\* The loop over block_unless: look, then declare itself blocked.  A kill
\* has already marked it, then it switches away for good.
Check(h, a) ==
  /\ Runs(h, a) /\ act[a].pc = "check"
  /\ act' = [act EXCEPT ![a] =
       IF Holds(a) THEN [@ EXCEPT !.pc = Past(a)]
       ELSE IF act[a].var = "READY" THEN [@ EXCEPT !.pc = "look", !.var = "BLOCKED"]
       ELSE Out([@ EXCEPT !.pc = "end"])]
  /\ hart' = IF ~Holds(a) /\ act[a].var # "READY" THEN Left(h) ELSE hart
  /\ UNCHANGED <<now, ready, ringing, tmr, count>>

\* The second look of block_unless, after it declared itself blocked.
Look(h, a) ==
  /\ Runs(h, a) /\ act[a].pc = "look"
  /\ IF Holds(a)
     THEN /\ act' = [act EXCEPT ![a] = [@ EXCEPT !.pc = Past(a),
                       !.var = IF act[a].var = "BLOCKED" THEN "READY" ELSE act[a].var]]
          /\ UNCHANGED <<hart, count>>
     ELSE /\ act' = [act EXCEPT ![a] = Out([@ EXCEPT !.pc = "parked", !.parked = TRUE])]
          /\ count' = IF act[a].var = "DEAD" THEN count ELSE [count EXCEPT !.blocked = @ + 1]
          /\ hart' = Left(h)
  /\ UNCHANGED <<now, ready, ringing, tmr>>

\* The walk along a list to an entry, which is taken out.
Without(s, a) == RemoveAt(s, CHOOSE i \in 1..Len(s) : s[i] = a)

\* Past its deadline: unlinked here if the list is this hart's.
Unlink(h, a) ==
  LET mine == act[a].on /\ act[a].slpHart = h IN
  /\ Runs(h, a) /\ act[a].pc = "unlink"
  /\ act' = [act EXCEPT ![a] = [@ EXCEPT !.pc = "go", !.on = act[a].on /\ ~mine]]
  /\ hart' = IF mine THEN [hart EXCEPT ![h].slp = Without(@, a)] ELSE hart
  /\ count' = IF mine THEN [count EXCEPT !.sleepers = @ - 1] ELSE count
  /\ UNCHANGED <<now, ready, ringing, tmr>>

\* Its body ends, or a safepoint finds it was killed.
End(h, a) ==
  /\ Runs(h, a) /\ act[a].pc = "go"
  /\ \/ act[a].left = 0 \/ act[a].var = "DEAD"
     \/ \A d \in Spans : now + d > MaxTime
  /\ act' = [act EXCEPT ![a] = Out([@ EXCEPT !.pc = "end", !.var = "DEAD"])]
  /\ hart' = Left(h)
  /\ UNCHANGED <<now, ready, ringing, tmr, count>>

\* a_kill by hart s: a blocked actor is handed to its hart, to be reaped.
Kill(s, a) ==
  /\ At(s, "run") /\ a # Svc /\ act[a].var # "DEAD" /\ tmr.pokes > 0
  /\ tmr' = [tmr EXCEPT !.pokes = @ - 1]
  /\ act' = [act EXCEPT ![a].var = "DEAD"]
  /\ IF act[a].var = "BLOCKED" THEN Ship(a, s, hart)
     ELSE UNCHANGED <<hart, ready, ringing>>
  /\ UNCHANGED <<now, count>>

\* A message from an actor on hart s, or an interrupt it claims: it wakes a sleeper
\* early, and is a request to the timer service.
Poke(s, a) ==
  /\ tmr.pokes > 0 /\ (At(s, "run") \/ (s = IrqHart /\ At(s, "tmr")))
  /\ tmr' = [tmr EXCEPT !.pokes = @ - 1, !.mail = IF a = Svc THEN @ + 1 ELSE @]
  /\ Wake(a, s, act, hart)
  /\ UNCHANGED <<now, count>>

-----------------------------------------------------------------------------
(* The timer service: it receives, and sets the one deadline.              *)

\* a_timer_arm, or nothing to arm; the irq hart is rung to look.
TimerArm(h) ==
  /\ Runs(h, Svc) /\ act[Svc].pc = "arm"
  /\ \/ \E d \in Spans :
          /\ act[Svc].left > 0 /\ now + d <= MaxTime
          /\ act' = [act EXCEPT ![Svc].pc = "check", ![Svc].left = @ - 1]
          /\ tmr' = [tmr EXCEPT !.mail = @ - 1, !.dl = now + d]
          /\ hart' = IF h = IrqHart THEN hart ELSE Bell(hart, IrqHart)
          /\ ringing' = IF h = IrqHart THEN ringing ELSE Ring(ringing, h, IrqHart)
     \/ /\ act' = [act EXCEPT ![Svc].pc = "check"]
        /\ tmr' = [tmr EXCEPT !.mail = @ - 1]
        /\ UNCHANGED <<hart, ringing>>
  /\ UNCHANGED <<now, ready, count>>

-----------------------------------------------------------------------------
(* The hart loop.                                                          *)

\* hal_timer_park on a hart that is not the detector's.
Parked(h, cmp) == IF h = 0 THEN cmp ELSE 0

\* tmr_drain: the tick is sent once the deadline is past; a refused send
\* leaves the deadline.
TmrDrain(h) ==
  LET due == tmr.dl # 0 /\ now >= tmr.dl
      past(pc) == [hart EXCEPT ![h] = [@ EXCEPT !.pc = pc,
                                  !.cmp = IF due THEN Parked(h, hart[h].cmp) ELSE hart[h].cmp]]
  IN
  /\ At(h, "tmr")
  /\ \/ ~due /\ hart' = past("slp") /\ UNCHANGED <<act, ready, ringing, tmr>>
     \/ /\ due
        /\ tmr' = [tmr EXCEPT !.mail = @ + 1]
        /\ Wake(Svc, h, act, past("clear"))
  /\ UNCHANGED <<now, count>>

\* Its last statement, tmr_dl_set(0).
TmrClear(h) ==
  /\ At(h, "clear")
  /\ tmr' = [tmr EXCEPT !.dl = 0]
  /\ hart' = Goto(h, "slp")
  /\ UNCHANGED <<now, act, ready, ringing, count>>

\* reap, once and never while it runs: an actor killed in its park leaves
\* the count of the blocked.
ReapedAct(a) == [act EXCEPT ![a].reaped = TRUE, ![a].parked = FALSE]
Blocked(a) ==
  IF act[a].parked /\ ~act[a].reaped THEN count.blocked - 1 ELSE count.blocked

\* slp_drain, one entry: past its deadline, or dead.
SlpDrain(h) ==
  LET x == hart[h]  a == x.slp[x.at]
      gone == act[a].var = "DEAD"
      out == [hart EXCEPT ![h].slp = RemoveAt(@, x.at), ![h].cmp = Parked(h, @)]
      off == [act EXCEPT ![a].on = FALSE]
  IN
  /\ At(h, "slp") /\ x.at <= Len(x.slp)
  /\ IF now < act[a].wakeAt /\ ~gone
     THEN /\ hart' = [hart EXCEPT ![h].at = @ + 1]
          /\ UNCHANGED <<act, ready, ringing, count>>
     ELSE IF gone
     THEN /\ act' = IF act[a].running # None THEN off
                    ELSE [ReapedAct(a) EXCEPT ![a].on = FALSE]
          /\ count' = [blocked |-> IF act[a].running # None THEN count.blocked ELSE Blocked(a),
                       sleepers |-> count.sleepers - 1]
          /\ hart' = out
          /\ UNCHANGED <<ready, ringing>>
     ELSE /\ Wake(a, h, off, out)
          /\ count' = [count EXCEPT !.sleepers = @ - 1]
  /\ UNCHANGED <<now, tmr>>

\* The lists are drained: the loop goes on to pick.
Drained(h) == At(h, "slp") /\ hart[h].at > Len(hart[h].slp)

\* Mutant of Resume: a block_unless that is not in a loop.
ResumeOnce(a) == Past(a)
\* Where block_unless returns to: the loop's test.
Resume(a) == "check"

\* deq: a ready actor is run, a dead one reaped, a blocked one was stale.
Pick(h, a) ==
  /\ Drained(h) /\ a \in ready[h] /\ act[a].running = None
  /\ ready' = [ready EXCEPT ![h] = @ \ {a}]
  /\ CASE act[a].var = "READY" ->
            /\ act' = [act EXCEPT ![a] = [@ EXCEPT !.running = h, !.parked = FALSE,
                         !.pc = IF act[a].pc = "parked" THEN Resume(a) ELSE act[a].pc]]
            /\ hart' = [hart EXCEPT ![h] = [@ EXCEPT !.pc = "run", !.cur = a, !.again = FALSE]]
            /\ count' = [count EXCEPT !.blocked = IF act[a].parked THEN @ - 1 ELSE @]
       [] act[a].var = "DEAD" ->
            /\ act' = ReapedAct(a)
            /\ count' = [count EXCEPT !.blocked = Blocked(a)]
            /\ UNCHANGED hart
       [] OTHER -> UNCHANGED <<act, hart, count>>
  /\ UNCHANGED <<now, ringing, tmr>>

\* Nothing to run: the bell is cleared and everything looked at again.
Again(h) ==
  /\ Drained(h) /\ ready[h] = {} /\ ~hart[h].again
  /\ hart' = [hart EXCEPT ![h] = [@ EXCEPT !.pc = First(h), !.again = TRUE,
                                              !.bell = FALSE, !.at = 1]]
  /\ UNCHANGED <<now, act, ready, ringing, tmr, count>>

\* steal: a ready actor moves to this hart.
Steal(h, g, a) ==
  /\ Drained(h) /\ ready[h] = {} /\ hart[h].again /\ g # h /\ tmr.steals > 0
  /\ a \in ready[g] /\ act[a].var = "READY" /\ act[a].running = None
  /\ ready' = [ready EXCEPT ![g] = @ \ {a}, ![h] = {a}]
  /\ act' = [act EXCEPT ![a].hart = h]
  /\ hart' = [hart EXCEPT ![h].pc = First(h), ![h].again = FALSE, ![h].at = 1]
  /\ tmr' = [tmr EXCEPT !.steals = @ - 1]
  /\ UNCHANGED <<now, ringing, count>>

\* What the hart arms: the detector's pace on hart 0, the timer's deadline
\* on the irq hart, the nearest sleeper; on hart 0 never later than the
\* detector.
Ahead(t) == IF t > now THEN t ELSE Min({now + 1, MaxTime})
Over(h, cmp, t) == IF h = 0 /\ Ahead(t) - now > Detect THEN cmp ELSE Ahead(t)
TmrArmed(h, cmp) == IF h = IrqHart /\ tmr.dl # 0 THEN Over(h, cmp, tmr.dl) ELSE cmp
Nearest(h) == Min({act[a].wakeAt : a \in ToSet(hart[h].slp)})
\* Mutant of SlpArmed: the sleepers are not looked at.
SlpArmedNone(h, cmp) == cmp
SlpArmed(h, cmp) == IF hart[h].slp # <<>> THEN Over(h, cmp, Nearest(h)) ELSE cmp

ArmAll(h) ==
  /\ Drained(h) /\ ready[h] = {} /\ hart[h].again
  /\ hart' = [hart EXCEPT ![h] = [@ EXCEPT !.pc = "wfi",
       !.cmp = SlpArmed(h, TmrArmed(h, IF h = 0 THEN now + Detect ELSE hart[h].cmp))]]
  /\ UNCHANGED <<now, act, ready, ringing, tmr, count>>

-----------------------------------------------------------------------------
(* hal_wfi (park.c).                                                       *)

Due(h) == hart[h].cmp # 0 /\ now >= hart[h].cmp
Top(H, h) == [H EXCEPT ![h].pc = First(h), ![h].again = FALSE, ![h].at = 1]
HartStep(H) == hart' = H /\ UNCHANGED <<now, act, ready, ringing, tmr, count>>

\* The spin consumes a bell; else it goes on to the mutex.
Spin(h) ==
  /\ At(h, "wfi")
  /\ HartStep(IF hart[h].bell THEN Top([hart EXCEPT ![h].bell = FALSE], h) ELSE Goto(h, "raise"))

\* waiting, before the bell is read.
Raise(h) ==
  /\ At(h, "raise")
  /\ HartStep([hart EXCEPT ![h].pc = "wait", ![h].waiting = TRUE])

Wait(h) ==
  /\ At(h, "wait")
  /\ HartStep(Goto(h, IF hart[h].bell \/ Due(h) THEN "leave" ELSE "asleep"))

TimeOut(h) == At(h, "asleep") /\ Due(h) /\ HartStep(Goto(h, "leave"))

Leave(h) ==
  /\ At(h, "leave")
  /\ HartStep([hart EXCEPT ![h] = [@ EXCEPT !.pc = "leave2", !.waiting = FALSE,
                                            !.cmp = IF Due(h) THEN 0 ELSE hart[h].cmp]])

\* The bell is consumed last; the loop looks at everything again.
Leave2(h) == At(h, "leave2") /\ HartStep(Top([hart EXCEPT ![h].bell = FALSE], h))

Park(h) == Spin(h) \/ Raise(h) \/ Wait(h) \/ TimeOut(h) \/ Leave(h) \/ Leave2(h)

-----------------------------------------------------------------------------
Tick ==
  /\ now < MaxTime
  /\ now' = now + 1
  /\ UNCHANGED <<hart, act, ready, ringing, tmr, count>>

Loop(h) ==
  \/ TmrDrain(h) \/ TmrClear(h) \/ SlpDrain(h)
  \/ (\E a \in Actors : Pick(h, a)) \/ Again(h) \/ ArmAll(h) \/ Park(h)
Run(h) ==
  \E a \in Actors :
    \/ \E d \in Spans : a # Svc /\ SleepStart(h, a, d)
    \/ HostSlept(h, a) \/ Check(h, a) \/ Look(h, a) \/ Unlink(h, a)
    \/ End(h, a)
  \/ TimerArm(h)

Next ==
  \/ Tick
  \/ \E h \in Harts : Loop(h) \/ Run(h)
  \/ \E h, g \in Harts : RingLook(g, h) \/ \E a \in Actors : Steal(h, g, a)
  \/ \E h \in Harts, a \in Actors : Kill(h, a) \/ Poke(h, a)

\* Every hart is a thread that keeps running, a ring is finished by its
\* ringer, and the clock moves.
Fairness ==
  /\ WF_vars(Tick)
  /\ \A h \in Harts : WF_vars(Loop(h) \/ Run(h)) /\ WF_vars(\E g \in Harts : RingLook(g, h))

Spec == Init /\ [][Next]_vars /\ Fairness

-----------------------------------------------------------------------------
(* Properties.                                                             *)

TypeOK ==
  /\ now \in 1..MaxTime /\ ringing \subseteq Harts \X Harts
  /\ ready \in [Harts -> SUBSET Actors]
  /\ \A h \in Harts : /\ hart[h].cur \in Actors \cup {None} /\ hart[h].cmp \in Nat
                      /\ hart[h].slp \in Seq(Sleepers)
  /\ \A a \in Actors : /\ act[a].var \in {"READY", "BLOCKED", "DEAD"}
                       /\ act[a].hart \in Harts
                       /\ act[a].running \in Harts \cup {None}
  /\ tmr.dl \in 0..MaxTime /\ tmr.mail \in Nat /\ count.blocked \in Nat

\* The sleep lists stay lists: an actor woken early, moved to another hart
\* and sleeping again is on one list at most, once (linked twice it would
\* close a ring the hart walks forever), its mark says so, and the
\* detector's count of sleepers is the number of entries.
Links(a) ==
  UNION {{<<h, i>> : i \in {j \in DOMAIN hart[h].slp : hart[h].slp[j] = a}} : h \in Harts}
Linked ==
  /\ \A a \in Sleepers : Cardinality(Links(a)) = IF act[a].on THEN 1 ELSE 0
  /\ count.sleepers = Cardinality({a \in Sleepers : act[a].on})

\* The detector's count of blocked actors is the number of actors that are
\* switched out in a park: a wake, a kill and a reap each take one off once.
Counted == count.blocked = Cardinality({a \in Actors : act[a].parked})

\* A sleep never returns before its deadline, whoever wakes the sleeper.
NotEarly ==
  [][\A a \in Sleepers :
       act[a].pc \in {"check", "look", "parked"} /\ act'[a].pc \in {"unlink", "go"}
         => now >= act[a].wakeAt]_vars

\* A hart asleep with work queued for it is about to be signalled: between
\* the bell and the waiting flag no order loses the wake.
Signalled ==
  \A h \in Harts :
    At(h, "asleep") /\ ready[h] # {} => \E s \in Harts : <<s, h>> \in ringing

\* A hart asleep wakes for its nearest sleeper: what it armed is no later.
OnTime ==
  \A h \in Harts : At(h, "asleep") /\ hart[h].slp # <<>> =>
    hart[h].cmp # 0 /\ \A a \in ToSet(hart[h].slp) : hart[h].cmp <= Max({act[a].wakeAt, now + 1})

\* Whoever parks in a sleep runs again or is reaped, and so does the timer
\* service once its mailbox holds something.
Returns ==
  \A a \in Actors :
    act[a].pc = "parked" /\ (a \in Sleepers \/ tmr.mail > 0)
      ~> act[a].pc # "parked" \/ act[a].reaped

\* A deadline the service set is cleared only by the tick it caused
\* (actors.c:1415: "the deadline is cleared only once the tick is queued").
ArmKept ==
  [][tmr'.dl = 0 => tmr.dl <= now]_vars

\* The irq hart does not sleep past the timer's deadline unless its bell is
\* up.
TimerOnTime ==
  At(IrqHart, "asleep") /\ tmr.dl # 0 /\ ~hart[IrqHart].bell =>
    hart[IrqHart].cmp # 0 /\ hart[IrqHart].cmp <= Max({tmr.dl, now + 1})

\* What the harts and the detector believe of the sleepers is true: the lists
\* and both counts are exact, and a hart sleeps neither past its nearest
\* sleeper nor on work that nobody is about to signal.
SleepSound == TypeOK /\ Linked /\ Counted /\ Signalled /\ OnTime
=============================================================================
