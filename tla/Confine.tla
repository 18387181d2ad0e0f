------------------------------ MODULE Confine ------------------------------
(***************************************************************************)
(* Confined processes (runtime/actors.c,                                   *)
(* docs/2026-10-17-CONFINED-PROCESSES.md).  A process is the set of actors *)
(* with one pid.  A record (pidpol_t) holds its budget, the bytes charged  *)
(* to it and how far it is towards its end; the actors point at it, and    *)
(* what they spawn inherits it.  Sys.confine gives a process a record with *)
(* a budget; Sys.killPid, or a refused take, ends it whole.                *)
(*                                                                         *)
(* One step is one atomic access or one pols_lock region of one actor;     *)
(* every actor may be on a hart of its own.  The registry walks go actor   *)
(* by actor: the ledger is prepended to, so a walk never meets who was     *)
(* spawned after it started.                                               *)
(*                                                                         *)
(* Abstractions.  An actor is LIVE or DEAD: which queue holds it is the    *)
(* subject of Sched, and a parked one is one that takes no step until it   *)
(* is killed.  A block is one unit of budget, a spawn wants Stack of them. *)
(* Reasons (why) are left out.                                             *)
(***************************************************************************)
EXTENDS Naturals, Sequences, FiniteSets

CONSTANTS
  Actors,
  Launcher,     \* an actor of the boot image, pid 0: it starts and ends processes
  MaxPid,       \* processes started (a bound)
  MaxKilled,    \* those of them that may be killed (a bound)
  Records,      \* the records carved so far (pol_new's blocks of 64)
  Blocks,       \* blocks the buddy can give
  Budget,       \* what Sys.confine grants, in blocks
  Stack,        \* 2 * STACK_SZ, what spawn_gate wants to be free
  NoActor, NoRec

ASSUME ConfineAssumption ==
  /\ Launcher \in Actors /\ IsFiniteSet(Actors) /\ IsFiniteSet(Blocks)
  /\ NoActor \notin Actors /\ NoRec \notin Records
  /\ MaxPid \in Nat /\ MaxKilled \in Nat /\ Budget \in Nat \ {0} /\ Stack \in Nat

VARIABLES
  \* actor control blocks
  var,      \* "NEW" (not in the ledger), "LIVE", "DEAD"
  running,  \* the live actors, and the dead ones no hart has switched out yet
  pid, pol, \* the process, and its record or NoRec
  reap,     \* teardown: "no", "test" or "mark" (inside pol_quiet), "done"
  ledger,   \* g_all, newest first
  nextPid,
  \* records
  rpid, budget, charged, flags,
  \* blocks
  tag,      \* the record a block is charged to (buddy_tag), or NoRec
  taker,    \* (history) the process that took it
  \* what each actor is doing
  pc,
  op,       \* "confine", "kill" or "end", while it does that
  goal,     \* the pid it is about
  rec,      \* the record in its hands
  kid,      \* the actor it is building
  todo,     \* what its walk has still to visit
  some,     \* the walk found an actor to give the record to, or to end
  dup,      \* confine met an actor that has a record
  told,     \* (history) <<op, pid>>: confined with Ok, ended whole
  missed    \* (history) PID_DONE was set for a process that had an actor, or on a
            \* record that another reaper's had let a new process take meanwhile

acb    == <<var, running, pid, pol, reap, ledger>>
recs   == <<rpid, budget, charged, flags>>
blocks == <<tag, taker>>
hist   == <<told, missed>>
regs   == <<op, goal, rec, some, dup>>
vars   == <<acb, nextPid, recs, blocks, pc, regs, kid, todo, hist>>

-----------------------------------------------------------------------------
Listed     == {ledger[i] : i \in DOMAIN ledger}
Of(p)      == {x \in Listed : pid[x] = p}
Tagged(r)  == {b \in Blocks : tag[b] = r}

\* fpr_actor_confined
Confined(a) == pol[a] # NoRec /\ "CONFINED" \in flags[pol[a]]

At(a, l)   == a \in running /\ pc[a] = l
Goto(a, l) == pc' = [pc EXCEPT ![a] = l]

\* a starts to walk the actors of process p
Walk(a, p) ==
  /\ todo' = [todo EXCEPT ![a] = Of(p)]
  /\ some' = [some EXCEPT ![a] = FALSE]

\* the newest of those a has still to visit, where its walk down the ledger is
NextIs(a, x) ==
  /\ x \in todo[a]
  /\ \E i \in DOMAIN ledger : ledger[i] = x /\ \A j \in 1 .. i - 1 : ledger[j] \notin todo[a]
Visited(a, x) == todo' = [todo EXCEPT ![a] = @ \ {x}]

\* a starts an operation about process p, with record r in hand
Begin(a, l, o, p, r) ==
  /\ Goto(a, l)
  /\ op' = [op EXCEPT ![a] = o]
  /\ goal' = [goal EXCEPT ![a] = p]
  /\ rec' = [rec EXCEPT ![a] = r]
  /\ some' = [some EXCEPT ![a] = FALSE]
  /\ dup' = [dup EXCEPT ![a] = FALSE]

\* back to its program
Done(a) == Begin(a, "run", "none", 0, NoRec)

\* fpr_actor_fail, or the body's end: a is dead and leaves its hart
Fail(a) ==
  /\ var' = [var EXCEPT ![a] = "DEAD"]
  /\ running' = running \ {a}
  /\ kid' = [kid EXCEPT ![a] = NoActor]
  /\ Done(a)

\* pol_end: a ends its own process
End(a) == Begin(a, "mark", "end", rpid[pol[a]], pol[a])

\* fpr_exhausted: what was being built is given up
Exhausted(a) ==
  \/ /\ Confined(a)
     /\ End(a)
     /\ kid' = [kid EXCEPT ![a] = NoActor]
     /\ UNCHANGED <<var, running>>
  \/ ~Confined(a) /\ Fail(a)

Init ==
  /\ var = [a \in Actors |-> IF a = Launcher THEN "LIVE" ELSE "NEW"]
  /\ running = {Launcher}
  /\ pid = [a \in Actors |-> 0] /\ pol = [a \in Actors |-> NoRec]
  /\ reap = [a \in Actors |-> "no"]
  /\ ledger = <<Launcher>> /\ nextPid = 0
  /\ rpid = [r \in Records |-> 0] /\ budget = [r \in Records |-> 0]
  /\ charged = [r \in Records |-> 0] /\ flags = [r \in Records |-> {"DONE"}]
  /\ tag = [b \in Blocks |-> NoRec] /\ taker = [b \in Blocks |-> 0]
  /\ pc = [a \in Actors |-> "run"] /\ op = [a \in Actors |-> "none"]
  /\ goal = [a \in Actors |-> 0] /\ rec = [a \in Actors |-> NoRec]
  /\ kid = [a \in Actors |-> NoActor] /\ todo = [a \in Actors |-> {}]
  /\ some = [a \in Actors |-> FALSE] /\ dup = [a \in Actors |-> FALSE]
  /\ told = {} /\ missed = FALSE

-----------------------------------------------------------------------------
(* The launcher is never ended.                                             *)

\* killed while parked, or at its safepoint: a dead actor leaves its hart
Leave(a) ==
  /\ a \in running /\ pc[a] \in {"run", "hold"} /\ var[a] = "DEAD"
  /\ running' = running \ {a}
  /\ UNCHANGED <<var, pid, pol, reap, ledger, nextPid, recs, blocks, pc, regs,
                 kid, todo, hist>>

Return(a) ==
  /\ At(a, "run") /\ a # Launcher
  /\ Fail(a)
  /\ UNCHANGED <<pid, pol, reap, ledger, nextPid, recs, blocks, todo, hist>>

-----------------------------------------------------------------------------
(* spawn and Sys.spawnApp                                                   *)

\* a_spawn_app: the root of a new process, which starts unconfined
SpawnApp(a) ==
  /\ At(a, "run") /\ a = Launcher /\ nextPid < MaxPid
  /\ \E x \in {y \in Actors : var[y] = "NEW" /\ \A z \in Actors : kid[z] # y} :
       /\ nextPid' = nextPid + 1
       /\ var' = [var EXCEPT ![x] = "LIVE"]
       /\ pid' = [pid EXCEPT ![x] = nextPid + 1]
       /\ ledger' = <<x>> \o ledger
       /\ running' = running \cup {x}
       /\ Goto(x, "hold")
  /\ UNCHANGED <<pol, reap, recs, blocks, regs, kid, todo, hist>>

\* "before it runs a line": the root waits for a word of its launcher
Release(a) ==
  /\ At(a, "run") /\ a = Launcher
  /\ \E x \in Actors : pc[x] = "hold" /\ Goto(x, "run")
  /\ UNCHANGED <<acb, nextPid, recs, blocks, regs, kid, todo, hist>>

\* spawn_gate, before anything is taken
Spawn(a) ==
  /\ At(a, "run") /\ a # Launcher
  /\ LET r == pol[a] IN
     \/ /\ r # NoRec /\ "ENDING" \in flags[r]
        /\ Fail(a)
     \/ /\ r # NoRec /\ "ENDING" \notin flags[r]
        /\ budget[r] > 0 /\ charged[r] + Stack > budget[r]
        /\ Exhausted(a)
     \/ /\ r # NoRec =>
             "ENDING" \notin flags[r] /\ (budget[r] > 0 => charged[r] + Stack <= budget[r])
        /\ \E x \in {y \in Actors : var[y] = "NEW" /\ \A z \in Actors : kid[z] # y} :
             kid' = [kid EXCEPT ![a] = x]
        /\ Goto(a, "take")
        /\ UNCHANGED <<var, running, regs>>
  /\ UNCHANGED <<pid, pol, reap, ledger, nextPid, recs, blocks, todo, hist>>

\* Mutant: every actor starts unconfined
BuildFree(a) ==
  /\ At(a, "build")
  /\ pid' = [pid EXCEPT ![kid[a]] = pid[a]]
  /\ Goto(a, "push")
  /\ UNCHANGED <<var, running, pol, reap, ledger, nextPid, recs, blocks, regs, kid, todo, hist>>

\* the new control block takes its pid and record from the spawner
Build(a) ==
  /\ At(a, "build")
  /\ pid' = [pid EXCEPT ![kid[a]] = pid[a]]
  /\ pol' = [pol EXCEPT ![kid[a]] = pol[a]]
  /\ Goto(a, "push")
  /\ UNCHANGED <<var, running, reap, ledger, nextPid, recs, blocks, regs, kid, todo, hist>>

\* ledger_push and ship: from here on a walk can meet it
Push(a) ==
  /\ At(a, "push")
  /\ var' = [var EXCEPT ![kid[a]] = "LIVE"]
  /\ ledger' = <<kid[a]>> \o ledger
  /\ running' = running \cup {kid[a]}
  /\ kid' = [kid EXCEPT ![a] = NoActor]
  /\ Goto(a, "run")
  /\ UNCHANGED <<pid, pol, reap, nextPid, recs, blocks, regs,
                 todo, hist>>

-----------------------------------------------------------------------------
(* fpr_charge: a heap slab, or the stack of the actor being spawned         *)

\* Mutant: what is compared is the charge before the take
ChargeLate(a) ==
  /\ a \in running
  /\ \/ pc[a] = "run" /\ pol[a] # NoRec /\ budget[pol[a]] > 0
     \/ pc[a] = "take" /\ pol[a] # NoRec /\ budget[pol[a]] > 0
  /\ charged[pol[a]] <= budget[pol[a]]
  /\ charged' = [charged EXCEPT ![pol[a]] = @ + 1]
  /\ \E b \in Tagged(NoRec) :
       /\ tag' = [tag EXCEPT ![b] = pol[a]]
       /\ taker' = [taker EXCEPT ![b] = pid[a]]
  /\ Goto(a, IF pc[a] = "take" THEN "build" ELSE "run")
  /\ UNCHANGED <<acb, nextPid, rpid, budget, flags, regs, kid, todo, hist>>

\* add first, compare the sum, take the add back if it is over
Charge(a) ==
  /\ a \in running
  /\ \/ pc[a] = "run" /\ pol[a] # NoRec /\ budget[pol[a]] > 0
     \/ pc[a] = "take"
  /\ LET r == pol[a]  fits == IF pc[a] = "take" THEN "build" ELSE "run" IN
     \/ /\ r # NoRec => budget[r] = 0
        /\ Goto(a, fits)
        /\ UNCHANGED <<charged, blocks, rec>>
     \/ /\ r # NoRec /\ budget[r] > 0
        /\ charged' = [charged EXCEPT ![r] = @ + 1]
        /\ \/ /\ charged[r] + 1 > budget[r]
              /\ Goto(a, "refuse")
              /\ rec' = [rec EXCEPT ![a] = r]
              /\ UNCHANGED blocks
           \/ /\ charged[r] + 1 <= budget[r]
              /\ \E b \in Tagged(NoRec) :
                   /\ tag' = [tag EXCEPT ![b] = r]
                   /\ taker' = [taker EXCEPT ![b] = pid[a]]
              /\ Goto(a, fits)
              /\ UNCHANGED rec
  /\ UNCHANGED <<acb, nextPid, rpid, budget, flags, op, goal, some, dup, kid,
                 todo, hist>>

\* Mutant: what was refused is given back twice, as if it had been tagged
RefuseTwice(a) ==
  /\ At(a, "refuse")
  /\ charged' = [charged EXCEPT ![rec[a]] = @ - 2]
  /\ Exhausted(a)
  /\ UNCHANGED <<pid, pol, reap, ledger, nextPid, rpid, budget, flags, blocks,
                 todo, hist>>

\* the caller has no other way, and ends
Refuse(a) ==
  /\ At(a, "refuse")
  /\ charged' = [charged EXCEPT ![rec[a]] = @ - 1]
  /\ Exhausted(a)
  /\ UNCHANGED <<pid, pol, reap, ledger, nextPid, rpid, budget, flags, blocks,
                 todo, hist>>

\* pol_uncharge: a block goes home, whoever frees it and whenever
Free(b) ==
  /\ tag[b] # NoRec
  /\ charged' = [charged EXCEPT ![tag[b]] = IF @ >= 1 THEN @ - 1 ELSE 0]
  /\ tag' = [tag EXCEPT ![b] = NoRec]
  /\ taker' = [taker EXCEPT ![b] = 0]
  /\ UNCHANGED <<acb, nextPid, rpid, budget, flags, pc, regs, kid, todo, hist>>

\* a capability a confined program is not granted
Forbidden(a) ==
  /\ At(a, "run") /\ Confined(a)
  /\ End(a)
  /\ UNCHANGED <<acb, nextPid, recs, blocks, kid, todo, hist>>

-----------------------------------------------------------------------------
(* Sys.confine and Sys.killPid                                              *)

StartConfine(a) ==
  /\ At(a, "run") /\ a = Launcher
  /\ \E x \in Listed : pc[x] = "hold" /\ Begin(a, "new", "confine", pid[x], NoRec)
  /\ UNCHANGED <<acb, nextPid, recs, blocks, kid, todo, hist>>

\* (a bound) a process is killed once, if at all
Killable == {p \in 1 .. nextPid : p <= MaxKilled /\ <<"kill", p>> \notin told}

StartKill(a) ==
  /\ At(a, "run") /\ a = Launcher
  /\ \E p \in Killable :
       Begin(a, "find", "kill", p, NoRec) /\ Walk(a, p)
  /\ UNCHANGED <<acb, nextPid, recs, blocks, kid, hist>>

\* pol_of_pid, first walk: the record of a live actor of the process
Find(a) ==
  /\ At(a, "find")
  /\ \/ /\ todo[a] = {}
        /\ Goto(a, "new")
        /\ UNCHANGED <<todo, rec>>
     \/ \E x \in Actors :
          /\ NextIs(a, x) /\ Visited(a, x)
          /\ IF pol[x] # NoRec /\ var[x] # "DEAD"
               THEN rec' = [rec EXCEPT ![a] = pol[x]] /\ Goto(a, "mark")
               ELSE UNCHANGED <<rec, pc>>
  /\ UNCHANGED <<acb, nextPid, recs, blocks, op, goal, kid, some, dup, hist>>

\* PID_DONE, and every block charged to it is home
Spent(r) == "DONE" \in flags[r] /\ charged[r] = 0

\* pol_new, under pols_lock; nobody else knows the record yet
NewRecord(a) ==
  /\ At(a, "new")
  /\ \/ \E r \in Records :
          /\ Spent(r)
          /\ rpid' = [rpid EXCEPT ![r] = goal[a]]
          /\ budget' = [budget EXCEPT ![r] = IF op[a] = "confine" THEN Budget ELSE 0]
          /\ flags' = [flags EXCEPT ![r] = IF op[a] = "confine" THEN {"CONFINED"} ELSE {}]
          /\ rec' = [rec EXCEPT ![a] = r]
          /\ Goto(a, "give")
          /\ Walk(a, goal[a])
          /\ UNCHANGED <<op, goal, dup>>
     \/ /\ \A r \in Records : ~Spent(r)
        /\ IF op[a] = "confine"
             THEN Done(a)
             ELSE Goto(a, "look") /\ UNCHANGED regs
        /\ UNCHANGED <<rpid, budget, flags, todo>>
  /\ UNCHANGED <<acb, nextPid, charged, blocks, kid, hist>>

\* the live actors of the process that have no record take this one
Give(a) ==
  /\ At(a, "give")
  /\ \E x \in Actors :
     /\ NextIs(a, x) /\ Visited(a, x)
     /\ \/ /\ var[x] = "DEAD"
           /\ UNCHANGED <<pol, some, dup>>
        \/ /\ var[x] # "DEAD" /\ pol[x] # NoRec
           /\ dup' = [dup EXCEPT ![a] = TRUE]
           /\ UNCHANGED <<pol, some>>
        \/ /\ var[x] # "DEAD" /\ pol[x] = NoRec
           /\ pol' = [pol EXCEPT ![x] = rec[a]]
           /\ some' = [some EXCEPT ![a] = TRUE]
           /\ UNCHANGED dup
  /\ UNCHANGED <<var, running, pid, reap, ledger, nextPid, recs, blocks, pc,
                 op, goal, rec, kid, hist>>

\* confine refuses a process that is gone or already has a record
Given(a) ==
  /\ At(a, "give") /\ todo[a] = {}
  /\ \/ /\ op[a] = "confine" /\ some[a] /\ ~dup[a]
        /\ told' = told \cup {<<"confine", goal[a]>>}
        /\ Done(a)
        /\ UNCHANGED <<pol, flags>>
     \/ /\ op[a] = "confine" /\ (dup[a] \/ ~some[a])
        /\ pol' = [x \in Actors |-> IF x \in Listed /\ pol[x] = rec[a] THEN NoRec ELSE pol[x]]
        /\ Goto(a, "undone")
        /\ UNCHANGED <<flags, regs, told>>
     \/ /\ op[a] = "kill" /\ some[a]
        /\ Goto(a, "mark")
        /\ UNCHANGED <<pol, flags, regs, told>>
     \/ /\ op[a] = "kill" /\ ~some[a]
        /\ flags' = [flags EXCEPT ![rec[a]] = {"DONE"}]
        /\ rec' = [rec EXCEPT ![a] = NoRec]
        /\ Goto(a, "look")
        /\ UNCHANGED <<pol, op, goal, some, dup, told>>
  /\ UNCHANGED <<var, running, pid, reap, ledger, nextPid, rpid, budget, charged,
                 blocks, kid, todo, missed>>

Undone(a) ==
  /\ At(a, "undone")
  /\ flags' = [flags EXCEPT ![rec[a]] = {"DONE"}]
  /\ Done(a)
  /\ UNCHANGED <<acb, nextPid, rpid, budget, charged, blocks, kid, todo, hist>>

\* pol_mark_ending: from here on spawn_gate refuses
Mark(a) ==
  /\ At(a, "mark")
  /\ flags' = [flags EXCEPT ![rec[a]] = @ \cup {"ENDING"}]
  /\ Goto(a, "look")
  /\ UNCHANGED <<acb, nextPid, rpid, budget, charged, blocks, regs, kid, todo, hist>>

\* a sweep starts at the ledger's head as it is now
Look(a) ==
  /\ At(a, "look")
  /\ Walk(a, IF op[a] = "end" THEN rpid[rec[a]] ELSE goal[a])
  /\ Goto(a, "sweep")
  /\ UNCHANGED <<acb, nextPid, recs, blocks, op, goal, rec, dup, kid, hist>>

\* sweep: kill the next live actor that is not the caller
Sweep(a) ==
  /\ At(a, "sweep")
  /\ \E x \in Actors :
     /\ NextIs(a, x) /\ Visited(a, x)
     /\ IF x = a \/ var[x] = "DEAD"
          THEN UNCHANGED <<var, some>>
          ELSE /\ var' = [var EXCEPT ![x] = "DEAD"]
               /\ some' = [some EXCEPT ![a] = TRUE]
  /\ UNCHANGED <<running, pid, pol, reap, ledger, nextPid, recs, blocks, pc,
                 op, goal, rec, dup, kid, hist>>

\* the ending is over; an actor that ended its own process goes last
Close(a) ==
  /\ told' = told \cup {<<op[a], goal[a]>>}
  /\ \/ op[a] = "end" /\ Fail(a)
     \/ op[a] = "kill" /\ Done(a) /\ UNCHANGED <<var, running, kid>>

\* a_kill_pid sweeps until it finds nobody, yielding in between; pol_end once
Swept(a) ==
  /\ At(a, "sweep") /\ todo[a] = {}
  /\ \/ /\ op[a] = "kill" /\ some[a]
        /\ Goto(a, "look")
        /\ UNCHANGED <<var, running, regs, kid, told>>
     \/ /\ op[a] = "end" \/ ~some[a]
        /\ Close(a)
  /\ UNCHANGED <<pid, pol, reap, ledger, nextPid, recs, blocks, todo, missed>>

-----------------------------------------------------------------------------
(* reap, on some hart, once the actor is DEAD and switched out              *)

\* the teardown, and the walk of fpr_pid_live begins if the record is its process's
Reap(a) ==
  /\ var[a] = "DEAD" /\ a \notin running /\ reap[a] = "no"
  /\ \/ /\ pol[a] # NoRec => rpid[pol[a]] # pid[a]
        /\ reap' = [reap EXCEPT ![a] = "done"]
        /\ UNCHANGED <<rec, todo>>
     \/ /\ pol[a] # NoRec /\ rpid[pol[a]] = pid[a]
        /\ reap' = [reap EXCEPT ![a] = "test"]
        /\ rec' = [rec EXCEPT ![a] = pol[a]]
        /\ todo' = [todo EXCEPT ![a] = Of(pid[a])]
  /\ UNCHANGED <<var, running, pid, pol, ledger, nextPid, recs, blocks, pc, op,
                 goal, some, dup, kid, hist>>

\* fpr_pid_live: not DEAD, or DEAD and still on a hart
HoldsPid(x) == var[x] # "DEAD" \/ x \in running

\* ... of one actor after the other
QuietVisit(a) ==
  /\ reap[a] = "test"
  /\ \/ /\ todo[a] = {}
        /\ reap' = [reap EXCEPT ![a] = "mark"]
        /\ UNCHANGED todo
     \/ \E x \in Actors :
          /\ NextIs(a, x)
          /\ \/ /\ HoldsPid(x)
                /\ reap' = [reap EXCEPT ![a] = "done"]
                /\ todo' = [todo EXCEPT ![a] = {}]
             \/ /\ ~HoldsPid(x)
                /\ Visited(a, x)
                /\ UNCHANGED reap
  /\ UNCHANGED <<var, running, pid, pol, ledger, nextPid, recs, blocks, pc, regs,
                 kid, hist>>

\* PID_DONE, whoever came to life since and whatever the record stands for now
QuietMark(a) ==
  /\ reap[a] = "mark"
  /\ reap' = [reap EXCEPT ![a] = "done"]
  /\ flags' = [flags EXCEPT ![rec[a]] = @ \cup {"DONE"}]
  /\ missed' = \/ missed
                \/ rpid[rec[a]] # pid[a]
                \/ \E x \in Listed : pid[x] = pid[a] /\ HoldsPid(x)
  /\ UNCHANGED <<var, running, pid, pol, ledger, nextPid, rpid, budget, charged,
                 blocks, pc, regs, kid, todo, told>>

-----------------------------------------------------------------------------
Program(a) == Return(a) \/ SpawnApp(a) \/ Release(a) \/ Spawn(a) \/ Build(a) \/ Push(a)
Memory(a)  == Charge(a) \/ Refuse(a) \/ Forbidden(a)
Ending(a)  == \/ StartConfine(a) \/ StartKill(a) \/ Find(a) \/ NewRecord(a) \/ Give(a)
              \/ Given(a) \/ Undone(a) \/ Mark(a) \/ Look(a) \/ Sweep(a) \/ Swept(a)
Harts(a)   == Leave(a) \/ Reap(a) \/ QuietVisit(a) \/ QuietMark(a)

Next ==
  \/ \E a \in Actors : Program(a) \/ Memory(a) \/ Ending(a) \/ Harts(a)
  \/ \E b \in Blocks : Free(b)

Spec == Init /\ [][Next]_vars

-----------------------------------------------------------------------------
TypeOK ==
  /\ var \in [Actors -> {"NEW", "LIVE", "DEAD"}]
  /\ running \subseteq Actors
  /\ pid \in [Actors -> 0 .. MaxPid] /\ pol \in [Actors -> Records \cup {NoRec}]
  /\ reap \in [Actors -> {"no", "test", "mark", "done"}]
  /\ ledger \in Seq(Actors) /\ nextPid \in 0 .. MaxPid
  /\ rpid \in [Records -> 0 .. MaxPid] /\ budget \in [Records -> {0, Budget}]
  /\ charged \in [Records -> Nat]
  /\ flags \in [Records -> SUBSET {"CONFINED", "ENDING", "DONE"}]
  /\ tag \in [Blocks -> Records \cup {NoRec}] /\ taker \in [Blocks -> 0 .. MaxPid]
  /\ pc \in [Actors -> {"hold", "run", "take", "refuse", "build", "push", "find", "new",
                        "give", "undone", "mark", "look", "sweep"}]
  /\ op \in [Actors -> {"none", "confine", "kill", "end"}]
  /\ goal \in [Actors -> 0 .. MaxPid] /\ rec \in [Actors -> Records \cup {NoRec}]
  /\ kid \in [Actors -> Actors \cup {NoActor}]
  /\ todo \in [Actors -> SUBSET Actors]
  /\ some \in [Actors -> BOOLEAN] /\ dup \in [Actors -> BOOLEAN]
  /\ told \subseteq {"confine", "kill", "end"} \X (0 .. MaxPid)
  /\ missed \in BOOLEAN

\* takes added but about to be refused
Refusing(r) == {a \in Actors : pc[a] = "refuse" /\ rec[a] = r}

\* The account of a record is what is out: the blocks tagged with it and the
\* takes in flight, so pol_uncharge never meets the clamp at zero and a record
\* whose charge is 0 has no block left to name it.
Balanced ==
  \A r \in Records : charged[r] = Cardinality(Tagged(r)) + Cardinality(Refusing(r))

\* A process never holds more than its budget, however many of its actors take
\* at once: fpr_charge adds before it compares.
WithinBudget ==
  \A r \in Records : budget[r] > 0 => Cardinality(Tagged(r)) <= budget[r]

\* Reuse of records mixes no accounts: whatever is charged to a record was
\* taken against the budget it has now and, unless a late PID_DONE gave the
\* record of a live process away, by the process it stands for now.
OwnCharges ==
  \A b \in Blocks : tag[b] # NoRec =>
    budget[tag[b]] > 0 /\ (missed \/ rpid[tag[b]] = taker[b])

\* "A record is reused once its process has no actor left": none that is live
\* points at a record that is spent or stands for another process.
RecordHeld ==
  \A x \in Listed : var[x] = "LIVE" /\ pol[x] # NoRec =>
    "DONE" \notin flags[pol[x]] /\ rpid[pol[x]] = pid[x]

\* ... and a PID_DONE that pol_quiet sets late is the only way to break it.
HeldUnlessMissed == missed \/ RecordHeld

\* What a confined process spawns is confined with it (as long as its record
\* is not taken for another).
Inherited ==
  missed \/ \A x \in Listed :
    var[x] = "LIVE" /\ <<"confine", pid[x]>> \in told => pol[x] # NoRec /\ Confined(x)

\* An actor that escapes the sweep when its confined process ends itself is the
\* last of its line: the record it has refuses at spawn_gate.
BehindGate ==
  missed \/ \A x \in Listed :
    var[x] = "LIVE" /\ {<<"confine", pid[x]>>, <<"end", pid[x]>>} \subseteq told =>
      pol[x] # NoRec /\ "ENDING" \in flags[pol[x]]

\* "Sys.killPid pid why ends any process whole: every actor, with that reason,
\* and nothing spawned into it after"; "every actor of it dies" when it ends
\* itself over its budget.
NothingAfter ==
  \A x \in Listed :
    (\E o \in {"kill", "end"} : <<o, pid[x]>> \in told) => var[x] = "DEAD"

\* The accounts of confined processes hold: what is charged is what is out or
\* in flight, within the budget, and of the process it is charged to.
Accounts == Balanced /\ WithinBudget /\ OwnCharges

\* A confined process stays confined: its record stands for it while one of
\* its actors lives, passes on to what it spawns, and refuses once it ends.
StaysConfined == HeldUnlessMissed /\ Inherited /\ BehindGate
-----------------------------------------------------------------------------
(* The inductive invariant (proved in ConfineProofs).                       *)

Launching == {"confine", "kill"}
Spawning  == {"take", "refuse", "build", "push"}

\* what an actor in the middle of an operation has in its hands
CallsOK ==
  \A a \in Actors :
    /\ a \notin running => pc[a] \in {"run", "hold"}
    /\ op[a] # "none" => pc[a] \notin {"run", "hold"} \cup Spawning
    /\ pc[a] \in {"take", "build", "push"} => kid[a] \in Actors
    /\ pc[a] \in {"refuse", "give", "undone", "mark"} => rec[a] \in Records
    /\ pc[a] = "find" => op[a] = "kill"
    /\ pc[a] \in {"new", "give"} => op[a] \in Launching
    /\ pc[a] = "undone" => op[a] = "confine"
    /\ pc[a] \in {"mark", "look", "sweep"} => op[a] \in {"kill", "end"}
    /\ pc[a] \in {"look", "sweep"} /\ op[a] = "end" => rec[a] \in Records
    /\ reap[a] \in {"test", "mark"} => rec[a] \in Records /\ a \notin running

\* an actor being built is one spawner's, and of its process
KidsOK ==
  /\ \A a \in Actors : kid[a] \in Actors => pc[a] \in Spawning /\ var[kid[a]] = "NEW"
  /\ \A a, b \in Actors : kid[a] \in Actors /\ kid[a] = kid[b] => a = b
  /\ \A a \in Actors : pc[a] = "push" => pid[kid[a]] = pid[a]

\* the ledger lists who was spawned, and a live actor is on a hart or on its way
RosterOK ==
  /\ \A x \in Actors : x \in Listed <=> var[x] # "NEW"
  /\ running \subseteq Listed
  /\ \A x \in Actors : var[x] = "LIVE" => x \in running
  /\ \A x \in Actors : var[x] = "NEW" =>
       /\ pc[x] = "run" /\ reap[x] = "no"
       /\ pol[x] # NoRec => \E a \in Actors : pc[a] = "push" /\ kid[a] = x
  /\ \A a \in Actors : todo[a] \subseteq Listed \ {Launcher}

\* numbers of processes are numbers that were given out
NumbersOK ==
  /\ \A x \in Actors : pid[x] <= nextPid /\ goal[x] <= nextPid
  /\ \A x \in Listed \ {Launcher} : pid[x] >= 1
  /\ \A r \in Records : rpid[r] <= nextPid
  /\ \A x \in Actors : pol[x] # NoRec => rpid[pol[x]] >= 1
  /\ \A x \in Actors : rec[x] # NoRec => rpid[rec[x]] >= 1
  /\ \A t \in told : t[2] <= nextPid

\* the launcher is of no process, and only it starts and ends other processes
LauncherOK ==
  /\ var[Launcher] = "LIVE" /\ pid[Launcher] = 0 /\ pol[Launcher] = NoRec
  /\ pc[Launcher] # "hold" /\ pc[Launcher] \notin Spawning /\ op[Launcher] # "end"
  /\ \A a \in Actors : op[a] \in Launching => a = Launcher /\ goal[a] >= 1
  /\ \A a \in Actors : pc[a] \in {"find", "give"} => \A x \in todo[a] : pid[x] = goal[a]

\* a root that waits for its launcher is alone in its process, ...
HoldOK ==
  \A x \in Actors : pc[x] = "hold" =>
    /\ var[x] # "NEW"
    /\ \A y \in Actors : var[y] # "NEW" /\ pid[y] = pid[x] => y = x

\* ... and only such a process is confined
HandOK ==
  \A a \in Actors :
    /\ pc[a] = "give" => rpid[rec[a]] = goal[a]
    /\ pc[a] = "give" => ("CONFINED" \in flags[rec[a]] <=> op[a] = "confine")
    /\ op[a] = "confine" => \A x \in running : pid[x] = goal[a] => pc[x] = "hold"

Budgeted == \A b \in Blocks : tag[b] # NoRec => budget[tag[b]] > 0

\* r, if it is a record, is the one of process p and in use
Stands(r, p) == r # NoRec => "DONE" \notin flags[r] /\ rpid[r] = p
Unheld(r) ==
  /\ \A x \in running : pol[x] # r
  /\ \A a \in Actors : pc[a] = "push" => pol[kid[a]] # r

RecordsOK == missed \/
  /\ \A x \in running : Stands(pol[x], pid[x])
  /\ \A a \in Actors : pc[a] = "push" => Stands(pol[kid[a]], pid[a])
  /\ \A a \in Actors : pc[a] = "give" /\ "DONE" \in flags[rec[a]] =>
       \A x \in running : pid[x] # goal[a]
  /\ \A a \in Actors :
       pc[a] = "undone" \/ (pc[a] = "give" /\ op[a] = "kill" /\ ~some[a]) => Unheld(rec[a])

Told(o, p) == <<o, p>> \in told

\* the actors of a confined process have one confined record between them
LineOK == missed \/
  /\ \A x \in running : Told("confine", pid[x]) =>
       /\ pol[x] # NoRec /\ Confined(x)
       /\ \A y \in running : pid[y] = pid[x] => pol[y] = pol[x]
  /\ \A a \in Actors : pc[a] = "push" /\ Told("confine", pid[a]) => pol[kid[a]] = pol[a]
  /\ \A a \in Actors : pc[a] = "give" /\ op[a] = "confine" =>
       \A x \in running :
         /\ pid[x] = goal[a] /\ some[a] => pol[x] = rec[a]
         /\ Told("confine", goal[a]) => pol[x] # rec[a]

\* an actor with a confined record is of a process that was confined, or that is being confined
BoundOK == missed \/
  /\ \A x \in running : Confined(x) =>
       \/ Told("confine", pid[x])
       \/ pc[Launcher] = "give" /\ op[Launcher] = "confine" /\ goal[Launcher] = pid[x]
            /\ pol[x] = rec[Launcher]
  /\ \A a \in Actors : pc[a] = "push" /\ Confined(kid[a]) => Told("confine", pid[a])

\* an ending leaves no actor of its process a record that lets it spawn
EndsOK == missed \/
  /\ \A a \in Actors : op[a] = "end" =>
       /\ rec[a] = pol[a] /\ goal[a] = pid[a] /\ Told("confine", pid[a])
       /\ pc[a] # "mark" => "ENDING" \in flags[rec[a]]
  /\ \A x \in running : Told("confine", pid[x]) /\ Told("end", pid[x]) => "ENDING" \in flags[pol[x]]
  /\ \A x \in Actors : pc[x] = "hold" => ~Told("end", pid[x])

IInv ==
  /\ TypeOK /\ CallsOK /\ KidsOK /\ RosterOK /\ NumbersOK /\ LauncherOK /\ HoldOK /\ HandOK
  /\ Balanced /\ WithinBudget /\ Budgeted /\ OwnCharges
  /\ RecordsOK /\ LineOK /\ BoundOK /\ EndsOK
=============================================================================
