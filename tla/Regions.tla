------------------------------ MODULE Regions -------------------------------
(***************************************************************************)
(* The scratch regions of one actor (runtime/runtime.c): Sys.arena,        *)
(* Sys.loop, the loops and the costly calls the compiler puts a region     *)
(* around, and Sys.poolReset inside any of them.                           *)
(*                                                                         *)
(* A region has an arena, the current pool while it is open.  At a loop's  *)
(* turn boundary the next state is copied into a transfer slab, the        *)
(* messages the turn received are released, the arena is rewound, and the  *)
(* slab of the state before becomes the spare for the next copy.  What the *)
(* next turn reads must survive that, what it does not read must not, and  *)
(* meanwhile other actors drop what was shared out of these slabs, and the *)
(* actor may be killed wherever it can park.                               *)
(*                                                                         *)
(* One action is what happens between two points where the actor may park  *)
(* or another actor's lock region may come in between.  The release of one *)
(* root is Shares'; here a received root is the set of the regions open    *)
(* when it was taken.                                                      *)
(***************************************************************************)
EXTENDS Integers, FiniteSets, FiniteSetsExt, Sequences, SequencesExt

CONSTANTS
  Slabs,
  Scopes,      \* names for the scopes that are open
  Room,        \* the sizes a transfer slab comes in
  MaxRoots,    \* bound: received roots held
  MaxShared,   \* bound: slabs another actor has or reads something of
  Programs,    \* bound: the nestings of "loop", "arena" (Sys.loop, Sys.arena),
               \* "cloop", "call" (the compiler's) the program has
  None

ASSUME RegionsAssumption ==
  /\ Room \subseteq Nat \ {0} /\ Room # {}
  /\ {MaxRoots, MaxShared} \subseteq Nat
  /\ Programs \subseteq Seq({"loop", "arena", "cloop", "call"})

Base == "base"     \* the actor's own pool
Pools == Scopes \cup {Base}

VARIABLES
  st,      \* slabs, the chain of each pool, the scopes (struct fpr_scope)
  chain,   \* the open scopes, innermost first
  cur,     \* the current pool (pool_override)
  ctl,     \* the constructs entered and not left, outermost first
  rx,      \* received roots: the scopes that were open when each was taken
  pc,      \* "run", or inside a boundary or a close
  win,     \* slabs another actor reads on after its drop, how often
  alive
vars == <<st, chain, cur, ctl, rx, pc, win, alive>>

AtHome == [at |-> "home", owner |-> None, escaped |-> 0, holds |-> 0,
           promoted |-> FALSE, room |-> 0]
NoScope == [state |-> None, next |-> None, spare |-> None, preserve |-> FALSE,
            mark |-> 0, arena |-> FALSE, prev |-> Base, held |-> FALSE,
            skew |-> FALSE]   \* history: its mark counts roots of a region that
                              \* was closing when it opened and has released them

Init ==
  /\ st = [slab |-> [s \in Slabs |-> AtHome], pool |-> [p \in Pools |-> <<>>],
           sc |-> [c \in Scopes |-> NoScope]]
  /\ chain = <<>> /\ cur = Base /\ ctl = <<>> /\ rx = <<>>
  /\ pc = [k |-> "run"]
  /\ win = [s \in Slabs |-> 0]
  /\ alive = TRUE

-----------------------------------------------------------------------------
(* Slabs and pools. *)

Out(s) == st.slab[s].at = "out"
slab_home(t, s) == [t EXCEPT !.slab[s] = AtHome]

\* The walk of arena_close, fpr_arc_teardown_pool and Sys.poolReset over a
\* pool: a slab nothing escaped from goes home, the others lose their owner.
Swept(t, p, keep) ==
  LET mem == ToSet(t.pool[p])
  IN [t EXCEPT !.slab = [s \in Slabs |->
                           IF s \notin mem THEN @[s]
                           ELSE IF @[s].escaped > 0 THEN [@[s] EXCEPT !.owner = None]
                           ELSE IF s \in keep THEN [@[s] EXCEPT !.promoted = FALSE]
                           ELSE AtHome],
               !.pool[p] = SelectSeq(@, LAMBDA s : s \in keep)]
arena_close(t, p) == Swept(t, p, {})

\* arena_reset: the newest clean slab stays, rewound.
Kept(t, p) ==
  LET clean == SelectSeq(t.pool[p], LAMBDA s : t.slab[s].escaped = 0)
  IN IF clean = <<>> THEN {} ELSE {Head(clean)}
arena_reset(t, p) == Swept(t, p, Kept(t, p))

\* The pool's new bump slab.
Refilled(t, p, s) ==
  [t EXCEPT !.slab[s] = [AtHome EXCEPT !.at = "out", !.owner = p],
            !.pool[p] = <<s>> \o @]

-----------------------------------------------------------------------------
(* Transfer slabs. *)

\* transfer_retire: the state copied at this boundary becomes the current
\* one; the slab of the one before is the warm spare if nobody else has it.
transfer_retire(t, c) ==
  LET x == t.sc[c]
      old == x.state
      t1 == [t EXCEPT !.sc[c].state = x.next, !.sc[c].next = None, !.sc[c].held = FALSE]
      t2 == [t1 EXCEPT !.slab[old].holds = @ - 1]
      y == t2.slab[old]
      lesser == IF t2.slab[old].room > t2.slab[x.spare].room THEN x.spare ELSE old
      larger == IF lesser = old THEN x.spare ELSE old
  IN IF x.preserve THEN [t EXCEPT !.sc[c].preserve = FALSE, !.sc[c].held = FALSE]
     ELSE IF old = None THEN t1
     ELSE IF y.owner # None \/ y.escaped > 0 \/ y.holds > 0 THEN t2
     ELSE IF x.spare = None THEN [t2 EXCEPT !.sc[c].spare = old]
     ELSE slab_home([t2 EXCEPT !.sc[c].spare = larger], lesser)

\* scope_release: the current state, a pending one, and the spare.
scope_release(t, c) ==
  LET t1 == [t EXCEPT !.sc[c].preserve = FALSE]
      t2 == transfer_retire(transfer_retire(t1, c), c)
      spare == t2.sc[c].spare
  IN IF spare = None THEN t2 ELSE [slab_home(t2, spare) EXCEPT !.sc[c].spare = None]

-----------------------------------------------------------------------------
(* Opening. *)

Running == alive /\ pc.k = "run"
At(k) == alive /\ pc.k = k
Top == Last(ctl)
FreeScope(c) == c \notin ToSet(chain)
CanEnter(k) == Running /\ Append([i \in DOMAIN ctl |-> ctl[i].k], k) \in Programs

\* Mutant of Opened: the mark is not taken.
opened_unmarked(c) == [NoScope EXCEPT !.prev = cur, !.arena = TRUE]
Opened(c) == [NoScope EXCEPT !.mark = Len(rx), !.prev = cur, !.arena = TRUE]

\* scope_push and arena_open, region_open: an arena of its own is current.
Open(c) ==
  /\ FreeScope(c)
  /\ st' = [st EXCEPT !.sc[c] = Opened(c), !.pool[c] = <<>>]
  /\ chain' = <<c>> \o chain
  /\ cur' = c

Enter(k, c) ==
  /\ CanEnter(k) /\ k \in {"loop", "arena"}
  /\ Open(c)
  /\ ctl' = Append(ctl, [k |-> k, c |-> c, pool |-> None, used |-> FALSE])
  /\ UNCHANGED <<rx, pc, win, alive>>

\* A loop of the compiler opens no region at first ($regionSeq) unless it
\* receives ($regionOpen); a costly call never does ($callPend).
EnterLazily(k) ==
  /\ CanEnter(k) /\ k \in {"cloop", "call"}
  /\ ctl' = Append(ctl, [k |-> k, c |-> None, pool |-> IF k = "call" THEN cur ELSE None, used |-> FALSE])
  /\ UNCHANGED <<st, chain, cur, rx, pc, win, alive>>

\* $regionOpen at entry, or the first time the back edge trips.
LoopRegion(c) ==
  /\ Running /\ ctl # <<>> /\ Top.k = "cloop" /\ Top.c = None
  /\ Open(c)
  /\ ctl' = [ctl EXCEPT ![Len(ctl)].c = c]
  /\ UNCHANGED <<rx, pc, win, alive>>

Calls == {i \in DOMAIN ctl : ctl[i].k = "call"}
Pend == ctl[Max(Calls)]

\* region_trip: the innermost pending call has used a slab of this pool.
Trips == Calls # {} /\ Pend.c = None /\ Pend.pool = cur /\ Pend.used

\* alloc_in_size needs a slab: the pending call's region opens, or the pool
\* grows and the calls pending over it have used it.
Refill(s, c) ==
  IF Trips
  THEN Open(c) /\ ctl' = [ctl EXCEPT ![Max(Calls)].c = c]
  ELSE /\ ~Out(s)
       /\ st' = Refilled(st, cur, s)
       /\ ctl' = [i \in DOMAIN ctl |-> IF ctl[i].pool = cur THEN [ctl[i] EXCEPT !.used = TRUE]
                                       ELSE ctl[i]]
       /\ UNCHANGED <<chain, cur>>
Allocate(s, c) == Running /\ Refill(s, c) /\ UNCHANGED <<rx, pc, win, alive>>

-----------------------------------------------------------------------------
(* A turn: messages received and dropped, values shared. *)

\* fpr_rx_push.
Receive ==
  /\ Running /\ Len(rx) < MaxRoots
  /\ rx' = Append(rx, ToSet(chain))
  /\ UNCHANGED <<st, chain, cur, ctl, pc, win, alive>>

\* fpr_rx_forget: the marks above it move down with the list.
Forget(i) ==
  /\ Running /\ i \in DOMAIN rx
  /\ rx' = RemoveAt(rx, i)
  /\ st' = [st EXCEPT !.sc = [c \in Scopes |->
               IF c \in ToSet(chain) /\ @[c].mark >= i THEN [@[c] EXCEPT !.mark = @ - 1]
               ELSE @[c]]]
  /\ UNCHANGED <<chain, cur, ctl, pc, win, alive>>

\* Sys.poolReset: the roots no open region owns die with the pool's values.
PoolReset ==
  LET k == IF chain = <<>> THEN Len(rx) ELSE st.sc[Last(chain)].mark
      t == IF k = 0 \/ rx = <<>> THEN st
           ELSE [st EXCEPT !.sc = [c \in Scopes |->
                    IF c \in ToSet(chain) THEN [@[c] EXCEPT !.mark = @ - k] ELSE @[c]]]
  IN /\ Running /\ (st.pool[cur] # <<>> \/ rx # <<>>)
     /\ rx # <<>> /\ chain # <<>> => ~st.sc[Last(chain)].skew
          \* Bound: with the outermost mark counting roots that are gone,
          \* fpr_rx_release_outer takes inner roots, or entries past the list,
          \* for outer ones and the marks inside wrap
     /\ rx' = SubSeq(rx, k + 1, Len(rx))
     /\ st' = Swept(t, cur, {})
     /\ ctl' = [i \in DOMAIN ctl |-> IF ctl[i].pool = cur THEN [ctl[i] EXCEPT !.used = FALSE]
                                     ELSE ctl[i]]
     /\ UNCHANGED <<chain, cur, pc, win, alive>>

\* The actor sends a value of the arena, or of its state, by reference.
Share(s) ==
  /\ Running /\ Out(s) /\ st.slab[s].escaped = 0
  /\ Cardinality({d \in Slabs : st.slab[d].escaped + win[d] > 0}) < MaxShared
  /\ \/ st.slab[s].owner \in Scopes
     \/ \E c \in ToSet(chain) : st.sc[c].state = s
  /\ st' = [st EXCEPT !.slab[s].escaped = 1, !.slab[s].promoted = TRUE]
  /\ UNCHANGED <<chain, cur, ctl, rx, pc, win, alive>>

\* Another actor drops it; of an ownerless slab it keeps a window open.
ShareDropped(s) ==
  /\ st.slab[s].escaped = 1
  /\ IF st.slab[s].owner = None
     THEN /\ st' = [st EXCEPT !.slab[s].escaped = 0, !.slab[s].holds = @ + 1]
          /\ win' = [win EXCEPT ![s] = @ + 1]
     ELSE st' = [st EXCEPT !.slab[s].escaped = 0] /\ UNCHANGED win
  /\ UNCHANGED <<chain, cur, ctl, rx, pc, alive>>

\* ... until its next receive.
WindowClosed(s) ==
  LET t == [st EXCEPT !.slab[s].holds = @ - 1]
      y == t.slab[s]
  IN /\ win[s] > 0
     /\ st' = IF y.holds = 0 /\ y.escaped = 0 /\ y.owner = None THEN slab_home(t, s) ELSE t
     /\ win' = [win EXCEPT ![s] = @ - 1]
     /\ UNCHANGED <<chain, cur, ctl, rx, pc, alive>>

-----------------------------------------------------------------------------
(* A boundary: the turn of a loop ends ("more"), or its last one, or an     *)
(* arena's call.                                                            *)

\* A loop of the compiler cycles at its back edge and never has a last turn.
Bounded(more) == /\ Running /\ ctl # <<>> /\ Top.c # None
                 /\ <<Top.k, more>> \in {<<"loop", TRUE>>, <<"loop", FALSE>>,
                                       <<"cloop", TRUE>>, <<"arena", FALSE>>}
Scope == st.sc[Top.c]
Copying(k, more) == pc' = [k |-> k, c |-> Top.c, more |-> more]

\* transfer_copy_in, appending: the state before stays where it is and the
\* new one is put behind it.  Whether both are immutable, the room left and
\* the generations already there allow it is the program's data.
TransferKeep(more) ==
  /\ Bounded(more) /\ Scope.state # None /\ ~st.slab[Scope.state].promoted
  /\ st' = [st EXCEPT !.sc[Top.c].preserve = TRUE]
  /\ Copying("copied", more)
  /\ UNCHANGED <<chain, cur, ctl, rx, win, alive>>

\* ... of a value that is no heap graph.
TransferValue(more) ==
  /\ Bounded(more)
  /\ Copying("copied", more)
  /\ UNCHANGED <<st, chain, cur, ctl, rx, win, alive>>

\* Mutant of Copied: the slab is still the spare.
copied_spare(t, c, s) ==
  [t EXCEPT !.slab[s].holds = 1, !.slab[s].promoted = FALSE, !.sc[c].next = s, !.sc[c].spare = s]
Copied(t, c, s) == [t EXCEPT !.slab[s].holds = 1, !.slab[s].promoted = FALSE, !.sc[c].next = s]

\* ... into the spare, when it is large enough.
TransferSpare(need, more) ==
  /\ Bounded(more)
  /\ Scope.spare # None /\ need <= st.slab[Scope.spare].room
  /\ st' = Copied([st EXCEPT !.sc[Top.c].spare = None], Top.c, Scope.spare)
  /\ Copying("copied", more)
  /\ UNCHANGED <<chain, cur, ctl, rx, win, alive>>

\* ... else into a new slab, for which the actor may park.
TransferAsk(need, more) ==
  /\ Bounded(more)
  /\ Scope.spare # None => need > st.slab[Scope.spare].room
  /\ st' = IF Scope.spare = None THEN st
           ELSE [slab_home(st, Scope.spare) EXCEPT !.sc[Top.c].spare = None]
  /\ pc' = [k |-> "slab", c |-> Top.c, more |-> more, need |-> need]
  /\ UNCHANGED <<chain, cur, ctl, rx, win, alive>>
TransferFresh(s) ==
  /\ At("slab") /\ ~Out(s)
  /\ st' = Copied([st EXCEPT !.slab[s] = [AtHome EXCEPT !.at = "out", !.room = pc.need]], pc.c, s)
  /\ Copying("copied", pc.more)
  /\ UNCHANGED <<chain, cur, ctl, rx, win, alive>>

\* scope_roots_die and the arena: rewound for the next turn, or closed.
BoundaryReset ==
  LET c == pc.c
      last == Top.k = "arena"
  IN /\ At("copied")
     /\ rx' = SubSeq(rx, 1, Min({Len(rx), st.sc[c].mark}))
     /\ st' = IF last THEN [arena_close(st, c) EXCEPT !.sc[c].arena = FALSE, !.sc[c].held = TRUE]
              ELSE arena_reset(st, c)
     /\ cur' = IF last THEN st.sc[c].prev ELSE cur
     /\ pc' = IF last THEN [k |-> "out", c |-> c] ELSE [pc EXCEPT !.k = "retire"]
     /\ UNCHANGED <<chain, ctl, win, alive>>

\* transfer_retire commits the copy; after the last turn the arena closes.
BoundaryRetire ==
  LET c == pc.c
      t == [transfer_retire(st, c) EXCEPT !.sc[c].held = TRUE]
  IN /\ At("retire")
     /\ IF pc.more
        THEN /\ st' = t /\ pc' = [k |-> "run"] /\ UNCHANGED cur
        ELSE /\ st' = [arena_close(t, c) EXCEPT !.sc[c].arena = FALSE]
             /\ cur' = st.sc[c].prev
             /\ pc' = [k |-> "out", c |-> c]
     /\ UNCHANGED <<chain, ctl, rx, win, alive>>

-----------------------------------------------------------------------------
(* Closing. *)

\* Mutant of Unlinked: the innermost scope is popped.
unlinked_head(c) == /\ chain' = Tail(chain)
                    /\ rx' = [i \in DOMAIN rx |-> rx[i] \ {c}]

\* scope_unlink: from wherever in the chain it is.
Unlinked(c) == /\ chain' = SelectSeq(chain, LAMBDA d : d # c)
               /\ rx' = [i \in DOMAIN rx |-> rx[i] \ {c}]

\* kp_dup of the result into the enclosing pool needs a slab.
CopyOut(s, c) ==
  /\ At("out") \/ At("closing")
  /\ Refill(s, c)
  /\ UNCHANGED <<rx, pc, win, alive>>

\* Sys.arena and Sys.loop return.
Return ==
  LET c == pc.c
  IN /\ At("out")
     /\ st' = [scope_release(st, c) EXCEPT !.sc[c] = NoScope]
     /\ Unlinked(c)
     /\ ctl' = Front(ctl)
     /\ pc' = [k |-> "run"]
     /\ UNCHANGED <<cur, win, alive>>

\* $loopLeave and $callLeave of a construct whose region never opened.
LeaveUnopened ==
  /\ Running /\ ctl # <<>> /\ Top.k \in {"cloop", "call"} /\ Top.c = None
  /\ ctl' = Front(ctl)
  /\ UNCHANGED <<st, chain, cur, rx, pc, win, alive>>

Leaving == Running /\ ctl # <<>> /\ Top.k \in {"cloop", "call"} /\ Top.c # None
Received(c) == Len(rx) > st.sc[c].mark

\* region_adopt: the result is most of what was allocated, nothing of it is
\* in a transfer slab or a message, and the slabs join the enclosing pool.
LeaveAdopt ==
  LET c == Top.c
      into == Scope.prev
      joins == st.pool[c]
      has == st.pool[into] # <<>>
      t == [st EXCEPT !.slab = [s \in Slabs |-> IF s \in ToSet(joins) THEN [@[s] EXCEPT !.owner = into]
                                                ELSE @[s]],
                      !.pool[into] = IF has THEN <<Head(@)>> \o joins \o Tail(@) ELSE joins,
                      !.pool[c] = <<>>]
  IN /\ Leaving /\ ~Received(c) /\ ~Scope.held /\ Scope.spare = None /\ joins # <<>>
     /\ st' = [scope_release(t, c) EXCEPT !.sc[c] = NoScope]
     /\ cur' = into
     /\ Unlinked(c)
     /\ ctl' = [i \in 1..Len(ctl) - 1 |-> IF ctl[i].pool = into THEN [ctl[i] EXCEPT !.used = TRUE]
                                           ELSE ctl[i]]
     /\ UNCHANGED <<pc, win, alive>>

\* region_close by copy: the enclosing pool is current again, then the copy,
\* for which the actor may park, then the arena, the messages and the scope.
LeaveCopy ==
  /\ Leaving
  /\ cur' = Scope.prev
  /\ pc' = [k |-> "closing", c |-> Top.c, rec |-> Received(Top.c)]
  /\ UNCHANGED <<st, chain, ctl, rx, win, alive>>
Close ==
  LET c == pc.c
      t == scope_release(arena_close(st, c), c)
      skewed == {d \in ToSet(chain) \ {c} : pc.rec /\ st.sc[d].mark > st.sc[c].mark}
  IN /\ At("closing")
     /\ st' = [t EXCEPT !.sc = [d \in Scopes |-> IF d = c THEN NoScope
                                                 ELSE IF d \in skewed THEN [@[d] EXCEPT !.skew = TRUE]
                                                 ELSE @[d]]]
     /\ chain' = SelectSeq(chain, LAMBDA d : d # c)
     /\ rx' = [i \in DOMAIN (IF pc.rec THEN SubSeq(rx, 1, st.sc[c].mark) ELSE rx) |-> rx[i] \ {c}]
     /\ ctl' = Front(ctl)
     /\ pc' = [k |-> "run"]
     /\ UNCHANGED <<cur, win, alive>>

-----------------------------------------------------------------------------
(* The end: killed where it may park, torn down by a hart. *)

\* fpr_rx_reclaim, then fpr_pool_reclaim: every scope, then the actor's pool.
\* What others drop between the death and this they could drop before it.
Reap ==
  LET torn(t, c) == scope_release(IF t.sc[c].arena THEN arena_close(t, c) ELSE t, c)
  IN /\ alive /\ pc.k \in {"run", "slab", "out", "closing"}
     /\ st' = arena_close(FoldLeft(torn, st, chain), Base)
     /\ chain' = <<>> /\ rx' = <<>> /\ cur' = Base /\ ctl' = <<>>
     /\ alive' = FALSE
     /\ pc' = [k |-> "run"]
     /\ UNCHANGED win

Next ==
  \/ \E s \in Slabs, c \in Scopes : Allocate(s, c) \/ CopyOut(s, c)
  \/ \E c \in Scopes : LoopRegion(c) \/ \E k \in {"loop", "arena"} : Enter(k, c)
  \/ \E k \in {"cloop", "call"} : EnterLazily(k)
  \/ Receive \/ PoolReset \/ \E i \in 1..MaxRoots : Forget(i)
  \/ \E s \in Slabs : Share(s) \/ ShareDropped(s) \/ WindowClosed(s) \/ TransferFresh(s)
  \/ \E more \in BOOLEAN :
       \/ TransferValue(more) \/ TransferKeep(more)
       \/ \E need \in Room : TransferSpare(need, more) \/ TransferAsk(need, more)
  \/ BoundaryReset \/ BoundaryRetire
  \/ Return \/ LeaveUnopened \/ LeaveAdopt \/ LeaveCopy \/ Close
  \/ Reap
Spec == Init /\ [][Next]_vars

-----------------------------------------------------------------------------
(* Properties. *)

\* Every variable has the values the code gives it.
TypeOK ==
  /\ st.slab \in [Slabs -> [at : {"home", "out"}, owner : Pools \cup {None}, escaped : 0..1,
                            holds : Nat, promoted : BOOLEAN, room : Room \cup {0}]]
  /\ \A p \in Pools : ToSet(st.pool[p]) \subseteq Slabs
  /\ st.sc \in [Scopes -> [state : Slabs \cup {None}, next : Slabs \cup {None},
                           spare : Slabs \cup {None}, preserve : BOOLEAN, mark : 0..MaxRoots, arena : BOOLEAN,
                           prev : Pools, held : BOOLEAN, skew : BOOLEAN]]
  /\ cur \in Pools /\ ToSet(chain) \subseteq Scopes
  /\ \A i \in DOMAIN rx : rx[i] \subseteq Scopes
  /\ alive \in BOOLEAN

\* Regions nest as the constructs that opened them, whenever they opened and
\* whatever opened while another closed: the runtime's "left out of order"
\* and "a nested region is still open" are never reached, and the current
\* pool is the innermost region's.
Nested ==
  Running =>
    /\ chain = Reverse(SelectSeq([i \in DOMAIN ctl |-> ctl[i].c], LAMBDA c : c # None))
    /\ cur = IF chain = <<>> THEN Base ELSE Head(chain)

\* No slab belongs to a pool that has been closed or rewound under it: the
\* owner a drop on another hart reads is an open pool that has the slab.
OwnersOpen ==
  \A s \in Slabs :
    LET p == st.slab[s].owner
    IN p # None => /\ s \in ToSet(st.pool[p])
                   /\ (p = Base \/ (p \in ToSet(chain) /\ st.sc[p].arena))

\* The state the next turn reads is in a slab the scope holds, whatever
\* others drop of it and whichever slab the spare is.
StateHeld ==
  \A c \in ToSet(chain), s \in Slabs :
    (s = st.sc[c].state \/ s = st.sc[c].next) =>
      /\ Out(s) /\ st.slab[s].owner = None /\ st.slab[s].holds > win[s]
      /\ \A d \in ToSet(chain) : s # st.sc[d].spare

\* The next copy overwrites the spare: nobody else has a root in it, reads
\* it after a drop, or keeps it.
SpareUnused ==
  \A c \in ToSet(chain) : LET s == st.sc[c].spare IN
    s # None => /\ Out(s) /\ win[s] = 0
                /\ st.slab[s].holds = 0 /\ st.slab[s].escaped = 0 /\ st.slab[s].owner = None

\* A slab is out while a pool, a scope, a promoted object or a window keeps
\* it and no longer: after the last scope closed, and after a death at any
\* point of a boundary, nothing is left behind.
NothingLeft ==
  \A s \in Slabs :
    LET keepers == {c \in ToSet(chain) : s \in {st.sc[c].state, st.sc[c].next}}
        spare == \E c \in ToSet(chain) : s = st.sc[c].spare
    IN /\ Out(s) <=> \/ st.slab[s].owner # None \/ keepers # {} \/ spare
                     \/ st.slab[s].escaped > 0 \/ win[s] > 0
       /\ st.slab[s].holds = Cardinality(keepers) + win[s]

\* A slab with a promoted object in it says so (the drop's pre-check).
PrecheckKept == \A s \in Slabs : st.slab[s].escaped > 0 => st.slab[s].promoted

\* A boundary releases no root that was taken before its region opened: the
\* caller of a loop goes on reading its messages.
OlderRootsStay ==
  \A c \in ToSet(chain) : \A i \in DOMAIN rx : i > st.sc[c].mark => c \in rx[i]

\* The comment of fpr_scope.rx_mark: the roots above it were taken inside the
\* region, and die at its boundary.  All that were taken inside are above it,
\* unless the region opened while another was closing by copy and counts the
\* roots that close then released.
MarksHold ==
  \A c \in ToSet(chain) : \A i \in DOMAIN rx :
    c \in rx[i] => i > st.sc[c].mark \/ st.sc[c].skew

\* The same without the exception, as the comment has it: violated.
MarksAlwaysHold ==
  \A c \in ToSet(chain) : \A i \in DOMAIN rx : c \in rx[i] => i > st.sc[c].mark

\* Regions nest like the program's constructs, and only an open pool owns slabs.
RegionsNest == TypeOK /\ Nested /\ OwnersOpen

\* Every slab is out as long as, and only as long as, something keeps it: what
\* the next turn reads is held, and the spare is nobody's.
SlabsKept == StateHeld /\ SpareUnused /\ NothingLeft

\* A boundary releases no root taken before its region opened; it releases all
\* that were taken inside, unless the region opened in the close of another and
\* its mark counts what that close released; and a drop elsewhere finds them.
RootsKept == PrecheckKept /\ OlderRootsStay /\ MarksHold
=============================================================================
