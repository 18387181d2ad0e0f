------------------------------ MODULE Builtin -------------------------------
(***************************************************************************)
(* The builtin heap (machine/builtin/heap.c, arc.c and the builtin half of *)
(* runtime.c): the allocator of programs that run with no scheduler under  *)
(* them.                                                                   *)
(*                                                                         *)
(* One range of memory is tiled by blocks; the free ones coalesce and are  *)
(* indexed by size class.  A bitmap says which payloads are live.  A build *)
(* with reference counts frees what a release leaves unreferenced, through *)
(* a worklist kept in the dead blocks; a build without them threads what   *)
(* is allocated into the lists of the regions that loops, arenas and       *)
(* costly calls open, and a reset or a close frees the lists.              *)
(*                                                                         *)
(* Addresses and sizes are in units (16 bytes in the code); a block is its *)
(* address.  The program is any sequence of legal calls: it frees a block  *)
(* it owns once, and leaves the constructs it entered innermost first.     *)
(***************************************************************************)
EXTENDS Integers, FiniteSets, FiniteSetsExt, Sequences, SequencesExt

CONSTANTS
  Top,        \* no range is longer
  Prefix,     \* units before a payload
  SubBits,    \* a row of the index has 2^SubBits classes
  Trip,       \* FPR_BUILTIN_CALL_TRIP
  PendInline, \* pending calls that need no block of their own
  Builds,     \* the programs: with reference counts or regions (arc), the
              \* range's length (top), the payload sizes asked for (requests),
              \* of Vector storage or not (bulk), bound: constructs nested in
              \* one another (depth)
  MaxBytes,   \* bound: units bumped in one region between resets
  MaxRefs,    \* bound: references the program owns of one object
  None

ASSUME BuiltinAssumption ==
  /\ {Top, Prefix, SubBits, Trip, PendInline, MaxBytes, MaxRefs} \subseteq Nat
  /\ Prefix >= 1 /\ Top > Prefix + 1 /\ PendInline >= 1
  /\ \A b \in Builds : b.arc \in BOOLEAN /\ b.top \in Prefix + 2..Top /\ b.requests \subseteq Nat /\ b.bulk \subseteq BOOLEAN

VARIABLES
  build,
  m,      \* the allocator: blk, bins, submap, firstmap, live, count;
          \* the regions: regs (innermost first), pends, pendcap, array, loose
  ctl,    \* the constructs entered and not left, outermost first
  roots,  \* the references the program owns, how many of each
  pc      \* "run", copying a result, or releasing
vars == <<build, m, ctl, roots, pc>>

-----------------------------------------------------------------------------
(* The index of free blocks. *)

Addr == 0..Top - 1
Subs == 2^SubBits
log2_word(v) == CHOOSE k \in 0..Top : 2^k <= v /\ v < 2^(k + 1)
ClassAt(size, n) ==
  IF n < SubBits THEN <<0, size>> ELSE <<n - SubBits + 1, size \div 2^(n - SubBits) - Subs>>
size_class(size) == ClassAt(size, log2_word(size))
Rows == 0..size_class(Top)[1]
Classes == Rows \X (0..Subs - 1)

Binned(t, b, c) ==
  [t EXCEPT !.blk[b].class = c, !.bins[c] = <<b>> \o @,
            !.submap = @ \cup {c}, !.firstmap = @ \cup {c[1]}]
insert_free(t, b) == Binned(t, b, size_class(t.blk[b].size))

\* The row and column are the ones the block was put under.
Unbinned(t, c, rest) ==
  [t EXCEPT !.bins[c] = rest,
            !.submap = IF rest = <<>> THEN @ \ {c} ELSE @,
            !.firstmap = IF rest # <<>> \/ \E d \in t.submap : d # c /\ d[1] = c[1] THEN @
                         ELSE @ \ {c[1]}]
Others(t, c, b) == SelectSeq(t.bins[c], LAMBDA x : x # b)
remove_free(t, b) == Unbinned(t, t.blk[b].class, Others(t, t.blk[b].class, b))

\* The request's own bin, a larger class of its row, a larger row, and only
\* then the rest of its own bin.
FirstOf(t, f, above) == Head(t.bins[<<f, Min({d[2] : d \in {e \in t.submap : e[1] = f /\ e[2] > above}})>>])
FirstFit(t, bin, size) ==
  IF \A i \in DOMAIN bin : t.blk[bin[i]].size < size THEN None
  ELSE bin[Min({i \in DOMAIN bin : t.blk[bin[i]].size >= size})]
\* Mutant of AvailableIn: the request's own bin is not searched.
available_head(t, size, c) ==
  IF t.bins[c] # <<>> /\ t.blk[Head(t.bins[c])].size >= size THEN Head(t.bins[c])
  ELSE IF \E d \in t.submap : d[1] = c[1] /\ d[2] > c[2] THEN FirstOf(t, c[1], c[2])
  ELSE IF \E f \in t.firstmap : f > c[1] THEN FirstOf(t, Min({f \in t.firstmap : f > c[1]}), -1)
  ELSE None
AvailableIn(t, size, c) ==
  IF t.bins[c] # <<>> /\ t.blk[Head(t.bins[c])].size >= size THEN Head(t.bins[c])
  ELSE IF \E d \in t.submap : d[1] = c[1] /\ d[2] > c[2] THEN FirstOf(t, c[1], c[2])
  ELSE IF \E f \in t.firstmap : f > c[1] THEN FirstOf(t, Min({f \in t.firstmap : f > c[1]}), -1)
  ELSE FirstFit(t, t.bins[c], size)
available(t, size) == IF size > build.top THEN None ELSE AvailableIn(t, size, size_class(size))

-----------------------------------------------------------------------------
(* Blocks. *)

Block(size, prev, next) ==
  [size |-> size, prev |-> prev, next |-> next, used |-> 0, rc |-> 0,
   fields |-> <<>>, class |-> <<0, 0>>]
Put(f, b, r) == [x \in DOMAIN f \cup {b} |-> IF x = b THEN r ELSE f[x]]
Gone(f, b) == [x \in DOMAIN f \ {b} |-> f[x]]

request_size(u) == Prefix + (IF u = 0 THEN 1 ELSE u)

Before(t, n, b) == IF n = None THEN t ELSE [t EXCEPT !.blk[n].prev = b]

\* A remainder that can hold a block of its own becomes one.
SplitAt(t, b, y, size) ==
  Before([t EXCEPT !.blk = Put([@ EXCEPT ![b].next = b + size, ![b].size = size], b + size,
                               Block(y.size - size, b, y.next))], y.next, b + size)
split(t, b, size) ==
  IF t.blk[b].size - size < Prefix + 1 THEN t
  ELSE insert_free(SplitAt(t, b, t.blk[b], size), b + size)

\* b takes in the free block n behind it.
Absorb(t, b, n, y) ==
  Before([t EXCEPT !.blk = Gone([@ EXCEPT ![b].size = @ + y.size, ![b].next = y.next], n)], y.next, b)

merge(t, b) ==
  LET n == t.blk[b].next
  IN IF n = None \/ t.blk[n].used # 0 THEN t ELSE Absorb(remove_free(t, n), b, n, t.blk[n])

\* b joins the free block p before it, if it is one.
Joined(t, b, p) ==
  IF p = None \/ t.blk[p].used # 0 THEN insert_free(t, b)
  ELSE insert_free(Absorb(remove_free(t, p), p, b, t.blk[b]), p)
physical_free(t, b) == Joined(merge([t EXCEPT !.blk[b].used = 0], b), b, t.blk[b].prev)

mark_dead(t, b) == [t EXCEPT !.live = @ \ {b}, !.count = @ - 1]

\* Mutant of fpr_free: its space is free at once.
free_at_once(t, b) == physical_free(mark_dead(t, b), b)
\* A block in a region's list stays where it is until the reset.
fpr_free(t, b) ==
  IF t.blk[b].used = 2 THEN [mark_dead(t, b) EXCEPT !.blk[b].used = 3]
  ELSE physical_free(mark_dead(t, b), b)

\* A region's list, whose blocks are live or already freed by their owner.
free_list(t, list) ==
  FoldLeft(LAMBDA u, b : physical_free(IF u.blk[b].used = 2 THEN mark_dead(u, b) ELSE u, b), t, list)

-----------------------------------------------------------------------------
(* Allocation. *)

\* alloc_impl from its search on; "at" is the block, or None when there is
\* none that fits and the program stops.
Into(t, b, list) == [t EXCEPT !.regs[1][list] = <<b>> \o @, !.regs[1].bytes = @ + t.blk[b].size]
Used(t, b, used) ==
  [t EXCEPT !.blk[b].used = used, !.blk[b].rc = 1, !.blk[b].fields = <<>>,
            !.live = @ \cup {b}, !.count = @ + 1, !.at = b]
Carved(t, b, size) == split(remove_free(t, b), b, size)
TakeAt(t, b, size, tracked) ==
  IF b = None THEN [t EXCEPT !.at = None]
  ELSE IF tracked THEN Into(Used(Carved(t, b, size), b, 2), b, t.regs[1].target)
  ELSE Used(Carved(t, b, size), b, 1)
Take(t, u, tracked) == TakeAt(t, available(t, request_size(u)), request_size(u), tracked)

cur_region(t) == IF t.regs = <<>> THEN None ELSE t.regs[1].rec
cur_bytes(t) == IF t.regs = <<>> THEN t.loose ELSE t.regs[1].bytes

Pushed(t, seq) ==
  IF t.at = None THEN t
  ELSE [t EXCEPT !.regs = <<[rec |-> t.at, seq |-> seq, scratch |-> <<>>, held |-> <<>>,
                             fresh |-> <<>>, target |-> "scratch", bytes |-> 0]>> \o @]
region_push(t, seq) == Pushed(Take(t, 1, FALSE), seq)

\* The innermost pending call has allocated enough in its region: the call's
\* region opens, and the block is the first in it.
Trips(t) ==
  LET e == Last(t.pends)
  IN t.pends # <<>> /\ e.opened = None /\ e.in = cur_region(t) /\ cur_bytes(t) - e.mark >= Trip
InOpened(t, u) ==
  IF t.at = None THEN t ELSE Take([t EXCEPT !.pends[Len(t.pends)].opened = t.at], u, TRUE)
Loosely(t) == IF t.at = None THEN t ELSE [t EXCEPT !.loose = @ + t.blk[t.at].size]
alloc_impl(t, u, bulk) ==
  IF bulk \/ build.arc THEN Take(t, u, FALSE)
  ELSE IF Trips(t) THEN InOpened(region_push(t, 0), u)
  ELSE IF t.regs # <<>> THEN Take(t, u, TRUE) ELSE Loosely(Take(t, u, FALSE))

Moved(t, b) == IF t.at = None THEN t ELSE fpr_free([t EXCEPT !.blk[t.at].fields = t.blk[b].fields], b)
realloc_impl(t, b, u, bulk) ==
  LET n == t.blk[b].next
  IN IF u <= t.blk[b].size - Prefix THEN [t EXCEPT !.at = b]
     ELSE IF n # None /\ t.blk[n].used = 0 /\ t.blk[b].size + t.blk[n].size >= request_size(u)
     THEN [split(merge(t, b), b, request_size(u)) EXCEPT !.at = b]
     ELSE Moved(alloc_impl(t, u, bulk), b)

Fresh(t) == [t EXCEPT !.at = 0]

Init ==
  /\ build \in Builds
  /\ m = insert_free([blk |-> [b \in {0} |-> Block(build.top, None, None)], bins |-> [c \in Classes |-> <<>>],
                      submap |-> {}, firstmap |-> {}, live |-> {}, count |-> 0, at |-> 0,
                      regs |-> <<>>, pends |-> <<>>, cap |-> PendInline, array |-> None, loose |-> 0], 0)
  /\ ctl = <<>> /\ roots = [b \in Addr |-> 0]
  /\ pc = [k |-> "run"]

-----------------------------------------------------------------------------
(* The build with regions. *)

Region(k) == ~build.arc /\ pc.k = k
\* The blocks the program may free: the runtime's own are not its.
Own(b) == b \in m.live /\ b # m.array /\ \A i \in DOMAIN m.regs : b # m.regs[i].rec
            /\ (pc.k = "close" => b # pc.r.rec)
Stays(t) == t.at # None /\ cur_bytes(t) <= MaxBytes /\ m' = Fresh(t)

\* fpr_alloc and fpr_alloc_bulk, in a turn or in the copy of a result.
Alloc(u, bulk) ==
  /\ ~build.arc /\ (pc.k = "run" \/ ~bulk)
  /\ Stays(alloc_impl(m, u, bulk))
  /\ UNCHANGED <<build, ctl, roots, pc>>
Free(b) ==
  /\ Region("run") /\ Own(b)
  /\ m' = fpr_free(m, b)
  /\ UNCHANGED <<build, ctl, roots, pc>>
Realloc(b, u, bulk) ==
  /\ Region("run") /\ Own(b) /\ u > 0
  /\ Stays(realloc_impl(m, b, u, bulk))
  /\ UNCHANGED <<build, ctl, roots, pc>>

CanEnter(k) == Region("run") /\ Len(ctl) < build.depth

\* Sys.arena and Sys.loop.
Enter(k) ==
  /\ CanEnter(k) /\ k \in {"arena", "loop"}
  /\ Stays(region_push(m, 0))
  /\ ctl' = Append(ctl, k)
  /\ UNCHANGED <<build, roots, pc>>

\* $regionSeq: the activation's number, here its depth.
EnterLoop ==
  /\ CanEnter("cloop")
  /\ ctl' = Append(ctl, "cloop")
  /\ UNCHANGED <<build, m, roots, pc>>

\* $callPend: the array of pending calls doubles into a block of its own.
Grown(t) ==
  IF t.at = None THEN t
  ELSE [(IF m.array = None THEN t ELSE fpr_free(t, m.array)) EXCEPT !.array = t.at, !.cap = 2 * @]
CallPend ==
  LET pend(t) == [t EXCEPT !.pends = Append(@, [mark |-> cur_bytes(t), in |-> cur_region(t), opened |-> None])]
  IN /\ CanEnter("call")
     /\ IF Len(m.pends) = m.cap THEN Stays(pend(Grown(alloc_impl(m, 2 * m.cap, TRUE)))) ELSE Stays(pend(m))
     /\ ctl' = Append(ctl, "call")
     /\ UNCHANGED <<build, roots, pc>>

Opened == m.regs # <<>> /\ m.regs[1].seq = Len(ctl)   \* fpr_builtin_region_seq() == seq

\* $regionCycle, the first time.
LoopRegion ==
  /\ Region("run") /\ ctl # <<>> /\ Last(ctl) = "cloop" /\ ~Opened
  /\ Stays(region_push(m, Len(ctl)))
  /\ UNCHANGED <<build, ctl, roots, pc>>

\* A reset: the copy of the next state goes to a list of its own.
CycleBegin ==
  /\ Region("run") /\ ctl # <<>>
  /\ Last(ctl) = "loop" \/ (Last(ctl) = "cloop" /\ Opened)
  /\ m' = [m EXCEPT !.regs[1].fresh = <<>>, !.regs[1].target = "fresh"]
  /\ pc' = [k |-> "cycle"]
  /\ UNCHANGED <<build, ctl, roots>>
CycleEnd ==
  LET turned(t, r) == [t EXCEPT !.regs[1] = [r EXCEPT !.held = r.fresh, !.fresh = <<>>, !.scratch = <<>>,
                                                      !.target = "scratch", !.bytes = 0]]
  IN /\ Region("cycle")
     /\ m' = turned(free_list(free_list(m, m.regs[1].scratch), m.regs[1].held), m.regs[1])
     /\ pc' = [k |-> "run"]
     /\ UNCHANGED <<build, ctl, roots>>

\* Which region the construct being left has to close, if any.
Closes ==
  CASE Last(ctl) \in {"arena", "loop"} -> TRUE
    [] Last(ctl) = "cloop" -> Opened
    [] Last(ctl) = "call" -> Last(m.pends).opened # None
Popped == IF Last(ctl) = "call" THEN [m EXCEPT !.pends = Front(@)] ELSE m

\* $loopLeave and $callLeave with no region; pend_pop.
LeaveUnopened ==
  /\ Region("run") /\ ctl # <<>> /\ ~Closes
  /\ m' = Popped
  /\ ctl' = Front(ctl)
  /\ UNCHANGED <<build, roots, pc>>

\* region_close_builtin: the enclosing region is current for the copy.
CloseBegin ==
  /\ Region("run") /\ ctl # <<>> /\ Closes
  /\ m' = [Popped EXCEPT !.regs = Tail(@)]
  /\ pc' = [k |-> "close", r |-> m.regs[1]]
  /\ ctl' = Front(ctl)
  /\ UNCHANGED <<build, roots>>
CloseEnd ==
  /\ Region("close")
  /\ m' = fpr_free(free_list(free_list(m, pc.r.scratch), pc.r.held), pc.r.rec)
  /\ pc' = [k |-> "run"]
  /\ UNCHANGED <<build, ctl, roots>>

adopt_list(t, list) ==
  FoldLeft(LAMBDA u, b :
             IF u.blk[b].used = 3 THEN physical_free(u, b)
             ELSE IF u.regs # <<>>
             THEN [u EXCEPT !.regs[1].scratch = <<b>> \o @, !.regs[1].bytes = @ + u.blk[b].size]
             ELSE [u EXCEPT !.blk[b].used = 1, !.loose = @ + u.blk[b].size], t, list)

\* ... or, for a loop or a call whose result is most of it, keeps the blocks.
Adopted(t, r) == fpr_free(adopt_list(adopt_list(t, r.scratch), r.held), r.rec)
CloseAdopt ==
  /\ Region("run") /\ ctl # <<>> /\ Closes /\ Last(ctl) \in {"cloop", "call"} /\ m.regs[1].bytes > 0
  /\ Stays(Adopted([Popped EXCEPT !.regs = Tail(@)], m.regs[1]))
  /\ ctl' = Front(ctl)
  /\ UNCHANGED <<build, roots, pc>>

-----------------------------------------------------------------------------
(* The build with reference counts. *)

Arc == build.arc /\ pc.k = "run"
Owns(b) == roots[b] > 0

\* fpr_builtin_alloc_adt and the constructor: its fields take the references.
Construct(fs) ==
  LET spent(b) == Cardinality({i \in DOMAIN fs : fs[i] = b})
  IN /\ Arc /\ \A b \in Addr : spent(b) <= roots[b]
     /\ \E t \in {alloc_impl(m, Len(fs), FALSE)} :
          /\ t.at # None
          /\ m' = Fresh([t EXCEPT !.blk[t.at].fields = fs])
          /\ roots' = [b \in Addr |-> IF b = t.at THEN 1 ELSE roots[b] - spent(b)]
     /\ UNCHANGED <<build, ctl, pc>>

retain(t, b) == [t EXCEPT !.blk[b].rc = @ + 1]
Retain(b) ==
  /\ Arc /\ Owns(b) /\ roots[b] < MaxRefs
  /\ m' = retain(m, b)
  /\ roots' = [roots EXCEPT ![b] = @ + 1]
  /\ UNCHANGED <<build, ctl, pc>>

Releasing(todo) == pc' = [k |-> "release", todo |-> todo, work |-> <<>>]
Release(b) ==
  /\ Arc /\ Owns(b)
  /\ roots' = [roots EXCEPT ![b] = @ - 1]
  /\ Releasing(<<b>>)
  /\ UNCHANGED <<build, m, ctl>>

\* Mutant of Prim2: a result that is an argument is not retained.
prim2_unretained(a, b, r) ==
  LET used(x) == (IF x = a THEN 1 ELSE 0) + (IF x = b THEN 1 ELSE 0)
  IN /\ Arc /\ \A x \in {a, b} : roots[x] >= used(x)
     /\ roots' = [x \in Addr |-> roots[x] - used(x) + (IF x = r THEN 1 ELSE 0)]
     /\ Releasing(<<a, b>>)
     /\ UNCHANGED <<build, m, ctl>>

\* An adapter of arc.c (FINISH2): the primitive borrows a and b, and its
\* result is one of them or not in the heap.
Prim2(a, b, r) ==
  LET used(x) == (IF x = a THEN 1 ELSE 0) + (IF x = b THEN 1 ELSE 0)
  IN /\ Arc /\ \A x \in {a, b} : roots[x] >= used(x)
     /\ m' = IF r = a \/ r = b THEN retain(m, r) ELSE m
     /\ roots' = [x \in Addr |-> roots[x] - used(x) + (IF x = r THEN 1 ELSE 0)]
     /\ Releasing(<<a, b>>)
     /\ UNCHANGED <<build, ctl>>

\* The objects v reaches.
Below(v) ==
  LET wider(X) == X \cup UNION {ToSet(m.blk[x].fields) \ {None} : x \in X}
      f[n \in 0..Top] == IF n = 0 THEN {v} ELSE wider(f[n - 1])
  IN f[Top]

\* trmc_set_tail: the value's reference becomes the edge, the edge before
\* and the cursor are released.
SetTail(cursor, v) ==
  LET fs == m.blk[cursor].fields
      used(x) == (IF x = cursor THEN 1 ELSE 0) + (IF x = v THEN 1 ELSE 0)
  IN /\ Arc /\ Owns(cursor) /\ Len(fs) = 2
     /\ IF v = None THEN TRUE ELSE Owns(v) /\ cursor \notin Below(v)
     /\ m' = [m EXCEPT !.blk[cursor].fields[2] = v]
     /\ roots' = [x \in Addr |-> roots[x] - used(x)]
     /\ Releasing((IF fs[2] = None THEN <<>> ELSE <<fs[2]>>) \o <<cursor>>)
     /\ UNCHANGED <<build, ctl>>

enqueue(s, b) ==
  LET t == [s.t EXCEPT !.blk[b].rc = @ - 1]
  IN [t |-> t, work |-> IF t.blk[b].rc = 0 THEN <<b>> \o s.work ELSE s.work]

\* fpr_builtin_release: the fields of a dead block are enqueued, then it is
\* freed; then the next reference there is to release.
ReleaseStep ==
  /\ build.arc /\ pc.k = "release"
  /\ IF pc.work # <<>>
     THEN LET b == Head(pc.work)
              fs == SelectSeq(m.blk[b].fields, LAMBDA x : x # None)
              s == FoldLeft(enqueue, [t |-> m, work |-> Tail(pc.work)], fs)
          IN /\ m' = fpr_free(s.t, b)
             /\ pc' = [pc EXCEPT !.work = s.work]
     ELSE IF pc.todo # <<>>
     THEN LET s == enqueue([t |-> m, work |-> <<>>], Head(pc.todo))
          IN m' = s.t /\ pc' = [pc EXCEPT !.work = s.work, !.todo = Tail(@)]
     ELSE pc' = [k |-> "run"] /\ UNCHANGED m
  /\ UNCHANGED <<build, ctl, roots>>

Objects == {b \in DOMAIN m.blk : m.blk[b].used # 0}
Fields == {<<>>} \cup {<<a, b>> : a \in Objects, b \in Objects \cup {None}}
Next ==
  \/ \E u \in build.requests, bulk \in build.bulk :
       Alloc(u, bulk) \/ \E b \in Objects : Realloc(b, u, bulk)
  \/ \E b \in Objects : Free(b) \/ Retain(b) \/ Release(b)
  \/ \E k \in {"arena", "loop"} : Enter(k)
  \/ EnterLoop \/ CallPend \/ LoopRegion \/ CycleBegin \/ CycleEnd
  \/ LeaveUnopened \/ CloseBegin \/ CloseEnd \/ CloseAdopt
  \/ \E fs \in Fields : Construct(fs)
  \/ \E a, b \in Objects, r \in {None} \cup Objects : r \in {a, b, None} /\ Prim2(a, b, r)
  \/ \E a \in Objects, v \in Objects \cup {None} : SetTail(a, v)
  \/ ReleaseStep
Spec == Init /\ [][Next]_vars

-----------------------------------------------------------------------------
(* Properties. *)

Starts == DOMAIN m.blk
Frees == {b \in Starts : m.blk[b].used = 0}
\* The blocks tile the range, their links are their neighbours, and no two
\* free ones are neighbours.
Tiled ==
  \A b \in Starts :
    LET y == m.blk[b]
    IN /\ y.size >= Prefix + 1
       /\ IF b + y.size = build.top THEN y.next = None
          ELSE y.next = b + y.size /\ y.next \in Starts /\ m.blk[y.next].prev = b
       /\ b = 0 <=> y.prev = None
       /\ ~(b \in Frees /\ y.next \in Frees)

\* Each free block is in the bin of its size, once, nothing else is in one,
\* and the two maps say which bins and rows have any.
Indexed ==
  /\ \A c \in Classes : /\ IsInjective(m.bins[c])
                        /\ ToSet(m.bins[c]) = {b \in Frees : size_class(m.blk[b].size) = c}
                        /\ c \in m.submap <=> m.bins[c] # <<>>
  /\ m.firstmap = {c[1] : c \in m.submap}

\* No request is refused while a free block fits it (available's comment:
\* that "would be false OOM"), and what is handed out fits.
NoFalseOOM ==
  \A size \in Prefix + 1..build.top :
    LET b == available(m, size)
    IN IF b = None THEN \A x \in Frees : m.blk[x].size < size
       ELSE b \in Frees /\ m.blk[b].size >= size

Lists == {<<i, l>> : i \in 1..Len(m.regs) + 1, l \in {"scratch", "held", "fresh"}}
ListOf(i, l) == IF i <= Len(m.regs) THEN m.regs[i][l] ELSE IF pc.k = "close" THEN pc.r[l] ELSE <<>>
\* What a region's lists thread together is what was allocated in a region
\* and not freed by a reset, each block in one place of one list: a state
\* copied out at a boundary outlives its turn's reset, an object its owner
\* freed is not handed out while a list still runs through it, and a block
\* is live until its owner or its region frees it.
Tracked ==
  /\ \A b \in Starts :
       Cardinality({<<p, n>> \in Lists \X (1..Top) :
                      n <= Len(ListOf(p[1], p[2])) /\ ListOf(p[1], p[2])[n] = b})
         = (IF m.blk[b].used \in {2, 3} THEN 1 ELSE 0)
  /\ \A p \in Lists : ToSet(ListOf(p[1], p[2])) \subseteq Starts
  /\ m.live = {b \in Starts : m.blk[b].used \in {1, 2}} /\ m.count = Cardinality(m.live)
  /\ \A i \in DOMAIN m.regs : m.regs[i].rec \in m.live

\* The regions pending calls opened are open, innermost last, each above the
\* region its call began in; leaving a call finds its own region innermost;
\* no gauge is below the mark it is compared with; and when every construct
\* was left no region is open.
PendsNest ==
  LET at(r) == IF r = None THEN Len(m.regs) + 1 ELSE CHOOSE i \in DOMAIN m.regs : m.regs[i].rec = r
      open(r) == r = None \/ \E i \in DOMAIN m.regs : m.regs[i].rec = r
  IN ~build.arc =>
       /\ \A i \in DOMAIN m.pends :
            LET e == m.pends[i]
            IN /\ open(e.in) /\ open(e.opened)
               /\ e.opened # None => at(e.opened) < at(e.in)
               /\ \A j \in i + 1..Len(m.pends) : at(m.pends[j].in) <= at(e.in)
               /\ e.mark <= IF e.in = None THEN m.loose ELSE m.regs[at(e.in)].bytes
       /\ pc.k = "run" /\ ctl # <<>> /\ Last(ctl) = "call" /\ Last(m.pends).opened # None
            => Last(m.pends).opened = cur_region(m)
       /\ ctl = <<>> => m.regs = <<>>

\* An object's count is the references to it, the program's, the fields of
\* objects not freed yet, and those still to be released: none is freed
\* while one is left, and none is left without one.
RcExact ==
  build.arc =>
    \A b \in Objects :
      LET todo == IF pc.k = "release" THEN pc.todo ELSE <<>>
          work == IF pc.k = "release" THEN ToSet(pc.work) ELSE {}
          refs == roots[b] + Len(SelectSeq(todo, LAMBDA x : x = b))
                  + Cardinality({<<o, i>> \in Objects \X (1..2) :
                                   i <= Len(m.blk[o].fields) /\ m.blk[o].fields[i] = b})
      IN /\ m.blk[b].rc = refs
         /\ refs = 0 <=> b \in work
         /\ \A i \in DOMAIN m.blk[b].fields : m.blk[b].fields[i] \in Objects \cup {None}

\* The heap is sound: blocks tile it and coalesce, the bins index exactly the
\* free ones, and no request that fits is refused.
HeapSound == Tiled /\ Indexed /\ NoFalseOOM

\* Regions are sound: their lists thread each block once, and they open and
\* close with the constructs that own them.
RegionsSound == Tracked /\ PendsNest
=============================================================================
