------------------------------- MODULE Memory -------------------------------
(***************************************************************************)
(* The memory actor and who asks it (runtime/actors.c, runtime/buddy.c):   *)
(* the inline path when the buddy's lock is free, the request queued when  *)
(* it is not, the answer stored into the requester's mem_reply by CAS, a   *)
(* requester killed while it waits, frees queued one way; and the growable *)
(* stacks, whose segments are blocks taken and given back here.            *)
(*                                                                         *)
(* A requester is an actor, Loader the code that reserves the fixed window *)
(* of a portable image; Reaper stands for the hart loop's key.  Buddy      *)
(* operations are atomic (one lock region); a lock found held is a choice, *)
(* since any other thread may be inside.                                   *)
(***************************************************************************)
EXTENDS Buddy, Sequences, SequencesExt

CONSTANTS
  Requesters,   \* actors that take and give blocks
  None,         \* no block (0 in a reply slot)
  Pending,      \* MEM_PENDING
  Cancelled,    \* MEM_CANCELLED
  Reaper,       \* the hart loop's key (mem_hart_key)
  StackAt,      \* where each requester's first segment was taken
  StackOrder,   \* the order of a first stack segment (STACK_SZ)
  StackMax,     \* fpr_stack_max, in units
  TakeOrders,   \* what is asked for
  Window,       \* the units of the fixed window
  Ops,          \* bound: operations each requester starts
  QueueMax,     \* bound: requests one key has queued
  Mortal        \* requesters that may be killed

ASSUME MemoryAssumption ==
  /\ StackOrder \in Orders /\ TakeOrders \subseteq Orders
  /\ Window \subseteq Arena
  /\ Ops \in [Requesters -> Nat] /\ StackAt \in [Requesters -> Arena]
  /\ QueueMax \in Nat \ {0}
  /\ Mortal \subseteq Requesters

Keys == Requesters \cup {Reaper}

VARIABLES
  free,   \* the buddy's free lists
  q,      \* requests queued on the memory actor, per channel key
  mem,    \* the memory actor: what it has in hand
  reply,  \* mem_reply of each requester
  act,    \* requesters: where they are, the blocks they hold, their stack
  window  \* the units of the fixed window that are taken, and for what
vars == <<free, q, mem, reply, act, window>>

Size(b) == 2^b.ord
Total(segs) == FoldSeq(LAMBDA b, t : Size(b) + t, 0, segs)

MemIdle == [pc |-> "next", from |-> None, b |-> None, want |-> 0]

Init ==
    LET stack(r) == At(StackAt[r], StackOrder) IN
    /\ free = Tiles(Arena \ UnitsOf({stack(r) : r \in Requesters}))
    /\ q = [k \in Keys |-> <<>>]
    /\ mem = MemIdle
    /\ reply = [r \in Requesters |-> None]
    /\ act = [r \in Requesters |->
                [pc |-> "run", want |-> 0, held |-> {}, old |-> None,
                 stack |-> stack(r), segs |-> <<>>, spare |-> None,
                 depth |-> 0, drop |-> {}, left |-> Ops[r]]]
    /\ window = [pc |-> "open", units |-> {}]

Request(kind, x) == [kind |-> kind, x |-> x]
Running(r) == act[r].pc = "run" /\ act[r].drop = {}
Spend(r) == [act[r] EXCEPT !.left = @ - 1]
Hold(x, b) == [x EXCEPT !.pc = "run", !.held = IF b = None THEN @ ELSE @ \cup {b}]

\* buddy_alloc: any block it may hand out, or none.
Allocs(want) ==
  IF Candidates(free, want) = {} THEN {<<None, free>>}
  ELSE {<<At(b.off, want), AfterAlloc(free, b, want)>> : b \in Candidates(free, want)}

-----------------------------------------------------------------------------
(* A requester.                                                            *)

\* fpr_mem_take, served on the spot.
TakeInline(r, want) ==
  /\ Running(r) /\ act[r].left > 0
  /\ \E a \in Allocs(want) :
       /\ a[1] # None
       /\ free' = a[2]
       /\ act' = [act EXCEPT ![r] = Hold(Spend(r), a[1])]
  /\ UNCHANGED <<q, mem, reply, window>>

\* The lock is held, or there is no block: the request will be queued.
TakeSlow(r, want) ==
  /\ Running(r) /\ act[r].left > 0
  /\ reply' = [reply EXCEPT ![r] = Pending]
  /\ act' = [act EXCEPT ![r] = [Spend(r) EXCEPT !.pc = "post", !.want = want]]
  /\ UNCHANGED <<free, q, mem, window>>

\* mem_post; a request that cannot be queued is served directly.
Post(r) ==
  /\ act[r].pc = "post"
  /\ \/ /\ Len(q[r]) < QueueMax
        /\ q' = [q EXCEPT ![r] = Append(@, Request("take", act[r].want))]
        /\ act' = [act EXCEPT ![r].pc = "wait"]
        /\ UNCHANGED <<free, reply>>
     \/ \E a \in Allocs(act[r].want) :
          /\ free' = a[2]
          /\ act' = [act EXCEPT ![r] = Hold(@, a[1])]
          /\ reply' = [reply EXCEPT ![r] = None]
          /\ UNCHANGED q
  /\ UNCHANGED <<mem, window>>

\* The wait is over: the answer is exchanged for nothing.
Answered(r) ==
  /\ act[r].pc = "wait" /\ reply[r] # Pending
  /\ act' = [act EXCEPT ![r] = Hold(@, reply[r])]
  /\ reply' = [reply EXCEPT ![r] = None]
  /\ UNCHANGED <<free, q, mem, window>>

\* fpr_mem_give by key k: on the spot, or queued.
Give(k, b) ==
  \/ free' = AfterFree(free, b) /\ UNCHANGED q
  \/ /\ Len(q[k]) < QueueMax
     /\ q' = [q EXCEPT ![k] = Append(@, Request("give", b))]
     /\ UNCHANGED free

GiveBack(r, b) ==
  /\ Running(r) /\ b \in act[r].held
  /\ Give(r, b)
  /\ act' = [act EXCEPT ![r].held = @ \ {b}]
  /\ UNCHANGED <<mem, reply, window>>

\* buddy_realloc of a held block: as far as it goes in place.
Resize(r, b, want) ==
  LET k == IF want < b.ord THEN want ELSE GrownTo(free, b, want) IN
  /\ Running(r) /\ b \in act[r].held /\ act[r].left > 0 /\ want # b.ord
  /\ free' = IF want < b.ord THEN Shrunk(free, b, want) ELSE Absorbed(free, b, k)
  /\ act' = [act EXCEPT ![r] =
       [Spend(r) EXCEPT !.held = (@ \ {b}) \cup {At(b.off, k)},
                        !.pc = IF k = want THEN "run" ELSE "copy",
                        !.old = IF k = want THEN None ELSE At(b.off, k),
                        !.want = want]]
  /\ UNCHANGED <<q, mem, reply, window>>

\* The rest of it: a new block and a copy, or the old block as it is.
Move(r) ==
  /\ act[r].pc = "copy"
  /\ \E a \in Allocs(act[r].want) :
       /\ free' = a[2]
       /\ act' = [act EXCEPT ![r] =
            IF a[1] = None THEN [@ EXCEPT !.pc = "run", !.old = None]
            ELSE [@ EXCEPT !.pc = "free", !.held = @ \cup {a[1]}]]
  /\ UNCHANGED <<q, mem, reply, window>>

MoveFree(r) ==
  /\ act[r].pc = "free"
  /\ free' = AfterFree(free, act[r].old)
  /\ act' = [act EXCEPT ![r] = [@ EXCEPT !.pc = "run", !.old = None,
                                         !.held = @ \ {act[r].old}]]
  /\ UNCHANGED <<q, mem, reply, window>>

-----------------------------------------------------------------------------
(* Growable stacks.  depth is the segment the stack pointer is in, 0 for   *)
(* the first one; segments above it are dead until the next failed check.  *)

Current(x) == IF x.depth = 0 THEN x.stack ELSE x.segs[x.depth]

\* The segments the stack pointer has left: the largest stays as the spare
\* (the first to go, if it is as large), the rest go home.
Largest(bs) == CHOOSE b \in bs : \A c \in bs : b.ord >= c.ord
Popped(x) ==
  LET dead == {x.segs[i] : i \in (x.depth + 1)..Len(x.segs)}
      all == dead \cup (IF x.spare = None THEN {} ELSE {x.spare})
      kept == IF dead = {} \/ (x.spare # None /\ x.spare.ord >= Largest(dead).ord)
              THEN x.spare ELSE Largest(dead)
  IN [x EXCEPT !.segs = SubSeq(@, 1, x.depth), !.spare = kept,
               !.drop = all \ {kept}]

Fail(x) == [x EXCEPT !.pc = "dead"]

\* stack_reserve_at, when the segment the stack pointer returned to has room.
Settle(r) ==
  /\ Running(r) /\ Popped(act[r]) # act[r]
  /\ act' = [act EXCEPT ![r] = Popped(@)]
  /\ UNCHANGED <<free, q, mem, reply, window>>

\* What the ceiling leaves.
Room(x) == StackMax - Size(x.stack) - Total(x.segs)

\* stack_reserve_at: the dead segments are popped, and the next segment is
\* at least twice the current one (and as large as asked): the spare if it
\* will do, else a block taken directly; past the ceiling, or without
\* memory, the actor fails.
GrowStack(r, need) ==
  LET x == Popped(act[r])
      want == Max({Current(x).ord + 1, need})
      room == Room(x)
      linked(b) == [x EXCEPT !.segs = Append(@, b), !.depth = @ + 1]
  IN
  /\ Running(r) /\ act[r].left > 0
  /\ IF want \notin Orders \/ 2^want > room
     THEN act' = [act EXCEPT ![r] = Fail(x)] /\ UNCHANGED free
     ELSE IF x.spare # None /\ x.spare.ord >= want /\ Size(x.spare) <= room
     THEN /\ act' = [act EXCEPT ![r] =
                       [linked(x.spare) EXCEPT !.spare = None, !.left = @ - 1]]
          /\ UNCHANGED free
     ELSE \E a \in Allocs(want) :
            /\ free' = a[2]
            /\ act' = [act EXCEPT ![r] =
                 IF a[1] = None THEN Fail(x)
                 ELSE [linked(a[1]) EXCEPT !.left = @ - 1]]
  /\ UNCHANGED <<q, mem, reply, window>>

\* A function returns into an older segment: nothing runs but its epilogue.
Unwind(r) ==
  /\ act[r].pc = "run" /\ act[r].depth > 0
  /\ act' = [act EXCEPT ![r].depth = @ - 1]
  /\ UNCHANGED <<free, q, mem, reply, window>>

-----------------------------------------------------------------------------
(* Death.                                                                  *)

Kill(r) ==
  /\ r \in Mortal /\ act[r].pc \in {"run", "wait"}
  /\ act' = [act EXCEPT ![r] = Fail(@)]
  /\ UNCHANGED <<free, q, mem, reply, window>>

\* mem_cancel's half: an answer that is already there goes home.
Returned(r) ==
  IF reply[r] \in {None, Pending, Cancelled} THEN free ELSE AfterFree(free, reply[r])

\* reap: mem_cancel, whose exchange may find the answer already there; then
\* every block the actor still has, its stack and segments with it.
Reap(r) ==
  LET x == act[r]
      segs == ToSet(x.segs) \cup (IF x.spare = None THEN {} ELSE {x.spare})
  IN
  /\ x.pc = "dead"
  /\ free' = Returned(r)
  /\ reply' = [reply EXCEPT ![r] = Cancelled]
  /\ act' = [act EXCEPT ![r] =
       [@ EXCEPT !.pc = "gone", !.segs = <<>>, !.spare = None, !.depth = 0,
                 !.held = {}, !.drop = @ \cup x.held \cup segs \cup {x.stack}]]
  /\ UNCHANGED <<q, mem, window>>

\* One of the blocks to be given home: by the actor, or by the hart loop
\* under its own key.
Drop(r) ==
  /\ act[r].pc \in {"run", "gone"} /\ act[r].drop # {}
  /\ \E b \in act[r].drop :
       /\ Give(IF act[r].pc = "gone" THEN Reaper ELSE r, b)
       /\ act' = [act EXCEPT ![r].drop = @ \ {b}]
  /\ UNCHANGED <<mem, reply, window>>

-----------------------------------------------------------------------------
(* The memory actor: mem_next and mem_body.                                *)

MemNext ==
  /\ mem.pc = "next"
  /\ \E k \in Keys :
       LET m == Head(q[k]) IN
       /\ q[k] # <<>>
       /\ q' = [q EXCEPT ![k] = Tail(@)]
       /\ mem' = IF m.kind = "take"
                 THEN [MemIdle EXCEPT !.pc = "alloc", !.from = k, !.want = m.x]
                 ELSE [MemIdle EXCEPT !.pc = "free", !.b = m.x]
  /\ UNCHANGED <<free, reply, act, window>>

MemAlloc ==
  /\ mem.pc = "alloc"
  /\ \E a \in Allocs(mem.want) :
       free' = a[2] /\ mem' = [mem EXCEPT !.pc = "reply", !.b = a[1]]
  /\ UNCHANGED <<q, reply, act, window>>

\* Mutant of MemReply: a denial is not answered.
MemReplyGrant ==
  /\ mem.pc = "reply"
  /\ IF mem.b # None /\ reply[mem.from] = Pending
     THEN reply' = [reply EXCEPT ![mem.from] = mem.b] /\ mem' = MemIdle
     ELSE /\ mem' = IF mem.b = None THEN MemIdle ELSE [mem EXCEPT !.pc = "free"]
          /\ UNCHANGED reply
  /\ UNCHANGED <<free, q, act, window>>

\* Mutant of MemReply: a plain store, whatever the slot says.
MemReplyStore ==
  /\ mem.pc = "reply"
  /\ reply' = [reply EXCEPT ![mem.from] = mem.b] /\ mem' = MemIdle
  /\ UNCHANGED <<free, q, act, window>>

\* The CAS: a requester that was cancelled meanwhile gets nothing.
MemReply ==
  /\ mem.pc = "reply"
  /\ IF reply[mem.from] = Pending
     THEN reply' = [reply EXCEPT ![mem.from] = mem.b] /\ mem' = MemIdle
     ELSE /\ mem' = IF mem.b = None THEN MemIdle ELSE [mem EXCEPT !.pc = "free"]
          /\ UNCHANGED reply
  /\ UNCHANGED <<free, q, act, window>>

MemFree ==
  /\ mem.pc = "free"
  /\ free' = AfterFree(free, mem.b)
  /\ mem' = MemIdle
  /\ UNCHANGED <<q, reply, act, window>>

MemActor == MemNext \/ MemAlloc \/ MemReply \/ MemFree

-----------------------------------------------------------------------------
(* The fixed window of a portable image.                                   *)

\* buddy_reserve_range; a window found occupied keeps what it took so far.
ReserveRange ==
  LET taken == TakenUnits(free, Window) IN
  /\ window.pc = "open" /\ Window # {}
  /\ free' = AfterTake(free, taken)
  /\ window' = [pc |-> IF taken = Window THEN "held" ELSE "refused", units |-> taken]
  /\ UNCHANGED <<q, mem, reply, act>>

\* buddy_release_range: unit by unit, each under the lock of its own.
ReleaseUnit ==
  LET u == Min(window.units) IN
  /\ window.pc = "held"
  /\ free' = AfterFree(free, At(u, 0))
  /\ window' = [pc |-> IF window.units = {u} THEN "open" ELSE "held",
                units |-> window.units \ {u}]
  /\ UNCHANGED <<q, mem, reply, act>>

Requester(r) ==
  \/ \E want \in TakeOrders : TakeInline(r, want) \/ TakeSlow(r, want)
  \/ Post(r) \/ Answered(r)
  \/ \E b \in act[r].held : GiveBack(r, b)
  \/ \E b \in act[r].held, want \in TakeOrders : Resize(r, b, want)
  \/ Move(r) \/ MoveFree(r)
  \/ \E need \in TakeOrders : GrowStack(r, need)
  \/ Settle(r) \/ Unwind(r) \/ Kill(r) \/ Reap(r) \/ Drop(r)

Next ==
  \/ \E r \in Requesters : Requester(r)
  \/ MemActor \/ ReserveRange \/ ReleaseUnit

\* The memory actor's hart goes round its loop, and an actor that has been
\* woken is dispatched.
Fairness ==
  /\ WF_vars(MemActor)
  /\ \A r \in Requesters : WF_vars(Answered(r))

Spec == Init /\ [][Next]_vars /\ Fairness

-----------------------------------------------------------------------------
(* Properties.                                                             *)

Answer(r) == reply[r] \in Block
Some(x) == IF x = None THEN {} ELSE {x}

TypeOK ==
  /\ free \subseteq Block
  /\ mem.pc \in {"next", "alloc", "reply", "free"} /\ mem.b \in Block \cup {None}
  /\ reply \in [Requesters -> Block \cup {None, Pending, Cancelled}]
  /\ window.units \subseteq Window
  /\ \A r \in Requesters :
       /\ act[r].pc \in {"run", "post", "wait", "copy", "free", "dead", "gone"}
       /\ act[r].held \cup act[r].drop \subseteq Block
       /\ act[r].depth \in 0..Len(act[r].segs)
  /\ \A k \in Keys : Len(q[k]) <= QueueMax

\* Free memory is always fully coalesced: whatever the order of takes,
\* frees, resizes and reservations, the lists hold exactly the largest
\* blocks the free units make, so no order is refused for fragments of it.
Canonical == free = Tiles(UnitsOf(free))

\* The blocks each party answers for.
Owners == (Requesters \X {"held", "stack", "drop", "reply"})
            \cup (Keys \X {"queued"}) \cup {<<None, "mem">>}
Owned(o) ==
  CASE o[2] = "held"   -> act[o[1]].held
    [] o[2] = "stack"  -> IF act[o[1]].pc = "gone" THEN {}
                          ELSE ToSet(act[o[1]].segs) \cup Some(act[o[1]].spare)
                               \cup {act[o[1]].stack}
    [] o[2] = "drop"   -> act[o[1]].drop
    [] o[2] = "reply"  -> IF Answer(o[1]) /\ act[o[1]].pc # "gone"
                          THEN {reply[o[1]]} ELSE {}
    [] o[2] = "queued" -> {q[o[1]][i].x : i \in
                            {j \in 1..Len(q[o[1]]) : q[o[1]][j].kind = "give"}}
    [] o[2] = "mem"    -> Some(mem.b)

\* No unit of the arena is lost or has two owners: it is free, in the fixed
\* window, or in one block of one party -- the requester that took it, a
\* reply slot, the memory actor's hand, a queued free -- through denials,
\* kills between request and answer, and resizes that go half way.
Partition ==
  LET owned == UNION {UNION {{<<o, b, u>> : u \in Units(b)} : b \in Owned(o)} : o \in Owners}
      spare == UNION {{<<b, u>> : u \in Units(b)} : b \in free}
  IN
  /\ {t[3] : t \in owned} \cup {t[2] : t \in spare} \cup window.units = Arena
  /\ Cardinality(owned) + Cardinality(spare) + Cardinality(window.units) = N

\* An actor's stack, all its live segments, never passes the ceiling, and
\* each segment is at least twice the one below (a growth the reuse of a
\* warm segment may not undo).
Ceiling ==
  \A r \in Requesters :
    LET x == act[r]  chain == <<x.stack>> \o x.segs IN
    /\ Total(chain) <= StackMax
    /\ \A i \in 1..Len(x.segs) : chain[i + 1].ord > chain[i].ord

\* A requester parked for an answer gets one, or dies: no request is lost
\* between the queue, a denial and a cancelled neighbour.
Answers == \A r \in Requesters : act[r].pc = "wait" ~> act[r].pc # "wait"

\* The arena is whole: every unit has one owner, the free ones are in the
\* largest blocks they make, and no stack took more than its ceiling.
ArenaWhole == Canonical /\ Partition /\ Ceiling
=============================================================================
