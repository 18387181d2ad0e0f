---------------------------- MODULE SchedProofs ----------------------------
(***************************************************************************)
(* Proofs about the scheduler of module Sched, for any number of harts and *)
(* actors, any ring and batch sizes, any programs.                         *)
(*                                                                         *)
(* The invariant IInv of Sched is inductive: it holds in Init (InitInv),   *)
(* and every action keeps it (one lemma per action, <Action>Step).  A step *)
(* of hart h can disturb what IInv says of another hart only through the   *)
(* status, owner and running fields and the queues, so each lemma shows    *)
(* what the step does to hart h's own call (step 2), that it touches no    *)
(* other hart's (OwnCall, OwnScan) and un-spawns nobody (Grows), and the   *)
(* Frame lemmas carry the parts of IInv whose variables are unchanged.     *)
(*                                                                         *)
(* Its second half: no actor falls between the queues (NothingLost), no    *)
(* wake is lost (NoLostWake) and no hart sleeps on work shipped to it      *)
(* (NoSleepOnWork).                                                        *)
(*                                                                         *)
(* The invariant IInv /\ WInv is inductive.  A step of hart h moves only   *)
(* its own program counter, hand and scans (StepIsOwn), so for each part   *)
(* of WInv a Frame lemma says what hart h alone has to show, and a Step    *)
(* lemma shows it, one case per action or group of alike actions.          *)
(***************************************************************************)
EXTENDS Sched, FiniteSetTheorems, TLAPS

\* a step of hart h leaves the calls of every other hart alone, and ...
OwnCall(h) ==
  \A g \in Harts \ {h} :
    pc'[g] = pc[g] /\ hand'[g] = hand[g] /\ cont'[g] = cont[g]

\* ... what it is running, whom it mourns and what it is draining
OwnScan(h) ==
  \A g \in Harts \ {h} :
    cur'[g] = cur[g] /\ dying'[g] = dying[g] /\ snap'[g] = snap[g] /\ src'[g] = src[g]

\* an actor that was spawned stays spawned
Grows == \A a \in Actors : var[a] # "NEW" => var'[a] # "NEW"

\* the null hart is no hart
LEMMA NoHartNotHart == NoHart \notin Harts
BY SchedAssumption DEF Harts, NoHart

\* the null pointer is no actor
LEMMA NoActorNotActor == NoActor \notin Actors
BY SchedAssumption

\* a bound on a length survives an append
LEMMA LeGrows ==
  ASSUME NEW a \in Nat, NEW b \in Nat, NEW c \in {b, b + 1}, a <= b
  PROVE  a <= c
OBVIOUS

\* what Goto does to the program counters
LEMMA GotoOK ==
  ASSUME CallOK, NEW h \in Harts, NEW l \in Labels, Goto(h, l)
  PROVE  /\ pc' \in [Harts -> Labels]
         /\ pc'[h] = l
         /\ \A g \in Harts \ {h} : pc'[g] = pc[g]
BY DEF CallOK, Goto

\* what Finish does: hart h goes on at its continuation, its hand empty
LEMMA FinishOK ==
  ASSUME CallOK, NEW h \in Harts, cont[h] # "none", Finish(h)
  PROVE  /\ pc' \in [Harts -> Labels] /\ cont' \in [Harts -> Conts]
         /\ hand' \in [Harts -> Actors \cup {NoActor}]
         /\ pc'[h] = cont[h] /\ hand'[h] = NoActor /\ cont'[h] = "none"
         /\ OwnCall(h)
BY DEF Start, Goto, CallOK, Finish, Labels, Conts, OwnCall

\* a hart inside a runtime call holds a spawned actor
LEMMA HandIsActor ==
  ASSUME TypeOK, Calls, NEW h \in Harts,
         pc[h] \in {"add", "offer", "ship", "push", "ipi", "claim", "wake",
                    "reap", "teardown"}
  PROVE  hand[h] \in Actors /\ var[hand[h]] # "NEW"
BY DEF TypeOK, CallOK, Calls, CallOf

\* a hart inside a context runs an actor it owns
LEMMA CurIsActor ==
  ASSUME TypeOK, Live, NEW h \in Harts, InContext(h)
  PROVE  /\ cur[h] \in Actors /\ running[cur[h]] = h
         /\ owner[cur[h]] = h /\ var[cur[h]] # "NEW"
BY DEF TypeOK, HartOK, Live

\* whose owner is outside every context is saved
LEMMA SavedOutside ==
  ASSUME TypeOK, Live, NEW h \in Harts, ~InContext(h),
         NEW a \in Actors, owner[a] = h
  PROVE  running[a] = NoHart
BY DEF TypeOK, ActorsOK, Live

\* Calls, when only hart h moved
LEMMA FrameCalls ==
  ASSUME TypeOK, Calls, NEW h \in Harts, OwnCall(h), OwnScan(h), Grows, CallOf(h)'
  PROVE  Calls'
BY DEF TypeOK, CallOK, WalkOK, Calls, CallOf, OwnCall, OwnScan, Grows

\* Rings, when the rings and the drains stand still
LEMMA FrameRings ==
  ASSUME TypeOK, Rings, Grows, UNCHANGED <<xr, snap, src>>
  PROVE  Rings'
<1>1. \A s, d \in Harts : \A i \in 1 .. Len(xr[s][d]) : xr[s][d][i] \in Actors
  BY DEF TypeOK, ListsOK
<1>2. QED BY <1>1 DEF Rings, Grows

\* taking the head of a sequence
LEMMA TailOK ==
  ASSUME NEW S, NEW q \in Seq(S), q # <<>>
  PROVE  /\ Head(q) \in S /\ Head(q) = q[1] /\ Len(q) \in Nat /\ Len(q) >= 1
         /\ Tail(q) \in Seq(S) /\ Len(Tail(q)) = Len(q) - 1
         /\ \A i \in 1 .. Len(Tail(q)) : Tail(q)[i] = q[i + 1]
OBVIOUS

\* appending to a sequence
LEMMA AppendOK ==
  ASSUME NEW S, NEW q \in Seq(S), NEW e \in S
  PROVE  /\ Append(q, e) \in Seq(S) /\ Len(q) \in Nat
         /\ Len(Append(q, e)) = Len(q) + 1
         /\ \A i \in 1 .. Len(Append(q, e)) :
              (i \in 1 .. Len(q) /\ Append(q, e)[i] = q[i]) \/ Append(q, e)[i] = e
OBVIOUS

\* rings as functions of two harts, without the nesting
LEMMA RingsTyped ==
  ASSUME TypeOK, NEW s \in Harts, NEW d \in Harts
  PROVE  xr[s][d] \in Seq(Actors) /\ Len(xr[s][d]) \in Nat
BY DEF TypeOK, ListsOK

\* Queues, when the queues and the owners stand still
LEMMA FrameQueues ==
  ASSUME Queues, Grows, UNCHANGED <<owner, running, backlog, rq>>
  PROVE  Queues'
BY DEF Queues, Grows

\* Popped, when hart h does not move to a dispatch
LEMMA FramePopped ==
  ASSUME Popped, NEW h \in Harts, OwnCall(h), pc'[h] # "claim",
         UNCHANGED <<owner, running, backlog, rq>>
  PROVE  Popped'
BY DEF Popped, OwnCall

\* Live, when hart h stays in, or out of, its context
LEMMA FrameLive ==
  ASSUME Live, NEW h \in Harts, OwnCall(h), OwnScan(h), Grows,
         InContext(h)' = InContext(h), cur'[h] = cur[h],
         UNCHANGED <<owner, running>>
  PROVE  Live'
BY DEF Live, OwnCall, OwnScan, Grows, InContext

\* Switched, when hart h does not come back from a context
LEMMA FrameSwitched ==
  ASSUME TypeOK, Switched, NEW h \in Harts, OwnCall(h), OwnScan(h), Grows,
         pc'[h] # "after"
  PROVE  Switched'
BY DEF TypeOK, HartOK, Switched, OwnCall, OwnScan, Grows

\* the invariant, when hart h stays where it is in its context and in the queues
LEMMA FrameAll ==
  ASSUME IInv, TypeOK', NEW h \in Harts, OwnCall(h), OwnScan(h), Grows,
         CallOf(h)', InContext(h)' = InContext(h), cur'[h] = cur[h],
         pc'[h] \notin {"claim", "after"},
         UNCHANGED <<owner, running, backlog, rq, xr, snap, src>>
  PROVE  IInv'
BY FrameCalls, FrameRings, FrameQueues, FramePopped, FrameLive, FrameSwitched
   DEF IInv

\* drain reads the tail of one inbound ring.
LEMMA DrainVisitStep ==
  ASSUME IInv, NEW h \in Harts, DrainVisit(h), prog' = prog
  PROVE  IInv'
<1>1. /\ CallOK /\ CallOf(h) /\ pc[h] = "drain"
      /\ dying[h] \in Actors \cup {NoActor}
  BY DEF IInv, TypeOK, Calls, WalkOK, DrainVisit
<1>2. /\ pc' \in [Harts -> Labels] /\ cont' \in [Harts -> Conts]
      /\ hand' \in [Harts -> Actors \cup {NoActor}]
      /\ OwnCall(h)
      /\ UNCHANGED <<pc, hand, cont>>
  BY <1>1 DEF DrainVisit, CallOK, CallOf, OwnCall, Labels, Conts, call
<1>3. TypeOK'
  <2>1. CallOK'
    BY <1>1, <1>2 DEF CallOK, DrainVisit, call
  <2>2. ScanOK'
    BY <1>1 DEF IInv, TypeOK, ScanOK, ListsOK, DrainVisit
  <2>3. QED
    BY <2>1, <2>2 DEF IInv, TypeOK, ActorsOK, MailOK, ListsOK, WalkOK, HartOK,
         DrainVisit, acb, lists, call, walk, hart, mbox
<1>4. OwnScan(h) /\ Grows
  BY <1>1, <1>2 DEF OwnScan, Grows, IInv, TypeOK, ScanOK, DrainVisit, acb,
       lists, call, walk, hart, mbox
<1>5. Calls'
  <2>1. CallOf(h)'
    BY <1>1, <1>2, <1>4, NoActorNotActor DEF CallOf, CallOK, Grows, DrainVisit,
         acb, walk
  <2>2. QED BY <1>2, <1>4, <2>1, FrameCalls DEF IInv
<1>6. Rings'
  <2>1. \A s, d \in Harts : \A i \in 1 .. Len(xr[s][d]) : xr[s][d][i] \in Actors
    BY RingsTyped DEF IInv
  <2>2. \A s, d \in Harts : \A i \in 1 .. Len(xr[s][d]) : var'[xr[s][d][i]] # "NEW"
    BY <2>1, <1>4 DEF IInv, Rings, Grows
  <2>3. snap'[h] <= Len(xr[src'[h]][h])
    BY RingsTyped DEF IInv, TypeOK, ScanOK, DrainVisit
  <2>4. xr' = xr
    BY DEF DrainVisit, lists
  <2>5. QED
    BY <2>2, <2>3, <2>4, <1>4 DEF IInv, Rings, OwnScan
<1>7. Queues'
  BY <1>4, FrameQueues DEF IInv, DrainVisit, acb, lists
<1>8. Popped'
  BY <1>1, <1>2, FramePopped DEF IInv, CallOf, DrainVisit, acb, lists
<1>9. Live'
  <2>1. InContext(h)' = InContext(h) /\ cur'[h] = cur[h]
    BY <1>1, <1>2 DEF InContext, CallOf, DrainVisit, hart
  <2>2. QED
    BY <1>2, <1>4, <2>1, FrameLive DEF IInv, DrainVisit, acb
<1>10. Switched'
  BY <1>1, <1>2, <1>4, FrameSwitched DEF IInv, CallOf
<1>11. QED BY <1>3, <1>5, <1>6, <1>7, <1>8, <1>9, <1>10 DEF IInv

\* drain takes one entry: it was spawned, and goes to backlog_add.
LEMMA DrainPopStep ==
  ASSUME IInv, NEW h \in Harts, DrainPop(h), prog' = prog
  PROVE  IInv'
<1>1. /\ CallOK /\ CallOf(h) /\ pc[h] = "drain"
      /\ dying[h] \in Actors \cup {NoActor} /\ src[h] \in Harts
  BY DEF IInv, TypeOK, Calls, WalkOK, ScanOK, DrainPop
<1>0. /\ xr[src[h]][h] \in Seq(Actors) /\ xr[src[h]][h] # <<>>
      /\ Head(xr[src[h]][h]) \in Actors /\ var[Head(xr[src[h]][h])] # "NEW"
  <2>1. xr[src[h]][h] \in Seq(Actors)
    BY <1>1, RingsTyped DEF IInv
  <2>2. Len(xr[src[h]][h]) \in Nat /\ Len(xr[src[h]][h]) > 0
    BY <1>1, <2>1 DEF IInv, TypeOK, ScanOK, Rings, DrainPop
  <2>3. xr[src[h]][h] # <<>>
    BY <2>2
  <2>4. var[xr[src[h]][h][1]] # "NEW"
    BY <1>1, <2>2 DEF IInv, Rings
  <2>5. QED
    BY <2>1, <2>2, <2>3, <2>4, TailOK
<1>2. /\ pc' \in [Harts -> Labels] /\ cont' \in [Harts -> Conts]
      /\ hand' \in [Harts -> Actors \cup {NoActor}]
      /\ OwnCall(h)
      /\ pc'[h] = "add" /\ hand'[h] = Head(xr[src[h]][h]) /\ cont'[h] = "drain"
  BY <1>0, <1>1 DEF Start, Goto, DrainPop, CallOK, CallOf, OwnCall, Labels, Conts
<1>3. TypeOK'
  <2>1. ListsOK'
    BY <1>0, <1>1, TailOK DEF IInv, TypeOK, ListsOK, DrainPop
  <2>2. CallOK'
    BY <1>1, <1>2 DEF CallOK, DrainPop
  <2>3. ScanOK'
    BY <1>1 DEF IInv, TypeOK, ScanOK, DrainPop
  <2>4. QED
    BY <2>1, <2>2, <2>3 DEF IInv, TypeOK, ActorsOK, MailOK, WalkOK, HartOK,
         DrainPop, acb, walk, hart, mbox
<1>4. OwnScan(h) /\ Grows
  BY <1>1, <1>2 DEF OwnScan, Grows, IInv, TypeOK, ScanOK, DrainPop, acb, walk,
       hart, mbox
<1>5. Calls'
  <2>1. CallOf(h)'
    BY <1>0, <1>1, <1>2, <1>4, NoActorNotActor DEF CallOf, CallOK, Grows, DrainPop,
         acb, walk
  <2>2. QED BY <1>2, <1>4, <2>1, FrameCalls DEF IInv
<1>6. Rings'
  <2>1. \A s, d \in Harts : xr[s][d] \in Seq(Actors)
    BY RingsTyped DEF IInv
  <2>2. \A s, d \in Harts :
          xr'[s][d] = IF s = src[h] /\ d = h THEN Tail(xr[s][d]) ELSE xr[s][d]
    BY <1>1 DEF IInv, TypeOK, ListsOK, DrainPop
  <2>3. ASSUME NEW s \in Harts, NEW d \in Harts, NEW i \in 1 .. Len(xr'[s][d])
        PROVE  var'[xr'[s][d][i]] # "NEW"
    <3>1. CASE s = src[h] /\ d = h
      <4>1. /\ xr'[s][d][i] = xr[s][d][i + 1]
            /\ i + 1 \in 1 .. Len(xr[s][d])
        <5>1. xr'[s][d] = Tail(xr[src[h]][h]) /\ xr[s][d] = xr[src[h]][h]
          BY <2>2, <3>1
        <5>2. Len(xr'[s][d]) = Len(xr[s][d]) - 1 /\ Len(xr[s][d]) \in Nat
          BY <1>0, <5>1, TailOK
        <5>3. xr'[s][d][i] = xr[s][d][i + 1]
          BY <1>0, <2>3, <5>1, TailOK
        <5>4. QED BY <2>3, <5>2, <5>3
      <4>2. xr[s][d][i + 1] \in Actors /\ var[xr[s][d][i + 1]] # "NEW"
        BY <2>1, <4>1 DEF IInv, Rings
      <4>3. QED BY <4>1, <4>2, <1>4 DEF Grows
    <3>2. CASE ~(s = src[h] /\ d = h)
      <4>1. xr'[s][d] = xr[s][d] /\ i \in 1 .. Len(xr[s][d])
        BY <2>2, <2>3, <3>2
      <4>2. xr[s][d][i] \in Actors /\ var[xr[s][d][i]] # "NEW"
        BY <2>1, <4>1 DEF IInv, Rings
      <4>3. QED BY <4>1, <4>2, <1>4 DEF Grows
    <3>3. QED BY <3>1, <3>2
  <2>4. ASSUME NEW g \in Harts
        PROVE  snap'[g] <= Len(xr'[src'[g]][g])
    <3>1. src' = src /\ snap' = [snap EXCEPT ![h] = snap[h] - 1]
      BY DEF DrainPop
    <3>2. CASE g = h
      <4>1. xr'[src[h]][h] = Tail(xr[src[h]][h])
        BY <1>1, <2>2
      <4>2. snap[h] \in Nat /\ snap[h] <= Len(xr[src[h]][h]) /\ snap'[h] = snap[h] - 1
        BY <3>1 DEF IInv, TypeOK, ScanOK, Rings
      <4>3. QED BY <1>0, <3>1, <3>2, <4>1, <4>2, TailOK
    <3>3. CASE g # h
      BY <2>2, <3>1, <3>3 DEF IInv, TypeOK, ScanOK, Rings
    <3>4. QED BY <3>2, <3>3
  <2>5. QED BY <2>3, <2>4 DEF Rings
<1>7. Queues'
  BY <1>4, FrameQueues DEF IInv, DrainPop, acb
<1>8. Popped'
  BY <1>1, <1>2, FramePopped DEF IInv, CallOf, DrainPop, acb
<1>9. Live'
  <2>1. InContext(h)' = InContext(h) /\ cur'[h] = cur[h]
    BY <1>1, <1>2 DEF InContext, CallOf, DrainPop, hart
  <2>2. QED
    BY <1>2, <1>4, <2>1, FrameLive DEF IInv, DrainPop, acb
<1>10. Switched'
  BY <1>1, <1>2, <1>4, FrameSwitched DEF IInv, CallOf
<1>11. QED BY <1>3, <1>5, <1>6, <1>7, <1>8, <1>9, <1>10 DEF IInv

\* drain has visited every ring.
LEMMA DrainDoneStep ==
  ASSUME IInv, NEW h \in Harts, DrainDone(h), prog' = prog
  PROVE  IInv'
<1>1. /\ CallOK /\ CallOf(h) /\ pc[h] = "drain"
      /\ dying[h] \in Actors \cup {NoActor}
  BY DEF IInv, TypeOK, Calls, WalkOK, DrainDone
<1>2. /\ pc' \in [Harts -> Labels] /\ cont' \in [Harts -> Conts]
      /\ hand' \in [Harts -> Actors \cup {NoActor}]
      /\ OwnCall(h)
      /\ pc'[h] = "refill" /\ UNCHANGED <<hand, cont>>
  BY <1>1, GotoOK DEF DrainDone, CallOK, CallOf, OwnCall, Labels, Conts, call
<1>3. TypeOK'
  <2>1. CallOK'
    BY <1>1, <1>2 DEF CallOK, DrainDone, call
  <2>2. ScanOK'
    BY <1>1 DEF IInv, TypeOK, ScanOK, DrainDone
  <2>3. QED
    BY <2>1, <2>2 DEF IInv, TypeOK, ActorsOK, MailOK, ListsOK, WalkOK, HartOK,
         DrainDone, acb, lists, call, walk, hart, mbox
<1>4. OwnScan(h) /\ Grows
  BY <1>1, <1>2 DEF OwnScan, Grows, IInv, TypeOK, ScanOK, DrainDone, acb,
       lists, call, walk, hart, mbox
<1>5. Calls'
  <2>1. CallOf(h)'
    BY <1>1, <1>2, <1>4, NoActorNotActor DEF CallOf, CallOK, Grows, DrainDone,
         acb, walk
  <2>2. QED BY <1>2, <1>4, <2>1, FrameCalls DEF IInv
<1>6. Rings'
  <2>1. \A s, d \in Harts : \A i \in 1 .. Len(xr[s][d]) : xr[s][d][i] \in Actors
    BY RingsTyped DEF IInv
  <2>2. \A s, d \in Harts : \A i \in 1 .. Len(xr[s][d]) : var'[xr[s][d][i]] # "NEW"
    BY <2>1, <1>4 DEF IInv, Rings, Grows
  <2>3. snap'[h] <= Len(xr[src'[h]][h])
    BY RingsTyped DEF IInv, TypeOK, ScanOK, DrainDone
  <2>4. xr' = xr
    BY DEF DrainDone, lists
  <2>5. QED
    BY <2>2, <2>3, <2>4, <1>4 DEF IInv, Rings, OwnScan
<1>7. Queues'
  BY <1>4, FrameQueues DEF IInv, DrainDone, acb, lists
<1>8. Popped'
  BY <1>1, <1>2, FramePopped DEF IInv, CallOf, DrainDone, acb, lists
<1>9. Live'
  <2>1. InContext(h)' = InContext(h) /\ cur'[h] = cur[h]
    BY <1>1, <1>2 DEF InContext, CallOf, DrainDone, hart
  <2>2. QED
    BY <1>2, <1>4, <2>1, FrameLive DEF IInv, DrainDone, acb
<1>10. Switched'
  BY <1>1, <1>2, <1>4, FrameSwitched DEF IInv, CallOf
<1>11. QED BY <1>3, <1>5, <1>6, <1>7, <1>8, <1>9, <1>10 DEF IInv

\* select_backlog unlinks a DEAD entry and hands it to reap.
LEMMA RefillDeadStep ==
  ASSUME IInv, NEW h \in Harts, RefillDead(h), prog' = prog
  PROVE  IInv'
<1>1. /\ CallOK /\ CallOf(h) /\ pc[h] = "refill"
      /\ dying[h] \in Actors \cup {NoActor}
      /\ backlog[h] \subseteq Actors
  BY DEF IInv, TypeOK, Calls, WalkOK, RefillDead, ListsOK
<1>2. /\ pc' \in [Harts -> Labels] /\ cont' \in [Harts -> Conts]
      /\ hand' \in [Harts -> Actors \cup {NoActor}]
      /\ OwnCall(h)
      /\ \E a \in DeadIn(h) :
           pc'[h] = "reap" /\ hand'[h] = a /\ cont'[h] = "refill"
  BY <1>1 DEF Start, Goto, RefillDead, CallOK, CallOf, OwnCall, Labels, Conts,
       DeadIn
<1>3. TypeOK'
  <2>1. ListsOK'
    BY <1>1 DEF IInv, TypeOK, ListsOK, RefillDead
  <2>2. CallOK'
    BY <1>1, <1>2 DEF CallOK, RefillDead
  <2>3. QED
    BY <2>1, <2>2 DEF IInv, TypeOK, ActorsOK, MailOK, WalkOK, ScanOK, HartOK,
         RefillDead, acb, walk, scan, hart, mbox
<1>4. OwnScan(h) /\ Grows
  BY <1>1, <1>2 DEF OwnScan, Grows, IInv, TypeOK, RefillDead, acb, walk, scan,
       hart, mbox
<1>5. Calls'
  <2>1. CallOf(h)'
    BY <1>1, <1>2, <1>4, NoActorNotActor DEF CallOf, CallOK, Grows, RefillDead,
         acb, walk, DeadIn, Queues, IInv
  <2>2. QED BY <1>2, <1>4, <2>1, FrameCalls DEF IInv
<1>6. Rings'
  BY <1>4, FrameRings DEF IInv, RefillDead, scan
<1>7. Queues'
  BY SMTT(30), <1>1, <1>2, <1>4, NoHartNotHart DEF IInv, Queues, Live, InContext, Grows,
       TypeOK, ListsOK, ActorsOK, RefillDead, acb, DeadIn
<1>8. Popped'
  BY <1>1, <1>2, <1>4, NoHartNotHart DEF IInv, Popped, Queues, Live, InContext,
       OwnCall, Calls, CallOf, TypeOK, ListsOK, ActorsOK, CallOK, RefillDead,
       acb, DeadIn
<1>9. Live'
  <2>1. InContext(h)' = InContext(h) /\ cur'[h] = cur[h]
    BY <1>1, <1>2 DEF InContext, CallOf, RefillDead, hart
  <2>2. QED
    BY <1>2, <1>4, <2>1, FrameLive DEF IInv, RefillDead, acb
<1>10. Switched'
  BY <1>1, <1>2, <1>4, FrameSwitched DEF IInv, CallOf
<1>11. QED BY <1>3, <1>5, <1>6, <1>7, <1>8, <1>9, <1>10 DEF IInv

\* refill admits a READY entry: its owner is outside every context, so the
\* entry is saved.
LEMMA AdmitStep ==
  ASSUME IInv, NEW h \in Harts, Admit(h), prog' = prog
  PROVE  IInv'
<1>1. /\ CallOK /\ CallOf(h) /\ pc[h] = "refill"
      /\ dying[h] \in Actors \cup {NoActor}
      /\ backlog[h] \subseteq Actors
  BY DEF IInv, TypeOK, Calls, WalkOK, Admit, ListsOK
<1>2. /\ pc' \in [Harts -> Labels] /\ cont' \in [Harts -> Conts]
      /\ hand' \in [Harts -> Actors \cup {NoActor}]
      /\ OwnCall(h)
      /\ pc'[h] \in {"refill", "pop"} /\ UNCHANGED <<hand, cont>>
  BY <1>1, GotoOK DEF Admit, CallOK, CallOf, OwnCall, Labels, Conts, call
<1>3. TypeOK'
  <2>1. ListsOK'
    BY <1>1 DEF IInv, TypeOK, ListsOK, Admit
  <2>2. CallOK'
    BY <1>1, <1>2 DEF CallOK, Admit, call
  <2>3. QED
    BY <2>1, <2>2 DEF IInv, TypeOK, ActorsOK, MailOK, WalkOK, ScanOK, HartOK,
         Admit, acb, call, walk, scan, hart, mbox
<1>4. OwnScan(h) /\ Grows
  BY <1>1, <1>2 DEF OwnScan, Grows, IInv, TypeOK, Admit, acb, call, walk, scan,
       hart, mbox
<1>5. Calls'
  <2>1. CallOf(h)'
    BY <1>1, <1>2, <1>4, NoActorNotActor DEF CallOf, CallOK, Grows, Admit, acb,
         walk, DeadIn
  <2>2. QED BY <1>2, <1>4, <2>1, FrameCalls DEF IInv
<1>6. Rings'
  BY <1>4, FrameRings DEF IInv, Admit, scan
<1>7. Queues'
  <2>1. PICK a \in backlog[h] :
          /\ var[a] = "READY"
          /\ backlog' = [backlog EXCEPT ![h] = {b \in @ \ {a} : var[b] = "READY"}]
          /\ rq' = [rq EXCEPT ![h] = @ \cup {a}]
    BY DEF Admit
  <2>2. /\ var' = var /\ owner' = owner /\ running' = running
    BY DEF Admit, acb
  <2>3. running[a] = NoHart
    BY <1>1, <2>1, SavedOutside DEF IInv, Queues, InContext
  <2>4. /\ backlog'[h] \subseteq backlog[h] \ {a}
        /\ rq'[h] = rq[h] \cup {a}
        /\ \A g \in Harts \ {h} : backlog'[g] = backlog[g] /\ rq'[g] = rq[g]
    BY <2>1 DEF IInv, TypeOK, ListsOK
  <2>5. QED
    BY <1>1, <2>1, <2>2, <2>3, <2>4 DEF IInv, Queues
<1>8. Popped'
  BY <1>1, <1>2, <1>4, NoHartNotHart DEF IInv, Popped, Queues, Live, InContext,
       OwnCall, Calls, CallOf, TypeOK, ListsOK, ActorsOK, CallOK, Admit, acb,
       DeadIn
<1>9. Live'
  <2>1. InContext(h)' = InContext(h) /\ cur'[h] = cur[h]
    BY <1>1, <1>2 DEF InContext, CallOf, Admit, hart
  <2>2. QED
    BY <1>2, <1>4, <2>1, FrameLive DEF IInv, Admit, acb
<1>10. Switched'
  BY <1>1, <1>2, <1>4, FrameSwitched DEF IInv, CallOf
<1>11. QED BY <1>3, <1>5, <1>6, <1>7, <1>8, <1>9, <1>10 DEF IInv

\* refill ends; dropping stale entries keeps the queues' rules.
LEMMA RefillDoneStep ==
  ASSUME IInv, NEW h \in Harts, RefillDone(h), prog' = prog
  PROVE  IInv'
<1>1. /\ CallOK /\ CallOf(h) /\ pc[h] = "refill"
      /\ dying[h] \in Actors \cup {NoActor}
  BY DEF IInv, TypeOK, Calls, WalkOK, RefillDone
<1>2. /\ pc' \in [Harts -> Labels] /\ cont' \in [Harts -> Conts]
      /\ hand' \in [Harts -> Actors \cup {NoActor}]
      /\ OwnCall(h)
      /\ pc'[h] = "pop" /\ UNCHANGED <<hand, cont>>
  BY <1>1, GotoOK DEF RefillDone, CallOK, CallOf, OwnCall, Labels, Conts, call
<1>3. TypeOK'
  <2>1. ListsOK'
    BY <1>1 DEF IInv, TypeOK, ListsOK, RefillDone
  <2>2. CallOK'
    BY <1>1, <1>2 DEF CallOK, RefillDone, call
  <2>3. QED
    BY <2>1, <2>2 DEF IInv, TypeOK, ActorsOK, MailOK, WalkOK, ScanOK, HartOK,
         RefillDone, acb, call, walk, scan, hart, mbox
<1>4. OwnScan(h) /\ Grows
  BY <1>1, <1>2 DEF OwnScan, Grows, IInv, TypeOK, RefillDone, acb, call, walk,
       scan, hart, mbox
<1>5. Calls'
  <2>1. CallOf(h)'
    BY <1>1, <1>2, <1>4, NoActorNotActor DEF CallOf, CallOK, Grows, RefillDone,
         acb, walk
  <2>2. QED BY <1>2, <1>4, <2>1, FrameCalls DEF IInv
<1>6. Rings'
  BY <1>4, FrameRings DEF IInv, RefillDone, scan
<1>7. Queues'
  <2>1. /\ var' = var /\ owner' = owner /\ running' = running /\ rq' = rq
    BY DEF RefillDone, acb
  <2>2. \A g \in Harts : backlog'[g] \subseteq backlog[g]
    BY DEF IInv, TypeOK, ListsOK, RefillDone
  <2>3. QED
    BY <2>1, <2>2 DEF IInv, Queues
<1>8. Popped'
  BY <1>1, <1>2, <1>4, NoHartNotHart DEF IInv, Popped, Queues, Live, InContext,
       OwnCall, Calls, CallOf, TypeOK, ListsOK, ActorsOK, CallOK, RefillDone,
       acb
<1>9. Live'
  <2>1. InContext(h)' = InContext(h) /\ cur'[h] = cur[h]
    BY <1>1, <1>2 DEF InContext, CallOf, RefillDone, hart
  <2>2. QED
    BY <1>2, <1>4, <2>1, FrameLive DEF IInv, RefillDone, acb
<1>10. Switched'
  BY <1>1, <1>2, <1>4, FrameSwitched DEF IInv, CallOf
<1>11. QED BY <1>3, <1>5, <1>6, <1>7, <1>8, <1>9, <1>10 DEF IInv

\* deq: what it hands to the dispatch was queued, hence saved and the hart's own.
LEMMA PopStep ==
  ASSUME IInv, NEW h \in Harts, Pop(h), prog' = prog
  PROVE  IInv'
<1>1. /\ CallOK /\ CallOf(h) /\ pc[h] = "pop"
      /\ dying[h] \in Actors \cup {NoActor}
      /\ rq[h] \subseteq Actors
  BY DEF IInv, TypeOK, Calls, WalkOK, Pop, ListsOK
<1>0. PICK a \in rq[h] :
        /\ rq' = [rq EXCEPT ![h] = @ \ {a}]
        /\ \/ var[a] = "READY" /\ Start(h, "claim", a, "none")
           \/ var[a] = "DEAD" /\ Start(h, "reap", a, "pop")
           \/ var[a] = "BLOCKED" /\ UNCHANGED <<pc, hand, cont>>
  BY DEF Pop
<1>2. /\ pc' \in [Harts -> Labels] /\ cont' \in [Harts -> Conts]
      /\ hand' \in [Harts -> Actors \cup {NoActor}]
      /\ OwnCall(h)
      /\ \/ pc'[h] = "claim" /\ hand'[h] = a /\ cont'[h] = "none"
         \/ pc'[h] = "reap" /\ hand'[h] = a /\ cont'[h] = "pop"
         \/ UNCHANGED <<pc, hand, cont>>
  BY <1>0, <1>1 DEF Start, Goto, CallOK, CallOf, OwnCall, Labels, Conts
<1>3. TypeOK'
  <2>1. ListsOK'
    BY <1>0, <1>1 DEF IInv, TypeOK, ListsOK, Pop
  <2>2. CallOK'
    BY <1>1, <1>2 DEF CallOK, Pop
  <2>3. fell' \in [Harts -> SUBSET Actors]
    BY <1>1 DEF IInv, TypeOK, ScanOK, Pop
  <2>4. ScanOK'
    BY <2>3 DEF IInv, TypeOK, ScanOK, Pop
  <2>5. QED
    BY <2>1, <2>2, <2>4 DEF IInv, TypeOK, ActorsOK, MailOK, WalkOK, HartOK,
         Pop, acb, walk, hart, mbox
<1>4. OwnScan(h) /\ Grows
  BY <1>1, <1>2 DEF OwnScan, Grows, IInv, TypeOK, Pop, acb, walk, scan, hart,
       mbox
<1>5. Calls'
  <2>1. a \in Actors /\ var[a] # "NEW"
    BY <1>1 DEF IInv, Queues
  <2>2. var' = var /\ dying' = dying
    BY DEF Pop, acb, walk
  <2>3. CallOf(h)'
    BY <1>1, <1>2, <2>1, <2>2, NoActorNotActor DEF CallOf, CallOK
  <2>4. QED BY <1>2, <1>4, <2>3, FrameCalls DEF IInv
<1>6. Rings'
  BY <1>4, FrameRings DEF IInv, Pop, scan
<1>7. Queues'
  <2>1. /\ var' = var /\ owner' = owner /\ running' = running /\ backlog' = backlog
    BY DEF Pop, acb
  <2>2. \A g \in Harts : rq'[g] \subseteq rq[g]
    BY <1>0 DEF IInv, TypeOK, ListsOK
  <2>3. QED
    BY <2>1, <2>2 DEF IInv, Queues
<1>8. Popped'
  <2>1. /\ owner' = owner /\ running' = running /\ backlog' = backlog
        /\ rq'[h] = rq[h] \ {a} /\ \A g \in Harts \ {h} : rq'[g] = rq[g]
    BY <1>0 DEF Pop, acb, IInv, TypeOK, ListsOK
  <2>2. a \in Actors /\ owner[a] = h /\ running[a] = NoHart /\ a \notin backlog[h]
    BY <1>1 DEF IInv, Queues
  <2>3. pc'[h] = "claim" => hand'[h] = a
    BY <1>1, <1>2
  <2>4. QED
    BY <1>2, <2>1, <2>2, <2>3 DEF IInv, Popped, OwnCall
<1>9. Live'
  <2>1. InContext(h)' = InContext(h) /\ cur'[h] = cur[h]
    BY <1>1, <1>2 DEF InContext, CallOf, Pop, hart
  <2>2. QED
    BY <1>2, <1>4, <2>1, FrameLive DEF IInv, Pop, acb
<1>10. Switched'
  BY <1>1, <1>2, <1>4, FrameSwitched DEF IInv, CallOf
<1>11. QED BY <1>3, <1>5, <1>6, <1>7, <1>8, <1>9, <1>10 DEF IInv

\* the doorbell is cleared before the second look.
LEMMA LookAgainStep ==
  ASSUME IInv, NEW h \in Harts, LookAgain(h), prog' = prog
  PROVE  IInv'
<1>1. /\ CallOK /\ CallOf(h) /\ pc[h] = "pop"
      /\ dying[h] \in Actors \cup {NoActor}
  BY DEF IInv, TypeOK, Calls, WalkOK, LookAgain
<1>2. /\ pc' \in [Harts -> Labels] /\ cont' \in [Harts -> Conts]
      /\ hand' \in [Harts -> Actors \cup {NoActor}]
      /\ OwnCall(h)
      /\ pc'[h] = "drain" /\ UNCHANGED <<hand, cont>>
  BY <1>1, GotoOK DEF LookAgain, CallOK, CallOf, OwnCall, Labels, Conts, call
<1>3. TypeOK'
  <2>1. CallOK'
    BY <1>1, <1>2 DEF CallOK, LookAgain, call
  <2>2. ScanOK'
    BY <1>1 DEF IInv, TypeOK, ScanOK, Visit, Others, LookAgain
  <2>3. HartOK'
    BY <1>1 DEF IInv, TypeOK, HartOK, LookAgain
  <2>4. QED
    BY <2>1, <2>2, <2>3 DEF IInv, TypeOK, ActorsOK, MailOK, ListsOK, WalkOK,
         LookAgain, acb, lists, call, walk, mbox
<1>4. OwnScan(h) /\ Grows
  BY <1>1, <1>2 DEF OwnScan, Grows, IInv, TypeOK, LookAgain, acb, lists, call,
       walk, mbox
<1>5. CallOf(h)'
  BY <1>1, <1>2, <1>4, NoActorNotActor DEF CallOf, CallOK, Grows, LookAgain,
       acb, walk
<1>6. InContext(h)' = InContext(h) /\ cur'[h] = cur[h]
  BY <1>1, <1>2 DEF InContext, CallOf, LookAgain
<1>7. QED
  BY <1>1, <1>2, <1>3, <1>4, <1>5, <1>6, FrameAll DEF CallOf, LookAgain, acb, lists

\* the idle flag is raised.
LEMMA GoIdleStep ==
  ASSUME IInv, NEW h \in Harts, GoIdle(h), prog' = prog
  PROVE  IInv'
<1>1. /\ CallOK /\ CallOf(h) /\ pc[h] = "pop"
      /\ dying[h] \in Actors \cup {NoActor}
  BY DEF IInv, TypeOK, Calls, WalkOK, GoIdle
<1>2. /\ pc' \in [Harts -> Labels] /\ cont' \in [Harts -> Conts]
      /\ hand' \in [Harts -> Actors \cup {NoActor}]
      /\ OwnCall(h)
      /\ pc'[h] = "steal" /\ UNCHANGED <<hand, cont>>
  BY <1>1, GotoOK DEF GoIdle, CallOK, CallOf, OwnCall, Labels, Conts, call
<1>3. TypeOK'
  <2>1. CallOK'
    BY <1>1, <1>2 DEF CallOK, GoIdle, call
  <2>2. ScanOK'
    BY <1>1 DEF IInv, TypeOK, ScanOK, Visit, Others, GoIdle
  <2>3. HartOK'
    BY <1>1 DEF IInv, TypeOK, HartOK, GoIdle
  <2>4. QED
    BY <2>1, <2>2, <2>3 DEF IInv, TypeOK, ActorsOK, MailOK, ListsOK, WalkOK,
         GoIdle, acb, lists, call, walk, mbox
<1>4. OwnScan(h) /\ Grows
  BY <1>1, <1>2 DEF OwnScan, Grows, IInv, TypeOK, GoIdle, acb, lists, call,
       walk, mbox
<1>5. CallOf(h)'
  BY <1>1, <1>2, <1>4, NoActorNotActor DEF CallOf, CallOK, Grows, GoIdle,
       acb, walk
<1>6. InContext(h)' = InContext(h) /\ cur'[h] = cur[h]
  BY <1>1, <1>2 DEF InContext, CallOf, GoIdle
<1>7. QED
  BY <1>1, <1>2, <1>3, <1>4, <1>5, <1>6, FrameAll DEF CallOf, GoIdle, acb, lists

\* a thief takes over an entry nobody dispatches and nobody runs.
LEMMA StealFromStep ==
  ASSUME IInv, NEW h \in Harts, StealFrom(h), prog' = prog
  PROVE  IInv'
<1>1. /\ CallOK /\ CallOf(h) /\ pc[h] = "steal"
      /\ dying[h] \in Actors \cup {NoActor}
      /\ \A v \in Harts : backlog[v] \subseteq Actors
  BY DEF IInv, TypeOK, Calls, WalkOK, StealFrom, ListsOK
<1>0. PICK v \in Harts : \E a \in Stealable(v) :
        /\ backlog' = [backlog EXCEPT ![v] = @ \ {a}]
        /\ owner' = [owner EXCEPT ![a] = h]
        /\ Start(h, "add", a, "drain")
  BY DEF StealFrom
<1>a. PICK a \in Stealable(v) :
        /\ backlog' = [backlog EXCEPT ![v] = @ \ {a}]
        /\ owner' = [owner EXCEPT ![a] = h]
        /\ Start(h, "add", a, "drain")
  BY <1>0
<1>b. /\ a \in Actors /\ a \in backlog[v] /\ owner[a] = v
      /\ running[a] = NoHart /\ var[a] # "NEW"
      /\ \A g \in Harts : a \notin rq[g] /\ (a \in backlog[g] => g = v)
  BY <1>1 DEF Stealable, IInv, Queues
<1>2. /\ pc' \in [Harts -> Labels] /\ cont' \in [Harts -> Conts]
      /\ hand' \in [Harts -> Actors \cup {NoActor}]
      /\ OwnCall(h)
      /\ pc'[h] = "add" /\ hand'[h] = a /\ cont'[h] = "drain"
  BY <1>a, <1>b, <1>1 DEF Start, Goto, Labels, Conts, CallOK, OwnCall
<1>c. /\ var' = var /\ running' = running /\ rq' = rq /\ dying' = dying /\ cur' = cur
      /\ owner'[a] = h /\ \A b \in Actors \ {a} : owner'[b] = owner[b]
      /\ backlog'[v] = backlog[v] \ {a}
      /\ \A g \in Harts \ {v} : backlog'[g] = backlog[g]
  BY <1>a, <1>b DEF StealFrom, walk, IInv, TypeOK, ActorsOK, ListsOK
<1>3. TypeOK'
  <2>1. ActorsOK'
    BY <1>a, <1>b DEF IInv, TypeOK, ActorsOK, StealFrom
  <2>2. ListsOK'
    BY <1>a, <1>b DEF IInv, TypeOK, ListsOK, StealFrom
  <2>3. CallOK'
    BY <1>1, <1>2 DEF CallOK, StealFrom
  <2>4. ScanOK'
    BY <1>1, <1>2 DEF IInv, TypeOK, ScanOK, Visit, Others, StealFrom
  <2>5. HartOK'
    BY <1>1, <1>2 DEF IInv, TypeOK, HartOK, StealFrom
  <2>6. QED
    BY <2>1, <2>2, <2>3, <2>4, <2>5 DEF IInv, TypeOK, MailOK, WalkOK,
         StealFrom, mbox, walk
<1>4. OwnScan(h) /\ Grows
  BY <1>1, <1>2 DEF OwnScan, Grows, IInv, TypeOK, StealFrom, mbox, walk
<1>5. Calls'
  <2>1. CallOf(h)'
    BY <1>1, <1>2, <1>b, <1>c, NoActorNotActor DEF CallOf, CallOK
  <2>2. QED BY <1>2, <1>4, <2>1, FrameCalls DEF IInv
<1>6. Rings'
  BY <1>4, FrameRings DEF IInv, StealFrom
<1>7. Queues'
  BY <1>1, <1>b, <1>c DEF IInv, Queues
<1>8. Popped'
  <2>1. ASSUME NEW g \in Harts, pc'[g] = "claim"
        PROVE  /\ owner'[hand'[g]] = g /\ running'[hand'[g]] = NoHart
               /\ hand'[g] \notin backlog'[g] \cup rq'[g]
    <3>1. g # h /\ pc[g] = "claim" /\ hand'[g] = hand[g]
      BY <1>2, <2>1 DEF OwnCall
    <3>2. /\ hand[g] \in Actors /\ owner[hand[g]] = g /\ running[hand[g]] = NoHart
          /\ hand[g] \notin backlog[g] \cup rq[g]
      BY <3>1, HandIsActor DEF IInv, Popped
    <3>3. hand[g] # a
      BY <1>b, <3>2
    <3>4. QED BY <1>c, <3>1, <3>2, <3>3
  <2>2. QED BY <2>1 DEF Popped
<1>9. Live'
  <2>1. \A g \in Harts : InContext(g)' = InContext(g)
    BY <1>1, <1>2 DEF InContext, OwnCall
  <2>2. \A b \in Actors, g \in Harts : running[b] = g => b # a
    BY <1>b, NoHartNotHart
  <2>3. QED
    BY <1>c, <2>1, <2>2 DEF IInv, Live
<1>10. Switched'
  BY <1>1, <1>2, <1>4, FrameSwitched DEF IInv, CallOf
<1>11. QED BY <1>3, <1>5, <1>6, <1>7, <1>8, <1>9, <1>10 DEF IInv

\* a victim with nothing to take.
LEMMA StealMissStep ==
  ASSUME IInv, NEW h \in Harts, StealMiss(h), prog' = prog
  PROVE  IInv'
<1>1. /\ CallOK /\ CallOf(h) /\ pc[h] = "steal"
      /\ dying[h] \in Actors \cup {NoActor}
  BY DEF IInv, TypeOK, Calls, WalkOK, StealMiss
<1>2. /\ pc' \in [Harts -> Labels] /\ cont' \in [Harts -> Conts]
      /\ hand' \in [Harts -> Actors \cup {NoActor}]
      /\ OwnCall(h)
      /\ UNCHANGED <<pc, hand, cont>>
  BY <1>1 DEF StealMiss, CallOK, CallOf, OwnCall, Labels, Conts, call
<1>3. TypeOK'
  <2>1. CallOK'
    BY <1>1, <1>2 DEF CallOK, StealMiss, call
  <2>2. ScanOK'
    BY <1>1 DEF IInv, TypeOK, ScanOK, StealMiss
  <2>3. QED
    BY <2>1, <2>2 DEF IInv, TypeOK, ActorsOK, MailOK, ListsOK, WalkOK, HartOK,
         StealMiss, acb, lists, call, walk, hart, mbox
<1>4. OwnScan(h) /\ Grows
  BY <1>1, <1>2 DEF OwnScan, Grows, IInv, TypeOK, StealMiss, acb, lists, call,
       walk, hart, mbox
<1>5. CallOf(h)'
  BY <1>1, <1>2, <1>4, NoActorNotActor DEF CallOf, CallOK, Grows, StealMiss,
       acb, walk, Stealable
<1>6. InContext(h)' = InContext(h) /\ cur'[h] = cur[h]
  BY <1>1, <1>2 DEF InContext, CallOf, StealMiss, hart
<1>7. QED
  BY <1>1, <1>2, <1>3, <1>4, <1>5, <1>6, FrameAll DEF CallOf, StealMiss, acb, lists

\* a sleeping hart is rung.
LEMMA WfiBellStep ==
  ASSUME IInv, NEW h \in Harts, WfiBell(h), prog' = prog
  PROVE  IInv'
<1>1. /\ CallOK /\ CallOf(h) /\ pc[h] = "steal"
      /\ dying[h] \in Actors \cup {NoActor}
  BY DEF IInv, TypeOK, Calls, WalkOK, WfiBell, Asleep
<1>2. /\ pc' \in [Harts -> Labels] /\ cont' \in [Harts -> Conts]
      /\ hand' \in [Harts -> Actors \cup {NoActor}]
      /\ OwnCall(h)
      /\ pc'[h] = "drain" /\ UNCHANGED <<hand, cont>>
  BY <1>1, GotoOK DEF WfiBell, CallOK, CallOf, OwnCall, Labels, Conts, call
<1>3. TypeOK'
  <2>1. CallOK'
    BY <1>1, <1>2 DEF CallOK, WfiBell, call
  <2>2. ScanOK'
    BY <1>1 DEF IInv, TypeOK, ScanOK, Visit, Others, WfiBell
  <2>3. HartOK'
    BY <1>1 DEF IInv, TypeOK, HartOK, WfiBell
  <2>4. QED
    BY <2>1, <2>2, <2>3 DEF IInv, TypeOK, ActorsOK, MailOK, ListsOK, WalkOK,
         WfiBell, acb, lists, call, walk, mbox
<1>4. OwnScan(h) /\ Grows
  BY <1>1, <1>2 DEF OwnScan, Grows, IInv, TypeOK, WfiBell, acb, lists, call,
       walk, mbox
<1>5. CallOf(h)'
  BY <1>1, <1>2, <1>4, NoActorNotActor DEF CallOf, CallOK, Grows, WfiBell,
       acb, walk
<1>6. InContext(h)' = InContext(h) /\ cur'[h] = cur[h]
  BY <1>1, <1>2 DEF InContext, CallOf, WfiBell
<1>7. QED
  BY <1>1, <1>2, <1>3, <1>4, <1>5, <1>6, FrameAll DEF CallOf, WfiBell, acb, lists

\* the timer wakes hart 0.
LEMMA WfiTimerStep ==
  ASSUME IInv, NEW h \in Harts, WfiTimer(h), prog' = prog
  PROVE  IInv'
<1>1. /\ CallOK /\ CallOf(h) /\ pc[h] = "steal"
      /\ dying[h] \in Actors \cup {NoActor}
  BY DEF IInv, TypeOK, Calls, WalkOK, WfiTimer, Asleep
<1>2. /\ pc' \in [Harts -> Labels] /\ cont' \in [Harts -> Conts]
      /\ hand' \in [Harts -> Actors \cup {NoActor}]
      /\ OwnCall(h)
      /\ pc'[h] = "drain" /\ UNCHANGED <<hand, cont>>
  BY <1>1, GotoOK DEF WfiTimer, CallOK, CallOf, OwnCall, Labels, Conts, call
<1>3. TypeOK'
  <2>1. CallOK'
    BY <1>1, <1>2 DEF CallOK, WfiTimer, call
  <2>2. ScanOK'
    BY <1>1 DEF IInv, TypeOK, ScanOK, Visit, Others, WfiTimer
  <2>3. QED
    BY <2>1, <2>2 DEF IInv, TypeOK, ActorsOK, MailOK, ListsOK, WalkOK, HartOK,
         WfiTimer, acb, lists, call, walk, hart, mbox
<1>4. OwnScan(h) /\ Grows
  BY <1>1, <1>2 DEF OwnScan, Grows, IInv, TypeOK, WfiTimer, acb, lists, call,
       walk, hart, mbox
<1>5. CallOf(h)'
  BY <1>1, <1>2, <1>4, NoActorNotActor DEF CallOf, CallOK, Grows, WfiTimer,
       acb, walk
<1>6. InContext(h)' = InContext(h) /\ cur'[h] = cur[h]
  BY <1>1, <1>2 DEF InContext, CallOf, WfiTimer, hart
<1>7. QED
  BY <1>1, <1>2, <1>3, <1>4, <1>5, <1>6, FrameAll DEF CallOf, WfiTimer, acb, lists

\* dispatch: the running marker was clear, so double_run is not reached, and the
\* context becomes live on its owner and nowhere else.
LEMMA ClaimStep ==
  ASSUME IInv, NEW h \in Harts, Claim(h), prog' = prog
  PROVE  IInv'
<1>1. /\ CallOK /\ CallOf(h) /\ pc[h] = "claim"
      /\ dying[h] \in Actors \cup {NoActor}
      /\ hand[h] \in Actors /\ var[hand[h]] # "NEW"
      /\ running[hand[h]] = NoHart
  BY HandIsActor DEF IInv, TypeOK, Calls, WalkOK, Claim, Popped
<1>2. /\ pc' \in [Harts -> Labels] /\ cont' \in [Harts -> Conts]
      /\ hand' \in [Harts -> Actors \cup {NoActor}]
      /\ OwnCall(h)
      /\ pc'[h] \in {"run", "recv"} /\ hand'[h] = NoActor /\ cont'[h] = "none"
      /\ running' = [running EXCEPT ![hand[h]] = h]
  BY <1>1 DEF Start, Goto, Claim, CallOK, CallOf, OwnCall, Labels, Conts
<1>a. /\ var' = var /\ owner' = owner /\ backlog' = backlog /\ rq' = rq
      /\ cur' = [cur EXCEPT ![h] = hand[h]]
      /\ owner[hand[h]] = h /\ hand[h] \notin backlog[h] \cup rq[h]
      /\ \A b \in Actors \ {hand[h]} : running'[b] = running[b]
      /\ running'[hand[h]] = h
  BY <1>1, <1>2 DEF Claim, lists, IInv, Popped, TypeOK, ActorsOK
<1>3. TypeOK'
  <2>1. ActorsOK'
    BY <1>1, <1>2 DEF IInv, TypeOK, ActorsOK, Claim
  <2>2. CallOK'
    BY <1>1, <1>2 DEF CallOK, Claim
  <2>3. ScanOK'
    BY <1>1, <1>2 DEF IInv, TypeOK, ScanOK, Claim
  <2>4. HartOK'
    BY <1>1, <1>2 DEF IInv, TypeOK, HartOK, Claim
  <2>5. QED
    BY <2>1, <2>2, <2>3, <2>4 DEF IInv, TypeOK, MailOK, ListsOK, WalkOK, Claim,
         mbox, lists, walk
<1>4. OwnScan(h) /\ Grows
  BY <1>1, <1>2 DEF OwnScan, Grows, IInv, TypeOK, HartOK, Claim, mbox, lists,
       walk
<1>5. Calls'
  <2>1. CallOf(h)'
    BY <1>1, <1>2, <1>4, NoActorNotActor DEF CallOf, CallOK, Grows, Claim, walk
  <2>2. QED BY <1>2, <1>4, <2>1, FrameCalls DEF IInv
<1>6. Rings'
  BY <1>4, FrameRings DEF IInv, Claim, lists
<1>7. Queues'
  <2>1. \A g \in Harts : hand[h] \notin rq[g]
    BY <1>1, <1>a DEF IInv, Queues
  <2>2. QED
    BY <1>a, <2>1 DEF IInv, Queues
<1>8. Popped'
  <2>1. ASSUME NEW g \in Harts, pc'[g] = "claim"
        PROVE  /\ owner'[hand'[g]] = g /\ running'[hand'[g]] = NoHart
               /\ hand'[g] \notin backlog'[g] \cup rq'[g]
    <3>1. g # h /\ pc[g] = "claim" /\ hand'[g] = hand[g]
      BY <1>2, <2>1 DEF OwnCall
    <3>2. /\ hand[g] \in Actors /\ owner[hand[g]] = g /\ running[hand[g]] = NoHart
          /\ hand[g] \notin backlog[g] \cup rq[g]
      BY <3>1, HandIsActor DEF IInv, Popped
    <3>3. hand[g] # hand[h]
      BY <1>a, <3>1, <3>2
    <3>4. QED BY <1>a, <3>1, <3>2, <3>3
  <2>2. QED BY <2>1 DEF Popped
<1>9. Live'
  <2>1. /\ InContext(h)' /\ ~InContext(h)
        /\ \A g \in Harts \ {h} : InContext(g)' = InContext(g)
    BY <1>1, <1>2 DEF InContext, OwnCall
  <2>2. /\ cur'[h] = hand[h] /\ hand[h] # NoActor
        /\ \A g \in Harts \ {h} : cur'[g] = cur[g]
    BY <1>1, <1>a, NoActorNotActor DEF IInv, TypeOK, HartOK
  <2>3. \A g \in Harts \ {h} : InContext(g) => cur[g] # hand[h]
    BY <1>1, NoHartNotHart DEF IInv, Live
  <2>4. ASSUME NEW g \in Harts, InContext(g)'
        PROVE  cur'[g] # NoActor /\ running'[cur'[g]] = g
    <3>1. CASE g = h
      BY <1>a, <2>2, <3>1
    <3>2. CASE g # h
      <4>1. InContext(g) /\ cur'[g] = cur[g] /\ cur[g] # hand[h]
        BY <2>1, <2>2, <2>3, <2>4, <3>2
      <4>2. cur[g] \in Actors /\ cur[g] # NoActor /\ running[cur[g]] = g
        BY <4>1, NoActorNotActor, CurIsActor DEF IInv
      <4>3. QED BY <1>a, <4>1, <4>2
    <3>3. QED BY <3>1, <3>2
  <2>5. ASSUME NEW b \in Actors, NEW g \in Harts, running'[b] = g
        PROVE  InContext(g)' /\ cur'[g] = b /\ owner'[b] = g /\ var'[b] # "NEW"
    <3>1. CASE b = hand[h]
      BY <1>1, <1>a, <2>1, <2>2, <2>5, <3>1
    <3>2. CASE b # hand[h]
      <4>1. InContext(g) /\ cur[g] = b /\ owner[b] = g /\ var[b] # "NEW"
        BY <1>a, <2>5, <3>2 DEF IInv, Live
      <4>2. QED BY <1>a, <2>1, <2>2, <4>1
    <3>3. QED BY <3>1, <3>2
  <2>6. QED BY <2>4, <2>5 DEF Live
<1>10. Switched'
  BY <1>1, <1>2, <1>4, FrameSwitched DEF IInv, CallOf
<1>11. QED BY <1>3, <1>5, <1>6, <1>7, <1>8, <1>9, <1>10 DEF IInv

\* back on the loop's stack.
LEMMA AfterStep ==
  ASSUME IInv, NEW h \in Harts, After(h), prog' = prog
  PROVE  IInv'
<1>1. /\ CallOK /\ CallOf(h) /\ pc[h] = "after"
      /\ dying[h] \in Actors \cup {NoActor}
      /\ cur[h] \in Actors /\ var[cur[h]] # "NEW"
  BY DEF IInv, TypeOK, Calls, WalkOK, After, Switched, HartOK
<1>2. /\ pc' \in [Harts -> Labels] /\ cont' \in [Harts -> Conts]
      /\ hand' \in [Harts -> Actors \cup {NoActor}]
      /\ OwnCall(h)
      /\ \/ pc'[h] = "reap" /\ hand'[h] = cur[h] /\ cont'[h] = "drain"
         \/ pc'[h] = "drain" /\ UNCHANGED <<hand, cont>>
  BY <1>1 DEF Start, Goto, After, CallOK, CallOf, OwnCall, Labels, Conts
<1>3. TypeOK'
  <2>1. CallOK'
    BY <1>1, <1>2 DEF CallOK, After
  <2>2. ScanOK'
    BY <1>1 DEF IInv, TypeOK, ScanOK, Visit, Others, After
  <2>3. HartOK'
    BY <1>1 DEF IInv, TypeOK, HartOK, After
  <2>4. QED
    BY <2>1, <2>2, <2>3 DEF IInv, TypeOK, ActorsOK, MailOK, ListsOK, WalkOK,
         After, acb, lists, walk, mbox
<1>4. OwnScan(h) /\ Grows
  BY <1>1, <1>2 DEF OwnScan, Grows, IInv, TypeOK, HartOK, After, acb, lists,
       walk, mbox
<1>5. Calls'
  <2>1. CallOf(h)'
    BY <1>1, <1>2, <1>4, NoActorNotActor DEF CallOf, CallOK, Grows, After, acb,
         walk
  <2>2. QED BY <1>2, <1>4, <2>1, FrameCalls DEF IInv
<1>6. Rings'
  BY <1>4, FrameRings DEF IInv, After, lists
<1>7. Queues'
  BY <1>4, FrameQueues DEF IInv, After, acb, lists
<1>8. Popped'
  BY <1>1, <1>2, FramePopped DEF IInv, CallOf, After, acb, lists
<1>9. Live'
  BY SMTT(30), <1>1, <1>2, <1>4, NoHartNotHart DEF IInv, Popped, Live, Queues, InContext,
       OwnCall, OwnScan, Grows, TypeOK, ActorsOK, HartOK, After, acb, lists
<1>10. Switched'
  BY <1>1, <1>2, <1>4, FrameSwitched DEF IInv, CallOf
<1>11. QED BY <1>3, <1>5, <1>6, <1>7, <1>8, <1>9, <1>10 DEF IInv

\* reap looks at the running marker.
LEMMA ReapStep ==
  ASSUME IInv, NEW h \in Harts, Reap(h), prog' = prog
  PROVE  IInv'
<1>1. /\ CallOK /\ CallOf(h) /\ pc[h] = "reap"
      /\ dying[h] \in Actors \cup {NoActor}
      /\ hand[h] \in Actors /\ var[hand[h]] # "NEW"
  BY HandIsActor DEF IInv, TypeOK, Calls, WalkOK, Reap
<1>2. /\ pc' \in [Harts -> Labels] /\ cont' \in [Harts -> Conts]
      /\ hand' \in [Harts -> Actors \cup {NoActor}]
      /\ OwnCall(h)
      /\ \/ pc'[h] = "teardown" /\ UNCHANGED <<hand, cont>>
         \/ pc'[h] = cont[h] /\ hand'[h] = NoActor /\ cont'[h] = "none"
  BY <1>1, GotoOK, FinishOK DEF Reap, CallOK, CallOf, OwnCall, Labels, Conts
<1>3. TypeOK'
  <2>1. CallOK'
    BY <1>1, <1>2 DEF CallOK, Reap
  <2>2. QED
    BY <2>1 DEF IInv, TypeOK, ActorsOK, MailOK, ListsOK, WalkOK, ScanOK,
         HartOK, Reap, acb, lists, walk, scan, hart, mbox
<1>4. OwnScan(h) /\ Grows
  BY <1>1, <1>2 DEF OwnScan, Grows, IInv, TypeOK, Reap, acb, lists, walk, scan,
       hart, mbox
<1>5. CallOf(h)'
  BY <1>1, <1>2, <1>4, NoActorNotActor DEF CallOf, CallOK, Grows, Reap, acb,
       walk
<1>6. InContext(h)' = InContext(h) /\ cur'[h] = cur[h]
  BY <1>1, <1>2 DEF InContext, CallOf, Reap, hart
<1>7. QED
  BY <1>1, <1>2, <1>3, <1>4, <1>5, <1>6, FrameAll DEF CallOf, Reap, acb, lists, scan

\* reap releases the actor.
LEMMA TeardownStep ==
  ASSUME IInv, NEW h \in Harts, Teardown(h), prog' = prog
  PROVE  IInv'
<1>1. /\ CallOK /\ CallOf(h) /\ pc[h] = "teardown"
      /\ dying[h] \in Actors \cup {NoActor}
      /\ hand[h] \in Actors /\ var[hand[h]] # "NEW"
  BY HandIsActor DEF IInv, TypeOK, Calls, WalkOK, Teardown
<1>2. /\ pc' \in [Harts -> Labels] /\ cont' \in [Harts -> Conts]
      /\ hand' \in [Harts -> Actors \cup {NoActor}]
      /\ OwnCall(h)
      /\ pc'[h] = cont[h] /\ hand'[h] = NoActor /\ cont'[h] = "none"
  BY <1>1, FinishOK DEF Teardown, CallOK, CallOf, OwnCall, Labels, Conts
<1>3. TypeOK'
  <2>1. ActorsOK'
    BY <1>1 DEF IInv, TypeOK, ActorsOK, Teardown
  <2>2. CallOK'
    BY <1>1, <1>2 DEF CallOK, Teardown
  <2>3. QED
    BY <2>1, <2>2 DEF IInv, TypeOK, MailOK, ListsOK, WalkOK, ScanOK, HartOK,
         Teardown, mbox, lists, walk, scan, hart
<1>4. OwnScan(h) /\ Grows
  BY <1>1, <1>2 DEF OwnScan, Grows, IInv, TypeOK, Teardown, mbox, lists, walk,
       scan, hart
<1>5. CallOf(h)'
  BY <1>1, <1>2, <1>4, NoActorNotActor DEF CallOf, CallOK, Grows, Teardown,
       walk
<1>6. InContext(h)' = InContext(h) /\ cur'[h] = cur[h]
  BY <1>1, <1>2 DEF InContext, CallOf, Teardown, hart
<1>7. QED
  BY <1>1, <1>2, <1>3, <1>4, <1>5, <1>6, FrameAll DEF CallOf, Teardown, lists, scan

\* backlog_add lists an actor only with its owner, and once.
LEMMA AddStep ==
  ASSUME IInv, NEW h \in Harts, Add(h), prog' = prog
  PROVE  IInv'
<1>1. /\ CallOK /\ CallOf(h) /\ pc[h] = "add"
      /\ dying[h] \in Actors \cup {NoActor}
      /\ hand[h] \in Actors /\ var[hand[h]] # "NEW"
  BY HandIsActor DEF IInv, TypeOK, Calls, WalkOK, Add
<1>2. /\ pc' \in [Harts -> Labels] /\ cont' \in [Harts -> Conts]
      /\ hand' \in [Harts -> Actors \cup {NoActor}]
      /\ OwnCall(h)
      /\ \/ pc'[h] \in {"ship", "offer"} /\ UNCHANGED <<hand, cont>>
         \/ pc'[h] = cont[h] /\ hand'[h] = NoActor /\ cont'[h] = "none"
  BY <1>1, GotoOK, FinishOK DEF Add, CallOK, CallOf, OwnCall, Labels, Conts
<1>a. /\ var' = var /\ owner' = owner /\ running' = running /\ rq' = rq
      /\ \A g \in Harts \ {h} : backlog'[g] = backlog[g]
      /\ \/ backlog' = backlog
         \/ owner[hand[h]] = h /\ ~Listed(hand[h])
            /\ backlog'[h] = backlog[h] \cup {hand[h]}
  BY DEF Add, acb, IInv, TypeOK, ListsOK
<1>3. TypeOK'
  <2>1. ListsOK'
    <3>0. \/ backlog' = backlog
          \/ backlog' = [backlog EXCEPT ![h] = @ \cup {hand[h]}]
      BY DEF Add
    <3>1. backlog' \in [Harts -> SUBSET Actors]
      <4>1. /\ backlog \in [Harts -> SUBSET Actors]
            /\ backlog[h] \cup {hand[h]} \in SUBSET Actors
        BY <1>1 DEF IInv, TypeOK, ListsOK
      <4>2. QED BY <3>0, <4>1
    <3>2. rq' = rq /\ xr' = xr
      BY DEF Add
    <3>3. QED BY <3>1, <3>2 DEF IInv, TypeOK, ListsOK
  <2>2. CallOK'
    BY <1>1, <1>2 DEF CallOK, Add
  <2>3. QED
    BY <2>1, <2>2 DEF IInv, TypeOK, ActorsOK, MailOK, WalkOK, ScanOK, HartOK,
         Add, acb, walk, scan, hart, mbox
<1>4. OwnScan(h) /\ Grows
  BY <1>1, <1>2 DEF OwnScan, Grows, IInv, TypeOK, Add, acb, walk, scan, hart,
       mbox
<1>5. Calls'
  <2>1. CallOf(h)'
    BY <1>1, <1>2, <1>4, NoActorNotActor DEF CallOf, CallOK, Grows, Add, acb,
         walk
  <2>2. QED BY <1>2, <1>4, <2>1, FrameCalls DEF IInv
<1>6. Rings'
  BY <1>4, FrameRings DEF IInv, Add, scan
<1>7. Queues'
  BY <1>1, <1>a DEF IInv, Queues, Listed
<1>8. Popped'
  <2>1. pc'[h] # "claim"
    BY <1>1, <1>2 DEF CallOf
  <2>2. QED
    BY <1>2, <1>a, <2>1 DEF IInv, Popped, OwnCall
<1>9. Live'
  <2>1. InContext(h)' = InContext(h) /\ cur'[h] = cur[h]
    BY <1>1, <1>2 DEF InContext, CallOf, Add, hart
  <2>2. QED
    BY <1>2, <1>4, <2>1, FrameLive DEF IInv, Add, acb
<1>10. Switched'
  BY <1>1, <1>2, <1>4, FrameSwitched DEF IInv, CallOf
<1>11. QED BY <1>3, <1>5, <1>6, <1>7, <1>8, <1>9, <1>10 DEF IInv

\* an idle hart is rung.
LEMMA OfferStep ==
  ASSUME IInv, NEW h \in Harts, Offer(h), prog' = prog
  PROVE  IInv'
<1>1. /\ CallOK /\ CallOf(h) /\ pc[h] = "offer"
      /\ dying[h] \in Actors \cup {NoActor}
      /\ hand[h] \in Actors /\ var[hand[h]] # "NEW"
  BY HandIsActor DEF IInv, TypeOK, Calls, WalkOK, Offer
<1>2. /\ pc' \in [Harts -> Labels] /\ cont' \in [Harts -> Conts]
      /\ hand' \in [Harts -> Actors \cup {NoActor}]
      /\ OwnCall(h)
      /\ pc'[h] = cont[h] /\ hand'[h] = NoActor /\ cont'[h] = "none"
  BY <1>1, FinishOK DEF Offer, CallOK, CallOf, OwnCall, Labels, Conts
<1>3. TypeOK'
  <2>1. CallOK'
    BY <1>1, <1>2 DEF CallOK, Offer
  <2>2. HartOK'
    BY <1>1 DEF IInv, TypeOK, HartOK, Others, Offer
  <2>3. QED
    BY <2>1, <2>2 DEF IInv, TypeOK, ActorsOK, MailOK, ListsOK, WalkOK, ScanOK,
         Offer, acb, lists, walk, scan, mbox
<1>4. OwnScan(h) /\ Grows
  BY <1>1, <1>2 DEF OwnScan, Grows, IInv, TypeOK, Offer, acb, lists, walk,
       scan, mbox
<1>5. CallOf(h)'
  BY <1>1, <1>2, <1>4, NoActorNotActor DEF CallOf, CallOK, Grows, Offer, acb,
       walk
<1>6. InContext(h)' = InContext(h) /\ cur'[h] = cur[h]
  BY <1>1, <1>2 DEF InContext, CallOf, Offer
<1>7. QED
  BY <1>1, <1>2, <1>3, <1>4, <1>5, <1>6, FrameAll DEF CallOf, Offer, acb, lists, scan

\* ship reads the owner.
LEMMA ShipStep ==
  ASSUME IInv, NEW h \in Harts, Ship(h), prog' = prog
  PROVE  IInv'
<1>1. /\ CallOK /\ CallOf(h) /\ pc[h] = "ship"
      /\ dying[h] \in Actors \cup {NoActor}
      /\ hand[h] \in Actors /\ var[hand[h]] # "NEW"
  BY HandIsActor DEF IInv, TypeOK, Calls, WalkOK, Ship
<1>2. /\ pc' \in [Harts -> Labels] /\ cont' \in [Harts -> Conts]
      /\ hand' \in [Harts -> Actors \cup {NoActor}]
      /\ OwnCall(h)
      /\ pc'[h] \in {"add", "push"} /\ UNCHANGED <<hand, cont>>
  BY <1>1, GotoOK DEF Ship, CallOK, CallOf, OwnCall, Labels, Conts
<1>3. TypeOK'
  <2>1. CallOK'
    BY <1>1, <1>2 DEF CallOK, Ship, IInv, TypeOK, ActorsOK
  <2>2. QED
    BY <2>1 DEF IInv, TypeOK, ActorsOK, MailOK, ListsOK, WalkOK, ScanOK,
         HartOK, Ship, acb, lists, walk, scan, hart, mbox
<1>4. OwnScan(h) /\ Grows
  BY <1>1, <1>2 DEF OwnScan, Grows, IInv, TypeOK, Ship, acb, lists, walk, scan,
       hart, mbox
<1>5. CallOf(h)'
  BY <1>1, <1>2, <1>4, NoActorNotActor DEF CallOf, CallOK, Grows, Ship, acb,
       walk
<1>6. InContext(h)' = InContext(h) /\ cur'[h] = cur[h]
  BY <1>1, <1>2 DEF InContext, CallOf, Ship, hart
<1>7. QED
  BY <1>1, <1>2, <1>3, <1>4, <1>5, <1>6, FrameAll DEF CallOf, Ship, acb, lists, scan

\* xpush appends a spawned actor to a ring.
LEMMA PushStep ==
  ASSUME IInv, NEW h \in Harts, Push(h), prog' = prog
  PROVE  IInv'
<1>1. /\ CallOK /\ CallOf(h) /\ pc[h] = "push"
      /\ dying[h] \in Actors \cup {NoActor}
      /\ hand[h] \in Actors /\ var[hand[h]] # "NEW"
  BY HandIsActor DEF IInv, TypeOK, Calls, WalkOK, Push
<1>2. /\ pc' \in [Harts -> Labels] /\ cont' \in [Harts -> Conts]
      /\ hand' \in [Harts -> Actors \cup {NoActor}]
      /\ OwnCall(h)
      /\ pc'[h] = "ipi" /\ UNCHANGED <<hand, cont>>
  BY <1>1, GotoOK DEF Push, CallOK, CallOf, OwnCall, Labels, Conts, call
<1>3. TypeOK'
  <2>1. ListsOK'
    BY <1>1, AppendOK DEF IInv, TypeOK, CallOK, ListsOK, Push
  <2>2. CallOK'
    BY <1>1, <1>2 DEF CallOK, Push, call
  <2>3. QED
    BY <2>1, <2>2 DEF IInv, TypeOK, ActorsOK, MailOK, WalkOK, ScanOK, HartOK,
         Push, acb, call, walk, scan, hart, mbox
<1>4. OwnScan(h) /\ Grows
  BY <1>1, <1>2 DEF OwnScan, Grows, IInv, TypeOK, Push, acb, call, walk, scan,
       hart, mbox
<1>5. Calls'
  <2>1. CallOf(h)'
    BY <1>1, <1>2, <1>4, NoActorNotActor DEF CallOf, CallOK, Grows, Push, acb,
         walk
  <2>2. QED BY <1>2, <1>4, <2>1, FrameCalls DEF IInv
<1>6. Rings'
  <2>1. \A s, d \in Harts : xr[s][d] \in Seq(Actors)
    BY RingsTyped DEF IInv
  <2>2. \A s, d \in Harts :
          xr'[s][d] = IF s = h /\ d = tgt[h] THEN Append(xr[s][d], hand[h]) ELSE xr[s][d]
    BY <1>1 DEF IInv, TypeOK, ListsOK, CallOK, Push
  <2>3. ASSUME NEW s \in Harts, NEW d \in Harts, NEW i \in 1 .. Len(xr'[s][d])
        PROVE  var'[xr'[s][d][i]] # "NEW"
    <3>1. \/ xr'[s][d][i] = hand[h]
          \/ i \in 1 .. Len(xr[s][d]) /\ xr'[s][d][i] = xr[s][d][i]
      <4>1. CASE s = h /\ d = tgt[h]
        <5>1. xr'[s][d] = Append(xr[s][d], hand[h]) /\ xr[s][d] \in Seq(Actors)
          BY <2>1, <2>2, <4>1
        <5>2. QED BY <1>1, <2>3, <5>1, AppendOK
      <4>2. CASE ~(s = h /\ d = tgt[h])
        BY <2>2, <2>3, <4>2
      <4>3. QED BY <4>1, <4>2
    <3>2. \A j \in 1 .. Len(xr[s][d]) : xr[s][d][j] \in Actors /\ var[xr[s][d][j]] # "NEW"
      BY <2>1 DEF IInv, Rings
    <3>3. QED BY <1>1, <1>4, <3>1, <3>2 DEF Grows
  <2>4. ASSUME NEW g \in Harts
        PROVE  snap'[g] <= Len(xr'[src'[g]][g])
    <3>1. src' = src /\ snap' = snap /\ src[g] \in Harts /\ snap[g] \in Nat
      BY DEF IInv, TypeOK, ScanOK, Push, scan
    <3>2. snap[g] <= Len(xr[src[g]][g])
      BY DEF IInv, Rings
    <3>3. /\ Len(xr[src[g]][g]) \in Nat
          /\ Len(xr'[src[g]][g]) \in {Len(xr[src[g]][g]), Len(xr[src[g]][g]) + 1}
      <4>1. xr[src[g]][g] \in Seq(Actors)
        BY <2>1, <3>1
      <4>2. xr'[src[g]][g] \in {xr[src[g]][g], Append(xr[src[g]][g], hand[h])}
        BY <2>2, <3>1
      <4>3. QED BY <1>1, <4>1, <4>2, AppendOK
    <3>4. snap[g] <= Len(xr'[src[g]][g])
      BY ONLY <3>1, <3>2, <3>3, LeGrows
    <3>5. QED BY <3>1, <3>4
  <2>5. QED BY <2>3, <2>4 DEF Rings
<1>7. Queues'
  BY <1>4, FrameQueues DEF IInv, Push, acb
<1>8. Popped'
  BY <1>1, <1>2, FramePopped DEF IInv, CallOf, Push, acb
<1>9. Live'
  <2>1. InContext(h)' = InContext(h) /\ cur'[h] = cur[h]
    BY <1>1, <1>2 DEF InContext, CallOf, Push, hart
  <2>2. QED
    BY <1>2, <1>4, <2>1, FrameLive DEF IInv, Push, acb
<1>10. Switched'
  BY <1>1, <1>2, <1>4, FrameSwitched DEF IInv, CallOf
<1>11. QED BY <1>3, <1>5, <1>6, <1>7, <1>8, <1>9, <1>10 DEF IInv

\* the doorbell after the push.
LEMMA IpiStep ==
  ASSUME IInv, NEW h \in Harts, Ipi(h), prog' = prog
  PROVE  IInv'
<1>1. /\ CallOK /\ CallOf(h) /\ pc[h] = "ipi"
      /\ dying[h] \in Actors \cup {NoActor}
      /\ hand[h] \in Actors /\ var[hand[h]] # "NEW"
  BY HandIsActor DEF IInv, TypeOK, Calls, WalkOK, Ipi
<1>2. /\ pc' \in [Harts -> Labels] /\ cont' \in [Harts -> Conts]
      /\ hand' \in [Harts -> Actors \cup {NoActor}]
      /\ OwnCall(h)
      /\ pc'[h] = cont[h] /\ hand'[h] = NoActor /\ cont'[h] = "none"
  BY <1>1, FinishOK DEF Ipi, CallOK, CallOf, OwnCall, Labels, Conts
<1>3. TypeOK'
  <2>1. CallOK'
    BY <1>1, <1>2 DEF CallOK, Ipi
  <2>2. HartOK'
    BY <1>1 DEF IInv, TypeOK, HartOK, Ipi
  <2>3. QED
    BY <2>1, <2>2 DEF IInv, TypeOK, ActorsOK, MailOK, ListsOK, WalkOK, ScanOK,
         Ipi, acb, lists, walk, scan, mbox
<1>4. OwnScan(h) /\ Grows
  BY <1>1, <1>2 DEF OwnScan, Grows, IInv, TypeOK, Ipi, acb, lists, walk, scan,
       mbox
<1>5. CallOf(h)'
  BY <1>1, <1>2, <1>4, NoActorNotActor DEF CallOf, CallOK, Grows, Ipi, acb,
       walk
<1>6. InContext(h)' = InContext(h) /\ cur'[h] = cur[h]
  BY <1>1, <1>2 DEF InContext, CallOf, Ipi
<1>7. QED
  BY <1>1, <1>2, <1>3, <1>4, <1>5, <1>6, FrameAll DEF CallOf, Ipi, acb, lists, scan

\* wake: BLOCKED to READY.
LEMMA WakeStep ==
  ASSUME IInv, NEW h \in Harts, Wake(h), prog' = prog
  PROVE  IInv'
<1>1. /\ CallOK /\ CallOf(h) /\ pc[h] = "wake"
      /\ dying[h] \in Actors \cup {NoActor}
      /\ hand[h] \in Actors /\ var[hand[h]] # "NEW"
  BY HandIsActor DEF IInv, TypeOK, Calls, WalkOK, Wake
<1>2. /\ pc' \in [Harts -> Labels] /\ cont' \in [Harts -> Conts]
      /\ hand' \in [Harts -> Actors \cup {NoActor}]
      /\ OwnCall(h)
      /\ \/ pc'[h] = "ship" /\ UNCHANGED <<hand, cont>>
         \/ pc'[h] = cont[h] /\ hand'[h] = NoActor /\ cont'[h] = "none"
  BY <1>1, GotoOK, FinishOK DEF Wake, CallOK, CallOf, OwnCall, Labels, Conts
<1>3. TypeOK'
  <2>1. ActorsOK'
    BY <1>1 DEF IInv, TypeOK, ActorsOK, Wake
  <2>2. CallOK'
    BY <1>1, <1>2 DEF CallOK, Wake
  <2>3. QED
    BY <2>1, <2>2 DEF IInv, TypeOK, MailOK, ListsOK, WalkOK, ScanOK, HartOK,
         Wake, mbox, lists, walk, scan, hart
<1>4. OwnScan(h) /\ Grows
  BY <1>1, <1>2 DEF OwnScan, Grows, IInv, TypeOK, ActorsOK, Wake, mbox, lists,
       walk, scan, hart
<1>5. CallOf(h)'
  BY <1>1, <1>2, <1>4, NoActorNotActor DEF CallOf, CallOK, Grows, Wake, walk,
       IInv, TypeOK, ActorsOK
<1>6. InContext(h)' = InContext(h) /\ cur'[h] = cur[h]
  BY <1>1, <1>2 DEF InContext, CallOf, Wake, hart
<1>7. QED
  BY <1>1, <1>2, <1>3, <1>4, <1>5, <1>6, FrameAll DEF CallOf, Wake, lists, scan

\* the head of a receive.
LEMMA RecvLookStep ==
  ASSUME IInv, NEW h \in Harts, RecvLook(h), prog' = prog
  PROVE  IInv'
<1>1. /\ CallOK /\ CallOf(h) /\ pc[h] = "recv"
      /\ dying[h] \in Actors \cup {NoActor}
      /\ cur[h] \in Actors /\ var[cur[h]] # "NEW"
      /\ running[cur[h]] = h /\ owner[cur[h]] = h
  BY CurIsActor DEF IInv, TypeOK, Calls, WalkOK, RecvLook, InContext
<1>2. /\ pc' \in [Harts -> Labels] /\ cont' \in [Harts -> Conts]
      /\ hand' \in [Harts -> Actors \cup {NoActor}]
      /\ OwnCall(h)
      /\ pc'[h] \in {"run", "block"} /\ UNCHANGED <<hand, cont>>
  BY <1>1, GotoOK DEF RecvLook, CallOK, CallOf, OwnCall, Labels, Conts, call
<1>3. TypeOK'
  <2>1. MailOK'
    BY <1>1 DEF IInv, TypeOK, MailOK, RecvLook
  <2>2. CallOK'
    BY <1>1, <1>2 DEF CallOK, RecvLook, call
  <2>3. QED
    BY <2>1, <2>2 DEF IInv, TypeOK, ActorsOK, ListsOK, WalkOK, ScanOK, HartOK,
         RecvLook, lists, call, walk, scan, hart
<1>4. OwnScan(h) /\ Grows
  BY <1>1, <1>2 DEF OwnScan, Grows, IInv, TypeOK, RecvLook, lists, call, walk,
       scan, hart
<1>5. CallOf(h)'
  BY <1>1, <1>2, <1>4, NoActorNotActor DEF CallOf, CallOK, Grows, RecvLook,
       walk
<1>6. InContext(h)' = InContext(h) /\ cur'[h] = cur[h]
  BY <1>1, <1>2 DEF InContext, CallOf, RecvLook, hart
<1>7. QED
  BY <1>1, <1>2, <1>3, <1>4, <1>5, <1>6, FrameAll DEF CallOf, RecvLook, lists, scan

\* block_unless: READY to BLOCKED.
LEMMA BlockStep ==
  ASSUME IInv, NEW h \in Harts, Block(h), prog' = prog
  PROVE  IInv'
<1>1. /\ CallOK /\ CallOf(h) /\ pc[h] = "block"
      /\ dying[h] \in Actors \cup {NoActor}
      /\ cur[h] \in Actors /\ var[cur[h]] # "NEW"
      /\ running[cur[h]] = h /\ owner[cur[h]] = h
  BY CurIsActor DEF IInv, TypeOK, Calls, WalkOK, Block, InContext
<1>2. /\ pc' \in [Harts -> Labels] /\ cont' \in [Harts -> Conts]
      /\ hand' \in [Harts -> Actors \cup {NoActor}]
      /\ OwnCall(h)
      /\ pc'[h] \in {"recheck", "tosched"} /\ UNCHANGED <<hand, cont>>
  BY <1>1, GotoOK DEF Block, CallOK, CallOf, OwnCall, Labels, Conts, call
<1>3. TypeOK'
  <2>1. ActorsOK'
    BY <1>1 DEF IInv, TypeOK, ActorsOK, Block
  <2>2. CallOK'
    BY <1>1, <1>2 DEF CallOK, Block, call
  <2>3. QED
    BY <2>1, <2>2 DEF IInv, TypeOK, MailOK, ListsOK, WalkOK, ScanOK, HartOK,
         Block, mbox, lists, call, walk, scan, hart
<1>4. OwnScan(h) /\ Grows
  BY <1>1, <1>2 DEF OwnScan, Grows, IInv, TypeOK, ActorsOK, Block, mbox, lists,
       call, walk, scan, hart
<1>5. CallOf(h)'
  BY <1>1, <1>2, <1>4, NoActorNotActor DEF CallOf, CallOK, Grows, Block,
       walk, IInv, TypeOK, ActorsOK
<1>6. InContext(h)' = InContext(h) /\ cur'[h] = cur[h]
  BY <1>1, <1>2 DEF InContext, CallOf, Block, hart
<1>7. QED
  BY <1>1, <1>2, <1>3, <1>4, <1>5, <1>6, FrameAll DEF CallOf, Block, lists, scan

\* block_unless: the second look.
LEMMA RecheckStep ==
  ASSUME IInv, NEW h \in Harts, Recheck(h), prog' = prog
  PROVE  IInv'
<1>1. /\ CallOK /\ CallOf(h) /\ pc[h] = "recheck"
      /\ dying[h] \in Actors \cup {NoActor}
      /\ cur[h] \in Actors /\ var[cur[h]] # "NEW"
      /\ running[cur[h]] = h /\ owner[cur[h]] = h
  BY CurIsActor DEF IInv, TypeOK, Calls, WalkOK, Recheck, InContext
<1>2. /\ pc' \in [Harts -> Labels] /\ cont' \in [Harts -> Conts]
      /\ hand' \in [Harts -> Actors \cup {NoActor}]
      /\ OwnCall(h)
      /\ pc'[h] \in {"recv", "tosched"} /\ UNCHANGED <<hand, cont>>
  BY <1>1, GotoOK DEF Recheck, CallOK, CallOf, OwnCall, Labels, Conts, call
<1>3. TypeOK'
  <2>1. ActorsOK'
    BY <1>1 DEF IInv, TypeOK, ActorsOK, Recheck
  <2>2. CallOK'
    BY <1>1, <1>2 DEF CallOK, Recheck, call
  <2>3. QED
    BY <2>1, <2>2 DEF IInv, TypeOK, MailOK, ListsOK, WalkOK, ScanOK, HartOK,
         Recheck, mbox, lists, call, walk, scan, hart
<1>4. OwnScan(h) /\ Grows
  BY <1>1, <1>2 DEF OwnScan, Grows, IInv, TypeOK, ActorsOK, Recheck, mbox,
       lists, call, walk, scan, hart
<1>5. CallOf(h)'
  BY <1>1, <1>2, <1>4, NoActorNotActor DEF CallOf, CallOK, Grows, Recheck,
       walk, IInv, TypeOK, ActorsOK
<1>6. InContext(h)' = InContext(h) /\ cur'[h] = cur[h]
  BY <1>1, <1>2 DEF InContext, CallOf, Recheck, hart
<1>7. QED
  BY <1>1, <1>2, <1>3, <1>4, <1>5, <1>6, FrameAll DEF CallOf, Recheck, lists, scan

\* wake_watchers looks at one actor.
LEMMA WalkStepStep ==
  ASSUME IInv, NEW h \in Harts, WalkStep(h), prog' = prog
  PROVE  IInv'
<1>1. /\ CallOK /\ CallOf(h) /\ pc[h] = "walk"
      /\ dying[h] \in Actors \cup {NoActor}
      /\ cur[h] \in Actors /\ var[cur[h]] # "NEW"
      /\ running[cur[h]] = h /\ owner[cur[h]] = h
  BY CurIsActor DEF IInv, TypeOK, Calls, WalkOK, WalkStep, InContext
<1>2. /\ pc' \in [Harts -> Labels] /\ cont' \in [Harts -> Conts]
      /\ hand' \in [Harts -> Actors \cup {NoActor}]
      /\ OwnCall(h)
      /\ \/ \E w \in Born : pc'[h] = "wake" /\ hand'[h] = w /\ cont'[h] = "walk"
         \/ UNCHANGED <<pc, hand, cont>>
  BY <1>1 DEF Start, Goto, WalkStep, CallOK, CallOf, OwnCall, Labels, Conts, Born
<1>3. TypeOK'
  <2>1. CallOK'
    BY <1>1, <1>2 DEF CallOK, WalkStep
  <2>2. ScanOK'
    BY <1>1 DEF IInv, TypeOK, ScanOK, Born, WalkStep
  <2>3. QED
    BY <2>1, <2>2 DEF IInv, TypeOK, ActorsOK, MailOK, ListsOK, WalkOK, HartOK,
         WalkStep, acb, lists, walk, hart, mbox
<1>4. OwnScan(h) /\ Grows
  BY <1>1, <1>2 DEF OwnScan, Grows, IInv, TypeOK, WalkStep, acb, lists, walk,
       hart, mbox
<1>5. CallOf(h)'
  BY <1>1, <1>2, <1>4, NoActorNotActor DEF CallOf, CallOK, Grows, WalkStep,
       acb, walk, Born
<1>6. InContext(h)' = InContext(h) /\ cur'[h] = cur[h]
  BY <1>1, <1>2 DEF InContext, CallOf, WalkStep, hart
<1>7. QED
  BY <1>1, <1>2, <1>3, <1>4, <1>5, <1>6, FrameAll DEF CallOf, WalkStep, acb, lists

\* wake_watchers is over.
LEMMA WalkDoneStep ==
  ASSUME IInv, NEW h \in Harts, WalkDone(h), prog' = prog
  PROVE  IInv'
<1>1. /\ CallOK /\ CallOf(h) /\ pc[h] = "walk"
      /\ dying[h] \in Actors \cup {NoActor}
      /\ cur[h] \in Actors /\ var[cur[h]] # "NEW"
      /\ running[cur[h]] = h /\ owner[cur[h]] = h
      /\ dying[h] \in Actors /\ then[h] \in {"run", "ship", "tosched"}
  BY CurIsActor DEF IInv, TypeOK, Calls, WalkOK, WalkDone, InContext, CallOf
<1>2. /\ pc' \in [Harts -> Labels] /\ cont' \in [Harts -> Conts]
      /\ hand' \in [Harts -> Actors \cup {NoActor}]
      /\ OwnCall(h)
      /\ \/ pc'[h] = "ship" /\ hand'[h] = dying[h] /\ cont'[h] = "run"
         \/ pc'[h] \in {"run", "tosched"} /\ UNCHANGED <<hand, cont>>
  BY <1>1 DEF Start, Goto, WalkDone, CallOK, CallOf, OwnCall, Labels, Conts
<1>3. TypeOK'
  <2>1. CallOK'
    BY <1>1, <1>2 DEF CallOK, WalkDone
  <2>2. WalkOK'
    BY <1>1 DEF IInv, TypeOK, WalkOK, WalkDone
  <2>3. QED
    BY <2>1, <2>2 DEF IInv, TypeOK, ActorsOK, MailOK, ListsOK, ScanOK, HartOK,
         WalkDone, acb, lists, scan, hart, mbox
<1>4. OwnScan(h) /\ Grows
  BY <1>1, <1>2 DEF OwnScan, Grows, IInv, TypeOK, WalkOK, WalkDone, acb, lists,
       scan, hart, mbox
<1>5. CallOf(h)'
  BY <1>1, <1>2, <1>4, NoActorNotActor DEF CallOf, CallOK, Grows, WalkDone,
       acb
<1>6. InContext(h)' = InContext(h) /\ cur'[h] = cur[h]
  BY <1>1, <1>2 DEF InContext, CallOf, WalkDone, hart
<1>7. QED
  BY <1>1, <1>2, <1>3, <1>4, <1>5, <1>6, FrameAll DEF CallOf, WalkDone, acb, lists, scan

\* the context is saved and its running marker dropped: the hart leaves it in the
\* same step.
LEMMA ToSchedStep ==
  ASSUME IInv, NEW h \in Harts, ToSched(h), prog' = prog
  PROVE  IInv'
<1>1. /\ CallOK /\ CallOf(h) /\ pc[h] = "tosched"
      /\ dying[h] \in Actors \cup {NoActor}
      /\ cur[h] \in Actors /\ var[cur[h]] # "NEW"
      /\ running[cur[h]] = h /\ owner[cur[h]] = h
  BY CurIsActor DEF IInv, TypeOK, Calls, WalkOK, ToSched, InContext
<1>2. /\ pc' \in [Harts -> Labels] /\ cont' \in [Harts -> Conts]
      /\ hand' \in [Harts -> Actors \cup {NoActor}]
      /\ OwnCall(h)
      /\ pc'[h] = "after" /\ UNCHANGED <<hand, cont>>
  BY <1>1, GotoOK DEF ToSched, CallOK, CallOf, OwnCall, Labels, Conts, call
<1>3. TypeOK'
  <2>1. ActorsOK'
    BY <1>1 DEF IInv, TypeOK, ActorsOK, ToSched
  <2>2. CallOK'
    BY <1>1, <1>2 DEF CallOK, ToSched, call
  <2>3. QED
    BY <2>1, <2>2 DEF IInv, TypeOK, MailOK, ListsOK, WalkOK, ScanOK, HartOK,
         ToSched, mbox, lists, call, walk, scan, hart
<1>4. OwnScan(h) /\ Grows
  BY <1>1, <1>2 DEF OwnScan, Grows, IInv, TypeOK, ToSched, mbox, lists, call,
       walk, scan, hart
<1>5. Calls'
  <2>1. CallOf(h)'
    BY <1>1, <1>2, <1>4, NoActorNotActor DEF CallOf, CallOK, Grows, ToSched,
         walk
  <2>2. QED BY <1>2, <1>4, <2>1, FrameCalls DEF IInv
<1>6. Rings'
  BY <1>4, FrameRings DEF IInv, ToSched, lists, scan
<1>7. Queues'
  <2>1. /\ owner' = owner /\ var' = var /\ backlog' = backlog /\ rq' = rq
        /\ \A a \in Actors : running'[a] = running[a] \/ running'[a] = NoHart
    BY <1>1 DEF IInv, TypeOK, ActorsOK, ToSched, lists
  <2>2. QED BY <2>1 DEF IInv, Queues
<1>8. Popped'
  BY <1>1, <1>2, <1>4, NoHartNotHart DEF IInv, Popped, Queues, Live, InContext,
       OwnCall, Calls, CallOf, TypeOK, ListsOK, ActorsOK, CallOK, ToSched,
       lists
<1>9. Live'
  BY SMTT(30), <1>1, <1>2, <1>4, NoHartNotHart DEF IInv, Popped, Live, Queues, InContext,
       OwnCall, OwnScan, Grows, TypeOK, ActorsOK, HartOK, ToSched, lists
<1>10. Switched'
  <2>1. cur' = cur /\ var' = var
    BY DEF ToSched, hart
  <2>2. QED
    BY <1>1, <1>2, <2>1, NoActorNotActor DEF IInv, Switched, OwnCall
<1>11. QED BY <1>3, <1>5, <1>6, <1>7, <1>8, <1>9, <1>10 DEF IInv

\* a yield or a fuel preemption re-lists the running actor.
LEMMA YieldStep ==
  ASSUME IInv, NEW h \in Harts, Yield(h), prog' = prog
  PROVE  IInv'
<1>1. /\ CallOK /\ CallOf(h) /\ pc[h] = "run"
      /\ dying[h] \in Actors \cup {NoActor}
      /\ cur[h] \in Actors /\ var[cur[h]] # "NEW"
      /\ running[cur[h]] = h /\ owner[cur[h]] = h
  BY CurIsActor DEF IInv, TypeOK, Calls, WalkOK, Yield, Runs, InContext
<1>2. /\ pc' \in [Harts -> Labels] /\ cont' \in [Harts -> Conts]
      /\ hand' \in [Harts -> Actors \cup {NoActor}]
      /\ OwnCall(h)
      /\ pc'[h] = "add" /\ hand'[h] = cur[h] /\ cont'[h] = "tosched"
  BY <1>1 DEF Start, Goto, Yield, CallOK, CallOf, OwnCall, Labels, Conts
<1>3. TypeOK'
  <2>1. CallOK'
    BY <1>1, <1>2 DEF CallOK, Yield
  <2>2. QED
    BY <2>1 DEF IInv, TypeOK, ActorsOK, MailOK, ListsOK, WalkOK, ScanOK,
         HartOK, Yield, acb, lists, walk, scan, hart, mbox
<1>4. OwnScan(h) /\ Grows
  BY <1>1, <1>2 DEF OwnScan, Grows, IInv, TypeOK, Yield, acb, lists, walk,
       scan, hart, mbox
<1>5. CallOf(h)'
  BY <1>1, <1>2, <1>4, NoActorNotActor DEF CallOf, CallOK, Grows, Yield, acb,
       walk
<1>6. InContext(h)' = InContext(h) /\ cur'[h] = cur[h]
  BY <1>1, <1>2 DEF InContext, CallOf, Yield, hart
<1>7. QED
  BY <1>1, <1>2, <1>3, <1>4, <1>5, <1>6, FrameAll DEF CallOf, Yield, acb, lists, scan

\* a send.
LEMMA SendStep ==
  ASSUME IInv, NEW h \in Harts, Send(h), prog' = prog
  PROVE  IInv'
<1>1. /\ CallOK /\ CallOf(h) /\ pc[h] = "run"
      /\ dying[h] \in Actors \cup {NoActor}
      /\ cur[h] \in Actors /\ var[cur[h]] # "NEW"
      /\ running[cur[h]] = h /\ owner[cur[h]] = h
  BY CurIsActor DEF IInv, TypeOK, Calls, WalkOK, Send, Runs, InContext
<1>2. /\ pc' \in [Harts -> Labels] /\ cont' \in [Harts -> Conts]
      /\ hand' \in [Harts -> Actors \cup {NoActor}]
      /\ OwnCall(h)
      /\ \E b \in Born : pc'[h] = "wake" /\ hand'[h] = b /\ cont'[h] = "run"
  BY <1>1 DEF Start, Goto, Send, CallOK, CallOf, OwnCall, Labels, Conts, Born
<1>3. TypeOK'
  <2>1. MailOK'
    BY <1>1 DEF IInv, TypeOK, MailOK, Born, Send
  <2>2. CallOK'
    BY <1>1, <1>2 DEF CallOK, Send
  <2>3. QED
    BY <2>1, <2>2 DEF IInv, TypeOK, ActorsOK, ListsOK, WalkOK, ScanOK, HartOK,
         Send, lists, walk, scan, hart
<1>4. OwnScan(h) /\ Grows
  BY <1>1, <1>2 DEF OwnScan, Grows, IInv, TypeOK, Send, lists, walk, scan, hart
<1>5. CallOf(h)'
  BY <1>1, <1>2, <1>4, NoActorNotActor DEF CallOf, CallOK, Grows, Send, walk,
       Born
<1>6. InContext(h)' = InContext(h) /\ cur'[h] = cur[h]
  BY <1>1, <1>2 DEF InContext, CallOf, Send, hart
<1>7. QED
  BY <1>1, <1>2, <1>3, <1>4, <1>5, <1>6, FrameAll DEF CallOf, Send, lists, scan

\* a receive starts.
LEMMA ReceiveStep ==
  ASSUME IInv, NEW h \in Harts, Receive(h), prog' = prog
  PROVE  IInv'
<1>1. /\ CallOK /\ CallOf(h) /\ pc[h] = "run"
      /\ dying[h] \in Actors \cup {NoActor}
      /\ cur[h] \in Actors /\ var[cur[h]] # "NEW"
      /\ running[cur[h]] = h /\ owner[cur[h]] = h
  BY CurIsActor DEF IInv, TypeOK, Calls, WalkOK, Receive, Runs, InContext
<1>2. /\ pc' \in [Harts -> Labels] /\ cont' \in [Harts -> Conts]
      /\ hand' \in [Harts -> Actors \cup {NoActor}]
      /\ OwnCall(h)
      /\ pc'[h] = "recv" /\ UNCHANGED <<hand, cont>>
  BY <1>1, GotoOK DEF Receive, CallOK, CallOf, OwnCall, Labels, Conts, call
<1>3. TypeOK'
  <2>1. MailOK'
    BY <1>1 DEF IInv, TypeOK, MailOK, Born, Receive
  <2>2. CallOK'
    BY <1>1, <1>2 DEF CallOK, Receive, call
  <2>3. QED
    BY <2>1, <2>2 DEF IInv, TypeOK, ActorsOK, ListsOK, WalkOK, ScanOK, HartOK,
         Receive, lists, call, walk, scan, hart
<1>4. OwnScan(h) /\ Grows
  BY <1>1, <1>2 DEF OwnScan, Grows, IInv, TypeOK, Receive, lists, call, walk,
       scan, hart
<1>5. CallOf(h)'
  BY <1>1, <1>2, <1>4, NoActorNotActor DEF CallOf, CallOK, Grows, Receive,
       walk, Born
<1>6. InContext(h)' = InContext(h) /\ cur'[h] = cur[h]
  BY <1>1, <1>2 DEF InContext, CallOf, Receive, hart
<1>7. QED
  BY <1>1, <1>2, <1>3, <1>4, <1>5, <1>6, FrameAll DEF CallOf, Receive, lists, scan

\* a new actor: no hart, queue or ring knows it yet.
LEMMA SpawnStep ==
  ASSUME IInv, NEW h \in Harts, Spawn(h), prog' = prog
  PROVE  IInv'
<1>1. /\ CallOK /\ CallOf(h) /\ pc[h] = "run"
      /\ dying[h] \in Actors \cup {NoActor}
      /\ cur[h] \in Actors /\ var[cur[h]] # "NEW"
      /\ running[cur[h]] = h /\ owner[cur[h]] = h
  BY CurIsActor DEF IInv, TypeOK, Calls, WalkOK, Spawn, Runs, InContext
<1>0. PICK a \in Actors \ Born :
        /\ \E d \in Harts : owner' = [owner EXCEPT ![a] = d]
        /\ var' = [var EXCEPT ![a] = "READY"]
        /\ Start(h, "ship", a, "run")
  BY <1>1 DEF Spawn
<1>a. /\ a \in Actors /\ var[a] = "NEW" /\ var'[a] = "READY"
      /\ \A b \in Actors \ {a} : var'[b] = var[b] /\ owner'[b] = owner[b]
      /\ running' = running /\ backlog' = backlog /\ rq' = rq
      /\ cur' = cur /\ dying' = dying
  BY <1>0 DEF Born, Spawn, lists, hart, walk, IInv, TypeOK, ActorsOK
<1>2. /\ pc' \in [Harts -> Labels] /\ cont' \in [Harts -> Conts]
      /\ hand' \in [Harts -> Actors \cup {NoActor}]
      /\ OwnCall(h)
      /\ pc'[h] = "ship" /\ hand'[h] = a /\ cont'[h] = "run"
  BY <1>0, <1>1 DEF Start, Goto, Labels, Conts, CallOK, OwnCall
<1>3. TypeOK'
  <2>1. ActorsOK'
    BY <1>0 DEF IInv, TypeOK, ActorsOK, Spawn
  <2>2. CallOK'
    BY <1>1, <1>2 DEF CallOK, Spawn
  <2>3. QED
    BY <2>1, <2>2 DEF IInv, TypeOK, MailOK, ListsOK, WalkOK, ScanOK, HartOK,
         Spawn, mbox, lists, walk, scan, hart
<1>4. OwnScan(h) /\ Grows
  BY <1>a DEF OwnScan, Grows, Spawn, scan
<1>5. Calls'
  <2>1. CallOf(h)'
    BY <1>1, <1>2, <1>4, <1>a, NoActorNotActor DEF CallOf, CallOK, Grows
  <2>2. QED BY <1>2, <1>4, <2>1, FrameCalls DEF IInv
<1>6. Rings'
  BY <1>4, FrameRings DEF IInv, Spawn, lists, scan
<1>7. Queues'
  BY <1>4, <1>a DEF IInv, Queues, Grows
<1>8. Popped'
  <2>1. ASSUME NEW g \in Harts, pc'[g] = "claim"
        PROVE  /\ owner'[hand'[g]] = g /\ running'[hand'[g]] = NoHart
               /\ hand'[g] \notin backlog'[g] \cup rq'[g]
    <3>1. g # h /\ pc[g] = "claim" /\ hand'[g] = hand[g]
      BY <1>2, <2>1 DEF OwnCall
    <3>2. hand[g] \in Actors /\ hand[g] # a
      BY <1>a, <3>1, HandIsActor DEF IInv
    <3>3. QED BY <1>a, <3>1, <3>2 DEF IInv, Popped
  <2>2. QED BY <2>1 DEF Popped
<1>9. Live'
  <2>1. \A g \in Harts : InContext(g)' = InContext(g)
    BY <1>1, <1>2 DEF InContext, OwnCall
  <2>2. QED
    BY <1>a, <1>4, <2>1 DEF IInv, Live, Grows
<1>10. Switched'
  BY <1>1, <1>2, <1>4, FrameSwitched DEF IInv, CallOf
<1>11. QED BY <1>3, <1>5, <1>6, <1>7, <1>8, <1>9, <1>10 DEF IInv

\* an actor kills another, or itself.
LEMMA KillStep ==
  ASSUME IInv, NEW h \in Harts, Kill(h), prog' = prog
  PROVE  IInv'
<1>1. /\ CallOK /\ CallOf(h) /\ pc[h] = "run"
      /\ dying[h] \in Actors \cup {NoActor}
      /\ cur[h] \in Actors /\ var[cur[h]] # "NEW"
      /\ running[cur[h]] = h /\ owner[cur[h]] = h
  BY CurIsActor DEF IInv, TypeOK, Calls, WalkOK, Kill, Runs, InContext
<1>0. PICK v \in Born \ {Main} :
        /\ var' = [var EXCEPT ![v] = "DEAD"]
        /\ dying' = [dying EXCEPT ![h] = v]
        /\ then' \in [Harts -> {"run", "ship", "tosched"}]
        /\ todo' = [todo EXCEPT ![h] = Born]
        /\ Goto(h, "walk")
        /\ UNCHANGED <<owner, running, mbox, reaped, lists, call, src, snap, pass,
                       fell, hart>>
  <2>1. PICK v \in Born \ {Main} :
          Die(h, v, IF v = cur[h] THEN "tosched"
                    ELSE IF var[v] = "BLOCKED" THEN "ship" ELSE "run")
    BY DEF Kill
  <2>2. PICK k \in {"run", "ship", "tosched"} : Die(h, v, k)
    BY <2>1
  <2>3. QED
    BY <2>2 DEF Die, IInv, TypeOK, WalkOK
<1>2. /\ pc' \in [Harts -> Labels] /\ cont' \in [Harts -> Conts]
      /\ hand' \in [Harts -> Actors \cup {NoActor}]
      /\ OwnCall(h)
      /\ pc'[h] = "walk" /\ UNCHANGED <<hand, cont>>
  BY <1>0, <1>1, GotoOK DEF CallOK, OwnCall, Labels, call
<1>3. TypeOK'
  <2>1. ActorsOK'
    BY <1>0 DEF IInv, TypeOK, ActorsOK
  <2>2. CallOK'
    BY <1>0, <1>1, <1>2 DEF CallOK, call
  <2>3. WalkOK'
    BY <1>0 DEF IInv, TypeOK, WalkOK, Born
  <2>4. ScanOK'
    BY <1>0 DEF IInv, TypeOK, ScanOK, Born
  <2>5. QED
    BY <1>0, <2>1, <2>2, <2>3, <2>4 DEF IInv, TypeOK, MailOK, ListsOK, HartOK,
         mbox, lists, hart
<1>4. OwnScan(h) /\ Grows
  BY <1>0 DEF OwnScan, Grows, IInv, TypeOK, ActorsOK, WalkOK, hart
<1>5a. v \in Actors /\ var'[v] = "DEAD" /\ dying'[h] = v
  BY <1>0 DEF Born, IInv, TypeOK, ActorsOK, WalkOK
<1>5. CallOf(h)'
  BY <1>1, <1>2, <1>4, <1>5a, NoActorNotActor DEF CallOf, CallOK, Grows
<1>6. InContext(h)' = InContext(h) /\ cur'[h] = cur[h]
  BY <1>1, <1>2 DEF InContext, CallOf, Kill, hart, Die
<1>7. QED
  BY <1>0, <1>1, <1>2, <1>3, <1>4, <1>5, <1>6, FrameAll DEF CallOf, Kill, lists, Die

\* an actor's body returns.
LEMMA ReturnStep ==
  ASSUME IInv, NEW h \in Harts, Return(h), prog' = prog
  PROVE  IInv'
<1>1. /\ CallOK /\ CallOf(h) /\ pc[h] = "run"
      /\ dying[h] \in Actors \cup {NoActor}
      /\ cur[h] \in Actors /\ var[cur[h]] # "NEW"
      /\ running[cur[h]] = h /\ owner[cur[h]] = h
  BY CurIsActor DEF IInv, TypeOK, Calls, WalkOK, Return, Runs, InContext
<1>2. /\ pc' \in [Harts -> Labels] /\ cont' \in [Harts -> Conts]
      /\ hand' \in [Harts -> Actors \cup {NoActor}]
      /\ OwnCall(h)
      /\ pc'[h] = "walk" /\ UNCHANGED <<hand, cont>>
  BY <1>1, GotoOK DEF Return, Die, CallOK, CallOf, OwnCall, Labels, Conts, call
<1>3. TypeOK'
  <2>1. ActorsOK'
    BY <1>1 DEF IInv, TypeOK, ActorsOK, Return, Die
  <2>2. CallOK'
    BY <1>1, <1>2 DEF CallOK, Return, Die, call
  <2>3. WalkOK'
    BY <1>1 DEF IInv, TypeOK, WalkOK, Return, Die
  <2>4. ScanOK'
    BY <1>1 DEF IInv, TypeOK, ScanOK, Born, Return, Die
  <2>5. QED
    BY <2>1, <2>2, <2>3, <2>4 DEF IInv, TypeOK, MailOK, ListsOK, HartOK,
         Return, mbox, lists, call, hart, Die
<1>4. OwnScan(h) /\ Grows
  BY <1>1, <1>2 DEF OwnScan, Grows, IInv, TypeOK, ActorsOK, WalkOK, Return,
       mbox, lists, call, hart, Die
<1>5a. /\ cur[h] \in Actors /\ var'[cur[h]] = "DEAD" /\ dying'[h] = cur[h]
  BY <1>1 DEF Return, Die, IInv, TypeOK, ActorsOK, WalkOK
<1>5. CallOf(h)'
  BY <1>1, <1>2, <1>4, <1>5a, NoActorNotActor DEF CallOf, CallOK, Grows
<1>6. InContext(h)' = InContext(h) /\ cur'[h] = cur[h]
  BY <1>1, <1>2 DEF InContext, CallOf, Return, hart, Die
<1>7. QED
  BY <1>1, <1>2, <1>3, <1>4, <1>5, <1>6, FrameAll DEF CallOf, Return, lists, Die

\* an actor killed meanwhile gives its context up.
LEMMA FailDeadStep ==
  ASSUME IInv, NEW h \in Harts, FailDead(h), prog' = prog
  PROVE  IInv'
<1>1. /\ CallOK /\ CallOf(h) /\ pc[h] = "run"
      /\ dying[h] \in Actors \cup {NoActor}
      /\ cur[h] \in Actors /\ var[cur[h]] # "NEW"
      /\ running[cur[h]] = h /\ owner[cur[h]] = h
  BY CurIsActor DEF IInv, TypeOK, Calls, WalkOK, FailDead, InContext
<1>2. /\ pc' \in [Harts -> Labels] /\ cont' \in [Harts -> Conts]
      /\ hand' \in [Harts -> Actors \cup {NoActor}]
      /\ OwnCall(h)
      /\ pc'[h] = "tosched" /\ UNCHANGED <<hand, cont>>
  BY <1>1, GotoOK DEF FailDead, CallOK, CallOf, OwnCall, Labels, Conts, call
<1>3. TypeOK'
  <2>1. CallOK'
    BY <1>1, <1>2 DEF CallOK, FailDead, call
  <2>2. QED
    BY <2>1 DEF IInv, TypeOK, ActorsOK, MailOK, ListsOK, WalkOK, ScanOK,
         HartOK, FailDead, acb, lists, call, walk, scan, hart, mbox
<1>4. OwnScan(h) /\ Grows
  BY <1>1, <1>2 DEF OwnScan, Grows, IInv, TypeOK, FailDead, acb, lists, call,
       walk, scan, hart, mbox
<1>5. CallOf(h)'
  BY <1>1, <1>2, <1>4, NoActorNotActor DEF CallOf, CallOK, Grows, FailDead,
       acb, walk
<1>6. InContext(h)' = InContext(h) /\ cur'[h] = cur[h]
  BY <1>1, <1>2 DEF InContext, CallOf, FailDead, hart
<1>7. QED
  BY <1>1, <1>2, <1>3, <1>4, <1>5, <1>6, FrameAll DEF CallOf, FailDead, acb, lists, scan

\* the boot state satisfies the invariant
LEMMA InitInv == Init => IInv
<1> SUFFICES ASSUME Init PROVE IInv
  OBVIOUS
<1>1. 0 \in Harts /\ Harts \subseteq Nat
  BY SchedAssumption DEF Harts
<1>2. Main \in Actors
  BY SchedAssumption
<1>3. \A h \in Harts : Others(h) \subseteq Harts
  BY DEF Others
<1>4. TypeOK
  BY <1>1, <1>2, <1>3 DEF Init, TypeOK, ActorsOK, MailOK, ListsOK, CallOK,
       WalkOK, ScanOK, HartOK, Labels, Conts
<1>5. Calls
  BY DEF Init, Calls, CallOf
<1>6. Rings
  BY <1>1 DEF Init, Rings
<1>7. Queues
  BY <1>1, <1>2 DEF Init, Queues
<1>8. Popped /\ Switched
  BY DEF Init, Popped, Switched
<1>9. Live
  BY NoHartNotHart DEF Init, Live, InContext
<1>10. QED BY <1>4, <1>5, <1>6, <1>7, <1>8, <1>9 DEF IInv

\* the invariant reads nothing but the variables
LEMMA StutterInv == IInv /\ UNCHANGED vars => IInv'
  BY DEF IInv, vars, acb, mbox, lists, call, walk, scan, hart, TypeOK,
       ActorsOK, MailOK, ListsOK, CallOK, WalkOK, ScanOK, HartOK, Calls,
       CallOf, Rings, Queues, Popped, Live, InContext, Switched

\* every step keeps the invariant
LEMMA StepInv == IInv /\ [Next]_vars => IInv'
<1> SUFFICES ASSUME IInv, [Next]_vars PROVE IInv'
  OBVIOUS
<1>1. CASE Next
  <2>1. PICK h \in Harts : HartStep(h) /\ prog' = prog
    BY <1>1 DEF Next
  <2>2. CASE Loop(h)
    BY <2>1, <2>2, DrainVisitStep, DrainPopStep, DrainDoneStep,
       RefillDeadStep, AdmitStep, RefillDoneStep, PopStep, LookAgainStep,
       GoIdleStep, StealFromStep, StealMissStep, WfiBellStep, WfiTimerStep,
       ClaimStep, AfterStep, ReapStep, TeardownStep DEF Loop
  <2>3. CASE Call(h)
    BY <2>1, <2>3, AddStep, OfferStep, ShipStep, PushStep, IpiStep, WakeStep,
       RecvLookStep, BlockStep, RecheckStep, WalkStepStep, WalkDoneStep,
       ToSchedStep DEF Call
  <2>4. CASE Program(h)
    BY <2>1, <2>4, YieldStep, SendStep, ReceiveStep, SpawnStep, KillStep,
       ReturnStep, FailDeadStep DEF Program
  <2>5. QED BY <2>1, <2>2, <2>3, <2>4 DEF HartStep
<1>2. CASE UNCHANGED vars
  BY <1>2, StutterInv
<1>3. QED BY <1>1, <1>2

\* The inductive invariant holds of every behaviour of the scheduler, whatever
\* the number of harts, the programs and the sizes of the rings.
THEOREM InductiveInvariant == Spec => []IInv
<1>1. QED BY InitInv, StepInv, PTL DEF Spec

\* Every field of the actor blocks, queues and harts keeps its type: in
\* particular a hart never takes an entry from an empty ring (drain) or follows
\* a null actor (backlog_add, ship, wake, reap).
THEOREM TypeCorrect == Spec => []TypeOK
<1>1. IInv => TypeOK
  BY DEF IInv
<1>2. QED BY <1>1, InductiveInvariant, PTL

\* No context is ever resumed on two harts: the double_run panic of hart_loop is
\* unreachable, through wakes, fuel preemptions and steals in any order.
THEOREM OneContextHolds == Spec => []OneContext
<1>1. IInv => OneContext
  BY DEF IInv, OneContext, Calls, CallOf, Live
<1>2. QED BY <1>1, InductiveInvariant, PTL

\* An actor is in at most one queue, its owner's ("one entry is the invariant",
\* backlog_add), and what is in a run queue is a saved context.
THEOREM OneEntryHolds == Spec => []OneEntry
<1>1. IInv => OneEntry
  BY DEF IInv, OneEntry, Queues
<1>2. QED BY <1>1, InductiveInvariant, PTL

\* the hart loop itself never writes a status word
LEMMA LoopKeepsStatus ==
  ASSUME NEW h \in Harts, Loop(h)
  PROVE  var' = var
BY DEF Loop, DrainVisit, DrainPop, DrainDone, RefillDead, Admit, RefillDone,
   Pop, LookAgain, GoIdle, StealFrom, StealMiss, WfiBell, WfiTimer, Claim,
   After, Reap, Teardown, acb

\* no step takes an actor out of DEAD
LEMMA StepStayDead ==
  ASSUME IInv, [Next]_vars, NEW a \in Actors, var[a] = "DEAD"
  PROVE  var'[a] = "DEAD"
<1>1. CASE UNCHANGED vars
  BY <1>1 DEF vars, acb
<1>2. CASE Next
  <2>1. PICK h \in Harts : HartStep(h)
    BY <1>2 DEF Next
  <2>2. /\ var \in [Actors -> {"NEW", "READY", "BLOCKED", "DEAD"}]
        /\ pc[h] = "wake" => hand[h] \in Actors
    BY HandIsActor DEF IInv, TypeOK, ActorsOK
  <2>3. CASE Loop(h)
    BY <2>3, LoopKeepsStatus
  <2>4. CASE Call(h)
    <3>1. CASE Add(h) \/ Offer(h) \/ Ship(h) \/ Push(h) \/ Ipi(h) \/ RecvLook(h)
               \/ WalkStep(h) \/ WalkDone(h) \/ ToSched(h)
      BY <3>1 DEF Add, Offer, Ship, Push, Ipi, RecvLook, WalkStep, WalkDone,
         ToSched, acb
    <3>2. CASE Wake(h)
      BY <2>2, <3>2 DEF Wake
    <3>3. CASE Block(h)
      BY <2>2, <3>3 DEF Block
    <3>4. CASE Recheck(h)
      BY <2>2, <3>4 DEF Recheck
    <3>5. QED BY <2>4, <3>1, <3>2, <3>3, <3>4 DEF Call
  <2>5. CASE Program(h)
    <3>1. CASE Yield(h) \/ Send(h) \/ Receive(h) \/ FailDead(h)
      BY <3>1 DEF Yield, Send, Receive, FailDead, acb
    <3>2. CASE Spawn(h)
      BY <2>2, <3>2 DEF Spawn, Born
    <3>3. CASE Kill(h)
      BY <2>2, <3>3 DEF Kill, Die
    <3>4. CASE Return(h)
      BY <2>2, <3>4 DEF Return, Die
    <3>5. QED BY <2>5, <3>1, <3>2, <3>3, <3>4 DEF Program
  <2>6. QED BY <2>1, <2>3, <2>4, <2>5 DEF HartStep
<1>3. QED BY <1>1, <1>2

\* Death is final: neither a wake nor the un-block of block_unless, racing the
\* kill, ever writes another status over DEAD.
THEOREM StayDeadHolds == Spec => StayDead
<1>1. IInv /\ [Next]_vars => [\A a \in Actors : var[a] = "DEAD" => var'[a] = "DEAD"]_var
  BY StepStayDead
<1>2. QED BY <1>1, InductiveInvariant, PTL DEF Spec, StayDead

-----------------------------------------------------------------------------

\* a step of hart h leaves the scans and walks of every other hart alone
OwnTurn(h) ==
  \A g \in Harts \ {h} :
    todo'[g] = todo[g] /\ tgt'[g] = tgt[g] /\ then'[g] = then[g]

\* what is in a queue or on a ring stays there while the lists stand still
LEMMA ListsSame ==
  ASSUME UNCHANGED lists, NEW a \in Actors
  PROVE  Listed(a)' = Listed(a) /\ InRing(a)' = InRing(a)
BY DEF lists, Listed, InRing

\* hart h has actor a in its hands on the way to a queue or a dispatch, or runs
\* it, or a is queued
Kept(h, a) ==
  Listed(a) \/ InRing(a) \/ Moving(h, a) \/ (Active(h) /\ cur[h] = a)

\* ReadyHeld: hart h loses no READY actor it or the queues kept
LEMMA FrameReady ==
  ASSUME ReadyHeld, NEW h \in Harts, OwnCall(h), OwnScan(h),
         \A a \in Actors : var'[a] = "READY" /\ ~Kept(h, a)' =>
           var[a] = "READY" /\ ~Kept(h, a)
  PROVE  ReadyHeld'
<1> SUFFICES ASSUME NEW a \in Actors, var'[a] = "READY", ~Kept(h, a)'
             PROVE  \E g \in Harts : Moving(g, a)' \/ (Active(g)' /\ cur'[g] = a)
  BY DEF ReadyHeld, Kept
<1>1. PICK g \in Harts : Moving(g, a) \/ (Active(g) /\ cur[g] = a)
  BY DEF ReadyHeld, Kept
<1>2. g # h
  BY <1>1 DEF Kept
<1>3. QED BY <1>1, <1>2 DEF Moving, Active, InContext, OwnCall, OwnScan

\* the same of an actor that died
KeptDead(h, a) ==
  \/ Listed(a) \/ InRing(a) \/ Moving(h, a) \/ cur[h] = a
  \/ pc[h] \in {"reap", "teardown"} /\ hand[h] = a
  \/ dying[h] = a /\ then[h] = "ship"

\* DeadHeld: hart h loses no dead actor it or the queues kept
LEMMA FrameDead ==
  ASSUME DeadHeld, NEW h \in Harts, OwnCall(h), OwnScan(h), OwnTurn(h),
         \A a \in Actors : var'[a] = "DEAD" /\ ~reaped'[a] /\ ~KeptDead(h, a)' =>
           \/ var[a] = "DEAD" /\ ~reaped[a] /\ ~KeptDead(h, a)
           \/ \E g \in Harts \ {h} : Moving(g, a) \/ cur[g] = a
  PROVE  DeadHeld'
<1> SUFFICES ASSUME NEW a \in Actors, var'[a] = "DEAD", ~reaped'[a], ~KeptDead(h, a)'
             PROVE  \E g \in Harts : \/ Moving(g, a)' \/ cur'[g] = a
                                     \/ pc'[g] \in {"reap", "teardown"} /\ hand'[g] = a
                                     \/ dying'[g] = a /\ then'[g] = "ship"
  BY DEF DeadHeld, KeptDead
<1>1. PICK g \in Harts \ {h} : \/ Moving(g, a) \/ cur[g] = a
                               \/ pc[g] \in {"reap", "teardown"} /\ hand[g] = a
                               \/ dying[g] = a /\ then[g] = "ship"
  BY DEF DeadHeld, KeptDead
<1>2. QED BY <1>1 DEF Moving, OwnCall, OwnScan, OwnTurn

\* hart h is about to see that actor a need not wait any longer
Waker(h, a) ==
  \/ pc[h] = "wake" /\ hand[h] = a
  \/ pc[h] = "recheck" /\ cur[h] = a
  \/ from[a] # NoActor /\ dying[h] = from[a] /\ a \in todo[h]

\* NoLostWake: who waits in vain after hart h's step waited in vain before it
LEMMA FrameLostWake ==
  ASSUME NoLostWake, NEW h \in Harts, OwnCall(h), OwnScan(h), OwnTurn(h),
         \A a \in Actors : var'[a] = "BLOCKED" /\ Pred(a)' /\ ~Waker(h, a)' =>
           /\ var[a] = "BLOCKED" /\ Pred(a) /\ ~Waker(h, a)
           /\ from'[a] = from[a]
  PROVE  NoLostWake'
<1> SUFFICES ASSUME NEW a \in Actors, var'[a] = "BLOCKED", Pred(a)', ~Waker(h, a)'
             PROVE  \E g \in Harts : Waker(g, a)'
  BY DEF NoLostWake, Waker
<1>1. PICK g \in Harts : Waker(g, a)
  BY DEF NoLostWake, Waker
<1>2. g # h /\ from'[a] = from[a]
  BY <1>1
<1>3. QED BY <1>1, <1>2 DEF Waker, OwnCall, OwnScan, OwnTurn

\* Rung: rings and drains stand still, hart h finishes neither an announcement
\* nor a scan
LEMMA FrameRung ==
  ASSUME Rung, NEW h \in Harts, OwnCall(h), OwnTurn(h),
         UNCHANGED <<xr, snap, src>>,
         \A g \in Harts : bell[g] => bell'[g],
         Draining(h) => Draining(h)' /\ todo[h] \cap Harts \subseteq todo'[h],
         \A d \in Harts : pc[h] = "ipi" /\ tgt[h] = d =>
           bell'[d] \/ (pc'[h] = "ipi" /\ tgt'[h] = d),
         pc'[h] = "push" => tgt'[h] # h
  PROVE  Rung'
<1>1. ASSUME NEW s \in Harts, NEW d \in Harts, Len(xr[s][d]) > Covered(s, d)
      PROVE  \/ bell'[d] \/ (pc'[s] = "ipi" /\ tgt'[s] = d)
             \/ Draining(d)' /\ s \in todo'[d]
  <2>1. CASE bell[d]
    BY <2>1
  <2>2. CASE pc[s] = "ipi" /\ tgt[s] = d
    BY <2>2 DEF OwnCall, OwnTurn
  <2>3. CASE Draining(d) /\ s \in todo[d]
    BY <2>3 DEF OwnCall, OwnTurn, Draining
  <2>4. QED BY <1>1, <2>1, <2>2, <2>3 DEF Rung
<1>2. \A s, d \in Harts : Covered(s, d)' = Covered(s, d)
  BY DEF Covered
<1>3. \A g \in Harts : /\ snap[g] > 0 => Draining(g)'
                       /\ pc'[g] = "push" => tgt'[g] # g
  BY DEF Rung, OwnCall, OwnTurn, Draining
<1>4. QED BY <1>1, <1>2, <1>3 DEF Rung

\* a batch that still counts what fell out of it is no smaller
LEMMA BatchGrows ==
  ASSUME TypeOK, TypeOK', NEW g \in Harts,
         rq[g] \cup fell[g] \subseteq rq'[g] \cup fell'[g],
         Cardinality(rq[g] \cup fell[g]) >= RQ_CAP
  PROVE  Cardinality(rq'[g] \cup fell'[g]) >= RQ_CAP
<1>1. rq'[g] \cup fell'[g] \subseteq Actors /\ rq[g] \cup fell[g] \subseteq Actors
  BY DEF TypeOK, ListsOK, ScanOK
<1>2. IsFiniteSet(rq'[g] \cup fell'[g]) /\ IsFiniteSet(rq[g] \cup fell[g])
  BY <1>1, FS_Subset, SchedAssumption
<1>3. Cardinality(rq[g] \cup fell[g]) <= Cardinality(rq'[g] \cup fell'[g])
  BY <1>2, FS_Subset
<1>4. /\ Cardinality(rq[g] \cup fell[g]) \in Nat
      /\ Cardinality(rq'[g] \cup fell'[g]) \in Nat
  BY <1>2, FS_CardinalityType
<1>5. QED BY <1>3, <1>4, SchedAssumption

\* hart h touches no other hart's run queue or batch and adds to no other backlog
OwnBatch(h) ==
  \A g \in Harts \ {h} :
    rq'[g] = rq[g] /\ fell'[g] = fell[g] /\ backlog'[g] \subseteq backlog[g]

\* Batch: ... and keeps its own promise
LEMMA OthersBatch ==
  ASSUME TypeOK, TypeOK', Batch, NEW h \in Harts, OwnCall(h), OwnBatch(h),
         pc'[h] = "steal" => rq'[h] = {},
         Popping(h)' /\ backlog'[h] # {} => Cardinality(rq'[h] \cup fell'[h]) >= RQ_CAP
  PROVE  Batch'
<1>1. ASSUME NEW g \in Harts \ {h}, Popping(g)', backlog'[g] # {}
      PROVE  Cardinality(rq'[g] \cup fell'[g]) >= RQ_CAP
  <2>1. /\ Popping(g) /\ backlog[g] # {}
        /\ rq[g] \cup fell[g] \subseteq rq'[g] \cup fell'[g]
    BY <1>1 DEF OwnCall, OwnBatch, Popping
  <2>2. QED BY <2>1, BatchGrows DEF Batch
<1>2. \A g \in Harts : pc'[g] = "steal" => rq'[g] = {}
  BY DEF Batch, OwnCall, OwnBatch
<1>3. QED BY <1>1, <1>2 DEF Batch

\* the same, when hart h's batch only loses what fell
LEMMA FrameBatch ==
  ASSUME TypeOK, TypeOK', Batch, NEW h \in Harts, OwnCall(h), OwnBatch(h),
         pc'[h] = "steal" => rq'[h] = {},
         Popping(h)' /\ backlog'[h] # {} =>
           /\ Popping(h) /\ backlog[h] # {}
           /\ rq[h] \cup fell[h] \subseteq rq'[h] \cup fell'[h]
  PROVE  Batch'
<1>1. Popping(h)' /\ backlog'[h] # {} => Cardinality(rq'[h] \cup fell'[h]) >= RQ_CAP
  BY BatchGrows DEF Batch
<1>2. QED BY <1>1, OthersBatch

\* drain takes the head of a ring into hart h's hands; what is behind it stays
LEMMA DrainPopRing ==
  ASSUME IInv, NEW h \in Harts, DrainPop(h), NEW a \in Actors, InRing(a)
  PROVE  InRing(a)' \/ (hand'[h] = a /\ pc'[h] = "add")
<1>1. /\ src[h] \in Harts /\ xr[src[h]][h] \in Seq(Actors) /\ xr[src[h]][h] # <<>>
      /\ \A s, d \in Harts : xr[s][d] \in Seq(Actors)
  <2>1. src[h] \in Harts /\ snap[h] \in Nat /\ snap[h] > 0
    BY DEF IInv, TypeOK, ScanOK, DrainPop
  <2>2. \A s, d \in Harts : xr[s][d] \in Seq(Actors) /\ Len(xr[s][d]) \in Nat
    BY RingsTyped DEF IInv
  <2>3. snap[h] <= Len(xr[src[h]][h])
    BY DEF IInv, Rings
  <2>4. QED BY <2>1, <2>2, <2>3
<1>2. \A s, d \in Harts :
        xr'[s][d] = IF s = src[h] /\ d = h THEN Tail(xr[s][d]) ELSE xr[s][d]
  BY <1>1 DEF IInv, TypeOK, ListsOK, DrainPop
<1>3. hand'[h] = xr[src[h]][h][1] /\ pc'[h] = "add"
  BY <1>1, TailOK DEF IInv, TypeOK, CallOK, DrainPop, Start, Goto
<1>4. PICK s \in Harts, d \in Harts : \E i \in DOMAIN xr[s][d] : xr[s][d][i] = a
  BY DEF InRing
<1>5. PICK i \in 1 .. Len(xr[s][d]) : xr[s][d][i] = a
  BY <1>1, <1>4
<1>6. CASE ~(s = src[h] /\ d = h)
  BY <1>2, <1>4, <1>6 DEF InRing
<1>7. CASE s = src[h] /\ d = h /\ i = 1
  BY <1>3, <1>5, <1>7
<1>8. CASE s = src[h] /\ d = h /\ i # 1
  <2>1. i - 1 \in 1 .. Len(Tail(xr[s][d])) /\ Tail(xr[s][d])[i - 1] = xr[s][d][i - 1 + 1]
    <3>1. Len(Tail(xr[s][d])) = Len(xr[s][d]) - 1 /\ Len(xr[s][d]) \in Nat
      BY <1>1, <1>8, TailOK
    <3>2. i - 1 \in 1 .. Len(Tail(xr[s][d]))
      BY <1>5, <1>8, <3>1
    <3>3. QED BY <1>1, <1>8, <3>2, TailOK
  <2>2. i - 1 \in DOMAIN xr'[s][d] /\ xr'[s][d][i - 1] = a
    <3>1. xr'[s][d] = Tail(xr[s][d]) /\ Tail(xr[s][d]) \in Seq(Actors)
      BY <1>1, <1>2, <1>8, TailOK
    <3>2. i - 1 + 1 = i
      BY <1>5
    <3>3. QED BY <1>5, <2>1, <3>1, <3>2
  <2>3. QED BY <2>2 DEF InRing
<1>9. QED BY <1>6, <1>7, <1>8

\* a push puts what hart h ships on a ring, behind what is there
LEMMA PushRing ==
  ASSUME IInv, NEW h \in Harts, Push(h)
  PROVE  InRing(hand[h])' /\ \A a \in Actors : InRing(a) => InRing(a)'
<1>1. /\ tgt[h] \in Harts /\ hand[h] \in Actors
      /\ \A s, d \in Harts : xr[s][d] \in Seq(Actors) /\ Len(xr[s][d]) \in Nat
  <2>1. tgt[h] \in Harts /\ hand[h] \in Actors
    BY HandIsActor DEF IInv, TypeOK, CallOK, Push
  <2>2. QED BY <2>1, RingsTyped DEF IInv
<1>2. \A s, d \in Harts :
        xr'[s][d] = IF s = h /\ d = tgt[h] THEN Append(xr[s][d], hand[h]) ELSE xr[s][d]
  BY <1>1 DEF IInv, TypeOK, ListsOK, Push
<1>3. \A q \in Seq(Actors) :
        /\ \A i \in DOMAIN q : i \in DOMAIN Append(q, hand[h]) /\ Append(q, hand[h])[i] = q[i]
        /\ Len(q) + 1 \in DOMAIN Append(q, hand[h])
        /\ Append(q, hand[h])[Len(q) + 1] = hand[h]
  BY <1>1
<1>4. ASSUME NEW a \in Actors, InRing(a) PROVE InRing(a)'
  <2>1. PICK s \in Harts, d \in Harts : \E i \in DOMAIN xr[s][d] : xr[s][d][i] = a
    BY <1>4 DEF InRing
  <2>2. xr'[s][d] = xr[s][d] \/ xr'[s][d] = Append(xr[s][d], hand[h])
    BY <1>2
  <2>3. \E i \in DOMAIN xr'[s][d] : xr'[s][d][i] = a
    <3>1. PICK i \in DOMAIN xr[s][d] : xr[s][d][i] = a
      BY <2>1
    <3>2. i \in DOMAIN xr'[s][d] /\ xr'[s][d][i] = a
      BY <1>1, <1>3, <2>2, <3>1
    <3>3. QED BY <3>2
  <2>4. QED BY <2>3 DEF InRing
<1>5. InRing(hand[h])'
  <2>1. \E i \in DOMAIN xr'[h][tgt[h]] : xr'[h][tgt[h]][i] = hand[h]
    <3>1. /\ xr[h][tgt[h]] \in Seq(Actors)
          /\ xr'[h][tgt[h]] = Append(xr[h][tgt[h]], hand[h])
      BY <1>1, <1>2
    <3>2. Len(xr[h][tgt[h]]) + 1 \in DOMAIN xr'[h][tgt[h]]
      BY <1>3, <3>1
    <3>3. xr'[h][tgt[h]][Len(xr[h][tgt[h]]) + 1] = hand[h]
      BY <1>3, <3>1
    <3>4. QED BY <3>2, <3>3
  <2>2. hand' = hand
    BY DEF Push, call
  <2>3. QED BY <1>1, <2>1, <2>2 DEF InRing
<1>6. QED BY <1>4, <1>5

\* backlog_add lists what hart h holds, or sends it on to its owner
LEMMA AddLists ==
  ASSUME IInv, NEW h \in Harts, Add(h), NEW a \in Actors
  PROVE  /\ Listed(a) => Listed(a)'
         /\ hand[h] = a => Listed(a)' \/ (pc'[h] = "ship" /\ hand'[h] = a)
<1>1. /\ backlog \in [Harts -> SUBSET Actors] /\ rq' = rq /\ CallOK
      /\ backlog' = backlog \/ backlog' = [backlog EXCEPT ![h] = @ \cup {hand[h]}]
  BY DEF IInv, TypeOK, ListsOK, Add
<1>2. Listed(a) => Listed(a)'
  BY <1>1 DEF Listed
<1>3. hand[h] = a => Listed(a)' \/ (pc'[h] = "ship" /\ hand'[h] = a)
  BY <1>1, <1>2 DEF Add, Goto, Listed, CallOK
<1>4. QED BY <1>2, <1>3

\* what is queued and still wanted stays queued or goes to hart h's hands
LEMMA QueuedKept ==
  ASSUME IInv, NEW h \in Harts, HartStep(h), NEW a \in Actors,
         Listed(a) \/ InRing(a), var[a] \in {"READY", "DEAD"}
  PROVE  \/ Listed(a)' \/ InRing(a)'
         \/ /\ hand'[h] = a
            /\ \/ pc'[h] = "add"
               \/ pc'[h] = "claim" /\ var[a] = "READY"
               \/ pc'[h] = "reap" /\ var[a] = "DEAD"
<1>1. ASSUME UNCHANGED xr, InRing(a) PROVE InRing(a)'
  BY <1>1 DEF InRing
<1>2. CASE UNCHANGED lists
  BY <1>2, ListsSame
<1>3. CASE DrainPop(h)
  <2>1. Listed(a) => Listed(a)'
    BY <1>3 DEF DrainPop, Listed
  <2>2. QED BY <1>3, <2>1, DrainPopRing
<1>4. CASE Push(h)
  <2>1. Listed(a) => Listed(a)'
    BY <1>4 DEF Push, Listed
  <2>2. QED BY <1>4, <2>1, PushRing
<1>5. CASE Add(h)
  BY <1>1, <1>5, AddLists DEF Add
<1>6. CASE RefillDead(h)
  BY <1>1, <1>6 DEF RefillDead, DeadIn, Listed, Start, Goto, IInv, TypeOK,
     CallOK, ListsOK
<1>7. CASE Admit(h)
  BY <1>1, <1>7 DEF Admit, DeadIn, Listed, IInv, TypeOK, ListsOK
<1>8. CASE RefillDone(h)
  BY <1>1, <1>8 DEF RefillDone, Listed, IInv, TypeOK, ListsOK
<1>9. CASE Pop(h)
  BY <1>1, <1>9 DEF Pop, Listed, Start, Goto, IInv, TypeOK, CallOK, ListsOK
<1>10. CASE StealFrom(h)
  BY <1>1, <1>10 DEF StealFrom, Stealable, Listed, Start, Goto, IInv, TypeOK,
     CallOK, ListsOK
<1>11. ASSUME Loop(h), ~DrainPop(h), ~RefillDead(h), ~Admit(h), ~RefillDone(h),
              ~Pop(h), ~StealFrom(h)
       PROVE  UNCHANGED lists
  BY <1>11 DEF Loop, DrainVisit, DrainDone, LookAgain, GoIdle, StealMiss,
     WfiBell, WfiTimer, Claim, After, Reap, Teardown
<1>12. ASSUME Call(h) \/ Program(h), ~Push(h), ~Add(h)
       PROVE  UNCHANGED lists
  BY <1>12 DEF Call, Program, Offer, Ship, Ipi, Wake, RecvLook, Block, Recheck,
     WalkStep, WalkDone, ToSched, Yield, Send, Receive, Spawn, Kill, Return,
     FailDead, Die
<1>13. QED
  BY <1>2, <1>3, <1>4, <1>5, <1>6, <1>7, <1>8, <1>9, <1>10, <1>11, <1>12
  DEF HartStep

\* the helpers every action is written with
USE DEF Goto, Start, Finish, Visit, Runs, Die, acb, mbox, lists, call, walk,
        scan, hart, Others, Born, Asleep

\* a step of hart h writes no other hart's registers
LEMMA StepIsOwn ==
  ASSUME IInv, NEW h \in Harts, HartStep(h)
  PROVE  OwnCall(h) /\ OwnScan(h) /\ OwnTurn(h)
<1>1. CASE Loop(h)
  BY <1>1
    DEF Loop, DrainVisit, DrainPop, DrainDone, RefillDead, Admit, RefillDone,
      Pop, LookAgain, GoIdle, StealFrom, StealMiss, WfiBell, WfiTimer, Claim,
      After, Reap, Teardown, OwnCall, OwnScan, OwnTurn, IInv, TypeOK, CallOK,
      WalkOK, ScanOK, HartOK
<1>2. CASE Call(h)
  BY <1>2
    DEF Call, Add, Offer, Ship, Push, Ipi, Wake, RecvLook, Block, Recheck,
      WalkStep, WalkDone, ToSched, OwnCall, OwnScan, OwnTurn, IInv, TypeOK,
      CallOK, WalkOK, ScanOK, HartOK
<1>3. CASE Program(h)
  BY <1>3
    DEF Program, Yield, Send, Receive, Spawn, Kill, Return, FailDead, OwnCall,
      OwnScan, OwnTurn, IInv, TypeOK, CallOK, WalkOK, ScanOK, HartOK
<1>4. QED BY <1>1, <1>2, <1>3 DEF HartStep

\* only block_unless parks an actor, the one its hart runs
LEMMA BlocksItself ==
  ASSUME IInv, NEW h \in Harts, HartStep(h), NEW a \in Actors
  PROVE  var'[a] = "BLOCKED" =>
           \/ var[a] = "BLOCKED"
           \/ /\ pc[h] = "block" /\ cur[h] = a
              /\ pc'[h] = "recheck" /\ cur'[h] = a
<1>1. CASE Loop(h)
  BY <1>1
    DEF Loop, DrainVisit, DrainPop, DrainDone, RefillDead, Admit, RefillDone,
      Pop, LookAgain, GoIdle, StealFrom, StealMiss, WfiBell, WfiTimer, Claim,
      After, Reap, Teardown, IInv, TypeOK, ActorsOK, CallOK
<1>2. CASE Call(h)
  BY <1>2
    DEF Call, Add, Offer, Ship, Push, Ipi, Wake, RecvLook, Block, Recheck,
      WalkStep, WalkDone, ToSched, IInv, TypeOK, ActorsOK, CallOK
<1>3. CASE Program(h)
  BY <1>3
    DEF Program, Yield, Send, Receive, Spawn, Kill, Return, FailDead, IInv,
      TypeOK, ActorsOK, CallOK
<1>4. QED BY <1>1, <1>2, <1>3 DEF HartStep

\* only the actor itself writes whom it waits for, and not while it is parked
LEMMA WritesOwnWait ==
  ASSUME IInv, NEW h \in Harts, HartStep(h), NEW a \in Actors
  PROVE  \/ from'[a] = from[a] /\ watch'[a] = watch[a]
         \/ pc[h] \in {"run", "recv"} /\ cur[h] = a
<1>1. CASE Loop(h)
  BY <1>1
    DEF Loop, DrainVisit, DrainPop, DrainDone, RefillDead, Admit, RefillDone,
      Pop, LookAgain, GoIdle, StealFrom, StealMiss, WfiBell, WfiTimer, Claim,
      After, Reap, Teardown, IInv, TypeOK, MailOK
<1>2. CASE Call(h)
  BY <1>2
    DEF Call, Add, Offer, Ship, Push, Ipi, Wake, RecvLook, Block, Recheck,
      WalkStep, WalkDone, ToSched, IInv, TypeOK, MailOK
<1>3. CASE Program(h)
  BY <1>3
    DEF Program, Yield, Send, Receive, Spawn, Kill, Return, FailDead, IInv,
      TypeOK, MailOK
<1>4. QED BY <1>1, <1>2, <1>3 DEF HartStep

\* whoever dies is mourned by the hart that killed it, before every spawned
\* actor
LEMMA DiesMourned ==
  ASSUME IInv, NEW h \in Harts, HartStep(h), NEW a \in Actors, var[a] # "DEAD", var'[a] = "DEAD"
  PROVE  dying'[h] = a /\ todo'[h] = Born /\ pc[h] = "run"
<1>1. CASE Loop(h)
  BY <1>1
    DEF Loop, DrainVisit, DrainPop, DrainDone, RefillDead, Admit, RefillDone,
      Pop, LookAgain, GoIdle, StealFrom, StealMiss, WfiBell, WfiTimer, Claim,
      After, Reap, Teardown, IInv, TypeOK, ActorsOK, WalkOK, ScanOK
<1>2. CASE Call(h)
  BY <1>2
    DEF Call, Add, Offer, Ship, Push, Ipi, Wake, RecvLook, Block, Recheck,
      WalkStep, WalkDone, ToSched, IInv, TypeOK, ActorsOK, WalkOK, ScanOK
<1>3. CASE Program(h)
  BY <1>3
    DEF Program, Yield, Send, Receive, Spawn, Kill, Return, FailDead, IInv,
      TypeOK, ActorsOK, WalkOK, ScanOK
<1>4. QED BY <1>1, <1>2, <1>3 DEF HartStep

\* Mourning: a walk starts with a death and a dead actor is mourned to the end
\* of it
LEMMA MourningStep ==
  ASSUME IInv, Mourning, NEW h \in Harts, HartStep(h),
         \A a \in Actors : var[a] = "DEAD" => var'[a] = "DEAD"
  PROVE  Mourning'
<1>1. dying[h] # NoActor => pc[h] = "walk" \/ cont[h] = "walk"
  BY DEF Mourning
<1>2. then[h] = "tosched" => dying[h] = cur[h] /\ cur[h] # NoActor
  BY DEF Mourning
<1>9. ~InContext(h) /\ pc[h] # "after" => cur[h] = NoActor
  BY DEF Mourning
<1>10. OwnCall(h) /\ OwnScan(h) /\ OwnTurn(h)
  BY StepIsOwn
<1>11. pc[h] = "run" => cur[h] \in Actors
  BY CurIsActor DEF IInv, InContext
<1>3. dying'[h] # NoActor => pc'[h] = "walk" \/ cont'[h] = "walk"
  <2>1. CASE Loop(h)
    BY <2>1, <1>1
      DEF Loop, DrainVisit, DrainPop, DrainDone, RefillDead, Admit, RefillDone,
        Pop, LookAgain, GoIdle, StealFrom, StealMiss, WfiBell, WfiTimer, Claim,
        After, Reap, Teardown, IInv, TypeOK, CallOK, Calls, CallOf, WalkOK
  <2>2. CASE Call(h)
    BY <2>2, <1>1
      DEF Call, Add, Offer, Ship, Push, Ipi, Wake, RecvLook, Block, Recheck,
        WalkStep, WalkDone, ToSched, IInv, TypeOK, CallOK, Calls, CallOf,
        WalkOK
  <2>3. CASE Program(h)
    BY <2>3, <1>1
      DEF Program, Yield, Send, Receive, Spawn, Kill, Return, FailDead, IInv,
        TypeOK, CallOK, Calls, CallOf, WalkOK
  <2>4. QED BY <2>1, <2>2, <2>3 DEF HartStep
<1>4. dying'[h] = dying[h] \/ dying'[h] = NoActor \/ var'[dying'[h]] = "DEAD"
  <2>1. CASE Loop(h)
    BY <2>1, <1>11
      DEF Loop, DrainVisit, DrainPop, DrainDone, RefillDead, Admit, RefillDone,
        Pop, LookAgain, GoIdle, StealFrom, StealMiss, WfiBell, WfiTimer, Claim,
        After, Reap, Teardown, IInv, TypeOK, WalkOK, ActorsOK
  <2>2. CASE Call(h)
    BY <2>2, <1>11
      DEF Call, Add, Offer, Ship, Push, Ipi, Wake, RecvLook, Block, Recheck,
        WalkStep, WalkDone, ToSched, IInv, TypeOK, WalkOK, ActorsOK
  <2>3. CASE Program(h)
    BY <2>3, <1>11
      DEF Program, Yield, Send, Receive, Spawn, Kill, Return, FailDead, IInv,
        TypeOK, WalkOK, ActorsOK
  <2>4. QED BY <2>1, <2>2, <2>3 DEF HartStep
<1>5. then'[h] = "tosched" => dying'[h] = cur'[h] /\ cur'[h] # NoActor
  <2>1. CASE Loop(h)
    BY <2>1, <1>1, <1>2
      DEF Loop, DrainVisit, DrainPop, DrainDone, RefillDead, Admit, RefillDone,
        Pop, LookAgain, GoIdle, StealFrom, StealMiss, WfiBell, WfiTimer, Claim,
        After, Reap, Teardown, IInv, TypeOK, CallOK, Calls, CallOf, WalkOK,
        HartOK, Live, InContext
  <2>2. CASE Call(h)
    BY <2>2, <1>1, <1>2
      DEF Call, Add, Offer, Ship, Push, Ipi, Wake, RecvLook, Block, Recheck,
        WalkStep, WalkDone, ToSched, IInv, TypeOK, CallOK, Calls, CallOf,
        WalkOK, HartOK, Live, InContext
  <2>3. CASE Program(h)
    BY <2>3, <1>1, <1>2
      DEF Program, Yield, Send, Receive, Spawn, Kill, Return, FailDead, IInv,
        TypeOK, CallOK, Calls, CallOf, WalkOK, HartOK, Live, InContext
  <2>4. QED BY <2>1, <2>2, <2>3 DEF HartStep
<1>6. ~InContext(h)' /\ pc'[h] # "after" => cur'[h] = NoActor
  <2>1. CASE Loop(h)
    <3>1. CASE DrainVisit(h) \/ DrainPop(h) \/ DrainDone(h) \/ RefillDead(h) \/
               Admit(h) \/ RefillDone(h) \/ Pop(h) \/ LookAgain(h) \/ GoIdle(h)
      BY <3>1, <1>9
        DEF DrainVisit, DrainPop, DrainDone, RefillDead, Admit, RefillDone,
          Pop, LookAgain, GoIdle, IInv, TypeOK, CallOK, Calls, CallOf, WalkOK,
          HartOK, Live, InContext, Popped
    <3>2. CASE StealFrom(h) \/ StealMiss(h) \/ WfiBell(h) \/ WfiTimer(h) \/
               Claim(h) \/ After(h) \/ Reap(h) \/ Teardown(h)
      BY <3>2, <1>9
        DEF StealFrom, StealMiss, WfiBell, WfiTimer, Claim, After, Reap,
          Teardown, IInv, TypeOK, CallOK, Calls, CallOf, WalkOK, HartOK, Live,
          InContext, Popped
    <3>3. QED BY <2>1, <3>1, <3>2 DEF Loop
  <2>2. CASE Call(h)
    BY <2>2, <1>9
      DEF Call, Add, Offer, Ship, Push, Ipi, Wake, RecvLook, Block, Recheck,
        WalkStep, WalkDone, ToSched, IInv, TypeOK, CallOK, Calls, CallOf,
        WalkOK, HartOK, Live, InContext, Popped
  <2>3. CASE Program(h)
    BY <2>3, <1>9
      DEF Program, Yield, Send, Receive, Spawn, Kill, Return, FailDead, IInv,
        TypeOK, CallOK, Calls, CallOf, WalkOK, HartOK, Live, InContext, Popped
  <2>4. QED BY <2>1, <2>2, <2>3 DEF HartStep
<1>7. \A g \in Harts : dying[g] # NoActor => var'[dying[g]] = "DEAD"
  BY DEF Mourning, IInv, TypeOK, WalkOK
<1>8. QED
  BY <1>10, <1>3, <1>4, <1>5, <1>6, <1>7
  DEF Mourning, OwnCall, OwnScan, OwnTurn, InContext

\* Parked: no other hart is in the context, or about to dispatch the actor,
\* that parks itself
LEMMA ParkedStep ==
  ASSUME IInv, Parked, NEW h \in Harts, HartStep(h)
  PROVE  Parked'
<1>1. /\ InContext(h) /\ pc[h] \notin {"recheck", "tosched"} => var[cur[h]] # "BLOCKED"
      /\ pc[h] = "claim" => var[hand[h]] # "BLOCKED"
      /\ pc[h] = "block" => watch[cur[h]] = from[cur[h]]
      /\ \A a \in rq[h] : var[a] # "BLOCKED"
  BY DEF Parked
<1>2. OwnCall(h) /\ OwnScan(h)
  BY StepIsOwn
<1>3. InContext(h) => cur[h] \in Actors /\ running[cur[h]] = h
  BY CurIsActor DEF IInv
<1>4. InContext(h)' /\ pc'[h] \notin {"recheck", "tosched"} => var'[cur'[h]] # "BLOCKED"
  <2>1. CASE Loop(h)
    <3>1. CASE DrainVisit(h) \/ DrainPop(h) \/ DrainDone(h) \/ RefillDead(h) \/
               Admit(h) \/ RefillDone(h) \/ Pop(h) \/ LookAgain(h) \/ GoIdle(h)
      BY SMTT(30), <3>1, <1>1
        DEF DrainVisit, DrainPop, DrainDone, RefillDead, Admit, RefillDone,
          Pop, LookAgain, GoIdle, IInv, TypeOK, CallOK, Calls, CallOf, WalkOK,
          ActorsOK, HartOK, Live, InContext
    <3>2. CASE StealFrom(h) \/ StealMiss(h) \/ WfiBell(h) \/ WfiTimer(h) \/
               Claim(h) \/ After(h) \/ Reap(h) \/ Teardown(h)
      BY SMTT(30), <3>2, <1>1
        DEF StealFrom, StealMiss, WfiBell, WfiTimer, Claim, After, Reap,
          Teardown, IInv, TypeOK, CallOK, Calls, CallOf, WalkOK, ActorsOK,
          HartOK, Live, InContext
    <3>3. QED BY <2>1, <3>1, <3>2 DEF Loop
  <2>2. CASE Call(h)
    BY SMTT(30), <2>2, <1>1
      DEF Call, Add, Offer, Ship, Push, Ipi, Wake, RecvLook, Block, Recheck,
        WalkStep, WalkDone, ToSched, IInv, TypeOK, CallOK, Calls, CallOf,
        WalkOK, ActorsOK, HartOK, Live, InContext
  <2>3. CASE Program(h)
    BY SMTT(30), <2>3, <1>1
      DEF Program, Yield, Send, Receive, Spawn, Kill, Return, FailDead, IInv,
        TypeOK, CallOK, Calls, CallOf, WalkOK, ActorsOK, HartOK, Live,
        InContext
  <2>4. QED BY <2>1, <2>2, <2>3 DEF HartStep
<1>5. pc'[h] = "claim" => var'[hand'[h]] # "BLOCKED"
  <2>1. CASE Loop(h)
    <3>1. CASE DrainVisit(h) \/ DrainPop(h) \/ DrainDone(h) \/ RefillDead(h) \/
               Admit(h) \/ RefillDone(h) \/ Pop(h) \/ LookAgain(h) \/ GoIdle(h)
      BY <3>1
        DEF DrainVisit, DrainPop, DrainDone, RefillDead, Admit, RefillDone,
          Pop, LookAgain, GoIdle, IInv, TypeOK, CallOK, Calls, CallOf, WalkOK,
          ActorsOK, Conts
    <3>2. CASE StealFrom(h) \/ StealMiss(h) \/ WfiBell(h) \/ WfiTimer(h) \/
               Claim(h) \/ After(h) \/ Reap(h) \/ Teardown(h)
      BY <3>2
        DEF StealFrom, StealMiss, WfiBell, WfiTimer, Claim, After, Reap,
          Teardown, IInv, TypeOK, CallOK, Calls, CallOf, WalkOK, ActorsOK,
          Conts
    <3>3. QED BY <2>1, <3>1, <3>2 DEF Loop
  <2>2. CASE Call(h)
    BY <2>2
      DEF Call, Add, Offer, Ship, Push, Ipi, Wake, RecvLook, Block, Recheck,
        WalkStep, WalkDone, ToSched, IInv, TypeOK, CallOK, Calls, CallOf,
        WalkOK, ActorsOK, Conts
  <2>3. CASE Program(h)
    BY <2>3
      DEF Program, Yield, Send, Receive, Spawn, Kill, Return, FailDead, IInv,
        TypeOK, CallOK, Calls, CallOf, WalkOK, ActorsOK, Conts
  <2>4. QED BY <2>1, <2>2, <2>3 DEF HartStep
<1>6. pc'[h] = "block" => watch'[cur'[h]] = from'[cur'[h]]
  <2>1. CASE RecvLook(h)
    BY <1>3, <2>1 DEF RecvLook, InContext, IInv, TypeOK, MailOK, CallOK
  <2>2. ASSUME ~RecvLook(h)
        PROVE  pc'[h] # "block"
    <3>1. CASE Loop(h)
      BY <3>1, <2>2
        DEF Loop, DrainVisit, DrainPop, DrainDone, RefillDead, Admit,
          RefillDone, Pop, LookAgain, GoIdle, StealFrom, StealMiss, WfiBell,
          WfiTimer, Claim, After, Reap, Teardown, IInv, TypeOK, CallOK, Calls,
          CallOf, Conts, WalkOK
    <3>2. CASE Call(h)
      BY <3>2, <2>2
        DEF Call, Add, Offer, Ship, Push, Ipi, Wake, RecvLook, Block, Recheck,
          WalkStep, WalkDone, ToSched, IInv, TypeOK, CallOK, Calls, CallOf,
          Conts, WalkOK
    <3>3. CASE Program(h)
      BY <3>3, <2>2
        DEF Program, Yield, Send, Receive, Spawn, Kill, Return, FailDead, IInv,
          TypeOK, CallOK, Calls, CallOf, Conts, WalkOK
    <3>4. QED BY <3>1, <3>2, <3>3 DEF HartStep
  <2>3. QED BY <2>1, <2>2
<1>7. \A a \in rq'[h] : a \in rq[h] \/ var'[a] # "BLOCKED"
  <2>1. CASE Admit(h)
    BY <2>1 DEF Admit, IInv, TypeOK, ListsOK
  <2>2. ASSUME ~Admit(h)
        PROVE  rq'[h] \subseteq rq[h]
    <3>1. CASE Loop(h)
      BY <3>1, <2>2
        DEF Loop, DrainVisit, DrainPop, DrainDone, RefillDead, Admit,
          RefillDone, Pop, LookAgain, GoIdle, StealFrom, StealMiss, WfiBell,
          WfiTimer, Claim, After, Reap, Teardown, IInv, TypeOK, ListsOK
    <3>2. CASE Call(h)
      BY <3>2, <2>2
        DEF Call, Add, Offer, Ship, Push, Ipi, Wake, RecvLook, Block, Recheck,
          WalkStep, WalkDone, ToSched, IInv, TypeOK, ListsOK
    <3>3. CASE Program(h)
      BY <3>3, <2>2
        DEF Program, Yield, Send, Receive, Spawn, Kill, Return, FailDead, IInv,
          TypeOK, ListsOK
    <3>4. QED BY <3>1, <3>2, <3>3 DEF HartStep
  <2>3. QED BY <2>1, <2>2
<1>8. \A g \in Harts \ {h} : rq'[g] = rq[g]
  <2>1. CASE Loop(h)
    BY <2>1
      DEF Loop, DrainVisit, DrainPop, DrainDone, RefillDead, Admit, RefillDone,
        Pop, LookAgain, GoIdle, StealFrom, StealMiss, WfiBell, WfiTimer, Claim,
        After, Reap, Teardown, IInv, TypeOK, ListsOK
  <2>2. CASE Call(h)
    BY <2>2
      DEF Call, Add, Offer, Ship, Push, Ipi, Wake, RecvLook, Block, Recheck,
        WalkStep, WalkDone, ToSched, IInv, TypeOK, ListsOK
  <2>3. CASE Program(h)
    BY <2>3
      DEF Program, Yield, Send, Receive, Spawn, Kill, Return, FailDead, IInv,
        TypeOK, ListsOK
  <2>4. QED BY <2>1, <2>2, <2>3 DEF HartStep
<1>9. ASSUME NEW a \in Actors, var'[a] = "BLOCKED"
      PROVE  /\ var[a] = "BLOCKED" \/ (pc[h] = "block" /\ cur[h] = a)
             /\ var[a] # "BLOCKED" => running[a] = h
             /\ watch'[a] = from'[a]
  <2>1. CASE var[a] = "BLOCKED"
    <3>1. from'[a] = from[a] /\ watch'[a] = watch[a]
      BY <1>1, <2>1, WritesOwnWait DEF InContext
    <3>2. QED BY <2>1, <3>1 DEF Parked
  <2>2. CASE var[a] # "BLOCKED"
    <3>1. pc[h] = "block" /\ cur[h] = a
      BY <1>9, <2>2, BlocksItself
    <3>2. from'[a] = from[a] /\ watch'[a] = watch[a]
      BY <3>1, WritesOwnWait
    <3>3. QED BY <1>1, <1>3, <3>1, <3>2 DEF InContext
  <2>3. QED BY <2>1, <2>2
<1>10. \A g \in Harts \ {h} :
         /\ InContext(g) => cur[g] \in Actors /\ running[cur[g]] = g
         /\ pc[g] = "claim" => hand[g] \in Actors /\ running[hand[g]] = NoHart
         /\ \A a \in rq[g] : a \in Actors /\ running[a] = NoHart
         /\ g # h /\ NoHart # h
  BY CurIsActor, HandIsActor, NoHartNotHart DEF IInv, Popped, Queues, TypeOK, ListsOK
<1>11. ASSUME NEW g \in Harts \ {h}
       PROVE  /\ InContext(g)' /\ pc'[g] \notin {"recheck", "tosched"} =>
                   var'[cur'[g]] # "BLOCKED"
              /\ pc'[g] = "claim" => var'[hand'[g]] # "BLOCKED"
              /\ pc'[g] = "block" => watch'[cur'[g]] = from'[cur'[g]]
              /\ \A a \in rq'[g] : var'[a] # "BLOCKED"
  <2>1. /\ InContext(g) /\ pc[g] \notin {"recheck", "tosched"} =>
             var'[cur[g]] # "BLOCKED"
        /\ pc[g] = "claim" => var'[hand[g]] # "BLOCKED"
        /\ \A a \in rq[g] : var'[a] # "BLOCKED"
    BY <1>9, <1>10 DEF Parked
  <2>2. pc[g] = "block" => watch'[cur[g]] = from'[cur[g]]
    <3>1. pc[g] = "block" => cur[g] \in Actors /\ ~(InContext(h) /\ cur[h] = cur[g])
      BY <1>3, <1>10 DEF InContext
    <3>2. QED BY <3>1, WritesOwnWait DEF Parked, InContext
  <2>3. QED BY <1>2, <1>8, <2>1, <2>2 DEF OwnCall, OwnScan, InContext
<1>12. \A a \in rq'[h] : var'[a] # "BLOCKED"
  <2>1. \A a \in rq[h] : a \in Actors /\ running[a] = NoHart /\ var[a] # "BLOCKED"
    BY <1>1 DEF IInv, Queues, TypeOK, ListsOK
  <2>2. \A a \in rq[h] : var'[a] # "BLOCKED"
    BY <1>9, <2>1, NoHartNotHart
  <2>3. QED BY <1>7, <2>2
<1>13. QED BY <1>4, <1>5, <1>6, <1>9, <1>11, <1>12 DEF Parked

\* NoLostWake: a wait is over only by a message or a death, and both are
\* announced before the parked actor could be overlooked
LEMMA LostWakeStep ==
  ASSUME IInv, Mourning, Parked, NoLostWake, NEW h \in Harts, HartStep(h)
  PROVE  NoLostWake'
<1> SUFFICES ASSUME NEW a \in Actors, var'[a] = "BLOCKED", Pred(a)', ~Waker(h, a)'
             PROVE  /\ var[a] = "BLOCKED" /\ Pred(a) /\ ~Waker(h, a)
                    /\ from'[a] = from[a]
  BY StepIsOwn, FrameLostWake
<1>1. dying[h] # NoActor => pc[h] = "walk" \/ cont[h] = "walk"
  BY DEF Mourning
<1>2. var[a] = "BLOCKED" /\ watch[a] = from[a]
  BY BlocksItself DEF Waker, Parked
<1>3. from'[a] = from[a]
  BY <1>2, WritesOwnWait DEF Parked, InContext
<1>4. mail'[a] => mail[a] \/ (pc'[h] = "wake" /\ hand'[h] = a)
  <2>1. CASE Loop(h)
    BY <2>1
      DEF Loop, DrainVisit, DrainPop, DrainDone, RefillDead, Admit, RefillDone,
        Pop, LookAgain, GoIdle, StealFrom, StealMiss, WfiBell, WfiTimer, Claim,
        After, Reap, Teardown, IInv, TypeOK, MailOK, CallOK
  <2>2. CASE Call(h)
    BY <2>2
      DEF Call, Add, Offer, Ship, Push, Ipi, Wake, RecvLook, Block, Recheck,
        WalkStep, WalkDone, ToSched, IInv, TypeOK, MailOK, CallOK
  <2>3. CASE Program(h)
    BY <2>3
      DEF Program, Yield, Send, Receive, Spawn, Kill, Return, FailDead, IInv,
        TypeOK, MailOK, CallOK
  <2>4. QED BY <2>1, <2>2, <2>3 DEF HartStep
<1>5. Pred(a)
  <2>1. CASE mail'[a]
    BY <1>4, <2>1 DEF Waker, Pred
  <2>2. CASE from[a] # NoActor /\ var'[from[a]] = "DEAD"
    <3>1. from[a] \in Actors /\ a \in Born
      BY <1>2, <2>2 DEF IInv, TypeOK, MailOK, Born
    <3>2. var[from[a]] = "DEAD"
      BY <1>3, <2>2, <3>1, DiesMourned DEF Waker
    <3>3. QED BY <2>2, <3>2 DEF Pred
  <2>3. QED BY <1>3, <2>1, <2>2 DEF Pred
<1>6. ~(pc[h] = "wake" /\ hand[h] = a)
  <2>1. CASE Loop(h)
    BY <2>1
      DEF Loop, DrainVisit, DrainPop, DrainDone, RefillDead, Admit, RefillDone,
        Pop, LookAgain, GoIdle, StealFrom, StealMiss, WfiBell, WfiTimer, Claim,
        After, Reap, Teardown, IInv, TypeOK, ActorsOK, CallOK
  <2>2. CASE Call(h)
    BY <2>2
      DEF Call, Add, Offer, Ship, Push, Ipi, Wake, RecvLook, Block, Recheck,
        WalkStep, WalkDone, ToSched, IInv, TypeOK, ActorsOK, CallOK
  <2>3. CASE Program(h)
    BY <2>3
      DEF Program, Yield, Send, Receive, Spawn, Kill, Return, FailDead, IInv,
        TypeOK, ActorsOK, CallOK
  <2>4. QED BY <2>1, <2>2, <2>3 DEF HartStep
<1>7. ~(pc[h] = "recheck" /\ cur[h] = a)
  <2>1. CASE Loop(h)
    BY <2>1, <1>5
      DEF Loop, DrainVisit, DrainPop, DrainDone, RefillDead, Admit, RefillDone,
        Pop, LookAgain, GoIdle, StealFrom, StealMiss, WfiBell, WfiTimer, Claim,
        After, Reap, Teardown, IInv, TypeOK, ActorsOK
  <2>2. CASE Call(h)
    BY <2>2, <1>5
      DEF Call, Add, Offer, Ship, Push, Ipi, Wake, RecvLook, Block, Recheck,
        WalkStep, WalkDone, ToSched, IInv, TypeOK, ActorsOK
  <2>3. CASE Program(h)
    BY <2>3, <1>5
      DEF Program, Yield, Send, Receive, Spawn, Kill, Return, FailDead, IInv,
        TypeOK, ActorsOK
  <2>4. QED BY <2>1, <2>2, <2>3 DEF HartStep
<1>8. from[a] # NoActor /\ dying[h] = from[a] /\ a \in todo[h] =>
          \/ dying'[h] = from[a] /\ a \in todo'[h]
          \/ pc'[h] = "wake" /\ hand'[h] = a
  <2>1. CASE Loop(h)
    BY <2>1, <1>1, <1>2
      DEF Loop, DrainVisit, DrainPop, DrainDone, RefillDead, Admit, RefillDone,
        Pop, LookAgain, GoIdle, StealFrom, StealMiss, WfiBell, WfiTimer, Claim,
        After, Reap, Teardown, IInv, TypeOK, CallOK, Calls, CallOf, WalkOK,
        ScanOK
  <2>2. CASE Call(h)
    BY <2>2, <1>1, <1>2
      DEF Call, Add, Offer, Ship, Push, Ipi, Wake, RecvLook, Block, Recheck,
        WalkStep, WalkDone, ToSched, IInv, TypeOK, CallOK, Calls, CallOf,
        WalkOK, ScanOK
  <2>3. CASE Program(h)
    BY <2>3, <1>1, <1>2
      DEF Program, Yield, Send, Receive, Spawn, Kill, Return, FailDead, IInv,
        TypeOK, CallOK, Calls, CallOf, WalkOK, ScanOK
  <2>4. QED BY <2>1, <2>2, <2>3 DEF HartStep
<1>9. QED BY <1>2, <1>3, <1>5, <1>6, <1>7, <1>8 DEF Waker

\* what hart h holds on its way to a queue or a dispatch gets there
LEMMA MovesOn ==
  ASSUME IInv, NEW h \in Harts, HartStep(h), NEW a \in Actors, Moving(h, a)
  PROVE  Listed(a)' \/ InRing(a)' \/ Moving(h, a)' \/ (Active(h)' /\ cur'[h] = a)
<1>1. CASE Add(h)
  BY <1>1, AddLists DEF Moving
<1>2. CASE Push(h)
  BY <1>2, PushRing DEF Moving, Push
<1>3. CASE Claim(h)
  BY <1>3 DEF Claim, Moving, Active, InContext, IInv, TypeOK, CallOK, HartOK, Popped
<1>4. ASSUME ~Add(h), ~Push(h), ~Claim(h)
      PROVE  Moving(h, a)'
  <2>1. CASE Loop(h)
    BY <2>1, <1>4
      DEF Loop, DrainVisit, DrainPop, DrainDone, RefillDead, Admit, RefillDone,
        Pop, LookAgain, GoIdle, StealFrom, StealMiss, WfiBell, WfiTimer, Claim,
        After, Reap, Teardown, IInv, TypeOK, CallOK, Calls, CallOf, Moving
  <2>2. CASE Call(h)
    BY <2>2, <1>4
      DEF Call, Add, Offer, Ship, Push, Ipi, Wake, RecvLook, Block, Recheck,
        WalkStep, WalkDone, ToSched, IInv, TypeOK, CallOK, Calls, CallOf,
        Moving
  <2>3. CASE Program(h)
    BY <2>3, <1>4
      DEF Program, Yield, Send, Receive, Spawn, Kill, Return, FailDead, IInv,
        TypeOK, CallOK, Calls, CallOf, Moving
  <2>4. QED BY <2>1, <2>2, <2>3 DEF HartStep
<1>5. QED BY <1>1, <1>2, <1>3, <1>4

\* ReadyHeld: an actor is READY in its own context, or is handed on
LEMMA ReadyStep ==
  ASSUME IInv, Mourning, ReadyHeld, NEW h \in Harts, HartStep(h)
  PROVE  ReadyHeld'
<1> SUFFICES ASSUME NEW a \in Actors, var'[a] = "READY", ~Kept(h, a)'
             PROVE  var[a] = "READY" /\ ~Kept(h, a)
  BY StepIsOwn, FrameReady
<1>1. then[h] = "tosched" => dying[h] = cur[h] /\ cur[h] # NoActor
  BY DEF Mourning
<1>2. dying[h] # NoActor => var[dying[h]] = "DEAD"
  BY DEF Mourning
<1>3. var[a] # "READY" => Moving(h, a)' \/ (Active(h)' /\ cur'[h] = a)
  <2>1. CASE Loop(h)
    BY <2>1
      DEF Loop, DrainVisit, DrainPop, DrainDone, RefillDead, Admit, RefillDone,
        Pop, LookAgain, GoIdle, StealFrom, StealMiss, WfiBell, WfiTimer, Claim,
        After, Reap, Teardown, IInv, TypeOK, CallOK, Calls, CallOf, Moving,
        Active, ActorsOK, HartOK, Live, InContext
  <2>2. CASE Call(h)
    BY <2>2
      DEF Call, Add, Offer, Ship, Push, Ipi, Wake, RecvLook, Block, Recheck,
        WalkStep, WalkDone, ToSched, IInv, TypeOK, CallOK, Calls, CallOf,
        Moving, Active, ActorsOK, HartOK, Live, InContext
  <2>3. CASE Program(h)
    BY <2>3
      DEF Program, Yield, Send, Receive, Spawn, Kill, Return, FailDead, IInv,
        TypeOK, CallOK, Calls, CallOf, Moving, Active, ActorsOK, HartOK, Live,
        InContext
  <2>4. QED BY <2>1, <2>2, <2>3 DEF HartStep
<1>4. var[a] = "READY" /\ Active(h) /\ cur[h] = a =>
          Moving(h, a)' \/ (Active(h)' /\ cur'[h] = a)
  <2>1. CASE Loop(h)
    <3>1. CASE DrainVisit(h) \/ DrainPop(h) \/ DrainDone(h) \/ RefillDead(h) \/
               Admit(h) \/ RefillDone(h) \/ Pop(h) \/ LookAgain(h) \/ GoIdle(h)
      BY SMTT(30), <3>1, <1>1, <1>2
        DEF DrainVisit, DrainPop, DrainDone, RefillDead, Admit, RefillDone,
          Pop, LookAgain, GoIdle, IInv, TypeOK, CallOK, Calls, CallOf, Moving,
          Active, HartOK, InContext, WalkOK, ActorsOK
    <3>2. CASE StealFrom(h) \/ StealMiss(h) \/ WfiBell(h) \/ WfiTimer(h) \/
               Claim(h) \/ After(h) \/ Reap(h) \/ Teardown(h)
      BY SMTT(30), <3>2, <1>1, <1>2
        DEF StealFrom, StealMiss, WfiBell, WfiTimer, Claim, After, Reap,
          Teardown, IInv, TypeOK, CallOK, Calls, CallOf, Moving, Active,
          HartOK, InContext, WalkOK, ActorsOK
    <3>3. QED BY <2>1, <3>1, <3>2 DEF Loop
  <2>2. CASE Call(h)
    BY SMTT(30), <2>2, <1>1, <1>2
      DEF Call, Add, Offer, Ship, Push, Ipi, Wake, RecvLook, Block, Recheck,
        WalkStep, WalkDone, ToSched, IInv, TypeOK, CallOK, Calls, CallOf,
        Moving, Active, HartOK, InContext, WalkOK, ActorsOK
  <2>3. CASE Program(h)
    BY SMTT(30), <2>3, <1>1, <1>2
      DEF Program, Yield, Send, Receive, Spawn, Kill, Return, FailDead, IInv,
        TypeOK, CallOK, Calls, CallOf, Moving, Active, HartOK, InContext,
        WalkOK, ActorsOK
  <2>4. QED BY <2>1, <2>2, <2>3 DEF HartStep
<1>5. var[a] = "READY"
  BY <1>3 DEF Kept
<1>6. ~(Listed(a) \/ InRing(a))
  BY <1>5, QueuedKept DEF Kept, Moving
<1>7. QED BY <1>4, <1>5, <1>6, MovesOn DEF Kept

\* DeadHeld: who is killed was queued, in some hart's hands or parked, and a
\* dead actor is handed on to its reaper
LEMMA DeadStep ==
  ASSUME IInv, Mourning, ReadyHeld, DeadHeld, NEW h \in Harts, HartStep(h)
  PROVE  DeadHeld'
<1> SUFFICES ASSUME NEW a \in Actors, var'[a] = "DEAD", ~reaped'[a], ~KeptDead(h, a)'
             PROVE  \/ var[a] = "DEAD" /\ ~reaped[a] /\ ~KeptDead(h, a)
                    \/ \E g \in Harts \ {h} : Moving(g, a) \/ cur[g] = a
  BY StepIsOwn, FrameDead
<1>1. dying[h] # NoActor => pc[h] = "walk" \/ cont[h] = "walk"
  BY DEF Mourning
<1>2. ~InContext(h) /\ pc[h] # "after" => cur[h] = NoActor
  BY DEF Mourning
<1>3. reaped[a] => reaped'[a]
  <2>1. CASE Loop(h)
    BY <2>1
      DEF Loop, DrainVisit, DrainPop, DrainDone, RefillDead, Admit, RefillDone,
        Pop, LookAgain, GoIdle, StealFrom, StealMiss, WfiBell, WfiTimer, Claim,
        After, Reap, Teardown, IInv, TypeOK, ActorsOK
  <2>2. CASE Call(h)
    BY <2>2
      DEF Call, Add, Offer, Ship, Push, Ipi, Wake, RecvLook, Block, Recheck,
        WalkStep, WalkDone, ToSched, IInv, TypeOK, ActorsOK
  <2>3. CASE Program(h)
    BY <2>3
      DEF Program, Yield, Send, Receive, Spawn, Kill, Return, FailDead, IInv,
        TypeOK, ActorsOK
  <2>4. QED BY <2>1, <2>2, <2>3 DEF HartStep
<1>4. var[a] = "DEAD" /\ cur[h] = a =>
          cur'[h] = a \/ (pc'[h] = "reap" /\ hand'[h] = a)
  <2>1. CASE Loop(h)
    BY SMTT(30), <2>1, <1>2, NoActorNotActor
      DEF Loop, DrainVisit, DrainPop, DrainDone, RefillDead, Admit, RefillDone,
        Pop, LookAgain, GoIdle, StealFrom, StealMiss, WfiBell, WfiTimer, Claim,
        After, Reap, Teardown, IInv, TypeOK, CallOK, Calls, CallOf, HartOK,
        InContext
  <2>2. CASE Call(h)
    BY SMTT(30), <2>2, <1>2, NoActorNotActor
      DEF Call, Add, Offer, Ship, Push, Ipi, Wake, RecvLook, Block, Recheck,
        WalkStep, WalkDone, ToSched, IInv, TypeOK, CallOK, Calls, CallOf,
        HartOK, InContext
  <2>3. CASE Program(h)
    BY SMTT(30), <2>3, <1>2, NoActorNotActor
      DEF Program, Yield, Send, Receive, Spawn, Kill, Return, FailDead, IInv,
        TypeOK, CallOK, Calls, CallOf, HartOK, InContext
  <2>4. QED BY <2>1, <2>2, <2>3 DEF HartStep
<1>5. pc[h] \in {"reap", "teardown"} /\ hand[h] = a =>
          \/ pc'[h] \in {"reap", "teardown"} /\ hand'[h] = a
          \/ \E g \in Harts \ {h} : cur[g] = a
  <2>1. CASE Loop(h)
    <3>1. CASE DrainVisit(h) \/ DrainPop(h) \/ DrainDone(h) \/ RefillDead(h) \/
               Admit(h) \/ RefillDone(h) \/ Pop(h) \/ LookAgain(h) \/ GoIdle(h)
      BY SMTT(60), <3>1
        DEF DrainVisit, DrainPop, DrainDone, RefillDead, Admit, RefillDone,
          Pop, LookAgain, GoIdle, IInv, TypeOK, CallOK, Calls, CallOf,
          ActorsOK, Live, InContext
    <3>2. CASE StealFrom(h) \/ StealMiss(h) \/ WfiBell(h) \/ WfiTimer(h) \/
               Claim(h) \/ After(h) \/ Reap(h) \/ Teardown(h)
      BY SMTT(60), <3>2
        DEF StealFrom, StealMiss, WfiBell, WfiTimer, Claim, After, Reap,
          Teardown, IInv, TypeOK, CallOK, Calls, CallOf, ActorsOK, Live,
          InContext
    <3>3. QED BY <2>1, <3>1, <3>2 DEF Loop
  <2>2. CASE Call(h)
    <3>1. CASE Add(h) \/ Offer(h) \/ Ship(h) \/ Push(h) \/ Ipi(h) \/ Wake(h)
      BY SMTT(60), <3>1
        DEF Add, Offer, Ship, Push, Ipi, Wake, IInv, TypeOK, CallOK, Calls,
          CallOf, ActorsOK, Live, InContext
    <3>2. CASE RecvLook(h) \/ Block(h) \/ Recheck(h) \/ WalkStep(h) \/
               WalkDone(h) \/ ToSched(h)
      BY SMTT(60), <3>2
        DEF RecvLook, Block, Recheck, WalkStep, WalkDone, ToSched, IInv,
          TypeOK, CallOK, Calls, CallOf, ActorsOK, Live, InContext
    <3>3. QED BY <2>2, <3>1, <3>2 DEF Call
  <2>3. CASE Program(h)
    BY SMTT(60), <2>3
      DEF Program, Yield, Send, Receive, Spawn, Kill, Return, FailDead, IInv,
        TypeOK, CallOK, Calls, CallOf, ActorsOK, Live, InContext
  <2>4. QED BY <2>1, <2>2, <2>3 DEF HartStep
<1>6. dying[h] = a /\ then[h] = "ship" =>
          (dying'[h] = a /\ then'[h] = "ship") \/ Moving(h, a)'
  <2>1. CASE Loop(h)
    BY <2>1, <1>1, NoActorNotActor
      DEF Loop, DrainVisit, DrainPop, DrainDone, RefillDead, Admit, RefillDone,
        Pop, LookAgain, GoIdle, StealFrom, StealMiss, WfiBell, WfiTimer, Claim,
        After, Reap, Teardown, IInv, TypeOK, CallOK, Calls, CallOf, Moving,
        WalkOK
  <2>2. CASE Call(h)
    BY <2>2, <1>1, NoActorNotActor
      DEF Call, Add, Offer, Ship, Push, Ipi, Wake, RecvLook, Block, Recheck,
        WalkStep, WalkDone, ToSched, IInv, TypeOK, CallOK, Calls, CallOf,
        Moving, WalkOK
  <2>3. CASE Program(h)
    BY <2>3, <1>1, NoActorNotActor
      DEF Program, Yield, Send, Receive, Spawn, Kill, Return, FailDead, IInv,
        TypeOK, CallOK, Calls, CallOf, Moving, WalkOK
  <2>4. QED BY <2>1, <2>2, <2>3 DEF HartStep
<1>7. var[a] # "DEAD" =>
          \/ cur'[h] = a
          \/ pc[h] = "run" /\ var[a] = "READY" /\ UNCHANGED <<backlog, rq, xr, cur>>
          \/ dying'[h] = a /\ then'[h] = "ship"
  <2>1. CASE Loop(h)
    BY <2>1
      DEF Loop, DrainVisit, DrainPop, DrainDone, RefillDead, Admit, RefillDone,
        Pop, LookAgain, GoIdle, StealFrom, StealMiss, WfiBell, WfiTimer, Claim,
        After, Reap, Teardown, IInv, TypeOK, ActorsOK, WalkOK
  <2>2. CASE Call(h)
    BY <2>2
      DEF Call, Add, Offer, Ship, Push, Ipi, Wake, RecvLook, Block, Recheck,
        WalkStep, WalkDone, ToSched, IInv, TypeOK, ActorsOK, WalkOK
  <2>3. CASE Program(h)
    BY <2>3
      DEF Program, Yield, Send, Receive, Spawn, Kill, Return, FailDead, IInv,
        TypeOK, ActorsOK, WalkOK
  <2>4. QED BY <2>1, <2>2, <2>3 DEF HartStep
<1>8. CASE var[a] # "DEAD"
  <2>1. pc[h] = "run" /\ var[a] = "READY" /\ UNCHANGED <<backlog, rq, xr, cur>>
    BY <1>7, <1>8 DEF KeptDead
  <2>2. ~Listed(a) /\ ~InRing(a) /\ cur[h] # a
    BY <2>1 DEF KeptDead, Listed, InRing
  <2>3. PICK g \in Harts : Moving(g, a) \/ cur[g] = a
    BY <2>1, <2>2 DEF ReadyHeld
  <2>4. g # h
    BY <2>1, <2>2, <2>3 DEF Moving
  <2>5. QED BY <2>3, <2>4
<1>9. CASE var[a] = "DEAD"
  <2>1. ~(Listed(a) \/ InRing(a))
    BY <1>9, QueuedKept DEF KeptDead, Moving
  <2>2. ~Moving(h, a)
    BY MovesOn DEF KeptDead
  <2>3. QED BY <1>3, <1>4, <1>5, <1>6, <1>9, <2>1, <2>2 DEF KeptDead
<1>10. QED BY <1>8, <1>9

\* Rung: a push is followed by its ring of the bell, and a bell is cleared only
\* before a visit to every ring
LEMMA RungStep ==
  ASSUME IInv, Rung, NEW h \in Harts, HartStep(h)
  PROVE  Rung'
<1>1. /\ OwnCall(h) /\ OwnScan(h) /\ OwnTurn(h)
      /\ \A s, d \in Harts : xr[s][d] \in Seq(Actors) /\ Len(xr[s][d]) \in Nat
      /\ \A g \in Harts : snap[g] \in Nat /\ src[g] \in Harts
      /\ \A g \in Harts : tgt[g] \in Harts
  BY StepIsOwn, RingsTyped DEF IInv, TypeOK, ScanOK, CallOK
<1>2. CASE DrainVisit(h)
  <2>1. PICK v \in todo[h] \cap Harts :
          /\ todo' = [todo EXCEPT ![h] = @ \ {v}]
          /\ snap' = [snap EXCEPT ![h] = Len(xr[v][h])]
          /\ src' = [src EXCEPT ![h] = IF xr[v][h] = <<>> THEN h ELSE v]
    BY <1>2 DEF DrainVisit
  <2>2. pc[h] = "drain" /\ snap[h] = 0 /\ UNCHANGED <<xr, pc, cont, tgt, bell>>
    BY <1>2 DEF DrainVisit
  <2>3. ASSUME NEW s \in Harts, NEW d \in Harts, Len(xr[s][d]) > Covered(s, d)'
        PROVE  \/ bell[d] \/ (pc[s] = "ipi" /\ tgt[s] = d)
               \/ Draining(d) /\ s \in todo'[d]
    <3>1. CASE d # h
      BY <1>1, <2>3, <3>1 DEF Rung, Covered, OwnScan, OwnTurn
    <3>2. CASE d = h
      <4>1. Covered(s, h)' = IF src'[h] = s THEN Len(xr[v][h]) ELSE 0
        BY <1>1, <2>1 DEF Covered, IInv, TypeOK, ScanOK
      <4>2. s # v
        BY <1>1, <2>1, <2>3, <3>2, <4>1 DEF IInv, TypeOK, ScanOK
      <4>3. Len(xr[s][h]) > Covered(s, h)
        BY <1>1, <2>2, <2>3, <3>2, <4>1 DEF Covered
      <4>4. QED
        BY <1>1, <2>1, <3>2, <4>2, <4>3 DEF Rung, IInv, TypeOK, ScanOK
    <3>3. QED BY <3>1, <3>2
  <2>4. QED
    BY <1>1, <2>2, <2>3 DEF Rung, Draining, OwnScan
<1>3. CASE DrainPop(h)
  <2>1. /\ \A s, d \in Harts :
             xr'[s][d] = IF s = src[h] /\ d = h THEN Tail(xr[s][d]) ELSE xr[s][d]
        /\ src' = src /\ snap' = [snap EXCEPT ![h] = @ - 1] /\ snap[h] > 0
        /\ UNCHANGED <<todo, tgt, bell>>
        /\ pc'[h] = "add" /\ cont'[h] = "drain" /\ pc[h] = "drain"
    BY <1>1, <1>3 DEF DrainPop, IInv, TypeOK, ListsOK, CallOK
  <2>2. \A s, d \in Harts : Len(xr'[s][d]) > Covered(s, d)' =>
          Len(xr[s][d]) > Covered(s, d)
    <3>1. Len(xr[src[h]][h]) >= snap[h]
      BY <1>1 DEF IInv, Rings
    <3>2. Len(Tail(xr[src[h]][h])) = Len(xr[src[h]][h]) - 1
      BY <1>1, <2>1, <3>1, TailOK
    <3>3. \A s, d \in Harts : ~(s = src[h] /\ d = h) => Covered(s, d)' = Covered(s, d)
      BY <1>1, <2>1 DEF Covered, IInv, TypeOK, ScanOK
    <3>4. (IF src'[h] = src[h] THEN snap'[h] ELSE 0) = Covered(src[h], h) - 1
          /\ Covered(src[h], h) \in Nat
      BY <1>1, <2>1 DEF Covered, IInv, TypeOK, ScanOK
    <3>5. \A s, d \in Harts : Covered(s, d)' = IF src'[d] = s THEN snap'[d] ELSE 0
      BY DEF Covered
    <3>6. ASSUME NEW s \in Harts, NEW d \in Harts, Len(xr'[s][d]) > Covered(s, d)'
          PROVE  Len(xr[s][d]) > Covered(s, d)
      <4>1. CASE s = src[h] /\ d = h
        <5>1. /\ Covered(s, d)' = Covered(s, d) - 1 /\ Covered(s, d) \in Nat
              /\ Len(xr'[s][d]) = Len(xr[s][d]) - 1 /\ Len(xr[s][d]) \in Nat
          BY <1>1, <2>1, <3>2, <3>4, <3>5, <4>1
        <5>2. QED BY <3>6, <5>1
      <4>2. CASE ~(s = src[h] /\ d = h)
        BY <2>1, <3>3, <3>6, <4>2
      <4>3. QED BY <4>1, <4>2
    <3>7. QED BY <3>6
  <2>3. xr'[h][h] = <<>> /\ src[h] # h
    <3>1. xr[h][h] = <<>> /\ Len(xr[h][h]) = 0
      BY DEF Rung
    <3>2. src[h] # h
      BY <1>1, <2>1, <3>1 DEF IInv, Rings
    <3>3. QED BY <1>1, <2>1, <3>1, <3>2
  <2>4. ASSUME NEW s \in Harts, NEW d \in Harts, Len(xr[s][d]) > Covered(s, d)
        PROVE  \/ bell'[d] \/ (pc'[s] = "ipi" /\ tgt'[s] = d)
               \/ Draining(d)' /\ s \in todo'[d]
    BY <1>1, <2>1, <2>4 DEF Rung, Draining, OwnCall, OwnTurn
  <2>5. ASSUME NEW g \in Harts
        PROVE  /\ snap'[g] > 0 => Draining(g)'
               /\ xr'[g][g] = <<>>
               /\ pc'[g] = "push" => tgt'[g] # g
    BY <1>1, <2>1, <2>3 DEF Rung, Draining, OwnCall, OwnScan, OwnTurn
  <2>6. QED
    BY <2>2, <2>4, <2>5 DEF Rung
<1>4. CASE DrainDone(h)
  BY <1>1, <1>4 DEF DrainDone, Rung, Covered, Draining, IInv, TypeOK, ScanOK, CallOK
<1>5. CASE LookAgain(h) \/ WfiBell(h)
  <2>1. /\ pc'[h] = "drain" /\ todo'[h] = Harts \ {h}
        /\ pc[h] \in {"pop", "steal"} /\ UNCHANGED <<xr, cont, tgt, snap, src>>
        /\ bell' = [bell EXCEPT ![h] = FALSE]
    BY <1>5 DEF LookAgain, WfiBell, IInv, TypeOK, CallOK, ScanOK
  <2>2. \A s \in Harts : xr[s][h] # <<>> => s \in todo'[h]
    BY <2>1 DEF Rung
  <2>3. \A g \in Harts \ {h} : bell'[g] = bell[g]
    BY <2>1 DEF IInv, TypeOK, HartOK
  <2>4. \A s \in Harts : Len(xr[s][h]) > Covered(s, h) => xr[s][h] # <<>>
    BY <1>1 DEF Covered
  <2>5. ASSUME NEW s \in Harts, NEW d \in Harts, Len(xr[s][d]) > Covered(s, d)
        PROVE  \/ bell'[d] \/ (pc'[s] = "ipi" /\ tgt'[s] = d)
               \/ Draining(d)' /\ s \in todo'[d]
    <3>1. CASE d = h
      BY <2>1, <2>2, <2>4, <2>5, <3>1 DEF Draining
    <3>2. CASE d # h
      BY <1>1, <2>1, <2>3, <2>5, <3>2 DEF Rung, Draining, OwnCall, OwnTurn
    <3>3. QED BY <3>1, <3>2
  <2>6. \A s, d \in Harts : Covered(s, d)' = Covered(s, d)
    BY <2>1 DEF Covered
  <2>7. QED
    BY <1>1, <2>1, <2>5, <2>6 DEF Rung, Draining, OwnCall, OwnTurn
<1>6. CASE Push(h)
  <2>1. /\ \A s, d \in Harts : s # h \/ d # tgt[h] => xr'[s][d] = xr[s][d]
        /\ pc[h] = "push" /\ pc'[h] = "ipi"
        /\ UNCHANGED <<snap, src, cont, tgt, todo, bell>>
    BY <1>1, <1>6 DEF Push, IInv, TypeOK, ListsOK, CallOK
  <2>2. \A s, d \in Harts : Covered(s, d)' = Covered(s, d)
    BY <2>1 DEF Covered
  <2>3. ASSUME NEW s \in Harts, NEW d \in Harts, Len(xr'[s][d]) > Covered(s, d)'
        PROVE  bell[d] \/ (pc'[s] = "ipi" /\ tgt[s] = d) \/ (Draining(d)' /\ s \in todo[d])
    <3>1. CASE s = h /\ d = tgt[h]
      BY <2>1, <3>1
    <3>2. CASE s # h \/ d # tgt[h]
      <4>1. bell[d] \/ (pc[s] = "ipi" /\ tgt[s] = d) \/ (Draining(d) /\ s \in todo[d])
        BY <2>1, <2>2, <2>3, <3>2 DEF Rung
      <4>2. QED BY <1>1, <2>1, <4>1 DEF Draining, OwnCall
    <3>3. QED BY <3>1, <3>2
  <2>4. \A g \in Harts : /\ snap[g] > 0 => Draining(g)'
                         /\ xr'[g][g] = <<>>
                         /\ pc'[g] = "push" => tgt[g] # g
    BY <1>1, <2>1 DEF Rung, Draining, OwnCall
  <2>5. QED BY <2>1, <2>3, <2>4 DEF Rung
<1>7. ASSUME ~DrainVisit(h), ~DrainPop(h), ~DrainDone(h), ~LookAgain(h), ~WfiBell(h), ~Push(h)
      PROVE  Rung'
  <2>1. UNCHANGED <<xr, snap, src>>
    <3>1. CASE Loop(h)
      BY <3>1, <1>7
        DEF Loop, DrainVisit, DrainPop, DrainDone, RefillDead, Admit,
          RefillDone, Pop, LookAgain, GoIdle, StealFrom, StealMiss, WfiBell,
          WfiTimer, Claim, After, Reap, Teardown
    <3>2. CASE Call(h)
      BY <3>2, <1>7
        DEF Call, Add, Offer, Ship, Push, Ipi, Wake, RecvLook, Block, Recheck,
          WalkStep, WalkDone, ToSched
    <3>3. CASE Program(h)
      BY <3>3, <1>7
        DEF Program, Yield, Send, Receive, Spawn, Kill, Return, FailDead
    <3>4. QED BY <3>1, <3>2, <3>3 DEF HartStep
  <2>2. \A g \in Harts : bell[g] => bell'[g]
    <3>1. CASE Loop(h)
      BY <3>1, <1>7
        DEF Loop, DrainVisit, DrainPop, DrainDone, RefillDead, Admit,
          RefillDone, Pop, LookAgain, GoIdle, StealFrom, StealMiss, WfiBell,
          WfiTimer, Claim, After, Reap, Teardown, IInv, TypeOK, HartOK
    <3>2. CASE Call(h)
      BY <3>2, <1>7
        DEF Call, Add, Offer, Ship, Push, Ipi, Wake, RecvLook, Block, Recheck,
          WalkStep, WalkDone, ToSched, IInv, TypeOK, HartOK
    <3>3. CASE Program(h)
      BY <3>3, <1>7
        DEF Program, Yield, Send, Receive, Spawn, Kill, Return, FailDead, IInv,
          TypeOK, HartOK
    <3>4. QED BY <3>1, <3>2, <3>3 DEF HartStep
  <2>3. Draining(h) => Draining(h)' /\ todo[h] \cap Harts \subseteq todo'[h]
    <3>1. CASE Loop(h)
      BY <3>1, <1>7, NoActorNotActor
        DEF Loop, DrainVisit, DrainPop, DrainDone, RefillDead, Admit,
          RefillDone, Pop, LookAgain, GoIdle, StealFrom, StealMiss, WfiBell,
          WfiTimer, Claim, After, Reap, Teardown, IInv, TypeOK, CallOK, Calls,
          CallOf, Draining, ScanOK
    <3>2. CASE Call(h)
      BY <3>2, <1>7, NoActorNotActor
        DEF Call, Add, Offer, Ship, Push, Ipi, Wake, RecvLook, Block, Recheck,
          WalkStep, WalkDone, ToSched, IInv, TypeOK, CallOK, Calls, CallOf,
          Draining, ScanOK
    <3>3. CASE Program(h)
      BY <3>3, <1>7, NoActorNotActor
        DEF Program, Yield, Send, Receive, Spawn, Kill, Return, FailDead, IInv,
          TypeOK, CallOK, Calls, CallOf, Draining, ScanOK
    <3>4. QED BY <3>1, <3>2, <3>3 DEF HartStep
  <2>4. \A d \in Harts : pc[h] = "ipi" /\ tgt[h] = d =>
          bell'[d] \/ (pc'[h] = "ipi" /\ tgt'[h] = d)
    <3>1. CASE Loop(h)
      BY <3>1, <1>7
        DEF Loop, DrainVisit, DrainPop, DrainDone, RefillDead, Admit,
          RefillDone, Pop, LookAgain, GoIdle, StealFrom, StealMiss, WfiBell,
          WfiTimer, Claim, After, Reap, Teardown, IInv, TypeOK, CallOK, Calls,
          CallOf, HartOK, Conts
    <3>2. CASE Call(h)
      BY <3>2, <1>7
        DEF Call, Add, Offer, Ship, Push, Ipi, Wake, RecvLook, Block, Recheck,
          WalkStep, WalkDone, ToSched, IInv, TypeOK, CallOK, Calls, CallOf,
          HartOK, Conts
    <3>3. CASE Program(h)
      BY <3>3, <1>7
        DEF Program, Yield, Send, Receive, Spawn, Kill, Return, FailDead, IInv,
          TypeOK, CallOK, Calls, CallOf, HartOK, Conts
    <3>4. QED BY <3>1, <3>2, <3>3 DEF HartStep
  <2>5. pc'[h] = "push" => tgt'[h] # h
    <3>1. CASE Ship(h)
      BY <1>1, <3>1 DEF Ship, IInv, TypeOK, CallOK
    <3>2. ASSUME ~Ship(h)
          PROVE  pc'[h] # "push"
      <4>1. CASE Loop(h)
        <5>1. CASE DrainVisit(h) \/ DrainPop(h) \/ DrainDone(h) \/
                   RefillDead(h) \/ Admit(h) \/ RefillDone(h) \/ Pop(h) \/
                   LookAgain(h) \/ GoIdle(h)
          BY SMTT(30), <5>1, <1>7, <3>2
            DEF DrainVisit, DrainPop, DrainDone, RefillDead, Admit, RefillDone,
              Pop, LookAgain, GoIdle, IInv, TypeOK, CallOK, Calls, CallOf,
              Conts, WalkOK
        <5>2. CASE StealFrom(h) \/ StealMiss(h) \/ WfiBell(h) \/ WfiTimer(h) \/
                   Claim(h) \/ After(h) \/ Reap(h) \/ Teardown(h)
          BY SMTT(30), <5>2, <1>7, <3>2
            DEF StealFrom, StealMiss, WfiBell, WfiTimer, Claim, After, Reap,
              Teardown, IInv, TypeOK, CallOK, Calls, CallOf, Conts, WalkOK
        <5>3. QED BY <4>1, <5>1, <5>2 DEF Loop
      <4>2. CASE Call(h)
        <5>1. CASE Add(h) \/ Offer(h) \/ Ship(h) \/ Push(h) \/ Ipi(h) \/
                   Wake(h)
          BY SMTT(30), <5>1, <1>7, <3>2
            DEF Add, Offer, Ship, Push, Ipi, Wake, IInv, TypeOK, CallOK, Calls,
              CallOf, Conts, WalkOK
        <5>2. CASE RecvLook(h) \/ Block(h) \/ Recheck(h) \/ WalkStep(h) \/
                   WalkDone(h) \/ ToSched(h)
          BY SMTT(30), <5>2, <1>7, <3>2
            DEF RecvLook, Block, Recheck, WalkStep, WalkDone, ToSched, IInv,
              TypeOK, CallOK, Calls, CallOf, Conts, WalkOK
        <5>3. QED BY <4>2, <5>1, <5>2 DEF Call
      <4>3. CASE Program(h)
        BY SMTT(30), <4>3, <1>7, <3>2
          DEF Program, Yield, Send, Receive, Spawn, Kill, Return, FailDead,
            IInv, TypeOK, CallOK, Calls, CallOf, Conts, WalkOK
      <4>4. QED BY <4>1, <4>2, <4>3 DEF HartStep
    <3>3. QED BY <3>1, <3>2
  <2>6. QED BY <1>1, <2>1, <2>2, <2>3, <2>4, <2>5, FrameRung
<1>8. QED BY <1>2, <1>3, <1>4, <1>5, <1>6, <1>7

\* Batch: a refill that leaves entries behind filled the batch, and a hart pops
\* past its batch only what died
LEMMA BatchStep ==
  ASSUME IInv, Parked, Batch, NEW h \in Harts, HartStep(h), TypeOK'
  PROVE  Batch'
<1>1. /\ OwnCall(h) /\ \A g \in Harts : rq[g] \subseteq Actors
      /\ pc[h] = "steal" => rq[h] = {}
  BY StepIsOwn DEF Batch, IInv, TypeOK, ListsOK
<1>9. \A g \in Harts \ {h} : rq'[g] = rq[g]
  <2>1. CASE Loop(h)
    BY <2>1
      DEF Loop, DrainVisit, DrainPop, DrainDone, RefillDead, Admit, RefillDone,
        Pop, LookAgain, GoIdle, StealFrom, StealMiss, WfiBell, WfiTimer, Claim,
        After, Reap, Teardown, IInv, TypeOK, ListsOK
  <2>2. CASE Call(h)
    BY <2>2
      DEF Call, Add, Offer, Ship, Push, Ipi, Wake, RecvLook, Block, Recheck,
        WalkStep, WalkDone, ToSched, IInv, TypeOK, ListsOK
  <2>3. CASE Program(h)
    BY <2>3
      DEF Program, Yield, Send, Receive, Spawn, Kill, Return, FailDead, IInv,
        TypeOK, ListsOK
  <2>4. QED BY <2>1, <2>2, <2>3 DEF HartStep
<1>10. \A g \in Harts \ {h} : backlog'[g] \subseteq backlog[g]
  <2>1. CASE StealFrom(h)
    BY <2>1 DEF StealFrom, IInv, TypeOK, ListsOK
  <2>2. ASSUME ~StealFrom(h)
        PROVE  \A g \in Harts \ {h} : backlog'[g] = backlog[g]
    <3>1. CASE Loop(h)
      BY <3>1, <2>2
        DEF Loop, DrainVisit, DrainPop, DrainDone, RefillDead, Admit,
          RefillDone, Pop, LookAgain, GoIdle, StealFrom, StealMiss, WfiBell,
          WfiTimer, Claim, After, Reap, Teardown, IInv, TypeOK, ListsOK
    <3>2. CASE Call(h)
      BY <3>2, <2>2
        DEF Call, Add, Offer, Ship, Push, Ipi, Wake, RecvLook, Block, Recheck,
          WalkStep, WalkDone, ToSched, IInv, TypeOK, ListsOK
    <3>3. CASE Program(h)
      BY <3>3, <2>2
        DEF Program, Yield, Send, Receive, Spawn, Kill, Return, FailDead, IInv,
          TypeOK, ListsOK
    <3>4. QED BY <3>1, <3>2, <3>3 DEF HartStep
  <2>3. QED BY <2>1, <2>2
<1>11. \A g \in Harts \ {h} : fell'[g] = fell[g]
  <2>1. CASE Loop(h)
    BY <2>1
      DEF Loop, DrainVisit, DrainPop, DrainDone, RefillDead, Admit, RefillDone,
        Pop, LookAgain, GoIdle, StealFrom, StealMiss, WfiBell, WfiTimer, Claim,
        After, Reap, Teardown, IInv, TypeOK, ScanOK, scan
  <2>2. CASE Call(h)
    BY <2>2
      DEF Call, Add, Offer, Ship, Push, Ipi, Wake, RecvLook, Block, Recheck,
        WalkStep, WalkDone, ToSched, scan
  <2>3. CASE Program(h)
    BY <2>3
      DEF Program, Yield, Send, Receive, Spawn, Kill, Return, Die, FailDead, scan
  <2>4. QED BY <2>1, <2>2, <2>3 DEF HartStep
<1>2. OwnBatch(h)
  BY <1>9, <1>10, <1>11 DEF OwnBatch
<1>3. pc'[h] = "steal" => rq'[h] = {}
  <2>1. CASE Loop(h)
    BY <2>1, <1>1
      DEF Loop, DrainVisit, DrainPop, DrainDone, RefillDead, Admit, RefillDone,
        Pop, LookAgain, GoIdle, StealFrom, StealMiss, WfiBell, WfiTimer, Claim,
        After, Reap, Teardown, IInv, TypeOK, CallOK, Calls, CallOf, Conts,
        WalkOK
  <2>2. CASE Call(h)
    BY <2>2, <1>1
      DEF Call, Add, Offer, Ship, Push, Ipi, Wake, RecvLook, Block, Recheck,
        WalkStep, WalkDone, ToSched, IInv, TypeOK, CallOK, Calls, CallOf,
        Conts, WalkOK
  <2>3. CASE Program(h)
    BY <2>3, <1>1
      DEF Program, Yield, Send, Receive, Spawn, Kill, Return, FailDead, IInv,
        TypeOK, CallOK, Calls, CallOf, Conts, WalkOK
  <2>4. QED BY <2>1, <2>2, <2>3 DEF HartStep
<1>4. CASE Admit(h) \/ (RefillDone(h) /\ Cardinality(rq[h]) >= RQ_CAP)
  <2>1. pc'[h] = "pop" => Cardinality(rq'[h]) >= RQ_CAP
    <3>1. CASE Admit(h)
      <4>1. PICK a \in backlog[h] : rq' = [rq EXCEPT ![h] = @ \cup {a}]
        BY <3>1 DEF Admit
      <4>2. a \notin rq[h] /\ rq'[h] = rq[h] \cup {a} /\ IsFiniteSet(rq[h])
        BY <1>1, <4>1, FS_Subset, SchedAssumption DEF IInv, Queues, TypeOK, ListsOK
      <4>3. Cardinality(rq'[h]) = Cardinality(rq[h]) + 1 /\ Cardinality(rq[h]) \in Nat
        BY <4>2, FS_AddElement, FS_CardinalityType
      <4>4. pc'[h] = IF Cardinality(rq[h]) + 1 < RQ_CAP THEN "refill" ELSE "pop"
        BY <3>1 DEF Admit, IInv, TypeOK, CallOK
      <4>5. QED BY <4>3, <4>4, SchedAssumption
    <3>2. CASE RefillDone(h) /\ Cardinality(rq[h]) >= RQ_CAP
      BY <3>2 DEF RefillDone
    <3>3. QED BY <1>4, <3>1, <3>2
  <2>2. pc'[h] \in {"refill", "pop"} /\ cont'[h] = "none"
    BY <1>4 DEF Admit, RefillDone, IInv, TypeOK, CallOK, Calls, CallOf
  <2>3. Cardinality(rq'[h]) >= RQ_CAP => Cardinality(rq'[h] \cup fell'[h]) >= RQ_CAP
    <3>1. rq'[h] \subseteq Actors /\ fell'[h] \subseteq Actors
      BY DEF TypeOK, ListsOK, ScanOK
    <3>2. IsFiniteSet(rq'[h] \cup fell'[h]) /\ IsFiniteSet(rq'[h])
      BY <3>1, FS_Subset, SchedAssumption
    <3>3. Cardinality(rq'[h]) <= Cardinality(rq'[h] \cup fell'[h])
      BY <3>2, FS_Subset
    <3>4. QED BY <3>2, <3>3, FS_CardinalityType, SchedAssumption
  <2>4. Popping(h)' => Cardinality(rq'[h] \cup fell'[h]) >= RQ_CAP
    BY <2>1, <2>2, <2>3 DEF Popping
  <2>5. QED BY <1>1, <1>2, <1>3, <2>4, OthersBatch DEF IInv
<1>5. CASE RefillDone(h) /\ ~(Cardinality(rq[h]) >= RQ_CAP)
  <2>1. backlog'[h] = {}
    BY <1>5 DEF RefillDone, IInv, TypeOK, ListsOK
  <2>2. QED BY <1>1, <1>2, <1>3, <2>1, FrameBatch DEF IInv
<1>6. CASE Pop(h)
  <2>1. PICK a \in rq[h] :
          /\ rq' = [rq EXCEPT ![h] = @ \ {a}]
          /\ \/ var[a] = "READY" /\ pc'[h] = "claim" /\ cont'[h] = "none"
             \/ var[a] = "DEAD" /\ fell' = [fell EXCEPT ![h] = @ \cup {a}]
             \/ var[a] = "BLOCKED"
    BY <1>6 DEF Pop, Start, Goto, IInv, TypeOK, CallOK
  <2>2. a \in Actors /\ var[a] # "BLOCKED" /\ rq'[h] = rq[h] \ {a}
    BY <1>1, <2>1 DEF Parked, IInv, TypeOK, ListsOK
  <2>3. Popping(h)' => fell'[h] = fell[h] \cup {a}
    BY <2>1, <2>2 DEF Popping, IInv, TypeOK, ScanOK
  <2>4. Popping(h) /\ backlog' = backlog
    BY <1>6 DEF Pop, Popping
  <2>5. QED BY <1>1, <1>2, <1>3, <2>2, <2>3, <2>4, FrameBatch DEF IInv
<1>7. ASSUME ~Admit(h), ~RefillDone(h), ~Pop(h)
      PROVE  Batch'
  <2>1. Popping(h)' /\ backlog'[h] # {} =>
          /\ Popping(h) /\ backlog[h] # {}
          /\ rq[h] \cup fell[h] \subseteq rq'[h] \cup fell'[h]
    <3>1. CASE Loop(h)
      <4>1. CASE DrainVisit(h) \/ DrainPop(h) \/ DrainDone(h) \/ RefillDead(h)
                 \/ Admit(h) \/ RefillDone(h) \/ Pop(h) \/ LookAgain(h) \/
                 GoIdle(h)
        BY SMTT(60), <4>1, <1>7
          DEF DrainVisit, DrainPop, DrainDone, RefillDead, Admit, RefillDone,
            Pop, LookAgain, GoIdle, IInv, TypeOK, CallOK, Calls, CallOf, Conts,
            Popping, WalkOK, scan
      <4>2. CASE StealFrom(h) \/ StealMiss(h) \/ WfiBell(h) \/ WfiTimer(h) \/
                 Claim(h) \/ After(h) \/ Reap(h) \/ Teardown(h)
        BY SMTT(60), <4>2, <1>7
          DEF StealFrom, StealMiss, WfiBell, WfiTimer, Claim, After, Reap,
            Teardown, IInv, TypeOK, CallOK, Calls, CallOf, Conts, Popping,
            WalkOK, scan
      <4>3. QED BY <3>1, <4>1, <4>2 DEF Loop
    <3>2. CASE Call(h)
      <4>1. CASE Add(h) \/ Offer(h) \/ Ship(h) \/ Push(h) \/ Ipi(h) \/ Wake(h)
        BY SMTT(60), <4>1, <1>7
          DEF Add, Offer, Ship, Push, Ipi, Wake, IInv, TypeOK, CallOK, Calls,
            CallOf, Conts, Popping, WalkOK, scan
      <4>2. CASE RecvLook(h) \/ Block(h) \/ Recheck(h) \/ WalkStep(h) \/
                 WalkDone(h) \/ ToSched(h)
        BY SMTT(60), <4>2, <1>7
          DEF RecvLook, Block, Recheck, WalkStep, WalkDone, ToSched, IInv,
            TypeOK, CallOK, Calls, CallOf, Conts, Popping, WalkOK, scan
      <4>3. QED BY <3>2, <4>1, <4>2 DEF Call
    <3>3. CASE Program(h)
      BY SMTT(60), <3>3, <1>7
        DEF Program, Yield, Send, Receive, Spawn, Kill, Return, FailDead, IInv,
          TypeOK, CallOK, Calls, CallOf, Conts, Popping, WalkOK, scan
    <3>4. QED BY <3>1, <3>2, <3>3 DEF HartStep
  <2>2. QED BY <1>1, <1>2, <1>3, <2>1, FrameBatch DEF IInv
<1>8. QED BY <1>4, <1>5, <1>6, <1>7
\* the invariant holds when fpr_actors_init is done
LEMMA WorkInit == Init => WInv
<1> SUFFICES ASSUME Init PROVE WInv
  OBVIOUS
<1> USE SchedAssumption DEF Init
<1>1. \A h \in Harts : ~InContext(h) /\ ~Popping(h)
  BY DEF InContext, Popping
<1>2. Mourning
  BY <1>1 DEF Mourning
<1>3. Parked
  BY <1>1 DEF Parked
<1>4. NoLostWake
  BY DEF NoLostWake
<1>5. 0 \in Harts
  BY DEF Harts
<1>6. ReadyHeld
  BY <1>5 DEF ReadyHeld, Listed
<1>7. DeadHeld
  BY DEF DeadHeld
<1>8. Rung
  <2>1. \A s, d \in Harts : xr[s][d] = <<>> /\ Len(xr[s][d]) = 0 /\ Covered(s, d) = 0
    BY DEF Covered
  <2>2. QED BY <2>1 DEF Rung
<1>9. Batch
  BY <1>1 DEF Batch, Popping
<1>10. QED BY <1>2, <1>3, <1>4, <1>6, <1>7, <1>8, <1>9 DEF WInv

\* every step keeps it
LEMMA WorkStep == IInv /\ WInv /\ [Next]_vars => WInv'
<1> SUFFICES ASSUME IInv, WInv, [Next]_vars PROVE WInv'
  OBVIOUS
<1>1. CASE Next
  <2>1. PICK h \in Harts : HartStep(h)
    BY <1>1 DEF Next
  <2>2. \A a \in Actors : var[a] = "DEAD" => var'[a] = "DEAD"
    BY StepStayDead
  <2>3. TypeOK'
    BY StepInv DEF IInv
  <2>4. QED
    BY <2>1, <2>2, <2>3, MourningStep, ParkedStep, LostWakeStep, ReadyStep,
       DeadStep, RungStep, BatchStep DEF WInv
<1>2. CASE UNCHANGED vars
  <2>1. Mourning'
    BY <1>2 DEF WInv, Mourning, InContext, vars
  <2>2. Parked'
    BY <1>2 DEF WInv, Parked, InContext, vars
  <2>3. NoLostWake'
    BY <1>2 DEF WInv, NoLostWake, Pred, vars
  <2>4. ReadyHeld'
    BY <1>2 DEF WInv, ReadyHeld, Listed, InRing, Moving, Active, InContext, vars
  <2>5. DeadHeld'
    BY <1>2 DEF WInv, DeadHeld, Listed, InRing, Moving, vars
  <2>6. Rung'
    BY <1>2 DEF WInv, Rung, Covered, Draining, vars
  <2>7. Batch'
    BY <1>2 DEF WInv, Batch, Popping, scan, vars
  <2>8. QED BY <2>1, <2>2, <2>3, <2>4, <2>5, <2>6, <2>7 DEF WInv
<1>3. QED BY <1>1, <1>2

\* What the scheduler keeps track of holds of every behaviour, whatever the
\* number of harts and actors, the programs, and the sizes of rings and batches.
THEOREM WorkInvariant == Spec => [](IInv /\ WInv)
<1>1. QED BY InitInv, StepInv, WorkInit, WorkStep, PTL DEF Spec

\* No actor falls between the queues: one that is ready, or dead and not yet
\* reaped, is queued, on a ring or in a hart's hands, whatever was killed,
\* stolen or woken meanwhile (the leak a_kill's last comment is about).
THEOREM NothingLostHolds == Spec => []NothingLost
<1>1. WInv => NothingLost
  <2> SUFFICES ASSUME WInv, NEW a \in Actors,
                      var[a] = "READY" \/ (var[a] = "DEAD" /\ ~reaped[a])
               PROVE  Tracked(a)
    BY DEF NothingLost
  <2>1. \/ Listed(a) \/ InRing(a)
        \/ \E h \in Harts :
             \/ Moving(h, a) \/ cur[h] = a
             \/ pc[h] \in {"reap", "teardown"} /\ hand[h] = a
             \/ dying[h] = a /\ then[h] = "ship"
    BY DEF WInv, ReadyHeld, DeadHeld
  <2>2. QED BY <2>1 DEF Tracked, Held, Moving
<1>2. QED BY <1>1, WorkInvariant, PTL

\* The two halves of block_unless and of the senders meet: an actor is parked
\* on a condition that holds only while a hart is about to wake it.
THEOREM NoLostWakeHolds == Spec => []NoLostWake
<1>1. WInv => NoLostWake
  BY DEF WInv
<1>2. QED BY <1>1, WorkInvariant, PTL

\* A hart with its doorbell down does not sleep (hal_wfi) on work that was
\* shipped to it, nor on a READY entry of its own unless this very look of deq
\* popped a full batch of RQ_CAP actors, each killed since it was admitted.
THEOREM NoSleepOnWorkHolds == Spec => []NoSleepOnWork
<1>1. IInv /\ WInv => NoSleepOnWork
  <2> SUFFICES ASSUME IInv, WInv, NEW h \in Harts, Asleep(h), ~bell[h]
               PROVE  /\ \A s \in Harts : xr[s][h] # <<>> => pc[s] = "ipi" /\ tgt[s] = h
                      /\ rq[h] = {}
                      /\ Cardinality(fell[h]) < RQ_CAP =>
                           \A a \in backlog[h] : var[a] # "READY"
    BY DEF NoSleepOnWork
  <2>1. pc[h] = "steal" /\ cont[h] = "none"
    BY DEF Asleep, IInv, Calls, CallOf
  <2>2. snap[h] = 0 /\ ~Draining(h)
    BY <2>1 DEF WInv, Rung, Draining, IInv, TypeOK, ScanOK
  <2>3. ASSUME NEW s \in Harts, xr[s][h] # <<>>
        PROVE  pc[s] = "ipi" /\ tgt[s] = h
    <3>1. xr[s][h] \in Seq(Actors)
      BY RingsTyped DEF IInv
    <3>2. Len(xr[s][h]) > 0
      BY <2>3, <3>1
    <3>3. Covered(s, h) = 0
      BY <2>2 DEF Covered
    <3>4. QED BY <2>2, <3>2, <3>3 DEF WInv, Rung
  <2>4. rq[h] = {} /\ (backlog[h] # {} => Cardinality(rq[h] \cup fell[h]) >= RQ_CAP)
    BY <2>1 DEF WInv, Batch, Popping
  <2>5. rq[h] \cup fell[h] = fell[h]
    BY <2>4
  <2>6. Cardinality(fell[h]) \in Nat
    <3>1. fell[h] \subseteq Actors
      BY DEF IInv, TypeOK, ScanOK
    <3>2. QED BY <3>1, FS_Subset, FS_CardinalityType, SchedAssumption
  <2>7. Cardinality(fell[h]) < RQ_CAP => backlog[h] = {}
    BY <2>4, <2>5, <2>6, SchedAssumption
  <2>8. QED BY <2>3, <2>4, <2>7
<1>2. QED BY <1>1, WorkInvariant, PTL
=============================================================================
