----------------------------- MODULE HostProofs -----------------------------
(***************************************************************************)
(* The proofs about module Host: the interrupt router and the watcher's    *)
(* part in it, the resolver's counted blocks and places, and the job       *)
(* broker; for any number of sources, binders, clients, lookups and jobs.  *)
(*                                                                         *)
(* RouterInv ties the states of the watcher, its thread, its waker and its *)
(* service to each other, says what the waker has asked of the router and  *)
(* where it is bound, and that no source has two users. From it an unbound *)
(* waker hears nothing more (UnboundIsLast).                               *)
(*                                                                         *)
(* ResolverIInv says where each call of an actor stands and which block it *)
(* has in hand, so that every reference a count stands for has one holder  *)
(* (HostCounted).                                                          *)
(*                                                                         *)
(* A helper is clean unless its source came to it with something of the    *)
(* source's last user under way. JobsInv says that a job a clean helper    *)
(* waits for is in one place, the queue, the broker or on its way back as  *)
(* an interrupt, and on its way back its result is stored; that what is    *)
(* under way on any other source is no clean helper's; and that there are  *)
(* other helpers only where a watcher shares the sources (HelpersRight).   *)
(***************************************************************************)
EXTENDS Host, FiniteSetTheorems, WellFoundedInduction, TLAPS

-----------------------------------------------------------------------------
(* The resolver: the invariant                                             *)

\* the counted block with this name has been made
Blocked(id) == IF id = Pool THEN pool.life # "none" ELSE job[id].life # "none"

\* which place each call of an actor names
CallShape == \A a \in Actors :
    /\ actor[a].pc \in {"idle", "dead"} => actor[a].at = Nobody
    /\ actor[a].pc \in {"reserved", "registered"} => actor[a].at \in Jobnames
    /\ actor[a].pc = "closing" => actor[a].at \in Ids

\* no two calls are at one place
OneAt == \A a, b \in Actors : actor[a].at = actor[b].at /\ actor[a].at # Nobody => a = b

\* what a call has in hand: a reserved name has no block yet, a registered job is live and
\* its caller's, a block being closed or destroyed is out of the registry
InHand == \A a \in Actors :
    /\ actor[a].pc = "reserved" => job[actor[a].at].life = "none"
    /\ actor[a].pc = "registered" =>
          /\ job[actor[a].at].life = "live" /\ registry[actor[a].at] = a
          /\ worker[actor[a].at] = "none"
    /\ actor[a].pc \in {"closing", "dying"} /\ actor[a].at # Nobody =>
          registry[actor[a].at] = Nobody /\ Blocked(actor[a].at)

\* a block not made is nobody's
NoBlock ==
    /\ pool.life = "none" => registry[Pool] = Nobody /\ InFlight = {}
    /\ \A j \in Jobnames : job[j].life = "none" => registry[j] = Nobody /\ worker[j] = "none"

\* The inductive invariant of the resolver.
ResolverIInv == ResolverTypeOK /\ CallShape /\ OneAt /\ InHand /\ NoBlock /\ CountsExact

-----------------------------------------------------------------------------
(* The resolver: counted blocks and places                                 *)

\* the record of a job, and who does what with it
Block == [life : {"none", "live", "freed"}, refs : 0 .. 2, done : BOOLEAN]
Calling(id, pcs) == \E a \in Actors : actor[a].pc \in pcs /\ actor[a].at = id
Running(j) == worker[j] \in {"lookup", "pool"}

\* only actor a's call moves
Alone(a) == \A b \in Actors \ {a} : actor'[b] = actor[b]

\* what letting go of a job does to its block
LEMMA JobPutIs ==
  ASSUME NEW b \in Block, b.refs # 0
  PROVE  /\ job_put(b) \in Block
         /\ job_put(b).refs = b.refs - 1
         /\ job_put(b).life = IF b.refs = 1 THEN "freed" ELSE b.life
<1>1. b.life \in {"none", "live", "freed"} /\ b.refs \in 0 .. 2 /\ b.done \in BOOLEAN
  BY DEF Block
<1>2. b.refs - 1 \in 0 .. 2
  BY <1>1
<1>3. PICK n \in 0 .. 2 : n = b.refs - 1
  BY <1>2
<1>4. job_put(b) = [b EXCEPT !.refs = n, !.life = IF b.refs = 1 THEN "freed" ELSE b.life]
  BY <1>3 DEF job_put
<1> QED BY <1>1, <1>3, <1>4 DEF Block

\* what letting go of the pool does to its block
LEMMA PoolPutIs ==
  ASSUME NEW p, NEW n \in Nat,
         p \in [life : {"none", "live", "freed"}, refs : 0 .. n + 1, active : 0 .. n, closed : BOOLEAN],
         p.refs # 0, NEW fin \in BOOLEAN, fin => p.active # 0
  PROVE  /\ pool_put(p, fin) \in [life : {"none", "live", "freed"}, refs : 0 .. n + 1,
                                  active : 0 .. n, closed : BOOLEAN]
         /\ pool_put(p, fin).refs = p.refs - 1
         /\ pool_put(p, fin).active = IF fin THEN p.active - 1 ELSE p.active
         /\ pool_put(p, fin).life = IF p.refs = 1 THEN "freed" ELSE p.life
<1> DEFINE P == [life : {"none", "live", "freed"}, refs : 0 .. n + 1, active : 0 .. n, closed : BOOLEAN]
<1>1. /\ p.life \in {"none", "live", "freed"} /\ p.closed \in BOOLEAN
      /\ p.refs \in 0 .. n + 1 /\ p.active \in 0 .. n
  OBVIOUS
<1>2. PICK r \in 0 .. n + 1 : r = p.refs - 1
  BY <1>1
<1>3. PICK m \in 0 .. n : m = IF fin THEN p.active - 1 ELSE p.active
  BY <1>1
<1>4. PICK l \in {"none", "live", "freed"} : l = IF p.refs = 1 THEN "freed" ELSE p.life
  BY <1>1
<1>5. pool_put(p, fin) = [p EXCEPT !.refs = r, !.active = m, !.life = l]
  BY <1>2, <1>3, <1>4 DEF pool_put
<1>6. /\ pool_put(p, fin) \in P
      /\ pool_put(p, fin).refs = r /\ pool_put(p, fin).active = m /\ pool_put(p, fin).life = l
  BY <1>5
<1> QED BY <1>2, <1>3, <1>4, <1>6

\* the lookups in flight are finitely many
LEMMA FlightFinite ==
  ASSUME CallShape
  PROVE  /\ InFlight \subseteq Jobnames /\ IsFiniteSet(InFlight)
         /\ Cardinality(InFlight) \in Nat /\ Cardinality(InFlight) <= Cardinality(Jobnames)
         /\ Cardinality(Jobnames) \in Nat
<1>1. InFlight \subseteq Jobnames
  BY DEF InFlight, CallShape
<1> QED BY <1>1, ResolverAssumption, FS_Subset, FS_CardinalityType

\* a lookup is in flight while its worker runs or its caller has begun it
LEMMA FlightIs ==
  ASSUME CallShape, NEW j \in Jobnames
  PROVE  j \in InFlight <=> Running(j) \/ Calling(j, {"reserved", "registered"})
BY DEF InFlight, CallShape, Running, Calling

\* the same after a step
LEMMA FlightIsNext ==
  ASSUME CallShape', NEW j \in Jobnames
  PROVE  (j \in InFlight)' <=> Running(j)' \/ Calling(j, {"reserved", "registered"})'
BY DEF InFlight, CallShape, Running, Calling

\* the flight after a step is told job by job
LEMMA FlightSame ==
  ASSUME CallShape, CallShape',
         \A j \in Jobnames : (j \in InFlight)' <=> j \in InFlight
  PROVE  InFlight' = InFlight
BY FlightFinite DEF InFlight, CallShape

\* one lookup more in flight
LEMMA FlightMore ==
  ASSUME CallShape, CallShape', NEW k \in Jobnames, k \notin InFlight,
         \A j \in Jobnames : (j \in InFlight)' <=> j \in InFlight \/ j = k
  PROVE  InFlight' = InFlight \union {k} /\ Cardinality(InFlight') = Cardinality(InFlight) + 1
<1>1. InFlight' \subseteq Jobnames /\ InFlight \subseteq Jobnames
  BY DEF InFlight, CallShape
<1>2. InFlight' = InFlight \union {k}
  BY <1>1
<1> QED BY <1>2, FlightFinite, FS_AddElement

\* one lookup less in flight
LEMMA FlightLess ==
  ASSUME CallShape, CallShape', NEW k \in Jobnames, k \in InFlight,
         \A j \in Jobnames : (j \in InFlight)' <=> j \in InFlight /\ j # k
  PROVE  InFlight' = InFlight \ {k} /\ Cardinality(InFlight') = Cardinality(InFlight) - 1
<1>1. InFlight' \subseteq Jobnames /\ InFlight \subseteq Jobnames
  BY DEF InFlight, CallShape
<1>2. InFlight' = InFlight \ {k}
  BY <1>1
<1> QED BY <1>2, FlightFinite, FS_RemoveElement

\* the two kinds of user a block is counted for
Held(id) == Registered(id) \/ Calling(id, {"closing", "dying"})
Threaded(j) == worker[j] \in {"lookup", "pool", "job"} \/ Calling(j, {"registered"})
Own(id) == IF Held(id) THEN 1 ELSE 0
Thread(j) == IF Threaded(j) THEN 1 ELSE 0

\* where the calls are after actor a's has moved
LEMMA CallingMoves ==
  ASSUME OneAt, NEW a \in Actors, Alone(a), NEW id, id # Nobody, NEW pcs
  PROVE  Calling(id, pcs)' <=> \/ actor'[a].pc \in pcs /\ actor'[a].at = id
                               \/ Calling(id, pcs) /\ actor[a].at # id
BY DEF OneAt, Alone, Calling

\* the counts of one job and of the pool, in words that move with a call
JobRight(j) ==
  job[j].life # "none" =>
    /\ job[j].refs = Own(j) + Thread(j)
    /\ job[j].life = "freed" <=> job[j].refs = 0

\* the jobs' counts, job by job
LEMMA JobExactIs ==
  ASSUME ResolverTypeOK
  PROVE  JobExact <=> \A j \in Jobnames : JobRight(j)
<1>1. \A j \in Jobnames :
        Threaded(j) <=> \/ worker[j] \in {"lookup", "pool", "job"}
                        \/ \E a \in Actors : actor[a] = [pc |-> "registered", at |-> j]
  <2>1. \A a \in Actors : actor[a] \in [pc : Steps, at : Ids \union {Nobody}]
    BY DEF ResolverTypeOK
  <2>2. \A j \in Jobnames : Calling(j, {"registered"})
                              <=> \E a \in Actors : actor[a] = [pc |-> "registered", at |-> j]
    BY <2>1 DEF Calling
  <2> QED BY <2>2 DEF Threaded
<1>2. \A j \in Jobnames : Held(j) <=> Registered(j) \/ Destroying(j)
  BY DEF Held, Calling, Destroying
<1>3. \A j \in Jobnames :
        /\ Own(j) = Number(Registered(j) \/ Destroying(j))
        /\ Thread(j) = Number(\/ worker[j] \in {"lookup", "pool", "job"}
                                        \/ \E a \in Actors : actor[a] = [pc |-> "registered", at |-> j])
  BY <1>1, <1>2 DEF Number, Own, Thread
<1> QED BY <1>3 DEF JobExact, JobRight

\* the pool's counts are exact
PoolRight ==
  pool.life # "none" =>
    /\ pool.active = Cardinality(InFlight) /\ pool.active <= Limit
    /\ pool.refs = Cardinality(InFlight) + Own(Pool)
    /\ pool.life = "freed" <=> pool.refs = 0

\* the pool's part of CountsExact
LEMMA PoolExactIs == PoolExact <=> PoolRight
<1>1. Held(Pool) <=> Registered(Pool) \/ Destroying(Pool)
  BY DEF Held, Calling, Destroying
<1>2. Own(Pool) = Number(Registered(Pool) \/ Destroying(Pool))
  BY <1>1 DEF Number, Own, Thread
<1> QED BY <1>2 DEF PoolExact, PoolRight

\* what the proofs below take apart and put together
ResolverParts ==
  /\ ResolverTypeOK /\ CallShape /\ OneAt /\ InHand /\ NoBlock
  /\ \A j \in Jobnames : JobRight(j)
  /\ PoolRight

\* the invariant by these parts
LEMMA RInvIs == ResolverIInv <=> ResolverParts
BY JobExactIs, PoolExactIs DEF ResolverIInv, ResolverParts, CountsExact

\* a call that only touches id leaves every other job's count right
LEMMA JobElsewhere ==
  ASSUME ResolverParts, NEW a \in Actors, Alone(a), NEW j \in Jobnames,
         actor[a].at # j, actor'[a].at # j, registry'[j] = registry[j],
         job'[j] = job[j], worker'[j] = worker[j]
  PROVE  JobRight(j)'
<1>1. j # Nobody
  BY ResolverAssumption
<1>2. \A pcs : Calling(j, pcs)' <=> Calling(j, pcs)
  BY <1>1, CallingMoves DEF ResolverParts
<1>3. (Held(j)' <=> Held(j)) /\ (Threaded(j)' <=> Threaded(j))
  BY <1>2 DEF Held, Threaded, Registered
<1>4. JobRight(j)
  BY DEF ResolverParts
<1>5. Own(j)' = Own(j) /\ Thread(j)' = Thread(j)
  BY <1>3 DEF Number, Own, Thread
<1> QED BY <1>4, <1>5 DEF JobRight

\* a job no user of which has come or gone keeps its count
LEMMA JobAlone ==
  ASSUME ResolverParts, UNCHANGED <<registry, actor>>, NEW j \in Jobnames, job'[j] = job[j],
         Threaded(j)' <=> Threaded(j)
  PROVE  JobRight(j)'
<1>1. Held(j)' <=> Held(j)
  BY DEF Held, Calling, Registered
<1>2. Own(j)' = Own(j) /\ Thread(j)' = Thread(j)
  BY <1>1 DEF Number, Own, Thread
<1> QED BY <1>2 DEF ResolverParts, JobRight

\* the lookups in flight are finitely many after a step
LEMMA FlightFiniteNext ==
  ASSUME CallShape'
  PROVE  /\ Cardinality(InFlight') \in Nat /\ Cardinality(InFlight') <= Cardinality(Jobnames)
         /\ Cardinality(Jobnames) \in Nat
<1>1. InFlight' \subseteq Jobnames
  BY DEF InFlight, CallShape
<1> QED BY <1>1, ResolverAssumption, FS_Subset, FS_CardinalityType

\* a pool whose counts are right has counts in range
LEMMA PoolFits ==
  ASSUME CallShape', PoolRight', pool'.life # "none",
         pool' \in [life : {"none", "live", "freed"}, refs : Nat, active : Nat, closed : BOOLEAN]
  PROVE  pool' \in [life : {"none", "live", "freed"}, refs : 0 .. 1 + Cardinality(Jobnames),
                    active : 0 .. Cardinality(Jobnames), closed : BOOLEAN]
<1>1. /\ pool'.active = Cardinality(InFlight')
      /\ pool'.refs = Cardinality(InFlight') + Own(Pool)'
  BY DEF PoolRight
<1>2. Own(Pool)' \in {0, 1}
  BY DEF Own
<1>3. PICK n \in Nat : n = Cardinality(Jobnames)
  BY FlightFiniteNext
<1>4. PICK m \in Nat : m = Cardinality(InFlight')
  BY FlightFiniteNext
<1>5. m <= n
  BY <1>3, <1>4, FlightFiniteNext
<1>6. pool'.active \in 0 .. n /\ pool'.refs \in 0 .. 1 + n
  BY <1>1, <1>2, <1>4, <1>5
<1> QED BY <1>3, <1>6

\* dns_begin reserves a place
LEMMA ReservesRight ==
  ASSUME ResolverParts, NEW a \in Actors, NEW j \in Jobnames, dns_begin(a, j)
  PROVE  ResolverParts'
<1> USE ResolverAssumption
<1>1. /\ actor' = [actor EXCEPT ![a] = [pc |-> "reserved", at |-> j]] /\ Alone(a)
      /\ actor[a].pc = "idle" /\ actor[a].at = Nobody
      /\ actor'[a].pc = "reserved" /\ actor'[a].at = j
      /\ UNCHANGED <<registry, job, worker>>
  BY DEF ResolverParts, dns_begin, Doing, Idle, Alone, CallShape, ResolverTypeOK
<1>2. /\ CallShape' /\ OneAt'
  BY <1>1 DEF ResolverParts, CallShape, OneAt, dns_begin, Alone
<1>3. j # Nobody /\ Pool # Nobody /\ Pool # j
  OBVIOUS
<1>4. ~Running(j) /\ ~Calling(j, {"reserved", "registered"})
  BY DEF ResolverParts, NoBlock, Running, Calling, dns_begin
<1>5. InFlight' = InFlight \union {j} /\ Cardinality(InFlight') = Cardinality(InFlight) + 1
  <2>1. \A k \in Jobnames : (k \in InFlight)' <=> k \in InFlight \/ k = j
    <3> SUFFICES ASSUME NEW k \in Jobnames PROVE (k \in InFlight)' <=> k \in InFlight \/ k = j
      OBVIOUS
    <3>1. Calling(k, {"reserved", "registered"})' <=> k = j \/ Calling(k, {"reserved", "registered"})
      BY <1>1, CallingMoves DEF ResolverParts
    <3>2. Running(k)' <=> Running(k)
      BY <1>1 DEF Running
    <3> QED BY <3>1, <3>2, <1>2, FlightIs, FlightIsNext DEF ResolverParts
  <2> QED BY <2>1, <1>2, <1>4, FlightMore, FlightIs DEF ResolverParts
<1>6. PoolRight'
  <2>1. Held(Pool)' <=> Held(Pool)
    BY <1>1, <1>3, CallingMoves DEF ResolverParts, Held, Registered
  <2>2. pool.life # "none" /\ pool.active < Limit /\ registry[Pool] # Nobody
    BY DEF dns_begin, ResolverParts, NoBlock
  <2>3. pool' = [pool EXCEPT !.active = pool.active + 1, !.refs = pool.refs + 1]
    BY DEF dns_begin
  <2>4. Own(Pool)' = 1 /\ Own(Pool) = 1
    BY <2>1, <2>2 DEF Own, Held, Registered
  <2>5. /\ pool'.active = pool.active + 1 /\ pool'.refs = pool.refs + 1 /\ pool'.life = pool.life
        /\ pool.active \in Nat /\ pool.refs \in Nat
    BY <2>3 DEF ResolverParts, ResolverTypeOK
  <2>6. /\ pool.active = Cardinality(InFlight) /\ Cardinality(InFlight) \in Nat
        /\ pool.refs = Cardinality(InFlight) + Own(Pool)
        /\ pool.life = "freed" <=> pool.refs = 0
    BY <2>2, FlightFinite DEF ResolverParts, PoolRight
  <2>7. Limit \in Nat
    OBVIOUS
  <2> HIDE ResolverAssumption
  <2> QED BY <2>2, <2>4, <2>5, <2>6, <2>7, <1>5 DEF PoolRight
<1>7. ResolverTypeOK'
  <2>1. PICK m \in Nat, n \in Nat : m = pool.active + 1 /\ n = pool.refs + 1
    BY DEF ResolverParts, ResolverTypeOK
  <2>2. pool' = [pool EXCEPT !.active = m, !.refs = n]
    BY <2>1 DEF dns_begin
  <2>3. /\ pool' \in [life : {"none", "live", "freed"}, refs : Nat, active : Nat, closed : BOOLEAN]
        /\ pool'.life # "none"
    BY <2>2 DEF ResolverParts, ResolverTypeOK, dns_begin, NoBlock
  <2>4. actor' \in [Actors -> [pc : Steps, at : Ids \union {Nobody}]]
    BY <1>1 DEF ResolverParts, ResolverTypeOK, Steps, Ids
  <2> QED BY <2>3, <2>4, <1>1, <1>2, <1>6, PoolFits DEF ResolverTypeOK, ResolverParts
<1>8. NoBlock'
  BY <1>1, <1>5 DEF NoBlock, ResolverParts, dns_begin
<1>9. InHand'
  BY <1>1, <1>3 DEF InHand, ResolverParts, dns_begin, Blocked, Alone
<1>10. ASSUME NEW k \in Jobnames PROVE JobRight(k)'
  <2>1. CASE k = j
    BY <2>1, <1>1 DEF JobRight, dns_begin
  <2>2. CASE k # j
    BY <2>2, <1>1, JobElsewhere
  <2> QED BY <2>1, <2>2
<1> QED BY <1>2, <1>6, <1>7, <1>8, <1>9, <1>10 DEF ResolverParts

\* the pool's record
PoolType == [life : {"none", "live", "freed"}, refs : 0 .. 1 + Cardinality(Jobnames),
             active : 0 .. Cardinality(Jobnames), closed : BOOLEAN]

\* a pool with the same users keeps its counts
LEMMA PoolStays ==
  ASSUME ResolverParts, CallShape', UNCHANGED pool, Own(Pool)' = Own(Pool),
         \A j \in Jobnames : (j \in InFlight)' <=> j \in InFlight
  PROVE  PoolRight' /\ InFlight' = InFlight
<1>1. InFlight' = InFlight
  BY FlightSame DEF ResolverParts
<1> QED BY <1>1 DEF ResolverParts, PoolRight

\* a lookup k gives its place back
LEMMA PlaceGiven ==
  ASSUME ResolverParts, CallShape', NEW k \in Jobnames, k \in InFlight,
         pool' = pool_put(pool, TRUE), Own(Pool)' = Own(Pool),
         \A j \in Jobnames : (j \in InFlight)' <=> j \in InFlight /\ j # k
  PROVE  PoolRight' /\ pool' \in PoolType /\ pool.life # "none" /\ pool'.life # "none"
<1>1. InFlight' = InFlight \ {k} /\ Cardinality(InFlight') = Cardinality(InFlight) - 1
  BY FlightLess DEF ResolverParts
<1>2. pool.life # "none"
  BY DEF ResolverParts, NoBlock
<1>3. PICK n \in Nat : n = Cardinality(Jobnames)
  BY FlightFinite DEF ResolverParts
<1>4. PICK m \in Nat : m = Cardinality(InFlight)
  BY FlightFinite DEF ResolverParts
<1>5. m # 0
  BY <1>4, FlightFinite, FS_EmptySet DEF ResolverParts
<1>6. /\ pool.active = m /\ pool.refs = m + Own(Pool) /\ Own(Pool) \in {0, 1}
      /\ m <= Limit /\ Limit \in Nat
  BY <1>2, <1>4, ResolverAssumption DEF ResolverParts, PoolRight, Own
<1>7. pool \in [life : {"none", "live", "freed"}, refs : 0 .. n + 1, active : 0 .. n, closed : BOOLEAN]
  BY <1>3 DEF ResolverParts, ResolverTypeOK
<1>8. pool.refs # 0 /\ pool.active # 0
  BY <1>5, <1>6
<1>9. /\ pool' \in [life : {"none", "live", "freed"}, refs : 0 .. n + 1, active : 0 .. n, closed : BOOLEAN]
      /\ pool'.refs = pool.refs - 1 /\ pool'.active = pool.active - 1
      /\ pool'.life = IF pool.refs = 1 THEN "freed" ELSE pool.life
  BY <1>7, <1>8, PoolPutIs
<1>10. pool.life # "freed"
  BY <1>2, <1>8 DEF ResolverParts, PoolRight
<1>11. PICK o \in 0 .. 1 : o = Own(Pool)
  BY <1>6
<1>12. /\ pool'.active = m - 1 /\ pool'.refs = m - 1 + o /\ Cardinality(InFlight') = m - 1
       /\ (pool'.life = "freed" <=> m - 1 + o = 0)
  <2>1. pool.active = m /\ pool.refs = m + o
    BY <1>6, <1>11
  <2>2. /\ pool'.refs = pool.refs - 1 /\ pool'.active = pool.active - 1
        /\ pool'.life = IF pool.refs = 1 THEN "freed" ELSE pool.life
    BY <1>9
  <2>3. Cardinality(InFlight') = m - 1
    BY <1>1, <1>4
  <2>4. pool'.active = m - 1 /\ pool'.refs = m - 1 + o
    <3>1. PICK x \in Int : x = m + o
      OBVIOUS
    <3>2. x - 1 = m - 1 + o
      BY <3>1
    <3>3. pool.refs = x
      BY <2>1, <3>1
    <3>4. pool'.refs = x - 1 /\ pool'.active = m - 1
      BY <2>1, <2>2, <3>3
    <3> QED BY <3>2, <3>4
  <2>5. pool.refs = 1 <=> m - 1 + o = 0
    BY <2>1
  <2>6. pool'.life = "freed" <=> pool.refs = 1
    BY <2>2, <1>10
  <2> QED BY <2>3, <2>4, <2>5, <2>6
<1>13. PoolRight'
  <2>1. Own(Pool)' = o /\ m - 1 <= Limit
    BY <1>6, <1>11
  <2>2. Cardinality(InFlight)' = m - 1
    BY <1>12
  <2> QED BY <2>1, <2>2, <1>12 DEF PoolRight
<1>14. 0 .. n + 1 = 0 .. 1 + n
  OBVIOUS
<1> QED BY <1>2, <1>3, <1>9, <1>13, <1>14 DEF PoolType

\* the registry's reference on the pool is given back
LEMMA PoolDown ==
  ASSUME ResolverParts, CallShape', pool.life # "none", Own(Pool) = 1, Own(Pool)' = 0,
         pool' = pool_destroy(pool),
         \A j \in Jobnames : (j \in InFlight)' <=> j \in InFlight
  PROVE  PoolRight' /\ pool' \in PoolType /\ pool'.life # "none" /\ InFlight' = InFlight
<1>1. InFlight' = InFlight
  BY FlightSame DEF ResolverParts
<1>3. PICK n \in Nat : n = Cardinality(Jobnames)
  BY FlightFinite DEF ResolverParts
<1>4. PICK m \in Nat : m = Cardinality(InFlight)
  BY FlightFinite DEF ResolverParts
<1>6. pool.active = m /\ pool.refs = m + 1 /\ m <= Limit /\ Limit \in Nat
  BY <1>4, ResolverAssumption DEF ResolverParts, PoolRight
<1>7. PICK p : p = [pool EXCEPT !.closed = TRUE]
  OBVIOUS
<1>8. /\ p \in [life : {"none", "live", "freed"}, refs : 0 .. n + 1, active : 0 .. n, closed : BOOLEAN]
      /\ p.refs = pool.refs /\ p.active = pool.active /\ p.life = pool.life
  <2>1. 0 .. n + 1 = 0 .. 1 + n
    OBVIOUS
  <2> QED BY <2>1, <1>3, <1>7 DEF ResolverParts, ResolverTypeOK
<1>9. pool' = pool_put(p, FALSE)
  BY <1>7 DEF pool_destroy
<1>10. p.refs # 0
  BY <1>6, <1>8
<1>11. /\ pool' \in [life : {"none", "live", "freed"}, refs : 0 .. n + 1, active : 0 .. n, closed : BOOLEAN]
       /\ pool'.refs = p.refs - 1 /\ pool'.active = p.active
       /\ pool'.life = IF p.refs = 1 THEN "freed" ELSE p.life
  <2>1. FALSE \in BOOLEAN /\ (FALSE => p.active # 0)
    OBVIOUS
  <2>2. /\ pool_put(p, FALSE) \in [life : {"none", "live", "freed"}, refs : 0 .. n + 1,
                                   active : 0 .. n, closed : BOOLEAN]
        /\ pool_put(p, FALSE).refs = p.refs - 1
        /\ pool_put(p, FALSE).active = IF FALSE THEN p.active - 1 ELSE p.active
        /\ pool_put(p, FALSE).life = IF p.refs = 1 THEN "freed" ELSE p.life
    BY <2>1, <1>8, <1>10, PoolPutIs, ZenonT(30)
  <2> QED BY <2>2, <1>9
<1>12. pool.life # "freed"
  BY <1>6 DEF ResolverParts, PoolRight
<1>13. PoolRight'
  BY <1>1, <1>4, <1>6, <1>8, <1>11, <1>12 DEF PoolRight
<1>14. 0 .. n + 1 = 0 .. 1 + n
  OBVIOUS
<1> QED BY <1>1, <1>3, <1>8, <1>11, <1>13, <1>14 DEF PoolType

\* a call that neither begins nor ends a lookup leaves the flight alone
LEMMA FlightStays ==
  ASSUME ResolverParts, CallShape', NEW a \in Actors, Alone(a), UNCHANGED worker,
         actor[a].pc \notin {"reserved", "registered"},
         actor'[a].pc \notin {"reserved", "registered"}
  PROVE  \A j \in Jobnames : (j \in InFlight)' <=> j \in InFlight
<1> SUFFICES ASSUME NEW j \in Jobnames PROVE (j \in InFlight)' <=> j \in InFlight
  OBVIOUS
<1>1. Calling(j, {"reserved", "registered"})' <=> Calling(j, {"reserved", "registered"})
  BY DEF Alone, Calling
<1>2. Running(j)' <=> Running(j)
  BY DEF Running
<1> QED BY <1>1, <1>2, FlightIs, FlightIsNext DEF ResolverParts

\* a resource is taken out of the registry
LEMMA TakesRight ==
  ASSUME ResolverParts, NEW a \in Actors, NEW id \in Ids, NEW p \in {"closing", "dying"},
         registry[id] = a, actor[a].at = Nobody, actor[a].pc \in {"idle", "dying"},
         Unlink(id), Doing(a, p, id), UNCHANGED <<pool, job, worker>>
  PROVE  ResolverParts'
<1> USE ResolverAssumption
<1>1. /\ Alone(a) /\ actor'[a].pc = p /\ actor'[a].at = id /\ id # Nobody /\ registry'[id] = Nobody
      /\ a # Nobody /\ \A k \in Ids \ {id} : registry'[k] = registry[k]
  BY DEF ResolverParts, Doing, Alone, ResolverTypeOK, Unlink, Ids
<1>2. ResolverTypeOK'
  BY DEF ResolverParts, ResolverTypeOK, Unlink, Doing, Steps
<1>3. ~Calling(id, {"closing", "dying", "reserved", "registered"})
  BY <1>1 DEF ResolverParts, InHand, Calling, NoBlock, CallShape, OneAt, Ids
<1>4. CallShape'
  BY <1>1 DEF ResolverParts, CallShape, Alone
<1>5. OneAt'
  <2>1. \A b \in Actors : actor[b].at # id
    BY <1>1, <1>3 DEF ResolverParts, CallShape, Calling, ResolverTypeOK, Steps
  <2> QED BY <1>1, <2>1 DEF ResolverParts, OneAt, Alone
<1>6. Held(id) /\ Held(id)'
  BY <1>1 DEF Held, Registered, Calling
<1>7. \A k \in Ids : Own(k)' = Own(k)
  <2> SUFFICES ASSUME NEW k \in Ids PROVE Held(k)' <=> Held(k)
    BY DEF Own
  <2>1. CASE k = id
    BY <2>1, <1>6
  <2>2. CASE k # id
    BY <2>2, <1>1 DEF Held, Registered, Calling, Alone, Ids
  <2> QED BY <2>1, <2>2
<1>8. PoolRight' /\ InFlight' = InFlight
  BY <1>1, <1>4, <1>7, FlightStays, PoolStays DEF Ids
<1>9. NoBlock'
  BY <1>1, <1>8 DEF ResolverParts, NoBlock, Ids
<1>10. InHand'
  <2>1. Blocked(id)
    BY <1>1 DEF ResolverParts, NoBlock, Blocked, Ids
  <2>2. \A b \in Actors : actor[b].at # id
    BY <1>1, <1>3 DEF ResolverParts, CallShape, Calling, ResolverTypeOK, Steps
  <2>3. UNCHANGED <<job, pool, worker>>
    OBVIOUS
  <2> SUFFICES ASSUME NEW b \in Actors PROVE
        /\ actor'[b].pc = "reserved" => job'[actor'[b].at].life = "none"
        /\ actor'[b].pc = "registered" =>
              /\ job'[actor'[b].at].life = "live" /\ registry'[actor'[b].at] = b
              /\ worker'[actor'[b].at] = "none"
        /\ actor'[b].pc \in {"closing", "dying"} /\ actor'[b].at # Nobody =>
              registry'[actor'[b].at] = Nobody /\ Blocked(actor'[b].at)
    BY <2>3 DEF InHand, Blocked
  <2>4. CASE b = a
    BY <2>1, <2>4, <1>1
  <2>5. CASE b # a
    <3>1. /\ actor'[b] = actor[b] /\ actor[b].at # id
          /\ actor[b].pc \in {"closing", "dying", "registered"} /\ actor[b].at # Nobody => actor[b].at \in Ids
      BY <2>2, <2>5, <1>1 DEF Alone, ResolverParts, ResolverTypeOK
    <3> QED BY <2>3, <3>1, <1>1 DEF ResolverParts, InHand, CallShape, Ids
  <2> QED BY <2>4, <2>5
<1>11. ASSUME NEW j \in Jobnames PROVE JobRight(j)'
  <2>1. Threaded(j)' <=> Threaded(j)
    BY <1>1, <1>3 DEF Threaded, Calling, Alone
  <2> QED BY <2>1, <1>7 DEF ResolverParts, JobRight, Thread, Ids
<1> QED BY <1>2, <1>4, <1>5, <1>8, <1>9, <1>10, <1>11 DEF ResolverParts

\* the call of a is over: where it stands next has no block in hand
LEMMA CallOver ==
  ASSUME ResolverParts, NEW a \in Actors, NEW p \in {"idle", "dying", "dead"}, Doing(a, p, Nobody)
  PROVE  /\ Alone(a) /\ actor'[a].pc = p /\ actor'[a].at = Nobody
         /\ CallShape' /\ OneAt'
         /\ actor' \in [Actors -> [pc : Steps, at : Ids \union {Nobody}]]
<1>1. Alone(a) /\ actor'[a].pc = p /\ actor'[a].at = Nobody
  BY DEF ResolverParts, ResolverTypeOK, Doing, Alone
<1>2. CallShape' /\ OneAt'
  BY <1>1 DEF ResolverParts, CallShape, OneAt, Alone
<1>3. actor' \in [Actors -> [pc : Steps, at : Ids \union {Nobody}]]
  BY DEF ResolverParts, ResolverTypeOK, Doing, Steps
<1> QED BY <1>1, <1>2, <1>3

\* a destructor gives the registry's reference back
LEMMA DestroysRight ==
  ASSUME ResolverParts, NEW a \in Actors, NEW id \in Ids, NEW p \in {"idle", "dying"},
         actor[a].pc \in {"closing", "dying"}, actor[a].at = id, Destroyed(id),
         Doing(a, p, Nobody), UNCHANGED <<registry, worker>>
  PROVE  ResolverParts'
<1> USE ResolverAssumption
<1>1. /\ Alone(a) /\ actor'[a].pc = p /\ actor'[a].at = Nobody /\ CallShape' /\ OneAt'
      /\ actor' \in [Actors -> [pc : Steps, at : Ids \union {Nobody}]] /\ id # Nobody
  BY CallOver DEF Ids
<1>2. registry[id] = Nobody /\ Blocked(id)
  BY <1>1 DEF ResolverParts, InHand
<1>3. \A b \in Actors \ {a} : actor'[b] = actor[b] /\ actor[b].at # id
  BY <1>1 DEF ResolverParts, OneAt, Alone
<1>4. Held(id) /\ ~Held(id)'
  BY <1>1, <1>2, <1>3 DEF Held, Calling, Registered
<1>5. \A k \in Ids \ {id} : Own(k)' = Own(k)
  <2> SUFFICES ASSUME NEW k \in Ids \ {id} PROVE Held(k)' <=> Held(k)
    BY DEF Own
  <2> QED BY <1>1 DEF Held, Registered, Calling, Alone, Ids
<1>6. \A j \in Jobnames : (j \in InFlight)' <=> j \in InFlight
  BY <1>1, FlightStays
<1>7. \A j \in Jobnames : Threaded(j)' <=> Threaded(j)
  BY <1>1 DEF Threaded, Calling, Alone
<1>8. CASE id = Pool
  <2>1. UNCHANGED job /\ pool' = pool_destroy(pool)
    BY <1>8 DEF Destroyed
  <2>2. pool.life # "none" /\ Own(Pool) = 1 /\ Own(Pool)' = 0
    BY <1>2, <1>4, <1>8 DEF Blocked, Own
  <2>3. PoolRight' /\ pool' \in PoolType /\ pool'.life # "none" /\ InFlight' = InFlight
    BY <2>1, <2>2, <1>1, <1>6, PoolDown
  <2>4. ResolverTypeOK'
    BY <2>1, <2>3, <1>1 DEF ResolverParts, ResolverTypeOK, PoolType
  <2>5. NoBlock'
    BY <2>1, <2>3 DEF ResolverParts, NoBlock
  <2>6. InHand'
    BY <2>1, <2>2, <2>3, <1>1, <1>3, <1>8 DEF ResolverParts, InHand, Blocked
  <2>7. ASSUME NEW j \in Jobnames PROVE JobRight(j)'
    BY <2>1, <1>5, <1>7, <1>8 DEF ResolverParts, JobRight, Thread, Ids
  <2> QED BY <2>3, <2>4, <2>5, <2>6, <2>7, <1>1 DEF ResolverParts
<1>9. CASE id # Pool
  <2>1. id \in Jobnames /\ job' = [job EXCEPT ![id] = job_put(job[id])] /\ UNCHANGED pool
    BY <1>9 DEF Destroyed, Ids
  <2>2. JobRight(id) /\ job[id].life # "none" /\ Own(id) = 1 /\ Own(id)' = 0 /\ Thread(id) \in {0, 1}
    BY <2>1, <1>2, <1>4, <1>9 DEF Blocked, Own, Thread, ResolverParts
  <2>3. PICK t \in 0 .. 1 : t = Thread(id) /\ t = Thread(id)'
    BY <1>7, <2>1 DEF Thread
  <2>4. job[id] \in Block /\ job[id].refs = 1 + t /\ job[id].life # "freed"
    BY <2>1, <2>2, <2>3 DEF ResolverParts, ResolverTypeOK, JobRight, Block
  <2>5. job[id].refs # 0
    BY <2>3, <2>4
  <2>6. /\ job_put(job[id]) \in Block /\ job_put(job[id]).refs = job[id].refs - 1
        /\ job_put(job[id]).life = IF job[id].refs = 1 THEN "freed" ELSE job[id].life
    BY <2>4, <2>5, JobPutIs
  <2>7. /\ job' \in [Jobnames -> Block] /\ job'[id] = job_put(job[id])
        /\ \A j \in Jobnames \ {id} : job'[j] = job[j]
    BY <2>1, <2>6 DEF ResolverParts, ResolverTypeOK, Block
  <2>8. job'[id].refs = t /\ job'[id].life # "none" /\ (job'[id].life = "freed" <=> t = 0)
    BY <2>2, <2>3, <2>4, <2>6, <2>7
  <2>9. ResolverTypeOK'
    BY <2>1, <2>7, <1>1 DEF ResolverParts, ResolverTypeOK, Block
  <2>10. PoolRight' /\ InFlight' = InFlight
    BY <2>1, <1>1, <1>5, <1>6, <1>9, PoolStays DEF Ids
  <2>11. NoBlock'
    BY <2>1, <2>7, <2>8, <2>10 DEF ResolverParts, NoBlock
  <2>12. InHand'
    <3> SUFFICES ASSUME NEW b \in Actors \ {a} PROVE
          /\ actor[b].pc = "reserved" => job'[actor[b].at].life = "none"
          /\ actor[b].pc = "registered" =>
                /\ job'[actor[b].at].life = "live" /\ registry[actor[b].at] = b
                /\ worker[actor[b].at] = "none"
          /\ actor[b].pc \in {"closing", "dying"} /\ actor[b].at # Nobody =>
                registry[actor[b].at] = Nobody /\ Blocked(actor[b].at)'
      BY <1>1, <1>3 DEF InHand
    <3>1. actor[b].at # id
      BY <1>3
    <3>2. actor[b].at \in Ids \union {Nobody}
      BY DEF ResolverParts, ResolverTypeOK
    <3> QED BY <3>1, <3>2, <2>1, <2>7, <1>3 DEF ResolverParts, InHand, Blocked, CallShape, Ids
  <2>13. ASSUME NEW j \in Jobnames PROVE JobRight(j)'
    <3>1. CASE j = id
      BY <3>1, <2>2, <2>3, <2>8 DEF JobRight
    <3>2. CASE j # id
      <4>1. Thread(j)' = Thread(j)
        BY <1>7 DEF Thread
      <4> QED BY <4>1, <3>2, <2>7, <1>5 DEF ResolverParts, JobRight, Ids
    <3> QED BY <3>1, <3>2
  <2> QED BY <2>9, <2>10, <2>11, <2>12, <2>13, <1>1 DEF ResolverParts
<1> QED BY <1>8, <1>9

\* an actor that holds nothing dies
LEMMA DeadRight ==
  ASSUME ResolverParts, NEW a \in Actors, actor[a].pc \in {"idle", "dying"}, actor[a].at = Nobody,
         Doing(a, "dead", Nobody), UNCHANGED <<registry, pool, job, worker>>
  PROVE  ResolverParts'
<1> USE ResolverAssumption
<1>1. /\ Alone(a) /\ actor'[a].pc = "dead" /\ actor'[a].at = Nobody /\ CallShape' /\ OneAt'
      /\ actor' \in [Actors -> [pc : Steps, at : Ids \union {Nobody}]]
  BY CallOver
<1>2. \A k \in Ids : Own(k)' = Own(k)
  <2> SUFFICES ASSUME NEW k \in Ids PROVE Held(k)' <=> Held(k)
    BY DEF Own
  <2> QED BY <1>1 DEF Held, Registered, Calling, Alone, Ids
<1>3. PoolRight' /\ InFlight' = InFlight
  BY <1>1, <1>2, FlightStays, PoolStays DEF Ids
<1>4. ASSUME NEW j \in Jobnames PROVE JobRight(j)'
  <2>1. Threaded(j)' <=> Threaded(j)
    BY <1>1 DEF Threaded, Calling, Alone
  <2> QED BY <2>1, <1>2 DEF ResolverParts, JobRight, Thread, Ids
<1>5. ResolverTypeOK' /\ NoBlock'
  BY <1>1, <1>3 DEF ResolverParts, ResolverTypeOK, NoBlock
<1>6. InHand'
  BY <1>1 DEF ResolverParts, InHand, Alone, Blocked
<1> QED BY <1>1, <1>3, <1>4, <1>5, <1>6 DEF ResolverParts

\* dns_pool makes the pool
LEMMA OpensRight ==
  ASSUME ResolverParts, NEW a \in Actors, dns_pool(a)
  PROVE  ResolverParts'
<1> USE ResolverAssumption
<1>1. pool.life = "none" /\ registry[Pool] = Nobody /\ InFlight = {} /\ UNCHANGED <<job, worker, actor>>
  BY DEF dns_pool, ResolverParts, NoBlock
<1>2. CallShape' /\ OneAt' /\ InFlight' = {}
  BY <1>1 DEF ResolverParts, CallShape, OneAt, InFlight
<1>3. Cardinality(InFlight') = 0
  BY <1>2, FS_EmptySet
<1>4. ~Calling(Pool, {"closing", "dying"}) /\ ~Calling(Pool, {"closing", "dying"})'
  BY <1>1 DEF ResolverParts, InHand, Calling, Blocked
<1>5. Cardinality(Jobnames) \in Nat
  BY FlightFinite DEF ResolverParts
<1>6. /\ registry' \in [Ids -> Actors \union {Nobody}]
      /\ \A j \in Jobnames : registry'[j] = registry[j]
      /\ \/ registry'[Pool] = a /\ pool' = [life |-> "live", refs |-> 1, active |-> 0, closed |-> FALSE]
         \/ registry'[Pool] = Nobody /\ pool' = [life |-> "freed", refs |-> 0, active |-> 0, closed |-> TRUE]
  <2>1. CASE /\ pool' = [life |-> "live", refs |-> 1, active |-> 0, closed |-> FALSE]
             /\ fpr_owned_add(a, Pool)
    BY <2>1 DEF fpr_owned_add, ResolverParts, ResolverTypeOK, Ids
  <2>2. CASE /\ pool' = pool_destroy([life |-> "live", refs |-> 1, active |-> 0, closed |-> FALSE])
             /\ UNCHANGED registry
    <3>1. PICK p : p = [[life |-> "live", refs |-> 1, active |-> 0, closed |-> FALSE] EXCEPT !.closed = TRUE]
      OBVIOUS
    <3>2. p = [life |-> "live", refs |-> 1, active |-> 0, closed |-> TRUE]
      BY <3>1
    <3>3. pool' = pool_put(p, FALSE)
      BY <2>2, <3>1 DEF pool_destroy
    <3>4. pool_put(p, FALSE) = [life |-> "freed", refs |-> 0, active |-> 0, closed |-> TRUE]
      <4>1. p.refs = 1 /\ p.active = 0 /\ p.life = "live"
        BY <3>2
      <4>2. pool_put(p, FALSE) = [p EXCEPT !.refs = 0, !.active = 0, !.life = "freed"]
        BY <4>1 DEF pool_put
      <4> QED BY <4>2, <3>2
    <3> QED BY <3>3, <3>4, <2>2, <1>1 DEF ResolverParts, ResolverTypeOK, Ids
  <2> QED BY <2>1, <2>2 DEF dns_pool
<1>7. ResolverTypeOK'
  <2>1. PICK n \in Nat : n = Cardinality(Jobnames)
    BY <1>5
  <2>2. pool' \in PoolType
    <3>1. 0 \in 0 .. 1 + n /\ 1 \in 0 .. 1 + n /\ 0 \in 0 .. n
      OBVIOUS
    <3>2. PoolType = [life : {"none", "live", "freed"}, refs : 0 .. 1 + n, active : 0 .. n, closed : BOOLEAN]
      BY <2>1 DEF PoolType
    <3>3. [life |-> "live", refs |-> 1, active |-> 0, closed |-> FALSE] \in PoolType
      BY <3>1, <3>2
    <3>4. [life |-> "freed", refs |-> 0, active |-> 0, closed |-> TRUE] \in PoolType
      BY <3>1, <3>2
    <3> QED BY <3>3, <3>4, <1>6
  <2> QED BY <2>2, <1>1, <1>6 DEF ResolverParts, ResolverTypeOK, PoolType
<1>8. PoolRight'
  <2>1. Own(Pool)' = IF registry'[Pool] = Nobody THEN 0 ELSE 1
    BY <1>4 DEF Own, Held, Registered
  <2> QED BY <2>1, <1>3, <1>6 DEF PoolRight
<1>9. NoBlock'
  BY <1>1, <1>2, <1>6 DEF ResolverParts, NoBlock
<1>10. InHand'
  <2> SUFFICES ASSUME NEW b \in Actors PROVE
        /\ actor[b].pc = "reserved" => job[actor[b].at].life = "none"
        /\ actor[b].pc = "registered" =>
              /\ job[actor[b].at].life = "live" /\ registry'[actor[b].at] = b
              /\ worker[actor[b].at] = "none"
        /\ actor[b].pc \in {"closing", "dying"} /\ actor[b].at # Nobody =>
              registry'[actor[b].at] = Nobody /\ Blocked(actor[b].at)'
    BY <1>1 DEF InHand
  <2>1. actor[b].at \in Ids \union {Nobody}
    BY DEF ResolverParts, ResolverTypeOK
  <2>2. actor[b].pc \in {"closing", "dying"} => actor[b].at # Pool
    BY <1>4 DEF Calling
  <2>3. actor[b].pc \in {"reserved", "registered"} => actor[b].at \in Jobnames
    BY DEF ResolverParts, CallShape
  <2> QED BY <2>1, <2>2, <2>3, <1>1, <1>6 DEF ResolverParts, InHand, Blocked, Ids
<1>11. ASSUME NEW j \in Jobnames PROVE JobRight(j)'
  <2>1. (Held(j)' <=> Held(j)) /\ (Threaded(j)' <=> Threaded(j))
    BY <1>1, <1>6 DEF Held, Threaded, Calling, Registered
  <2> QED BY <2>1, <1>1 DEF ResolverParts, JobRight, Own, Thread
<1> QED BY <1>2, <1>7, <1>8, <1>9, <1>10, <1>11 DEF ResolverParts

\* the steps of a lookup's thread: actors and registry stand still
LEMMA ThreadFrame ==
  ASSUME ResolverParts, UNCHANGED <<registry, actor>>
  PROVE  /\ CallShape' /\ OneAt'
         /\ \A id \in Ids : Own(id)' = Own(id)
         /\ \A id, pcs : Calling(id, pcs)' <=> Calling(id, pcs)
<1>1. \A id, pcs : Calling(id, pcs)' <=> Calling(id, pcs)
  BY DEF Calling
<1>2. \A id \in Ids : Own(id)' = Own(id)
  BY <1>1 DEF Own, Held, Registered
<1> QED BY <1>1, <1>2 DEF ResolverParts, CallShape, OneAt

\* a job with a thread is in no caller's hands before it is registered
LEMMA ThreadsOwn ==
  ASSUME ResolverParts, NEW j \in Jobnames, worker[j] \in {"lookup", "pool", "job"}
  PROVE  /\ job[j].life # "none" /\ ~Calling(j, {"reserved", "registered"})
         /\ Thread(j) = 1 /\ job[j].life # "freed"
         /\ job[j] \in Block /\ job[j].refs = Own(j) + 1
<1>1. job[j].life # "none" /\ ~Calling(j, {"reserved", "registered"}) /\ Thread(j) = 1
  BY DEF ResolverParts, NoBlock, InHand, Calling, Thread, Threaded
<1>2. Own(j) \in {0, 1}
  BY DEF Own
<1> QED BY <1>1, <1>2 DEF ResolverParts, JobRight, ResolverTypeOK, Block

\* resolve_worker runs a lookup and lets go
LEMMA WorkerRight ==
  ASSUME ResolverParts, NEW j \in Jobnames, resolve_worker(j)
  PROVE  ResolverParts'
<1> USE ResolverAssumption
<1>1. UNCHANGED <<registry, actor>>
  BY DEF resolve_worker, Resolved, WorkerPutsPool, WorkerPutsJob
<1>2. /\ CallShape' /\ OneAt' /\ (\A id \in Ids : Own(id)' = Own(id))
      /\ \A id, pcs : Calling(id, pcs)' <=> Calling(id, pcs)
  BY <1>1, ThreadFrame
<1>3. /\ job[j].life # "none" /\ ~Calling(j, {"reserved", "registered"}) /\ Thread(j) = 1
      /\ job[j].life # "freed" /\ job[j] \in Block /\ job[j].refs = Own(j) + 1
  BY ThreadsOwn DEF resolve_worker, Resolved, WorkerPutsPool, WorkerPutsJob
<1>4. /\ worker' \in [Jobnames -> {"none", "lookup", "pool", "job", "gone"}]
      /\ \A k \in Jobnames \ {j} : worker'[k] = worker[k]
      /\ worker'[j] # "none"
  BY DEF resolve_worker, Resolved, WorkerPutsPool, WorkerPutsJob, ResolverParts, ResolverTypeOK
<1>5. \A k \in Jobnames \ {j} : (k \in InFlight)' <=> k \in InFlight
  BY <1>2, <1>4, FlightIs, FlightIsNext DEF ResolverParts, Running
<1>6. ASSUME job' \in [Jobnames -> Block], \A k \in Jobnames \ {j} : job'[k] = job[k],
             job'[j].life # "none", JobRight(j)', PoolRight', pool' \in PoolType, 
             pool'.life = "none" => pool.life = "none" /\ InFlight' = {},
             pool.life # "none" => pool'.life # "none"
      PROVE  ResolverParts'
  <2>1. ResolverTypeOK'
    BY <1>1, <1>4, <1>6 DEF ResolverParts, ResolverTypeOK, Block, PoolType
  <2>2. NoBlock'
    BY <1>1, <1>4, <1>6 DEF ResolverParts, NoBlock
  <2>3. InHand'
    <3> SUFFICES ASSUME NEW b \in Actors PROVE
          /\ actor[b].pc = "reserved" => job'[actor[b].at].life = "none"
          /\ actor[b].pc = "registered" =>
                /\ job'[actor[b].at].life = "live" /\ registry[actor[b].at] = b
                /\ worker'[actor[b].at] = "none"
          /\ actor[b].pc \in {"closing", "dying"} /\ actor[b].at # Nobody =>
                registry[actor[b].at] = Nobody /\ Blocked(actor[b].at)'
      BY <1>1 DEF InHand
    <3>1. CASE actor[b].at = j
      BY <3>1, <1>1, <1>3, <1>6 DEF ResolverParts, InHand, Blocked, Calling
    <3>2. CASE actor[b].at # j
      <4>1. actor[b].at \in Ids \union {Nobody}
        BY DEF ResolverParts, ResolverTypeOK
      <4> QED BY <3>2, <4>1, <1>1, <1>4, <1>6 DEF ResolverParts, InHand, Blocked, CallShape, Ids
    <3> QED BY <3>1, <3>2
  <2>4. ASSUME NEW k \in Jobnames PROVE JobRight(k)'
    <3>1. CASE k = j
      BY <3>1, <1>6
    <3>2. CASE k # j
      <4>1. Threaded(k)' <=> Threaded(k)
        BY <3>2, <1>2, <1>4 DEF Threaded
      <4> QED BY <4>1, <3>2, <1>2, <1>6 DEF ResolverParts, JobRight, Thread, Ids
    <3> QED BY <3>1, <3>2
  <2> QED BY <2>1, <2>2, <2>3, <2>4, <1>2, <1>6 DEF ResolverParts
<1>7. job \in [Jobnames -> Block] /\ pool \in PoolType
  BY DEF ResolverParts, ResolverTypeOK, Block, PoolType
<1>8. Own(j)' = Own(j) /\ Own(Pool)' = Own(Pool)
  BY <1>2 DEF Ids
<1>9. CASE Resolved(j)
  <2>1. /\ job' = [job EXCEPT ![j].done = TRUE] /\ worker' = [worker EXCEPT ![j] = "pool"]
        /\ UNCHANGED pool /\ worker[j] = "lookup" /\ worker'[j] = "pool"
    BY <1>9 DEF Resolved, ResolverParts, ResolverTypeOK
  <2>2. /\ job' \in [Jobnames -> Block] /\ \A k \in Jobnames \ {j} : job'[k] = job[k]
        /\ job'[j].life = job[j].life /\ job'[j].refs = job[j].refs
    BY <2>1, <1>7 DEF Block
  <2>3. j \in InFlight /\ (j \in InFlight)'
    BY <2>1, <1>2, FlightIs, FlightIsNext DEF ResolverParts, Running
  <2>4. PoolRight' /\ InFlight' = InFlight
    BY <2>1, <2>3, <1>2, <1>5, <1>8, PoolStays
  <2>5. JobRight(j)'
    <3>1. Thread(j)' = 1
      BY <2>1 DEF Thread, Threaded
    <3> QED BY <3>1, <2>2, <1>3, <1>8 DEF JobRight, ResolverParts
  <2> QED BY <2>1, <2>2, <2>4, <2>5, <1>3, <1>6, <1>7 DEF ResolverParts, NoBlock
<1>10. CASE WorkerPutsPool(j)
  <2>1. /\ pool' = pool_put(pool, TRUE) /\ worker' = [worker EXCEPT ![j] = "job"]
        /\ UNCHANGED job /\ worker[j] = "pool" /\ worker'[j] = "job"
    BY <1>10 DEF WorkerPutsPool, ResolverParts, ResolverTypeOK
  <2>2. j \in InFlight /\ ~(j \in InFlight)'
    BY <2>1, <1>2, <1>3, FlightIs, FlightIsNext DEF ResolverParts, Running
  <2>3. PoolRight' /\ pool' \in PoolType /\ pool.life # "none" /\ pool'.life # "none"
    BY <2>1, <2>2, <1>2, <1>5, <1>8, PlaceGiven
  <2>4. JobRight(j)'
    <3>1. Thread(j)' = 1
      BY <2>1 DEF Thread, Threaded
    <3> QED BY <3>1, <2>1, <1>3, <1>8 DEF JobRight, ResolverParts
  <2> QED BY <2>1, <2>3, <2>4, <1>3, <1>6, <1>7
<1>11. CASE WorkerPutsJob(j)
  <2>1. /\ job' = [job EXCEPT ![j] = job_put(job[j])] /\ worker' = [worker EXCEPT ![j] = "gone"]
        /\ UNCHANGED pool /\ worker[j] = "job" /\ worker'[j] = "gone"
    BY <1>11 DEF WorkerPutsJob, ResolverParts, ResolverTypeOK
  <2>2. PICK o \in 0 .. 1 : o = Own(j)
    BY DEF Own
  <2>3. job[j].refs = o + 1 /\ job[j].refs # 0
    BY <2>2, <1>3
  <2>4. /\ job_put(job[j]) \in Block /\ job_put(job[j]).refs = o
        /\ job_put(job[j]).life = IF o = 0 THEN "freed" ELSE job[j].life
    BY <2>2, <2>3, <1>3, JobPutIs
  <2>5. /\ job' \in [Jobnames -> Block] /\ (\A k \in Jobnames \ {j} : job'[k] = job[k])
        /\ job'[j] = job_put(job[j])
    BY <2>1, <2>4, <1>7
  <2>6. ~(j \in InFlight) /\ ~(j \in InFlight)'
    BY <2>1, <1>2, <1>3, FlightIs, FlightIsNext DEF ResolverParts, Running
  <2>7. PoolRight' /\ InFlight' = InFlight
    BY <2>1, <2>6, <1>2, <1>5, <1>8, PoolStays
  <2>8. JobRight(j)'
    <3>1. Thread(j)' = 0
      <4>1. ~Calling(j, {"registered"})
        BY <1>3 DEF Calling
      <4> QED BY <4>1, <2>1, <1>2 DEF Thread, Threaded
    <3> QED BY <3>1, <2>2, <2>4, <2>5, <1>3, <1>8 DEF JobRight
  <2> QED BY <2>1, <2>4, <2>5, <2>7, <2>8, <1>3, <1>6, <1>7 DEF ResolverParts, NoBlock
<1> QED BY <1>9, <1>10, <1>11 DEF resolve_worker

\* what a call at job j, by actor a alone, may leave and must show
LEMMA BeginFrame ==
  ASSUME ResolverParts, NEW a \in Actors, Alone(a), NEW j \in Jobnames, actor[a].at = j, 
         actor[a].pc \in {"reserved", "registered"},
         actor'[a].at \in {j, Nobody}, CallShape', OneAt',
         actor' \in [Actors -> [pc : Steps, at : Ids \union {Nobody}]],
         job' \in [Jobnames -> Block], registry' \in [Ids -> Actors \union {Nobody}],
         worker' \in [Jobnames -> {"none", "lookup", "pool", "job", "gone"}],
         pool' \in PoolType, pool.life # "none", pool'.life # "none", PoolRight', JobRight(j)',
         \A k \in Ids \ {j} : registry'[k] = registry[k],
         \A k \in Jobnames \ {j} : job'[k] = job[k] /\ worker'[k] = worker[k],
         job'[j].life = "none" => registry'[j] = Nobody /\ worker'[j] = "none",
         actor'[a].at = j => /\ actor'[a].pc = "registered" /\ job'[j].life = "live"
                             /\ registry'[j] = a /\ worker'[j] = "none"
  PROVE  ResolverParts'
<1> USE ResolverAssumption
<1>1. ResolverTypeOK'
  BY DEF ResolverTypeOK, Block, PoolType
<1>2. NoBlock'
  BY DEF ResolverParts, NoBlock, Ids
<1>3. InHand'
  <2> SUFFICES ASSUME NEW b \in Actors PROVE
        /\ actor'[b].pc = "reserved" => job'[actor'[b].at].life = "none"
        /\ actor'[b].pc = "registered" =>
              /\ job'[actor'[b].at].life = "live" /\ registry'[actor'[b].at] = b
              /\ worker'[actor'[b].at] = "none"
        /\ actor'[b].pc \in {"closing", "dying"} /\ actor'[b].at # Nobody =>
              registry'[actor'[b].at] = Nobody /\ Blocked(actor[b].at)'
    BY DEF InHand
  <2>1. CASE b = a
    BY <2>1 DEF CallShape, Ids
  <2>2. CASE b # a
    <3>1. actor'[b] = actor[b] /\ actor[b].at # j /\ actor[b].at \in Ids \union {Nobody}
      BY <2>2 DEF Alone, ResolverParts, OneAt, ResolverTypeOK
    <3>2. actor[b].pc \in {"reserved", "registered"} => actor[b].at \in Jobnames
      BY DEF ResolverParts, CallShape
    <3> QED BY <3>1, <3>2 DEF ResolverParts, InHand, Blocked, Ids
  <2> QED BY <2>1, <2>2
<1>4. ASSUME NEW k \in Jobnames PROVE JobRight(k)'
  <2>1. CASE k = j
    BY <2>1
  <2>2. CASE k # j
    BY <2>2, JobElsewhere DEF Ids
  <2> QED BY <2>1, <2>2
<1> QED BY <1>1, <1>2, <1>3, <1>4 DEF ResolverParts

\* who is in the flight when a call at job j moves
LEMMA BeginFlight ==
  ASSUME ResolverParts, CallShape', NEW a \in Actors, Alone(a), NEW j \in Jobnames, actor[a].at = j,
         actor[a].pc \in {"reserved", "registered"}, actor'[a].at \in {j, Nobody},
         \A k \in Jobnames \ {j} : worker'[k] = worker[k]
  PROVE  /\ j \in InFlight
         /\ \A k \in Jobnames \ {j} : (k \in InFlight)' <=> k \in InFlight
         /\ (j \in InFlight)' <=> Running(j)' \/ (actor'[a].at = j /\ actor'[a].pc \in {"reserved", "registered"})
<1> USE ResolverAssumption
<1>1. \A k \in Jobnames : Calling(k, {"reserved", "registered"})' <=>
        \/ actor'[a].pc \in {"reserved", "registered"} /\ actor'[a].at = k
        \/ Calling(k, {"reserved", "registered"}) /\ actor[a].at # k
  BY CallingMoves DEF ResolverParts
<1>2. Calling(j, {"reserved", "registered"})
  BY DEF Calling
<1>3. \A k \in Jobnames \ {j} : actor'[a].at # k
  OBVIOUS
<1> QED BY <1>1, <1>2, <1>3, FlightIs, FlightIsNext DEF ResolverParts, Running

\* a reserved lookup gets its block
LEMMA BeginJobRight ==
  ASSUME ResolverParts, NEW a \in Actors, BeginJob(a)
  PROVE  ResolverParts'
<1> USE ResolverAssumption
<1>0. PICK j : j = actor[a].at
  OBVIOUS
<1> DEFINE fresh == [life |-> "live", refs |-> 2, done |-> FALSE]
<1>1. /\ j \in Jobnames /\ actor[a].pc = "reserved" /\ UNCHANGED worker
      /\ job[j].life = "none" /\ registry[j] = Nobody /\ worker[j] = "none"
  BY <1>0 DEF BeginJob, ResolverParts, CallShape, InHand, NoBlock
<1>2. fresh \in Block /\ job \in [Jobnames -> Block] /\ pool \in PoolType
      /\ registry \in [Ids -> Actors \union {Nobody}] /\ j # Nobody /\ j # Pool
      /\ worker \in [Jobnames -> {"none", "lookup", "pool", "job", "gone"}]
  BY <1>0, <1>1 DEF Block, ResolverParts, ResolverTypeOK, PoolType
<1> HIDE DEF fresh
<1>3. ~Calling(j, {"closing", "dying"})
  BY <1>0, <1>1 DEF ResolverParts, InHand, OneAt, Calling
<1>4. ASSUME pool' = pool_put(pool, TRUE), Done(a), UNCHANGED registry,
             job' \in [Jobnames -> Block], \A k \in Jobnames \ {j} : job'[k] = job[k],
             job'[j].life # "none" => job'[j].refs = 0 /\ job'[j].life = "freed"
      PROVE  ResolverParts'
  <2>1. /\ Alone(a) /\ actor'[a].pc = "idle" /\ actor'[a].at = Nobody /\ CallShape' /\ OneAt'
        /\ actor' \in [Actors -> [pc : Steps, at : Ids \union {Nobody}]]
    BY <1>4, CallOver DEF Done
  <2>2. /\ j \in InFlight
        /\ \A k \in Jobnames : (k \in InFlight)' <=> k \in InFlight /\ k # j
    BY <2>1, <1>0, <1>1, <1>2, BeginFlight DEF Running
  <2>3. Own(Pool)' = Own(Pool)
    BY <1>0, <1>1, <1>2, <1>4, <2>1, CallingMoves DEF ResolverParts, Own, Held, Registered
  <2>4. PoolRight' /\ pool' \in PoolType /\ pool.life # "none" /\ pool'.life # "none"
    BY <1>0, <1>1, <1>4, <2>1, <2>2, <2>3, PlaceGiven
  <2>5. Own(j)' = 0 /\ Thread(j)' = 0
    BY <1>0, <1>1, <1>2, <1>3, <1>4, <2>1, CallingMoves DEF ResolverParts, Own, Thread, Held, Threaded, Registered
  <2>6. JobRight(j)'
    BY <2>5, <1>4 DEF JobRight
  <2> QED BY <1>0, <1>1, <1>2, <1>4, <2>1, <2>4, <2>6, BeginFrame
<1>5. CASE pool' = pool_put(pool, TRUE) /\ Done(a) /\ UNCHANGED <<registry, job>>
  BY <1>0, <1>1, <1>2, <1>4, <1>5
<1>6. CASE /\ pool' = pool_put(pool, TRUE) /\ Done(a) /\ UNCHANGED registry
           /\ job' = [job EXCEPT ![j] = job_put(job_put(fresh))]
  <2>1. fresh.refs = 2 /\ fresh.life = "live"
    BY DEF fresh
  <2>2. job_put(fresh) \in Block /\ job_put(fresh).refs = 1 /\ job_put(fresh).life = "live"
    BY <1>2, <2>1, JobPutIs
  <2>3. /\ job_put(job_put(fresh)) \in Block /\ job_put(job_put(fresh)).refs = 0
        /\ job_put(job_put(fresh)).life = "freed"
    BY <2>2, JobPutIs
  <2> QED BY <2>3, <1>1, <1>2, <1>4, <1>6
<1>7. CASE /\ job' = [job EXCEPT ![j] = fresh] /\ fpr_owned_add(a, j)
           /\ Doing(a, "registered", j) /\ UNCHANGED pool
  <2>1. /\ Alone(a) /\ actor'[a].pc = "registered" /\ actor'[a].at = j
        /\ actor' \in [Actors -> [pc : Steps, at : Ids \union {Nobody}]]
    BY <1>0, <1>1, <1>7 DEF Doing, Alone, ResolverParts, ResolverTypeOK, Steps, Ids
  <2>2. CallShape' /\ OneAt'
    BY <1>0, <1>1, <2>1 DEF ResolverParts, CallShape, OneAt, Alone
  <2>3. /\ registry' \in [Ids -> Actors \union {Nobody}] /\ registry'[j] = a
        /\ \A k \in Ids \ {j} : registry'[k] = registry[k]
    BY <1>0, <1>1, <1>2, <1>7 DEF fpr_owned_add, Ids
  <2>4. /\ job' \in [Jobnames -> Block] /\ \A k \in Jobnames \ {j} : job'[k] = job[k]
        /\ job'[j].life = "live" /\ job'[j].refs = 2
    BY <1>0, <1>1, <1>2, <1>7 DEF fresh
  <2>5. \A k \in Jobnames : (k \in InFlight)' <=> k \in InFlight
    BY <2>1, <2>2, <1>0, <1>1, <1>2, BeginFlight DEF Running
  <2>6. Own(Pool)' = Own(Pool)
    BY <1>0, <1>1, <1>2, <2>1, <2>3, CallingMoves DEF ResolverParts, Own, Held, Registered, Ids
  <2>7. PoolRight' /\ pool'.life # "none" /\ pool.life # "none"
    BY <1>0, <1>7, <2>2, <2>5, <2>6, PoolStays, <1>1, <2>1, BeginFlight DEF ResolverParts, NoBlock
  <2>8. Own(j)' = 1 /\ Thread(j)' = 1
    BY <1>0, <2>1, <2>3 DEF Own, Thread, Held, Threaded, Registered, Calling
  <2>9. JobRight(j)'
    BY <2>4, <2>8 DEF JobRight
  <2> QED BY <1>0, <1>1, <1>2, <1>7, <2>1, <2>2, <2>3, <2>4, <2>7, <2>9, BeginFrame
<1> QED BY <1>0, <1>5, <1>6, <1>7, <1>1 DEF BeginJob, fresh

\* a registered lookup gets its thread, or gives up
LEMMA BeginThreadRight ==
  ASSUME ResolverParts, NEW a \in Actors, BeginThread(a)
  PROVE  ResolverParts'
<1> USE ResolverAssumption
<1>0. PICK j : j = actor[a].at
  OBVIOUS
<1>1. /\ j \in Jobnames /\ actor[a].pc = "registered" /\ Done(a)
      /\ job[j].life = "live" /\ registry[j] = a /\ worker[j] = "none"
  BY <1>0 DEF BeginThread, ResolverParts, CallShape, InHand
<1>2. /\ job \in [Jobnames -> Block] /\ pool \in PoolType
      /\ registry \in [Ids -> Actors \union {Nobody}] /\ j # Nobody /\ j # Pool
      /\ worker \in [Jobnames -> {"none", "lookup", "pool", "job", "gone"}]
  BY <1>0, <1>1 DEF Block, ResolverParts, ResolverTypeOK, PoolType
<1>3. ~Calling(j, {"closing", "dying"}) /\ a # Nobody
  BY <1>0, <1>1 DEF ResolverParts, InHand, OneAt, Calling
<1>4. /\ Alone(a) /\ actor'[a].pc = "idle" /\ actor'[a].at = Nobody /\ CallShape' /\ OneAt'
      /\ actor' \in [Actors -> [pc : Steps, at : Ids \union {Nobody}]]
  BY <1>0, <1>1, CallOver DEF Done
<1>5. Own(j) = 1 /\ Thread(j) = 1
  BY <1>0, <1>1, <1>3 DEF Own, Thread, Held, Threaded, Registered, Calling
<1>6. job[j] \in Block /\ job[j].refs = 2
  BY <1>0, <1>1, <1>2, <1>5 DEF ResolverParts, JobRight
<1>7. CASE worker' = [worker EXCEPT ![j] = "lookup"] /\ UNCHANGED <<registry, pool, job>>
  <2>1. /\ worker' \in [Jobnames -> {"none", "lookup", "pool", "job", "gone"}]
        /\ worker'[j] = "lookup" /\ \A k \in Jobnames \ {j} : worker'[k] = worker[k]
    BY <1>0, <1>1, <1>2, <1>7
  <2>2. \A k \in Jobnames : (k \in InFlight)' <=> k \in InFlight
    BY <2>1, <1>0, <1>1, <1>2, <1>4, BeginFlight DEF Running
  <2>3. Own(Pool)' = Own(Pool) /\ Own(j)' = Own(j)
    BY <1>0, <1>1, <1>2, <1>3, <1>4, <1>7, CallingMoves DEF ResolverParts, Own, Held, Registered
  <2>4. PoolRight' /\ pool.life # "none"
    BY <1>0, <1>7, <1>4, <2>2, <2>3, PoolStays, <1>1, <2>1, BeginFlight DEF ResolverParts, NoBlock
  <2>5. Thread(j)' = 1
    BY <2>1 DEF Thread, Threaded
  <2>6. JobRight(j)'
    <3>1. job'[j].refs = 2 /\ job'[j].life = "live" /\ Own(j)' = 1
      BY <1>1, <1>5, <1>6, <1>7, <2>3
    <3> QED BY <3>1, <2>5 DEF JobRight
  <2> QED BY <1>0, <1>1, <1>2, <1>4, <1>7, <2>1, <2>4, <2>6, BeginFrame
<1>8. CASE /\ Unlink(j) /\ pool' = pool_put(pool, TRUE)
           /\ job' = [job EXCEPT ![j] = job_put(job_put(job[j]))] /\ UNCHANGED worker
  <2>1. job_put(job[j]) \in Block /\ job_put(job[j]).refs = 1 /\ job_put(job[j]).life = "live"
    BY <1>0, <1>1, <1>6, JobPutIs
  <2>2. /\ job_put(job_put(job[j])) \in Block /\ job_put(job_put(job[j])).refs = 0
        /\ job_put(job_put(job[j])).life = "freed"
    BY <2>1, JobPutIs
  <2>3. /\ job' \in [Jobnames -> Block] /\ \A k \in Jobnames \ {j} : job'[k] = job[k]
        /\ job'[j].life = "freed" /\ job'[j].refs = 0
    BY <1>0, <1>1, <1>2, <1>8, <2>2
  <2>4. /\ registry' \in [Ids -> Actors \union {Nobody}] /\ registry'[j] = Nobody
        /\ \A k \in Ids \ {j} : registry'[k] = registry[k]
    BY <1>0, <1>1, <1>2, <1>8 DEF Unlink, Ids
  <2>5. /\ j \in InFlight
        /\ \A k \in Jobnames : (k \in InFlight)' <=> k \in InFlight /\ k # j
    BY <1>0, <1>1, <1>2, <1>4, <1>8, BeginFlight DEF Running
  <2>6. Own(Pool)' = Own(Pool)
    BY <1>0, <1>1, <1>2, <1>4, <2>4, CallingMoves DEF ResolverParts, Own, Held, Registered, Ids
  <2>7. PoolRight' /\ pool' \in PoolType /\ pool.life # "none" /\ pool'.life # "none"
    BY <1>0, <1>1, <1>4, <1>8, <2>5, <2>6, PlaceGiven
  <2>8. Own(j)' = 0 /\ Thread(j)' = 0
    BY <1>0, <1>1, <1>2, <1>3, <1>4, <1>8, <2>4, CallingMoves DEF ResolverParts, Own, Thread, Held, Threaded, Registered
  <2>9. JobRight(j)'
    BY <2>3, <2>8 DEF JobRight
  <2> QED BY <1>0, <1>1, <1>2, <1>4, <1>8, <2>3, <2>4, <2>7, <2>9, BeginFrame
<1> QED BY <1>0, <1>7, <1>8, <1>1 DEF BeginThread

\* every step of the resolver keeps its invariant
LEMMA ResolverRight ==
  ASSUME ResolverParts, ResolverNext \/ UNCHANGED resolverVars
  PROVE  ResolverParts'
<1>1. CASE UNCHANGED resolverVars
  BY <1>1 DEF resolverVars, ResolverParts, ResolverTypeOK, CallShape, OneAt, InHand, Blocked, NoBlock, JobRight,
     PoolRight, InFlight, Own, Thread, Held, Threaded, Calling, Registered
<1>2. ASSUME NEW a \in Actors, dns_pool(a) PROVE ResolverParts'
  BY <1>2, OpensRight
<1>3. ASSUME NEW a \in Actors, NEW j \in Jobnames, dns_begin(a, j) PROVE ResolverParts'
  BY <1>3, ReservesRight
<1>4. ASSUME NEW a \in Actors, NEW id \in Ids, fpr_owned_take(a, id) PROVE ResolverParts'
  <2>1. actor[a].pc = "idle" /\ actor[a].at = Nobody
    BY <1>4 DEF fpr_owned_take, Idle, ResolverParts, CallShape
  <2> QED BY <2>1, <1>4, TakesRight DEF fpr_owned_take, Owns
<1>5. ASSUME NEW a \in Actors, owned_death(a) PROVE ResolverParts'
  <2>1. ASSUME NEW id \in Ids, Owns(a, id), Unlink(id), Doing(a, "dying", id) PROVE ResolverParts'
    BY <2>1, <1>5, TakesRight DEF owned_death, Owns
  <2>2. CASE Doing(a, "dead", Nobody) /\ UNCHANGED registry
    BY <2>2, <1>5, DeadRight DEF owned_death
  <2> QED BY <2>1, <2>2, <1>5 DEF owned_death
<1>6. ASSUME NEW a \in Actors, Destroy(a) \/ DeathDestroys(a) PROVE ResolverParts'
  <2>1. /\ actor[a].pc \in {"closing", "dying"} /\ actor[a].at # Nobody /\ actor[a].at \in Ids
        /\ Destroyed(actor[a].at) /\ UNCHANGED <<registry, worker>>
        /\ Doing(a, "idle", Nobody) \/ Doing(a, "dying", Nobody)
    BY <1>6, ResolverAssumption DEF Destroy, DeathDestroys, Done, ResolverParts, CallShape, ResolverTypeOK, Ids
  <2> QED BY <2>1, DestroysRight
<1>7. ASSUME NEW a \in Actors, BeginJob(a) PROVE ResolverParts'
  BY <1>7, BeginJobRight
<1>8. ASSUME NEW a \in Actors, BeginThread(a) PROVE ResolverParts'
  BY <1>8, BeginThreadRight
<1>9. ASSUME NEW j \in Jobnames, resolve_worker(j) PROVE ResolverParts'
  BY <1>9, WorkerRight
<1> QED BY <1>1, <1>2, <1>3, <1>4, <1>5, <1>6, <1>7, <1>8, <1>9 DEF ResolverNext, ActorStep

\* the invariant holds at the start
LEMMA ResolverStarts == ResolverInit => ResolverParts
<1> SUFFICES ASSUME ResolverInit PROVE ResolverParts
  OBVIOUS
<1>1. InFlight = {}
  BY DEF ResolverInit, InFlight
<1>2. CallShape /\ OneAt /\ InHand /\ NoBlock /\ (\A j \in Jobnames : JobRight(j)) /\ PoolRight
  BY <1>1, ResolverAssumption DEF ResolverInit, CallShape, OneAt, InHand, NoBlock, JobRight, PoolRight, Ids
<1>3. Cardinality(Jobnames) \in Nat
  BY ResolverAssumption, FS_CardinalityType
<1>4. ResolverTypeOK
  BY <1>3 DEF ResolverInit, ResolverTypeOK, Steps
<1> QED BY <1>2, <1>4 DEF ResolverParts

-----------------------------------------------------------------------------
(* The routing: the invariant                                              *)

\* the service has taken its Stop
Stopping == svc.mode \in {"retiring", "close", "finish", "end"}

\* which states of the control block, the thread and the service go together
WatcherShape ==
    /\ watcher.state = "none" <=> watcher.irq = 0
    /\ thread.pc # "gone" <=> watcher.state \in {"open", "closing"}
    /\ watcher.polling <=> thread.pc \in {"poll", "back"}
    /\ svc.mode = "off" => watcher.state = "none"
    /\ svc.mode \in {"binding", "retiring"} => watcher.state = "open"
    /\ svc.mode \in {"recv", "drain"} => watcher.state \in {"none", "open"}
    /\ svc.mode = "close" => watcher.state # "none"
    /\ svc.mode \in {"finish", "end"} => watcher.state = "none"

\* which state of the waker goes with which of the service
WakerShape ==
    /\ svc.mode = "off" => waker = "off"
    /\ svc.mode = "binding" => waker \in {"binding", "waiting"}
    /\ svc.mode \in {"recv", "drain"} => waker = IF Watched THEN "waiting" ELSE "off"
    /\ svc.mode = "retiring" => waker \in {"waiting", "unbinding", "done"}
    /\ svc.mode = "close" => waker = "done"
    /\ svc.mode \in {"finish", "end"} => waker \in {"off", "done"}
    /\ waker \in {"off", "binding"} => woken = <<>>
    /\ \A i \in DOMAIN woken : woken[i] = "stopped" => waker = "done"

\* what the waker has asked of the router, and where the router has it
WakerBinding ==
    /\ waker \in {"off", "waiting", "done"} => request[Waker] = NoRequest /\ answer[Waker] = "none"
    /\ waker = "binding" =>
          \/ request[Waker] = <<"bind", watcher.irq>> /\ answer[Waker] = "none"
          \/ request[Waker] = NoRequest /\ answer[Waker] = "bound"
    /\ waker = "unbinding" =>
          \/ request[Waker] = <<"unbind", watcher.irq>> /\ answer[Waker] = "none"
          \/ /\ request[Waker] = NoRequest /\ answer[Waker] \in {"unbound", "refused"}
             /\ answer[Waker] = "unbound" => \A s \in Sources : table[s] # Waker
    /\ \A s \in Sources : table[s] = Waker => s = watcher.irq /\ waker \in {"binding", "waiting", "unbinding"}
    /\ Waker \in ended <=> waker = "done"

\* a helper with a source of its own: from its bind until it has read its result
Working(h) == helper[h].pc \in {"binding", "bound", "waiting", "take"}

\* every source in use has one user
OneUser ==
    /\ Watched => watcher.irq \in used
    /\ \A h \in Helpers : Working(h) =>
          /\ helper[h].slot \in used
          /\ helper[h].slot # watcher.irq
          /\ \A g \in Helpers : Working(g) /\ helper[g].slot = helper[h].slot => g = h

\* only the waker and the helpers ask the router, and a helper only for its slot
Askers ==
    \A b \in Binders \ {Waker} :
        /\ request[b] # NoRequest => b \in Helpers /\ At(b, "binding") /\ request[b] = <<"bind", helper[b].slot>>
        /\ answer[b] # "none" => b \in Helpers /\ At(b, "binding") /\ request[b] = NoRequest

\* an interrupt of the watcher reaches the waker
WakerReached ==
    waker = "waiting" \/ (waker = "binding" /\ answer[Waker] = "bound") =>
        watcher.irq \in opened /\ table[watcher.irq] = Waker

\* The inductive invariant of the watcher's part in the routing.
RouterInv == WatcherShape /\ WakerShape /\ WakerBinding /\ OneUser /\ Askers /\ WakerReached

-----------------------------------------------------------------------------
(* The types of the watcher and its service                                *)

\* the answers a service gives
Notes == {"admitted", "refused", "ok", "err", "retired"}

\* the least of a set of numbers
LEMMA Least ==
  ASSUME NEW S, S \subseteq Nat, S # {}
  PROVE  Min(S) \in S /\ \A j \in S : Min(S) <= j
<1>1. PICK i \in S : \A j \in S : <<j, i>> \notin OpToRel(<, Nat)
  BY NatLessThanWellFounded, WFMin
<1>2. ASSUME NEW j \in S PROVE i <= j
  <2>1. i \in Nat /\ j \in Nat
    OBVIOUS
  <2>2. SUFFICES ASSUME j < i PROVE FALSE
    BY <2>1
  <2>3. <<j, i>> \in OpToRel(<, Nat)
    BY <2>1, <2>2 DEF OpToRel
  <2> QED BY <2>3, <1>1
<1> QED BY <1>2 DEF Min

\* the records of module Watch
WatcherT == [state : {"none", "open", "closing", "stopped"}, irq : Sources \union {0},
             want : SUBSET Fds, deadline : 0 .. Horizon, armed : BOOLEAN,
             polling : BOOLEAN, ready : SUBSET Fds, wake : BOOLEAN]

ThreadT == [pc : {"gone", "top", "poll", "back", "raise"}, current : BOOLEAN,
            set : SUBSET Fds, deadline : 0 .. Horizon, got : SUBSET Fds, woke : BOOLEAN]
WakerT == {"off", "binding", "waiting", "unbinding", "done"}

ServiceT == [kind : Services,
             mode : {"off", "binding", "recv", "drain", "retiring", "close", "finish", "end"},
             entries : SUBSET Clients, reply : Clients \union {NoOne}, found : BOOLEAN]
BoxT == [Clients -> Seq({"register", "retire"})]
ClientT == [pc : {"idle", "sent", "ticket", "cancel"}, fd : Fds, deadline : 0 .. Horizon, asks : 0 .. MaxAsks]
NoteT == [Clients -> Seq(Notes)]

\* WatchTypeOK by these names
WTypes ==
  /\ watcher \in WatcherT /\ thread \in ThreadT /\ waker \in WakerT /\ svc \in ServiceT
  /\ box \in BoxT /\ woken \in Seq({"woke", "stopped"}) /\ stop \in {"no", "sent", "taken"}
  /\ client \in [Clients -> ClientT] /\ note \in NoteT /\ since \in [Clients -> BOOLEAN]
  /\ data \subseteq Fds /\ arrivals \in 0 .. MaxArrivals /\ now \in 0 .. Horizon

\* the two are the same
LEMMA WTypesIs == WatchTypeOK <=> WTypes
BY DEF WatchTypeOK, WTypes, WatcherT, ThreadT, WakerT, ServiceT, BoxT, ClientT, NoteT, Notes

\* a list of answers with one more
LEMMA ToldType ==
  ASSUME NEW n \in NoteT, NEW cs, NEW w \in Notes
  PROVE  Told(n, cs, w) \in NoteT
BY DEF Told, NoteT

\* the nearest deadline is a deadline
LEMMA NearestType ==
  ASSUME WTypes, NEW cs, cs \subseteq Clients
  PROVE  Nearest(cs) \in 0 .. Horizon
<1> USE WatchAssumption
<1>1. CASE Readiness /\ cs # {}
  <2> DEFINE D == {client[c].deadline : c \in cs}
  <2>1. D \subseteq 0 .. Horizon /\ D # {}
    BY <1>1 DEF WTypes, ClientT
  <2>2. D \subseteq Nat
    BY <2>1
  <2> HIDE DEF D
  <2>3. Min(D) \in D
    BY <2>1, <2>2, Least
  <2> QED BY <2>1, <2>3, <1>1 DEF Nearest, D
<1>2. CASE ~(Readiness /\ cs # {})
  BY <1>2 DEF Nearest
<1> QED BY <1>1, <1>2

\* what signalling changes
LEMMA SignalledIs ==
  ASSUME NEW w \in WatcherT
  PROVE  /\ Signalled(w) \in WatcherT /\ Signalled(w) = [w EXCEPT !.wake = w.wake \/ w.polling]
         /\ Signalled(w).state = w.state /\ Signalled(w).irq = w.irq /\ Signalled(w).want = w.want
         /\ Signalled(w).deadline = w.deadline /\ Signalled(w).armed = w.armed
         /\ Signalled(w).polling = w.polling /\ Signalled(w).ready = w.ready
         /\ Signalled(w).wake <=> w.wake \/ w.polling
BY DEF Signalled, WatcherT

\* the thread, its snapshot out of date
OutdatedThread ==
  /\ thread' \in ThreadT /\ thread'.pc = thread.pc /\ ~thread'.current /\ thread'.set = thread.set
  /\ thread'.deadline = thread.deadline /\ thread'.got = thread.got /\ thread'.woke = thread.woke

\* what Outdated leaves
LEMMA OutdatedIs ==
  ASSUME WTypes, Outdated
  PROVE  OutdatedThread
BY DEF WTypes, ThreadT, Outdated, OutdatedThread

\* a set told to the watcher: what it has then, and that a poll is woken
NowTold(set, d, ready) ==
  /\ watcher' \in WatcherT /\ OutdatedThread
  /\ watcher'.state = watcher.state /\ watcher'.irq = watcher.irq /\ watcher'.polling = watcher.polling
  /\ watcher'.want = set /\ watcher'.deadline = d /\ watcher'.ready = ready
  /\ watcher'.armed <=> set # {} \/ d # 0
  /\ watcher'.wake <=> watcher.wake \/ watcher.polling

\* Os.watchArm tells the watcher, or leaves all as it is
LEMMA ArmIs ==
  ASSUME WTypes, NEW set \in SUBSET Fds, h_watch_arm(set)
  PROVE  \/ /\ watcher.armed /\ watcher.deadline = 0 /\ watcher.want = set
            /\ UNCHANGED <<watcher, thread>>
         \/ NowTold(set, 0, watcher.ready)
<1> USE WatchAssumption
<1>1. CASE watcher.armed /\ watcher.deadline = 0 /\ watcher.want = set
  BY <1>1 DEF h_watch_arm
<1>2. CASE ~(watcher.armed /\ watcher.deadline = 0 /\ watcher.want = set)
  <2>1. PICK w : w = [watcher EXCEPT !.want = set, !.deadline = 0, !.armed = set # {}]
    OBVIOUS
  <2>2. /\ w \in WatcherT /\ w.state = watcher.state /\ w.irq = watcher.irq
        /\ w.polling = watcher.polling /\ w.want = set /\ w.deadline = 0 /\ w.ready = watcher.ready
        /\ (w.armed <=> set # {}) /\ w.wake = watcher.wake
    <3>1. 0 \in 0 .. Horizon /\ (set # {}) \in BOOLEAN
      OBVIOUS
    <3>2. watcher \in WatcherT
      BY DEF WTypes
    <3> QED BY <2>1, <3>1, <3>2 DEF WatcherT
  <2>3. watcher' = Signalled(w) /\ Outdated
    BY <1>2, <2>1 DEF h_watch_arm
  <2> QED BY <2>2, <2>3, SignalledIs, OutdatedIs DEF NowTold
<1> QED BY <1>1, <1>2

\* Os.watchArmEvents tells the watcher
LEMMA ArmEventsIs ==
  ASSUME WTypes, NEW set \in SUBSET Fds, NEW d \in 0 .. Horizon, h_watch_arm_events(set, d)
  PROVE  NowTold(set, d, {})
<1>1. PICK w : w = [watcher EXCEPT !.want = set, !.deadline = d, !.ready = {}, !.armed = set # {} \/ d # 0]
  OBVIOUS
<1>2. /\ w \in WatcherT /\ w.state = watcher.state /\ w.irq = watcher.irq
      /\ w.polling = watcher.polling /\ w.want = set /\ w.deadline = d /\ w.ready = {}
      /\ (w.armed <=> set # {} \/ d # 0) /\ w.wake = watcher.wake
  BY <1>1 DEF WTypes, WatcherT
<1>3. watcher' = Signalled(w) /\ Outdated
  BY <1>1 DEF h_watch_arm_events
<1> QED BY <1>2, <1>3, SignalledIs, OutdatedIs DEF NowTold

\* the descriptors of waits
LEMMA FdsType ==
  ASSUME WTypes, NEW cs \in SUBSET Clients
  PROVE  FdsOf(cs) \in SUBSET Fds
BY DEF WTypes, ClientT, FdsOf, FdOf

\* the service arms the waits cs
LEMMA ArmedIs ==
  ASSUME WTypes, NEW cs \in SUBSET Clients, Armed(cs)
  PROVE  \/ /\ ~Readiness /\ watcher.armed /\ watcher.deadline = 0 /\ watcher.want = FdsOf(cs)
            /\ UNCHANGED <<watcher, thread>>
         \/ ~Readiness /\ NowTold(FdsOf(cs), 0, watcher.ready)
         \/ Readiness /\ NowTold(FdsOf(cs), Nearest(cs), {})
BY FdsType, NearestType, ArmIs, ArmEventsIs DEF Armed

\* a failed arm disarms
LEMMA ArmRefusedIs ==
  ASSUME WTypes, ArmRefused
  PROVE  NowTold({}, 0, {})
BY WatchAssumption, ArmEventsIs DEF ArmRefused

\* the thread keeps the types
LEMMA ThreadTypes ==
  ASSUME WTypes, ThreadStep
  PROVE  WTypes'
<1> USE WatchAssumption
<1>1. CASE ThreadPolls
  <2>1. thread' \in ThreadT
    BY <1>1 DEF ThreadPolls, WTypes, ThreadT, WatcherT
  <2>2. watcher' \in WatcherT
    BY <1>1 DEF ThreadPolls, WTypes, WatcherT
  <2> QED BY <2>1, <2>2, <1>1 DEF ThreadPolls, WTypes
<1>2. CASE PollReturns
  <2>1. thread' \in ThreadT
    BY <1>2 DEF PollReturns, WTypes, ThreadT, WatcherT
  <2> QED BY <2>1, <1>2 DEF PollReturns, WTypes
<1>3. CASE ThreadPublishes
  <2>1. watcher' \in WatcherT
    <3>1. PICK w : w = [Awake EXCEPT !.polling = FALSE]
      OBVIOUS
    <3>2. w \in WatcherT
      <4>1. Awake \in WatcherT
        BY DEF Awake, Drained, WTypes, WatcherT
      <4> QED BY <4>1, <3>1 DEF WatcherT
    <3>3. PICK v : v = Found(w)
      OBVIOUS
    <3>4. v \in WatcherT /\ [v EXCEPT !.armed = FALSE] \in WatcherT
      BY <3>2, <3>3 DEF Found, WTypes, WatcherT, ThreadT
    <3> QED BY <3>1, <3>2, <3>3, <3>4, <1>3 DEF ThreadPublishes
  <2>2. thread' \in ThreadT
    BY <1>3 DEF ThreadPublishes, WTypes, ThreadT
  <2> QED BY <2>1, <2>2, <1>3 DEF ThreadPublishes, WTypes
<1>4. CASE ThreadRaises
  <2>1. thread' \in ThreadT
    BY <1>4 DEF ThreadRaises, WTypes, ThreadT
  <2> QED BY <2>1, <1>4 DEF ThreadRaises, WTypes
<1>5. CASE ThreadStops
  <2>1. watcher' \in WatcherT
    BY <1>5 DEF ThreadStops, WTypes, WatcherT
  <2>2. thread' \in ThreadT
    BY <1>5 DEF ThreadStops, WTypes, ThreadT, NoThread
  <2> QED BY <2>1, <2>2, <1>5 DEF ThreadStops, WTypes
<1> QED BY <1>1, <1>2, <1>3, <1>4, <1>5 DEF ThreadStep

\* the waker keeps the types
LEMMA WakerTypes ==
  ASSUME WTypes, WakerStep
  PROVE  WTypes'
<1> USE WatchAssumption
<1>1. CASE WakerBound
  <2>1. waker' \in WakerT
    BY <1>1 DEF WakerBound, WTypes, WakerT
  <2>2. woken' \in Seq({"woke", "stopped"})
    BY <1>1 DEF WakerBound, WTypes
  <2> QED BY <2>1, <2>2, <1>1 DEF WakerBound, WTypes
<1>2. CASE WakerWakes
  <2>1. woken' \in Seq({"woke", "stopped"})
    BY <1>2 DEF WakerWakes, WTypes
  <2> QED BY <2>1, <1>2 DEF WakerWakes, WTypes
<1>3. CASE WakerUnbinds
  <2>1. waker' \in WakerT
    BY <1>3 DEF WakerUnbinds, WTypes, WakerT
  <2> QED BY <2>1, <1>3 DEF WakerUnbinds, WTypes
<1>4. CASE WakerEnds
  <2>1. waker' \in WakerT
    BY <1>4 DEF WakerEnds, WTypes, WakerT
  <2>2. woken' \in Seq({"woke", "stopped"})
    BY <1>4 DEF WakerEnds, WTypes
  <2> QED BY <2>1, <2>2, <1>4 DEF WakerEnds, WTypes
<1> QED BY <1>1, <1>2, <1>3, <1>4 DEF WakerStep

\* the service keeps the types
LEMMA ServiceTypes ==
  ASSUME WTypes, ServiceStep
  PROVE  WTypes'
<1> USE WatchAssumption
<1>1. CASE ServiceStart
  <2>1. watcher' \in WatcherT
    <3>1. NoWatcher \in WatcherT
      BY DEF NoWatcher, WatcherT
    <3>2. \A s \in Sources : [NoWatcher EXCEPT !.state = "open", !.irq = s] \in WatcherT
      BY <3>1 DEF WatcherT
    <3>3. watcher \in WatcherT
      BY DEF WTypes
    <3>4. \/ \E s \in Sources : watcher' = [NoWatcher EXCEPT !.state = "open", !.irq = s]
          \/ watcher' = watcher
      BY <1>1 DEF ServiceStart
    <3> QED BY <3>2, <3>3, <3>4
  <2>2. thread' \in ThreadT
    <3>1. NoThread \in ThreadT
      BY DEF NoThread, ThreadT
    <3>2. [NoThread EXCEPT !.pc = "top"] \in ThreadT
      BY <3>1 DEF ThreadT
    <3>3. thread \in ThreadT
      BY DEF WTypes
    <3>4. thread' = [NoThread EXCEPT !.pc = "top"] \/ thread' = thread
      BY <1>1 DEF ServiceStart
    <3> QED BY <3>2, <3>3, <3>4
  <2>3. waker' \in WakerT
    BY <1>1 DEF ServiceStart, WTypes, WakerT
  <2>4. svc' \in ServiceT
    BY <1>1 DEF ServiceStart, WTypes, ServiceT
  <2> QED BY <2>1, <2>2, <2>3, <2>4, <1>1 DEF ServiceStart, WTypes
<1>2. CASE ServiceReady
  <2>1. svc' \in ServiceT
    BY <1>2 DEF ServiceReady, WTypes, ServiceT
  <2>2. woken' \in Seq({"woke", "stopped"})
    BY <1>2 DEF ServiceReady, WTypes
  <2> QED BY <2>1, <2>2, <1>2 DEF ServiceReady, WTypes
<1>3. CASE TakeWoke
  <2>1. woken' \in Seq({"woke", "stopped"})
    BY <1>3 DEF TakeWoke, WTypes
  <2>2. svc' \in ServiceT
    BY <1>3 DEF TakeWoke, WTypes, ServiceT, Settle
  <2>3. note' \in NoteT
    BY <1>3, ToldType DEF TakeWoke, WTypes, NoteT, Settle, Notes
  <2>4. watcher' \in WatcherT
    BY <1>3 DEF TakeWoke, WTypes, WatcherT, Taken
  <2> QED BY <2>1, <2>2, <2>3, <2>4, <1>3 DEF TakeWoke, WTypes
<1>4. CASE Arm
  <2>1. svc' \in ServiceT
    BY <1>4 DEF Arm, WTypes, ServiceT
  <2>2. note' \in NoteT
    BY <1>4, ToldType DEF Arm, WTypes, NoteT, Acknowledged, Notes
  <2>3. watcher' \in WatcherT
    <3>1. svc.entries \ (IF Readiness THEN TimedOut(svc.entries) ELSE {}) \in SUBSET Clients
      BY DEF WTypes, ServiceT
    <3> QED BY <3>1, <1>4, ArmedIs DEF Arm, NowTold, WTypes
  <2>4. thread' \in ThreadT
    <3>1. svc.entries \ (IF Readiness THEN TimedOut(svc.entries) ELSE {}) \in SUBSET Clients
      BY DEF WTypes, ServiceT
    <3> QED BY <3>1, <1>4, ArmedIs DEF Arm, NowTold, OutdatedThread, WTypes
  <2> QED BY <2>1, <2>2, <2>3, <2>4, <1>4 DEF Arm, WTypes
<1>5. CASE ArmFails
  <2>1. svc' \in ServiceT
    BY <1>5 DEF ArmFails, WTypes, ServiceT
  <2>2. note' \in NoteT
    BY <1>5, ToldType DEF ArmFails, WTypes, NoteT, Acknowledged, Notes
  <2>3. watcher' \in WatcherT
    BY <1>5, ArmRefusedIs DEF ArmFails, NowTold
  <2>4. thread' \in ThreadT
    BY <1>5, ArmRefusedIs DEF ArmFails, NowTold, OutdatedThread
  <2> QED BY <2>1, <2>2, <2>3, <2>4, <1>5 DEF ArmFails, WTypes
<1>6. CASE FallbackPass
  <2>1. svc' \in ServiceT
    BY <1>6 DEF FallbackPass, WTypes, ServiceT, Settle
  <2>2. note' \in NoteT
    BY <1>6, ToldType DEF FallbackPass, WTypes, NoteT, Settle, Notes
  <2> QED BY <2>1, <2>2, <1>6 DEF FallbackPass, WTypes
<1>7. CASE TakeStop
  <2>1. stop' \in {"no", "sent", "taken"}
    BY <1>7 DEF TakeStop, WTypes
  <2>2. note' \in NoteT
    BY <1>7, ToldType DEF TakeStop, WTypes, NoteT, Notes
  <2>3. svc' \in ServiceT
    BY <1>7 DEF TakeStop, WTypes, ServiceT
  <2>4. watcher' \in WatcherT
    BY <1>7, ArmedIs DEF TakeStop, NowTold, WTypes
  <2>5. thread' \in ThreadT
    BY <1>7, ArmedIs DEF TakeStop, NowTold, OutdatedThread, WTypes
  <2> QED BY <2>1, <2>2, <2>3, <2>4, <2>5, <1>7 DEF TakeStop, WTypes
<1>8. CASE RetireWoken
  <2>1. woken' \in Seq({"woke", "stopped"})
    BY <1>8 DEF RetireWoken, WTypes
  <2>2. svc' \in ServiceT
    BY <1>8 DEF RetireWoken, WTypes, ServiceT
  <2> QED BY <2>1, <2>2, <1>8 DEF RetireWoken, WTypes
<1>9. CASE h_watch_close
  <2>1. watcher' \in WatcherT
    <3>1. NoWatcher \in WatcherT /\ [watcher EXCEPT !.state = "closing"] \in WatcherT
      BY WatchAssumption DEF NoWatcher, WatcherT, WTypes
    <3> QED BY <3>1, <1>9, SignalledIs DEF h_watch_close
  <2>2. svc' \in ServiceT
    BY <1>9 DEF h_watch_close, WTypes, ServiceT
  <2> QED BY <2>1, <2>2, <1>9 DEF h_watch_close, WTypes
<1>10. CASE ServiceEnds
  <2>1. svc' \in ServiceT
    BY <1>10 DEF ServiceEnds, WTypes, ServiceT
  <2> QED BY <2>1, <1>10 DEF ServiceEnds, WTypes
<1>11. ASSUME NEW c \in Clients, TakeRegister(c) PROVE WTypes'
  <2>1. box' \in BoxT
    BY <1>11 DEF TakeRegister, WTypes, BoxT
  <2>2. note' \in NoteT
    BY <1>11, ToldType DEF TakeRegister, WTypes, Notes
  <2>3. svc' \in ServiceT
    <3>1. [svc EXCEPT !.mode = "drain"] \in ServiceT
      BY DEF WTypes, ServiceT
    <3>2. [svc EXCEPT !.mode = "drain", !.entries = svc.entries \union {c}] \in ServiceT
      BY <1>11 DEF WTypes, ServiceT
    <3> QED BY <3>1, <3>2, <1>11 DEF TakeRegister
  <2> QED BY <2>1, <2>2, <2>3, <1>11 DEF TakeRegister, WTypes
<1>12. ASSUME NEW c \in Clients, TakeRetire(c) PROVE WTypes'
  <2>1. box' \in BoxT
    BY <1>12 DEF TakeRetire, WTypes, BoxT
  <2>2. svc' \in ServiceT
    <3>1. \A b \in BOOLEAN :
            [svc EXCEPT !.mode = "drain", !.entries = svc.entries \ {c}, !.reply = c, !.found = b] \in ServiceT
      BY <1>12 DEF WTypes, ServiceT
    <3>2. svc' = [svc EXCEPT !.mode = "drain", !.entries = svc.entries \ {c}, !.reply = c,
                             !.found = c \in svc.entries]
      BY <1>12 DEF TakeRetire
    <3>3. CASE c \in svc.entries
      BY <3>1, <3>2, <3>3
    <3>4. CASE c \notin svc.entries
      <4>1. (c \in svc.entries) = FALSE
        BY <3>4
      <4>2. svc' = [svc EXCEPT !.mode = "drain", !.entries = svc.entries \ {c}, !.reply = c, !.found = FALSE]
        BY <3>2, <4>1, Zenon
      <4> QED BY <3>1, <4>2
    <3> QED BY <3>3, <3>4
  <2> QED BY <2>1, <2>2, <1>12 DEF TakeRetire, WTypes
<1>13. ASSUME NEW c \in Clients, Refuse(c) PROVE WTypes'
  <2>1. box' \in BoxT
    BY <1>13 DEF Refuse, WTypes, BoxT
  <2>2. note' \in NoteT
    BY <1>13, ToldType DEF Refuse, WTypes, NoteT, Notes
  <2> QED BY <2>1, <2>2, <1>13 DEF Refuse, WTypes
<1> QED BY <1>1, <1>2, <1>3, <1>4, <1>5, <1>6, <1>7, <1>8, <1>9, <1>10, <1>11, <1>12, <1>13 DEF ServiceStep

\* the clients keep the types
LEMMA ClientTypes ==
  ASSUME WTypes, \E c \in Clients : Register(c) \/ Cancel(c) \/ ClientStep(c)
  PROVE  WTypes'
<1> USE WatchAssumption
<1>1. ASSUME NEW c \in Clients, Register(c) PROVE WTypes'
  <2>1. client' \in [Clients -> ClientT]
    BY <1>1 DEF Register, WTypes, ClientT
  <2>2. box' \in BoxT
    BY <1>1 DEF Register, WTypes, BoxT
  <2>3. since' \in [Clients -> BOOLEAN]
    BY <1>1 DEF Register, WTypes
  <2> QED BY <2>1, <2>2, <2>3, <1>1 DEF Register, WTypes
<1>2. ASSUME NEW c \in Clients, TakeNote(c) PROVE WTypes'
  <2>1. client' \in [Clients -> ClientT]
    <3>1. \A p \in {"idle", "ticket"} : [client EXCEPT ![c].pc = p] \in [Clients -> ClientT]
      BY <1>2 DEF WTypes, ClientT
    <3> QED BY <3>1, <1>2 DEF TakeNote, WTypes, Became
  <2>2. note' \in NoteT
    BY <1>2 DEF TakeNote, WTypes, NoteT
  <2> QED BY <2>1, <2>2, <1>2 DEF TakeNote, WTypes
<1>3. ASSUME NEW c \in Clients, Cancel(c) PROVE WTypes'
  <2>1. client' \in [Clients -> ClientT]
    BY <1>3 DEF Cancel, WTypes, ClientT, Became
  <2>2. box' \in BoxT
    BY <1>3 DEF Cancel, WTypes, BoxT
  <2> QED BY <2>1, <2>2, <1>3 DEF Cancel, WTypes
<1>4. ASSUME NEW c \in Clients, ServiceDead(c) PROVE WTypes'
  <2>1. client' \in [Clients -> ClientT]
    BY <1>4 DEF ServiceDead, WTypes, ClientT, Became
  <2> QED BY <2>1, <1>4 DEF ServiceDead, WTypes
<1> QED BY <1>1, <1>2, <1>3, <1>4 DEF ClientStep

\* the owner, the clock and the data keep the types
LEMMA OtherTypes ==
  ASSUME WTypes, Stop \/ Tick \/ \E f \in Fds : Arrive(f) \/ Consume(f)
  PROVE  WTypes'
<1> USE WatchAssumption
<1>1. CASE Stop
  <2>1. stop' \in {"no", "sent", "taken"}
    BY <1>1 DEF Stop, WTypes
  <2> QED BY <2>1, <1>1 DEF Stop, WTypes
<1>2. CASE Tick
  <2>1. now' \in 0 .. Horizon
    BY <1>2 DEF Tick, WTypes
  <2> QED BY <2>1, <1>2 DEF Tick, WTypes
<1>3. ASSUME NEW f \in Fds, Arrive(f) PROVE WTypes'
  <2>1. data' \subseteq Fds
    BY <1>3 DEF Arrive, WTypes
  <2>2. arrivals' \in 0 .. MaxArrivals
    BY <1>3 DEF Arrive, WTypes
  <2>3. since' \in [Clients -> BOOLEAN]
    BY <1>3 DEF Arrive, WTypes
  <2> QED BY <2>1, <2>2, <2>3, <1>3 DEF Arrive, WTypes
<1>4. ASSUME NEW f \in Fds, Consume(f) PROVE WTypes'
  <2>1. data' \subseteq Fds
    BY <1>4 DEF Consume, WTypes
  <2> QED BY <2>1, <1>4 DEF Consume, WTypes
<1> QED BY <1>1, <1>2, <1>3, <1>4

-----------------------------------------------------------------------------
(* The routing: each step                                                  *)

\* what the router's proofs assume of a state
Routed == WTypes /\ IrqTypeOK /\ JobsTypeOK /\ RouterInv

\* the watcher and its thread stay where they are
Places == /\ watcher'.state = watcher.state /\ watcher'.irq = watcher.irq
          /\ watcher'.polling = watcher.polling /\ thread'.pc = thread.pc

\* a step of the watcher alone leaves the routing as it is
LEMMA IrqFrame ==
  ASSUME Routed, UNCHANGED <<irqVars, jobVars, waker>>, watcher'.irq = watcher.irq,
         watcher.state = "none" => watcher'.state = "none"
  PROVE  IrqTypeOK' /\ JobsTypeOK' /\ WakerBinding' /\ OneUser' /\ Askers' /\ WakerReached'
<1>1. IrqTypeOK' /\ JobsTypeOK'
  BY DEF Routed, irqVars, jobVars, IrqTypeOK, JobsTypeOK
<1>2. WakerBinding' /\ Askers' /\ WakerReached'
  BY DEF Routed, RouterInv, irqVars, jobVars, WakerBinding, Askers, WakerReached, At
<1>3. OneUser'
  BY DEF Routed, RouterInv, irqVars, jobVars, OneUser, Working, Watched, WatcherShape
<1> QED BY <1>1, <1>2, <1>3

\* a step of neither leaves the invariant
LEMMA QuietRouter ==
  ASSUME Routed, UNCHANGED <<watcher, thread, waker, svc, woken, irqVars, jobVars>>
  PROVE  IrqTypeOK' /\ JobsTypeOK' /\ RouterInv'
<1>1. WatcherShape' /\ WakerShape'
  BY DEF Routed, RouterInv, WatcherShape, WakerShape, Watched
<1> QED BY <1>1, IrqFrame DEF RouterInv

\* a step of the service among its own states
LEMMA ServiceMoves ==
  ASSUME Routed, Places, UNCHANGED <<irqVars, jobVars, waker>>,
         woken' = woken \/ (woken # <<>> /\ woken' = Tail(woken)),
         \/ /\ svc.mode \in {"recv", "drain"} /\ svc'.mode \in {"recv", "drain"}
         \/ /\ svc.mode = "binding" /\ svc'.mode = "recv" /\ waker = "waiting"
         \/ /\ svc.mode \in {"recv", "drain"}
            /\ svc'.mode = IF watcher.state # "none" THEN "retiring" ELSE "finish"
         \/ svc'.mode = svc.mode
         \/ svc.mode = "retiring" /\ svc'.mode = "close" /\ waker = "done"
         \/ svc.mode = "finish" /\ svc'.mode = "end"
  PROVE  IrqTypeOK' /\ JobsTypeOK' /\ RouterInv'
<1>1. WatcherShape'
  BY DEF Routed, RouterInv, Places, WatcherShape
<1>2. (waker \in {"off", "binding"} => woken' = <<>>)
      /\ \A i \in DOMAIN woken' : woken'[i] = "stopped" => waker = "done"
  BY DEF Routed, RouterInv, WakerShape, WTypes
<1>3. WakerShape'
  BY <1>2 DEF Routed, RouterInv, Places, WatcherShape, WakerShape, Watched
<1> QED BY <1>1, <1>3, IrqFrame DEF RouterInv, Places

\* the steps of the service between start and close
LEMMA ServiceQuiet ==
  ASSUME Routed, ServiceStep, UNCHANGED jobVars, ~ServiceStart, ~h_watch_close
  PROVE  IrqTypeOK' /\ JobsTypeOK' /\ RouterInv'
<1>0. svc \in ServiceT /\ svc.entries \in SUBSET Clients /\ WTypes /\ woken \in Seq({"woke", "stopped"})
  BY DEF Routed, WTypes, ServiceT
<1>1. CASE ServiceReady
  <2>1. svc.mode = "binding" /\ woken # <<>> /\ svc'.mode = "recv" /\ Places
    BY <1>1, <1>0 DEF ServiceReady, Places, ServiceT
  <2>2. waker = "waiting"
    BY <2>1 DEF Routed, RouterInv, WakerShape
  <2> QED BY <1>1, <2>1, <2>2, ServiceMoves DEF ServiceReady
<1>2. CASE TakeWoke
  <2>1. svc.mode \in {"recv", "drain"} /\ svc'.mode = "drain" /\ Places /\ woken # <<>>
    BY <1>2, <1>0 DEF TakeWoke, Settle, Taken, Places, ServiceT, Receiving, WTypes, WatcherT
  <2> QED BY <1>2, <2>1, ServiceMoves DEF TakeWoke
<1>3. CASE Arm
  <2>1. svc.mode = "drain" /\ svc'.mode = "recv"
    BY <1>3, <1>0 DEF Arm, ServiceT
  <2>2. Places
    <3>1. svc.entries \ (IF Readiness THEN TimedOut(svc.entries) ELSE {}) \in SUBSET Clients
      BY <1>0
    <3> QED BY <3>1, <1>0, <1>3, ArmedIs DEF Arm, Places, NowTold, OutdatedThread
  <2> QED BY <1>3, <2>1, <2>2, ServiceMoves DEF Arm
<1>4. CASE ArmFails
  <2>1. svc.mode = "drain" /\ svc'.mode = "recv" /\ Places
    BY <1>4, <1>0, ArmRefusedIs DEF ArmFails, ServiceT, NowTold, OutdatedThread, Places
  <2> QED BY <1>4, <2>1, ServiceMoves DEF ArmFails
<1>5. CASE FallbackPass
  <2>1. svc.mode = "recv" /\ svc'.mode = "drain" /\ Places
    BY <1>5, <1>0 DEF FallbackPass, Settle, ServiceT, Places
  <2> QED BY <1>5, <2>1, ServiceMoves DEF FallbackPass
<1>6. CASE TakeStop
  <2>1. /\ svc.mode \in {"recv", "drain"}
        /\ svc'.mode = IF watcher.state # "none" THEN "retiring" ELSE "finish"
    BY <1>6, <1>0 DEF TakeStop, Receiving, ServiceT, Watched
  <2>2. Places
    <3>1. {} \in SUBSET Clients
      OBVIOUS
    <3> QED BY <3>1, <1>0, <1>6, ArmedIs DEF TakeStop, Places, NowTold, OutdatedThread
  <2> QED BY <1>6, <2>1, <2>2, ServiceMoves DEF TakeStop
<1>7. CASE RetireWoken
  <2>1. /\ svc.mode = "retiring" /\ woken # <<>> /\ Places
        /\ svc'.mode = IF Head(woken) = "stopped" THEN "close" ELSE svc.mode
    BY <1>7, <1>0 DEF RetireWoken, ServiceT, Places
  <2>2. Head(woken) = "stopped" => waker = "done"
    <3>1. Head(woken) = woken[1] /\ 1 \in DOMAIN woken
      BY <2>1, <1>0
    <3> QED BY <3>1 DEF Routed, RouterInv, WakerShape
  <2> QED BY <1>7, <2>1, <2>2, ServiceMoves DEF RetireWoken
<1>8. CASE ServiceEnds
  <2>1. svc.mode = "finish" /\ svc'.mode = "end" /\ Places
    BY <1>8, <1>0 DEF ServiceEnds, ServiceT, Places
  <2> QED BY <1>8, <2>1, ServiceMoves DEF ServiceEnds
<1>9. ASSUME NEW c \in Clients, TakeRegister(c) PROVE IrqTypeOK' /\ JobsTypeOK' /\ RouterInv'
  <2>1. svc.mode \in {"recv", "drain"} /\ svc'.mode = "drain" /\ Places
    BY <1>9, <1>0 DEF TakeRegister, ServiceT, Places, Receiving
  <2> QED BY <1>9, <2>1, ServiceMoves DEF TakeRegister
<1>10. ASSUME NEW c \in Clients, TakeRetire(c) PROVE IrqTypeOK' /\ JobsTypeOK' /\ RouterInv'
  <2>1. svc.mode \in {"recv", "drain"} /\ svc'.mode = "drain" /\ Places
    BY <1>10, <1>0 DEF TakeRetire, ServiceT, Places, Receiving
  <2> QED BY <1>10, <2>1, ServiceMoves DEF TakeRetire
<1>11. ASSUME NEW c \in Clients, Refuse(c) PROVE IrqTypeOK' /\ JobsTypeOK' /\ RouterInv'
  BY <1>11, QuietRouter DEF Refuse
<1> QED BY <1>1, <1>2, <1>3, <1>4, <1>5, <1>6, <1>7, <1>8, <1>9, <1>10, <1>11 DEF ServiceStep

\* the steps of the thread that raise nothing
LEMMA ThreadQuiet ==
  ASSUME Routed, ThreadPolls \/ PollReturns \/ ThreadPublishes \/ ThreadStops, UNCHANGED jobVars
  PROVE  IrqTypeOK' /\ JobsTypeOK' /\ RouterInv'
<1>1. watcher \in WatcherT /\ thread \in ThreadT /\ UNCHANGED <<waker, svc, woken, irqVars, jobVars>>
  BY DEF Routed, WTypes, ThreadPolls, PollReturns, ThreadPublishes, ThreadStops
<1>2. watcher'.irq = watcher.irq
  BY <1>1 DEF ThreadPolls, PollReturns, ThreadPublishes, ThreadStops, WatcherT, Awake, Drained, Found
<1>3. CASE ThreadPolls
  <2>1. /\ watcher'.state = watcher.state /\ watcher'.polling /\ thread'.pc = "poll" /\ watcher.state = "open"
    BY <1>1, <1>3 DEF ThreadPolls, WatcherT, ThreadT
  <2>2. WatcherShape' /\ WakerShape'
    BY <2>1, <1>1, <1>2 DEF Routed, RouterInv, WatcherShape, WakerShape, Watched
  <2> QED BY <2>1, <2>2, <1>1, <1>2, IrqFrame DEF RouterInv
<1>4. CASE PollReturns
  <2>1. watcher' = watcher /\ thread'.pc = "back" /\ thread.pc = "poll"
    BY <1>1, <1>4 DEF PollReturns, ThreadT
  <2>2. WatcherShape' /\ WakerShape'
    BY <2>1, <1>1, <1>2 DEF Routed, RouterInv, WatcherShape, WakerShape, Watched
  <2> QED BY <2>1, <2>2, <1>1, <1>2, IrqFrame DEF RouterInv
<1>5. CASE ThreadPublishes
  <2>1. /\ watcher.state = "open" /\ thread'.pc \in {"top", "raise"}
        /\ watcher'.state = watcher.state /\ ~watcher'.polling
    BY <1>1, <1>5 DEF ThreadPublishes, WatcherT, ThreadT, Awake, Drained, Found
  <2>2. WatcherShape' /\ WakerShape'
    BY <2>1, <1>1, <1>2 DEF Routed, RouterInv, WatcherShape, WakerShape, Watched
  <2> QED BY <2>1, <2>2, <1>1, <1>2, IrqFrame DEF RouterInv
<1>6. CASE ThreadStops
  <2>1. /\ watcher.state = "closing" /\ watcher'.state = "stopped" /\ ~watcher'.polling /\ thread'.pc = "gone"
    BY <1>1, <1>6 DEF ThreadStops, WatcherT, ThreadT, NoThread
  <2>2. WatcherShape' /\ WakerShape'
    BY <2>1, <1>1, <1>2 DEF Routed, RouterInv, WatcherShape, WakerShape, Watched
  <2> QED BY <2>1, <2>2, <1>1, <1>2, IrqFrame DEF RouterInv
<1> QED BY <1>3, <1>4, <1>5, <1>6

\* no watcher's source is 0
LEMMA NoSource == 0 \notin Sources
BY SourcesAssumption

\* the thread raises its source
LEMMA ThreadRaisesRouter ==
  ASSUME Routed, ThreadRaises, UNCHANGED jobVars
  PROVE  IrqTypeOK' /\ JobsTypeOK' /\ RouterInv'
<1>1. /\ thread.pc = "raise" /\ thread'.pc = "top" /\ watcher.irq \in Sources
      /\ UNCHANGED <<watcher, waker, svc, woken, used, opened, claims, request, answer, table, mail, ended>>
  BY DEF ThreadRaises, Routed, RouterInv, WTypes, ThreadT, WatcherT, WatcherShape
<1>2. IrqTypeOK'
  BY <1>1 DEF Routed, IrqTypeOK, ThreadRaises, Raise
<1>3. JobsTypeOK'
  BY DEF Routed, jobVars, JobsTypeOK
<1>4. WatcherShape' /\ WakerShape' /\ WakerBinding' /\ WakerReached'
  BY <1>1 DEF Routed, RouterInv, WatcherShape, WakerShape, WakerBinding, WakerReached, Watched
<1>5. OneUser' /\ Askers'
  BY <1>1 DEF Routed, RouterInv, OneUser, Askers, Watched, Working, At, jobVars
<1> QED BY <1>2, <1>3, <1>4, <1>5 DEF RouterInv

\* the steps of the waker
LEMMA WakerRouter ==
  ASSUME Routed, WakerStep, UNCHANGED jobVars
  PROVE  IrqTypeOK' /\ JobsTypeOK' /\ RouterInv'
<1> USE WatchAssumption, NoSource
<1>1. UNCHANGED <<watcher, thread, svc, used, opened, claims, pending, table, dropped>>
  BY DEF WakerStep, WakerBound, WakerWakes, WakerUnbinds, WakerEnds, Answered, TakeDelivery, Ask
<1>2. JobsTypeOK' /\ WatcherShape'
  BY <1>1 DEF Routed, RouterInv, jobVars, JobsTypeOK, WatcherShape
<1>3. OneUser'
  BY <1>1 DEF Routed, RouterInv, OneUser, Watched, Working, jobVars
<1>4. \A b \in Binders \ {Waker} : request'[b] = request[b] /\ answer'[b] = answer[b]
  BY DEF Routed, IrqTypeOK, WakerStep, WakerBound, WakerWakes, WakerUnbinds, WakerEnds, Answered, TakeDelivery, Ask
<1>5. Askers'
  BY <1>4 DEF Routed, RouterInv, Askers, At, jobVars
<1>6. woken \in Seq({"woke", "stopped"}) /\ answer \in [Binders -> Answers]
      /\ request \in [Binders -> {NoRequest} \union (Kinds \X Sources)]
  BY DEF Routed, WTypes, IrqTypeOK
<1>7. CASE WakerBound
  <2>1. /\ waker = "binding" /\ answer[Waker] = "bound" /\ answer'[Waker] = "none" /\ waker' = "waiting"
        /\ woken' = Append(woken, "woke") /\ UNCHANGED <<request, ended, mail>>
        /\ answer' = [answer EXCEPT ![Waker] = "none"]
    BY <1>6, <1>7 DEF WakerBound, Answered
  <2>2. IrqTypeOK'
    BY <1>1, <2>1 DEF Routed, IrqTypeOK, Answers
  <2>3. svc.mode = "binding" /\ woken = <<>>
    BY <2>1 DEF Routed, RouterInv, WakerShape, WTypes, ServiceT, Watched
  <2>4. woken' = <<"woke">>
    BY <2>1, <2>3
  <2>5. WakerShape'
    BY <2>1, <2>3, <2>4, <1>1 DEF Routed, RouterInv, WakerShape, Watched
  <2>6. request[Waker] = NoRequest
    BY <2>1 DEF Routed, RouterInv, WakerBinding
  <2>7. WakerBinding' /\ WakerReached'
    BY <2>1, <2>6, <1>1 DEF Routed, RouterInv, WakerBinding, WakerReached
  <2> QED BY <1>2, <1>3, <1>5, <2>2, <2>5, <2>7 DEF RouterInv
<1>8. CASE WakerWakes
  <2>1. /\ waker = "waiting" /\ waker' = waker /\ woken' = Append(woken, "woke")
        /\ mail[Waker] # <<>> /\ mail' = [mail EXCEPT ![Waker] = Tail(mail[Waker])]
        /\ UNCHANGED <<request, answer, ended>>
    BY <1>8 DEF WakerWakes, TakeDelivery, Delivered
  <2>2. IrqTypeOK'
    <3>1. mail[Waker] \in Seq(Sources) /\ Tail(mail[Waker]) \in Seq(Sources)
      BY <2>1 DEF Routed, IrqTypeOK
    <3> QED BY <3>1, <1>1, <2>1 DEF Routed, IrqTypeOK
  <2>3. \A i \in DOMAIN woken' : woken'[i] = "stopped" => i \in DOMAIN woken /\ woken[i] = "stopped"
    BY <2>1, <1>6
  <2>4. WakerShape'
    BY <2>1, <2>3, <1>1 DEF Routed, RouterInv, WakerShape, Watched
  <2>5. WakerBinding' /\ WakerReached'
    BY <2>1, <1>1 DEF Routed, RouterInv, WakerBinding, WakerReached
  <2> QED BY <1>2, <1>3, <1>5, <2>2, <2>4, <2>5 DEF RouterInv
<1>9. CASE WakerUnbinds
  <2>1. /\ waker = "waiting" /\ waker' = "unbinding" /\ svc.mode = "retiring"
        /\ request' = [request EXCEPT ![Waker] = <<"unbind", watcher.irq>>]
        /\ UNCHANGED <<woken, mail, answer, ended>>
    BY <1>9 DEF WakerUnbinds, Ask
  <2>2. watcher.irq \in Sources
    BY <2>1 DEF Routed, RouterInv, WatcherShape, WTypes, WatcherT
  <2>3. request' \in [Binders -> {NoRequest} \union (Kinds \X Sources)]
    BY <2>1, <2>2, <1>6 DEF Kinds
  <2>4. IrqTypeOK'
    BY <2>1, <2>3, <1>1 DEF Routed, IrqTypeOK
  <2>5. WakerShape'
    BY <2>1, <1>1 DEF Routed, RouterInv, WakerShape, Watched
  <2>6. WakerBinding' /\ WakerReached'
    BY <2>1, <1>1, <1>6 DEF Routed, RouterInv, WakerBinding, WakerReached
  <2> QED BY <1>2, <1>3, <1>5, <2>4, <2>5, <2>6 DEF RouterInv
<1>10. CASE WakerEnds
  <2>1. /\ waker = "unbinding" /\ waker' = "done" /\ answer[Waker] = "unbound"
        /\ answer' = [answer EXCEPT ![Waker] = "none"] /\ ended' = ended \union {Waker}
        /\ woken' = Append(woken, "stopped") /\ UNCHANGED <<request, mail>>
    BY <1>10 DEF WakerEnds
  <2>2. IrqTypeOK'
    BY <1>1, <2>1 DEF Routed, IrqTypeOK, Answers
  <2>3. svc.mode = "retiring"
    BY <2>1 DEF Routed, RouterInv, WakerShape, WTypes, ServiceT, Watched
  <2>4. WakerShape'
    BY <2>1, <2>3, <1>1 DEF Routed, RouterInv, WakerShape, Watched
  <2>5. request[Waker] = NoRequest /\ \A s \in Sources : table[s] # Waker
    BY <2>1 DEF Routed, RouterInv, WakerBinding
  <2>6. answer'[Waker] = "none"
    BY <2>1, <1>6
  <2>7. WakerBinding' /\ WakerReached'
    BY <2>1, <2>5, <2>6, <1>1 DEF Routed, RouterInv, WakerBinding, WakerReached
  <2> QED BY <1>2, <1>3, <1>5, <2>2, <2>4, <2>7 DEF RouterInv
<1> QED BY <1>7, <1>8, <1>9, <1>10 DEF WakerStep

\* a finite set of numbers with something in it has a greatest
LEMMA Greatest ==
  ASSUME NEW S, S \subseteq Nat, IsFiniteSet(S), S # {}
  PROVE  Max(S) \in S
<1> DEFINE Bad == {T \in SUBSET S : T # {} /\ \A x \in T : \E y \in T : x < y}
<1> DEFINE Sizes == {Cardinality(T) : T \in Bad}
<1>1. \A T \in Bad : IsFiniteSet(T) /\ Cardinality(T) \in Nat
  BY FS_Subset, FS_CardinalityType
<1>2. Bad = {}
  <2> SUFFICES ASSUME Bad # {} PROVE FALSE
    OBVIOUS
  <2>1. Sizes \subseteq Nat /\ Sizes # {}
    BY <1>1
  <2>2. Min(Sizes) \in Sizes /\ \A j \in Sizes : Min(Sizes) <= j
    <3> HIDE DEF Sizes
    <3> QED BY <2>1, Least
  <2>3. PICK T \in Bad : \A U \in Bad : Cardinality(T) <= Cardinality(U)
    BY <2>2
  <2>4. T # {} /\ T \subseteq S /\ \A x \in T : \E y \in T : x < y
    OBVIOUS
  <2>5. PICK x \in T : TRUE
    BY <2>4
  <2>6. PICK y \in T : x < y
    BY <2>4, <2>5
  <2>7. T \ {x} \in Bad
    <3>1. y \in T \ {x} /\ T \ {x} \in SUBSET S
      BY <2>4, <2>6
    <3>2. ASSUME NEW u \in T \ {x} PROVE \E v \in T \ {x} : u < v
      <4>1. PICK v \in T : u < v
        BY <2>4
      <4>2. CASE v # x
        BY <4>1, <4>2
      <4>3. CASE v = x
        <5>1. u \in Nat /\ x \in Nat /\ y \in Nat
          BY <2>4, <2>5, <2>6
        <5>2. u < y
          BY <5>1, <4>1, <4>3, <2>6
        <5> QED BY <5>2, <3>1
      <4> QED BY <4>2, <4>3
    <3> QED BY <3>1, <3>2
  <2>8. Cardinality(T \ {x}) = Cardinality(T) - 1 /\ Cardinality(T) \in Nat
    BY <1>1, <2>3, <2>5, FS_RemoveElement
  <2>9. Cardinality(T) <= Cardinality(T \ {x})
    BY <2>3, <2>7
  <2> QED BY <2>8, <2>9
<1>3. PICK x \in S : \A y \in S : ~(x < y)
  <2>1. S \notin Bad
    BY <1>2
  <2> QED BY <2>1
<1>4. \A y \in S : x >= y
  BY <1>3
<1> QED BY <1>4 DEF Max

\* a source handed out was free
LEMMA HandsOutFree ==
  ASSUME Free # {}, NEW s \in Sources, HostAlloc(s)
  PROVE  s \notin used
<1>1. Free \subseteq Nat /\ IsFiniteSet(Free)
  BY SourcesAssumption, FS_Subset DEF Free
<1>2. Max(Free) \in Free
  BY <1>1, Greatest
<1> QED BY <1>2 DEF HostAlloc, HostSource, Free

\* the service starts: its source is fresh, so no helper has it
LEMMA StartRouter ==
  ASSUME Routed, ServiceStart, UNCHANGED jobVars
  PROVE  IrqTypeOK' /\ JobsTypeOK' /\ RouterInv'
<1> USE WatchAssumption, NoSource
<1>1. /\ svc.mode = "off" /\ waker = "off" /\ watcher.state = "none" /\ woken = <<>> /\ woken' = woken
      /\ thread.pc = "gone" /\ request[Waker] = NoRequest /\ answer[Waker] = "none"
      /\ Waker \notin ended /\ ~watcher.polling
      /\ svc \in ServiceT /\ watcher.irq = 0
      /\ \A s \in Sources : table[s] # Waker
  BY DEF ServiceStart, Routed, RouterInv, WTypes, WatcherShape, WakerShape, WakerBinding
<1>2. JobsTypeOK'
  BY DEF Routed, jobVars, JobsTypeOK
<1>3. ASSUME Free # {}, NEW s \in Sources, HostAlloc(s), Ask(Waker, "bind", s),
             watcher' = [NoWatcher EXCEPT !.state = "open", !.irq = s],
             thread' = [NoThread EXCEPT !.pc = "top"], waker' = "binding",
             svc' = [svc EXCEPT !.mode = "binding"], UNCHANGED ended
      PROVE  IrqTypeOK' /\ RouterInv'
  <2>1. s \notin used /\ used' = used \union {s}
    BY <1>3, HandsOutFree DEF HostAlloc
  <2>2. /\ request' = [request EXCEPT ![Waker] = <<"bind", s>>]
        /\ UNCHANGED <<opened, pending, claims, answer, table, mail, dropped>>
    BY <1>3 DEF Ask
  <2>3. watcher'.state = "open" /\ watcher'.irq = s /\ ~watcher'.polling /\ thread'.pc = "top"
    BY <1>3 DEF NoWatcher, NoThread
  <2>4. svc'.mode = "binding"
    BY <1>1, <1>3 DEF ServiceT
  <2>5. request' \in [Binders -> {NoRequest} \union (Kinds \X Sources)]
    BY <2>2 DEF Routed, IrqTypeOK, Kinds
  <2>6. IrqTypeOK'
    BY <1>3, <2>1, <2>2, <2>5 DEF Routed, IrqTypeOK
  <2>7. WatcherShape' /\ WakerShape'
    BY <1>1, <1>3, <2>3, <2>4 DEF WatcherShape, WakerShape
  <2>8. request'[Waker] = <<"bind", s>> /\ \A b \in Binders \ {Waker} : request'[b] = request[b]
    BY <2>2 DEF Routed, IrqTypeOK
  <2>9. WakerBinding' /\ WakerReached'
    BY <1>1, <1>3, <2>2, <2>3, <2>8 DEF WakerBinding, WakerReached
  <2>10. Askers'
    BY <2>2, <2>8 DEF Routed, RouterInv, Askers, At, jobVars
  <2>11. OneUser'
    BY <2>1, <2>3 DEF Routed, RouterInv, OneUser, Working, jobVars, Watched
  <2> QED BY <2>6, <2>7, <2>9, <2>10, <2>11 DEF RouterInv
<1>4. CASE svc' = [svc EXCEPT !.mode = "recv"] /\ UNCHANGED <<watcher, thread, waker, irqVars>>
  <2>1. svc'.mode = "recv"
    BY <1>1, <1>4 DEF ServiceT
  <2>2. WatcherShape' /\ WakerShape'
    BY <1>1, <1>4, <2>1 DEF WatcherShape, WakerShape, Watched
  <2> QED BY <1>4, <2>2, IrqFrame DEF RouterInv
<1> QED BY <1>2, <1>3, <1>4 DEF ServiceStart

\* the service gives its source back: its waker is unbound and its thread gone
LEMMA CloseRouter ==
  ASSUME Routed, h_watch_close, UNCHANGED jobVars
  PROVE  IrqTypeOK' /\ JobsTypeOK' /\ RouterInv'
<1> USE WatchAssumption, NoSource
<1>1. /\ svc.mode = "close" /\ waker = "done" /\ svc \in ServiceT /\ watcher \in WatcherT
      /\ request[Waker] = NoRequest /\ answer[Waker] = "none"
      /\ UNCHANGED <<thread, waker, woken, opened, pending, claims, request, answer, table, mail, ended, dropped>>
  BY DEF h_watch_close, Routed, RouterInv, WTypes, WakerShape, WakerBinding
<1>2. JobsTypeOK'
  BY DEF Routed, jobVars, JobsTypeOK
<1>3. CASE /\ watcher.state = "stopped" /\ HostFree(watcher.irq) /\ watcher' = NoWatcher
           /\ svc' = [svc EXCEPT !.mode = "finish"]
  <2>1. used' = used \ {watcher.irq} /\ svc'.mode = "finish"
    BY <1>1, <1>3 DEF HostFree, ServiceT
  <2>2. watcher'.state = "none" /\ watcher'.irq = 0 /\ ~watcher'.polling /\ thread.pc = "gone"
    BY <1>3 DEF NoWatcher, Routed, RouterInv, WatcherShape
  <2>3. IrqTypeOK'
    BY <1>1, <2>1 DEF Routed, IrqTypeOK
  <2>4. WatcherShape' /\ WakerShape'
    BY <1>1, <2>1, <2>2 DEF Routed, RouterInv, WatcherShape, WakerShape
  <2>5. WakerBinding' /\ WakerReached'
    BY <1>1 DEF Routed, RouterInv, WakerBinding, WakerReached
  <2>6. Askers'
    BY <1>1 DEF Routed, RouterInv, Askers, At, jobVars
  <2>7. OneUser'
    <3>1. \A h \in Helpers : Working(h) => helper[h].slot \in used /\ helper[h].slot # watcher.irq
      BY DEF Routed, RouterInv, OneUser
    <3>2. used \subseteq Sources
      BY DEF Routed, IrqTypeOK
    <3> QED BY <3>1, <3>2, <2>1, <2>2 DEF Routed, RouterInv, OneUser, Working, jobVars, Watched
  <2> QED BY <1>2, <2>3, <2>4, <2>5, <2>6, <2>7 DEF RouterInv
<1>4. CASE /\ watcher.state = "open" /\ watcher' = Signalled([watcher EXCEPT !.state = "closing"])
           /\ UNCHANGED <<svc, used>>
  <2>1. PICK w : w = [watcher EXCEPT !.state = "closing"]
    OBVIOUS
  <2>2. /\ w \in WatcherT /\ w.state = "closing" /\ w.irq = watcher.irq /\ w.polling = watcher.polling
    BY <1>1, <2>1 DEF WatcherT
  <2>3. watcher'.state = "closing" /\ watcher'.irq = watcher.irq /\ watcher'.polling = watcher.polling
    BY <1>4, <2>1, <2>2, SignalledIs
  <2>4. WatcherShape' /\ WakerShape'
    BY <1>1, <1>4, <2>3 DEF Routed, RouterInv, WatcherShape, WakerShape
  <2> QED BY <1>1, <1>4, <2>3, <2>4, IrqFrame DEF RouterInv, irqVars
<1> QED BY <1>3, <1>4 DEF h_watch_close

\* a helper's record
HelperT == [pc : {"off", "binding", "bound", "waiting", "take", "done"},
            slot : Sources \union {0}, got : Texts]

\* the steps of the jobs leave the watcher and its waker where they are
LEMMA WatchFrame ==
  ASSUME Routed, UNCHANGED watchVars, request'[Waker] = request[Waker], answer'[Waker] = answer[Waker],
         UNCHANGED table, Waker \in ended' <=> Waker \in ended, opened \subseteq opened'
  PROVE  WTypes' /\ WatcherShape' /\ WakerShape' /\ WakerBinding' /\ WakerReached'
<1>1. WTypes' /\ WatcherShape' /\ WakerShape'
  BY DEF Routed, RouterInv, watchVars, WTypes, WatcherShape, WakerShape, Watched
<1> QED BY <1>1 DEF Routed, RouterInv, watchVars, WakerBinding, WakerReached

\* a helper takes a source, which the watcher then does not have
LEMMA NewRouter ==
  ASSUME Routed, UNCHANGED watchVars, NEW h \in Helpers, j_new(h)
  PROVE  Routed'
<1> USE WatchAssumption, NoSource, JobsAssumption, HostAssumption
<1>1. PICK s \in Sources :
        /\ HostAlloc(s) /\ slots' = [slots EXCEPT ![s] = [used |-> TRUE, result |-> Nothing]]
        /\ opened' = opened \union {s} /\ request' = [request EXCEPT ![h] = <<"bind", s>>]
        /\ helper' = [helper EXCEPT ![h].pc = "binding", ![h].slot = s]
  BY DEF j_new
<1>2. s \notin used /\ used' = used \union {s}
  BY <1>1, HandsOutFree DEF j_new, HostAlloc
<1>3. /\ helper[h].pc = "off" /\ UNCHANGED <<queue, broker, pending, claims, answer, table, mail, ended, dropped>>
      /\ helper \in [Helpers -> HelperT] /\ h \in Binders /\ h # Waker
      /\ crossed' = crossed \union {h} \/ crossed' = crossed
  BY DEF j_new, At, Routed, JobsTypeOK, HelperT
<1>4. /\ helper'[h].pc = "binding" /\ helper'[h].slot = s /\ helper' \in [Helpers -> HelperT]
      /\ \A g \in Helpers \ {h} : helper'[g] = helper[g]
  BY <1>1, <1>3 DEF HelperT
<1>5. /\ request' \in [Binders -> {NoRequest} \union (Kinds \X Sources)]
      /\ request'[h] = <<"bind", s>> /\ \A b \in Binders \ {h} : request'[b] = request[b]
  BY <1>1, <1>3 DEF Routed, IrqTypeOK, Kinds
<1>6. IrqTypeOK'
  BY <1>1, <1>2, <1>3, <1>5 DEF Routed, IrqTypeOK
<1>7. JobsTypeOK'
  BY <1>1, <1>3, <1>4 DEF Routed, JobsTypeOK, HelperT, Texts
<1>8. WTypes' /\ WatcherShape' /\ WakerShape' /\ WakerBinding' /\ WakerReached'
  BY <1>1, <1>3, <1>5, WatchFrame
<1>9. OneUser'
  <2>1. Watched' => watcher.irq \in used
    BY DEF Routed, RouterInv, OneUser, watchVars, Watched
  <2>2. \A g \in Helpers \ {h} : Working(g)' <=> Working(g)
    BY <1>4 DEF Working
  <2>3. \A g \in Helpers \ {h} : Working(g) =>
          helper[g].slot \in used /\ helper[g].slot # watcher.irq /\ helper[g].slot # s
    BY <1>2 DEF Routed, RouterInv, OneUser
  <2>4. s # watcher.irq
    BY <1>2 DEF Routed, RouterInv, OneUser, WatcherShape, Watched
  <2>5. watcher' = watcher
    BY DEF watchVars
  <2> QED BY <2>1, <2>2, <2>3, <2>4, <2>5, <1>2, <1>4 DEF Routed, RouterInv, OneUser
<1>10. Askers'
  BY <1>4, <1>5, <1>3 DEF Routed, RouterInv, Askers, At
<1> QED BY <1>6, <1>7, <1>8, <1>9, <1>10 DEF Routed, RouterInv

\* a step of a helper that asks nothing and keeps its slot, or is through with it
LEMMA HelperMoves ==
  ASSUME Routed, UNCHANGED watchVars, NEW h \in Helpers, helper' \in [Helpers -> HelperT],
         \A g \in Helpers \ {h} : helper'[g] = helper[g],
         helper'[h].slot = helper[h].slot,
         Working(h), request[h] = NoRequest, UNCHANGED <<request, table, opened, pending, claims>>,
         answer'[h] = "none", \A b \in Binders \ {h} : answer'[b] = answer[b],
         Waker \in ended' <=> Waker \in ended,
         \/ Working(h)' /\ UNCHANGED used
         \/ ~Working(h)' /\ used' = used \ {helper[h].slot}
  PROVE  WTypes' /\ RouterInv'
<1> USE WatchAssumption, JobsAssumption, HostAssumption
<1>1. WTypes' /\ WatcherShape' /\ WakerShape' /\ WakerBinding' /\ WakerReached'
  BY WatchFrame
<1>2. watcher' = watcher
  BY DEF watchVars
<1>3. OneUser'
  <2>1. \A g \in Helpers \ {h} : Working(g)' <=> Working(g)
    BY DEF Working
  <2> QED BY <2>1, <1>2 DEF Routed, RouterInv, OneUser, Watched
<1>4. Askers'
  BY DEF Routed, RouterInv, Askers, At
<1> QED BY <1>1, <1>3, <1>4 DEF RouterInv

\* the other steps of a helper
LEMMA HelperRouter ==
  ASSUME Routed, UNCHANGED watchVars, NEW h \in Helpers, HelperStep(h)
  PROVE  Routed'
<1> USE WatchAssumption, NoSource, JobsAssumption, HostAssumption
<1>1. h \in Binders /\ h # Waker /\ helper \in [Helpers -> HelperT]
  BY DEF Routed, JobsTypeOK, HelperT
<1>2. Working(h) /\ UNCHANGED <<request, table, opened, pending, claims>> /\ UNCHANGED <<dropped, crossed>>
  BY DEF HelperStep, Bound, fpr_job_submit, Interrupted, j_result, At, Working, Answered, TakeDelivery, irqVars
<1>3. CASE Bound(h)
  <2>1. /\ answer[h] = "bound" /\ answer' = [answer EXCEPT ![h] = "none"] /\ helper[h].pc = "binding"
        /\ helper' = [helper EXCEPT ![h].pc = "bound"]
        /\ UNCHANGED <<slots, queue, broker, used, ended, mail>>
    BY <1>3 DEF Bound, Answered, Goes, At
  <2>2. /\ helper' \in [Helpers -> HelperT] /\ helper'[h].pc = "bound" /\ helper'[h].slot = helper[h].slot
        /\ \A g \in Helpers \ {h} : helper'[g] = helper[g]
    BY <1>1, <2>1 DEF HelperT
  <2>3. request[h] = NoRequest
    BY <2>1, <1>1 DEF Routed, RouterInv, Askers
  <2>4. answer' \in [Binders -> Answers] /\ answer'[h] = "none"
        /\ \A b \in Binders \ {h} : answer'[b] = answer[b]
    BY <2>1, <1>1 DEF Routed, IrqTypeOK, Answers
  <2>5. WTypes' /\ RouterInv'
    BY <1>1, <1>2, <2>1, <2>2, <2>3, <2>4, HelperMoves DEF Working
  <2>6. IrqTypeOK' /\ JobsTypeOK'
    BY <1>2, <2>1, <2>2, <2>4 DEF Routed, IrqTypeOK, JobsTypeOK, HelperT
  <2> QED BY <2>5, <2>6 DEF Routed
<1>4. CASE fpr_job_submit(h)
  <2>1. helper[h].pc = "bound" /\ UNCHANGED <<slots, broker, used, ended, mail, answer>>
    BY <1>4 DEF fpr_job_submit, At, irqVars
  <2>2. /\ helper' \in [Helpers -> HelperT] /\ helper'[h].pc \in {"waiting", "take"}
        /\ helper'[h].slot = helper[h].slot
        /\ \A g \in Helpers \ {h} : helper'[g] = helper[g]
    BY <1>1, <1>4 DEF fpr_job_submit, Goes, HelperT, Texts
  <2>3. request[h] = NoRequest /\ answer[h] = "none"
    BY <2>1, <1>1 DEF Routed, RouterInv, Askers, At
  <2>4. WTypes' /\ RouterInv'
    BY <1>1, <1>2, <2>1, <2>2, <2>3, HelperMoves DEF Working
  <2>5. helper[h].slot \in Sources
    BY <1>2 DEF Routed, RouterInv, OneUser, IrqTypeOK
  <2>6. queue' \in Seq(Job)
    <3>1. PICK j \in Job : j = [slot |-> helper[h].slot, by |-> h]
      BY <2>5 DEF Job
    <3>2. queue' = Append(queue, j) \/ queue' = queue
      BY <3>1, <1>4 DEF fpr_job_submit
    <3>3. queue \in Seq(Job)
      BY DEF Routed, JobsTypeOK
    <3> QED BY <3>1, <3>2, <3>3
  <2>7. IrqTypeOK' /\ JobsTypeOK'
    BY <1>2, <2>1, <2>2, <2>6 DEF Routed, IrqTypeOK, JobsTypeOK, HelperT
  <2> QED BY <2>4, <2>7 DEF Routed
<1>5. CASE Interrupted(h)
  <2>1. /\ helper[h].pc = "waiting" /\ UNCHANGED <<slots, queue, broker, used, ended, answer>>
        /\ mail[h] # <<>> /\ mail' = [mail EXCEPT ![h] = Tail(mail[h])]
    BY <1>5 DEF Interrupted, At, TakeDelivery, Delivered
  <2>2. /\ helper' \in [Helpers -> HelperT] /\ helper'[h].pc = "take"
        /\ helper'[h].slot = helper[h].slot
        /\ \A g \in Helpers \ {h} : helper'[g] = helper[g]
    BY <1>1, <1>5 DEF Interrupted, Goes, HelperT
  <2>3. request[h] = NoRequest /\ answer[h] = "none"
    BY <2>1, <1>1 DEF Routed, RouterInv, Askers, At
  <2>4. WTypes' /\ RouterInv'
    BY <1>1, <1>2, <2>1, <2>2, <2>3, HelperMoves DEF Working
  <2>5. mail' \in [Binders -> Seq(Sources)]
    <3>1. mail[h] \in Seq(Sources) /\ Tail(mail[h]) \in Seq(Sources)
      BY <1>1, <2>1 DEF Routed, IrqTypeOK
    <3> QED BY <3>1, <1>1, <2>1 DEF Routed, IrqTypeOK
  <2>6. IrqTypeOK' /\ JobsTypeOK'
    BY <1>2, <2>1, <2>2, <2>5 DEF Routed, IrqTypeOK, JobsTypeOK, HelperT
  <2> QED BY <2>4, <2>6 DEF Routed
<1>6. CASE j_result(h)
  <2>1. /\ helper[h].pc = "take" /\ UNCHANGED <<queue, broker, answer, mail>>
        /\ used' = used \ {helper[h].slot} /\ ended' = ended \union {h}
        /\ slots' = [slots EXCEPT ![helper[h].slot] = [used |-> FALSE, result |-> Nothing]]
    BY <1>6 DEF j_result, At, HostFree
  <2>2. helper[h].slot \in Sources
    BY <1>2 DEF Routed, RouterInv, OneUser, IrqTypeOK
  <2>3. PICK t \in Texts : helper' = [helper EXCEPT ![h].pc = "done", ![h].got = t]
    <3>1. helper[h].got \in Texts /\ slots[helper[h].slot].result \in Texts
      BY <1>1, <2>2 DEF Routed, JobsTypeOK, HelperT
    <3>2. helper' = [helper EXCEPT ![h].pc = "done", ![h].got =
                       IF helper[h].got = "refused" THEN helper[h].got ELSE slots[helper[h].slot].result]
      BY <1>6 DEF j_result
    <3> QED BY <3>1, <3>2
  <2>4. /\ helper' \in [Helpers -> HelperT] /\ helper'[h].pc = "done"
        /\ helper'[h].slot = helper[h].slot
        /\ \A g \in Helpers \ {h} : helper'[g] = helper[g]
    BY <1>1, <2>3 DEF HelperT
  <2>5. request[h] = NoRequest /\ answer[h] = "none"
    BY <2>1, <1>1 DEF Routed, RouterInv, Askers, At
  <2>6. WTypes' /\ RouterInv'
    BY <1>1, <1>2, <2>1, <2>4, <2>5, HelperMoves DEF Working
  <2>7. slots' \in [Sources -> [used : BOOLEAN, result : Texts]]
    BY <2>1, <2>2 DEF Routed, JobsTypeOK, Texts
  <2>8. IrqTypeOK' /\ JobsTypeOK'
    BY <1>1, <1>2, <2>1, <2>4, <2>7 DEF Routed, IrqTypeOK, JobsTypeOK, HelperT
  <2> QED BY <2>6, <2>8 DEF Routed
<1> QED BY <1>3, <1>4, <1>5, <1>6 DEF HelperStep

\* the steps of the broker
LEMMA BrokerRouter ==
  ASSUME Routed, UNCHANGED watchVars, BrokerStep
  PROVE  Routed'
<1>1. UNCHANGED <<helper, crossed, used, opened, claims, request, answer, table, mail, ended>>
  BY DEF BrokerStep, BrokerTakes, BrokerStores, BrokerRaises, irqVars
<1>2. WTypes' /\ RouterInv'
  <2>1. WTypes' /\ WatcherShape' /\ WakerShape' /\ WakerBinding' /\ WakerReached'
    BY <1>1, WatchFrame
  <2>2. watcher' = watcher
    BY DEF watchVars
  <2> QED BY <1>1, <2>1, <2>2 DEF Routed, RouterInv, OneUser, Askers, Watched, Working, At
<1>3. CASE BrokerTakes
  <2>1. /\ queue # <<>> /\ broker' = [pc |-> "run", job |-> Head(queue)] /\ queue' = Tail(queue)
        /\ UNCHANGED <<slots, pending, dropped>>
    BY <1>3 DEF BrokerTakes, irqVars
  <2>2. Head(queue) \in Job /\ Tail(queue) \in Seq(Job)
    BY <2>1 DEF Routed, JobsTypeOK
  <2> QED BY <1>1, <1>2, <2>1, <2>2 DEF Routed, JobsTypeOK, IrqTypeOK
<1>4. CASE BrokerStores
  <2>1. /\ broker.pc = "run" /\ broker' = [broker EXCEPT !.pc = "raise"]
        /\ slots' = [slots EXCEPT ![broker.job.slot].result = broker.job.by]
        /\ UNCHANGED <<queue, pending, dropped>>
    BY <1>4 DEF BrokerStores, irqVars
  <2>2. broker \in [pc : {"run", "raise"}, job : Job]
    BY <2>1 DEF Routed, JobsTypeOK
  <2>3. broker.job.slot \in Sources /\ broker.job.by \in Texts
    BY <2>2 DEF Job, Texts
  <2>4. slots' \in [Sources -> [used : BOOLEAN, result : Texts]]
    BY <2>1, <2>3 DEF Routed, JobsTypeOK
  <2> QED BY <1>1, <1>2, <2>1, <2>2, <2>4 DEF Routed, JobsTypeOK, IrqTypeOK
<1>5. CASE BrokerRaises
  <2>1. /\ broker.pc = "raise" /\ broker' = [pc |-> "idle"] /\ pending' = pending \union {broker.job.slot}
        /\ dropped' = dropped \ {broker.job.slot} /\ UNCHANGED <<queue, slots>>
    BY <1>5 DEF BrokerRaises, Raise
  <2>2. broker.job.slot \in Sources
    BY <2>1 DEF Routed, JobsTypeOK, Job
  <2> QED BY <1>1, <1>2, <2>1, <2>2 DEF Routed, JobsTypeOK, IrqTypeOK
<1> QED BY <1>3, <1>4, <1>5 DEF BrokerStep

\* the irq hart and the router
LEMMA IrqRouter ==
  ASSUME Routed, IrqNext, UNCHANGED <<watchVars, jobVars>>
  PROVE  Routed'
<1> USE WatchAssumption, NoSource, JobsAssumption, HostAssumption, NoOneAssumption
<1>1. JobsTypeOK' /\ WTypes' /\ WatcherShape' /\ WakerShape'
  BY DEF Routed, RouterInv, watchVars, jobVars, JobsTypeOK, WTypes, WatcherShape, WakerShape, Watched
<1>2. UNCHANGED <<used, ended>>
  BY DEF IrqNext, Claim, RouteBind, RouteUnbind, RouteClaim
<1>3. OneUser'
  BY <1>2 DEF Routed, RouterInv, OneUser, Watched, Working, watchVars, jobVars
<1>4. ASSUME NEW s \in Sources, Claim(s) PROVE IrqTypeOK' /\ Askers' /\ WakerBinding' /\ WakerReached'
  <2>0. claims \in Seq(Sources) /\ (claims' = Append(claims, s) \/ claims' = claims)
    BY <1>4 DEF Claim, Routed, IrqTypeOK
  <2>1. /\ claims' \in Seq(Sources) /\ pending' = pending \ {s}
        /\ dropped' \subseteq dropped \union {s}
        /\ UNCHANGED <<used, opened, request, answer, table, mail, ended>>
    BY <2>0, <1>4 DEF Claim
  <2>2. IrqTypeOK'
    BY <2>1 DEF Routed, IrqTypeOK
  <2> QED BY <2>1, <2>2 DEF Routed, RouterInv, Askers, WakerBinding, WakerReached, At, watchVars, jobVars
<1>5. ASSUME NEW b \in Binders, RouteBind(b) PROVE IrqTypeOK' /\ Askers' /\ WakerBinding' /\ WakerReached'
  <2>1. PICK s \in Sources :
          /\ request[b] = <<"bind", s>> /\ table' = [table EXCEPT ![s] = b]
          /\ opened' = opened \union {s}
          /\ request' = [request EXCEPT ![b] = NoRequest] /\ answer' = [answer EXCEPT ![b] = "bound"]
          /\ UNCHANGED <<used, pending, claims, mail, ended, dropped>>
    BY <1>5 DEF RouteBind, Reply
  <2>2. IrqTypeOK'
    BY <2>1 DEF Routed, IrqTypeOK, Answers
  <2>3. /\ request'[b] = NoRequest /\ answer'[b] = "bound" /\ table'[s] = b
        /\ \A x \in Binders \ {b} : request'[x] = request[x] /\ answer'[x] = answer[x]
        /\ \A t \in Sources \ {s} : table'[t] = table[t]
    BY <2>1 DEF Routed, IrqTypeOK
  <2>4. request[b] # NoRequest
    BY <2>1 DEF NoRequest
  <2>5. Askers'
    BY <2>3, <2>4 DEF Routed, RouterInv, Askers, At, jobVars
  <2>6. CASE b = Waker
    <3>1. waker = "binding" /\ s = watcher.irq /\ answer[Waker] = "none"
      <4>1. request[Waker] = <<"bind", s>> /\ request[Waker] # NoRequest
        BY <2>1, <2>4, <2>6
      <4>2. waker \notin {"off", "waiting", "done"}
        BY <4>1 DEF Routed, RouterInv, WakerBinding
      <4>3. request[Waker] # <<"unbind", watcher.irq>>
        BY <4>1
      <4>4. waker # "unbinding"
        BY <4>1, <4>3 DEF Routed, RouterInv, WakerBinding
      <4>5. waker = "binding"
        BY <4>2, <4>4 DEF Routed, WTypes, WakerT
      <4>6. request[Waker] = <<"bind", watcher.irq>> /\ answer[Waker] = "none"
        BY <4>1, <4>5 DEF Routed, RouterInv, WakerBinding
      <4> QED BY <4>1, <4>5, <4>6
    <3> QED BY <2>1, <2>2, <2>3, <2>5, <2>6, <3>1 DEF Routed, RouterInv, WakerBinding, WakerReached, watchVars
  <2>7. CASE b # Waker
    <3>1. b \in Helpers /\ At(b, "binding") /\ s = helper[b].slot
      <4>1. b \in Binders \ {Waker}
        BY <2>7
      <4>2. b \in Helpers /\ At(b, "binding") /\ request[b] = <<"bind", helper[b].slot>>
        BY <4>1, <2>4 DEF Routed, RouterInv, Askers
      <4>3. request[b] = <<"bind", s>>
        BY <2>1
      <4> QED BY <4>2, <4>3
    <3>2. s # watcher.irq
      BY <3>1 DEF Routed, RouterInv, OneUser, Working, At
    <3>3. WakerBinding'
      BY <2>1, <2>3, <2>7 DEF Routed, RouterInv, WakerBinding, watchVars
    <3>4. WakerReached'
      BY <2>1, <2>3, <2>7, <3>2 DEF Routed, RouterInv, WakerReached, WatcherShape, WakerShape, watchVars, WTypes, WatcherT, Watched
    <3> QED BY <2>2, <2>5, <3>3, <3>4
  <2> QED BY <2>6, <2>7
<1>6. ASSUME NEW b \in Binders, RouteUnbind(b) PROVE IrqTypeOK' /\ Askers' /\ WakerBinding' /\ WakerReached'
  <2>1. PICK s \in Sources :
          /\ request[b] = <<"unbind", s>>
          /\ request' = [request EXCEPT ![b] = NoRequest] 
          /\ \/ /\ table[s] \in {b, NoOne} /\ table' = [table EXCEPT ![s] = NoOne]
                /\ answer' = [answer EXCEPT ![b] = "unbound"]
             \/ /\ table[s] \notin {b, NoOne} /\ table' = table
                /\ answer' = [answer EXCEPT ![b] = "refused"]
          /\ UNCHANGED <<used, opened, pending, claims, mail, ended, dropped>>
    BY <1>6 DEF RouteUnbind, Reply
  <2>2. IrqTypeOK'
    BY <2>1 DEF Routed, IrqTypeOK, Answers
  <2>3. b = Waker
    BY <2>1 DEF Routed, RouterInv, Askers, NoRequest
  <2>4. waker = "unbinding" /\ s = watcher.irq /\ answer[Waker] = "none"
    BY <2>1, <2>3 DEF Routed, RouterInv, WakerBinding, NoRequest, WTypes, WakerT
  <2>5. /\ request'[Waker] = NoRequest /\ answer'[Waker] \in {"unbound", "refused"}
        /\ \A x \in Binders \ {Waker} : request'[x] = request[x] /\ answer'[x] = answer[x]
        /\ \A t \in Sources \ {s} : table'[t] = table[t]
        /\ answer'[Waker] = "unbound" => table'[s] = NoOne
        /\ table'[s] \in {NoOne, table[s]}
    BY <2>1, <2>3 DEF Routed, IrqTypeOK
  <2>6. Askers'
    BY <2>5 DEF Routed, RouterInv, Askers, At, jobVars
  <2>7. WakerBinding'
    <3>1. \A t \in Sources : table'[t] = Waker => table[t] = Waker
      BY <2>5
    <3>2. answer'[Waker] = "unbound" => \A t \in Sources : table'[t] # Waker
      BY <2>4, <2>5, <3>1 DEF Routed, RouterInv, WakerBinding
    <3> QED BY <2>1, <2>4, <2>5, <3>1, <3>2 DEF Routed, RouterInv, WakerBinding, watchVars
  <2>8. WakerReached'
    BY <2>4 DEF WakerReached, watchVars
  <2> QED BY <2>2, <2>6, <2>7, <2>8
<1>7. ASSUME RouteClaim PROVE IrqTypeOK' /\ Askers' /\ WakerBinding' /\ WakerReached'
  <2>1. /\ claims # <<>> /\ claims' = Tail(claims)
        /\ UNCHANGED <<used, opened, pending, request, answer, ended, dropped>>
    BY <1>7 DEF RouteClaim
  <2>2. Head(claims) \in Sources /\ Tail(claims) \in Seq(Sources)
    BY <2>1 DEF Routed, IrqTypeOK
  <2>3. /\ mail' \in [Binders -> Seq(Sources)] /\ table' \in [Sources -> Binders \union {NoOne}]
        /\ \A t \in Sources : table'[t] = table[t] \/ (table[t] \in ended /\ table'[t] = NoOne)
    <3>0. mail \in [Binders -> Seq(Sources)] /\ table \in [Sources -> Binders \union {NoOne}]
      BY DEF Routed, IrqTypeOK
    <3>1. PICK s \in Sources : s = Head(claims)
      BY <2>2
    <3>2. PICK o \in Binders \union {NoOne} : o = table[s]
      BY <3>0, <3>1
    <3>3. CASE o = NoOne /\ UNCHANGED <<table, mail>>
      BY <3>0, <3>3
    <3>4. CASE o \in ended /\ table' = [table EXCEPT ![s] = NoOne] /\ UNCHANGED mail
      BY <3>0, <3>2, <3>4
    <3>5. CASE o \in Binders \ ended /\ mail' = [mail EXCEPT ![o] = Append(mail[o], s)] /\ UNCHANGED table
      <4>1. Append(mail[o], s) \in Seq(Sources)
        BY <3>0, <3>1, <3>5
      <4> QED BY <3>0, <3>5, <4>1
    <3> QED BY <1>7, <3>1, <3>2, <3>3, <3>4, <3>5 DEF RouteClaim
  <2>4. IrqTypeOK'
    BY <2>1, <2>2, <2>3 DEF Routed, IrqTypeOK
  <2>5. \A t \in Sources : table'[t] = Waker <=> table[t] = Waker
    BY <2>3 DEF Routed, RouterInv, WakerBinding
  <2>6. WakerBinding' /\ Askers'
    BY <2>1, <2>5 DEF Routed, RouterInv, WakerBinding, Askers, At, watchVars, jobVars
  <2>7. WakerReached'
    BY <2>1, <2>5 DEF Routed, RouterInv, WakerReached, watchVars, IrqTypeOK
  <2> QED BY <2>4, <2>6, <2>7
<1> QED BY <1>1, <1>3, <1>4, <1>5, <1>6, <1>7 DEF IrqNext, Routed, RouterInv

-----------------------------------------------------------------------------
(* Watcher, router and resolver together                                   *)

\* the invariant of watcher, router and resolver together
HostRight == Routed /\ ResolverParts /\ uses \in Programs

\* every step of a watcher program keeps the routing invariant
LEMMA WatchRight ==
  ASSUME Routed, WatchNext, UNCHANGED jobVars
  PROVE  Routed'
<1>1. CASE ThreadStep
  BY <1>1, ThreadTypes, ThreadQuiet, ThreadRaisesRouter DEF ThreadStep, Routed
<1>2. CASE WakerStep
  BY <1>2, WakerTypes, WakerRouter DEF Routed
<1>3. CASE ServiceStep
  BY <1>3, ServiceTypes, ServiceQuiet, StartRouter, CloseRouter DEF Routed
<1>4. CASE \E c \in Clients : Register(c) \/ Cancel(c) \/ ClientStep(c)
  <2>1. UNCHANGED <<watcher, thread, waker, svc, woken, irqVars>>
    BY <1>4 DEF Register, Cancel, ClientStep, TakeNote, ServiceDead
  <2> QED BY <1>4, <2>1, ClientTypes, QuietRouter DEF Routed
<1>5. CASE Stop \/ Tick \/ \E f \in Fds : Arrive(f) \/ Consume(f)
  <2>1. UNCHANGED <<watcher, thread, waker, svc, woken, irqVars>>
    BY <1>5 DEF Stop, Tick, Arrive, Consume
  <2> QED BY <1>5, <2>1, OtherTypes, QuietRouter DEF Routed
<1> QED BY <1>1, <1>2, <1>3, <1>4, <1>5 DEF WatchNext

\* so does every step
LEMMA RouterRight ==
  ASSUME Routed, [Next]_vars
  PROVE  Routed'
<1>1. CASE WatchStep
  BY <1>1, WatchRight DEF WatchStep
<1>2. CASE JobsStep
  BY <1>2, NewRouter, HelperRouter, BrokerRouter DEF JobsStep, JobsNext
<1>3. CASE IrqStep
  BY <1>3, IrqRouter DEF IrqStep
<1>4. CASE ResolverStep \/ UNCHANGED vars
  <2>1. UNCHANGED <<irqVars, watchVars, jobVars>>
    BY <1>4 DEF ResolverStep, vars
  <2>2. WTypes'
    BY <2>1 DEF Routed, WTypes, watchVars
  <2>3. UNCHANGED <<watcher, thread, waker, svc, woken, irqVars, jobVars>>
    BY <2>1 DEF watchVars
  <2> QED BY <2>2, <2>3, QuietRouter DEF Routed
<1> QED BY <1>1, <1>2, <1>3, <1>4 DEF Next

\* it holds at the start
LEMMA RouterStarts == Init => Routed
<1> SUFFICES ASSUME Init PROVE Routed
  OBVIOUS
<1> USE WatchAssumption, SourcesAssumption, NoOneAssumption, JobsAssumption
<1>1. IrqTypeOK
  BY DEF Init, IrqInit, IrqTypeOK, Answers
<1>2. WTypes
  <2>1. NoWatcher \in WatcherT /\ NoThread \in ThreadT
    BY DEF NoWatcher, NoThread, WatcherT, ThreadT
  <2>2. svc \in ServiceT
    BY DEF Init, WatchInit, ServiceT
  <2>3. (CHOOSE f \in Fds : TRUE) \in Fds
    OBVIOUS
  <2>4. client \in [Clients -> ClientT]
    BY <2>3 DEF Init, WatchInit, ClientT
  <2> QED BY <2>1, <2>2, <2>4 DEF Init, WatchInit, WTypes, WakerT, BoxT, NoteT
<1>3. JobsTypeOK
  BY DEF Init, JobsInit, JobsTypeOK, Texts
<1>4. svc.mode = "off" /\ waker = "off" /\ watcher.state = "none" /\ watcher.irq = 0
      /\ ~watcher.polling /\ thread.pc = "gone" /\ woken = <<>>
  BY DEF Init, WatchInit, NoWatcher, NoThread
<1>5. WatcherShape /\ WakerShape
  BY <1>4 DEF WatcherShape, WakerShape
<1>6. WakerBinding /\ WakerReached
  BY <1>4 DEF Init, IrqInit, WakerBinding, WakerReached
<1>7. OneUser /\ Askers
  BY <1>4 DEF Init, IrqInit, JobsInit, OneUser, Working, Watched, Askers
<1> QED BY <1>1, <1>2, <1>3, <1>5, <1>6, <1>7 DEF Routed, RouterInv

\* every step keeps the invariant
LEMMA HostKeeps ==
  ASSUME HostRight, [Next]_vars
  PROVE  HostRight'
<1>1. Routed'
  BY RouterRight DEF HostRight
<1>2. ResolverNext \/ UNCHANGED resolverVars
  BY DEF Next, WatchStep, JobsStep, IrqStep, ResolverStep, vars
<1>3. ResolverParts'
  BY <1>2, ResolverRight DEF HostRight
<1>4. uses' = uses
  BY DEF Next, WatchStep, JobsStep, IrqStep, ResolverStep, vars
<1> QED BY <1>1, <1>3, <1>4 DEF HostRight

\* it holds at the start
LEMMA HostStarts == Init => HostRight
BY RouterStarts, ResolverStarts DEF Init, HostRight

\* HostRight is an invariant.
THEOREM HostInvariant == Spec => []HostRight
<1>1. HostRight /\ [Next]_vars => HostRight'
  BY HostKeeps
<1> QED BY HostStarts, <1>1, PTL DEF Spec

\* The state of the host is well typed, and every block and place of the resolver is counted to
\* the last user: a lookup's blocks live exactly as long as someone may use them.
THEOREM HostCounted == Spec => []WellCounted
<1>1. HostRight => WellCounted
  BY RInvIs, WTypesIs DEF HostRight, Routed, WellCounted, TypeOK, ResolverIInv, ResolverParts
<1> QED BY HostInvariant, <1>1, PTL

\* an unbound waker hears nothing more
LEMMA Unheard ==
  ASSUME Routed, [Next]_vars, answer[Waker] = "unbound" \/ Waker \in ended
  PROVE  mail'[Waker] = mail[Waker]
<1> USE WatchAssumption, HostAssumption, JobsAssumption, NoOneAssumption
<1>1. waker \in {"unbinding", "done"} /\ \A s \in Sources : table[s] # Waker
  <2>1. CASE Waker \in ended
    BY <2>1 DEF Routed, RouterInv, WakerBinding
  <2>2. CASE answer[Waker] = "unbound"
    <3>1. waker = "unbinding"
      BY <2>2 DEF Routed, RouterInv, WakerBinding, WTypes, WakerT
    <3>2. request[Waker] # <<"unbind", watcher.irq>> \/ answer[Waker] # "none"
      BY <2>2
    <3> QED BY <2>2, <3>1, <3>2 DEF Routed, RouterInv, WakerBinding
  <2> QED BY <2>1, <2>2
<1>2. mail \in [Binders -> Seq(Sources)] /\ claims \in Seq(Sources) /\ table \in [Sources -> Binders \union {NoOne}]
  BY DEF Routed, IrqTypeOK
<1>3. CASE WatchStep
  <2>1. ~WakerWakes
    BY <1>1 DEF WakerWakes
  <2> QED BY <2>1, <1>3 DEF WatchStep, WatchNext, ThreadStep, WakerStep, ServiceStep, ClientStep, ThreadPolls,
          PollReturns, ThreadPublishes, ThreadRaises, ThreadStops, WakerBound, WakerUnbinds, WakerEnds,
          Answered, Ask, ServiceStart, ServiceReady, TakeWoke, Arm, ArmFails, FallbackPass, TakeStop,
          RetireWoken, h_watch_close, ServiceEnds, TakeRegister, TakeRetire, Refuse, Register, Cancel,
          TakeNote, ServiceDead, Arrive, Consume, Stop, Tick, irqVars
<1>4. CASE JobsStep
  <2>1. ASSUME NEW h \in Helpers, Interrupted(h) PROVE mail'[Waker] = mail[Waker]
    <3>1. h # Waker /\ mail' = [mail EXCEPT ![h] = Tail(mail[h])]
      BY <2>1 DEF Interrupted, TakeDelivery
    <3> QED BY <3>1, <1>2
  <2> QED BY <2>1, <1>4 DEF JobsStep, JobsNext, BrokerStep, HelperStep, BrokerTakes, BrokerStores, BrokerRaises,
          j_new, Bound, Answered, fpr_job_submit, j_result, irqVars
<1>5. CASE IrqStep
  <2>1. CASE RouteClaim
    <3>1. claims # <<>>
      BY <2>1 DEF RouteClaim
    <3>2. PICK s \in Sources : s = Head(claims)
      BY <1>2, <3>1
    <3>3. table[s] # Waker
      BY <1>1, <3>2
    <3> QED BY <2>1, <3>2, <3>3, <1>2 DEF RouteClaim
  <2> QED BY <2>1, <1>5 DEF IrqStep, IrqNext, Claim, RouteBind, RouteUnbind
<1>6. CASE ResolverStep \/ UNCHANGED vars
  BY <1>6 DEF ResolverStep, vars, irqVars
<1> QED BY <1>3, <1>4, <1>5, <1>6 DEF Next

\* After the router's answer to its unbind, and after its end, the waker is handed no interrupt:
\* the source it served may be given back.
THEOREM UnboundIsLast == Spec => UnboundHearsNothing
<1>1. HostRight /\ [Next]_vars =>
        [answer[Waker] = "unbound" \/ Waker \in ended => mail'[Waker] = mail[Waker]]_<<answer, mail, ended>>
  BY Unheard DEF HostRight
<1> QED BY HostInvariant, <1>1, PTL DEF Spec, UnboundHearsNothing

-----------------------------------------------------------------------------
(* The jobs: the invariant                                                 *)

\* the source a helper's job is posted under
Slot(h) == helper[h].slot

\* the helpers whose source came to them with nothing under way on it
Clean == Helpers \ crossed

\* where the job of helper h is, and where its signal
InQueue(h) == \E i \in DOMAIN queue : queue[i].by = h
InBroker(h) == broker.pc # "idle" /\ broker.job.by = h
Marked(h) == Slot(h) \in pending
Claimed(h) == \E i \in DOMAIN claims : claims[i] = Slot(h)
Mailed(h) == mail[h] # <<>>
Stored(h) == At(h, "waiting") /\ slots[Slot(h)].result = h

\* source s is no clean helper's: what is under way on it does them no harm
Lost(s, hs, cr, us) ==
    /\ "watch" \in us
    /\ \A h \in Helpers \ cr : hs[h].pc \in {"binding", "bound", "waiting", "take"} => hs[h].slot # s

\* job q is one its helper waits for, or is on a lost source
Posted(q, hs, cr, us) ==
    IF q.by \in cr THEN Lost(q.slot, hs, cr, us)
                   ELSE hs[q.by].pc = "waiting" /\ q.slot = hs[q.by].slot

\* a signal of s is of a clean helper whose result is stored, or s is lost
Right(s, hs, ss, cr, us) ==
    \/ Lost(s, hs, cr, us)
    \/ \E h \in Helpers \ cr : hs[h].slot = s /\ hs[h].pc = "waiting" /\ ss[s].result = h

\* a helper's binding and slot are its own from the bind to its end, and the text
\* it finds there is its own if its source came to it clean
HelperFine(h) ==
    /\ answer[h] \in {"none", "bound"}
    /\ answer[h] = "bound" => At(h, "binding") /\ request[h] = NoRequest /\ table[Slot(h)] = h
    /\ request[h] # NoRequest => answer[h] = "none"
    /\ helper[h].pc \in {"bound", "waiting"} => table[Slot(h)] = h
    /\ h \in ended <=> At(h, "done")
    /\ Working(h) => slots[Slot(h)].used
    /\ h \notin crossed =>
          /\ helper[h].got # Nothing => helper[h].got \in {h, "refused"}
          /\ At(h, "take") => helper[h].got = "refused" \/ slots[Slot(h)].result = h
          /\ At(h, "done") => helper[h].got \in {h, "refused"}

\* so for all of them, and whoever a source is bound to has it as its slot
BoundHelpers ==
    /\ \A h \in Helpers : HelperFine(h)
    /\ \A s \in Sources : table[s] \in Helpers => ~At(table[s], "off") /\ Slot(table[s]) = s

\* a job queued or run is one a helper waits for, and each waits for one
JobsHeld ==
    /\ \A i \in DOMAIN queue : Posted(queue[i], helper, crossed, uses)
    /\ \A i, j \in DOMAIN queue : queue[i].by = queue[j].by /\ queue[i].by \notin crossed => i = j
    /\ broker.pc # "idle" => Posted(broker.job, helper, crossed, uses)
    /\ broker.pc = "raise" /\ broker.job.by \notin crossed => Stored(broker.job.by)

\* a signal under way is of a job whose result is stored
Signals ==
    /\ \A s \in pending : Right(s, helper, slots, crossed, uses)
    /\ \A i \in DOMAIN claims : Right(claims[i], helper, slots, crossed, uses)
    /\ \A h \in Clean : At(h, "waiting") =>
          \A i, j \in DOMAIN claims : claims[i] = Slot(h) /\ claims[j] = Slot(h) => i = j
    /\ \A h \in Clean : Mailed(h) => Stored(h) /\ Len(mail[h]) = 1

\* a clean helper's job is in one place, or its signal is
OneSignal ==
    \A h \in Clean : At(h, "waiting") =>
        /\ InQueue(h) => ~InBroker(h) /\ ~Marked(h) /\ ~Claimed(h) /\ ~Mailed(h)
        /\ InBroker(h) => ~Marked(h) /\ ~Claimed(h) /\ ~Mailed(h)
        /\ Marked(h) => ~Claimed(h) /\ ~Mailed(h)
        /\ Claimed(h) => ~Mailed(h)

\* The inductive invariant of the jobs.
JobsInv == BoundHelpers /\ JobsHeld /\ Signals /\ OneSignal /\ Uncrossed

-----------------------------------------------------------------------------
(* The jobs: each step                                                     *)

\* what the steps of a program with jobs start from
Helped == Routed /\ JobsInv

\* the helpers' records, and whose slot is whose
LEMMA HelperFacts ==
  ASSUME Routed
  PROVE  /\ helper \in [Helpers -> HelperT] /\ queue \in Seq(Job) /\ claims \in Seq(Sources)
         /\ slots \in [Sources -> [used : BOOLEAN, result : Texts]]
         /\ mail \in [Binders -> Seq(Sources)] /\ answer \in [Binders -> Answers]
         /\ table \in [Sources -> Binders \union {NoOne}]
         /\ request \in [Binders -> {NoRequest} \union (Kinds \X Sources)]
         /\ Helpers \subseteq Binders /\ Waker \notin Helpers /\ Nothing \notin Helpers \union {"refused"}
         /\ broker \in {[pc |-> "idle"]} \union [pc : {"run", "raise"}, job : Job]
         /\ \A h \in Helpers : Working(h) => helper[h].slot \in used /\ helper[h].slot \in Sources
         /\ \A g, h \in Helpers : (Working(g) /\ Working(h) /\ helper[g].slot = helper[h].slot) => g = h
<1>1. used \subseteq Sources
  BY DEF Routed, IrqTypeOK
<1> QED BY <1>1, JobsAssumption, HostAssumption DEF Routed, RouterInv, OneUser, IrqTypeOK, JobsTypeOK, HelperT

\* the broker's job, while it has one
LEMMA BrokerHas ==
  ASSUME Routed, broker.pc # "idle"
  PROVE  /\ broker \in [pc : {"run", "raise"}, job : Job]
         /\ broker.job \in Job /\ broker.job.by \in Helpers /\ broker.job.slot \in Sources
BY HelperFacts DEF Job

\* a lost source stays lost while no clean helper comes to it
LEMMA LostStays ==
  ASSUME UNCHANGED uses, NEW s, Lost(s, helper, crossed, uses),
         \A h \in Helpers : h \notin crossed' /\ Working(h)' /\ Slot(h)' = s =>
            h \notin crossed /\ Working(h) /\ Slot(h) = s
  PROVE  Lost(s, helper', crossed', uses')
BY DEF Lost, Working, Slot

\* a lost source is no clean helper's
LEMMA LostIs ==
  ASSUME NEW h \in Clean, Working(h)
  PROVE  ~Lost(Slot(h), helper, crossed, uses)
BY DEF Lost, Clean, Working, Slot

\* a crossed helper's source is lost: no clean helper has it too
LEMMA CrossedLost ==
  ASSUME Helped, NEW h \in crossed, h \in Helpers, Working(h)
  PROVE  Lost(Slot(h), helper, crossed, uses)
<1>1. "watch" \in uses
  BY DEF Helped, JobsInv, Uncrossed
<1>2. \A g \in Helpers \ crossed : Working(g) => Slot(g) # Slot(h)
  BY HelperFacts DEF Helped, Slot
<1> QED BY <1>1, <1>2 DEF Lost, Working, Slot

\* a signal of a clean helper's source is its own
LEMMA RightIs ==
  ASSUME Routed, NEW h \in Clean, Working(h), Right(Slot(h), helper, slots, crossed, uses)
  PROVE  Stored(h)
<1>1. PICK g \in Clean : Slot(g) = Slot(h) /\ Stored(g)
  BY LostIs DEF Right, Clean, Stored, At, Slot
<1>2. Working(g)
  BY <1>1 DEF Working, Stored, At
<1>3. g = h
  BY <1>1, <1>2, HelperFacts DEF Slot, Clean
<1> QED BY <1>1, <1>3

\* the broker takes the oldest job
LEMMA BrokerTakesJobs ==
  ASSUME Helped, BrokerTakes, UNCHANGED uses
  PROVE  JobsInv'
<1>1. /\ broker.pc = "idle" /\ queue # <<>> /\ broker' = [pc |-> "run", job |-> Head(queue)]
      /\ queue' = Tail(queue) /\ UNCHANGED <<slots, helper, crossed, irqVars>>
  BY DEF BrokerTakes
<1>2. PICK q \in Job : q = queue[1] /\ q = Head(queue)
  BY <1>1, HelperFacts DEF Helped
<1>3. /\ broker'.pc = "run" /\ broker'.job = q /\ q.by \in Helpers /\ 1 \in DOMAIN queue
      /\ Posted(q, helper, crossed, uses)
  BY <1>1, <1>2, HelperFacts DEF Helped, JobsInv, JobsHeld, Job
<1>4. /\ \A i \in DOMAIN queue' : i + 1 \in DOMAIN queue /\ queue'[i] = queue[i + 1] /\ i \in Nat \ {0}
      /\ \A i \in DOMAIN queue' : queue[i + 1].by = q.by => q.by \in crossed
  <2>1. \A i \in DOMAIN queue' : i + 1 \in DOMAIN queue /\ queue'[i] = queue[i + 1] /\ i \in Nat \ {0}
    BY <1>1, HelperFacts DEF Helped
  <2>2. \A i \in DOMAIN queue' : i + 1 # 1
    BY <2>1
  <2> QED BY <2>1, <2>2, <1>2, <1>3 DEF Helped, JobsInv, JobsHeld
<1>5. BoundHelpers' /\ Signals' /\ Uncrossed'
  BY <1>1 DEF Helped, JobsInv, BoundHelpers, HelperFine, Signals, Clean, At, Slot, Stored, Working, Mailed,
     Uncrossed, irqVars
<1>6. JobsHeld'
  <2>1. \A i \in DOMAIN queue' : Posted(queue'[i], helper', crossed', uses')
    BY <1>1, <1>4 DEF Helped, JobsInv, JobsHeld
  <2>2. \A i, j \in DOMAIN queue' : queue'[i].by = queue'[j].by /\ queue'[i].by \notin crossed' => i = j
    <3>1. ASSUME NEW i \in DOMAIN queue', NEW j \in DOMAIN queue', queue'[i].by = queue'[j].by,
                 queue'[i].by \notin crossed
          PROVE  i = j
      <4>1. i + 1 = j + 1
        BY <1>4, <3>1 DEF Helped, JobsInv, JobsHeld
      <4> QED BY <4>1, <1>4
    <3> QED BY <3>1, <1>1
  <2>3. Posted(broker'.job, helper', crossed', uses') /\ broker'.pc # "raise"
    BY <1>1, <1>3
  <2> QED BY <2>1, <2>2, <2>3 DEF JobsHeld
<1>7. OneSignal'
  <2>1. \A h \in Clean : InQueue(h)' => InQueue(h) /\ h # q.by
    BY <1>4 DEF InQueue, Clean
  <2>2. InQueue(q.by)
    BY <1>2, <1>3 DEF InQueue
  <2>3. \A h \in Helpers : InBroker(h)' <=> h = q.by
    BY <1>3 DEF InBroker
  <2>4. \A h \in Helpers : /\ Marked(h)' <=> Marked(h)
                           /\ Claimed(h)' <=> Claimed(h)
                           /\ Mailed(h)' <=> Mailed(h)
                           /\ At(h, "waiting")' <=> At(h, "waiting")
    BY <1>1 DEF Marked, Claimed, Mailed, At, Slot, irqVars
  <2> QED BY <1>1, <2>1, <2>2, <2>3, <2>4 DEF Helped, JobsInv, OneSignal, Clean
<1> QED BY <1>5, <1>6, <1>7 DEF JobsInv

\* the broker stores a result
LEMMA BrokerStoresJobs ==
  ASSUME Helped, BrokerStores, UNCHANGED uses
  PROVE  JobsInv'
<1>1. /\ broker.pc = "run" /\ broker' = [broker EXCEPT !.pc = "raise"]
      /\ UNCHANGED <<queue, helper, crossed, irqVars>>
      /\ slots' = [slots EXCEPT ![broker.job.slot].result = broker.job.by]
  BY DEF BrokerStores
<1>2. PICK q \in Job : q = broker.job
  BY <1>1, BrokerHas DEF Helped
<1>3. q.by \in Helpers /\ q.slot \in Sources /\ Posted(q, helper, crossed, uses)
  BY <1>1, <1>2 DEF Helped, JobsInv, JobsHeld, Job
<1>4. broker'.pc = "raise" /\ broker'.job = q
  BY <1>1, <1>2, BrokerHas DEF Helped
<1>5. /\ slots'[q.slot].result = q.by /\ slots'[q.slot].used = slots[q.slot].used
      /\ \A s \in Sources \ {q.slot} : slots'[s] = slots[s]
  BY <1>1, <1>2, <1>3, HelperFacts DEF Helped
<1>6. /\ q.by \notin crossed => At(q.by, "waiting") /\ q.slot = Slot(q.by)
      /\ \A h \in Clean \ {q.by} : Working(h) => Slot(h) \in Sources \ {q.slot}
  <2>1. \A h \in Clean : Working(h) => Slot(h) \in Sources
    BY HelperFacts DEF Helped, Slot, Clean
  <2>2. CASE q.by \in crossed
    BY <2>1, <2>2, <1>3 DEF Posted, Lost, Clean, Working, Slot
  <2>3. CASE q.by \notin crossed
    <3>1. At(q.by, "waiting") /\ q.slot = Slot(q.by)
      BY <2>3, <1>3 DEF Posted, At, Slot
    <3> QED BY <2>1, <3>1, <1>3, HelperFacts DEF Helped, Clean, Working, At, Slot
  <2> QED BY <2>2, <2>3
<1>7. /\ \A h \in Helpers : Working(h) => slots'[Slot(h)].used = slots[Slot(h)].used
      /\ \A h \in Clean \ {q.by} : Working(h) => slots'[Slot(h)] = slots[Slot(h)]
  <2>1. \A h \in Helpers : Working(h) => Slot(h) \in Sources
    BY HelperFacts DEF Helped, Slot
  <2> QED BY <2>1, <1>5, <1>6
<1>8. BoundHelpers'
  <2>1. \A h \in Helpers : Working(h)' => slots'[Slot(h)'].used
    BY <1>1, <1>7 DEF Helped, JobsInv, BoundHelpers, HelperFine, Working, Slot
  <2>2. \A h \in Clean : At(h, "take")' => helper'[h].got = "refused" \/ slots'[Slot(h)'].result = h
    <3>1. \A h \in Clean : At(h, "take") => Working(h) /\ h # q.by
      BY <1>6 DEF At, Working, Clean
    <3>2. \A h \in Clean : At(h, "take") => helper[h].got = "refused" \/ slots[Slot(h)].result = h
      BY DEF Helped, JobsInv, BoundHelpers, HelperFine, Clean
    <3>3. \A h \in Clean : At(h, "take") => slots'[Slot(h)] = slots[Slot(h)]
      BY <1>7, <3>1
    <3> QED BY <1>1, <3>2, <3>3 DEF At, Slot
  <2> QED BY <1>1, <2>1, <2>2 DEF Helped, JobsInv, BoundHelpers, HelperFine, Clean, At, Slot, irqVars
<1>9. \A h \in Clean : Stored(h)' <=> Stored(h) \/ h = q.by
  <2>1. q.by \in Clean => Stored(q.by)'
    BY <1>1, <1>5, <1>6 DEF Stored, At, Slot, Clean
  <2>2. ASSUME NEW h \in Clean, h # q.by PROVE Stored(h)' <=> Stored(h)
    <3>1. At(h, "waiting") => slots'[Slot(h)] = slots[Slot(h)]
      BY <1>7, <2>2 DEF Working, At
    <3> QED BY <1>1, <3>1 DEF Stored, At, Slot
  <2> QED BY <2>1, <2>2
<1>10. JobsHeld'
  <2>1. q.by \notin crossed => Stored(q.by)'
    BY <1>3, <1>9 DEF Clean
  <2> QED BY <1>1, <1>3, <1>4, <2>1 DEF Helped, JobsInv, JobsHeld
<1>11. Signals'
  <2>1. \A h \in Clean : /\ Stored(h) => Stored(h)'
                         /\ Slot(h)' = Slot(h)
                         /\ Mailed(h)' <=> Mailed(h)
                         /\ At(h, "waiting")' <=> At(h, "waiting")
    BY <1>1, <1>9 DEF Slot, Mailed, At, irqVars
  <2>2. ASSUME NEW s, Right(s, helper, slots, crossed, uses) PROVE Right(s, helper', slots', crossed', uses')
    <3>1. CASE Lost(s, helper, crossed, uses)
      BY <1>1, <3>1 DEF Right
    <3>2. ASSUME NEW h \in Clean, Slot(h) = s, Stored(h) PROVE Right(s, helper', slots', crossed', uses')
      BY <1>1, <2>1, <3>2 DEF Right, Clean, Stored, At, Slot
    <3> QED BY <2>2, <3>1, <3>2 DEF Right, Clean, Stored, At, Slot
  <2>3. Clean' = Clean /\ pending' = pending /\ claims' = claims /\ mail' = mail
    BY <1>1 DEF Clean, irqVars
  <2>4. /\ \A s \in pending' : Right(s, helper', slots', crossed', uses')
        /\ \A i \in DOMAIN claims' : Right(claims'[i], helper', slots', crossed', uses')
    BY <2>2, <2>3 DEF Helped, JobsInv, Signals
  <2>5. \A h \in Clean' : At(h, "waiting")' =>
          \A i, j \in DOMAIN claims' : claims'[i] = Slot(h)' /\ claims'[j] = Slot(h)' => i = j
    BY <2>1, <2>3 DEF Helped, JobsInv, Signals
  <2>6. \A h \in Clean' : Mailed(h)' => Stored(h)' /\ Len(mail'[h]) = 1
    BY <2>1, <2>3 DEF Helped, JobsInv, Signals
  <2> QED BY <2>4, <2>5, <2>6 DEF Signals
<1>12. OneSignal'
  <2>1. \A h \in Helpers : /\ InQueue(h)' <=> InQueue(h)
                           /\ InBroker(h)' <=> InBroker(h)
                           /\ Marked(h)' <=> Marked(h)
                           /\ Claimed(h)' <=> Claimed(h)
                           /\ Mailed(h)' <=> Mailed(h)
                           /\ At(h, "waiting")' <=> At(h, "waiting")
    BY <1>1, <1>2, <1>4 DEF InQueue, InBroker, Marked, Claimed, Mailed, At, Slot, irqVars
  <2> QED BY <1>1, <2>1 DEF Helped, JobsInv, OneSignal, Clean
<1>13. Uncrossed'
  BY <1>1 DEF Helped, JobsInv, Uncrossed
<1> QED BY <1>8, <1>10, <1>11, <1>12, <1>13 DEF JobsInv

\* the broker raises the source of a job whose result is stored
LEMMA BrokerRaisesJobs ==
  ASSUME Helped, BrokerRaises, UNCHANGED uses
  PROVE  JobsInv'
<1>1. /\ broker.pc = "raise" /\ broker' = [pc |-> "idle"] /\ pending' = pending \union {broker.job.slot}
      /\ UNCHANGED <<slots, queue, helper, crossed, used, opened, claims, request, answer, table, mail, ended>>
  BY DEF BrokerRaises, Raise
<1>2. PICK q \in Job : q = broker.job
  BY <1>1, BrokerHas DEF Helped
<1>3. /\ q.by \in Helpers /\ q.slot \in Sources
      /\ q.by \in crossed => Lost(q.slot, helper, crossed, uses)
      /\ q.by \notin crossed => Stored(q.by) /\ q.slot = Slot(q.by)
  BY <1>1, <1>2 DEF Helped, JobsInv, JobsHeld, Job, Posted, Slot
<1>4. broker'.pc = "idle" /\ InBroker(q.by)
  BY <1>1, <1>2 DEF InBroker
<1>5. BoundHelpers' /\ JobsHeld' /\ Uncrossed'
  BY <1>1, <1>4 DEF Helped, JobsInv, BoundHelpers, HelperFine, JobsHeld, At, Slot, Working, Uncrossed
<1>6. \A h \in Helpers : /\ Stored(h)' <=> Stored(h)
                         /\ Slot(h)' = Slot(h)
                         /\ Mailed(h)' <=> Mailed(h)
                         /\ Claimed(h)' <=> Claimed(h)
                         /\ InQueue(h)' <=> InQueue(h)
                         /\ ~InBroker(h)'
                         /\ At(h, "waiting")' <=> At(h, "waiting")
  BY <1>1, <1>4 DEF Stored, Slot, Mailed, Claimed, InQueue, InBroker, At
<1>7. Signals'
  <2>1. Right(q.slot, helper, slots, crossed, uses)
    BY <1>3 DEF Right, Stored, At, Slot
  <2> QED BY <1>1, <1>2, <1>6, <2>1 DEF Helped, JobsInv, Signals, Clean
<1>8. \A h \in Clean : At(h, "waiting") => (Marked(h)' <=> Marked(h) \/ h = q.by)
  <2>1. ASSUME NEW h \in Clean, At(h, "waiting") PROVE Slot(h) = q.slot <=> h = q.by
    <3>1. Working(h)
      BY <2>1 DEF At, Working
    <3>2. CASE q.by \in crossed
      BY <1>3, <2>1, <3>1, <3>2, LostIs DEF Clean
    <3>3. CASE q.by \notin crossed
      BY <1>3, <2>1, <3>3, HelperFacts DEF Helped, Slot, Working, At, Clean, Stored
    <3> QED BY <3>2, <3>3
  <2> QED BY <1>1, <1>2, <1>6, <2>1 DEF Marked, Clean
<1>9. OneSignal'
  BY <1>1, <1>3, <1>4, <1>6, <1>8 DEF Helped, JobsInv, OneSignal, Clean
<1> QED BY <1>5, <1>7, <1>9 DEF JobsInv

\* only helper h moves
Only(h) == \A g \in Helpers \ {h} : helper'[g] = helper[g]

\* the helpers but h stand still
LEMMA OnlyIs ==
  ASSUME NEW h \in Helpers, Only(h)
  PROVE  \A g \in Helpers \ {h} : /\ \A p : At(g, p)' <=> At(g, p)
                                  /\ Slot(g)' = Slot(g)
                                  /\ Working(g)' <=> Working(g)
BY DEF Only, At, Slot, Working

\* a signal is of a job whose text is there
LEMMA SignalIs ==
  ASSUME Helped, NEW h \in Clean, Working(h), ~Stored(h)
  PROVE  ~Marked(h) /\ ~Claimed(h) /\ ~Mailed(h)
<1>1. ~Right(Slot(h), helper, slots, crossed, uses)
  BY RightIs DEF Helped
<1> QED BY <1>1 DEF Helped, JobsInv, Signals, Marked, Claimed, Mailed

\* a helper that is not waiting moves where the jobs do not see it: it keeps its
\* slot, comes to one with nothing under way, or is crossed
LEMMA AsideJobs ==
  ASSUME Helped, NEW h \in Helpers, Only(h), ~At(h, "waiting"), helper'[h].pc # "waiting",
         UNCHANGED <<queue, broker, pending, claims, mail, uses>>,
         crossed' = crossed \/ crossed' = crossed \union {h},
         h \notin crossed' /\ Working(h)' => (Working(h) /\ Slot(h)' = Slot(h)) \/ ~UnderWay(Slot(h)'),
         \A g \in Helpers \ {h} : At(g, "waiting") => slots'[Slot(g)] = slots[Slot(g)]
  PROVE  JobsHeld' /\ Signals' /\ OneSignal'
<1>1. \A g \in Helpers \ {h} : /\ At(g, "waiting")' <=> At(g, "waiting")
                               /\ Slot(g)' = Slot(g)
                               /\ Working(g)' <=> Working(g)
                               /\ helper'[g] = helper[g]
                               /\ g \in crossed' <=> g \in crossed
  BY OnlyIs DEF Only
<1>2. ~At(h, "waiting")'
  BY DEF At
<1>3. \A g \in Helpers : Stored(g)' <=> Stored(g)
  <2>1. \A g \in Helpers \ {h} : Stored(g)' <=> Stored(g)
    BY <1>1 DEF Stored
  <2> QED BY <2>1, <1>2 DEF Stored
<1>4. \A g \in Helpers : Mailed(g)' <=> Mailed(g)
  BY DEF Mailed
<1>5. \A s : UnderWay(s) /\ Lost(s, helper, crossed, uses) => Lost(s, helper', crossed', uses')
  <2>1. ASSUME NEW s, UnderWay(s), Lost(s, helper, crossed, uses) PROVE Lost(s, helper', crossed', uses')
    <3>1. \A g \in Helpers \ {h} : g \notin crossed' /\ Working(g)' /\ Slot(g)' = s =>
             g \notin crossed /\ Working(g) /\ Slot(g) = s
      BY <1>1
    <3>2. h \notin crossed' /\ Working(h)' /\ Slot(h)' = s => h \notin crossed /\ Working(h) /\ Slot(h) = s
      BY <2>1
    <3> QED BY <2>1, <3>1, <3>2, LostStays
  <2> QED BY <2>1
<1>6. \A q \in Job : UnderWay(q.slot) /\ Posted(q, helper, crossed, uses) =>
        Posted(q, helper', crossed', uses')
  <2>1. ASSUME NEW q \in Job, UnderWay(q.slot), Posted(q, helper, crossed, uses)
        PROVE  Posted(q, helper', crossed', uses')
    <3>1. q.by \in Helpers
      BY DEF Job
    <3>2. CASE q.by \in crossed
      <4>1. Lost(q.slot, helper, crossed, uses)
        BY <2>1, <3>2 DEF Posted
      <4>2. Lost(q.slot, helper', crossed', uses')
        BY <2>1, <4>1, <1>5
      <4> QED BY <3>2, <4>2 DEF Posted
    <3>3. CASE q.by \notin crossed
      <4>1. helper[q.by].pc = "waiting" /\ q.slot = helper[q.by].slot /\ q.by # h
        BY <2>1, <3>3 DEF Posted, At
      <4> QED BY <3>1, <3>3, <4>1, <1>1 DEF Posted
    <3> QED BY <3>2, <3>3
  <2> QED BY <2>1
<1>7. JobsHeld'
  <2>1. \A i \in DOMAIN queue : queue[i] \in Job /\ UnderWay(queue[i].slot)
    BY HelperFacts DEF Helped, UnderWay
  <2>2. \A i \in DOMAIN queue : Posted(queue[i], helper', crossed', uses')
    BY <2>1, <1>6 DEF Helped, JobsInv, JobsHeld
  <2>3. broker.pc # "idle" => Posted(broker.job, helper', crossed', uses')
    <3>1. broker.pc # "idle" => broker.job \in Job /\ UnderWay(broker.job.slot)
      BY BrokerHas DEF Helped, UnderWay
    <3> QED BY <3>1, <1>6 DEF Helped, JobsInv, JobsHeld
  <2>4. broker.pc = "raise" /\ broker.job.by \notin crossed' => Stored(broker.job.by)'
    <3>1. broker.pc = "raise" => broker.job.by \in Helpers
      BY BrokerHas DEF Helped
    <3> QED BY <3>1, <1>3 DEF Helped, JobsInv, JobsHeld
  <2> QED BY <2>2, <2>3, <2>4 DEF Helped, JobsInv, JobsHeld
<1>8. \A s : UnderWay(s) /\ Right(s, helper, slots, crossed, uses) => Right(s, helper', slots', crossed', uses')
  <2>1. ASSUME NEW s, UnderWay(s), Right(s, helper, slots, crossed, uses)
        PROVE  Right(s, helper', slots', crossed', uses')
    <3>1. CASE Lost(s, helper, crossed, uses)
      BY <2>1, <3>1, <1>5 DEF Right
    <3>2. ASSUME NEW g \in Clean, Slot(g) = s, Stored(g) PROVE Right(s, helper', slots', crossed', uses')
      <4>1. g # h /\ g \in Helpers /\ g \notin crossed'
        BY <3>2, <1>1 DEF Stored, Clean
      <4>2. helper'[g] = helper[g] /\ slots'[s] = slots[s]
        BY <3>2, <4>1, <1>1 DEF Stored
      <4> QED BY <3>2, <4>1, <4>2 DEF Right, Stored, At, Slot
    <3> QED BY <2>1, <3>1, <3>2 DEF Right, Clean, Stored, At, Slot
  <2> QED BY <2>1
<1>9. Signals'
  <2>1. \A s \in pending : Right(s, helper', slots', crossed', uses')
    BY <1>8 DEF Helped, JobsInv, Signals, UnderWay
  <2>2. \A i \in DOMAIN claims : Right(claims[i], helper', slots', crossed', uses')
    BY <1>8 DEF Helped, JobsInv, Signals, UnderWay
  <2>3. \A g \in Clean' : At(g, "waiting")' => g \in Clean /\ At(g, "waiting") /\ Slot(g)' = Slot(g)
    BY <1>1, <1>2 DEF Clean
  <2>4. \A g \in Clean' : g \in Clean
    BY <1>1 DEF Clean
  <2>5. /\ \A s \in pending' : Right(s, helper', slots', crossed', uses')
        /\ \A i \in DOMAIN claims' : Right(claims'[i], helper', slots', crossed', uses')
    BY <1>1, <2>1, <2>2
  <2>6. \A g \in Clean' : At(g, "waiting")' =>
          \A i, j \in DOMAIN claims' : claims'[i] = Slot(g)' /\ claims'[j] = Slot(g)' => i = j
    BY <1>1, <2>3 DEF Helped, JobsInv, Signals
  <2>7. \A g \in Clean' : Mailed(g)' => Stored(g)' /\ Len(mail'[g]) = 1
    <3>1. \A g \in Clean' : g \in Helpers /\ g \in Clean /\ mail'[g] = mail[g]
      BY <2>4 DEF Clean
    <3> QED BY <1>3, <1>4, <3>1 DEF Helped, JobsInv, Signals
  <2> QED BY <2>5, <2>6, <2>7 DEF Signals
<1>10. OneSignal'
  <2>1. \A g \in Helpers \ {h} : /\ InQueue(g)' <=> InQueue(g)
                                 /\ InBroker(g)' <=> InBroker(g)
                                 /\ Marked(g)' <=> Marked(g)
                                 /\ Claimed(g)' <=> Claimed(g)
    BY <1>1 DEF InQueue, InBroker, Marked, Claimed
  <2> QED BY <2>1, <1>1, <1>2, <1>4 DEF Helped, JobsInv, OneSignal, Clean
<1> QED BY <1>7, <1>9, <1>10

\* where nobody has a source in use, and no watcher is used, nothing is under way on it
LEMMA VacantUnwatched ==
  ASSUME Helped, "watch" \notin uses, NEW s \in Sources, s \notin used
  PROVE  ~UnderWay(s)
<1>1. \A h \in Helpers : helper[h].pc = "waiting" => helper[h].slot # s
  BY HelperFacts DEF Helped, Working
<1>2. crossed = {} /\ ~Lost(s, helper, crossed, uses)
  BY DEF Helped, JobsInv, Uncrossed, Lost
<1>3. ~Right(s, helper, slots, crossed, uses)
  BY <1>1, <1>2 DEF Right
<1>4. s \notin pending /\ \A i \in DOMAIN claims : claims[i] # s
  BY <1>3 DEF Helped, JobsInv, Signals
<1>5. \A q \in Job : Posted(q, helper, crossed, uses) => q.slot # s
  BY <1>1, <1>2 DEF Posted, Job
<1>6. \A i \in DOMAIN queue : queue[i].slot # s
  <2>1. \A i \in DOMAIN queue : queue[i] \in Job
    BY HelperFacts DEF Helped
  <2> QED BY <2>1, <1>5 DEF Helped, JobsInv, JobsHeld
<1>7. broker.pc # "idle" => broker.job.slot # s
  BY <1>5, BrokerHas DEF Helped, JobsInv, JobsHeld
<1> QED BY <1>4, <1>6, <1>7 DEF UnderWay

\* a helper takes a slot: nobody else's, and clean if nothing is under way on it
LEMMA NewJobs ==
  ASSUME Helped, NEW h \in Helpers, j_new(h), UNCHANGED uses
  PROVE  JobsInv'
<1> USE JobsAssumption
<1>1. PICK s \in Sources :
        /\ HostAlloc(s) /\ slots' = [slots EXCEPT ![s] = [used |-> TRUE, result |-> Nothing]]
        /\ opened' = opened \union {s} /\ request' = [request EXCEPT ![h] = <<"bind", s>>]
        /\ helper' = [helper EXCEPT ![h].pc = "binding", ![h].slot = s]
        /\ crossed' = IF UnderWay(s) THEN crossed \union {h} ELSE crossed
  BY DEF j_new
<1>2. s \notin used
  BY <1>1, HandsOutFree DEF j_new
<1>3. /\ helper[h].pc = "off" /\ UNCHANGED <<queue, broker, pending, claims, answer, table, mail, ended>>
      /\ helper \in [Helpers -> HelperT] /\ h \in Binders
  BY HelperFacts DEF j_new, At, Helped
<1>4. /\ helper'[h].pc = "binding" /\ helper'[h].slot = s /\ helper'[h].got = helper[h].got
      /\ Only(h)
  BY <1>1, <1>3 DEF HelperT, Only
<1>5. \A g \in Helpers \ {h} : Working(g) => slots'[Slot(g)] = slots[Slot(g)]
  BY <1>1, <1>2, HelperFacts DEF Helped, Slot
<1>6. JobsHeld' /\ Signals' /\ OneSignal'
  <2>1. \A g \in Helpers \ {h} : At(g, "waiting") => slots'[Slot(g)] = slots[Slot(g)]
    BY <1>5 DEF At, Working
  <2>2. h \notin crossed' => ~UnderWay(Slot(h)')
    BY <1>1, <1>4 DEF Slot
  <2>3. crossed' = crossed \/ crossed' = crossed \union {h}
    BY <1>1
  <2>4. ~At(h, "waiting") /\ helper'[h].pc # "waiting"
    BY <1>3, <1>4 DEF At
  <2> QED BY <1>3, <1>4, <2>1, <2>2, <2>3, <2>4, AsideJobs
<1>7. slots'[s].used
  BY <1>1, HelperFacts DEF Helped
<1>8. \A b \in Binders \ {h} : request'[b] = request[b]
  BY <1>1, HelperFacts DEF Helped
<1>9. answer[h] = "none" /\ h \notin ended /\ (h \notin crossed /\ helper[h].got # Nothing => helper[h].got \in {h, "refused"})
  BY <1>3 DEF Helped, JobsInv, BoundHelpers, HelperFine, At
<1>10. \A t \in Sources : table[t] \in Helpers => table[t] # h
  BY <1>3 DEF Helped, JobsInv, BoundHelpers, At
<1>11. \A t \in Sources : table'[t] \in Helpers => helper'[table'[t]].pc # "off" /\ helper'[table'[t]].slot = t
  BY <1>3, <1>4, <1>10 DEF Helped, JobsInv, BoundHelpers, At, Slot, Only
<1>12. crossed \subseteq crossed'
  BY <1>1
<1>13. HelperFine(h)'
  BY <1>3, <1>4, <1>7, <1>9, <1>12 DEF HelperFine, Slot, Working, At
<1>14. ASSUME NEW g \in Helpers \ {h} PROVE HelperFine(g)'
  <2>1. helper'[g] = helper[g] /\ g \in Binders /\ request'[g] = request[g] /\ answer'[g] = answer[g]
        /\ HelperFine(g)
    BY <1>3, <1>4, <1>8, HelperFacts DEF Helped, Only, JobsInv, BoundHelpers
  <2>2. CASE Working(g)
    <3>1. slots'[Slot(g)] = slots[Slot(g)]
      BY <2>2, <1>5
    <3> QED BY <2>1, <3>1, <1>3, <1>12 DEF HelperFine, At, Slot, Working
  <2>3. CASE ~Working(g)
    BY <2>1, <2>3, <1>3, <1>12 DEF HelperFine, At, Slot, Working
  <2> QED BY <2>2, <2>3
<1>15. BoundHelpers'
  BY <1>11, <1>13, <1>14 DEF BoundHelpers, At, Slot
<1>16. Uncrossed'
  BY <1>1, <1>2, VacantUnwatched DEF Helped, JobsInv, Uncrossed
<1> QED BY <1>6, <1>15, <1>16 DEF JobsInv

\* a helper a step of another does not touch stays fine
LEMMA FineStays ==
  ASSUME Helped, NEW h \in Helpers, Only(h), NEW g \in Helpers \ {h},
         request'[g] = request[g], answer'[g] = answer[g], UNCHANGED <<table, crossed>>, g \in ended' <=> g \in ended,
         Working(g) => slots'[Slot(g)] = slots[Slot(g)]
  PROVE  HelperFine(g)'
<1>1. helper'[g] = helper[g]
  BY DEF Only
<1>2. HelperFine(g)
  BY DEF Helped, JobsInv, BoundHelpers
<1>3. slots'[Slot(g)] = slots[Slot(g)] => HelperFine(g)'
  BY <1>1, <1>2 DEF HelperFine, At, Slot, Working
<1>4. CASE ~Working(g)
  BY <1>1, <1>2, <1>4 DEF HelperFine, At, Slot, Working
<1> QED BY <1>3, <1>4

\* the bindings fit the slots while only steps change
LEMMA TableFits ==
  ASSUME Helped, NEW h \in Helpers, Only(h), helper'[h].slot = helper[h].slot, helper'[h].pc # "off", UNCHANGED table
  PROVE  \A s \in Sources : table'[s] \in Helpers => helper'[table'[s]].pc # "off" /\ helper'[table'[s]].slot = s
BY DEF Helped, JobsInv, BoundHelpers, Only, At, Slot

\* a helper hears that it is bound
LEMMA BoundJobs ==
  ASSUME Helped, NEW h \in Helpers, Bound(h), UNCHANGED uses
  PROVE  JobsInv'
<1>1. /\ answer[h] = "bound" /\ answer' = [answer EXCEPT ![h] = "none"] /\ helper[h].pc = "binding"
      /\ helper' = [helper EXCEPT ![h].pc = "bound"]
      /\ UNCHANGED <<slots, queue, broker, crossed, used, ended, mail, opened, pending, claims, request, table>>
  BY DEF Bound, Answered, Goes, At
<1>2. /\ helper'[h].pc = "bound" /\ helper'[h].slot = helper[h].slot /\ helper'[h].got = helper[h].got
      /\ Only(h)
  BY <1>1, HelperFacts DEF Helped, HelperT, Only
<1>3. answer'[h] = "none" /\ \A b \in Binders \ {h} : answer'[b] = answer[b]
  BY <1>1, HelperFacts DEF Helped
<1>4. HelperFine(h)'
  BY <1>1, <1>2, <1>3 DEF Helped, JobsInv, BoundHelpers, HelperFine, At, Slot, Working
<1>5. \A g \in Helpers \ {h} : HelperFine(g)'
  BY <1>1, <1>2, <1>3, FineStays, HelperFacts DEF Helped
<1>6. BoundHelpers'
  BY <1>1, <1>2, <1>4, <1>5, TableFits DEF BoundHelpers, At, Slot
<1>7. JobsHeld' /\ Signals' /\ OneSignal'
  BY <1>1, <1>2, AsideJobs DEF At, Working, Slot
<1>8. Uncrossed'
  BY <1>1 DEF Helped, JobsInv, Uncrossed
<1> QED BY <1>6, <1>7, <1>8 DEF JobsInv

\* a helper takes its result and gives its slot back
LEMMA ResultJobs ==
  ASSUME Helped, NEW h \in Helpers, j_result(h), UNCHANGED uses
  PROVE  JobsInv'
<1>1. PICK s : s = helper[h].slot
  OBVIOUS
<1>2. /\ helper[h].pc = "take" /\ ended' = ended \union {h}
      /\ slots' = [slots EXCEPT ![s] = [used |-> FALSE, result |-> Nothing]]
      /\ helper' = [helper EXCEPT ![h].pc = "done",
                      ![h].got = IF helper[h].got = "refused" THEN helper[h].got ELSE slots[s].result]
      /\ UNCHANGED <<queue, broker, crossed, opened, pending, claims, request, answer, table, mail>>
  BY <1>1 DEF j_result, At
<1>3. PICK t : /\ helper' = [helper EXCEPT ![h].pc = "done", ![h].got = t]
               /\ h \notin crossed => t \in {h, "refused"}
  <2>1. h \notin crossed => helper[h].got = "refused" \/ slots[s].result = h
    BY <1>1, <1>2 DEF Helped, JobsInv, BoundHelpers, HelperFine, At, Slot
  <2> QED BY <1>2, <2>1
<1>4. /\ helper'[h].pc = "done" /\ helper'[h].slot = helper[h].slot /\ helper'[h].got = t
      /\ Only(h)
  BY <1>3, HelperFacts DEF Helped, HelperT, Only
<1>5. \A g \in Helpers \ {h} : Working(g) => slots'[Slot(g)] = slots[Slot(g)]
  <2>1. \A g \in Helpers \ {h} : Working(g) => Slot(g) # s /\ Slot(g) \in Sources
    BY <1>1, <1>2, HelperFacts DEF Helped, Working, Slot
  <2> QED BY <2>1, <1>2, HelperFacts DEF Helped
<1>6. HelperFine(h)'
  <2>1. answer[h] = "none"
    BY <1>2 DEF Helped, JobsInv, BoundHelpers, HelperFine, At
  <2> QED BY <2>1, <1>2, <1>3, <1>4 DEF HelperFine, At, Slot, Working
<1>7. \A g \in Helpers \ {h} : HelperFine(g)'
  BY <1>2, <1>4, <1>5, FineStays
<1>8. BoundHelpers'
  BY <1>2, <1>4, <1>6, <1>7, TableFits DEF BoundHelpers, At, Slot
<1>9. JobsHeld' /\ Signals' /\ OneSignal'
  BY <1>2, <1>4, <1>5, AsideJobs DEF At, Working
<1>10. Uncrossed'
  BY <1>2 DEF Helped, JobsInv, Uncrossed
<1> QED BY <1>8, <1>9, <1>10 DEF JobsInv

\* a helper submits its job, or is refused
LEMMA SubmitJobs ==
  ASSUME Helped, NEW h \in Helpers, fpr_job_submit(h), UNCHANGED uses
  PROVE  JobsInv'
<1>1. helper[h].pc = "bound" /\ UNCHANGED <<slots, broker, crossed, irqVars>>
  BY DEF fpr_job_submit, At
<1>2. UNCHANGED <<used, opened, pending, claims, request, answer, table, mail, ended>>
  BY <1>1 DEF irqVars
<1>3. HelperFine(h) /\ answer[h] = "none" /\ table[Slot(h)] = h /\ h \notin ended
  BY <1>1 DEF Helped, JobsInv, BoundHelpers, HelperFine, At
<1>4. Uncrossed'
  BY <1>1 DEF Helped, JobsInv, Uncrossed
<1>5. CASE helper' = [helper EXCEPT ![h].pc = "take", ![h].got = "refused"] /\ UNCHANGED queue
  <2>1. /\ helper'[h].pc = "take" /\ helper'[h].slot = helper[h].slot /\ helper'[h].got = "refused"
        /\ Only(h)
    BY <1>5, HelperFacts DEF Helped, HelperT, Only
  <2>2. HelperFine(h)'
    BY <2>1, <1>1, <1>2, <1>3 DEF HelperFine, At, Slot, Working
  <2>3. \A g \in Helpers \ {h} : HelperFine(g)'
    BY <1>1, <1>2, <2>1, FineStays
  <2>4. BoundHelpers'
    BY <1>2, <2>1, <2>2, <2>3, TableFits DEF BoundHelpers, At, Slot
  <2>5. JobsHeld' /\ Signals' /\ OneSignal'
    BY <1>1, <1>2, <1>5, <2>1, AsideJobs DEF At, Working, Slot
  <2> QED BY <1>4, <2>4, <2>5 DEF JobsInv
<1>6. CASE queue' = Append(queue, [slot |-> helper[h].slot, by |-> h]) /\ Goes(h, "waiting")
  <2>1. /\ helper'[h].pc = "waiting" /\ helper'[h].slot = helper[h].slot /\ helper'[h].got = helper[h].got
        /\ Only(h)
    BY <1>6, HelperFacts DEF Helped, HelperT, Only, Goes
  <2>2. HelperFine(h)'
    BY <2>1, <1>1, <1>2, <1>3 DEF HelperFine, At, Slot, Working
  <2>3. \A g \in Helpers \ {h} : HelperFine(g)'
    BY <1>1, <1>2, <2>1, FineStays
  <2>4. BoundHelpers'
    BY <1>2, <2>1, <2>2, <2>3, TableFits DEF BoundHelpers, At, Slot
  <2>5. PICK q : q = [slot |-> helper[h].slot, by |-> h]
    OBVIOUS
  <2>6. q.slot = Slot(h) /\ q.by = h /\ queue' = Append(queue, q)
    BY <1>6, <2>5 DEF Slot
  <2>7. \A i \in DOMAIN queue' : \/ i \in DOMAIN queue /\ queue'[i] = queue[i]
                                 \/ i = Len(queue) + 1 /\ queue'[i] = q
    BY <2>6, HelperFacts DEF Helped
  <2>8. \A g \in Helpers : (Working(g)' <=> Working(g)) /\ Slot(g)' = Slot(g)
    BY <1>1, <2>1 DEF Working, Slot, Only
  <2>9. \A s : Lost(s, helper, crossed, uses) => Lost(s, helper', crossed', uses')
    BY <1>1, <2>8, LostStays
  <2>10. \A p \in Job : Posted(p, helper, crossed, uses) =>
           Posted(p, helper', crossed', uses') /\ (p.by = h => h \in crossed)
    <3>1. ASSUME NEW p \in Job, Posted(p, helper, crossed, uses)
          PROVE  Posted(p, helper', crossed', uses') /\ (p.by = h => h \in crossed)
      <4>1. CASE p.by \in crossed
        BY <1>1, <2>9, <3>1, <4>1 DEF Posted
      <4>2. CASE p.by \notin crossed
        <5>1. helper[p.by].pc = "waiting" /\ p.slot = helper[p.by].slot /\ p.by \in Helpers \ {h}
          BY <1>1, <3>1, <4>2 DEF Posted, Job
        <5>2. helper'[p.by] = helper[p.by]
          BY <2>1, <5>1 DEF Only
        <5> QED BY <1>1, <4>2, <5>1, <5>2 DEF Posted
      <4> QED BY <4>1, <4>2
    <3> QED BY <3>1
  <2>11. \A i \in DOMAIN queue : queue[i] \in Job
    BY HelperFacts DEF Helped
  <2>12. Posted(q, helper', crossed', uses')
    <3>1. CASE h \in crossed
      <4>1. Lost(Slot(h), helper, crossed, uses)
        BY <1>1, <3>1, CrossedLost DEF Working
      <4> QED BY <1>1, <2>6, <2>9, <3>1, <4>1 DEF Posted
    <3>2. CASE h \notin crossed
      BY <1>1, <2>1, <2>6, <3>2 DEF Posted, Slot
    <3> QED BY <3>1, <3>2
  <2>13. h \notin crossed => ~InQueue(h) /\ ~InBroker(h)
    <3>1. h \notin crossed => \A i \in DOMAIN queue : queue[i].by # h
      BY <2>10, <2>11 DEF Helped, JobsInv, JobsHeld
    <3>2. h \notin crossed /\ broker.pc # "idle" => broker.job.by # h
      BY <2>10, BrokerHas DEF Helped, JobsInv, JobsHeld
    <3> QED BY <3>1, <3>2 DEF InQueue, InBroker
  <2>14. \A g \in Helpers : Stored(g) => g # h /\ Stored(g)' /\ helper'[g] = helper[g]
    BY <1>1, <2>1 DEF Stored, At, Slot, Only
  <2>15. JobsHeld'
    <3>1. \A i \in DOMAIN queue' : Posted(queue'[i], helper', crossed', uses')
      BY <2>7, <2>10, <2>11, <2>12 DEF Helped, JobsInv, JobsHeld
    <3>2. \A i, j \in DOMAIN queue' : queue'[i].by = queue'[j].by /\ queue'[i].by \notin crossed' => i = j
      BY <1>1, <2>6, <2>7, <2>13 DEF Helped, JobsInv, JobsHeld, InQueue
    <3>3. broker.pc # "idle" => Posted(broker.job, helper', crossed', uses') /\ broker.job.by \in Helpers
      BY <2>10, BrokerHas DEF Helped, JobsInv, JobsHeld
    <3>4. broker.pc = "raise" /\ broker.job.by \notin crossed' => Stored(broker.job.by)'
      BY <1>1, <2>14, <3>3 DEF Helped, JobsInv, JobsHeld
    <3> QED BY <1>1, <3>1, <3>2, <3>3, <3>4 DEF JobsHeld
  <2>16. \A g \in Helpers : /\ Marked(g)' <=> Marked(g)
                            /\ Claimed(g)' <=> Claimed(g)
                            /\ Mailed(g)' <=> Mailed(g)
                            /\ InBroker(g)' <=> InBroker(g)
    BY <1>1, <1>2, <2>8 DEF Marked, Claimed, Mailed, InBroker
  <2>17. h \in Clean => ~Marked(h) /\ ~Claimed(h) /\ ~Mailed(h)
    <3>1. ~Stored(h) /\ Working(h)
      BY <1>1 DEF Stored, At, Working
    <3> QED BY <3>1, SignalIs
  <2>18. Signals'
    <3>1. \A s : Right(s, helper, slots, crossed, uses) => Right(s, helper', slots', crossed', uses')
      <4>1. ASSUME NEW s, Right(s, helper, slots, crossed, uses) PROVE Right(s, helper', slots', crossed', uses')
        <5>1. CASE Lost(s, helper, crossed, uses)
          BY <2>9, <5>1 DEF Right
        <5>2. ASSUME NEW g \in Clean, Slot(g) = s, Stored(g) PROVE Right(s, helper', slots', crossed', uses')
          BY <1>1, <2>14, <5>2 DEF Right, Clean, Stored, At, Slot
        <5> QED BY <4>1, <5>1, <5>2 DEF Right, Clean, Stored, At, Slot
      <4> QED BY <4>1
    <3>2. \A g \in Clean : At(g, "waiting")' => \A i, j \in DOMAIN claims : claims[i] = Slot(g) /\ claims[j] = Slot(g) => i = j
      <4>1. ASSUME NEW g \in Clean, At(g, "waiting")'
            PROVE  \A i, j \in DOMAIN claims : claims[i] = Slot(g) /\ claims[j] = Slot(g) => i = j
        <5>1. CASE g = h
          BY <5>1, <2>17 DEF Claimed
        <5>2. CASE g # h
          <6>1. At(g, "waiting")
            BY <2>1, <4>1, <5>2 DEF At, Only, Clean
          <6> QED BY <6>1 DEF Helped, JobsInv, Signals
        <5> QED BY <5>1, <5>2
      <4> QED BY <4>1
    <3> QED BY <1>1, <1>2, <2>8, <2>14, <3>1, <3>2 DEF Helped, JobsInv, Signals, Mailed, Clean
  <2>19. \A g \in Helpers \ {h} : /\ InQueue(g)' => InQueue(g)
                                  /\ At(g, "waiting")' <=> At(g, "waiting")
    BY <2>1, <2>6, <2>7 DEF InQueue, At, Only
  <2>20. OneSignal'
    BY <1>1, <2>13, <2>16, <2>17, <2>19 DEF Helped, JobsInv, OneSignal, Clean
  <2> QED BY <1>4, <2>4, <2>15, <2>18, <2>20 DEF JobsInv
<1> QED BY <1>5, <1>6 DEF fpr_job_submit

\* a helper takes its interrupt
LEMMA InterruptedJobs ==
  ASSUME Helped, NEW h \in Helpers, Interrupted(h), UNCHANGED uses
  PROVE  JobsInv'
<1>1. /\ helper[h].pc = "waiting" /\ mail[h] # <<>> /\ mail' = [mail EXCEPT ![h] = Tail(mail[h])]
      /\ helper' = [helper EXCEPT ![h].pc = "take"]
      /\ UNCHANGED <<slots, queue, broker, crossed, used, opened, pending, claims, request, answer, table, ended>>
  BY DEF Interrupted, At, TakeDelivery, Delivered, Goes
<1>2. /\ helper'[h].pc = "take" /\ helper'[h].slot = helper[h].slot /\ helper'[h].got = helper[h].got
      /\ Only(h)
  BY <1>1, HelperFacts DEF Helped, HelperT, Only
<1>3. h \in Clean => Mailed(h) /\ Stored(h) /\ Len(mail[h]) = 1
  BY <1>1 DEF Helped, JobsInv, Signals, Mailed
<1>4. h \in Clean => ~InQueue(h) /\ ~InBroker(h) /\ ~Marked(h) /\ ~Claimed(h)
  BY <1>1, <1>3 DEF Helped, JobsInv, OneSignal, At
<1>5. /\ h \in Clean => mail'[h] = <<>>
      /\ \A b \in Binders \ {h} : mail'[b] = mail[b]
  <2>1. mail[h] \in Seq(Sources)
    BY HelperFacts DEF Helped
  <2>2. h \in Clean => Tail(mail[h]) = <<>>
    <3>1. h \in Clean => Tail(mail[h]) \in Seq(Sources) /\ Len(Tail(mail[h])) = 0
      BY <2>1, <1>1, <1>3
    <3>2. \A t \in Seq(Sources) : Len(t) = 0 => t = <<>>
      OBVIOUS
    <3> QED BY <3>1, <3>2
  <2> QED BY <2>2, <1>1, HelperFacts DEF Helped
<1>6. HelperFine(h)'
  BY <1>1, <1>2, <1>3 DEF Helped, JobsInv, BoundHelpers, HelperFine, Stored, At, Slot, Working, Clean
<1>7. \A g \in Helpers \ {h} : HelperFine(g)'
  BY <1>1, <1>2, FineStays
<1>8. BoundHelpers'
  BY <1>1, <1>2, <1>6, <1>7, TableFits DEF BoundHelpers, At, Slot
<1>9. \A s : Lost(s, helper, crossed, uses) => Lost(s, helper', crossed', uses')
  <2>1. \A g \in Helpers : (Working(g)' <=> Working(g)) /\ Slot(g)' = Slot(g)
    BY <1>1, <1>2 DEF Working, Slot, Only
  <2> QED BY <1>1, <2>1, LostStays
<1>10. \A q \in Job : Posted(q, helper, crossed, uses) /\ (q.by = h => h \in crossed) =>
         Posted(q, helper', crossed', uses')
  <2>1. \A q \in Job : q.by # h => helper'[q.by] = helper[q.by]
    BY <1>2 DEF Only, Job
  <2> QED BY <1>1, <1>9, <2>1 DEF Posted, Job
<1>11. JobsHeld'
  <2>1. \A i \in DOMAIN queue : Posted(queue[i], helper', crossed', uses')
    <3>1. \A i \in DOMAIN queue : queue[i] \in Job /\ (queue[i].by = h => h \in crossed)
      BY <1>4, HelperFacts DEF Helped, InQueue, Clean
    <3> QED BY <3>1, <1>10 DEF Helped, JobsInv, JobsHeld
  <2>2. broker.pc # "idle" => Posted(broker.job, helper', crossed', uses')
    <3>1. broker.pc # "idle" => broker.job \in Job /\ (broker.job.by = h => h \in crossed)
      BY <1>4, BrokerHas DEF Helped, InBroker, Clean
    <3> QED BY <3>1, <1>10 DEF Helped, JobsInv, JobsHeld
  <2>3. broker.pc = "raise" /\ broker.job.by \notin crossed => Stored(broker.job.by)'
    <3>1. broker.pc = "raise" /\ broker.job.by \notin crossed =>
            Stored(broker.job.by) /\ broker.job.by \in Helpers \ {h}
      BY <1>4, BrokerHas DEF Helped, JobsInv, JobsHeld, InBroker, Clean
    <3> QED BY <1>1, <1>2, <3>1 DEF Stored, At, Slot, Only
  <2> QED BY <1>1, <2>1, <2>2, <2>3 DEF Helped, JobsInv, JobsHeld
<1>12. \A g \in Helpers \ {h} : /\ Stored(g)' <=> Stored(g)
                                /\ Slot(g)' = Slot(g)
                                /\ InQueue(g)' <=> InQueue(g)
                                /\ InBroker(g)' <=> InBroker(g)
                                /\ Marked(g)' <=> Marked(g)
                                /\ Claimed(g)' <=> Claimed(g)
                                /\ mail'[g] = mail[g]
                                /\ At(g, "waiting")' <=> At(g, "waiting")
  BY <1>1, <1>2, <1>5, HelperFacts
     DEF Helped, Only, Stored, Slot, InQueue, InBroker, Marked, Claimed, At
<1>13. \A s : Right(s, helper, slots, crossed, uses) /\ (h \in Clean => Slot(h) # s) =>
         Right(s, helper', slots', crossed', uses')
  <2>1. ASSUME NEW s, Right(s, helper, slots, crossed, uses), h \in Clean => Slot(h) # s
        PROVE  Right(s, helper', slots', crossed', uses')
    <3>1. CASE Lost(s, helper, crossed, uses)
      BY <1>9, <3>1 DEF Right
    <3>2. ASSUME NEW g \in Clean, Slot(g) = s, Stored(g) PROVE Right(s, helper', slots', crossed', uses')
      <4>1. g \in Helpers \ {h} /\ helper'[g] = helper[g]
        BY <1>2, <2>1, <3>2 DEF Clean, Only
      <4> QED BY <1>1, <3>2, <4>1 DEF Right, Clean, Stored, At, Slot
    <3> QED BY <2>1, <3>1, <3>2 DEF Right, Clean, Stored, At, Slot
  <2> QED BY <2>1
<1>14. ~At(h, "waiting")'
  BY <1>2 DEF At
<1>15. Signals'
  <2>1. \A s \in pending : Right(s, helper', slots', crossed', uses')
    BY <1>4, <1>13 DEF Helped, JobsInv, Signals, Marked
  <2>2. \A i \in DOMAIN claims : Right(claims[i], helper', slots', crossed', uses')
    BY <1>4, <1>13 DEF Helped, JobsInv, Signals, Claimed
  <2>3. \A g \in Clean : mail'[g] # <<>> => Stored(g)' /\ Len(mail'[g]) = 1
    BY <1>5, <1>12 DEF Helped, JobsInv, Signals, Mailed, Clean
  <2>4. \A g \in Clean : At(g, "waiting")' => At(g, "waiting") /\ Slot(g)' = Slot(g)
    BY <1>12, <1>14 DEF Clean
  <2>5. Clean' = Clean
    BY <1>1 DEF Clean
  <2>6. /\ \A s \in pending' : Right(s, helper', slots', crossed', uses')
        /\ \A i \in DOMAIN claims' : Right(claims'[i], helper', slots', crossed', uses')
    BY <1>1, <2>1, <2>2
  <2>7. \A g \in Clean' : At(g, "waiting")' =>
          \A i, j \in DOMAIN claims' : claims'[i] = Slot(g)' /\ claims'[j] = Slot(g)' => i = j
    BY <1>1, <2>4, <2>5 DEF Helped, JobsInv, Signals
  <2>8. \A g \in Clean' : Mailed(g)' => Stored(g)' /\ Len(mail'[g]) = 1
    BY <2>3, <2>5 DEF Mailed
  <2> QED BY <2>6, <2>7, <2>8 DEF Signals
<1>16. OneSignal'
  BY <1>1, <1>12, <1>14 DEF Helped, JobsInv, OneSignal, Mailed, Clean
<1>17. Uncrossed'
  BY <1>1 DEF Helped, JobsInv, Uncrossed
<1> QED BY <1>8, <1>11, <1>15, <1>16, <1>17 DEF JobsInv

\* the irq hart claims a source, or gives its interrupt up
LEMMA ClaimJobs ==
  ASSUME Helped, NEW s \in Sources, Claim(s), UNCHANGED <<jobVars, uses>>
  PROVE  JobsInv'
<1>1. /\ s \in pending /\ pending' = pending \ {s} /\ (claims' = Append(claims, s) \/ claims' = claims)
      /\ UNCHANGED <<used, opened, request, answer, table, mail, ended, slots, queue, broker, helper, crossed>>
  BY DEF Claim, jobVars
<1>2. BoundHelpers' /\ JobsHeld' /\ Uncrossed'
  BY <1>1 DEF Helped, JobsInv, BoundHelpers, HelperFine, JobsHeld, Stored, At, Slot, Working, Uncrossed
<1>3. \A h \in Helpers : /\ Stored(h)' <=> Stored(h)
                         /\ Slot(h)' = Slot(h)
                         /\ InQueue(h)' <=> InQueue(h)
                         /\ InBroker(h)' <=> InBroker(h)
                         /\ mail'[h] = mail[h]
                         /\ At(h, "waiting")' <=> At(h, "waiting")
  BY <1>1 DEF Stored, Slot, InQueue, InBroker, At
<1>4. \A i \in DOMAIN claims' : \/ i \in DOMAIN claims /\ claims'[i] = claims[i]
                                \/ i = Len(claims) + 1 /\ claims'[i] = s
  <2>1. claims \in Seq(Sources)
    BY HelperFacts DEF Helped
  <2> QED BY <1>1, <2>1
<1>5. \A h \in Clean : At(h, "waiting") /\ Slot(h) = s => Marked(h) /\ ~Claimed(h)
  <2>1. \A h \in Clean : Slot(h) = s => Marked(h)
    BY <1>1 DEF Marked
  <2> QED BY <2>1 DEF Helped, JobsInv, OneSignal
<1>6. Signals'
  <2>1. \A r \in pending' : Right(r, helper', slots', crossed', uses')
    BY <1>1 DEF Helped, JobsInv, Signals
  <2>2. \A i \in DOMAIN claims' : Right(claims'[i], helper', slots', crossed', uses')
    BY <1>1, <1>4 DEF Helped, JobsInv, Signals
  <2>3. ASSUME NEW h \in Clean, At(h, "waiting")
        PROVE  \A i, j \in DOMAIN claims' : claims'[i] = Slot(h) /\ claims'[j] = Slot(h) => i = j
    <3>1. \A i, j \in DOMAIN claims : claims[i] = Slot(h) /\ claims[j] = Slot(h) => i = j
      BY <2>3 DEF Helped, JobsInv, Signals
    <3>2. Slot(h) = s => \A i \in DOMAIN claims : claims[i] # s
      BY <1>5, <2>3 DEF Claimed
    <3> QED BY <1>4, <3>1, <3>2
  <2>4. \A h \in Clean : mail'[h] # <<>> => Stored(h)' /\ Len(mail'[h]) = 1
    BY <1>3 DEF Helped, JobsInv, Signals, Mailed, Clean
  <2> QED BY <1>1, <1>3, <2>1, <2>2, <2>3, <2>4 DEF Signals, Mailed, Clean
<1>7. \A h \in Clean : At(h, "waiting") =>
        /\ Marked(h)' => Marked(h) /\ Slot(h) # s
        /\ Claimed(h)' => Claimed(h) \/ Slot(h) = s
  BY <1>1, <1>3, <1>4 DEF Marked, Claimed, Clean
<1>8. OneSignal'
  BY <1>1, <1>3, <1>5, <1>7 DEF Helped, JobsInv, OneSignal, Mailed, Clean
<1> QED BY <1>2, <1>6, <1>8 DEF JobsInv

\* a step of the router that answers an asker
LEMMA AnswerJobs ==
  ASSUME Helped, UNCHANGED <<pending, claims, mail, jobVars, uses>>, BoundHelpers'
  PROVE  JobsInv'
<1>1. JobsHeld' /\ Signals' /\ Uncrossed'
  BY DEF Helped, JobsInv, JobsHeld, Signals, Stored, At, Slot, Mailed, Clean, Uncrossed, jobVars
<1>2. \A h \in Helpers : /\ InQueue(h)' <=> InQueue(h)
                         /\ InBroker(h)' <=> InBroker(h)
                         /\ Marked(h)' <=> Marked(h)
                         /\ Claimed(h)' <=> Claimed(h)
                         /\ Mailed(h)' <=> Mailed(h)
                         /\ At(h, "waiting")' <=> At(h, "waiting")
  BY DEF InQueue, InBroker, Marked, Claimed, Mailed, Slot, At, jobVars
<1>3. OneSignal'
  BY <1>2 DEF Helped, JobsInv, OneSignal, Clean, jobVars
<1> QED BY <1>1, <1>3 DEF JobsInv

\* the router binds
LEMMA BindJobs ==
  ASSUME Helped, NEW b \in Binders, RouteBind(b), UNCHANGED <<jobVars, uses>>
  PROVE  JobsInv'
<1>1. PICK s \in Sources :
        /\ request[b] = <<"bind", s>> /\ table' = [table EXCEPT ![s] = b]
        /\ request' = [request EXCEPT ![b] = NoRequest] /\ answer' = [answer EXCEPT ![b] = "bound"]
        /\ UNCHANGED <<used, pending, claims, mail, ended>>
  BY DEF RouteBind, Reply
<1>2. UNCHANGED <<slots, queue, broker, helper, crossed>>
  BY DEF jobVars
<1>3. /\ request'[b] = NoRequest /\ answer'[b] = "bound" /\ table'[s] = b
      /\ \A x \in Binders \ {b} : request'[x] = request[x] /\ answer'[x] = answer[x]
      /\ \A t \in Sources \ {s} : table'[t] = table[t]
  BY <1>1, HelperFacts DEF Helped
<1>4. request[b] # NoRequest
  BY <1>1 DEF NoRequest
<1>5. \A h \in Helpers : Working(h) => Slot(h) \in Sources
  BY HelperFacts DEF Helped, Slot
<1>6. CASE b = Waker
  <2>1. s = watcher.irq /\ b \notin Helpers
    <3>1. request[Waker] # <<"unbind", watcher.irq>> /\ waker \in WakerT
      BY <1>1, <1>6 DEF Helped, Routed, WTypes
    <3>2. waker = "binding" /\ request[Waker] = <<"bind", watcher.irq>>
      BY <3>1, <1>4, <1>6 DEF Helped, Routed, RouterInv, WakerBinding, WakerT
    <3> QED BY <3>2, <1>1, <1>6, HelperFacts DEF Helped
  <2>2. \A h \in Helpers : Working(h) => Slot(h) # s
    BY <2>1 DEF Helped, Routed, RouterInv, OneUser, Slot
  <2>3. \A h \in Helpers : HelperFine(h)'
    <3>1. \A h \in Helpers : request'[h] = request[h] /\ answer'[h] = answer[h]
      BY <1>3, <2>1, HelperFacts DEF Helped
    <3>2. \A h \in Helpers : Working(h) => table'[Slot(h)] = table[Slot(h)]
      BY <2>2, <1>3, <1>5
    <3>3. ASSUME NEW h \in Helpers PROVE HelperFine(h)'
      <4>1. HelperFine(h)
        BY DEF Helped, JobsInv, BoundHelpers
      <4>2. CASE Working(h)
        BY <4>1, <4>2, <3>1, <3>2, <1>1, <1>2 DEF HelperFine, At, Slot, Working
      <4>3. CASE ~Working(h)
        BY <4>1, <4>3, <3>1, <1>1, <1>2 DEF HelperFine, At, Slot, Working
      <4> QED BY <4>2, <4>3
    <3> QED BY <3>3
  <2>4. BoundHelpers'
    BY <2>1, <2>3, <1>2, <1>3 DEF Helped, JobsInv, BoundHelpers, At, Slot
  <2> QED BY <1>1, <2>4, AnswerJobs
<1>7. CASE b # Waker
  <2>1. b \in Helpers /\ At(b, "binding") /\ s = Slot(b)
    <3>1. b \in Helpers /\ At(b, "binding") /\ request[b] = <<"bind", helper[b].slot>>
      BY <1>4, <1>7 DEF Helped, Routed, RouterInv, Askers
    <3> QED BY <1>1, <3>1 DEF Slot
  <2>2. \A h \in Helpers \ {b} : Working(h) => Slot(h) # s
    BY <2>1, HelperFacts DEF Helped, Slot, Working, At
  <2>3. HelperFine(b)'
    BY <2>1, <1>1, <1>2, <1>3 DEF Helped, JobsInv, BoundHelpers, HelperFine, At, Slot, Working
  <2>4. ASSUME NEW h \in Helpers \ {b} PROVE HelperFine(h)'
    <3>1. HelperFine(h) /\ request'[h] = request[h] /\ answer'[h] = answer[h]
      BY <1>3, HelperFacts DEF Helped, JobsInv, BoundHelpers
    <3>2. CASE Working(h)
      <4>1. table'[Slot(h)] = table[Slot(h)]
        BY <2>2, <3>2, <1>3, <1>5
      <4> QED BY <3>1, <3>2, <4>1, <1>1, <1>2 DEF HelperFine, At, Slot, Working
    <3>3. CASE ~Working(h)
      BY <3>1, <3>3, <1>1, <1>2 DEF HelperFine, At, Slot, Working
    <3> QED BY <3>2, <3>3
  <2>5. BoundHelpers'
    BY <2>1, <2>3, <2>4, <1>2, <1>3 DEF Helped, JobsInv, BoundHelpers, At, Slot
  <2> QED BY <1>1, <2>5, AnswerJobs
<1> QED BY <1>6, <1>7

\* the router unbinds
LEMMA UnbindJobs ==
  ASSUME Helped, NEW b \in Binders, RouteUnbind(b), UNCHANGED <<jobVars, uses>>
  PROVE  JobsInv'
<1>1. PICK s \in Sources :
        /\ request[b] = <<"unbind", s>>
        /\ request' = [request EXCEPT ![b] = NoRequest]
        /\ \/ /\ table[s] \in {b, NoOne} /\ table' = [table EXCEPT ![s] = NoOne]
              /\ answer' = [answer EXCEPT ![b] = "unbound"]
           \/ /\ table' = table /\ answer' = [answer EXCEPT ![b] = "refused"]
        /\ UNCHANGED <<used, opened, pending, claims, mail, ended>>
  BY DEF RouteUnbind, Reply
<1>2. UNCHANGED <<slots, queue, broker, helper, crossed>>
  BY DEF jobVars
<1>3. b = Waker /\ b \notin Helpers
  BY <1>1, HelperFacts DEF Helped, Routed, RouterInv, Askers, NoRequest
<1>4. \A h \in Helpers : request'[h] = request[h] /\ answer'[h] = answer[h]
  BY <1>1, <1>3, HelperFacts DEF Helped
<1>5. \A t \in Sources : table'[t] = table[t] \/ (table'[t] = NoOne /\ table[t] \notin Helpers)
  BY <1>1, <1>3, HelperFacts, NoOneAssumption DEF Helped
<1>6. ASSUME NEW h \in Helpers PROVE HelperFine(h)'
  <2>1. HelperFine(h) /\ (Working(h) => Slot(h) \in Sources)
    BY HelperFacts DEF Helped, JobsInv, BoundHelpers, Slot
  <2>2. Working(h) /\ table[Slot(h)] = h => table'[Slot(h)] = h
    BY <2>1, <1>5
  <2> QED BY <2>1, <2>2, <1>1, <1>2, <1>4 DEF HelperFine, At, Slot, Working
<1>7. BoundHelpers'
  <2>1. \A t \in Sources : table'[t] \in Helpers => table'[t] = table[t]
    BY <1>5, HelperFacts, NoOneAssumption DEF Helped
  <2> QED BY <2>1, <1>2, <1>6 DEF Helped, JobsInv, BoundHelpers, At, Slot
<1> QED BY <1>1, <1>7, AnswerJobs

\* the router hands a claim to the helper bound to it, or unbinds one that has ended
LEMMA RouteJobs ==
  ASSUME Helped, RouteClaim, UNCHANGED <<jobVars, uses>>
  PROVE  JobsInv'
<1>1. claims # <<>> /\ claims' = Tail(claims) /\ UNCHANGED <<used, opened, pending, request, answer, ended>>
      /\ UNCHANGED <<slots, queue, broker, helper, crossed>>
  BY DEF RouteClaim, jobVars
<1>2. PICK s \in Sources : s = Head(claims) /\ s = claims[1] /\ 1 \in DOMAIN claims
  BY <1>1, HelperFacts DEF Helped
<1>3. PICK o : o = table[s]
  OBVIOUS
<1>4. /\ o \in ended => mail' = mail
      /\ o \in Binders \ ended => mail' = [mail EXCEPT ![o] = Append(mail[o], s)]
      /\ o = NoOne => mail' = mail
      /\ \A t \in Sources : table'[t] = table[t] \/ (t = s /\ o \in ended /\ table'[t] = NoOne)
      /\ o \in Binders \union {NoOne}
  BY <1>2, <1>3, NoOneAssumption, HelperFacts DEF Helped, RouteClaim
<1>5. \A i \in DOMAIN claims' : i \in Nat \ {0} /\ i + 1 \in DOMAIN claims /\ claims'[i] = claims[i + 1]
  BY <1>1, HelperFacts DEF Helped
<1>6. BoundHelpers'
  <2>1. ASSUME NEW h \in Helpers PROVE HelperFine(h)'
    <3>1. HelperFine(h)
      BY DEF Helped, JobsInv, BoundHelpers
    <3>2. (At(h, "binding") \/ helper[h].pc \in {"bound", "waiting"}) /\ table[Slot(h)] = h => table'[Slot(h)] = h
      <4>1. SUFFICES ASSUME At(h, "binding") \/ helper[h].pc \in {"bound", "waiting"}, table[Slot(h)] = h
                     PROVE  table'[Slot(h)] = h
        OBVIOUS
      <4>2. Slot(h) \in Sources
        BY <4>1, HelperFacts DEF Helped, Slot, Working, At
      <4>3. h \notin ended
        BY <3>1, <4>1 DEF HelperFine, At
      <4> QED BY <4>1, <4>2, <4>3, <1>3, <1>4
    <3> QED BY <1>1, <3>1, <3>2 DEF HelperFine, At, Slot, Working
  <2>2. \A t \in Sources : table'[t] \in Helpers => table'[t] = table[t]
    BY <1>4, NoOneAssumption, HelperFacts DEF Helped
  <2> QED BY <1>1, <2>1, <2>2 DEF Helped, JobsInv, BoundHelpers, At, Slot
<1>7. \A h \in Helpers : /\ Stored(h)' <=> Stored(h)
                         /\ Slot(h)' = Slot(h)
                         /\ InQueue(h)' <=> InQueue(h)
                         /\ InBroker(h)' <=> InBroker(h)
                         /\ Marked(h)' <=> Marked(h)
                         /\ At(h, "waiting")' <=> At(h, "waiting")
  BY <1>1 DEF Stored, Slot, InQueue, InBroker, Marked, At
<1>8. \A h \in Helpers : mail'[h] # mail[h] => h = o /\ o \notin ended /\ mail'[h] = Append(mail[h], s)
  BY <1>4, HelperFacts DEF Helped
\* the owner, if its source came clean, is waiting for this signal
<1>9. o \in Clean /\ o \notin ended => Slot(o) = s /\ Stored(o) /\ Claimed(o)
  <2>1. SUFFICES ASSUME o \in Clean, o \notin ended PROVE Slot(o) = s /\ Stored(o) /\ Claimed(o)
    OBVIOUS
  <2>2. HelperFine(o) /\ ~At(o, "off") /\ Slot(o) = s /\ o \in Helpers
    BY <1>2, <1>3, <2>1 DEF Helped, JobsInv, BoundHelpers, Clean
  <2>3. Working(o)
    BY <2>1, <2>2, HelperFacts DEF Helped, HelperFine, HelperT, Working, At
  <2>4. Right(s, helper, slots, crossed, uses)
    BY <1>2 DEF Helped, JobsInv, Signals
  <2>5. Stored(o)
    BY <2>1, <2>2, <2>3, <2>4, RightIs DEF Helped
  <2> QED BY <1>2, <2>2, <2>5 DEF Claimed
<1>10. o \in Clean /\ o \notin ended => ~Mailed(o) /\ ~InQueue(o) /\ ~InBroker(o) /\ ~Marked(o)
  BY <1>9 DEF Helped, JobsInv, OneSignal, Stored
<1>11. \A h \in Clean : At(h, "waiting") =>
         /\ Claimed(h)' => Claimed(h)
         /\ h = o /\ o \notin ended => ~Claimed(h)'
  <2>1. ASSUME NEW h \in Clean, At(h, "waiting"), h = o, o \notin ended PROVE ~Claimed(h)'
    <3>1. \A i \in DOMAIN claims : claims[i] = Slot(h) => i = 1
      BY <1>2, <1>9, <2>1 DEF Helped, JobsInv, Signals
    <3>2. \A i \in DOMAIN claims' : i + 1 # 1
      BY <1>5
    <3> QED BY <1>5, <1>7, <2>1, <3>1, <3>2 DEF Claimed, Clean
  <2>2. \A h \in Clean : Claimed(h)' => Claimed(h)
    BY <1>5, <1>7 DEF Claimed, Clean
  <2> QED BY <2>1, <2>2
<1>12. Signals'
  <2>1. \A r \in pending' : Right(r, helper', slots', crossed', uses')
    BY <1>1 DEF Helped, JobsInv, Signals
  <2>2. \A i \in DOMAIN claims' : Right(claims'[i], helper', slots', crossed', uses')
    BY <1>1, <1>5 DEF Helped, JobsInv, Signals
  <2>3. ASSUME NEW h \in Clean, At(h, "waiting"), NEW i \in DOMAIN claims', NEW j \in DOMAIN claims',
               claims'[i] = Slot(h), claims'[j] = Slot(h)
        PROVE  i = j
    <3>1. i + 1 = j + 1
      BY <1>5, <2>3 DEF Helped, JobsInv, Signals
    <3> QED BY <3>1, <1>5
  <2>4. \A h \in Clean : mail'[h] # <<>> => Stored(h)' /\ Len(mail'[h]) = 1
    <3>1. ASSUME NEW h \in Clean, mail'[h] # mail[h] PROVE Stored(h)' /\ Len(mail'[h]) = 1
      <4>1. h = o /\ o \notin ended /\ mail'[h] = Append(mail[h], s)
        BY <1>8, <3>1 DEF Clean
      <4>2. mail[h] = <<>> /\ Stored(h)
        BY <1>9, <1>10, <3>1, <4>1 DEF Mailed
      <4>3. Len(Append(<<>>, s)) = 1
        OBVIOUS
      <4> QED BY <1>7, <4>1, <4>2, <4>3 DEF Clean
    <3> QED BY <1>7, <3>1 DEF Helped, JobsInv, Signals, Mailed, Clean
  <2> QED BY <1>1, <1>7, <2>1, <2>2, <2>3, <2>4 DEF Signals, Mailed, Clean
<1>13. OneSignal'
  <2>1. ASSUME NEW h \in Clean, At(h, "waiting")
        PROVE  /\ InQueue(h) => ~InBroker(h) /\ ~Marked(h) /\ ~Claimed(h)' /\ ~Mailed(h)'
               /\ InBroker(h) => ~Marked(h) /\ ~Claimed(h)' /\ ~Mailed(h)'
               /\ Marked(h) => ~Claimed(h)' /\ ~Mailed(h)'
               /\ Claimed(h)' => ~Mailed(h)'
    <3>1. CASE mail'[h] # mail[h]
      BY <1>8, <1>10, <1>11, <2>1, <3>1 DEF Clean
    <3>2. CASE mail'[h] = mail[h]
      BY <1>11, <2>1, <3>2 DEF Helped, JobsInv, OneSignal, Mailed
    <3> QED BY <3>1, <3>2
  <2> QED BY <1>1, <1>7, <2>1 DEF OneSignal, Clean
<1>14. JobsHeld' /\ Uncrossed'
  BY <1>1 DEF Helped, JobsInv, JobsHeld, Stored, At, Slot, Uncrossed
<1> QED BY <1>6, <1>12, <1>13, <1>14 DEF JobsInv

\* the watcher asks the router for its waker alone, and raises no source but its own
LEMMA WatchLeaves ==
  ASSUME Routed, WatchNext
  PROVE  /\ UNCHANGED <<claims, table>>
         /\ \A h \in Helpers : /\ request'[h] = request[h] /\ answer'[h] = answer[h] /\ mail'[h] = mail[h]
                               /\ h \in ended' <=> h \in ended
         /\ UNCHANGED pending \/ (watcher.irq \in Sources /\ pending' = pending \union {watcher.irq})
<1> USE HelperFacts, HostAssumption
<1>1. CASE ThreadStep
  <2>1. CASE ThreadRaises
    <3>1. watcher.irq \in Sources
      BY <2>1 DEF ThreadRaises, Routed, RouterInv, WTypes, WatcherT, WatcherShape
    <3> QED BY <2>1, <3>1 DEF ThreadRaises, Raise
  <2>2. CASE ThreadPolls \/ PollReturns \/ ThreadPublishes \/ ThreadStops
    BY <2>2 DEF ThreadPolls, PollReturns, ThreadPublishes, ThreadStops, irqVars
  <2> QED BY <1>1, <2>1, <2>2 DEF ThreadStep
<1>2. CASE WakerStep
  <2>1. CASE WakerBound
    BY <2>1 DEF WakerBound, Answered
  <2>2. CASE WakerWakes
    BY <2>2 DEF WakerWakes, TakeDelivery
  <2>3. CASE WakerUnbinds
    BY <2>3 DEF WakerUnbinds, Ask
  <2>4. CASE WakerEnds
    BY <2>4 DEF WakerEnds
  <2> QED BY <1>2, <2>1, <2>2, <2>3, <2>4 DEF WakerStep
<1>3. CASE ServiceStep
  <2>1. CASE ServiceStart
    BY <2>1 DEF ServiceStart, Ask, irqVars
  <2>2. CASE ServiceStep /\ ~ServiceStart
    BY <2>2 DEF ServiceStep, ServiceReady, TakeWoke, Arm, ArmFails, FallbackPass, TakeStop, RetireWoken,
       h_watch_close, ServiceEnds, TakeRegister, TakeRetire, Refuse, irqVars
  <2> QED BY <1>3, <2>1, <2>2
<1>4. CASE (\E c \in Clients : Register(c) \/ Cancel(c) \/ ClientStep(c)) \/ Stop \/ Tick
           \/ \E f \in Fds : Arrive(f) \/ Consume(f)
  BY <1>4 DEF Register, Cancel, ClientStep, TakeNote, ServiceDead, Arrive, Consume, Stop, Tick, irqVars
<1> QED BY <1>1, <1>2, <1>3, <1>4 DEF WatchNext

\* a step of the watcher: its source is no helper's while it can raise it
LEMMA WatchJobs ==
  ASSUME Helped, "watch" \in uses, WatchNext, UNCHANGED <<jobVars, uses>>
  PROVE  JobsInv'
<1>1. /\ UNCHANGED <<claims, table, slots, queue, broker, helper, crossed>>
      /\ \A h \in Helpers : /\ request'[h] = request[h] /\ answer'[h] = answer[h] /\ mail'[h] = mail[h]
                            /\ h \in ended' <=> h \in ended
      /\ UNCHANGED pending \/ (watcher.irq \in Sources /\ pending' = pending \union {watcher.irq})
  BY WatchLeaves DEF Helped, jobVars
<1>2. \A h \in Helpers : Working(h) => Slot(h) # watcher.irq
  BY DEF Helped, Routed, RouterInv, OneUser, Slot
<1>3. \A h \in Helpers : HelperFine(h)'
  <2>1. ASSUME NEW h \in Helpers PROVE HelperFine(h)'
    <3>1. HelperFine(h)
      BY DEF Helped, JobsInv, BoundHelpers
    <3> QED BY <1>1, <3>1 DEF HelperFine, At, Slot, Working
  <2> QED BY <2>1
<1>4. BoundHelpers' /\ JobsHeld' /\ Uncrossed'
  BY <1>1, <1>3 DEF Helped, JobsInv, BoundHelpers, JobsHeld, Stored, At, Slot, Uncrossed
<1>5. \A h \in Helpers : /\ Stored(h)' <=> Stored(h)
                         /\ InQueue(h)' <=> InQueue(h)
                         /\ InBroker(h)' <=> InBroker(h)
                         /\ Claimed(h)' <=> Claimed(h)
                         /\ Mailed(h)' <=> Mailed(h)
                         /\ At(h, "waiting")' <=> At(h, "waiting")
                         /\ Working(h) => (Marked(h)' <=> Marked(h))
  BY <1>1, <1>2 DEF Stored, InQueue, InBroker, Claimed, Mailed, Marked, At, Slot
<1>6. Signals'
  <2>1. Right(watcher.irq, helper, slots, crossed, uses)
    BY <1>2 DEF Right, Lost, Working, Slot
  <2> QED BY <1>1, <1>5, <2>1 DEF Helped, JobsInv, Signals, Clean, At, Slot, Mailed
<1>7. \A h \in Helpers : At(h, "waiting") => Working(h)
  BY DEF At, Working
<1>8. OneSignal'
  BY <1>1, <1>5, <1>7 DEF Helped, JobsInv, OneSignal, Clean
<1> QED BY <1>4, <1>6, <1>8 DEF JobsInv

\* every step keeps the jobs right
LEMMA JobsKept ==
  ASSUME Helped, [Next]_vars
  PROVE  JobsInv'
<1>1. uses' = uses
  BY DEF Next, WatchStep, JobsStep, IrqStep, ResolverStep, vars
<1>2. CASE WatchStep
  BY <1>1, <1>2, WatchJobs DEF WatchStep
<1>3. CASE JobsStep
  BY <1>1, <1>3, BrokerTakesJobs, BrokerStoresJobs, BrokerRaisesJobs, NewJobs, BoundJobs, SubmitJobs,
     InterruptedJobs, ResultJobs DEF JobsStep, JobsNext, BrokerStep, HelperStep
<1>4. CASE IrqStep
  BY <1>1, <1>4, ClaimJobs, BindJobs, UnbindJobs, RouteJobs DEF IrqStep, IrqNext
<1>5. CASE ResolverStep \/ UNCHANGED vars
  <2>1. UNCHANGED <<irqVars, jobVars>>
    BY <1>5 DEF ResolverStep, vars
  <2>2. BoundHelpers'
    BY <2>1 DEF Helped, JobsInv, BoundHelpers, HelperFine, At, Slot, Working, irqVars, jobVars
  <2> QED BY <1>1, <2>1, <2>2, AnswerJobs DEF irqVars
<1> QED BY <1>2, <1>3, <1>4, <1>5 DEF Next

\* they are right at the start
LEMMA JobsStart == Init => JobsInv
<1> SUFFICES ASSUME Init PROVE JobsInv
  OBVIOUS
<1>1. /\ \A h \in Helpers : helper[h] = [pc |-> "off", slot |-> 0, got |-> Nothing] /\ answer[h] = "none"
                            /\ request[h] = NoRequest /\ mail[h] = <<>>
      /\ queue = <<>> /\ claims = <<>> /\ pending = {} /\ ended = {} /\ broker.pc = "idle" /\ crossed = {}
      /\ \A s \in Sources : table[s] \notin Helpers
  BY JobsAssumption, NoOneAssumption DEF Init, IrqInit, JobsInit
<1>2. BoundHelpers
  BY <1>1 DEF BoundHelpers, HelperFine, At, Slot, Working
<1>3. JobsHeld /\ Signals /\ OneSignal /\ Uncrossed
  BY <1>1 DEF JobsHeld, Signals, OneSignal, Uncrossed, Mailed, At, Clean
<1> QED BY <1>2, <1>3 DEF JobsInv

\* from which each job is done as promised
LEMMA JobsDone ==
  ASSUME Helped
  PROVE  JobDone
<1>1. \A h \in Helpers \ crossed : At(h, "done") => helper[h].got \in {h, "refused"}
  BY DEF Helped, JobsInv, BoundHelpers, HelperFine
<1>2. broker.pc # "idle" => broker.job.by \in Helpers /\ Posted(broker.job, helper, crossed, uses)
  BY BrokerHas DEF Helped, JobsInv, JobsHeld
<1>3. ASSUME broker.pc = "run", broker.job.by \notin crossed
      PROVE  slots[broker.job.slot].used /\ helper[broker.job.by].pc = "waiting"
  BY <1>2, <1>3 DEF Helped, JobsInv, BoundHelpers, HelperFine, Posted, Working, Slot
<1>4. ASSUME broker.pc = "run", NEW h \in Helpers \ crossed,
             helper[h].slot = broker.job.slot, h # broker.job.by
      PROVE  helper[h].pc \in {"off", "done"}
  <2>1. ~Working(h)
    <3>1. CASE broker.job.by \in crossed
      BY <1>2, <1>4, <3>1, LostIs DEF Posted, Clean, Slot
    <3>2. CASE broker.job.by \notin crossed
      BY <1>2, <1>4, <3>2, HelperFacts DEF Helped, Posted, Working
    <3> QED BY <3>1, <3>2
  <2> QED BY <2>1, HelperFacts DEF Helped, HelperT, Working
<1> QED BY <1>1, <1>3, <1>4 DEF JobDone

\* A job's interrupt means that its own result is stored, and the broker writes to no slot that
\* another job has, except to a helper whose source was given out with an interrupt or a job of its
\* last user under way, which happens only where a watcher is used; and a lookup's place and its
\* counted blocks are free exactly when the last user has let go.
THEOREM HelpersRight == Spec => []HelpersSound
<1>1. HostRight /\ JobsInv /\ [Next]_vars => (HostRight /\ JobsInv)'
  BY HostKeeps, JobsKept DEF HostRight, Helped
<1>2. Init => HostRight /\ JobsInv
  BY HostStarts, JobsStart
<1>3. HostRight /\ JobsInv => HelpersSound
  BY JobsDone, RInvIs, WTypesIs
     DEF HostRight, Routed, HelpersSound, Helped, JobsInv, WellCounted, TypeOK, ResolverIInv, ResolverParts
<1> QED BY <1>1, <1>2, <1>3, PTL DEF Spec
=============================================================================
