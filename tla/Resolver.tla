---- MODULE Resolver ----
(***************************************************************************)
(* Native resources owned by actors (machine/posix/os_owned.c) and the     *)
(* DNS resolver built on them (machine/posix/os_resolver.c).               *)
(*                                                                         *)
(* A pool bounds the lookups in flight; a lookup is an uncancellable call  *)
(* in a thread of its own.  The pool and each job are counted by hand:     *)
(* the registry holds one reference, and each thread holds one on its job  *)
(* and one on the pool.  A job's actor may abandon it, die, or close the   *)
(* pool while the thread runs on.                                          *)
(*                                                                         *)
(* Registry ids are never reused, so a resource is named by its id: the    *)
(* pool is Pool and a job is its own name.  A freed block is "freed", and  *)
(* touching it would be a use after free.                                  *)
(***************************************************************************)
EXTENDS Naturals, FiniteSets

CONSTANTS
    Actors, Jobnames, Pool,
    Limit,          \* lookups the pool admits at once
    Nobody          \* no actor

ASSUME ResolverAssumption ==
    /\ Limit \in Nat \ {0} /\ IsFiniteSet(Jobnames)
    /\ Pool \notin Jobnames /\ Nobody \notin Actors \union Jobnames \union {Pool}

VARIABLES
    registry,       \* per id: the actor that owns it, or Nobody
    pool,           \* its block
    job,            \* per job: its block
    worker,         \* per job: its thread
    actor           \* per actor: idle, between the steps of a call, or dead

resolverVars == <<registry, pool, job, worker, actor>>

Ids == Jobnames \union {Pool}
Steps == {"idle", "reserved", "registered", "closing", "dying", "dead"}

ResolverTypeOK ==
    /\ registry \in [Ids -> Actors \union {Nobody}]
    /\ pool \in [life : {"none", "live", "freed"}, refs : 0 .. 1 + Cardinality(Jobnames),
                 active : 0 .. Cardinality(Jobnames), closed : BOOLEAN]
    /\ job \in [Jobnames -> [life : {"none", "live", "freed"}, refs : 0 .. 2, done : BOOLEAN]]
    /\ worker \in [Jobnames -> {"none", "lookup", "pool", "job", "gone"}]
    /\ actor \in [Actors -> [pc : Steps, at : Ids \union {Nobody}]]

ResolverInit ==
    /\ registry = [i \in Ids |-> Nobody]
    /\ pool = [life |-> "none", refs |-> 0, active |-> 0, closed |-> FALSE]
    /\ job = [j \in Jobnames |-> [life |-> "none", refs |-> 0, done |-> FALSE]]
    /\ worker = [j \in Jobnames |-> "none"]
    /\ actor = [a \in Actors |-> [pc |-> "idle", at |-> Nobody]]

----------------------------------------------------------------------------
(* The registry                                                            *)

Owns(a, id) == registry[id] = a
fpr_owned_add(a, id) == registry' = [registry EXCEPT ![id] = a]
Unlink(id) == registry' = [registry EXCEPT ![id] = Nobody]
Doing(a, pc, id) == actor' = [actor EXCEPT ![a] = [pc |-> pc, at |-> id]]
Idle(a) == actor[a].pc = "idle"
Done(a) == Doing(a, "idle", Nobody)

----------------------------------------------------------------------------
(* The counts                                                              *)

\* a reference on the pool is given back, and a finished lookup's place with it
pool_put(p, finished) ==
    [p EXCEPT !.refs = @ - 1, !.active = IF finished THEN @ - 1 ELSE @,
              !.life = IF p.refs = 1 THEN "freed" ELSE @]

pool_destroy(p) == pool_put([p EXCEPT !.closed = TRUE], FALSE)

job_put(j) == [j EXCEPT !.refs = @ - 1, !.life = IF j.refs = 1 THEN "freed" ELSE @]

\* what a resource's destructor does to the blocks
Destroyed(id) ==
    IF id = Pool
      THEN pool' = pool_destroy(pool) /\ UNCHANGED job
      ELSE job' = [job EXCEPT ![id] = job_put(job[id])] /\ UNCHANGED pool

----------------------------------------------------------------------------
(* The actors' calls                                                       *)

dns_pool(a) ==
    /\ Idle(a) /\ pool.life = "none"
    /\ \/ /\ pool' = [life |-> "live", refs |-> 1, active |-> 0, closed |-> FALSE]
          /\ fpr_owned_add(a, Pool)
       \/ /\ pool' = pool_destroy([life |-> "live", refs |-> 1, active |-> 0, closed |-> FALSE])
          /\ UNCHANGED registry
    /\ UNCHANGED <<job, worker, actor>>

\* any actor may use the pool; its place is reserved under the registry's lock
dns_begin(a, j) ==
    /\ Idle(a) /\ registry[Pool] # Nobody /\ job[j].life = "none"
    /\ \A b \in Actors : actor[b].at # j
    /\ ~pool.closed /\ pool.active < Limit
    /\ pool' = [pool EXCEPT !.active = @ + 1, !.refs = @ + 1]
    /\ Doing(a, "reserved", j)
    /\ UNCHANGED <<registry, job, worker>>

\* the job's block and its registration; either may fail
BeginJob(a) ==
    LET j == actor[a].at
        fresh == [life |-> "live", refs |-> 2, done |-> FALSE]
    IN /\ actor[a].pc = "reserved"
       /\ \/ /\ pool' = pool_put(pool, TRUE)
             /\ Done(a)
             /\ UNCHANGED <<registry, job>>
          \/ /\ pool' = pool_put(pool, TRUE)
             /\ job' = [job EXCEPT ![j] = job_put(job_put(fresh))]
             /\ Done(a)
             /\ UNCHANGED registry
          \/ /\ job' = [job EXCEPT ![j] = fresh]
             /\ fpr_owned_add(a, j)
             /\ Doing(a, "registered", j)
             /\ UNCHANGED pool
       /\ UNCHANGED worker

\* the thread starts with the job, or the job is closed and both its
\* references are given back
BeginThread(a) ==
    LET j == actor[a].at
    IN /\ actor[a].pc = "registered"
       /\ \/ /\ worker' = [worker EXCEPT ![j] = "lookup"]
             /\ UNCHANGED <<registry, pool, job>>
          \/ /\ Unlink(j)
             /\ pool' = pool_put(pool, TRUE)
             /\ job' = [job EXCEPT ![j] = job_put(job_put(job[j]))]
             /\ UNCHANGED worker
       /\ Done(a)

\* abandon and close: the owner takes the entry out, then destroys it unlocked
fpr_owned_take(a, id) ==
    /\ Idle(a) /\ Owns(a, id)
    /\ Unlink(id)
    /\ Doing(a, "closing", id)
    /\ UNCHANGED <<pool, job, worker>>

Destroy(a) ==
    /\ actor[a].pc = "closing"
    /\ Destroyed(actor[a].at)
    /\ Done(a)
    /\ UNCHANGED <<registry, worker>>

\* an actor that dies gives up what it owns, one resource after another
owned_death(a) ==
    /\ actor[a].pc \in {"idle", "dying"} /\ actor[a].at = Nobody
    /\ \/ \E id \in Ids : Owns(a, id) /\ Unlink(id) /\ Doing(a, "dying", id)
       \/ /\ \A id \in Ids : ~Owns(a, id)
          /\ Doing(a, "dead", Nobody)
          /\ UNCHANGED registry
    /\ UNCHANGED <<pool, job, worker>>

DeathDestroys(a) ==
    /\ actor[a].pc = "dying" /\ actor[a].at # Nobody
    /\ Destroyed(actor[a].at)
    /\ Doing(a, "dying", Nobody)
    /\ UNCHANGED <<registry, worker>>

----------------------------------------------------------------------------
(* The lookup's thread                                                     *)

\* the answer arrives: published under the job's lock
Resolved(j) ==
    /\ worker[j] = "lookup"
    /\ job' = [job EXCEPT ![j].done = TRUE]
    /\ worker' = [worker EXCEPT ![j] = "pool"]
    /\ UNCHANGED <<registry, pool, actor>>

WorkerPutsPool(j) ==
    /\ worker[j] = "pool"
    /\ pool' = pool_put(pool, TRUE)
    /\ worker' = [worker EXCEPT ![j] = "job"]
    /\ UNCHANGED <<registry, job, actor>>

WorkerPutsJob(j) ==
    /\ worker[j] = "job"
    /\ job' = [job EXCEPT ![j] = job_put(job[j])]
    /\ worker' = [worker EXCEPT ![j] = "gone"]
    /\ UNCHANGED <<registry, pool, actor>>

resolve_worker(j) == Resolved(j) \/ WorkerPutsPool(j) \/ WorkerPutsJob(j)

ActorStep(a) ==
    \/ BeginJob(a) \/ BeginThread(a) \/ Destroy(a) \/ DeathDestroys(a)
    \/ actor[a].pc = "dying" /\ owned_death(a)

ResolverNext ==
    \/ \E a \in Actors :
          \/ dns_pool(a) \/ owned_death(a) \/ ActorStep(a)
          \/ \E j \in Jobnames : dns_begin(a, j)
          \/ \E id \in Ids : fpr_owned_take(a, id)
    \/ \E j \in Jobnames : resolve_worker(j)

----------------------------------------------------------------------------
(* Properties                                                              *)

Destroying(id) == \E a \in Actors : actor[a].pc \in {"closing", "dying"} /\ actor[a].at = id
Registered(id) == registry[id] # Nobody
Number(b) == IF b THEN 1 ELSE 0

\* begun and not yet through with the pool
InFlight == {j \in Jobnames : worker[j] \in {"lookup", "pool"}}
            \union {actor[a].at : a \in {a \in Actors : actor[a].pc \in {"reserved", "registered"}}}

\* The pool's references are the registry's (or that of whoever is taking it
\* down) and one per lookup in flight, which are also its active count, never
\* more than the limit; it is freed when the last goes, whether the lookups
\* outlive the close or not.
PoolExact ==
    pool.life # "none" =>
        /\ pool.active = Cardinality(InFlight)
        /\ pool.active <= Limit
        /\ pool.refs = Cardinality(InFlight) + Number(Registered(Pool) \/ Destroying(Pool))
        /\ pool.life = "freed" <=> pool.refs = 0

\* A job's references are its registration and its thread, so that the thread
\* and the poller never touch a freed block, and the last to go frees it.
JobExact ==
    \A j \in Jobnames :
        job[j].life # "none" =>
            /\ job[j].refs = Number(Registered(j) \/ Destroying(j))
                             + Number(worker[j] \in {"lookup", "pool", "job"}
                                      \/ \E a \in Actors : actor[a] = [pc |-> "registered", at |-> j])
            /\ job[j].life = "freed" <=> job[j].refs = 0

\* Both at once: no block is freed under a thread, and none is left for nobody.
CountsExact == PoolExact /\ JobExact
====
