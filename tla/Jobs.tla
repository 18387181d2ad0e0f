---- MODULE Jobs ----
(***************************************************************************)
(* Blocking host calls run by the broker thread: machine/posix/os_job.c as *)
(* std/job.fpr uses it.  A job slot is an interrupt source.  A helper      *)
(* actor allocates the slot, binds itself to it, submits the call, waits   *)
(* for the interrupt and takes the result, which frees the slot.           *)
(***************************************************************************)
EXTENDS Irq

CONSTANTS
    Helpers,        \* the binders that run a job each
    Nothing         \* a slot with no result

ASSUME JobsAssumption == Helpers \subseteq Binders /\ Nothing \notin Helpers \union {"refused"}

VARIABLES
    slots,          \* per source: the job slot's use and result
    queue,          \* the broker's queue
    broker,         \* the broker thread: idle, running a job, or about to raise
    helper,         \* per helper: where it is, its slot, and the text it got
    crossed         \* history: the helpers given a source while an interrupt or a
                    \* job of an earlier user of it was still under way

jobVars == <<slots, queue, broker, helper, crossed>>

Texts == Helpers \union {Nothing, "refused"}
Job == [slot : Sources, by : Helpers]

JobsTypeOK ==
    /\ slots \in [Sources -> [used : BOOLEAN, result : Texts]]
    /\ queue \in Seq(Job)
    /\ broker \in {[pc |-> "idle"]} \union [pc : {"run", "raise"}, job : Job]
    /\ helper \in [Helpers -> [pc : {"off", "binding", "bound", "waiting", "take", "done"},
                               slot : Sources \union {0}, got : Texts]]
    /\ crossed \subseteq Helpers

JobsInit ==
    /\ slots = [s \in Sources |-> [used |-> FALSE, result |-> Nothing]]
    /\ queue = <<>>
    /\ broker = [pc |-> "idle"]
    /\ helper = [h \in Helpers |-> [pc |-> "off", slot |-> 0, got |-> Nothing]]
    /\ crossed = {}

At(h, pc) == helper[h].pc = pc
Goes(h, pc) == helper' = [helper EXCEPT ![h].pc = pc]

\* an earlier user's interrupt of s, or job for it, has not got where it goes
UnderWay(s) ==
    \/ s \in pending \/ \E i \in DOMAIN claims : claims[i] = s
    \/ \E i \in DOMAIN queue : queue[i].slot = s
    \/ broker.pc # "idle" /\ broker.job.slot = s

\* JobHost.new, then Sys.irqBind; with no source left it panics instead
j_new(h) ==
    /\ At(h, "off") /\ Free # {}
    /\ \E s \in Sources :
          /\ HostAlloc(s)
          /\ slots' = [slots EXCEPT ![s] = [used |-> TRUE, result |-> Nothing]]
          /\ opened' = opened \union {s}
          /\ request' = [request EXCEPT ![h] = <<"bind", s>>]
          /\ helper' = [helper EXCEPT ![h].pc = "binding", ![h].slot = s]
          /\ crossed' = IF UnderWay(s) THEN crossed \union {h} ELSE crossed
    /\ UNCHANGED <<queue, broker, pending, claims, answer, table, mail, ended, dropped>>

Bound(h) ==
    /\ At(h, "binding")
    /\ Answered(h, "bound")
    /\ Goes(h, "bound")
    /\ UNCHANGED <<slots, queue, broker, crossed, used, ended>>

\* a ring that grows: no memory is the one refusal, and the helper then frees
\* its slot at once
fpr_job_submit(h) ==
    /\ At(h, "bound")
    /\ \/ /\ queue' = Append(queue, [slot |-> helper[h].slot, by |-> h])
          /\ Goes(h, "waiting")
       \/ helper' = [helper EXCEPT ![h].pc = "take", ![h].got = "refused"] /\ UNCHANGED queue
    /\ UNCHANGED <<slots, broker, crossed, irqVars>>

Interrupted(h) ==
    /\ At(h, "waiting")
    /\ TakeDelivery(h)
    /\ Goes(h, "take")
    /\ UNCHANGED <<slots, queue, broker, crossed, used, ended>>

\* the result is taken and the source given back; the helper then returns
\* without unbinding
j_result(h) ==
    LET s == helper[h].slot
    IN /\ At(h, "take")
       /\ slots' = [slots EXCEPT ![s] = [used |-> FALSE, result |-> Nothing]]
       /\ HostFree(s)
       /\ helper' = [helper EXCEPT ![h].pc = "done",
                                   ![h].got = IF @ = "refused" THEN @ ELSE slots[s].result]
       /\ ended' = ended \union {h}
       /\ UNCHANGED <<queue, broker, crossed, opened, pending, claims, request, answer, table, mail, dropped>>

\* Mutant of BrokerTakes: the interrupt goes out before the result is in.
raise_first ==
    /\ broker.pc = "idle" /\ queue # <<>>
    /\ broker' = [pc |-> "run", job |-> Head(queue)]
    /\ queue' = Tail(queue)
    /\ Raise(Head(queue).slot)
    /\ UNCHANGED <<slots, helper, crossed, used, opened, claims, request, answer, table, mail, ended>>

\* the broker runs one job at a time, in order, outside the lock
BrokerTakes ==
    /\ broker.pc = "idle" /\ queue # <<>>
    /\ broker' = [pc |-> "run", job |-> Head(queue)]
    /\ queue' = Tail(queue)
    /\ UNCHANGED <<slots, helper, crossed, irqVars>>

BrokerStores ==
    /\ broker.pc = "run"
    /\ slots' = [slots EXCEPT ![broker.job.slot].result = broker.job.by]
    /\ broker' = [broker EXCEPT !.pc = "raise"]
    /\ UNCHANGED <<queue, helper, crossed, irqVars>>

BrokerRaises ==
    /\ broker.pc = "raise"
    /\ Raise(broker.job.slot)
    /\ broker' = [pc |-> "idle"]
    /\ UNCHANGED <<slots, queue, helper, crossed, used, opened, claims, request, answer, table, mail, ended>>

BrokerStep == BrokerTakes \/ BrokerStores \/ BrokerRaises
HelperStep(h) == Bound(h) \/ fpr_job_submit(h) \/ Interrupted(h) \/ j_result(h)
JobsNext == BrokerStep \/ \E h \in Helpers : j_new(h) \/ HelperStep(h)

----------------------------------------------------------------------------
(* Properties                                                              *)

\* A helper that the interrupt let through finds its own job's text, and the
\* broker writes to no slot that another job has or nobody has: the source of a
\* job is not given out again before the broker is through with it.  Only a helper
\* whose source came with something of its last user under way may hear the wrong
\* interrupt, read too early and leave the broker a slot that is no longer its own.
JobDone ==
    /\ \A h \in Helpers \ crossed : At(h, "done") => helper[h].got \in {h, "refused"}
    /\ broker.pc = "run" /\ broker.job.by \notin crossed =>
          /\ slots[broker.job.slot].used
          /\ helper[broker.job.by].pc = "waiting"
    /\ broker.pc = "run" => \A h \in Helpers \ crossed :
          helper[h].slot = broker.job.slot /\ h # broker.job.by =>
            helper[h].pc \in {"off", "done"}

\* The first part for every helper: violated.
JobAlwaysDone == \A h \in Helpers : At(h, "done") => helper[h].got \in {h, "refused"}
====
