---- MODULE Host ----
(***************************************************************************)
(* The host threads of a hosted system beside each other: the descriptor   *)
(* watcher and the job broker, which share the interrupt sources and the   *)
(* way to their actors, and the resolver, which shares nothing with them.  *)
(* A program uses some of them; which ones is chosen at the start.         *)
(***************************************************************************)
EXTENDS Watch, Jobs, Resolver

CONSTANTS
    Programs,       \* bound: the sets of host services a program uses
    Apart           \* bound: whether a program that has both a watcher and jobs has a
                    \* poller, which ends before the first job

\* the waker of a watcher is no helper of a job
ASSUME HostAssumption == Waker \notin Helpers /\ Apart \in BOOLEAN

VARIABLE uses           \* the services this program uses

vars == <<irqVars, watchVars, jobVars, resolverVars, uses>>

TypeOK == IrqTypeOK /\ WatchTypeOK /\ JobsTypeOK /\ ResolverTypeOK /\ uses \in Programs

InTurn == Apart /\ {"watch", "jobs"} \subseteq uses

Init ==
    /\ IrqInit /\ WatchInit /\ JobsInit /\ ResolverInit /\ uses \in Programs
    /\ InTurn => ~Readiness

WatchStep == "watch" \in uses /\ WatchNext /\ UNCHANGED <<jobVars, resolverVars, uses>>
JobsStep ==
    /\ "jobs" \in uses /\ JobsNext
    /\ InTurn => svc.mode = "end"
    /\ UNCHANGED <<watchVars, resolverVars, uses>>
IrqStep == IrqNext /\ UNCHANGED <<watchVars, jobVars, resolverVars, uses>>
ResolverStep == "dns" \in uses /\ ResolverNext /\ UNCHANGED <<irqVars, watchVars, jobVars, uses>>

Next == WatchStep \/ JobsStep \/ IrqStep \/ ResolverStep

\* Nobody has to ask, to cancel, to stop, to abandon a lookup or to die, and no
\* data has to arrive; the rest goes on as long as any of it can: host threads are
\* scheduled by the host and actors by the scheduler, receive rotates over a
\* mailbox's channels, time passes and a lookup returns.
WatchProgress ==
    \/ ThreadStep \/ WakerStep \/ ServiceStep
    \/ \E c \in Clients : ClientStep(c)
JobsProgress == BrokerStep \/ \E h \in Helpers : HelperStep(h)
ResolverProgress ==
    \/ \E j \in Jobnames : resolve_worker(j)
    \/ \E a \in Actors : ActorStep(a)

\* the clock is on its own: a descriptor that is ready again in every gap between
\* the readiness service's take and its arm keeps the service busy for ever
Fairness ==
    /\ WF_vars((WatchProgress /\ UNCHANGED <<jobVars, resolverVars, uses>>) \/ IrqStep)
    /\ WF_vars(Tick /\ UNCHANGED <<jobVars, resolverVars, uses>>)
    /\ WF_vars((JobsProgress /\ UNCHANGED <<watchVars, resolverVars, uses>>) \/ IrqStep)
    /\ WF_vars(ResolverProgress /\ UNCHANGED <<irqVars, watchVars, jobVars, uses>>)

Spec == Init /\ [][Next]_vars /\ Fairness

----------------------------------------------------------------------------
(* Properties                                                              *)

\* Who waits hears of it: a wait whose descriptor has something to read, or whose
\* deadline comes, ends, whatever was armed, replaced, cancelled or stopped.
Heard ==
    \A c \in Clients :
        client[c].pc # "idle" /\ (Readiness \/ FdOf(c) \in data) ~> client[c].pc = "idle"

\* A service told to stop ends, and its source returns to the pool.
Stops == stop = "sent" ~> svc.mode = "end" /\ ~Watched

\* Submitted jobs are answered, and lookups give their places back.
JobsAnswered == (\E h \in Helpers : At(h, "waiting")) ~> (\A h \in Helpers : ~At(h, "waiting"))
PlacesReturn == InFlight # {} ~> InFlight = {}

\* Whatever a program waits for on the host comes: a descriptor, a stop, a job, a
\* lookup's place; as long as no interrupt is given up for want of memory.
EverythingComes == [](dropped = {}) => Heard /\ Stops /\ JobsAnswered /\ PlacesReturn

\* The state is well typed, and every block and place is counted to the last user.
WellCounted == TypeOK /\ CountsExact

\* The watcher forgets no wait, unless its source's last interrupt was given up;
\* the readiness service completes none by another set's readiness (the poller
\* may); and the source goes back only when nothing can raise it any more.
WatchSound == NoneForgotten /\ Fresh /\ CleanStop

\* A source a job is given has something of its last user under way only where that
\* was a watcher, or a job that such an interrupt ended early.
Uncrossed == "watch" \notin uses => crossed = {}

\* A job's interrupt means its result is stored, except to a job whose source a
\* closed watcher gave back with an interrupt still under way (crossed); and a
\* lookup's place and its counted blocks are free exactly when the last user has
\* let go.
HelpersSound == JobDone /\ Uncrossed /\ WellCounted
====
