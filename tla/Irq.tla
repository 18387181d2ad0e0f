---- MODULE Irq ----
(***************************************************************************)
(* Interrupts of a hosted system: sources handed to host threads and their *)
(* way to an actor (machine/posix/hal.c, irq_drain of runtime/actors.c,    *)
(* the router of core/prelude.fpr).                                        *)
(*                                                                         *)
(* A host thread raises a source from outside the harts; the irq hart      *)
(* claims it and posts it to the one router actor; the router hands it to  *)
(* the actor bound to the source.  Actors bind and unbind themselves by    *)
(* asking the router.  The router takes its mailbox's channels (the claims *)
(* and one per asking actor) in an order receive's rotation decides, so    *)
(* any of them may be next.                                                *)
(***************************************************************************)
EXTENDS Naturals, Sequences, FiniteSetsExt

CONSTANTS
    Sources,        \* the interrupt source space, 1 .. FPR_HOST_IRQ_MAX - 1
    Binders,        \* actors that bind themselves to a source
    NoOne           \* no actor

ASSUME SourcesAssumption == Sources \subseteq Nat \ {0} /\ IsFiniteSet(Sources)
ASSUME NoOneAssumption == NoOne \notin Binders

VARIABLES
    used,           \* irq_host_used: sources some watcher or job holds
    opened,         \* irq_open_list: sources the irq hart scans, never removed
    pending,        \* irq_pending
    claims,         \* the router's channel from the irq hart
    request,        \* what each binder has asked of the router, or NoRequest
    answer,         \* the router's reply to each binder, or "none"
    table,          \* the router's table: the actor bound to each source
    mail,           \* per binder: the sources delivered to it
    ended,          \* binders that have returned
    dropped         \* history: sources whose last raise the irq hart gave up

irqVars == <<used, opened, pending, claims, request, answer, table, mail, ended, dropped>>

NoRequest == <<"none", 0>>
Kinds == {"bind", "unbind"}
Answers == {"none", "bound", "unbound", "refused"}

IrqTypeOK ==
    /\ used \subseteq Sources
    /\ opened \subseteq Sources
    /\ pending \subseteq Sources
    /\ claims \in Seq(Sources)
    /\ request \in [Binders -> {NoRequest} \union (Kinds \X Sources)]
    /\ answer \in [Binders -> Answers]
    /\ table \in [Sources -> Binders \union {NoOne}]
    /\ mail \in [Binders -> Seq(Sources)]
    /\ ended \subseteq Binders /\ dropped \subseteq Sources

IrqInit ==
    /\ used = {} /\ opened = {} /\ pending = {} /\ claims = <<>>
    /\ request = [b \in Binders |-> NoRequest]
    /\ answer = [b \in Binders |-> "none"]
    /\ table = [s \in Sources |-> NoOne]
    /\ mail = [b \in Binders |-> <<>>]
    /\ ended = {} /\ dropped = {}

----------------------------------------------------------------------------
(* The source pool, and raising a source                                   *)

Free == Sources \ used
HostSource == Max(Free)         \* handed out from the top down

HostAlloc(s) == s = HostSource /\ used' = used \union {s}
HostFree(s) == used' = used \ {s}

\* from any host thread: mark the source and ring the irq hart
Raise(s) == pending' = pending \union {s} /\ dropped' = dropped \ {s}

\* One pass of the irq hart over the opened sources: it takes the mark, and the
\* post goes to the router, or is given up when the router's ring cannot grow.
\* Then the claim is acked, which on a hosted system does nothing.
Claim(s) ==
    /\ s \in pending \intersect opened
    /\ pending' = pending \ {s}
    /\ \/ claims' = Append(claims, s) /\ UNCHANGED dropped
       \/ dropped' = dropped \union {s} /\ UNCHANGED claims
    /\ UNCHANGED <<used, opened, request, answer, table, mail, ended>>

----------------------------------------------------------------------------
(* The binder's side: Sys.irqBind and Sys.irqUnbind, up to the wait        *)

Ask(b, kind, s) ==
    /\ request' = [request EXCEPT ![b] = <<kind, s>>]
    /\ UNCHANGED <<opened, pending, claims, answer, table, mail, ended, dropped>>

Answered(b, what) ==
    /\ answer[b] = what
    /\ answer' = [answer EXCEPT ![b] = "none"]
    /\ UNCHANGED <<opened, pending, claims, request, table, mail, ended, dropped>>

Delivered(b) == mail[b] # <<>>
TakeDelivery(b) ==
    /\ Delivered(b)
    /\ mail' = [mail EXCEPT ![b] = Tail(@)]
    /\ UNCHANGED <<opened, pending, claims, request, answer, table, ended, dropped>>

----------------------------------------------------------------------------
(* The router                                                              *)

Reply(b, what) ==
    /\ request' = [request EXCEPT ![b] = NoRequest]
    /\ answer' = [answer EXCEPT ![b] = what]

RouteBind(b) ==
    \E s \in Sources :
        /\ request[b] = <<"bind", s>>
        /\ table' = [table EXCEPT ![s] = b]
        /\ opened' = opened \union {s}
        /\ Reply(b, "bound")
        /\ UNCHANGED <<used, pending, claims, mail, ended, dropped>>

\* Mutant of RouteUnbind: the binding outlives its answer.
unbind_keeps(b) ==
    \E s \in Sources :
        /\ request[b] = <<"unbind", s>>
        /\ Reply(b, "unbound")
        /\ UNCHANGED <<used, opened, pending, claims, table, mail, ended, dropped>>

RouteUnbind(b) ==
    \E s \in Sources :
        /\ request[b] = <<"unbind", s>>
        /\ IF table[s] \in {b, NoOne}
             THEN table' = [table EXCEPT ![s] = NoOne] /\ Reply(b, "unbound")
             ELSE Reply(b, "refused") /\ UNCHANGED table
        /\ UNCHANGED <<used, opened, pending, claims, mail, ended, dropped>>

RouteClaim ==
    /\ claims # <<>>
    /\ claims' = Tail(claims)
    /\ LET s == Head(claims)
           owner == table[s]
       IN \/ owner = NoOne /\ UNCHANGED <<table, mail>>
          \/ owner \in ended /\ table' = [table EXCEPT ![s] = NoOne] /\ UNCHANGED mail
          \/ /\ owner \in Binders \ ended
             /\ mail' = [mail EXCEPT ![owner] = Append(@, s)]
             /\ UNCHANGED table
    /\ UNCHANGED <<used, opened, pending, request, answer, ended, dropped>>

IrqNext ==
    \/ \E s \in Sources : Claim(s)
    \/ \E b \in Binders : RouteBind(b) \/ RouteUnbind(b)
    \/ RouteClaim

\* an interrupt of s is somewhere between its raise and a bound actor
OnItsWay(s) ==
    \/ s \in pending \intersect opened
    \/ \E i \in 1 .. Len(claims) : claims[i] = s
====
