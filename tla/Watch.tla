---- MODULE Watch ----
(***************************************************************************)
(* Waiting on descriptors in the kernel: the watcher thread of             *)
(* machine/posix/os_watch.c and the actor that serves waits with it        *)
(* (std/poller.fpr with Os.watchArm, std/readiness.fpr with                *)
(* Os.watchArmEvents).                                                     *)
(*                                                                         *)
(* The thread polls the armed set outside any lock, publishes what it      *)
(* found, disarms, and raises its interrupt after unlocking.  An arm in    *)
(* between replaces the set: the thread's snapshot is then out of date     *)
(* (its generation differs) and a byte in the self-pipe ends its poll.     *)
(* The waker actor turns interrupts into Woke messages.                    *)
(*                                                                         *)
(* A registration is named by its client (one outstanding ticket each),    *)
(* masks are left out, and the 64-bit generation is reduced to whether the *)
(* thread's snapshot is of the current one.                                *)
(***************************************************************************)
EXTENDS Irq

CONSTANTS
    Clients, Fds,
    Waker,          \* the binder that serves the watcher
    Services,       \* which service is started: "poller", "readiness" or both in turn
    MaxAsks,        \* bound: waits per client
    MaxArrivals,    \* bound: times data arrives
    Horizon         \* bound: the clock and the deadlines

ASSUME WatchAssumption ==
    /\ Waker \in Binders /\ NoOne \notin Clients /\ Fds # {}
    /\ Services \subseteq {"poller", "readiness"}
    /\ MaxAsks \in Nat /\ MaxArrivals \in Nat /\ Horizon \in Nat \ {0}

VARIABLES
    watcher,        \* the watcher's control block
    thread,         \* its thread
    waker,          \* the waker actor
    svc,            \* the service actor
    box,            \* per client: its messages to the service, in order
    woken,          \* the waker's messages to the service
    stop,           \* the owner's Stop: "no", "sent", "taken"
    client, note,   \* the clients, and the service's answers to each
    since,          \* history: data was there at some time since the client asked
    data, arrivals, \* the descriptors with something to read
    now

watchVars == <<watcher, thread, waker, svc, box, woken, stop, client, note, since, data, arrivals, now>>

Readiness == svc.kind = "readiness"
Watched == watcher.state # "none"

WatchTypeOK ==
    /\ watcher \in [state : {"none", "open", "closing", "stopped"}, irq : Sources \union {0},
                    want : SUBSET Fds, deadline : 0 .. Horizon, armed : BOOLEAN,
                    polling : BOOLEAN, ready : SUBSET Fds, wake : BOOLEAN]
    /\ thread \in [pc : {"gone", "top", "poll", "back", "raise"}, current : BOOLEAN,
                   set : SUBSET Fds, deadline : 0 .. Horizon, got : SUBSET Fds, woke : BOOLEAN]
    /\ waker \in {"off", "binding", "waiting", "unbinding", "done"}
    /\ svc \in [kind : Services,
                mode : {"off", "binding", "recv", "drain", "retiring", "close", "finish", "end"},
                entries : SUBSET Clients, reply : Clients \union {NoOne}, found : BOOLEAN]
    /\ box \in [Clients -> Seq({"register", "retire"})]
    /\ woken \in Seq({"woke", "stopped"})
    /\ stop \in {"no", "sent", "taken"}
    /\ client \in [Clients -> [pc : {"idle", "sent", "ticket", "cancel"}, fd : Fds,
                               deadline : 0 .. Horizon, asks : 0 .. MaxAsks]]
    /\ note \in [Clients -> Seq({"admitted", "refused", "ok", "err", "retired"})]
    /\ since \in [Clients -> BOOLEAN]
    /\ data \subseteq Fds /\ arrivals \in 0 .. MaxArrivals /\ now \in 0 .. Horizon

NoWatcher == [state |-> "none", irq |-> 0, want |-> {}, deadline |-> 0, armed |-> FALSE,
              polling |-> FALSE, ready |-> {}, wake |-> FALSE]
NoThread == [pc |-> "gone", current |-> FALSE, set |-> {}, deadline |-> 0, got |-> {}, woke |-> FALSE]

WatchInit ==
    /\ watcher = NoWatcher /\ thread = NoThread /\ waker = "off"
    /\ svc \in [kind : Services, mode : {"off"}, entries : {{}}, reply : {NoOne}, found : {FALSE}]
    /\ box = [c \in Clients |-> <<>>] /\ woken = <<>> /\ stop = "no"
    /\ client = [c \in Clients |-> [pc |-> "idle", fd |-> CHOOSE f \in Fds : TRUE, deadline |-> 0, asks |-> 0]]
    /\ note = [c \in Clients |-> <<>>] /\ since = [c \in Clients |-> FALSE]
    /\ data = {} /\ arrivals = 0 /\ now = 0

----------------------------------------------------------------------------
(* The watcher's control block, under its mutex                            *)

Due(d) == d # 0 /\ now >= d
Drained(w) == [w EXCEPT !.wake = FALSE]

\* Mutant of Signalled: the poll under way is left alone.
unsignalled(w) == w

\* a poll under way is interrupted through the self-pipe; a full pipe already
\* holds a wake
Signalled(w) == [w EXCEPT !.wake = @ \/ w.polling]

\* the set the thread snapshot is no longer the watcher's
Outdated == thread' = [thread EXCEPT !.current = FALSE]

\* Mutant of h_watch_arm: the same set counts as told though it fired.
arm_if_new(set) ==
    IF watcher.want = set
      THEN UNCHANGED <<watcher, thread>>
      ELSE /\ watcher' = Signalled([watcher EXCEPT !.want = set, !.deadline = 0, !.armed = set # {}])
           /\ Outdated

\* Os.watchArm: the same set, already armed and untimed, is nothing to tell
h_watch_arm(set) ==
    IF watcher.armed /\ watcher.deadline = 0 /\ watcher.want = set
      THEN UNCHANGED <<watcher, thread>>
      ELSE /\ watcher' = Signalled([watcher EXCEPT !.want = set, !.deadline = 0, !.armed = set # {}])
           /\ Outdated

\* Os.watchArmEvents: what was ready under the old set is forgotten
h_watch_arm_events(set, deadline) ==
    /\ watcher' = Signalled([watcher EXCEPT !.want = set, !.deadline = deadline, !.ready = {},
                                            !.armed = set # {} \/ deadline # 0])
    /\ Outdated

\* out of memory in watchArmEvents: it fails disarmed
ArmRefused == h_watch_arm_events({}, 0)

Taken(w) == [w EXCEPT !.ready = {}]

----------------------------------------------------------------------------
(* The watcher thread                                                      *)

\* armed: it takes a copy of the set and goes to the kernel
ThreadPolls ==
    /\ thread.pc = "top" /\ watcher.armed /\ watcher.state = "open"
    /\ thread' = [thread EXCEPT !.pc = "poll", !.current = TRUE, !.set = watcher.want,
                                !.deadline = watcher.deadline]
    /\ watcher' = [watcher EXCEPT !.polling = TRUE]
    /\ UNCHANGED <<waker, svc, box, woken, stop, client, note, since, data, arrivals, now, irqVars>>

\* poll(2) returns: descriptors, the self-pipe or the timeout
PollReturns ==
    LET got == thread.set \intersect data
    IN /\ thread.pc = "poll"
       /\ got # {} \/ watcher.wake \/ Due(thread.deadline)
       /\ thread' = [thread EXCEPT !.pc = "back", !.got = got, !.woke = watcher.wake]
       /\ UNCHANGED <<watcher, waker, svc, box, woken, stop, client, note, since, data, arrivals, now, irqVars>>

\* the byte that ended the poll, if one did, is read
Awake == IF thread.woke THEN Drained(watcher) ELSE watcher

Found(w) == [w EXCEPT !.ready = @ \union thread.got]

\* back under the mutex: a replaced set's readiness is dropped, the rest is
\* published and the watcher disarmed
ThreadPublishes ==
    LET w == [Awake EXCEPT !.polling = FALSE]
        fires == thread.got # {} \/ Due(thread.deadline)
    IN /\ thread.pc = "back" /\ watcher.state = "open"
       /\ \/ /\ ~thread.current
             /\ watcher' = w
             /\ thread' = [thread EXCEPT !.pc = "top"]
          \/ /\ thread.current /\ ~fires
             /\ watcher' = w
             /\ thread' = [thread EXCEPT !.pc = "top"]
          \/ /\ thread.current /\ fires
             /\ watcher' = [Found(w) EXCEPT !.armed = FALSE]
             /\ thread' = [thread EXCEPT !.pc = "raise"]
       /\ UNCHANGED <<waker, svc, box, woken, stop, client, note, since, data, arrivals, now, irqVars>>

\* the interrupt goes out after the mutex is released
ThreadRaises ==
    /\ thread.pc = "raise"
    /\ Raise(watcher.irq)
    /\ thread' = [thread EXCEPT !.pc = "top"]
    /\ UNCHANGED <<watcher, waker, svc, box, woken, stop, client, note, since, data, arrivals, now,
                   used, opened, claims, request, answer, table, mail, ended>>

\* closing is seen at the top and after a poll; the thread tears down
ThreadStops ==
    /\ thread.pc \in {"top", "back"} /\ watcher.state = "closing"
    /\ watcher' = [watcher EXCEPT !.state = "stopped", !.polling = FALSE]
    /\ thread' = NoThread
    /\ UNCHANGED <<waker, svc, box, woken, stop, client, note, since, data, arrivals, now, irqVars>>

----------------------------------------------------------------------------
(* The waker actor                                                         *)

WakerBound ==
    /\ waker = "binding"
    /\ Answered(Waker, "bound")
    /\ waker' = "waiting" /\ woken' = Append(woken, "woke")
    /\ UNCHANGED <<watcher, thread, svc, box, stop, client, note, since, data, arrivals, now, used, ended>>

WakerWakes ==
    /\ waker = "waiting"
    /\ TakeDelivery(Waker)
    /\ woken' = Append(woken, "woke")
    /\ UNCHANGED <<watcher, thread, waker, svc, box, stop, client, note, since, data, arrivals, now, used, ended>>

\* the service's 0 ends it: it unbinds, and only then says so
WakerUnbinds ==
    /\ waker = "waiting" /\ svc.mode = "retiring"
    /\ waker' = "unbinding"
    /\ Ask(Waker, "unbind", watcher.irq)
    /\ UNCHANGED <<watcher, thread, svc, box, woken, stop, client, note, since, data, arrivals, now, used, ended>>

WakerEnds ==
    /\ waker = "unbinding"
    /\ answer[Waker] = "unbound"
    /\ answer' = [answer EXCEPT ![Waker] = "none"]
    /\ waker' = "done" /\ ended' = ended \union {Waker}
    /\ woken' = Append(woken, "stopped")
    /\ UNCHANGED <<watcher, thread, svc, box, stop, client, note, since, data, arrivals, now,
                   used, opened, pending, claims, request, table, mail, dropped>>

----------------------------------------------------------------------------
(* The service: start                                                      *)

\* a watcher, its thread and its waker; no source, no memory or no thread leaves
\* the service to poll on a timer
ServiceStart ==
    /\ svc.mode = "off"
    /\ \/ /\ Free # {}
          /\ \E s \in Sources :
                /\ HostAlloc(s)
                /\ watcher' = [NoWatcher EXCEPT !.state = "open", !.irq = s]
                /\ Ask(Waker, "bind", s)
          /\ thread' = [NoThread EXCEPT !.pc = "top"]
          /\ waker' = "binding"
          /\ svc' = [svc EXCEPT !.mode = "binding"]
          /\ UNCHANGED ended
       \/ /\ svc' = [svc EXCEPT !.mode = "recv"]
          /\ UNCHANGED <<watcher, thread, waker, irqVars>>
    /\ UNCHANGED <<box, woken, stop, client, note, since, data, arrivals, now>>

ServiceReady ==
    /\ svc.mode = "binding" /\ woken # <<>>
    /\ svc' = [svc EXCEPT !.mode = "recv"]
    /\ woken' = Tail(woken)
    /\ UNCHANGED <<watcher, thread, waker, box, stop, client, note, since, data, arrivals, now, irqVars>>

----------------------------------------------------------------------------
(* The service: one message at a time                                      *)

FdOf(c) == client[c].fd
Late(c) == Due(client[c].deadline)
FdsOf(cs) == {FdOf(c) : c \in cs}
Nearest(cs) == IF Readiness /\ cs # {} THEN Min({client[c].deadline : c \in cs}) ELSE 0

Told(notes, cs, what) == [c \in Clients |-> IF c \in cs THEN Append(notes[c], what) ELSE notes[c]]
TimedOut(cs) == {c \in cs : Late(c)}
Matched(cs, ready) == {c \in cs \ TimedOut(cs) : FdOf(c) \in ready}

\* settle / notify: the late are timed out, the ready told, the rest kept
Settle(cs, ready) ==
    /\ svc' = [svc EXCEPT !.entries = cs \ (TimedOut(cs) \union Matched(cs, ready)), !.mode = "drain"]
    /\ note' = Told(Told(note, TimedOut(cs), "err"), Matched(cs, ready), "ok")

Quiet == woken = <<>> /\ stop # "sent" /\ \A c \in Clients : box[c] = <<>>

\* the poller goes on taking messages until there are none, then arms; the
\* readiness service arms after each
Receiving == svc.mode = "recv" \/ (svc.mode = "drain" /\ ~Readiness)

TakeRegister(c) ==
    /\ Receiving /\ box[c] # <<>> /\ Head(box[c]) = "register"
    /\ box' = [box EXCEPT ![c] = Tail(@)]
    /\ \/ /\ Readiness /\ Late(c)
          /\ note' = Told(note, {c}, "refused")
          /\ svc' = [svc EXCEPT !.mode = "drain"]
       \/ /\ Readiness /\ ~Late(c)
          /\ note' = Told(note, {c}, "admitted")
          /\ svc' = [svc EXCEPT !.mode = "drain", !.entries = @ \union {c}]
       \/ /\ ~Readiness
          /\ svc' = [svc EXCEPT !.mode = "drain", !.entries = @ \union {c}]
          /\ UNCHANGED note
    /\ UNCHANGED <<watcher, thread, waker, woken, stop, client, since, data, arrivals, now, irqVars>>

\* a removal is acknowledged only after the set without it is armed
TakeRetire(c) ==
    /\ Receiving /\ box[c] # <<>> /\ Head(box[c]) = "retire"
    /\ box' = [box EXCEPT ![c] = Tail(@)]
    /\ svc' = [svc EXCEPT !.mode = "drain", !.entries = @ \ {c}, !.reply = c,
                          !.found = c \in svc.entries]
    /\ UNCHANGED <<watcher, thread, waker, woken, stop, client, note, since, data, arrivals, now, irqVars>>

TakeWoke ==
    /\ Receiving /\ woken # <<>>
    /\ woken' = Tail(woken)
    /\ Settle(svc.entries, watcher.ready)
    /\ watcher' = Taken(watcher)
    /\ UNCHANGED <<thread, waker, box, stop, client, since, data, arrivals, now, irqVars>>

\* told after the arm: the owner that its ticket is cancelled, then the asker
Acknowledged(notes) ==
    LET c == svc.reply
    IN IF c = NoOne THEN notes
       ELSE Told(IF svc.found THEN Told(notes, {c}, "err") ELSE notes, {c}, "retired")

Armed(cs) == IF Readiness THEN h_watch_arm_events(FdsOf(cs), Nearest(cs)) ELSE h_watch_arm(FdsOf(cs))

\* the readiness service times out the late before it arms
Arm ==
    LET late == IF Readiness THEN TimedOut(svc.entries) ELSE {}
        kept == svc.entries \ late
    IN /\ svc.mode = "drain"
       /\ Readiness \/ Quiet
       /\ svc' = [svc EXCEPT !.mode = "recv", !.entries = kept, !.reply = NoOne, !.found = FALSE]
       /\ note' = Acknowledged(Told(note, late, "err"))
       /\ IF Watched THEN Armed(kept) ELSE UNCHANGED <<watcher, thread>>
       /\ UNCHANGED <<waker, box, woken, stop, client, since, data, arrivals, now, irqVars>>

\* no memory for the set: every wait is refused rather than left unwatched
ArmFails ==
    /\ svc.mode = "drain" /\ Readiness /\ Watched
    /\ ArmRefused
    /\ svc' = [svc EXCEPT !.mode = "recv", !.entries = {}, !.reply = NoOne, !.found = FALSE]
    /\ note' = Acknowledged(Told(note, svc.entries, "err"))
    /\ UNCHANGED <<waker, box, woken, stop, client, since, data, arrivals, now, irqVars>>

\* without a watcher: one pass over the descriptors, then a nap
FallbackPass ==
    /\ svc.mode = "recv" /\ ~Watched /\ svc.entries # {} /\ Quiet
    /\ Matched(svc.entries, data) \union TimedOut(svc.entries) # {}
    /\ Settle(svc.entries, data)
    /\ UNCHANGED <<watcher, thread, waker, box, woken, stop, client, since, data, arrivals, now, irqVars>>

----------------------------------------------------------------------------
(* The service: stop                                                       *)

TakeStop ==
    /\ Receiving /\ stop = "sent"
    /\ stop' = "taken"
    /\ note' = Told(note, svc.entries, "err")
    /\ svc' = [svc EXCEPT !.entries = {}, !.mode = IF Watched THEN "retiring" ELSE "finish"]
    /\ IF Watched THEN Armed({}) ELSE UNCHANGED <<watcher, thread>>
    /\ UNCHANGED <<waker, box, woken, client, since, data, arrivals, now, irqVars>>

\* waits that were already sent are refused, not left in the mailbox
Refuse(c) ==
    /\ svc.mode = "retiring" \/ (svc.mode = "finish" /\ ~Readiness)
    /\ box[c] # <<>>
    /\ box' = [box EXCEPT ![c] = Tail(@)]
    /\ note' = Told(note, {c}, IF Head(box[c]) = "retire" THEN "retired"
                               ELSE IF Readiness THEN "refused" ELSE "err")
    /\ UNCHANGED <<watcher, thread, waker, svc, woken, stop, client, since, data, arrivals, now, irqVars>>

RetireWoken ==
    /\ svc.mode = "retiring" /\ woken # <<>>
    /\ woken' = Tail(woken)
    /\ svc' = [svc EXCEPT !.mode = IF Head(woken) = "stopped" THEN "close" ELSE @]
    /\ UNCHANGED <<watcher, thread, waker, box, stop, client, note, since, data, arrivals, now, irqVars>>

\* Os.watchClose begins the shutdown, and frees the source once the thread is gone
h_watch_close ==
    /\ svc.mode = "close"
    /\ \/ /\ watcher.state = "stopped"
          /\ HostFree(watcher.irq)
          /\ watcher' = NoWatcher
          /\ svc' = [svc EXCEPT !.mode = "finish"]
       \/ /\ watcher.state = "open"
          /\ watcher' = Signalled([watcher EXCEPT !.state = "closing"])
          /\ UNCHANGED <<svc, used>>
    /\ UNCHANGED <<thread, waker, box, woken, stop, client, note, since, data, arrivals, now,
                   opened, pending, claims, request, answer, table, mail, ended, dropped>>

ServiceEnds ==
    /\ svc.mode = "finish"
    /\ Readiness \/ \A c \in Clients : box[c] = <<>>
    /\ svc' = [svc EXCEPT !.mode = "end"]
    /\ UNCHANGED <<watcher, thread, waker, box, woken, stop, client, note, since, data, arrivals, now, irqVars>>

----------------------------------------------------------------------------
(* Clients, the owner, the kernel and the clock                            *)

\* The owner ends admission before it stops.  A poller's wait is its ticket.
Register(c) ==
    /\ client[c].pc = "idle" /\ client[c].asks < MaxAsks
    /\ stop = "no" /\ svc.mode # "off"
    /\ \E f \in Fds, d \in IF Readiness THEN {d \in 1 .. Horizon : d > now} ELSE {0} :
          /\ client' = [client EXCEPT ![c] = [pc |-> IF Readiness THEN "sent" ELSE "ticket",
                                              fd |-> f, deadline |-> d, asks |-> @.asks + 1]]
          /\ since' = [since EXCEPT ![c] = f \in data]
    /\ box' = [box EXCEPT ![c] = Append(@, "register")]
    /\ UNCHANGED <<watcher, thread, waker, svc, woken, stop, note, data, arrivals, now, irqVars>>

Became(c, pc) == client' = [client EXCEPT ![c].pc = pc]

\* a client that cancels its own ticket drains a Done that came first
TakeNote(c) ==
    /\ note[c] # <<>>
    /\ note' = [note EXCEPT ![c] = Tail(@)]
    /\ LET n == Head(note[c])
       IN \/ n = "admitted" /\ Became(c, "ticket")
          \/ n \in {"ok", "err"} /\ client[c].pc = "cancel" /\ UNCHANGED client
          \/ n \in {"ok", "err"} /\ client[c].pc # "cancel" /\ Became(c, "idle")
          \/ n \in {"refused", "retired"} /\ Became(c, "idle")
    /\ UNCHANGED <<watcher, thread, waker, svc, box, woken, stop, since, data, arrivals, now, irqVars>>

Cancel(c) ==
    /\ Readiness /\ client[c].pc = "ticket" /\ svc.mode # "end"
    /\ Became(c, "cancel")
    /\ box' = [box EXCEPT ![c] = Append(@, "retire")]
    /\ UNCHANGED <<watcher, thread, waker, svc, woken, stop, note, since, data, arrivals, now, irqVars>>

\* receiveFromRes answers Err once the service is dead and its answers are taken
ServiceDead(c) ==
    /\ Readiness /\ svc.mode = "end" /\ client[c].pc # "idle" /\ note[c] = <<>>
    /\ Became(c, "idle")
    /\ UNCHANGED <<watcher, thread, waker, svc, box, woken, stop, note, since, data, arrivals, now, irqVars>>

Stop ==
    /\ stop = "no" /\ svc.mode # "off"
    /\ stop' = "sent"
    /\ UNCHANGED <<watcher, thread, waker, svc, box, woken, client, note, since, data, arrivals, now, irqVars>>

Arrive(f) ==
    /\ f \notin data /\ arrivals < MaxArrivals
    /\ data' = data \union {f} /\ arrivals' = arrivals + 1
    /\ since' = [c \in Clients |-> since[c] \/ (client[c].pc # "idle" /\ FdOf(c) = f)]
    /\ UNCHANGED <<watcher, thread, waker, svc, box, woken, stop, client, note, now, irqVars>>

\* whoever is not waiting on a descriptor reads it, or closes it and opens another
Consume(f) ==
    /\ f \in data /\ \A c \in Clients : FdOf(c) = f => client[c].pc = "idle"
    /\ data' = data \ {f}
    /\ UNCHANGED <<watcher, thread, waker, svc, box, woken, stop, client, note, since, arrivals, now, irqVars>>

Tick ==
    /\ now < Horizon
    /\ now' = now + 1
    /\ UNCHANGED <<watcher, thread, waker, svc, box, woken, stop, client, note, since, data, arrivals, irqVars>>

----------------------------------------------------------------------------

ThreadStep == ThreadPolls \/ PollReturns \/ ThreadPublishes \/ ThreadRaises \/ ThreadStops
WakerStep == WakerBound \/ WakerWakes \/ WakerUnbinds \/ WakerEnds
ServiceStep ==
    \/ ServiceStart \/ ServiceReady \/ TakeWoke \/ Arm \/ ArmFails \/ FallbackPass
    \/ TakeStop \/ RetireWoken \/ h_watch_close \/ ServiceEnds
    \/ \E c \in Clients : TakeRegister(c) \/ TakeRetire(c) \/ Refuse(c)
ClientStep(c) == TakeNote(c) \/ ServiceDead(c)

WatchNext ==
    \/ ThreadStep \/ WakerStep \/ ServiceStep
    \/ \E c \in Clients : Register(c) \/ Cancel(c) \/ ClientStep(c)
    \/ \E f \in Fds : Arrive(f) \/ Consume(f)
    \/ Stop \/ Tick

----------------------------------------------------------------------------
(* Properties                                                              *)

\* A poll for a set that has been replaced, or for a watcher that is closing, has a
\* byte in the self-pipe: it does not sleep on in the kernel.
PollInterrupted ==
    /\ thread.pc = "poll" /\ ~thread.current => watcher.wake
    /\ thread.pc = "poll" /\ watcher.state = "closing" => watcher.wake

\* a raise of the watcher is in the thread, at the irq hart, at the router, at
\* the waker or in the service's mailbox
Coming ==
    \/ thread.pc = "raise" \/ OnItsWay(watcher.irq)
    \/ mail[Waker] # <<>> \/ woken # <<>>

\* A service waiting for messages has every wait it keeps either in the armed
\* set, with the nearest deadline, or covered by an interrupt under way: no wait
\* is left for nobody to end, unless the irq hart gave up the last interrupt of the
\* watcher's source for want of memory.  And no poll under way outlasts its set.
NoneForgotten ==
    /\ PollInterrupted
    /\ svc.mode = "recv" /\ Watched /\ ~Coming =>
          /\ svc.entries # {} => watcher.armed \/ watcher.irq \in dropped
          /\ watcher.armed => /\ FdsOf(svc.entries) = watcher.want
                              /\ Readiness => watcher.deadline = Nearest(svc.entries)
          /\ watcher.armed /\ thread.pc \in {"poll", "back"} /\ thread.current =>
                thread.set = watcher.want /\ thread.deadline = watcher.deadline

\* The readiness service completes a wait with success only if its descriptor was
\* ready at some time since the client asked: neither a replaced set nor a
\* removed registration of the same descriptor completes it.  The poller gives no
\* such promise: its arm, Os.watchArm, keeps what was ready under the set before.
Fresh ==
    \A c \in Clients : Readiness /\ (\E i \in 1 .. Len(note[c]) : note[c][i] = "ok") => since[c]

\* The same of the poller, as std/poller.fpr's head says of every wait: violated.
PollerFresh ==
    \A c \in Clients : ~Readiness /\ (\E i \in 1 .. Len(note[c]) : note[c][i] = "ok") => since[c]

\* A source is back in the pool only when no thread can raise it and its waker
\* is unbound; and a poller that has ended has answered everyone.
CleanStop ==
    /\ watcher.state = "none" => thread.pc = "gone"
    /\ \A s \in Sources : table[s] = Waker /\ Waker \notin ended => s \in used
    /\ svc.mode = "end" /\ ~Readiness =>
          \A c \in Clients : client[c].pc # "idle" => note[c] # <<>>

\* After the router's answer to its unbind the waker is handed no interrupt.
UnboundHearsNothing ==
    [][answer[Waker] = "unbound" \/ Waker \in ended => mail'[Waker] = mail[Waker]]_<<answer, mail, ended>>
====
