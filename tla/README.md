# FPRISC runtime: a TLA+ model

This directory models the runtime of FPRISC in TLA+ (actors, memory and vectors in `runtime/`,
the layers under it in `machine/`), checks it with TLC on small instances, and proves the central
safety properties of its scheduler, its mailboxes, its inboxes and confined processes with
TLAPS, for every number of harts, actors, senders, blocks and ring sizes. Paths below are relative
to the repository root; `PROJECT.json` maps each definition to the lines it stands for.

1. The system — 2. The modules — 3. The runs, their bounds and the fairness — 4. What the code does
that a doc or a comment says it does not — 5. The proofs — 6. What is not modelled

## 1. The system

FPRISC compiles an expression language to native code. A compiled program is a set of actors on a
small C runtime, which runs on bare metal or above a thin machine layer on a host. A hart (a core,
or a thread of the host) runs `hart_loop` on a boot stack of its own; an actor has a stack, a pool
of slabs and, once somebody spawns it, a mailbox.

| component | where | state it keeps | operations | what is hard |
|---|---|---|---|---|
| scheduler | `runtime/actors.c` | actor control blocks (status word, owner hart, running marker); per hart a backlog, a run queue, doorbell and idle flag; rings between harts | `hart_loop`, `drain`, `refill`, `deq`, `steal`, `offer`, `ship`, `wake`, `block_unless`, `reap`, kill, return, fuel preemption | no global lock: an actor is moved by wakes, preemptions, thieves and killers at once; sleeping harts |
| mailbox | `runtime/actors.c` | per actor some dedicated single-producer rings, a shared ring, counters and cached views of them | `chan_for`, `ring_push`, `ring_install`, `take_at`, `receive`, `receiveFrom`, `receiveFromRes`, `receiveRes` | claims by CAS, taking over the slots of dead senders, growth under a reader, parking |
| bounded inboxes, channel block life | `runtime/actors.c` | reserved bytes and messages; the limbo list and the epochs of the harts | `inbox_reserve`, `bounded_publish`, `send_cancel`, `sendLinear`, `chan_drain`, `chb_take`, spawn and its rollback | giving a charge back on every path; a sender still inside the block of a dead actor |
| confined processes | `runtime/actors.c` | a record per process: flags, budget, bytes charged | `Sys.confine`, `Sys.killPid`, `spawn_gate`, `fpr_charge`, `pol_quiet` | ending a process whole while it spawns; reuse of records |
| memory actor, buddy | `runtime/actors.c`, `runtime/buddy.c` | free lists, queued requests, reply slots | take, resize, return, grow a stack, the fixed window | requests of dying actors, half-done moves |
| sleep and timers | `runtime/actors.c`, `machine/unix/park.c` | sleep lists, one timer deadline, the detector's counts | `Sys.sleepUs`, `slp_drain`, `tmr_drain`, arming, `hal_wfi` | a deadline racing a wake, a steal or a kill |
| messages, shares, slabs | `runtime/runtime.c` | the ARC table, slab states, holds, borrow windows | copy, share, move, receive, drop, pool reset, reap | one slab let go by several actors at once |
| regions | `runtime/runtime.c` | scopes, arenas, transfer slabs, the spare | `Sys.loop`, `Sys.arena`, compiler loops, pending calls | what survives a turn; death in the middle of a boundary |
| builtin heap | `machine/builtin/` | a two-level free index, region lists, counts | alloc, free, open, reset, close, release | blocks threaded by a list and freed by their owner |
| vectors, deep copy | `runtime/vec.c`, `runtime/runtime.c` | columns, spans, kinds | every vector operation; measure, copy, keep, release | a copy must take exactly what was measured; storage freed once |
| host layer | `machine/posix/`, `std/poller.fpr`, `std/readiness.fpr`, `std/job.fpr` | interrupt sources, the watcher thread, the job broker, resolver jobs | arm, cancel, raise, bind, submit, abandon | threads of the host beside actors; a source given back while a raise is under way |
| admission order | `runtime/actors.c` | `ready_at`, `g_adm`, hand-off budget | the tiers of `select_backlog` | a bound on the wait of a READY actor |
| script transactions; stores | `compiler/Sol/Txn.hs`; `std/kvlog.fpr`, `std/store.fpr`, `std/journal.fpr` | locks, journals, logs | begin, commit, replay; append, compact, open | a crash between two writes |
| std actors | `std/actor.fpr`, `std/supervisor.fpr`, ... | protocols over mailboxes | request and reply, restart | late replies |
| compiler, language server, tools | `compiler/`, `lsp/`, `tools/` | pure programs over files | | not concurrent |

**How they interact.** `send` copies or moves a message into a slab the receiver can read (shares
and slabs), reserves room in a bounded inbox, publishes it in a ring of the target's channel block
(mailbox, block life) and calls `wake`; `wake` turns BLOCKED into READY and `ship`s the actor to its
owner hart, through a ring and a doorbell if that is another hart (scheduler). A receive that finds
nothing calls `block_unless`, which parks the actor and switches to the hart loop. A dying actor
wakes whoever waits for it in `receiveFromRes`. The hart loop reaps dead actors: their stack goes to
the memory actor, their slabs back to the pools, their channel block to limbo. Confined processes
hook into spawn, memory and reap. Host threads raise interrupt sources, the irq hart posts them to
the router actor, which sends them on.

**What makes each part correct.** Scheduler: one context on one hart, one queue entry per actor, no
ready or dead actor out of reach, no lost wake-up, no sleep on waiting work, death is final.
Mailbox: every message answered `Ok` is delivered once, in its channel's order, and the receiver is
not stranded. Inboxes: each charge is given back once. Blocks: none is reused under a sender.
Confinement: a budget is never exceeded, a record stands for its process while one of it lives.
Memory: every unit has one owner. Sleep: never early, always over. Slabs: home once, not under a
reader. Regions: nest, and hold the next turn's state. Vectors: a program sees its rows and nothing
else. Host: whatever is waited for comes, and a source is not given back while it can be raised.

## 2. The modules

Each module states its component's behaviour, its properties, and the mutants (plausible wrong
versions of an operation) that show each property can fail. `MC*` modules and `.cfg` files hold
only the instances.

| module | stands for | left out |
|---|---|---|
| `Sched` | the scheduler, one lock region or atomic access of one hart per step; `pc[h]` names the next one, `cont` is where a runtime call returns to | the order of the queues (any READY entry may be admitted: what holds, holds for every order), message contents (a mailbox is the bit "what the receive waits for is there"), interrupts, the deadlock detector's verdict, `spin_until` (it only delays a park) |
| `Mailbox` | one mailbox: `fpr_send_as` from the slot scan to the wake, the owner through its scans, the park and the second look. A message is its sender and number. Taking from the head is two steps (read, release the slot); from inside a ring one, since the lock excludes whoever could see the middle | `receiveNow`, `receiveFromNow` (the same scans without a park), wrap-around of the 32-bit counters |
| `Inbox` | what a mailbox promises: lanes of messages, what each receive may take, when "dead actor" may be answered | |
| `Delivery` | sends to bounded and unbounded mailboxes against the death of target, sender and spawner; limbo, epochs, admission of an actor with its rollback | order inside the rings (`Mailbox`) |
| `Confine` | records, the gate, charging, `Sys.confine` and `Sys.killPid` of the boot image, the three walks over the ledger one actor per step, reaping and reuse of records | the list of refused capabilities (`Forbidden` is any of them), kills inside a process, pre-admitted spawns |
| `Buddy`, `Memory` | the allocator as functions of its free blocks; the inline path, the request protocol, denials, cancelled requests, growing stacks, the fixed window | which block of a list is taken |
| `Sleep` | sleepers, their lists, the timer's deadline, arming, the doorbell and condition variable of `hal_wfi`, the detector's counts | the 20 ms cap of `hal_wfi`: nothing may depend on it; the run queue beside the backlog: a look finds whatever is queued, while `deq` refills once per look (`Sched` has that) |
| `Shares` | counted roots and shared values, holds, packing slabs, borrow windows, moves, fixed heaps, pool resets, reaping; one step is one region of `arc_lock` | block sizes |
| `Regions` | scopes of loops, arenas and calls over transfer slabs; a step ends where the actor may park | the release of a single root (`Shares`) |
| `Builtin` | allocator, region lists and reference counts of the heap without a scheduler | alignment |
| `Irq`, `Watch`, `Jobs`, `Resolver`, `Host` | sources and the router; the watcher thread with its service; the job broker; the resolver with its ownership registry; `Host` composes them | POLLERR and a failing poll, masks, sockets, files, processes |
| `Lanes`, `Columns`, `Copy`, `Rows`, `Vector` | machine words; `vec.c` on columns; the walks of `runtime.c` over a message; the abstract vector; a program that uses all of it | boxed floats of RV32, retained slabs, sharing inside a message, `loopWith` |

`Mailbox` implements `Inbox`, `Vector` implements `Rows` (both by `INSTANCE`, checked as properties).
`Host` composes `Watch`, `Jobs` and `Resolver` over `Irq`. The other modules meet at the points
named in their headers: each leaves to another what that one models (for instance, `Shares` leaves
the rings to `Mailbox` and a death inside a send to `Delivery`).

**State and code.** Variables carry the names of the fields (`var`, `owner`, `running`, `xr`, `ch`,
`charged`, `shlock`, ...). Undefined or racy reads are choices: a lock found held is a choice,
because any thread may be inside.

**Assumptions about programs** (the language's, not the code's): a sender keeps the vectors it still
names, a linear value is consumed once, and nothing borrowed from a message is alive at an explicit
`drop` of it.

## 3. The runs

All twelve finish within five minutes; eleven pass, one shows a disagreement.

| run | checks | instance, and why it is enough |
|---|---|---|
| `sched` | `TypeOK`, `OneContext`, `OneEntry`, `NothingLost`, `NoLostWake`, `NoSleepOnWork`, `StayDead` | 2 harts, 3 actors (one pinned, one placed, one free), three programs; 1.26 million states. RQ_CAP 1 makes backlog and run queue both fill, DONATE_HI 1 makes donations, one death after an admission empties a whole batch, rings of 2 fill. Two harts give every pairwise race |
| `mailbox` | `RingsSound`, `NoStrand`, `FairTurns`, `ImplementsInbox` | three mailboxes; 2.7 million states. Three senders for two slots race for claims while one dies at any step of its send and its slot is claimed again; receiveRes skips into a ring of two; receiveFrom and receiveFromRes on a shared ring that grows from 1 to 2 with the owner and the named sender dying |
| `delivery` | `TypeOK`, `ChargesKept`, `NothingLeaks`, `NoStaleWriter` | 2 senders (three sends), 2 receiving actors for 1 channel block, so that the second is admitted onto the dead one's block; limits of 2 messages and 2 bytes with messages of 1 and 2, so that both limits refuse |
| `confine` | `TypeOK`, `Accounts`, `StaysConfined` | launcher and 3 actors, 1 record, 2 blocks, budget 1, 2 processes of which one is killed; 0.72 million states. Three actors are the least with which one spawns while a second ends the process and a third is born behind a walk |
| `memory` | `TypeOK`, `ArenaWhole`, `Answers` | 9 units (roots of eight and one: nothing may coalesce across the seam), 2 requesters, one mortal |
| `sleep` | `SleepSound`, `NotEarly`, `Returns` | 2 harts, a sleeper that is woken, stolen and killed, the timer service |
| `shares` | `CountsExact`, `ReadersKept`, `SlabsGoHome` | 2 actors, one with a fixed heap, 2 slabs, 2 objects, every way of sending |
| `regions` | `RegionsNest`, `SlabsKept`, `RootsKept` | nestings of depth two of the four kinds, 3 slabs of 2 sizes; 0.5 million states. The copy out of a closing region may need a slab and open a region of its own |
| `builtin` | `HeapSound`, `RegionsSound`, `RcExact` | allocator alone on 11 units with requests that share a size class; regions nested twice; counts |
| `host` | `WatchSound`, `HelpersSound`, `UnboundHearsNothing`, `EverythingComes` | poller or readiness with 1 client and 2 descriptors; 2 jobs over 2 sources; a poller that starts and stops beside, and then jobs on the same 2 sources; 2 lookups in a pool of 1; 0.27 million states. Any claim may be given up |
| `vector` | `StoreExact`, `CopiesFit`, `ImplementsRows` | words of 3 bits, six element types, up to 3 vectors and 2 rows, growth from a span of 1 |
| `vector_code` | `NoForeignCode`: violated | one image closure sent to another process |

Bounds are CONSTANTS marked "bound" where they are declared (`SendMax`, `SpawnMax`, `Ops`, `MaxTime`,
`MaxPid`, `Programs`, ...); a bound on an action says so in the action. Three of them are where the
code has gone wrong and a model would have to follow nonsense: `Mailbox` begins no send or receive
once two writers share a ring, `Regions` resets no pool under a mark that counts released roots
(`fpr_rx_release_outer`, `runtime.c:3137-3149`, would take inner roots for outer ones), and `Apart`
of `Host` lets a program that has both a poller and jobs begin its jobs when the poller's service has
ended, which is where the two meet on a source (the theorems hold without it).

**Exceptions.** Where the code leaves a property, the property names the exact history after which it
does, kept in a history variable that no action reads but for the bounds above, and the run reaches it:

| history | turns on when | excepted |
|---|---|---|
| `fell` (`Sched`) | this call of `deq` pops a killed actor | `NoSleepOnWork`: the backlog of a hart whose second look popped a full batch of RQ_CAP, all killed |
| `overrun` (`Mailbox`) | a slot is claimed from a killed sender that is still in `ring_push` with it, or left a message | everything, from then on |
| `missed` (`Confine`) | a walk passes by an actor published behind it | `StaysConfined` |
| `skew` (`Regions`) | a call region is opened in the copy out of a closing compiler region | `RootsKept`: that region's mark |
| `dropped` (`Irq`) | the irq hart gives up a source's last interrupt | `WatchSound`: the waits its watcher is to wake; `EverythingComes`: behaviours where it happens |
| `crossed` (`Jobs`) | a helper is given a source with something of its last user under way | `HelpersSound`: that helper's result |

**Deadlock** is not checked: programs end and bounds are reached.

**Fairness.** Safety properties need none. `Returns` (sleep) takes weak fairness of each hart's
loop, of whoever runs on it, of the clock, and of a hart's look into its rings: a hart is a core or
thread that executes its next instruction. `Answers` (memory) takes weak fairness of the memory
actor and of a requester whose answer is there. `EverythingComes` (host) takes weak fairness of the
host's threads, of the service actors and of the clock, per program: nobody has to ask, stop,
abandon or die, and no data has to arrive. `PushEnds` (section 4) takes it of each hart.

## 4. What the runs showed

`vector_code` is a run of its own: the one-pass copy of a message never looks at the code of a
closure, although `docs/2026-10-01-PROCESS-IMAGES.md:37` says such a closure is refused.

The other disagreements are stated as properties beside the ones that hold; each is violated when
the constants below are given to its module. None is checked by a run of `PROJECT.json`.

| property | the code | how to reach it |
|---|---|---|
| `Sched!ReapedNotLive` | `actors.c:1721`: the loop drops `running`, then reads the status; in between a thief takes the actor, a second hart dispatches it and a third kills it, and the first reaps a live context | N = 3, main pinned, one free actor, `ReapProgs` |
| `Sched!PushEnds` | `actors.c:983`: two harts that ship into each other's full ring spin and never drain (`docs/2026-10-02-SCHED-MODEL.md:103-105` says the peer drains) | `FairSpec`, XCAP = 1, 6 actors, `Spawners` |
| `Mailbox!FromRight` | `actors.c:3050`, comment at 3031: the slot of a dead, drained sender is claimed between `chan_for` and `ch_avail` | receiveFrom of a mortal sender with another sender |
| `Mailbox!SenderFIFO` | `actors.c:1867`: a sender overflows to the shared ring, then gets a slot, and its messages cross (`docs/2026-10-13-DEADLINES-JOINS.md:12`) | one slot, one sender that dies, another that sends twice |
| `Mailbox!OneWriter` | `actors.c:1861`: a killed sender runs on to its safepoint while its slot counts as dead and drained | the run's constants |
| `Confine!NothingAfter` | `actors.c:3893`: an actor past the gate lists its child behind the last sweep and returns before the sweep meets it; the child outlives its process | Budget = 2 |
| `Confine!RecordHeld` | `actors.c:3847`: the same gap lets `pol_quiet` free a record an overlooked actor points at; a late PID_DONE of a second reaper lands on a reused record | Budget = 2 and 1 block, or MaxPid = 2 |
| `Delivery!NeverNil` | `actors.c:1855`: `chan_for` follows `a->ch` after `reap` cleared it (comment at 643) | the run's constants |
| `Delivery!NoneStranded` | `actors.c:158-160`: a message of a sender killed in the middle of its copy is never dropped | the run's constants |
| `Sleep!ArmKept`, `TimerOnTime` | `actors.c:1419`, `1775`: the service arms its next deadline before `tmr_drain`'s last statement clears it | the run's constants |
| `Shares!HomeOnce` | `actors.c:280`: more drops in one activation than borrow windows | WindowCap = 1 |
| `Shares!NoStrayShare` | `runtime.c:2866-2874`, `actors.c:3305`: a share taken for a send that fails stays | the run's constants |
| `Shares!EveryBorrowKept` | `runtime.c:2892-2917`: an explicit drop opens no window for what it borrowed from another slab | the run's constants |
| `Regions!MarksAlwaysHold` | `runtime.c:2176`, comments at 1931 and 1960: a call region opened by the copy out of a closing one (2300, 2110) counts in its mark the roots that close then releases | the run's constants |
| `Jobs!JobAlwaysDone` | `os_watch.c:341`, `os_job.c:42`: a watcher's source is given back and taken by a job while an interrupt of it is on its way: the helper reads too early | the run's constants |
| `Watch!PollerFresh` | `os_watch.c:233-240` against `std/poller.fpr:6-7`: a wait is completed by what was ready under the set before | two clients |

Three further remarks came out of reading: a fresh vector with no columns reaches `cols[0]` in the
SIMD tier (`vec.c:697-707`, behind `vnum`); Int columns hold machine words while a tagged read drops
the top bit, so a sum in a column and the same sum read out may differ (`Rows` says so); and the
readiness service re-arms at once for a descriptor that stays ready, so it may run without end.

Two of the exceptions of section 3 have no row here because no document denies them. `deq` refills
once per look (`actors.c:1239`), so a hart can sleep, doorbell down, over a READY entry of its own
backlog if its second look popped RQ_CAP actors, all killed since they were admitted; deaths anywhere
else do not excuse it. And a claim that cannot be posted for want of memory is dropped
(`actors.c:1345-1352`), after which a service may keep waits nobody will end.

## 5. The proofs

| theorem | of | says |
|---|---|---|
| `TypeCorrect`, `OneContextHolds`, `OneEntryHolds`, `StayDeadHolds` (`SchedProofs`) | `TypeOK`, `OneContext`, `OneEntry`, `StayDead` | for any number of harts and actors, any ring and queue sizes, any programs |
| `NothingLostHolds`, `NoLostWakeHolds`, `NoSleepOnWorkHolds` (`SchedProofs`) | `NothingLost`, `NoLostWake`, `NoSleepOnWork` | the same, from a second invariant on top of the first |
| `RingsSoundHolds` (`MailboxProofs`) | `RingsSound` | for any number of senders, slots and messages, senders killed at any step |
| `NoStrandHolds`, `FairTurnsHolds` (`MailboxProofs`) | `NoStrand`, `FairTurns` | the same |
| `Implements` (`MailboxProofs`) | `ImplementsInbox` | the refinement: every step of `Mailbox` is a step of `Inbox` or a stutter |
| `TypeCorrect`, `AccountsHold`, `StaysConfinedHolds` (`ConfineProofs`) | `TypeOK`, `Accounts`, `StaysConfined` | for any number of actors, records, blocks and processes |
| `NoStaleWriterHolds`, `NothingLeaksHolds` (`DeliveryProofs`) | `NoStaleWriter`, `NothingLeaks` | for any number of actors, senders, blocks and sends; `BoundedCoveredHolds` is the part of `ChargesKept` that needs no sums |
| `TypeCorrect`, `ChargesKeptHolds` (`DeliveryChargesProofs`) | `TypeOK`, `ChargesKept` | the same, with the accounts of the inboxes |
| `SleepSoundHolds`, `NotEarlyHolds` (`SleepProofs`) | `SleepSound`, `NotEarly` | for any number of harts, sleepers, sleeps, timers, kills and steals, and any pace of the detector |
| `UnboundIsLast`, `HostCounted` (`HostProofs`) | `UnboundHearsNothing`, `WellCounted` | for any number of sources, clients, descriptors, jobs and lookups, claims given up or not |
| `HelpersRight` (`HostProofs`) | `HelpersSound` | the same, for programs of any mix of services |
| `WatchRightly` (`HostWatchProofs`) | `WatchSound` | the same |

The inductive invariants are theorems too: `InductiveInvariant` of each module, `WorkInvariant` of
`SchedProofs`, `AccountsInvariant` of `DeliveryChargesProofs`, `HostInvariant` of `HostProofs`. TLC
has checked each on the run's instance; those of the accounts, whose totals it cannot evaluate, as
`IInv`, `ChargesKept` and `TypeOK`.

**Assumptions.** Those the modules name: the constants are of their types, the null values are not
actors, sizes are positive, the sets of actors are finite where they are counted. No theorem assumes
anything else of a program, a schedule or fairness: each holds of all of `Spec`, and the histories of
section 3 say where it promises less.

**The scheduler.** Neither `OneContext` nor `OneEntry` is inductive: both rest on who may touch an
actor. `IInv` adds what each hart in the middle of a call holds (`Calls`), that a listed actor is its
owner's and a popped one is saved and in no queue (`Queues`, `Popped`), that the running marker names
exactly the hart inside the context (`Live`), and that rings and switches concern spawned actors
(`Rings`, `Switched`). The heart of it: the owner field changes only in `steal_from`, for a backlog
entry whose running marker is clear; such an entry is in nobody's hands, so no other hart can be about
to dispatch it. `WInv` adds where a READY or dead actor can be, who is about to wake a parked one,
which ring entries are announced, and what a refill that ran out of room leaves behind; for the last
it counts (hence the finite set of actors): while a hart pops and its backlog is not empty, what is in
its queue and the dead this look has popped (`fell`) are together at least RQ_CAP. `NoLostWake` is the
Dekker pairing: the receiver stores BLOCKED and looks again, the sender publishes and reads the
status, and the invariant says that after both have stored, one of them has yet to look.

**The mailbox.** `IInv` says that what a sender found in its scan, loaded in `ring_push` and is about
to write stays true until it acts: its slot is its own, the tail it read is the ring's, its room is
still there (heads only advance), a block it grew is the one it will install. For the owner it says
that the head it resolved is still there when it takes it. The second invariant (`Turns`, `WaitInv`)
bounds how far round the scan is when a channel is passed over, and follows a message from its
publication to the wake (`Heard`): an owner parked beside what it waits for has a sender in front of
the status read or a mourner about to call. `InboxInv` numbers the messages: those of a sender in a
ring are distinct, in order and not delivered, and "dead actor" is answered after a scan that began
when the sender was dead. With it, publishing is `Inbox`'s `Publish`, releasing a head or removing
from inside is `Deliver`, and everything else stutters. A sender may be killed anywhere in a send; it
runs on, and what it publishes then is `late`: "dead actor" promises nothing about it. All parts hold
until `overrun`, and no step turns that back. `NoOne` is kept out of the lanes by assumption on the
constants.

**Confined processes.** `IInv` says what each actor holds in the middle of an operation (a taken
block, a charge not yet paid, a child not yet listed), that charges are sums over what is out and in
flight, that a waiting root is alone in its process, and how a walk's answer relates to who was
listed when it began. The history variable `missed` turns true when a walk passes by an actor
published behind it; the theorem needs it, since `RecordHeld` is false without.

**Deliveries.** `IInv` says what each party holds at each of its steps. `LifeOK` fixes, for each life
of an actor, which items it has and whether it names a block, and that a lock word is held by a
sender between its death check and its unlock. `SenderOK` fixes what a send has reserved and
recorded. `SpawnerOK` and `OutOK` say that an item taken is in the admission's record or with its
actor. `BlocksOK` gives a held block one holder and says whose mail its rings may hold; a block that
an actor still names in limbo has not been left behind by the home hart. `Places` gives each message
one count in one place. No stale writer: a sender about to write without the lock to an actor already
in limbo has its block there too, not yet left behind by the sender's hart (`since[s] = 0`), and
`take_block` takes a block only after every hart has come round, which the sender's hart does only
outside a push. The accounts (`CInv`) add one balance per mailbox over the sets of `IInv`: a message's
charge moves with it from its sender to the ring to the receiver's hand, and each step changes the
balance by what it adds to or takes from one of the three. This needs the laws of sums over a set in
any order. `MapThenSumSet` is a recursive function that picks by CHOOSE; `Total` is the same
function with its values taken from a function, so that well-founded induction on cardinality can be
carried out by hand (a least counterexample), and two lemmas say both sums of `ChargesBalance` are
totals. Unlike `NeverNil` (above), `BoundedCovered` holds because a bounded producer checks for death
under the lock that the reaper takes before it drains.

**Sleeps.** `SleepSound` is not inductive. That a hart asleep has its nearest sleeper armed needs
that nobody else touches its list: an actor's mark `on` names one hart's list, which holds it once
(`ListsOK`), and only that hart links and unlinks, while it is up. That no doorbell is lost needs two
facts about a hart in `hal_wfi` (`Dozes`): its queue was empty when it went in, so whatever is queued
now came with a bell; and a bell up while the hart is in the wait was raised after the hart, `waiting`
already up, had read it, so the ringer has yet to look at `waiting`. The counts are cardinalities
that each step changes by one or not at all; for `g_blocked` this needs that a reaped actor is not
parked (`Parks`), so a kill in the park and the reap take it off once. `NotEarly` follows since only
the two looks of `block_unless` lead out of the loop, and both read the clock.

**The host.** `ResolverIInv` says which place and which counted block each call of an actor has in
hand, that no two calls are at one place, and that a block is counted once by the registry or the call
that took it out, and once by its thread; then each decrement is by a holder and the last frees.
`RouterInv` fixes which states of the watcher's block, its thread, its waker and its service go
together, what the waker has asked of the router and where the router has it, and that no source has
two users. `UnboundHearsNothing` is one step from it: after the answer to the unbind the table names
the waker nowhere, and delivery reads the table. `JobsInv` says that a job a clean helper (one not
`crossed`) waits for is in one place (the queue, the broker, the pending mask, the claims or the
mailbox) and that its result is stored from the raise on. What else is under way, a raise of a closed
watcher or a job of a helper such a raise ended early, is on a source no clean helper has (`Lost`): a
helper that takes it while it is under way is not clean. Where no watcher is used nobody is crossed,
since a job gives its source back only after its own interrupt has come. `WaitsInv` is about the
service. `ClientsFit` says which steps of a client go with which messages in its two mailboxes and
which entries of the service. `Snapshot` makes a snapshot that is still current the armed set.
`InSync` says that a service at its mailbox has armed what it keeps, or an interrupt is on its way to
it, or the source's last one was given up. This rests on the thread's order, disarm and then raise,
and on `WakerReached`: the waker is bound before the service is ready and until it has asked to be
unbound. `Seen` says that whoever the readiness service would answer has seen its data arrive.

**How the proofs are laid out.** One lemma per action says what it does to the fields an invariant
reads; the steps of the invariant then cite these effects and not the action. Frame lemmas carry a
part over actions that leave its state alone. Each part of an invariant has its own lemmas, and the
theorem at the end of a module joins them with PTL.

**Only model-checked.**

* Liveness (`Answers`, `Returns`, `EverythingComes`): beyond the prover, which has no fairness.
* `Vector`, `Copy`: they are recursive over terms (`RECURSIVE` operators and folds), which take the
  SMT backend away.
* `Memory`, `Shares`, `Regions`, `Builtin`: their invariants are in reach (the sums
  in them obey the laws proved for the inboxes) and not attempted.

## 6. Not modelled

Admission order: `Sched` leaves the choice open, so nothing here bounds a READY actor's wait.
Script transactions, stores and std actors: programs in other languages above the runtime, each with
crash or protocol hazards of its own. Compiler, language server and tools: pure programs. Of the
parts modelled "partly", the tables above name what is left out; of the host layer also a panic of
`j_new` when no source is left and the slot a killed helper leaks. Atomic accesses are sequentially
consistent everywhere: the code orders each pair that matters with seq_cst operations or fences, and
weaker orders inside such a pair are not explored.
