---------------------------- MODULE SleepProofs ----------------------------
(***************************************************************************)
(* The proofs about module Sleep, for any number of harts, sleepers,       *)
(* sleeps, timers, kills and steals.                                       *)
(*                                                                         *)
(* IInv says of an actor that its parked mark stands for a park it was     *)
(* switched out in and has not been reaped from (Parks), of a list that it *)
(* holds each sleeper marked as on it once, and no other (ListsOK), of     *)
(* the counts that they are exact (Counted, SleepersOK), and of a hart in  *)
(* hal_wfi (Dozes): its queue was empty when it went in, so whatever is    *)
(* queued now came with a bell; a bell raised after it read the bell comes *)
(* with a ringer that has yet to look at waiting; and what it armed is no  *)
(* later than its nearest sleeper, since only the hart itself puts an      *)
(* entry on its list or takes one out.                                     *)
(***************************************************************************)
EXTENDS Sleep, FiniteSetTheorems, WellFoundedInduction, TLAPS

-----------------------------------------------------------------------------
\* The inductive invariant.

\* The types of the records; pc as the steps of module Sleep name it.
HartPcs ==
  {"tmr", "clear", "slp", "run", "wfi", "raise", "wait", "asleep", "leave", "leave2"}
ActPcs == {"check", "go", "host", "look", "parked", "unlink", "arm", "end"}
Places == Nat \ {0}
HartRec ==
  [pc : HartPcs, cur : Actors \cup {None}, again : BOOLEAN, slp : Seq(Sleepers), at : Places,
   cmp : Nat, bell : BOOLEAN, waiting : BOOLEAN]
ActRec ==
  [pc : ActPcs, var : {"READY", "BLOCKED", "DEAD"}, hart : Harts, on : BOOLEAN, slpHart : Harts,
   wakeAt : Nat, running : Harts \cup {None}, parked : BOOLEAN, reaped : BOOLEAN, left : Int]
Types ==
  /\ now \in 1..MaxTime
  /\ hart \in [Harts -> HartRec]
  /\ act \in [Actors -> ActRec]
  /\ ready \in [Harts -> SUBSET Actors]
  /\ ringing \subseteq Harts \X Harts
  /\ tmr \in [dl : 0..MaxTime, mail : Int, pokes : Int, steals : Int]
  /\ count \in [blocked : Int, sleepers : Int]

\* A parked actor is out of every hart; a reaped one is dead for good.
ParkOK(a) ==
  /\ act[a].parked => act[a].pc = "parked" /\ ~act[a].reaped
  /\ act[a].reaped => act[a].var = "DEAD"
Parks == \A a \in Actors : ParkOK(a)

\* The service arms only when it holds a request.
MailOK == tmr.mail >= 0 /\ (act[Svc].pc = "arm" => tmr.mail >= 1)

\* The list of a hart has each sleeper once that is marked as on it.
Has(s, x) == \E i \in DOMAIN s : s[i] = x
Once(s) == \A i, j \in DOMAIN s : s[i] = s[j] => i = j
ListOK(h) ==
  /\ \A a \in Sleepers : (act[a].on /\ act[a].slpHart = h) <=> Has(hart[h].slp, a)
  /\ Once(hart[h].slp)
ListsOK == \A h \in Harts : ListOK(h)
SleepersOK ==
  ~act[Svc].on /\ count.sleepers = Cardinality({a \in Sleepers : act[a].on})

\* What a hart armed for its list; what it knows of its queue and its bell.
Armed(h) ==
  hart[h].slp # <<>> =>
    hart[h].cmp # 0 /\ \A i \in DOMAIN hart[h].slp :
      hart[h].cmp <= act[hart[h].slp[i]].wakeAt \/ hart[h].cmp <= now + 1
Doze(h) ==
  /\ hart[h].waiting <=> hart[h].pc \in {"wait", "asleep", "leave"}
  /\ hart[h].pc \in {"wfi", "raise", "wait", "asleep"} =>
       (ready[h] = {} \/ hart[h].bell) /\ Armed(h)
  /\ hart[h].pc = "asleep" /\ hart[h].bell => \E s \in Harts : <<s, h>> \in ringing
Dozes == \A h \in Harts : Doze(h)

\* The inductive invariant.
IInv == Types /\ Parks /\ Counted /\ MailOK /\ ListsOK /\ SleepersOK /\ Dozes

-----------------------------------------------------------------------------
\* The records and their fields; what one actor, one hart, a wake or a ring changes.

\* the sizes and names, from the assumption on the constants
LEMMA Const ==
  /\ HartCount \in Nat \ {0} /\ Spans \subseteq Nat \ {0} /\ Detect \in Nat \ {0}
  /\ MaxTime \in Nat \ {0} /\ Sleeps \in Nat /\ Arms \in Nat /\ Pokes \in Nat /\ Steals \in Nat
  /\ IsFiniteSet(Sleepers) /\ Svc \notin Sleepers /\ Svc \in Actors /\ Sleepers \subseteq Actors
  /\ None \notin Actors /\ None \notin Harts
  /\ 0 \in Harts /\ IrqHart \in Harts /\ Harts \subseteq Nat
  /\ IsFiniteSet(Actors)
<1>1. IsFiniteSet({Svc})
  BY FS_Singleton
<1>2. IsFiniteSet(Actors)
  BY <1>1, SleepAssumption, FS_Union DEF Actors
<1> QED BY <1>2, SleepAssumption DEF Actors, Harts, IrqHart

\* positions in a list
LEMMA PlaceIs == 1 \in Places /\ \A n \in Places : n \in Nat /\ n >= 1 /\ n + 1 \in Places
  BY DEF Places

\* the fields of an actor by their types
LEMMA ActIs ==
  ASSUME NEW x \in ActRec
  PROVE  /\ x.pc \in ActPcs /\ x.var \in {"READY", "BLOCKED", "DEAD"} /\ x.hart \in Harts
         /\ x.on \in BOOLEAN /\ x.slpHart \in Harts /\ x.wakeAt \in Nat
         /\ x.running \in Harts \cup {None} /\ x.parked \in BOOLEAN /\ x.reaped \in BOOLEAN
         /\ x.left \in Int
  BY DEF ActRec

\* the fields of a hart by their types
LEMMA HartIs ==
  ASSUME NEW x \in HartRec
  PROVE  /\ x.pc \in HartPcs /\ x.cur \in Actors \cup {None} /\ x.again \in BOOLEAN
         /\ x.slp \in Seq(Sleepers) /\ x.at \in Places /\ x.cmp \in Nat /\ x.bell \in BOOLEAN
         /\ x.waiting \in BOOLEAN
  BY DEF HartRec

\* One actor changes.
ActOnly(a) == act' \in [Actors -> ActRec] /\ \A b \in Actors : b # a => act'[b] = act[b]

\* ... is so when its record is set
LEMMA ActSet ==
  ASSUME Types, NEW a \in Actors, NEW x \in ActRec, act' = [act EXCEPT ![a] = x]
  PROVE  ActOnly(a) /\ act'[a] = x
  BY DEF Types, ActOnly

\* One hart changes.
HartOnly(h) == hart' \in [Harts -> HartRec] /\ \A g \in Harts : g # h => hart'[g] = hart[g]

\* ... is so when its record is set
LEMMA HartSet ==
  ASSUME Types, NEW h \in Harts, NEW x \in HartRec, hart' = [hart EXCEPT ![h] = x]
  PROVE  HartOnly(h) /\ hart'[h] = x
  BY DEF Types, HartOnly

\* What a hart that sends may do to the harts H: raise bells, each with a ring.
Sent(s, H) ==
  /\ hart' \in [Harts -> HartRec]
  /\ \A g \in Harts :
       /\ hart'[g].pc = H[g].pc /\ hart'[g].cur = H[g].cur /\ hart'[g].again = H[g].again
       /\ hart'[g].slp = H[g].slp /\ hart'[g].at = H[g].at /\ hart'[g].cmp = H[g].cmp
       /\ hart'[g].waiting = H[g].waiting
       /\ H[g].bell => hart'[g].bell
       /\ hart'[g].bell => H[g].bell \/ \E r \in Harts : <<r, g>> \in ringing'
  /\ ringing \subseteq ringing' /\ ringing' \subseteq Harts \X Harts
  /\ ready' \in [Harts -> SUBSET Actors]
  /\ \A g \in Harts : g # s => ready'[g] \subseteq ready[g] \/ hart'[g].bell

\* a raised bell changes nothing else
LEMMA BellSet ==
  ASSUME NEW H \in [Harts -> HartRec], NEW h \in Harts
  PROVE  /\ Bell(H, h) \in [Harts -> HartRec]
         /\ Bell(H, h)[h] = [H[h] EXCEPT !.bell = TRUE]
         /\ \A g \in Harts : g # h => Bell(H, h)[g] = H[g]
<1>1. H[h] \in HartRec
  OBVIOUS
<1>2. [H[h] EXCEPT !.bell = TRUE] \in HartRec
  BY <1>1 DEF HartRec
<1> QED BY <1>2 DEF Bell

\* a hart that rings nobody
LEMMA SentQuiet ==
  ASSUME Types, NEW s \in Harts, hart' \in [Harts -> HartRec], UNCHANGED ringing,
         ready' \in [Harts -> SUBSET Actors],
         \A g \in Harts : g # s => ready'[g] \subseteq ready[g]
  PROVE  Sent(s, hart')
  BY DEF Types, Sent

\* a hart that rings another
LEMMA SentRung ==
  ASSUME Types, NEW s \in Harts, NEW h \in Harts, s # h, NEW H \in [Harts -> HartRec],
         hart' = Bell(H, h), ringing' = Ring(ringing, s, h),
           ready' \in [Harts -> SUBSET Actors],
         \A g \in Harts : g # s /\ g # h => ready'[g] \subseteq ready[g]
  PROVE  Sent(s, H)
<1>1. /\ hart' \in [Harts -> HartRec] /\ hart'[h] = [H[h] EXCEPT !.bell = TRUE]
      /\ \A g \in Harts : g # h => hart'[g] = H[g]
  BY BellSet
<1>2. H[h] \in HartRec
  OBVIOUS
<1>3. /\ hart'[h].pc = H[h].pc /\ hart'[h].cur = H[h].cur /\ hart'[h].again = H[h].again
      /\ hart'[h].slp = H[h].slp /\ hart'[h].at = H[h].at /\ hart'[h].cmp = H[h].cmp
      /\ hart'[h].waiting = H[h].waiting /\ hart'[h].bell = TRUE
  BY <1>1, <1>2 DEF HartRec
<1>4. ringing' = ringing \cup {<<s, h>>} /\ ringing \subseteq Harts \X Harts
  BY DEF Ring, Types
<1>5. ASSUME NEW g \in Harts
      PROVE  /\ hart'[g].pc = H[g].pc /\ hart'[g].cur = H[g].cur /\ hart'[g].again = H[g].again
             /\ hart'[g].slp = H[g].slp /\ hart'[g].at = H[g].at /\ hart'[g].cmp = H[g].cmp
             /\ hart'[g].waiting = H[g].waiting
             /\ H[g].bell => hart'[g].bell
             /\ hart'[g].bell => H[g].bell \/ \E r \in Harts : <<r, g>> \in ringing'
             /\ g # s => ready'[g] \subseteq ready[g] \/ hart'[g].bell
  <2>1. CASE g = h
    BY <1>3, <1>4, <2>1
  <2>2. CASE g # h
    BY <1>1, <2>2
  <2> QED BY <2>1, <2>2
<1>6. ringing \subseteq ringing' /\ ringing' \subseteq Harts \X Harts
  BY <1>4
<1> QED BY <1>1, <1>5, <1>6 DEF Sent

\* ship, to its own queue or another's
LEMMA ShipEffect ==
  ASSUME Types, NEW a \in Actors, NEW s \in Harts, NEW H \in [Harts -> HartRec], Ship(a, s, H)
  PROVE  Sent(s, H)
<1>1. PICK h \in Harts : h = act[a].hart
  BY ActIs DEF Types
<1>2. /\ ready' = [ready EXCEPT ![h] = @ \cup {a}]
      /\ hart' = IF s = h THEN H ELSE Bell(H, h)
      /\ ringing' = IF s = h THEN ringing ELSE Ring(ringing, s, h)
  BY <1>1 DEF Ship
<1>3. ready' \in [Harts -> SUBSET Actors] /\ \A g \in Harts : g # h => ready'[g] = ready[g]
  BY <1>2 DEF Types
<1>4. CASE s = h
  BY <1>2, <1>3, <1>4, SentQuiet
<1>5. CASE s # h
  BY <1>2, <1>3, <1>5, SentRung
<1> QED BY <1>4, <1>5

\* All of an actor but its status word.
SameBut(x, y) ==
  /\ x.pc = y.pc /\ x.hart = y.hart /\ x.on = y.on /\ x.slpHart = y.slpHart
  /\ x.wakeAt = y.wakeAt /\ x.running = y.running /\ x.parked = y.parked /\ x.reaped = y.reaped
\* Actor a may have been made ready.
Woken(a, A) ==
  /\ act' \in [Actors -> ActRec]
  /\ \A b \in Actors :
       /\ SameBut(act'[b], A[b])
       /\ act'[b].var = A[b].var \/ (b = a /\ act[a].var = "BLOCKED")

\* wake changes a status word, a queue and a bell at most
LEMMA WakeEffect ==
  ASSUME Types, NEW a \in Actors, NEW s \in Harts, NEW A \in [Actors -> ActRec],
         NEW H \in [Harts -> HartRec], Wake(a, s, A, H)
  PROVE  Sent(s, H) /\ Woken(a, A)
<1>1. CASE act[a].var = "BLOCKED"
  <2>1. act' = [A EXCEPT ![a].var = "READY"] /\ Ship(a, s, H)
    BY <1>1 DEF Wake
  <2>2. PICK x : x = A[a]
    OBVIOUS
  <2>3. x \in ActRec /\ act' = [A EXCEPT ![a] = [x EXCEPT !.var = "READY"]]
    BY <2>1, <2>2
  <2>4. [x EXCEPT !.var = "READY"] \in ActRec /\ SameBut([x EXCEPT !.var = "READY"], x)
    BY <2>3 DEF ActRec, SameBut
  <2>5. act' \in [Actors -> ActRec] /\ SameBut(act'[a], A[a])
        /\ \A b \in Actors : b # a => act'[b] = A[b]
    BY <2>2, <2>3, <2>4
  <2>6. Woken(a, A)
    BY <1>1, <2>5 DEF Woken, SameBut
  <2> QED BY <2>1, <2>6, ShipEffect
<1>2. CASE act[a].var # "BLOCKED"
  <2>1. act' = A /\ hart' = H /\ UNCHANGED <<ready, ringing>>
    BY <1>2 DEF Wake
  <2>2. act' \in [Actors -> ActRec] /\ \A b \in Actors : act'[b] = A[b]
    BY <2>1
  <2>3. ASSUME NEW b \in Actors PROVE SameBut(act'[b], A[b]) /\ act'[b].var = A[b].var
    <3>1. act'[b] = A[b]
      BY <2>2
    <3>2. SameBut(A[b], A[b])
      BY DEF SameBut
    <3> QED BY <3>1, <3>2
  <2>4. Woken(a, A)
    BY <2>2, <2>3 DEF Woken
  <2> QED BY <2>1, <2>4, SentQuiet DEF Types
<1> QED BY <1>1, <1>2

-----------------------------------------------------------------------------
\* What keeps a part of the invariant.

\* the parts of the invariant, and its instances
LEMMA Parts ==
  ASSUME IInv
  PROVE  /\ Types /\ Parks /\ Counted /\ MailOK /\ ListsOK /\ SleepersOK /\ Dozes
         /\ \A a \in Actors : act[a] \in ActRec /\ ParkOK(a)
         /\ \A h \in Harts : hart[h] \in HartRec /\ ListOK(h) /\ Doze(h)
  BY DEF IInv, Types, Parks, ListsOK, Dozes

\* No park begins or ends.
ParksSame ==
  /\ UNCHANGED count.blocked
  /\ \A a \in Actors :
       /\ act'[a].parked = act[a].parked
       /\ act[a].parked => act'[a].pc = act[a].pc /\ act'[a].reaped = act[a].reaped
       /\ act'[a].reaped => act'[a].var = "DEAD"

\* ... keeps the count of the blocked
LEMMA ParksFrame ==
  ASSUME Parks, Counted, ParksSame PROVE Parks' /\ Counted'
<1>1. {a \in Actors : act'[a].parked} = {a \in Actors : act[a].parked}
  BY DEF ParksSame
<1>2. Counted'
  BY <1>1 DEF Counted, ParksSame
<1>3. Parks'
  BY DEF Parks, ParkOK, ParksSame
<1> QED BY <1>2, <1>3

\* The parked actors change by one, and so does their count.
LEMMA ParksMore ==
  ASSUME Counted, NEW a \in Actors, ~act[a].parked, act'[a].parked,
         \A b \in Actors : b # a => act'[b].parked = act[b].parked,
         count'.blocked = count.blocked + 1
  PROVE  Counted'
<1>1. {b \in Actors : act'[b].parked} = {b \in Actors : act[b].parked} \cup {a}
  OBVIOUS
<1>2. IsFiniteSet({b \in Actors : act[b].parked}) /\ a \notin {b \in Actors : act[b].parked}
  BY Const, FS_Subset
<1>3. Cardinality({b \in Actors : act'[b].parked})
        = Cardinality({b \in Actors : act[b].parked}) + 1
  BY <1>1, <1>2, FS_AddElement
<1> QED BY <1>3 DEF Counted

\* ... or one less
LEMMA ParksLess ==
  ASSUME Counted, NEW a \in Actors, act[a].parked, ~act'[a].parked,
         \A b \in Actors : b # a => act'[b].parked = act[b].parked,
         count'.blocked = count.blocked - 1
  PROVE  Counted'
<1>1. {b \in Actors : act'[b].parked} = {b \in Actors : act[b].parked} \ {a}
  OBVIOUS
<1>2. IsFiniteSet({b \in Actors : act[b].parked}) /\ a \in {b \in Actors : act[b].parked}
  BY Const, FS_Subset
<1>3. Cardinality({b \in Actors : act'[b].parked})
        = Cardinality({b \in Actors : act[b].parked}) - 1
  BY <1>1, <1>2, FS_RemoveElement
<1> QED BY <1>3 DEF Counted

\* No list changes.
ListsSame ==
  /\ UNCHANGED count.sleepers
  /\ \A a \in Actors : act'[a].on = act[a].on /\ act'[a].slpHart = act[a].slpHart
  /\ \A h \in Harts : hart'[h].slp = hart[h].slp

\* ... keeps the lists and the count of sleepers
LEMMA ListsFrame ==
  ASSUME ListsOK, SleepersOK, ListsSame PROVE ListsOK' /\ SleepersOK'
<1>1. {a \in Sleepers : act'[a].on} = {a \in Sleepers : act[a].on}
  BY Const DEF ListsSame
<1>2. SleepersOK'
  BY <1>1, Const DEF SleepersOK, ListsSame
<1>3. ASSUME NEW h \in Harts PROVE ListOK(h)'
  <2>1. ListOK(h)
    BY DEF ListsOK
  <2> QED BY <2>1, Const DEF ListOK, ListsSame
<1> QED BY <1>2, <1>3 DEF ListsOK

\* A hart that is up: it runs, or looks for what to run.
Up(h) == hart'[h].pc \in {"tmr", "clear", "slp", "run"} /\ ~hart'[h].waiting

\* what a hart armed stays right while its list does
LEMMA ArmedKept ==
  ASSUME Types, NEW h \in Harts, ListOK(h), Armed(h), now' >= now, now' \in Nat,
         \A a \in Actors : act[a].on => act'[a].wakeAt = act[a].wakeAt,
         hart'[h].slp = hart[h].slp, hart'[h].cmp = hart[h].cmp
  PROVE  Armed(h)'
<1>1. hart[h] \in HartRec /\ now \in Nat /\ hart[h].cmp \in Nat /\ hart[h].slp \in Seq(Sleepers)
  BY HartIs, Const DEF Types
<1>2. ASSUME NEW i \in DOMAIN hart[h].slp
      PROVE  act'[hart[h].slp[i]].wakeAt = act[hart[h].slp[i]].wakeAt
  <2>1. hart[h].slp[i] \in Sleepers
    BY <1>1
  <2>2. act[hart[h].slp[i]].on
    BY <2>1 DEF ListOK, Has
  <2> QED BY <2>1, <2>2, Const
<1> QED BY <1>1, <1>2 DEF Armed

\* The harts in their park, while a hart that is up changes itself, ships and rings.
LEMMA DozesSent ==
  ASSUME Types, ListsOK, Dozes, NEW s \in Harts, NEW H \in [Harts -> HartRec], Sent(s, H),
         \A g \in Harts : g # s => H[g] = hart[g], Up(s), UNCHANGED now,
         \A a \in Actors : act[a].on => act'[a].wakeAt = act[a].wakeAt
  PROVE  Dozes'
<1>1. SUFFICES ASSUME NEW g \in Harts PROVE Doze(g)'
  BY DEF Dozes
<1>2. CASE g = s
  BY <1>2 DEF Doze, Up
<1>3. CASE g # s
  <2>1. Doze(g) /\ ListOK(g) /\ H[g] = hart[g] /\ now' \in Nat /\ now' >= now
    BY <1>3, Const DEF Dozes, ListsOK, Types
  <2>2. /\ hart'[g].pc = hart[g].pc /\ hart'[g].waiting = hart[g].waiting
        /\ hart'[g].slp = hart[g].slp /\ hart'[g].cmp = hart[g].cmp
        /\ hart[g].bell => hart'[g].bell
        /\ hart'[g].bell => hart[g].bell \/ \E r \in Harts : <<r, g>> \in ringing'
        /\ ready'[g] \subseteq ready[g] \/ hart'[g].bell
        /\ ringing \subseteq ringing'
    BY <1>3, <2>1 DEF Sent
  <2>3. Armed(g) => Armed(g)'
    BY <2>1, <2>2, ArmedKept
  <2> QED BY <2>1, <2>2, <2>3 DEF Doze
<1> QED BY <1>2, <1>3

\* A hart goes on in its loop, or to sleep, by itself.
LEMMA DozesOwn ==
  ASSUME Types, Dozes, NEW h \in Harts, HartOnly(h), UNCHANGED <<now, act, ready, ringing>>,
         Doze(h)'
  PROVE  Dozes'
<1>1. SUFFICES ASSUME NEW g \in Harts, g # h PROVE Doze(g)'
  BY DEF Dozes
<1>2. hart'[g] = hart[g] /\ Doze(g)
  BY <1>1 DEF HartOnly, Dozes
<1> QED BY <1>2 DEF Doze, Armed

\* Types, from what each step says.
LEMMA TypesStep ==
  ASSUME Types, now' \in 1..MaxTime, UNCHANGED hart \/ hart' \in [Harts -> HartRec],
         UNCHANGED act \/ act' \in [Actors -> ActRec],
         UNCHANGED ready \/ ready' \in [Harts -> SUBSET Actors],
         UNCHANGED ringing \/ ringing' \subseteq Harts \X Harts,
         UNCHANGED tmr \/ tmr' \in [dl : 0..MaxTime, mail : Int, pokes : Int, steals : Int],
         UNCHANGED count \/ count' \in [blocked : Int, sleepers : Int]
  PROVE  Types'
  BY DEF Types

\* the service still holds the request it arms for
LEMMA MailFrame ==
  ASSUME Types, MailOK, UNCHANGED tmr \/ tmr'.mail = tmr.mail \/ tmr'.mail = tmr.mail + 1,
         act'[Svc].pc = "arm" => act[Svc].pc = "arm"
  PROVE  MailOK'
  BY DEF MailOK, Types

-----------------------------------------------------------------------------
\* An actor looks at the clock, parks, ends.

\* a hart that is up is not waiting
LEMMA UpIs ==
  ASSUME Types, NEW h \in Harts, Doze(h), hart[h].pc \in {"tmr", "clear", "slp", "run"}
  PROVE  hart[h].waiting = FALSE
  BY HartIs DEF Types, Doze

\* where a pass begins
LEMMA FirstIs == ASSUME NEW h \in Harts PROVE First(h) \in {"tmr", "slp"}
  /\ First(h) \in HartPcs
  BY DEF First, HartPcs

\* to_sched, or the actor runs on
LEMMA RunsUp ==
  ASSUME Types, NEW h \in Harts, Doze(h), hart[h].pc = "run", hart' = hart \/ hart' = Left(h)
  PROVE  HartOnly(h) /\ Up(h) /\ hart'[h].slp = hart[h].slp
<1>1. hart[h].waiting = FALSE /\ hart[h] \in HartRec
  BY UpIs DEF Types
<1>2. CASE hart' = hart
  BY <1>1, <1>2 DEF HartOnly, Up, Types
<1>3. CASE hart' = Left(h)
  <2> DEFINE x == [hart[h] EXCEPT !.pc = First(h), !.cur = None, !.at = 1]
  <2>1. /\ x \in HartRec /\ x.pc = First(h) /\ x.waiting = FALSE /\ x.slp = hart[h].slp
    BY <1>1, FirstIs, PlaceIs DEF HartRec
  <2>2. hart' = [hart EXCEPT ![h] = x]
    BY <1>3 DEF Left
  <2> HIDE DEF x
  <2>3. HartOnly(h) /\ hart'[h] = x
    BY <2>1, <2>2, HartSet
  <2> QED BY <2>1, <2>3, FirstIs DEF Up
<1> QED BY <1>2, <1>3

\* A step of an actor that touches no list and sends nothing.
LEMMA OwnStep ==
  ASSUME IInv, NEW h \in Harts, NEW a \in Actors, hart[h].pc = "run", ActOnly(a),
         hart' = hart \/ hart' = Left(h), UNCHANGED <<now, ready, ringing, tmr>>,
         count' \in [blocked : Int, sleepers : Int], UNCHANGED count.sleepers,
         act'[a].on = act[a].on, act'[a].slpHart = act[a].slpHart,
         act'[a].wakeAt = act[a].wakeAt,
         act'[Svc].pc = "arm" => tmr.mail >= 1, Parks', Counted'
  PROVE  IInv'
<1>1. /\ Types /\ Parks /\ Counted /\ MailOK /\ ListsOK /\ SleepersOK /\ Dozes
      /\ Doze(h) /\ hart[h] \in HartRec
  BY Parts
<1>2. HartOnly(h) /\ Up(h) /\ hart'[h].slp = hart[h].slp
  BY <1>1, RunsUp
<1>3. Types'
  BY <1>1, <1>2, TypesStep DEF HartOnly, ActOnly, Types
<1>4. MailOK'
  BY <1>1 DEF MailOK
<1>5. ListsOK' /\ SleepersOK'
  BY <1>1, <1>2, ListsFrame DEF ListsSame, ActOnly, HartOnly
<1>6. Dozes'
  <2>1. Sent(h, hart')
    BY <1>1, <1>2, SentQuiet DEF HartOnly, Types
  <2> QED BY <1>1, <1>2, <2>1, DozesSent DEF HartOnly, ActOnly
<1> QED BY <1>3, <1>4, <1>5, <1>6 DEF IInv

\* to_sched changes the marks of an actor at most
LEMMA OutIs ==
  ASSUME NEW x \in ActRec
  PROVE  /\ Out(x) \in ActRec /\ Out(x).pc = x.pc /\ Out(x).var = x.var /\ Out(x).on = x.on
         /\ Out(x).slpHart = x.slpHart /\ Out(x).wakeAt = x.wakeAt
         /\ x.var = "DEAD" => Out(x).reaped /\ ~Out(x).parked
         /\ x.var # "DEAD" => Out(x).reaped = x.reaped /\ Out(x).parked = x.parked
  BY Const DEF Out, ActRec

\* a step of an actor outside its park
LEMMA ParksOut ==
  ASSUME IInv, NEW a \in Actors, ActOnly(a), UNCHANGED count.blocked, act[a].pc # "parked",
         ~act'[a].parked, act'[a].reaped => act'[a].var = "DEAD"
  PROVE  Parks' /\ Counted'
<1>1. Parks /\ Counted /\ Types /\ ParkOK(a)
  BY Parts
<1>2. ~act[a].parked
  BY <1>1 DEF ParkOK
<1>3. act[a].parked = act'[a].parked
  BY <1>1, <1>2, ActIs DEF ActOnly, Types
<1> QED BY <1>1, <1>2, <1>3, ParksFrame DEF ParksSame, ActOnly, Parks, ParkOK

\* the host's sleep returns
LEMMA StepHostSlept ==
  ASSUME IInv, NEW h \in Harts, NEW a \in Actors, HostSlept(h, a) PROVE IInv'
<1>1. Types /\ MailOK /\ ParkOK(a) /\ act[a] \in ActRec
  BY Parts
<1>2. [act[a] EXCEPT !.pc = "go"] \in ActRec
  BY <1>1 DEF ActRec, ActPcs
<1>3. /\ ActOnly(a) /\ act'[a] = [act[a] EXCEPT !.pc = "go"] /\ hart[h].pc = "run"
      /\ act[a].pc = "host" /\ UNCHANGED <<now, hart, ready, ringing, tmr, count>>
  BY <1>1, <1>2, ActSet DEF HostSlept, Runs
<1>4. /\ act'[a].pc = "go" /\ act'[a].on = act[a].on /\ act'[a].slpHart = act[a].slpHart
      /\ act'[a].wakeAt = act[a].wakeAt /\ act'[a].parked = act[a].parked
      /\ act'[a].reaped = act[a].reaped /\ act'[a].var = act[a].var
  BY <1>1, <1>3 DEF ActRec
<1>5. Parks' /\ Counted'
  BY <1>1, <1>3, <1>4, ParksOut DEF ParkOK
<1>6. act'[Svc].pc = "arm" => tmr.mail >= 1
  BY <1>1, <1>3, <1>4, Const DEF ActOnly, MailOK
<1> QED BY <1>1, <1>3, <1>4, <1>5, <1>6, OwnStep DEF Types

\* the first look of block_unless
LEMMA StepCheck ==
  ASSUME IInv, NEW h \in Harts, NEW a \in Actors, Check(h, a) PROVE IInv'
<1>1. Types /\ MailOK /\ ParkOK(a) /\ act[a] \in ActRec
  BY Parts
<1> DEFINE x == IF Holds(a) THEN [act[a] EXCEPT !.pc = Past(a)]
                ELSE IF act[a].var = "READY"
                THEN [act[a] EXCEPT !.pc = "look", !.var = "BLOCKED"]
                ELSE Out([act[a] EXCEPT !.pc = "end"])
<1>2. [act[a] EXCEPT !.pc = "end"] \in ActRec
  BY <1>1 DEF ActRec, ActPcs
<1>3. ~act[a].parked /\ act[a].pc = "check"
  BY <1>1 DEF ParkOK, Check
<1>4. /\ x \in ActRec /\ x.on = act[a].on /\ x.slpHart = act[a].slpHart
      /\ x.wakeAt = act[a].wakeAt /\ ~x.parked
      /\ x.reaped => x.var = "DEAD"
      /\ a = Svc /\ x.pc = "arm" => tmr.mail >= 1
  <2>1. CASE Holds(a)
    <3>1. Past(a) \in ActPcs /\ x = [act[a] EXCEPT !.pc = Past(a)]
      BY <2>1 DEF Past, ActPcs
    <3>2. /\ x \in ActRec /\ x.on = act[a].on /\ x.slpHart = act[a].slpHart
          /\ x.wakeAt = act[a].wakeAt /\ x.parked = act[a].parked
          /\ x.reaped = act[a].reaped /\ x.var = act[a].var
      BY <1>1, <3>1 DEF ActRec
    <3>3. a = Svc => tmr.mail >= 1
      BY <1>1, <2>1 DEF Holds, Types
    <3> QED BY <1>1, <1>3, <3>2, <3>3 DEF ParkOK
  <2>2. CASE ~Holds(a) /\ act[a].var = "READY"
    <3>1. x = [act[a] EXCEPT !.pc = "look", !.var = "BLOCKED"]
      BY <2>2
    <3>2. /\ x \in ActRec /\ x.on = act[a].on /\ x.slpHart = act[a].slpHart
          /\ x.wakeAt = act[a].wakeAt /\ x.parked = act[a].parked
          /\ x.reaped = act[a].reaped /\ x.pc = "look"
      BY <1>1, <3>1 DEF ActRec, ActPcs
    <3>3. ~act[a].reaped
      BY <1>1, <2>2 DEF ParkOK
    <3> QED BY <1>3, <3>2, <3>3
  <2>3. CASE ~Holds(a) /\ act[a].var # "READY"
    <3> DEFINE y == [act[a] EXCEPT !.pc = "end"]
    <3>1. x = Out(y) /\ y \in ActRec
      BY <2>3, <1>2
    <3>2. /\ y.on = act[a].on /\ y.slpHart = act[a].slpHart /\ y.wakeAt = act[a].wakeAt
          /\ y.parked = act[a].parked /\ y.reaped = act[a].reaped /\ y.var = act[a].var
          /\ y.pc = "end"
      BY <1>1 DEF ActRec
    <3> HIDE DEF x, y
    <3> QED BY <1>1, <1>3, <3>1, <3>2, OutIs DEF ParkOK
  <2> QED BY <2>1, <2>2, <2>3
<1>5. /\ act' = [act EXCEPT ![a] = x] /\ hart[h].pc = "run"
      /\ hart' = hart \/ hart' = Left(h)
      /\ UNCHANGED <<now, ready, ringing, tmr, count>>
  BY DEF Check, Runs
<1> HIDE DEF x
<1>6. ActOnly(a) /\ act'[a] = x
  BY <1>1, <1>4, <1>5, ActSet
<1>7. Parks' /\ Counted'
  BY <1>3, <1>4, <1>5, <1>6, ParksOut
<1>8. act'[Svc].pc = "arm" => tmr.mail >= 1
  BY <1>1, <1>4, <1>6, Const DEF ActOnly, MailOK
<1> QED BY <1>1, <1>4, <1>5, <1>6, <1>7, <1>8, OwnStep DEF Types

\* the second look, and the park
LEMMA StepLook ==
  ASSUME IInv, NEW h \in Harts, NEW a \in Actors, Look(h, a) PROVE IInv'
<1>1. Types /\ MailOK /\ ParkOK(a) /\ act[a] \in ActRec /\ Parks /\ Counted
  BY Parts
<1>2. ~act[a].parked /\ act[a].pc = "look" /\ hart[h].pc = "run"
  BY <1>1 DEF ParkOK, Look, Runs
<1>3. CASE Holds(a)
  <2> DEFINE x == [act[a] EXCEPT !.pc = Past(a),
                     !.var = IF act[a].var = "BLOCKED" THEN "READY" ELSE act[a].var]
  <2>1. Past(a) \in ActPcs
    BY DEF Past, ActPcs
  <2>2. /\ x \in ActRec /\ x.on = act[a].on /\ x.slpHart = act[a].slpHart
        /\ x.wakeAt = act[a].wakeAt /\ x.parked = act[a].parked /\ x.reaped = act[a].reaped
        /\ x.var = IF act[a].var = "BLOCKED" THEN "READY" ELSE act[a].var
    BY <1>1, <2>1 DEF ActRec
  <2>3. act' = [act EXCEPT ![a] = x] /\ UNCHANGED <<now, hart, ready, ringing, tmr, count>>
    BY <1>3 DEF Look
  <2> HIDE DEF x
  <2>4. ActOnly(a) /\ act'[a] = x
    BY <1>1, <2>2, <2>3, ActSet
  <2>5. a = Svc => tmr.mail >= 1
    BY <1>1, <1>3 DEF Holds, Types
  <2>6. act'[Svc].pc = "arm" => tmr.mail >= 1
    BY <1>1, <2>4, <2>5, Const DEF ActOnly, MailOK
  <2>7. Parks' /\ Counted'
    BY <1>1, <1>2, <2>2, <2>3, <2>4, ParksOut DEF ParkOK
  <2> QED BY <1>1, <1>2, <2>2, <2>3, <2>4, <2>6, <2>7, OwnStep DEF Types
<1>4. CASE ~Holds(a)
  <2> DEFINE y == [act[a] EXCEPT !.pc = "parked", !.parked = TRUE]
  <2>1. /\ y \in ActRec /\ y.on = act[a].on /\ y.slpHart = act[a].slpHart /\ y.pc = "parked"
        /\ y.wakeAt = act[a].wakeAt /\ y.parked /\ y.reaped = act[a].reaped
        /\ y.var = act[a].var
    BY <1>1 DEF ActRec, ActPcs
  <2>2. /\ act' = [act EXCEPT ![a] = Out(y)] /\ hart' = Left(h)
        /\ UNCHANGED <<now, ready, ringing, tmr>>
        /\ count' = IF act[a].var = "DEAD" THEN count ELSE [count EXCEPT !.blocked = @ + 1]
    BY <1>4 DEF Look
  <2> HIDE DEF y
  <2>3. ActOnly(a) /\ act'[a] = Out(y)
    <3>1. Out(y) \in ActRec
      BY <2>1, OutIs
    <3> QED BY <1>1, <2>2, <3>1, ActSet
  <2>4. /\ count' \in [blocked : Int, sleepers : Int] /\ UNCHANGED count.sleepers
        /\ count'.blocked = IF act[a].var = "DEAD" THEN count.blocked ELSE count.blocked + 1
    BY <1>1, <2>2 DEF Types
  <2>5. Parks' /\ Counted'
    <3>1. CASE act[a].var = "DEAD"
      <4>1. ~act'[a].parked /\ act'[a].reaped /\ act'[a].var = "DEAD"
        BY <2>1, <2>3, <3>1, OutIs
      <4> QED BY <1>2, <2>3, <2>4, <3>1, <4>1, ParksOut
    <3>2. CASE act[a].var # "DEAD"
      <4>1. ~act[a].reaped
        BY <1>1, <3>2 DEF ParkOK
      <4>2. act'[a].parked /\ ~act'[a].reaped /\ act'[a].pc = "parked"
        BY <2>1, <2>3, <3>2, <4>1, OutIs
      <4>3. Counted'
        BY <1>1, <1>2, <2>3, <2>4, <3>2, <4>2, ParksMore DEF ActOnly
      <4> QED BY <1>1, <2>3, <4>2, <4>3 DEF Parks, ParkOK, ActOnly
    <3> QED BY <3>1, <3>2
  <2>6. act'[Svc].pc = "arm" => tmr.mail >= 1
    BY <1>1, <2>1, <2>3, Const, OutIs DEF ActOnly, MailOK
  <2> QED BY <1>1, <1>2, <2>1, <2>2, <2>3, <2>4, <2>5, <2>6, OutIs, OwnStep
<1> QED BY <1>3, <1>4

\* its body ends
LEMMA StepEnd ==
  ASSUME IInv, NEW h \in Harts, NEW a \in Actors, End(h, a) PROVE IInv'
<1>1. Types /\ MailOK /\ ParkOK(a) /\ act[a] \in ActRec
  BY Parts
<1> DEFINE y == [act[a] EXCEPT !.pc = "end", !.var = "DEAD"]
<1>2. /\ y \in ActRec /\ y.on = act[a].on /\ y.slpHart = act[a].slpHart /\ y.pc = "end"
      /\ y.wakeAt = act[a].wakeAt /\ y.var = "DEAD"
  BY <1>1 DEF ActRec, ActPcs
<1>3. /\ act' = [act EXCEPT ![a] = Out(y)] /\ hart' = Left(h) /\ hart[h].pc = "run"
      /\ UNCHANGED <<now, ready, ringing, tmr, count>> /\ act[a].pc = "go"
  BY DEF End, Runs
<1> HIDE DEF y
<1>4. ActOnly(a) /\ act'[a] = Out(y)
  BY <1>1, <1>2, <1>3, ActSet, OutIs
<1>5. Parks' /\ Counted'
  BY <1>2, <1>3, <1>4, ParksOut, OutIs
<1>6. act'[Svc].pc = "arm" => tmr.mail >= 1
  BY <1>1, <1>2, <1>4, Const, OutIs DEF ActOnly, MailOK
<1> QED BY <1>1, <1>2, <1>3, <1>4, <1>5, <1>6, OutIs, OwnStep DEF Types

-----------------------------------------------------------------------------
\* Lists: an entry put in front, an entry taken out.

\* A sequence with an entry put in front ...
LEMMA SeqPut ==
  ASSUME NEW S, NEW s \in Seq(S), NEW e \in S
  PROVE  /\ <<e>> \o s \in Seq(S) /\ Len(<<e>> \o s) = Len(s) + 1
         /\ \A i \in 1..(Len(s) + 1) : (<<e>> \o s)[i] = IF i = 1 THEN e ELSE s[i - 1]
  OBVIOUS

\* ... with one taken out
LEMMA SeqOut ==
  ASSUME NEW S, NEW s \in Seq(S), NEW k \in 1..Len(s)
  PROVE  /\ RemoveAt(s, k) \in Seq(S) /\ Len(RemoveAt(s, k)) = Len(s) - 1
         /\ \A i \in 1..(Len(s) - 1) : RemoveAt(s, k)[i] = IF i < k THEN s[i] ELSE s[i + 1]
<1>1. PICK p : p = SubSeq(s, 1, k - 1)
  OBVIOUS
<1>2. p \in Seq(S) /\ Len(p) = k - 1 /\ \A i \in 1..(k - 1) : p[i] = s[i]
  BY <1>1
<1>3. PICK q : q = SubSeq(s, k + 1, Len(s))
  OBVIOUS
<1>4. q \in Seq(S) /\ Len(q) = Len(s) - k /\ \A i \in 1..(Len(s) - k) : q[i] = s[k + i]
  BY <1>3
<1>5. RemoveAt(s, k) = p \o q
  BY <1>1, <1>3 DEF RemoveAt
<1>6. p \o q \in Seq(S) /\ Len(p \o q) = Len(s) - 1
  BY <1>2, <1>4
<1>7. ASSUME NEW i \in 1..(Len(s) - 1) PROVE (p \o q)[i] = IF i < k THEN s[i] ELSE s[i + 1]
  <2>1. (p \o q)[i] = IF i <= k - 1 THEN p[i] ELSE q[i - (k - 1)]
    BY <1>2, <1>4
  <2> QED BY <1>2, <1>4, <2>1
<1> QED BY <1>5, <1>6, <1>7

\* What a list holds after either.
LEMMA PutHas ==
  ASSUME NEW S, NEW s \in Seq(S), NEW e \in S, NEW t, t = <<e>> \o s,
         ~Has(s, e), Once(s)
  PROVE  t \in Seq(S) /\ Once(t) /\ \A x : Has(t, x) <=> (x = e \/ Has(s, x))
<1> USE DEF Has, Once
<1>1. /\ t \in Seq(S) /\ Len(t) = Len(s) + 1
      /\ \A i \in 1..(Len(s) + 1) : t[i] = IF i = 1 THEN e ELSE s[i - 1]
  BY SeqPut
<1>2. DOMAIN t = 1..(Len(s) + 1) /\ DOMAIN s = 1..Len(s) /\ Len(s) \in Nat
  BY <1>1
<1>3. ASSUME NEW i \in DOMAIN t, NEW j \in DOMAIN t, t[i] = t[j] PROVE i = j
  BY <1>1, <1>2, <1>3
<1>4. ASSUME NEW x, NEW i \in DOMAIN t, t[i] = x PROVE x = e \/ \E j \in DOMAIN s : s[j] = x
  BY <1>1, <1>2, <1>4
<1>5. ASSUME NEW x, NEW i \in DOMAIN s, s[i] = x PROVE \E j \in DOMAIN t : t[j] = x
  <2>1. i + 1 \in DOMAIN t /\ t[i + 1] = s[i]
    BY <1>1, <1>2
  <2> QED BY <1>5, <2>1
<1>6. \E j \in DOMAIN t : t[j] = e
  <2>1. 1 \in DOMAIN t /\ t[1] = e
    BY <1>1, <1>2
  <2> QED BY <2>1
<1> QED BY <1>1, <1>3, <1>4, <1>5, <1>6

\* ... after one is taken out
LEMMA OutHas ==
  ASSUME NEW S, NEW s \in Seq(S), NEW k \in DOMAIN s, NEW t, t = RemoveAt(s, k),
         Once(s)
  PROVE  t \in Seq(S) /\ Once(t) /\ \A x : Has(t, x) <=> (x # s[k] /\ Has(s, x))
<1> USE DEF Has, Once
<1>1. DOMAIN s = 1..Len(s) /\ Len(s) \in Nat /\ k \in 1..Len(s)
  OBVIOUS
<1>2. /\ t \in Seq(S) /\ Len(t) = Len(s) - 1
      /\ \A i \in 1..(Len(s) - 1) : t[i] = IF i < k THEN s[i] ELSE s[i + 1]
  BY <1>1, SeqOut
<1>3. DOMAIN t = 1..(Len(s) - 1)
  BY <1>2
<1> DEFINE up(i) == IF i < k THEN i ELSE i + 1
<1>4. ASSUME NEW i \in DOMAIN t
      PROVE  up(i) \in DOMAIN s /\ up(i) # k /\ t[i] = s[up(i)]
  BY <1>1, <1>2, <1>3
<1>5. ASSUME NEW i \in DOMAIN t, NEW j \in DOMAIN t, t[i] = t[j] PROVE i = j
  <2>1. up(i) = up(j)
    BY <1>4, <1>5
  <2> QED BY <1>1, <1>3, <2>1
<1>6. ASSUME NEW x, NEW i \in DOMAIN t, t[i] = x PROVE x # s[k] /\ \E j \in DOMAIN s : s[j] = x
  BY <1>4, <1>6
<1>7. ASSUME NEW i \in DOMAIN s, i # k PROVE \E j \in DOMAIN t : t[j] = s[i]
  <2>1. CASE i < k
    <3>1. i \in DOMAIN t /\ t[i] = s[i]
      BY <1>1, <1>2, <1>3, <2>1
    <3> QED BY <3>1
  <2>2. CASE i > k
    <3>1. i - 1 \in DOMAIN t /\ t[i - 1] = s[i]
      BY <1>1, <1>2, <1>3, <2>2
    <3> QED BY <3>1
  <2> QED BY <1>1, <1>7, <2>1, <2>2
<1> QED BY <1>2, <1>5, <1>6, <1>7

\* Actor a, in no list, is put on the list of hart h.
LEMMA ListsPut ==
  ASSUME Types, ListsOK, SleepersOK, NEW h \in Harts, NEW a \in Sleepers, ActOnly(a),
         ~act[a].on, act'[a].on, act'[a].slpHart = h, HartOnly(h),
         hart'[h].slp = <<a>> \o hart[h].slp, count'.sleepers = count.sleepers + 1
  PROVE  ListsOK' /\ SleepersOK'
<1>1. SleepersOK'
  <2>1. {b \in Sleepers : act'[b].on} = {b \in Sleepers : act[b].on} \cup {a}
    BY Const DEF ActOnly
  <2>2. IsFiniteSet({b \in Sleepers : act[b].on}) /\ a \notin {b \in Sleepers : act[b].on}
    BY Const, FS_Subset
  <2>3. Cardinality({b \in Sleepers : act'[b].on})
          = Cardinality({b \in Sleepers : act[b].on}) + 1
    BY <2>1, <2>2, FS_AddElement
  <2> QED BY <2>3, Const DEF SleepersOK, ActOnly
<1>2. ASSUME NEW g \in Harts PROVE ListOK(g)'
  <2>1. ListOK(g) /\ hart[g].slp \in Seq(Sleepers)
    BY HartIs DEF ListsOK, Types
  <2>2. \A b \in Sleepers : b # a => act'[b] = act[b]
    BY Const DEF ActOnly
  <2>3. CASE g # h
    <3>1. hart'[g].slp = hart[g].slp
      BY <2>3 DEF HartOnly
    <3> QED BY <2>1, <2>2, <2>3, <3>1 DEF ListOK
  <2>4. CASE g = h
    <3>1. ~Has(hart[g].slp, a) /\ Once(hart[g].slp)
      BY <2>1 DEF ListOK
    <3>2. PICK s, t : s = hart[g].slp /\ t = hart'[g].slp
      OBVIOUS
    <3>3. Once(t) /\ \A x : Has(t, x) <=> (x = a \/ Has(s, x))
      <4>1. a \in Sleepers /\ t = <<a>> \o s /\ s \in Seq(Sleepers) /\ ~Has(s, a) /\ Once(s)
        BY <2>1, <2>4, <3>1, <3>2
      <4> QED BY ONLY <4>1, PutHas, Zenon
    <3>4. \A b \in Sleepers : (act'[b].on /\ act'[b].slpHart = g) <=> Has(t, b)
      BY <2>1, <2>2, <2>4, <3>2, <3>3 DEF ListOK
    <3> QED BY <3>2, <3>3, <3>4 DEF ListOK
  <2> QED BY <2>3, <2>4
<1> QED BY <1>1, <1>2 DEF ListsOK

\* The entry of a at k is taken out of the list of hart h.
LEMMA ListsOut ==
  ASSUME Types, ListsOK, SleepersOK, NEW h \in Harts, NEW k \in DOMAIN hart[h].slp,
         NEW a, a = hart[h].slp[k],
         act' \in [Actors -> ActRec],
         \A b \in Actors : act'[b].slpHart = act[b].slpHart
           /\ (b # a => act'[b].on = act[b].on),
         ~act'[a].on, hart'[h].slp = RemoveAt(hart[h].slp, k),
         \A g \in Harts : g # h => hart'[g].slp = hart[g].slp,
         count'.sleepers = count.sleepers - 1
  PROVE  ListsOK' /\ SleepersOK'
<1>1. hart[h].slp \in Seq(Sleepers) /\ ListOK(h)
  BY HartIs DEF ListsOK, Types
<1>2. a \in Sleepers /\ a \in Actors /\ act[a].on /\ act[a].slpHart = h
  BY <1>1, Const DEF ListOK, Has
<1>3. SleepersOK'
  <2>1. {b \in Sleepers : act'[b].on} = {b \in Sleepers : act[b].on} \ {a}
    BY Const
  <2>2. PICK O : O = {b \in Sleepers : act[b].on}
    OBVIOUS
  <2>3. IsFiniteSet(O) /\ a \in O
    BY <1>2, <2>2, Const, FS_Subset
  <2>4. Cardinality(O \ {a}) = Cardinality(O) - 1
    <3>1. Cardinality(O \ {a}) = IF a \in O THEN Cardinality(O) - 1 ELSE Cardinality(O)
      BY <2>3, FS_RemoveElement, Zenon
    <3> QED BY <2>3, <3>1
  <2> QED BY <1>2, <2>1, <2>2, <2>4, Const DEF SleepersOK
<1>4. ASSUME NEW g \in Harts PROVE ListOK(g)'
  <2>1. ListOK(g) /\ \A b \in Sleepers : b \in Actors
    BY Const DEF ListsOK
  <2>2. CASE g # h
    <3>1. hart'[g].slp = hart[g].slp /\ act[a].slpHart # g /\ act'[a].slpHart # g
      BY <1>2, <2>2
    <3>2. ASSUME NEW b \in Sleepers
          PROVE  (act'[b].on /\ act'[b].slpHart = g) <=> (act[b].on /\ act[b].slpHart = g)
      <4>1. CASE b = a
        BY <3>1, <4>1
      <4>2. CASE b # a
        BY <2>1, <4>2
      <4> QED BY <4>1, <4>2
    <3> QED BY <2>1, <3>1, <3>2 DEF ListOK
  <2>3. CASE g = h
    <3>1. PICK s, t : s = hart[g].slp /\ t = hart'[g].slp
      OBVIOUS
    <3>2. Once(t) /\ \A x : Has(t, x) <=> (x # a /\ Has(s, x))
      <4>1. Once(s)
        BY <1>1, <2>3, <3>1 DEF ListOK
      <4> QED BY <1>1, <2>3, <3>1, <4>1, OutHas
    <3>3. ASSUME NEW b \in Sleepers
          PROVE  (act'[b].on /\ act'[b].slpHart = g)
                   <=> (b # a /\ act[b].on /\ act[b].slpHart = g)
      <4>1. CASE b = a
        BY <4>1
      <4>2. CASE b # a
        BY <2>1, <4>2
      <4> QED BY <4>1, <4>2
    <3>4. \A b \in Sleepers : (act'[b].on /\ act'[b].slpHart = g) <=> Has(t, b)
      BY <2>1, <3>1, <3>2, <3>3 DEF ListOK
    <3> QED BY <3>1, <3>2, <3>4 DEF ListOK
  <2> QED BY <2>2, <2>3
<1> QED BY <1>3, <1>4 DEF ListsOK

-----------------------------------------------------------------------------
\* A sleep starts, and takes its own entry out.

\* The hart that runs actor a puts it on its list, or takes it out.
LEMMA ListHart ==
  ASSUME Types, NEW h \in Harts, Doze(h), hart[h].pc = "run", NEW s \in Seq(Sleepers),
         hart' = [hart EXCEPT ![h].slp = s]
  PROVE  HartOnly(h) /\ hart'[h].slp = s /\ Up(h)
<1>1. hart[h].waiting = FALSE /\ hart[h] \in HartRec
  BY UpIs DEF Types
<1> DEFINE x == [hart[h] EXCEPT !.slp = s]
<1>2. x \in HartRec /\ x.slp = s /\ x.pc = "run" /\ x.waiting = FALSE
  BY <1>1 DEF HartRec
<1>3. hart' = [hart EXCEPT ![h] = x]
  BY <1>1 DEF Types
<1> HIDE DEF x
<1>4. HartOnly(h) /\ hart'[h] = x
  BY <1>2, <1>3, HartSet
<1> QED BY <1>2, <1>4 DEF Up

\* a_sleep_us links, or sleeps in the host
LEMMA StepSleepStart ==
  ASSUME IInv, NEW h \in Harts, NEW a \in Sleepers, NEW d \in Spans, SleepStart(h, a, d)
  PROVE  IInv'
<1>1. /\ Types /\ MailOK /\ a \in Actors /\ a # Svc /\ act[a] \in ActRec /\ ParkOK(a)
      /\ Parks /\ Counted /\ Doze(h) /\ Dozes /\ ListsOK /\ SleepersOK
  BY Parts, Const
<1>2. hart[h].pc = "run" /\ act[a].pc = "go" /\ ~act[a].parked
      /\ UNCHANGED <<now, ready, ringing, tmr>>
  BY <1>1 DEF SleepStart, Runs, ParkOK
<1>l. PICK l \in Int : l = act[a].left - 1
  BY <1>1, ActIs
<1>3. CASE ~act[a].on
  <2> DEFINE x == [act[a] EXCEPT !.pc = "check", !.on = TRUE, !.slpHart = h,
                                 !.wakeAt = now + d, !.left = l]
  <2>1. now + d \in Nat
    BY <1>1, Const DEF Types
  <2>2. /\ x \in ActRec /\ x.on /\ x.slpHart = h /\ x.pc = "check" /\ x.parked = act[a].parked
        /\ x.reaped = act[a].reaped /\ x.var = act[a].var
    BY <1>1, <2>1 DEF ActRec, ActPcs
  <2>3. /\ act' = [act EXCEPT ![a] = x] /\ hart' = [hart EXCEPT ![h].slp = <<a>> \o hart[h].slp]
        /\ count' = [count EXCEPT !.sleepers = count.sleepers + 1]
    BY <1>3, <1>l DEF SleepStart, MayLink
  <2> HIDE DEF x
  <2>4. ActOnly(a) /\ act'[a] = x
    BY <1>1, <2>2, <2>3, ActSet
  <2>5. /\ HartOnly(h) /\ hart'[h].slp = <<a>> \o hart[h].slp /\ Up(h)
    <3>1. <<a>> \o hart[h].slp \in Seq(Sleepers)
      BY <1>1, HartIs, SeqPut DEF Types
    <3> QED BY <1>1, <1>2, <2>3, <3>1, ListHart
  <2>6. /\ count' \in [blocked : Int, sleepers : Int] /\ count'.sleepers = count.sleepers + 1
        /\ UNCHANGED count.blocked
    BY <1>1, <2>3 DEF Types
  <2>7. ListsOK' /\ SleepersOK'
    BY <1>1, <1>3, <2>2, <2>4, <2>5, <2>6, ListsPut
  <2>8. Parks' /\ Counted'
    BY <1>1, <1>2, <2>2, <2>4, <2>6, ParksOut DEF ParkOK
  <2>9. MailOK'
    BY <1>1, <1>2, <2>4, Const DEF MailOK, ActOnly
  <2>10. Dozes'
    <3>1. Sent(h, hart')
      BY <1>1, <1>2, <2>5, SentQuiet DEF HartOnly, Types
    <3> QED BY <1>1, <1>2, <1>3, <2>4, <2>5, <3>1, DozesSent DEF HartOnly, ActOnly
  <2>11. Types'
    BY <1>1, <1>2, <2>4, <2>5, <2>6, TypesStep DEF HartOnly, ActOnly, Types
  <2> QED BY <2>7, <2>8, <2>9, <2>10, <2>11 DEF IInv
<1>4. CASE act[a].on
  <2> DEFINE x == [act[a] EXCEPT !.pc = "host", !.left = l]
  <2>1. /\ x \in ActRec /\ x.on = act[a].on /\ x.slpHart = act[a].slpHart /\ x.pc = "host"
        /\ x.wakeAt = act[a].wakeAt /\ x.parked = act[a].parked /\ x.reaped = act[a].reaped
        /\ x.var = act[a].var
    BY <1>1 DEF ActRec, ActPcs
  <2>2. /\ act' = [act EXCEPT ![a].pc = "host", ![a].left = @ - 1] /\ UNCHANGED <<hart, count>>
    BY <1>4 DEF SleepStart, MayLink
  <2>3. act' = [act EXCEPT ![a] = x]
    BY <1>1, <1>l, <2>2 DEF Types
  <2> HIDE DEF x
  <2>4. ActOnly(a) /\ act'[a] = x
    BY <1>1, <2>1, <2>3, ActSet
  <2>5. Parks' /\ Counted'
    BY <1>1, <1>2, <2>1, <2>2, <2>4, ParksOut DEF ParkOK
  <2>6. act'[Svc].pc = "arm" => tmr.mail >= 1
    BY <1>1, <2>4, Const DEF ActOnly, MailOK
  <2> QED BY <1>1, <1>2, <2>1, <2>2, <2>4, <2>5, <2>6, OwnStep DEF Types
<1> QED BY <1>1, <1>3, <1>4, ActIs

\* The entry the walk finds.
LEMMA WithoutIs ==
  ASSUME NEW s \in Seq(Sleepers), NEW a, Has(s, a)
  PROVE  \E k \in DOMAIN s : s[k] = a /\ Without(s, a) = RemoveAt(s, k)
<1> DEFINE k == CHOOSE i \in 1..Len(s) : s[i] = a
<1>1. DOMAIN s = 1..Len(s)
  OBVIOUS
<1>2. \E i \in 1..Len(s) : s[i] = a
  BY <1>1 DEF Has
<1>3. k \in 1..Len(s) /\ s[k] = a
  BY <1>2
<1> QED BY <1>1, <1>3 DEF Without

\* the sleeper takes itself out of its own hart's list
LEMMA StepUnlink ==
  ASSUME IInv, NEW h \in Harts, NEW a \in Actors, Unlink(h, a)
  PROVE  IInv'
<1>1. /\ Types /\ MailOK /\ act[a] \in ActRec /\ ParkOK(a)
      /\ Parks /\ Counted /\ Doze(h) /\ Dozes /\ ListsOK /\ SleepersOK /\ ListOK(h)
      /\ hart[h].slp \in Seq(Sleepers)
  BY Parts, Const, HartIs
<1>2. hart[h].pc = "run" /\ act[a].pc = "unlink" /\ ~act[a].parked
      /\ UNCHANGED <<now, ready, ringing, tmr>>
  BY <1>1 DEF Unlink, Runs, ParkOK
<1>3. CASE act[a].on /\ act[a].slpHart = h
  <2> DEFINE x == [act[a] EXCEPT !.pc = "go", !.on = FALSE]
  <2>1. /\ x \in ActRec /\ ~x.on /\ x.slpHart = act[a].slpHart /\ x.pc = "go"
        /\ x.wakeAt = act[a].wakeAt /\ x.parked = act[a].parked /\ x.reaped = act[a].reaped
        /\ x.var = act[a].var
    BY <1>1 DEF ActRec, ActPcs
  <2>2. /\ act' = [act EXCEPT ![a] = x]
        /\ hart' = [hart EXCEPT ![h].slp = Without(hart[h].slp, a)]
        /\ count' = [count EXCEPT !.sleepers = count.sleepers - 1]
    BY <1>3 DEF Unlink
  <2> HIDE DEF x
  <2>3. ActOnly(a) /\ act'[a] = x
    BY <1>1, <2>1, <2>2, ActSet
  <2>4. PICK k \in DOMAIN hart[h].slp :
          hart[h].slp[k] = a /\ Without(hart[h].slp, a) = RemoveAt(hart[h].slp, k)
    <3>1. Has(hart[h].slp, a)
      BY <1>1, <1>3 DEF ListOK, Actors, SleepersOK
    <3> QED BY <1>1, <3>1, WithoutIs
  <2>5. RemoveAt(hart[h].slp, k) \in Seq(Sleepers)
    BY <1>1, SeqOut
  <2>6. HartOnly(h) /\ hart'[h].slp = RemoveAt(hart[h].slp, k) /\ Up(h)
    BY <1>1, <1>2, <2>2, <2>4, <2>5, ListHart
  <2>7. /\ count' \in [blocked : Int, sleepers : Int] /\ count'.sleepers = count.sleepers - 1
        /\ UNCHANGED count.blocked
    BY <1>1, <2>2 DEF Types
  <2>8. ListsOK' /\ SleepersOK'
    BY <1>1, <2>1, <2>3, <2>4, <2>6, <2>7, ListsOut DEF ActOnly, HartOnly
  <2>9. Parks' /\ Counted'
    BY <1>1, <1>2, <2>1, <2>3, <2>7, ParksOut DEF ParkOK
  <2>10. MailOK'
    BY <1>1, <1>2, <2>1, <2>3, Const DEF MailOK, ActOnly
  <2>11. Dozes'
    <3>1. Sent(h, hart')
      BY <1>1, <1>2, <2>6, SentQuiet DEF HartOnly, Types
    <3> QED BY <1>1, <1>2, <2>1, <2>3, <2>6, <3>1, DozesSent DEF HartOnly, ActOnly
  <2>12. Types'
    BY <1>1, <1>2, <2>3, <2>6, <2>7, TypesStep DEF HartOnly, ActOnly, Types
  <2> QED BY <2>8, <2>9, <2>10, <2>11, <2>12 DEF IInv
<1>4. CASE ~(act[a].on /\ act[a].slpHart = h)
  <2> DEFINE x == [act[a] EXCEPT !.pc = "go", !.on = act[a].on /\ TRUE]
  <2>1. act[a].on \in BOOLEAN
    BY <1>1, ActIs
  <2>2. /\ x \in ActRec /\ x.on = act[a].on /\ x.slpHart = act[a].slpHart /\ x.pc = "go"
        /\ x.wakeAt = act[a].wakeAt /\ x.parked = act[a].parked /\ x.reaped = act[a].reaped
        /\ x.var = act[a].var
    BY <1>1, <2>1 DEF ActRec, ActPcs
  <2>3. act' = [act EXCEPT ![a] = x] /\ UNCHANGED <<hart, count>>
    BY <1>4 DEF Unlink
  <2> HIDE DEF x
  <2>4. ActOnly(a) /\ act'[a] = x
    BY <1>1, <2>2, <2>3, ActSet
  <2>5. Parks' /\ Counted'
    BY <1>1, <1>2, <2>2, <2>3, <2>4, ParksOut DEF ParkOK
  <2>6. act'[Svc].pc = "arm" => tmr.mail >= 1
    BY <1>1, <2>2, <2>4, Const DEF ActOnly, MailOK
  <2> QED BY <1>1, <1>2, <2>2, <2>3, <2>4, <2>5, <2>6, OwnStep DEF Types
<1> QED BY <1>3, <1>4

-----------------------------------------------------------------------------
\* Messages, kills and the timer service.

\* A message or an interrupt wakes an actor.
LEMMA StepPoke ==
  ASSUME IInv, NEW s \in Harts, NEW a \in Actors, Poke(s, a) PROVE IInv'
<1>1. /\ Types /\ Parks /\ Counted /\ MailOK /\ ListsOK /\ SleepersOK /\ Dozes /\ Doze(s)
  BY Parts
<1>2. /\ UNCHANGED <<now, count>> /\ hart[s].pc \in {"tmr", "run"} /\ Wake(a, s, act, hart)
      /\ tmr' = [tmr EXCEPT !.pokes = @ - 1, !.mail = IF a = Svc THEN @ + 1 ELSE @]
  BY DEF Poke, At
<1>3. Sent(s, hart) /\ Woken(a, act)
  BY <1>1, <1>2, WakeEffect DEF Types
<1>4. /\ tmr' \in [dl : 0..MaxTime, mail : Int, pokes : Int, steals : Int]
      /\ tmr'.mail = tmr.mail \/ tmr'.mail = tmr.mail + 1
  <2>1. tmr.pokes \in Int /\ tmr.mail \in Int
    BY <1>1 DEF Types
  <2>2. PICK p \in Int, m \in Int :
          /\ p = tmr.pokes - 1 /\ (m = tmr.mail \/ m = tmr.mail + 1)
          /\ m = IF a = Svc THEN tmr.mail + 1 ELSE tmr.mail
    BY <2>1
  <2>3. tmr' = [tmr EXCEPT !.pokes = p, !.mail = m]
    BY <1>2, <2>2
  <2> QED BY <1>1, <2>2, <2>3 DEF Types
<1>5. \A b \in Actors :
        /\ act'[b].pc = act[b].pc /\ act'[b].on = act[b].on /\ act'[b].slpHart = act[b].slpHart
        /\ act'[b].wakeAt = act[b].wakeAt /\ act'[b].parked = act[b].parked
        /\ act'[b].reaped = act[b].reaped
        /\ act[b].var = "DEAD" => act'[b].var = "DEAD"
  BY <1>3 DEF Woken, SameBut
<1>6. Parks' /\ Counted'
  BY <1>1, <1>2, <1>5, ParksFrame DEF ParksSame, Parks, ParkOK
<1>7. MailOK'
  BY <1>1, <1>4, <1>5, MailFrame, Const
<1>8. ListsOK' /\ SleepersOK'
  BY <1>1, <1>2, <1>3, <1>5, ListsFrame DEF ListsSame, Sent
<1>9. Dozes'
  <2>1. hart[s].waiting = FALSE
    BY <1>1, <1>2, UpIs
  <2>2. Up(s)
    BY <1>2, <1>3, <2>1 DEF Up, Sent
  <2> QED BY <1>1, <1>2, <1>3, <1>5, <2>2, DozesSent DEF Types
<1>10. Types'
  BY <1>1, <1>2, <1>3, <1>4, TypesStep DEF Sent, Woken, Types
<1> QED BY <1>6, <1>7, <1>8, <1>9, <1>10 DEF IInv

\* a_kill marks an actor and hands it over
LEMMA StepKill ==
  ASSUME IInv, NEW s \in Harts, NEW a \in Actors, Kill(s, a) PROVE IInv'
<1>1. /\ Types /\ Parks /\ Counted /\ MailOK /\ ListsOK /\ SleepersOK /\ Dozes /\ Doze(s)
      /\ act[a] \in ActRec
  BY Parts
<1> DEFINE x == [act[a] EXCEPT !.var = "DEAD"]
<1>2. /\ UNCHANGED <<now, count>> /\ hart[s].pc = "run" /\ act' = [act EXCEPT ![a] = x]
      /\ tmr' = [tmr EXCEPT !.pokes = @ - 1]
      /\ Ship(a, s, hart) \/ UNCHANGED <<hart, ready, ringing>>
  BY DEF Kill, At
<1>3. /\ x \in ActRec /\ x.pc = act[a].pc /\ x.on = act[a].on /\ x.slpHart = act[a].slpHart
      /\ x.wakeAt = act[a].wakeAt /\ x.parked = act[a].parked /\ x.reaped = act[a].reaped
      /\ x.var = "DEAD"
  BY <1>1 DEF ActRec
<1> HIDE DEF x
<1>4. ActOnly(a) /\ act'[a] = x
  BY <1>1, <1>2, <1>3, ActSet
<1>5. \A b \in Actors :
        /\ act'[b].pc = act[b].pc /\ act'[b].on = act[b].on /\ act'[b].slpHart = act[b].slpHart
        /\ act'[b].wakeAt = act[b].wakeAt /\ act'[b].parked = act[b].parked
        /\ act'[b].reaped = act[b].reaped
        /\ act[b].var = "DEAD" => act'[b].var = "DEAD"
  BY <1>3, <1>4 DEF ActOnly
<1>6. Sent(s, hart)
  <2>1. CASE Ship(a, s, hart)
    BY <1>1, <2>1, ShipEffect DEF Types
  <2>2. CASE UNCHANGED <<hart, ready, ringing>>
    <3>1. Sent(s, hart')
      BY <1>1, <2>2, SentQuiet DEF Types
    <3> QED BY <2>2, <3>1
  <2> QED BY <1>2, <2>1, <2>2
<1>7. /\ tmr' \in [dl : 0..MaxTime, mail : Int, pokes : Int, steals : Int]
      /\ tmr'.mail = tmr.mail
  BY <1>1, <1>2 DEF Types
<1>8. Parks' /\ Counted'
  BY <1>1, <1>2, <1>5, ParksFrame DEF ParksSame, Parks, ParkOK
<1>9. MailOK'
  BY <1>1, <1>5, <1>7, MailFrame, Const
<1>10. ListsOK' /\ SleepersOK'
  BY <1>1, <1>2, <1>5, <1>6, ListsFrame DEF ListsSame, Sent
<1>11. Dozes'
  <2>1. hart[s].waiting = FALSE
    BY <1>1, <1>2, UpIs
  <2>2. Up(s)
    BY <1>2, <1>6, <2>1 DEF Up, Sent
  <2> QED BY <1>1, <1>2, <1>5, <1>6, <2>2, DozesSent DEF Types
<1>12. Types'
  BY <1>1, <1>2, <1>4, <1>6, <1>7, TypesStep DEF Sent, ActOnly, Types
<1> QED BY <1>8, <1>9, <1>10, <1>11, <1>12 DEF IInv

\* a_timer_arm, or no timer left
LEMMA StepTimerArm ==
  ASSUME IInv, NEW h \in Harts, TimerArm(h) PROVE IInv'
<1>1. /\ Types /\ Parks /\ Counted /\ MailOK /\ ListsOK /\ SleepersOK /\ Dozes /\ Doze(h)
      /\ act[Svc] \in ActRec /\ ParkOK(Svc) /\ Svc \in Actors
  BY Parts, Const
<1>2. /\ UNCHANGED <<now, ready, count>> /\ hart[h].pc = "run" /\ act[Svc].pc = "arm"
      /\ ~act[Svc].parked
  BY <1>1 DEF TimerArm, Runs, ParkOK
<1>l. PICK l \in Int : l = act[Svc].left - 1
  BY <1>1, ActIs
<1>3. \E n \in {act[Svc].left, l} :
        act' = [act EXCEPT ![Svc] = [act[Svc] EXCEPT !.pc = "check", !.left = n]]
  <2>1. CASE act' = [act EXCEPT ![Svc].pc = "check", ![Svc].left = @ - 1]
    BY <1>1, <1>l, <2>1 DEF Types
  <2>2. CASE act' = [act EXCEPT ![Svc].pc = "check"]
    <3>1. [act[Svc] EXCEPT !.pc = "check", !.left = act[Svc].left]
            = [act[Svc] EXCEPT !.pc = "check"]
      BY <1>1 DEF ActRec
    <3> QED BY <2>2, <3>1
  <2> QED BY <2>1, <2>2 DEF TimerArm
<1>4. PICK n \in Int :
        act' = [act EXCEPT ![Svc] = [act[Svc] EXCEPT !.pc = "check", !.left = n]]
  BY <1>1, <1>l, <1>3, ActIs
<1> DEFINE x == [act[Svc] EXCEPT !.pc = "check", !.left = n]
<1>5. /\ x \in ActRec /\ x.pc = "check" /\ x.on = act[Svc].on /\ x.slpHart = act[Svc].slpHart
      /\ x.wakeAt = act[Svc].wakeAt /\ x.parked = act[Svc].parked /\ x.reaped = act[Svc].reaped
      /\ x.var = act[Svc].var
  BY <1>1 DEF ActRec, ActPcs
<1> HIDE DEF x
<1>6. ActOnly(Svc) /\ act'[Svc] = x
  BY <1>1, <1>4, <1>5, ActSet DEF x
<1>7. /\ tmr' \in [dl : 0..MaxTime, mail : Int, pokes : Int, steals : Int]
      /\ tmr'.mail = tmr.mail - 1
  <2>1. CASE \E d \in Spans : now + d <= MaxTime
               /\ tmr' = [tmr EXCEPT !.mail = @ - 1, !.dl = now + d]
    <3>1. PICK d \in Spans :
            now + d <= MaxTime /\ tmr' = [tmr EXCEPT !.mail = @ - 1, !.dl = now + d]
      BY <2>1
    <3>2. now + d \in 0..MaxTime
      BY <1>1, <3>1, Const DEF Types
    <3>3. PICK m \in Int, e \in 0..MaxTime : m = tmr.mail - 1 /\ e = now + d
      BY <1>1, <3>2 DEF Types
    <3>4. tmr' = [tmr EXCEPT !.mail = m, !.dl = e]
      BY <3>1, <3>3
    <3> QED BY <1>1, <3>3, <3>4 DEF Types
  <2>2. CASE tmr' = [tmr EXCEPT !.mail = @ - 1]
    BY <1>1, <2>2 DEF Types
  <2> QED BY <2>1, <2>2 DEF TimerArm
<1>8. Sent(h, hart)
  <2>1. CASE h # IrqHart /\ hart' = Bell(hart, IrqHart) /\ ringing' = Ring(ringing, h, IrqHart)
    BY <1>1, <1>2, <2>1, SentRung, Const DEF Types
  <2>2. CASE UNCHANGED <<hart, ringing>>
    <3>1. Sent(h, hart')
      BY <1>1, <1>2, <2>2, SentQuiet DEF Types
    <3> QED BY <2>2, <3>1
  <2> QED BY <2>1, <2>2 DEF TimerArm
<1>9. Parks' /\ Counted'
  BY <1>1, <1>2, <1>5, <1>6, ParksOut DEF ParkOK
<1>10. MailOK'
  BY <1>1, <1>2, <1>5, <1>6, <1>7 DEF MailOK, Types
<1>11. ListsOK' /\ SleepersOK'
  BY <1>1, <1>2, <1>5, <1>6, <1>8, ListsFrame DEF ListsSame, Sent, ActOnly
<1>12. Dozes'
  <2>1. hart[h].waiting = FALSE
    BY <1>1, <1>2, UpIs
  <2>2. Up(h)
    BY <1>2, <1>8, <2>1 DEF Up, Sent
  <2> QED BY <1>1, <1>2, <1>5, <1>6, <1>8, <2>2, DozesSent DEF Types, ActOnly
<1>13. Types'
  BY <1>1, <1>2, <1>6, <1>7, <1>8, TypesStep DEF Sent, ActOnly, Types
<1> QED BY <1>9, <1>10, <1>11, <1>12, <1>13 DEF IInv

-----------------------------------------------------------------------------
\* The hart loop: the timer, a new pass, a steal.

\* A step of a hart that is up, and stays so.
LEMMA UpStep ==
  ASSUME IInv, NEW h \in Harts, NEW H \in [Harts -> HartRec], Sent(h, H), Up(h), UNCHANGED now,
         \A g \in Harts : g # h => H[g] = hart[g],
         act' \in [Actors -> ActRec], \A a \in Actors : act[a].on =>
           act'[a].wakeAt = act[a].wakeAt,
         tmr' \in [dl : 0..MaxTime, mail : Int, pokes : Int, steals : Int],
         count' \in [blocked : Int, sleepers : Int],
         Parks', Counted', MailOK', ListsOK', SleepersOK'
  PROVE  IInv'
<1>1. Types /\ ListsOK /\ Dozes
  BY Parts
<1>2. Dozes'
  BY <1>1, DozesSent
<1>3. Types'
  BY <1>1, TypesStep DEF Sent, Types
<1> QED BY <1>2, <1>3 DEF IInv

\* One that changes its own loop alone.
LEMMA LoopStep ==
  ASSUME IInv, NEW h \in Harts, HartOnly(h), Up(h), hart'[h].slp = hart[h].slp,
         UNCHANGED <<now, act, ready, ringing, count>>,
         tmr' \in [dl : 0..MaxTime, mail : Int, pokes : Int, steals : Int], tmr'.mail = tmr.mail
  PROVE  IInv'
<1>1. Types /\ ListsOK /\ Dozes /\ Parks /\ Counted /\ SleepersOK /\ MailOK
  BY Parts
<1>2. Sent(h, hart')
  BY <1>1, SentQuiet DEF HartOnly, Types
<1>3. ListsOK' /\ SleepersOK'
  BY <1>1, ListsFrame DEF ListsSame, HartOnly
<1>4. Parks' /\ Counted' /\ MailOK'
  BY <1>1 DEF Parks, ParkOK, Counted, MailOK
<1> QED BY <1>1, <1>2, <1>3, <1>4, UpStep DEF HartOnly, Types

\* the comparator is a time
LEMMA ParkedIs == ASSUME NEW h \in Harts, NEW c \in Nat PROVE Parked(h, c) \in Nat
  BY DEF Parked

\* the tick is sent, or it is not due
LEMMA StepTmrDrain == ASSUME IInv, NEW h \in Harts, TmrDrain(h) PROVE IInv'
<1>1. /\ Types /\ Parks /\ Counted /\ MailOK /\ ListsOK /\ SleepersOK /\ Dozes /\ Doze(h)
      /\ hart[h] \in HartRec
  BY Parts
<1> DEFINE due == tmr.dl # 0 /\ now >= tmr.dl
           c == IF due THEN Parked(h, hart[h].cmp) ELSE hart[h].cmp
           y(pc) == [hart[h] EXCEPT !.pc = pc, !.cmp = c]
           past(pc) == [hart EXCEPT ![h] = y(pc)]
<1>2. /\ hart[h].pc = "tmr" /\ UNCHANGED <<now, count>> /\ hart[h].waiting = FALSE
      /\ hart[h].cmp \in Nat
  BY <1>1, UpIs, HartIs DEF TmrDrain, At
<1>3. \/ hart' = past("slp") /\ UNCHANGED <<act, ready, ringing, tmr>>
      \/ tmr' = [tmr EXCEPT !.mail = @ + 1] /\ Wake(Svc, h, act, past("clear"))
  BY DEF TmrDrain
<1>4. c \in Nat
  BY <1>2, ParkedIs
<1> HIDE DEF c
<1>5. \A pc \in {"slp", "clear"} :
        /\ y(pc) \in HartRec /\ y(pc).pc = pc /\ y(pc).waiting = FALSE
        /\ y(pc).slp = hart[h].slp
  BY <1>1, <1>2, <1>4 DEF HartRec, HartPcs
<1> HIDE DEF y
<1>6. CASE hart' = past("slp") /\ UNCHANGED <<act, ready, ringing, tmr>>
  <2>1. HartOnly(h) /\ hart'[h] = y("slp")
    BY <1>1, <1>5, <1>6, HartSet
  <2>2. Up(h) /\ hart'[h].slp = hart[h].slp
    BY <1>5, <2>1 DEF Up
  <2> QED BY <1>1, <1>2, <1>6, <2>1, <2>2, LoopStep DEF Types
<1>7. CASE tmr' = [tmr EXCEPT !.mail = @ + 1] /\ Wake(Svc, h, act, past("clear"))
  <2>1. PICK H : H = past("clear")
    OBVIOUS
  <2>2. H \in [Harts -> HartRec] /\ H[h] = y("clear") /\ \A g \in Harts : g # h =>
          H[g] = hart[g]
    BY <1>1, <1>5, <2>1 DEF Types
  <2>3. Sent(h, H) /\ Woken(Svc, act)
    BY <1>1, <1>7, <2>1, <2>2, WakeEffect, Const DEF Types
  <2>4. \A b \in Actors :
          /\ act'[b].pc = act[b].pc /\ act'[b].on = act[b].on
               /\ act'[b].slpHart = act[b].slpHart
          /\ act'[b].wakeAt = act[b].wakeAt /\ act'[b].parked = act[b].parked
          /\ act'[b].reaped = act[b].reaped
          /\ act[b].var = "DEAD" => act'[b].var = "DEAD"
    BY <2>3 DEF Woken, SameBut
  <2>5. /\ tmr' \in [dl : 0..MaxTime, mail : Int, pokes : Int, steals : Int]
        /\ tmr'.mail = tmr.mail + 1
    BY <1>1, <1>7 DEF Types
  <2>6. Parks' /\ Counted'
    BY <1>1, <1>2, <2>4, ParksFrame DEF ParksSame, Parks, ParkOK
  <2>7. MailOK'
    BY <1>1, <2>4, <2>5, MailFrame, Const
  <2>8. \A g \in Harts : hart'[g].slp = hart[g].slp
    BY <1>5, <2>2, <2>3 DEF Sent
  <2>9. ListsOK' /\ SleepersOK'
    BY <1>1, <1>2, <2>4, <2>8, ListsFrame DEF ListsSame
  <2>10. Up(h)
    BY <1>5, <2>2, <2>3 DEF Up, Sent
  <2>11. act' \in [Actors -> ActRec]
    BY <2>3 DEF Woken
  <2> QED BY <1>1, <1>2, <2>2, <2>3, <2>4, <2>5, <2>6, <2>7, <2>9, <2>10, <2>11, UpStep
        DEF Types
<1> QED BY <1>3, <1>6, <1>7

\* The deadline is cleared.
LEMMA StepTmrClear == ASSUME IInv, NEW h \in Harts, TmrClear(h) PROVE IInv'
<1>1. Types /\ Doze(h) /\ hart[h] \in HartRec
  BY Parts
<1> DEFINE y == [hart[h] EXCEPT !.pc = "slp"]
<1>2. /\ hart[h].waiting = FALSE /\ hart' = [hart EXCEPT ![h] = y]
      /\ UNCHANGED <<now, act, ready, ringing, count>> /\ tmr' = [tmr EXCEPT !.dl = 0]
  BY <1>1, UpIs DEF TmrClear, At, Goto
<1>3. y \in HartRec /\ y.pc = "slp" /\ y.slp = hart[h].slp /\ y.waiting = FALSE
  BY <1>1, <1>2 DEF HartRec, HartPcs
<1> HIDE DEF y
<1>4. HartOnly(h) /\ hart'[h] = y
  BY <1>1, <1>2, <1>3, HartSet
<1>5. /\ tmr' \in [dl : 0..MaxTime, mail : Int, pokes : Int, steals : Int]
      /\ tmr'.mail = tmr.mail
  BY <1>1, <1>2, Const DEF Types
<1> QED BY <1>2, <1>3, <1>4, <1>5, LoopStep DEF Up

\* the bell is cleared and everything looked at again
LEMMA StepAgain == ASSUME IInv, NEW h \in Harts, Again(h) PROVE IInv'
<1>1. Types /\ Doze(h) /\ hart[h] \in HartRec
  BY Parts
<1> DEFINE y == [hart[h] EXCEPT !.pc = First(h), !.again = TRUE, !.bell = FALSE, !.at = 1]
<1>2. /\ hart[h].waiting = FALSE /\ hart' = [hart EXCEPT ![h] = y]
      /\ UNCHANGED <<now, act, ready, ringing, count, tmr>>
  BY <1>1, UpIs DEF Again, At, Drained
<1>3. y \in HartRec /\ y.pc = First(h) /\ y.slp = hart[h].slp /\ y.waiting = FALSE
  BY <1>1, <1>2, FirstIs, PlaceIs DEF HartRec
<1> HIDE DEF y
<1>4. HartOnly(h) /\ hart'[h] = y
  BY <1>1, <1>2, <1>3, HartSet
<1> QED BY <1>1, <1>2, <1>3, <1>4, LoopStep, FirstIs DEF Up, Types

\* an actor moves to another hart
LEMMA StepSteal ==
  ASSUME IInv, NEW h \in Harts, NEW g \in Harts, NEW a \in Actors, Steal(h, g, a) PROVE IInv'
<1>1. /\ Types /\ Parks /\ Counted /\ MailOK /\ ListsOK /\ SleepersOK /\ Doze(h)
      /\ hart[h] \in HartRec /\ act[a] \in ActRec
  BY Parts
<1> DEFINE x == [act[a] EXCEPT !.hart = h]
           y == [hart[h] EXCEPT !.pc = First(h), !.again = FALSE, !.at = 1]
<1>2. /\ hart[h].waiting = FALSE /\ act' = [act EXCEPT ![a] = x] /\ g # h
      /\ UNCHANGED <<now, ringing, count>> /\ tmr' = [tmr EXCEPT !.steals = @ - 1]
      /\ ready' = [ready EXCEPT ![g] = @ \ {a}, ![h] = {a}]
  BY <1>1, UpIs DEF Steal, At, Drained
<1>3. hart' = [hart EXCEPT ![h] = y]
  BY <1>1 DEF Steal, Types
<1>4. /\ x \in ActRec /\ x.pc = act[a].pc /\ x.on = act[a].on /\ x.slpHart = act[a].slpHart
      /\ x.wakeAt = act[a].wakeAt /\ x.parked = act[a].parked /\ x.reaped = act[a].reaped
      /\ x.var = act[a].var
  BY <1>1 DEF ActRec
<1>5. y \in HartRec /\ y.pc = First(h) /\ y.slp = hart[h].slp /\ y.waiting = FALSE
  BY <1>1, <1>2, FirstIs, PlaceIs DEF HartRec
<1> HIDE DEF x, y
<1>6. ActOnly(a) /\ act'[a] = x /\ HartOnly(h) /\ hart'[h] = y
  BY <1>1, <1>2, <1>3, <1>4, <1>5, ActSet, HartSet
<1>7. /\ ready' \in [Harts -> SUBSET Actors]
      /\ \A k \in Harts : k # h => ready'[k] \subseteq ready[k]
  BY <1>1, <1>2 DEF Types
<1>8. Sent(h, hart') /\ Up(h)
  BY <1>1, <1>2, <1>5, <1>6, <1>7, SentQuiet, FirstIs DEF HartOnly, Up
<1>9. \A b \in Actors :
        /\ act'[b].pc = act[b].pc /\ act'[b].on = act[b].on /\ act'[b].slpHart = act[b].slpHart
        /\ act'[b].wakeAt = act[b].wakeAt /\ act'[b].parked = act[b].parked
        /\ act'[b].reaped = act[b].reaped /\ act'[b].var = act[b].var
  BY <1>4, <1>6 DEF ActOnly
<1>10. /\ tmr' \in [dl : 0..MaxTime, mail : Int, pokes : Int, steals : Int]
       /\ tmr'.mail = tmr.mail
  BY <1>1, <1>2 DEF Types
<1>11. Parks' /\ Counted'
  BY <1>1, <1>2, <1>9, ParksFrame DEF ParksSame, Parks, ParkOK
<1>12. MailOK'
  BY <1>1, <1>9, <1>10, MailFrame, Const
<1>13. ListsOK' /\ SleepersOK'
  BY <1>1, <1>2, <1>5, <1>6, <1>9, ListsFrame DEF ListsSame, HartOnly
<1> QED BY <1>1, <1>2, <1>6, <1>8, <1>9, <1>10, <1>11, <1>12, <1>13, UpStep
        DEF Types, ActOnly, HartOnly

-----------------------------------------------------------------------------
\* The hart loop: an entry of the sleep list.

\* Actor a leaves its park, counted out if it was in it.
LEMMA ParksDrop ==
  ASSUME Types, Parks, Counted, NEW a \in Actors,
         \A b \in Actors : b # a =>
           /\ act'[b].parked = act[b].parked /\ act'[b].pc = act[b].pc
           /\ act'[b].reaped = act[b].reaped /\ (act[b].var = "DEAD" => act'[b].var = "DEAD"),
         ~act'[a].parked, act'[a].reaped => act'[a].var = "DEAD",
         count'.blocked = IF act[a].parked THEN count.blocked - 1 ELSE count.blocked
  PROVE  Parks' /\ Counted'
<1>1. Parks'
  BY DEF Parks, ParkOK
<1>2. CASE act[a].parked
  BY <1>1, <1>2, ParksLess
<1>3. CASE ~act[a].parked
  <2>1. act[a] \in ActRec
    BY DEF Types
  <2>2. {b \in Actors : act'[b].parked} = {b \in Actors : act[b].parked}
    BY <1>3
  <2> QED BY <1>1, <1>3, <2>2 DEF Counted
<1> QED BY <1>2, <1>3

\* reap counts out whom it finds parked
LEMMA BlockedIs ==
  ASSUME Types, NEW a \in Actors, ParkOK(a)
  PROVE  Blocked(a) = IF act[a].parked THEN count.blocked - 1 ELSE count.blocked
  BY DEF Blocked, ParkOK

\* What a hart makes of itself when it takes an entry out.
OutOf(h, k) == [hart EXCEPT ![h].slp = RemoveAt(@, k), ![h].cmp = Parked(h, @)]

LEMMA OutHart ==
  ASSUME Types, NEW h \in Harts, Doze(h), hart[h].pc = "slp", NEW k \in DOMAIN hart[h].slp,
         NEW H, H = OutOf(h, k)
  PROVE  /\ H \in [Harts -> HartRec] /\ H[h].slp = RemoveAt(hart[h].slp, k)
         /\ H[h].pc = "slp" /\ H[h].waiting = FALSE /\ \A g \in Harts : g # h => H[g] = hart[g]
<1>1. hart[h] \in HartRec /\ hart[h].waiting = FALSE /\ hart[h].cmp \in Nat
      /\ hart[h].slp \in Seq(Sleepers)
  BY UpIs, HartIs DEF Types
<1>2. PICK s \in Seq(Sleepers), c \in Nat : s = RemoveAt(hart[h].slp, k)
             /\ c = Parked(h, hart[h].cmp)
  <2>1. k \in 1..Len(hart[h].slp)
    BY <1>1
  <2>2. RemoveAt(hart[h].slp, k) \in Seq(Sleepers)
    BY <1>1, <2>1, SeqOut
  <2> QED BY <1>1, <2>2, ParkedIs
<1> DEFINE y == [hart[h] EXCEPT !.slp = s, !.cmp = c]
<1>3. y \in HartRec /\ y.slp = s /\ y.pc = "slp" /\ y.waiting = FALSE
  BY <1>1 DEF HartRec
<1>4. H = [hart EXCEPT ![h] = y]
  BY <1>1, <1>2 DEF Types, OutOf
<1> HIDE DEF y
<1> QED BY <1>2, <1>3, <1>4 DEF Types

\* an entry is passed, woken or reaped
LEMMA StepSlpDrain == ASSUME IInv, NEW h \in Harts, SlpDrain(h) PROVE IInv'
<1>1. /\ Types /\ Parks /\ Counted /\ MailOK /\ ListsOK /\ SleepersOK /\ Doze(h) /\ ListOK(h)
      /\ hart[h] \in HartRec
  BY Parts
<1>2. /\ hart[h].pc = "slp" /\ UNCHANGED <<now, tmr>> /\ hart[h].waiting = FALSE
      /\ hart[h].slp \in Seq(Sleepers) /\ hart[h].at \in Places
           /\ hart[h].at <= Len(hart[h].slp)
  BY <1>1, UpIs, HartIs DEF SlpDrain, At
<1>3. PICK k \in DOMAIN hart[h].slp : k = hart[h].at
  <2>1. DOMAIN hart[h].slp = 1..Len(hart[h].slp) /\ Len(hart[h].slp) \in Nat
    BY <1>2
  <2>2. hart[h].at \in Nat /\ hart[h].at >= 1
    BY <1>2, PlaceIs
  <2> QED BY <1>2, <2>1, <2>2
<1>4. PICK a \in Sleepers : a = hart[h].slp[k]
  BY <1>2
<1>5. a \in Actors /\ a # Svc /\ act[a] \in ActRec /\ ParkOK(a)
  BY <1>1, <1>4, Const, Parts
<1> DEFINE gone == act[a].var = "DEAD"
           off == [act EXCEPT ![a].on = FALSE]
<1>6. \/ hart' = [hart EXCEPT ![h].at = @ + 1] /\ UNCHANGED <<act, ready, ringing, count>>
      \/ /\ gone
         /\ act' = IF act[a].running # None THEN off
                   ELSE [ReapedAct(a) EXCEPT ![a].on = FALSE]
         /\ count' = [blocked |-> IF act[a].running # None THEN count.blocked
                                  ELSE Blocked(a),
                       sleepers |-> count.sleepers - 1]
         /\ hart' = OutOf(h, k)
         /\ UNCHANGED <<ready, ringing>>
      \/ /\ ~gone /\ Wake(a, h, off, OutOf(h, k))
         /\ count' = [count EXCEPT !.sleepers = @ - 1]
  BY <1>3, <1>4 DEF SlpDrain, OutOf
<1>7. CASE hart' = [hart EXCEPT ![h].at = @ + 1] /\ UNCHANGED <<act, ready, ringing, count>>
  <2>1. PICK n \in Places : n = hart[h].at + 1
    BY <1>2, PlaceIs
  <2> DEFINE y == [hart[h] EXCEPT !.at = n]
  <2>2. y \in HartRec /\ y.pc = "slp" /\ y.slp = hart[h].slp /\ y.waiting = FALSE
    BY <1>1, <1>2 DEF HartRec
  <2>3. hart' = [hart EXCEPT ![h] = y]
    BY <1>1, <1>7, <2>1 DEF Types
  <2> HIDE DEF y
  <2>4. HartOnly(h) /\ hart'[h] = y
    BY <1>1, <2>2, <2>3, HartSet
  <2> QED BY <1>1, <1>2, <1>7, <2>2, <2>4, LoopStep DEF Up, Types
<1>8. PICK H : H = OutOf(h, k)
  OBVIOUS
<1>9. /\ H \in [Harts -> HartRec] /\ H[h].slp = RemoveAt(hart[h].slp, k)
      /\ H[h].pc = "slp" /\ H[h].waiting = FALSE /\ \A g \in Harts : g # h => H[g] = hart[g]
  BY <1>1, <1>2, <1>8, OutHart
<1>10. CASE /\ gone
            /\ act' = IF act[a].running # None THEN off
                      ELSE [ReapedAct(a) EXCEPT ![a].on = FALSE]
            /\ count' = [blocked |-> IF act[a].running # None THEN count.blocked
                                     ELSE Blocked(a),
                          sleepers |-> count.sleepers - 1]
            /\ hart' = OutOf(h, k)
            /\ UNCHANGED <<ready, ringing>>
  <2> DEFINE x == IF act[a].running # None THEN [act[a] EXCEPT !.on = FALSE]
                  ELSE [act[a] EXCEPT !.reaped = TRUE, !.parked = FALSE, !.on = FALSE]
  <2>1. act' = [act EXCEPT ![a] = x]
    BY <1>1, <1>5, <1>10 DEF ReapedAct, Types
  <2>2. /\ x \in ActRec /\ ~x.on /\ x.slpHart = act[a].slpHart /\ x.pc = act[a].pc
        /\ x.wakeAt = act[a].wakeAt /\ x.var = act[a].var
    BY <1>5 DEF ActRec
  <2>3. IF act[a].running # None THEN x.parked = act[a].parked /\ x.reaped = act[a].reaped
        ELSE x.parked = FALSE /\ x.reaped = TRUE
    BY <1>5 DEF ActRec
  <2> HIDE DEF x
  <2>4. ActOnly(a) /\ act'[a] = x
    BY <1>1, <1>5, <2>1, <2>2, ActSet
  <2>5. /\ count'.blocked = IF act[a].running # None THEN count.blocked ELSE Blocked(a)
        /\ count'.sleepers = count.sleepers - 1
    BY <1>10
  <2>6. Blocked(a) = IF act[a].parked THEN count.blocked - 1 ELSE count.blocked
    BY <1>1, <1>5, BlockedIs
  <2>7. count' \in [blocked : Int, sleepers : Int]
    <3>1. count.blocked \in Int /\ count.sleepers \in Int
      BY <1>1 DEF Types
    <3>2. Blocked(a) \in Int
      BY <2>6, <3>1
    <3> QED BY <1>10, <3>1, <3>2
  <2>8. Parks' /\ Counted'
    <3>1. CASE act[a].running # None
      BY <1>1, <1>5, <1>10, <2>2, <2>3, <2>4, <2>5, <3>1, ParksFrame
         DEF ParksSame, ActOnly, Parks, ParkOK
    <3>2. CASE act[a].running = None
      BY <1>1, <1>5, <1>10, <2>2, <2>3, <2>4, <2>5, <2>6, <3>2, ParksDrop DEF ActOnly
    <3> QED BY <3>1, <3>2
  <2>9. ListsOK' /\ SleepersOK'
    <3>1. /\ hart'[h].slp = RemoveAt(hart[h].slp, k)
          /\ \A g \in Harts : g # h => hart'[g].slp = hart[g].slp
      BY <1>8, <1>9, <1>10
    <3>2. /\ ~act'[a].on /\ act' \in [Actors -> ActRec]
          /\ \A b \in Actors :
               act'[b].slpHart = act[b].slpHart /\ (b # a => act'[b].on = act[b].on)
      BY <2>2, <2>4 DEF ActOnly
    <3> QED BY <1>1, <1>4, <2>5, <3>1, <3>2, ListsOut
  <2>10. MailOK'
    BY <1>1, <1>2, <1>5, <2>4, MailFrame, Const DEF ActOnly
  <2>11. Up(h) /\ Sent(h, hart')
    BY <1>1, <1>8, <1>9, <1>10, SentQuiet DEF Up, Types
  <2>12. tmr' \in [dl : 0..MaxTime, mail : Int, pokes : Int, steals : Int] /\ UNCHANGED now
    BY <1>1, <1>2 DEF Types
  <2>13. \A b \in Actors : act'[b].wakeAt = act[b].wakeAt
    BY <2>2, <2>4 DEF ActOnly
  <2> QED BY <1>8, <1>9, <1>10, <2>4, <2>7, <2>8, <2>9, <2>10, <2>11, <2>12, <2>13, UpStep
          DEF ActOnly
<1>11. CASE /\ ~gone /\ Wake(a, h, off, OutOf(h, k))
            /\ count' = [count EXCEPT !.sleepers = @ - 1]
  <2> DEFINE x == [act[a] EXCEPT !.on = FALSE]
  <2>1. /\ x \in ActRec /\ ~x.on /\ x.slpHart = act[a].slpHart /\ x.pc = act[a].pc
        /\ x.wakeAt = act[a].wakeAt /\ x.var = act[a].var /\ x.parked = act[a].parked
        /\ x.reaped = act[a].reaped
    BY <1>5 DEF ActRec
  <2>2. PICK A : A = off
    OBVIOUS
  <2>3. A = [act EXCEPT ![a] = x]
    BY <2>2
  <2> HIDE DEF x
  <2>4. A \in [Actors -> ActRec] /\ A[a] = x /\ \A b \in Actors : b # a => A[b] = act[b]
    BY <1>1, <1>5, <2>1, <2>3 DEF Types
  <2>5. Sent(h, H) /\ Woken(a, A)
    BY <1>1, <1>5, <1>8, <1>9, <1>11, <2>2, <2>4, WakeEffect
  <2>6. \A b \in Actors :
          /\ act'[b].pc = act[b].pc /\ (b # a => act'[b].on = act[b].on)
          /\ act'[b].slpHart = act[b].slpHart
          /\ act'[b].wakeAt = act[b].wakeAt /\ act'[b].parked = act[b].parked
          /\ act'[b].reaped = act[b].reaped
          /\ act[b].var = "DEAD" => act'[b].var = "DEAD"
    BY <1>11, <2>1, <2>4, <2>5 DEF Woken, SameBut
  <2>7. ~act'[a].on /\ act' \in [Actors -> ActRec]
    BY <1>5, <2>1, <2>4, <2>5 DEF Woken, SameBut
  <2>8. /\ count' \in [blocked : Int, sleepers : Int] /\ count'.sleepers = count.sleepers - 1
        /\ count'.blocked = count.blocked
    BY <1>1, <1>11 DEF Types
  <2>9. Parks' /\ Counted'
    BY <1>1, <2>6, <2>8, ParksFrame DEF ParksSame, Parks, ParkOK
  <2>10. MailOK'
    BY <1>1, <1>2, <2>6, MailFrame, Const
  <2>11. hart'[h].slp = RemoveAt(hart[h].slp, k) /\ \A g \in Harts : g # h =>
           hart'[g].slp = hart[g].slp
    BY <1>9, <2>5 DEF Sent
  <2>12. ListsOK' /\ SleepersOK'
    BY <1>1, <1>4, <2>6, <2>7, <2>8, <2>11, ListsOut
  <2>13. Up(h)
    BY <1>9, <2>5 DEF Up, Sent
  <2>14. tmr' \in [dl : 0..MaxTime, mail : Int, pokes : Int, steals : Int] /\ UNCHANGED now
    BY <1>1, <1>2 DEF Types
  <2> QED BY <1>9, <2>5, <2>6, <2>7, <2>8, <2>9, <2>10, <2>12, <2>13, <2>14, UpStep
<1> QED BY <1>6, <1>7, <1>10, <1>11

-----------------------------------------------------------------------------
\* The hart loop: an actor is picked; the park.

\* an actor is run, reaped or found stale
LEMMA StepPick == ASSUME IInv, NEW h \in Harts, NEW a \in Actors, Pick(h, a) PROVE IInv'
<1>1. /\ Types /\ Parks /\ Counted /\ MailOK /\ ListsOK /\ SleepersOK /\ Doze(h)
      /\ hart[h] \in HartRec /\ act[a] \in ActRec /\ ParkOK(a)
  BY Parts
<1>2. /\ hart[h].waiting = FALSE /\ UNCHANGED <<now, ringing, tmr>> /\ hart[h].pc = "slp"
      /\ ready' = [ready EXCEPT ![h] = @ \ {a}]
  BY <1>1, UpIs DEF Pick, At, Drained
<1>3. /\ ready' \in [Harts -> SUBSET Actors]
      /\ \A k \in Harts : k # h => ready'[k] \subseteq ready[k]
  BY <1>1, <1>2 DEF Types
<1>4. tmr' \in [dl : 0..MaxTime, mail : Int, pokes : Int, steals : Int] /\ tmr'.mail = tmr.mail
  BY <1>1, <1>2 DEF Types
<1>5. CASE act[a].var = "READY"
  <2> DEFINE c == IF act[a].pc = "parked" THEN "check" ELSE act[a].pc
             x == [act[a] EXCEPT !.running = h, !.parked = FALSE, !.pc = c]
             y == [hart[h] EXCEPT !.pc = "run", !.cur = a, !.again = FALSE]
  <2>1. /\ act' = [act EXCEPT ![a] = x] /\ hart' = [hart EXCEPT ![h] = y]
        /\ count' = [count EXCEPT !.blocked = IF act[a].parked THEN @ - 1 ELSE @]
    BY <1>5 DEF Pick, Resume
  <2>2. c \in ActPcs /\ (c = "arm" => act[a].pc = "arm")
    BY <1>1, ActIs DEF ActPcs
  <2> HIDE DEF c
  <2>3. /\ x \in ActRec /\ x.pc = c /\ x.on = act[a].on /\ x.slpHart = act[a].slpHart
        /\ x.wakeAt = act[a].wakeAt /\ x.parked = FALSE /\ x.reaped = act[a].reaped
        /\ x.var = act[a].var
    BY <1>1, <2>2 DEF ActRec
  <2>4. y \in HartRec /\ y.pc = "run" /\ y.slp = hart[h].slp /\ y.waiting = FALSE
    BY <1>1, <1>2 DEF HartRec, HartPcs
  <2> HIDE DEF x, y
  <2>5. ActOnly(a) /\ act'[a] = x /\ HartOnly(h) /\ hart'[h] = y
    BY <1>1, <2>1, <2>3, <2>4, ActSet, HartSet
  <2>6. Sent(h, hart') /\ Up(h)
    BY <1>1, <1>2, <1>3, <2>4, <2>5, SentQuiet DEF HartOnly, Up
  <2>7. /\ count' \in [blocked : Int, sleepers : Int] /\ count'.sleepers = count.sleepers
        /\ count'.blocked = IF act[a].parked THEN count.blocked - 1 ELSE count.blocked
    BY <1>1, <2>1 DEF Types
  <2>8. Parks' /\ Counted'
    BY <1>1, <1>5, <2>3, <2>5, <2>7, ParksDrop DEF ActOnly, ParkOK
  <2>9. MailOK'
    BY <1>1, <1>4, <2>2, <2>3, <2>5, MailFrame, Const DEF ActOnly
  <2>10. ListsOK' /\ SleepersOK'
    BY <1>1, <2>3, <2>4, <2>5, <2>7, ListsFrame DEF ListsSame, HartOnly, ActOnly
  <2>11. \A b \in Actors : act'[b].wakeAt = act[b].wakeAt
    BY <2>3, <2>5 DEF ActOnly
  <2> QED BY <1>1, <1>2, <1>4, <2>5, <2>6, <2>7, <2>8, <2>9, <2>10, <2>11, UpStep
          DEF ActOnly, HartOnly
<1>6. CASE act[a].var = "DEAD"
  <2> DEFINE x == [act[a] EXCEPT !.reaped = TRUE, !.parked = FALSE]
  <2>1. /\ act' = ReapedAct(a) /\ UNCHANGED hart
             /\ count' = [count EXCEPT !.blocked = Blocked(a)]
    BY <1>6 DEF Pick
  <2>2. act' = [act EXCEPT ![a] = x]
    BY <1>1, <2>1 DEF ReapedAct, Types
  <2>3. /\ x \in ActRec /\ x.pc = act[a].pc /\ x.on = act[a].on /\ x.slpHart = act[a].slpHart
        /\ x.wakeAt = act[a].wakeAt /\ x.parked = FALSE /\ x.reaped = TRUE
        /\ x.var = act[a].var
    BY <1>1 DEF ActRec
  <2> HIDE DEF x
  <2>4. ActOnly(a) /\ act'[a] = x
    BY <1>1, <2>2, <2>3, ActSet
  <2>5. Sent(h, hart') /\ Up(h)
    BY <1>1, <1>2, <1>3, <2>1, SentQuiet DEF Up, Types
  <2>6. Blocked(a) = IF act[a].parked THEN count.blocked - 1 ELSE count.blocked
    BY <1>1, BlockedIs
  <2>7. /\ count' \in [blocked : Int, sleepers : Int] /\ count'.sleepers = count.sleepers
        /\ count'.blocked = Blocked(a)
    <3>1. Blocked(a) \in Int
      BY <1>1, <2>6 DEF Types
    <3> QED BY <1>1, <2>1, <3>1 DEF Types
  <2>8. Parks' /\ Counted'
    BY <1>1, <1>6, <2>3, <2>4, <2>6, <2>7, ParksDrop DEF ActOnly
  <2>9. MailOK'
    BY <1>1, <1>4, <2>3, <2>4, MailFrame, Const DEF ActOnly
  <2>10. ListsOK' /\ SleepersOK'
    BY <1>1, <2>1, <2>3, <2>4, <2>7, ListsFrame DEF ListsSame, ActOnly
  <2>11. \A b \in Actors : act'[b].wakeAt = act[b].wakeAt
    BY <2>3, <2>4 DEF ActOnly
  <2> QED BY <1>1, <1>2, <1>4, <2>1, <2>4, <2>5, <2>7, <2>8, <2>9, <2>10, <2>11, UpStep
          DEF ActOnly, Types
<1>7. CASE act[a].var \notin {"READY", "DEAD"}
  <2>1. UNCHANGED <<act, hart, count>>
    BY <1>7 DEF Pick
  <2>2. Sent(h, hart') /\ Up(h)
    BY <1>1, <1>2, <1>3, <2>1, SentQuiet DEF Up, Types
  <2>3. Parks' /\ Counted' /\ MailOK'
    BY <1>1, <1>2, <2>1 DEF Parks, ParkOK, Counted, MailOK
  <2>4. ListsOK' /\ SleepersOK'
    BY <1>1, <2>1, ListsFrame DEF ListsSame
  <2> QED BY <1>1, <1>2, <1>4, <2>1, <2>2, <2>3, <2>4, UpStep DEF Types
<1> QED BY <1>5, <1>6, <1>7

\* A hart goes on in its park by itself.
LEMMA OwnHart ==
  ASSUME IInv, NEW h \in Harts, HartOnly(h), hart'[h].slp = hart[h].slp, Doze(h)',
         UNCHANGED <<now, act, ready, ringing, tmr, count>>
  PROVE  IInv'
<1>1. Types /\ ListsOK /\ Dozes /\ Parks /\ Counted /\ SleepersOK /\ MailOK
  BY Parts
<1>2. ListsOK' /\ SleepersOK'
  BY <1>1, ListsFrame DEF ListsSame, HartOnly
<1>3. Parks' /\ Counted' /\ MailOK'
  BY <1>1 DEF Parks, ParkOK, Counted, MailOK
<1>4. Dozes'
  BY <1>1, DozesOwn
<1>5. Types'
  BY <1>1, TypesStep DEF HartOnly, Types
<1> QED BY <1>2, <1>3, <1>4, <1>5 DEF IInv

\* the spin
LEMMA StepSpin == ASSUME IInv, NEW h \in Harts, Spin(h) PROVE IInv'
<1>1. Types /\ Doze(h) /\ hart[h] \in HartRec
  BY Parts
<1>2. hart[h].pc = "wfi" /\ UNCHANGED <<now, act, ready, ringing, tmr, count>>
      /\ hart[h].waiting \in BOOLEAN
  BY <1>1, HartIs DEF Spin, At, HartStep
<1>3. hart[h].waiting = FALSE
  BY <1>1, <1>2 DEF Doze
<1>4. CASE hart[h].bell
  <2> DEFINE y == [hart[h] EXCEPT !.bell = FALSE, !.pc = First(h), !.again = FALSE, !.at = 1]
  <2>1. hart' = [hart EXCEPT ![h] = y]
    BY <1>1, <1>4 DEF Spin, HartStep, Top, Types
  <2>2. y \in HartRec /\ y.pc = First(h) /\ y.slp = hart[h].slp /\ y.waiting = FALSE
    BY <1>1, <1>3, FirstIs, PlaceIs DEF HartRec
  <2> HIDE DEF y
  <2>3. HartOnly(h) /\ hart'[h] = y
    BY <1>1, <2>1, <2>2, HartSet
  <2>4. Doze(h)'
    BY <2>2, <2>3, FirstIs DEF Doze
  <2> QED BY <1>2, <2>2, <2>3, <2>4, OwnHart
<1>5. CASE ~hart[h].bell
  <2> DEFINE y == [hart[h] EXCEPT !.pc = "raise"]
  <2>1. hart' = [hart EXCEPT ![h] = y]
    BY <1>1, <1>5 DEF Spin, HartStep, Goto, Types
  <2>2. y \in HartRec /\ y.pc = "raise" /\ y.slp = hart[h].slp /\ y.waiting = FALSE
        /\ y.bell = hart[h].bell /\ y.cmp = hart[h].cmp
    BY <1>1, <1>3 DEF HartRec, HartPcs
  <2> HIDE DEF y
  <2>3. HartOnly(h) /\ hart'[h] = y
    BY <1>1, <2>1, <2>2, HartSet
  <2>4. Doze(h)'
    BY <1>1, <1>2, <2>2, <2>3 DEF Doze, Armed
  <2> QED BY <1>2, <2>2, <2>3, <2>4, OwnHart
<1> QED BY <1>4, <1>5

\* waiting is raised
LEMMA StepRaise == ASSUME IInv, NEW h \in Harts, Raise(h) PROVE IInv'
<1>1. Types /\ Doze(h) /\ hart[h] \in HartRec
  BY Parts
<1> DEFINE y == [hart[h] EXCEPT !.pc = "wait", !.waiting = TRUE]
<1>2. /\ hart[h].pc = "raise" /\ UNCHANGED <<now, act, ready, ringing, tmr, count>>
      /\ hart' = [hart EXCEPT ![h] = y]
  BY <1>1 DEF Raise, At, HartStep, Types
<1>3. y \in HartRec /\ y.pc = "wait" /\ y.slp = hart[h].slp /\ y.waiting = TRUE
      /\ y.bell = hart[h].bell /\ y.cmp = hart[h].cmp
  BY <1>1 DEF HartRec, HartPcs
<1> HIDE DEF y
<1>4. HartOnly(h) /\ hart'[h] = y
  BY <1>1, <1>2, <1>3, HartSet
<1>5. Doze(h)'
  BY <1>1, <1>2, <1>3, <1>4 DEF Doze, Armed
<1> QED BY <1>2, <1>3, <1>4, <1>5, OwnHart

\* the bell and the comparator are read under the mutex
LEMMA StepWait == ASSUME IInv, NEW h \in Harts, Wait(h) PROVE IInv'
<1>1. Types /\ Doze(h) /\ hart[h] \in HartRec
  BY Parts
<1>2. PICK p \in {"leave", "asleep"} : p = IF hart[h].bell \/ Due(h) THEN "leave" ELSE "asleep"
  OBVIOUS
<1> DEFINE y == [hart[h] EXCEPT !.pc = p]
<1>3. /\ hart[h].pc = "wait" /\ UNCHANGED <<now, act, ready, ringing, tmr, count>>
      /\ hart' = [hart EXCEPT ![h] = y]
  BY <1>1, <1>2 DEF Wait, At, HartStep, Goto, Types
<1>4. y \in HartRec /\ y.pc = p /\ y.slp = hart[h].slp /\ y.waiting = hart[h].waiting
      /\ y.bell = hart[h].bell /\ y.cmp = hart[h].cmp
  BY <1>1 DEF HartRec, HartPcs
<1> HIDE DEF y
<1>5. HartOnly(h) /\ hart'[h] = y
  BY <1>1, <1>3, <1>4, HartSet
<1>6. Doze(h)'
  BY <1>1, <1>2, <1>3, <1>4, <1>5 DEF Doze, Armed
<1> QED BY <1>3, <1>4, <1>5, <1>6, OwnHart

\* the wait times out
LEMMA StepTimeOut == ASSUME IInv, NEW h \in Harts, TimeOut(h) PROVE IInv'
<1>1. Types /\ Doze(h) /\ hart[h] \in HartRec
  BY Parts
<1> DEFINE y == [hart[h] EXCEPT !.pc = "leave"]
<1>2. /\ hart[h].pc = "asleep" /\ UNCHANGED <<now, act, ready, ringing, tmr, count>>
      /\ hart' = [hart EXCEPT ![h] = y]
  BY <1>1 DEF TimeOut, At, HartStep, Goto, Types
<1>3. y \in HartRec /\ y.pc = "leave" /\ y.slp = hart[h].slp /\ y.waiting = hart[h].waiting
      /\ y.bell = hart[h].bell /\ y.cmp = hart[h].cmp
  BY <1>1 DEF HartRec, HartPcs
<1> HIDE DEF y
<1>4. HartOnly(h) /\ hart'[h] = y
  BY <1>1, <1>2, <1>3, HartSet
<1>5. Doze(h)'
  BY <1>1, <1>2, <1>3, <1>4 DEF Doze, Armed
<1> QED BY <1>2, <1>3, <1>4, <1>5, OwnHart

\* waiting is cleared
LEMMA StepLeave == ASSUME IInv, NEW h \in Harts, Leave(h) PROVE IInv'
<1>1. Types /\ Doze(h) /\ hart[h] \in HartRec /\ hart[h].cmp \in Nat
  BY Parts, HartIs
<1>2. PICK c \in Nat : c = IF Due(h) THEN 0 ELSE hart[h].cmp
  BY <1>1
<1> DEFINE y == [hart[h] EXCEPT !.pc = "leave2", !.waiting = FALSE, !.cmp = c]
<1>3. /\ UNCHANGED <<now, act, ready, ringing, tmr, count>>
      /\ hart' = [hart EXCEPT ![h] = y]
  BY <1>2 DEF Leave, HartStep
<1>4. y \in HartRec /\ y.pc = "leave2" /\ y.slp = hart[h].slp /\ y.waiting = FALSE
  BY <1>1 DEF HartRec, HartPcs
<1> HIDE DEF y
<1>5. HartOnly(h) /\ hart'[h] = y
  BY <1>1, <1>3, <1>4, HartSet
<1>6. Doze(h)'
  BY <1>4, <1>5 DEF Doze
<1> QED BY <1>3, <1>4, <1>5, <1>6, OwnHart

\* the bell is consumed
LEMMA StepLeave2 == ASSUME IInv, NEW h \in Harts, Leave2(h) PROVE IInv'
<1>1. Types /\ Doze(h) /\ hart[h] \in HartRec
  BY Parts
<1> DEFINE y == [hart[h] EXCEPT !.bell = FALSE, !.pc = First(h), !.again = FALSE, !.at = 1]
<1>2. /\ hart[h].pc = "leave2" /\ UNCHANGED <<now, act, ready, ringing, tmr, count>>
      /\ hart[h].waiting \in BOOLEAN
  BY <1>1, HartIs DEF Leave2, At, HartStep
<1>3. hart[h].waiting = FALSE
  BY <1>1, <1>2 DEF Doze
<1>4. hart' = [hart EXCEPT ![h] = y]
  BY <1>1 DEF Leave2, HartStep, Top, Types
<1>5. y \in HartRec /\ y.pc = First(h) /\ y.slp = hart[h].slp /\ y.waiting = FALSE
  BY <1>1, <1>3, FirstIs, PlaceIs DEF HartRec
<1> HIDE DEF y
<1>6. HartOnly(h) /\ hart'[h] = y
  BY <1>1, <1>4, <1>5, HartSet
<1>7. Doze(h)'
  BY <1>5, <1>6, FirstIs DEF Doze
<1> QED BY <1>2, <1>5, <1>6, <1>7, OwnHart

-----------------------------------------------------------------------------
\* What a hart arms; rings, the clock, every step.

\* a set of natural numbers with something in it has a least member
LEMMA Least ==
  ASSUME NEW R, R \subseteq Nat, R # {}
  PROVE  Min(R) \in R /\ \A j \in R : Min(R) <= j
<1>1. PICK i \in R : \A j \in R : <<j, i>> \notin OpToRel(<, Nat)
  BY NatLessThanWellFounded, WFMin
<1>2. ASSUME NEW j \in R PROVE i <= j
  <2>1. i \in Nat /\ j \in Nat
    OBVIOUS
  <2>2. SUFFICES ASSUME j < i PROVE FALSE
    BY <2>1
  <2>3. <<j, i>> \in OpToRel(<, Nat)
    BY <2>1, <2>2 DEF OpToRel
  <2> QED BY <2>3, <1>1
<1> QED BY <1>2 DEF Min

\* the next tick, or the deadline that is further
LEMMA AheadIs ==
  ASSUME Types, NEW t \in Nat
  PROVE  /\ Ahead(t) \in Nat /\ Ahead(t) >= 1
         /\ Ahead(t) <= t \/ Ahead(t) <= now + 1
<1>1. now \in Nat /\ now >= 1 /\ MaxTime \in Nat /\ MaxTime >= 1
  BY Const DEF Types
<1>2. /\ Min({now + 1, MaxTime}) \in {now + 1, MaxTime}
      /\ \A j \in {now + 1, MaxTime} : Min({now + 1, MaxTime}) <= j
  BY <1>1, Least
<1> QED BY <1>1, <1>2 DEF Ahead

\* What a hart arms: c is no later than the detector on the detector's hart.
Paced(h, c) == c \in Nat /\ (h = 0 => c >= 1 /\ c <= now + Detect)

LEMMA OverIs ==
  ASSUME Types, NEW h \in Harts, NEW c, Paced(h, c), NEW t \in Nat
  PROVE  /\ Paced(h, Over(h, c, t)) /\ Over(h, c, t) >= 1
         /\ Over(h, c, t) <= t \/ Over(h, c, t) <= now + 1
<1>1. now \in Nat /\ now >= 1 /\ Detect \in Nat /\ c \in Nat
  BY Const DEF Types, Paced
<1>2. PICK s \in Nat : s = Ahead(t)
  BY AheadIs
<1>3. s >= 1 /\ (s <= t \/ s <= now + 1)
  BY <1>2, AheadIs
<1>4. CASE h = 0 /\ s - now > Detect
  <2>1. Over(h, c, t) = c
    BY <1>2, <1>4 DEF Over
  <2>2. c >= 1 /\ c <= now + Detect
    BY <1>4 DEF Paced
  <2> QED BY <1>1, <1>3, <1>4, <2>1, <2>2
<1>5. CASE ~(h = 0 /\ s - now > Detect)
  <2>1. Over(h, c, t) = s
    BY <1>2, <1>5 DEF Over
  <2>2. h = 0 => s <= now + Detect
    BY <1>1, <1>5
  <2> QED BY <1>3, <2>1, <2>2 DEF Paced
<1> QED BY <1>4, <1>5

\* the nearest deadline is armed before the park
LEMMA StepArmAll == ASSUME IInv, NEW h \in Harts, ArmAll(h) PROVE IInv'
<1>1. /\ Types /\ Doze(h) /\ hart[h] \in HartRec /\ hart[h].cmp \in Nat
      /\ hart[h].slp \in Seq(Sleepers) /\ tmr.dl \in Nat
      /\ now \in Nat /\ now >= 1 /\ Detect \in Nat /\ Detect >= 1
  BY Parts, HartIs, Const DEF Types
<1>2. /\ hart[h].waiting = FALSE /\ ready[h] = {}
      /\ UNCHANGED <<now, act, ready, ringing, tmr, count>>
  BY <1>1, UpIs DEF ArmAll, At, Drained
<1>3. PICK c : c = IF h = 0 THEN now + Detect ELSE hart[h].cmp
  OBVIOUS
<1>4. Paced(h, c)
  BY <1>1, <1>3 DEF Paced
<1>5. PICK d : d = TmrArmed(h, c)
  OBVIOUS
<1>6. Paced(h, d)
  BY <1>1, <1>4, <1>5, OverIs DEF TmrArmed
<1>7. PICK e : e = SlpArmed(h, d)
  OBVIOUS
<1> DEFINE R == {act[a].wakeAt : a \in ToSet(hart[h].slp)}
<1>8. \A i \in DOMAIN hart[h].slp : act[hart[h].slp[i]].wakeAt \in R
  BY DEF ToSet
<1>9. R \subseteq Nat
  <2>1. \A a \in ToSet(hart[h].slp) : a \in Actors
    BY <1>1, Const DEF ToSet
  <2> QED BY <1>1, <2>1, ActIs DEF Types
<1>10. hart[h].slp # <<>> =>
         /\ e \in Nat /\ e >= 1
         /\ \A w \in R : e <= w \/ e <= now + 1
  <2>1. SUFFICES ASSUME hart[h].slp # <<>>
                 PROVE  e \in Nat /\ e >= 1 /\ \A w \in R : e <= w \/ e <= now + 1
    OBVIOUS
  <2>2. R # {}
    <3>1. 1 \in DOMAIN hart[h].slp
      BY <1>1, <2>1
    <3> QED BY <1>8, <3>1
  <2>3. PICK t : t = Min(R)
    OBVIOUS
  <2>4. t \in Nat /\ \A w \in R : t <= w
    BY <1>9, <2>2, <2>3, Least
  <2>5. e = Over(h, d, t)
    BY <1>7, <2>1, <2>3 DEF SlpArmed, Nearest
  <2>6. e \in Nat /\ e >= 1 /\ (e <= t \/ e <= now + 1)
    BY <1>1, <1>6, <2>4, <2>5, OverIs DEF Paced
  <2> HIDE DEF R
  <2> QED BY <1>1, <1>9, <2>4, <2>6
<1>11. e \in Nat
  BY <1>6, <1>7, <1>10 DEF SlpArmed, Paced
<1> DEFINE y == [hart[h] EXCEPT !.pc = "wfi", !.cmp = e]
<1>12. hart' = [hart EXCEPT ![h] = y]
  BY <1>3, <1>5, <1>7 DEF ArmAll
<1>13. /\ y \in HartRec /\ y.pc = "wfi" /\ y.slp = hart[h].slp /\ y.waiting = FALSE
       /\ y.cmp = e
  BY <1>1, <1>2, <1>11 DEF HartRec, HartPcs
<1> HIDE DEF y
<1>14. HartOnly(h) /\ hart'[h] = y
  BY <1>1, <1>12, <1>13, HartSet
<1>15. Armed(h)'
  <2>1. ASSUME hart[h].slp # <<>>
        PROVE  e # 0 /\ \A i \in DOMAIN hart[h].slp :
                          e <= act[hart[h].slp[i]].wakeAt \/ e <= now + 1
    <3> HIDE DEF R
    <3> QED BY <1>8, <1>10, <2>1
  <2> QED BY <1>2, <1>13, <1>14, <2>1 DEF Armed
<1>16. Doze(h)'
  BY <1>2, <1>13, <1>14, <1>15 DEF Doze
<1> QED BY <1>2, <1>13, <1>14, <1>16, OwnHart

\* every step of hal_wfi
LEMMA StepPark == ASSUME IInv, NEW h \in Harts, Park(h) PROVE IInv'
  BY StepSpin, StepRaise, StepWait, StepTimeOut, StepLeave, StepLeave2 DEF Park

\* a ringer sees who waits
LEMMA StepRingLook ==
  ASSUME IInv, NEW s \in Harts, NEW h \in Harts, RingLook(s, h) PROVE IInv'
<1>1. /\ Types /\ Parks /\ Counted /\ MailOK /\ ListsOK /\ SleepersOK /\ Dozes /\ Doze(h)
      /\ hart[h] \in HartRec
  BY Parts
<1>2. /\ UNCHANGED <<now, act, ready, tmr, count>> /\ ringing' = ringing \ {<<s, h>>}
      /\ hart' = IF hart[h].waiting /\ hart[h].pc = "asleep" THEN Goto(h, "wait") ELSE hart
      /\ hart[h].waiting => hart[h].pc \in {"asleep", "leave2"}
  BY DEF RingLook, At
<1> DEFINE y == [hart[h] EXCEPT !.pc = "wait"]
<1>3. /\ y \in HartRec /\ y.pc = "wait" /\ y.slp = hart[h].slp /\ y.waiting = hart[h].waiting
      /\ y.bell = hart[h].bell /\ y.cmp = hart[h].cmp
  BY <1>1 DEF HartRec, HartPcs
<1>4. /\ HartOnly(h)
      /\ hart'[h] = IF hart[h].waiting /\ hart[h].pc = "asleep" THEN y ELSE hart[h]
  <2>1. CASE hart[h].waiting /\ hart[h].pc = "asleep"
    <3>1. hart' = [hart EXCEPT ![h] = y]
      BY <1>2, <2>1 DEF Goto
    <3> HIDE DEF y
    <3> QED BY <1>1, <1>3, <2>1, <3>1, HartSet
  <2>2. CASE ~(hart[h].waiting /\ hart[h].pc = "asleep")
    BY <1>1, <1>2, <2>2 DEF HartOnly, Types
  <2> QED BY <2>1, <2>2
<1> HIDE DEF y
<1>5. \A g \in Harts : hart'[g].slp = hart[g].slp
  BY <1>3, <1>4 DEF HartOnly
<1>6. Doze(h)'
  BY <1>1, <1>2, <1>3, <1>4 DEF Doze, Armed
<1>7. Dozes'
  <2>1. SUFFICES ASSUME NEW g \in Harts, g # h PROVE Doze(g)'
    BY <1>6 DEF Dozes
  <2>2. hart'[g] = hart[g] /\ Doze(g)
    BY <1>1, <1>4, <2>1 DEF HartOnly, Dozes
  <2>3. \A r \in Harts : <<r, g>> \in ringing => <<r, g>> \in ringing'
    BY <1>2, <2>1
  <2> QED BY <1>2, <2>2, <2>3 DEF Doze, Armed
<1>8. ListsOK' /\ SleepersOK'
  BY <1>1, <1>2, <1>5, ListsFrame DEF ListsSame
<1>9. Parks' /\ Counted' /\ MailOK'
  BY <1>1, <1>2 DEF Parks, ParkOK, Counted, MailOK
<1>10. Types'
  BY <1>1, <1>2, <1>4, TypesStep DEF HartOnly, Types
<1> QED BY <1>7, <1>8, <1>9, <1>10 DEF IInv

\* the clock moves
LEMMA StepTick == ASSUME IInv, Tick PROVE IInv'
<1>1. /\ Types /\ Parks /\ Counted /\ MailOK /\ ListsOK /\ SleepersOK /\ Dozes
  BY Parts
<1>2. UNCHANGED <<hart, act, ready, ringing, tmr, count>> /\ now' = now + 1 /\ now < MaxTime
  BY DEF Tick
<1>3. now' \in 1..MaxTime /\ now' \in Nat /\ now' >= now
  BY <1>1, <1>2, Const DEF Types
<1>4. Dozes'
  <2>1. SUFFICES ASSUME NEW g \in Harts PROVE Doze(g)'
    BY DEF Dozes
  <2>2. Doze(g) /\ ListOK(g)
    BY <1>1 DEF Dozes, ListsOK
  <2>3. Armed(g) => Armed(g)'
    BY <1>1, <1>2, <1>3, <2>2, ArmedKept
  <2> QED BY <1>2, <2>2, <2>3 DEF Doze
<1>5. ListsOK' /\ SleepersOK'
  BY <1>1, <1>2, ListsFrame DEF ListsSame
<1>6. Parks' /\ Counted' /\ MailOK'
  BY <1>1, <1>2 DEF Parks, ParkOK, Counted, MailOK
<1>7. Types'
  BY <1>1, <1>2, <1>3, TypesStep
<1> QED BY <1>4, <1>5, <1>6, <1>7 DEF IInv

\* nothing changes
LEMMA Stutter == ASSUME IInv, UNCHANGED vars PROVE IInv'
<1>1. /\ Types /\ Parks /\ Counted /\ MailOK /\ ListsOK /\ SleepersOK /\ Dozes
  BY Parts
<1>2. UNCHANGED <<now, hart, act, ready, ringing, tmr, count>>
  BY DEF vars
<1> QED BY <1>1, <1>2
        DEF IInv, Types, Parks, ParkOK, Counted, MailOK, ListsOK, ListOK, SleepersOK, Dozes,
          Doze,
            Armed

\* every step keeps the invariant
LEMMA NextStep == ASSUME IInv, Next PROVE IInv'
<1>1. CASE Tick
  BY <1>1, StepTick
<1>2. ASSUME NEW h \in Harts, Loop(h) PROVE IInv'
  BY <1>2, StepTmrDrain, StepTmrClear, StepSlpDrain, StepPick, StepAgain, StepArmAll, StepPark
     DEF Loop
<1>3. ASSUME NEW h \in Harts, Run(h) PROVE IInv'
  <2>1. CASE TimerArm(h)
    BY <2>1, StepTimerArm
  <2>2. ASSUME NEW a \in Actors, NEW d \in Spans, a # Svc, SleepStart(h, a, d) PROVE IInv'
    <3>1. a \in Sleepers
      BY <2>2 DEF Actors
    <3> QED BY <2>2, <3>1, StepSleepStart
  <2>3. ASSUME NEW a \in Actors,
               HostSlept(h, a) \/ Check(h, a) \/ Look(h, a) \/ Unlink(h, a) \/ End(h, a)
        PROVE  IInv'
    BY <2>3, StepHostSlept, StepCheck, StepLook, StepUnlink, StepEnd
  <2> QED BY <1>3, <2>1, <2>2, <2>3 DEF Run
<1>4. ASSUME NEW h \in Harts, NEW g \in Harts,
             RingLook(g, h) \/ \E a \in Actors : Steal(h, g, a)
      PROVE  IInv'
  BY <1>4, StepRingLook, StepSteal
<1>5. ASSUME NEW h \in Harts, NEW a \in Actors, Kill(h, a) \/ Poke(h, a) PROVE IInv'
  BY <1>5, StepKill, StepPoke
<1> QED BY <1>1, <1>2, <1>3, <1>4, <1>5 DEF Next

-----------------------------------------------------------------------------
\* The invariant and what it says.

\* It holds when the machine starts.
LEMMA InitInv == Init => IInv
<1> SUFFICES ASSUME Init PROVE IInv
  OBVIOUS
<1>1. PICK z : z = <<>>
  OBVIOUS
<1>2. z \in Seq(Sleepers) /\ DOMAIN z = {}
  BY <1>1
<1> DEFINE hr(h) == [pc |-> First(h), cur |-> None, again |-> FALSE, slp |-> z, at |-> 1,
                     cmp |-> 0, bell |-> FALSE, waiting |-> FALSE]
           ar(a) == [pc |-> IF a = Svc THEN "check" ELSE "go", var |-> "READY",
                     hart |-> IF a = Svc THEN IrqHart ELSE 0,
                     on |-> FALSE, slpHart |-> 0, wakeAt |-> 0,
                     running |-> None, parked |-> FALSE, reaped |-> FALSE,
                     left |-> IF a = Svc THEN Arms ELSE Sleeps]
<1>3. /\ now = 1 /\ hart = [h \in Harts |-> hr(h)] /\ act = [a \in Actors |-> ar(a)]
      /\ ready = [h \in Harts |-> {a \in Actors : act[a].hart = h}] /\ ringing = {}
      /\ tmr = [dl |-> 0, mail |-> 0, pokes |-> Pokes, steals |-> Steals]
      /\ count = [blocked |-> 0, sleepers |-> 0]
  BY <1>1 DEF Init
<1>4. \A h \in Harts :
        /\ hr(h) \in HartRec /\ hr(h).slp = z /\ hr(h).waiting = FALSE
        /\ hr(h).pc \in {"tmr", "slp"}
  BY <1>2, FirstIs, PlaceIs DEF HartRec
<1>5. \A a \in Actors :
        /\ ar(a) \in ActRec /\ ar(a).on = FALSE /\ ar(a).parked = FALSE
        /\ ar(a).reaped = FALSE /\ ar(a).pc \in {"check", "go"}
  BY Const DEF ActRec, ActPcs
<1> HIDE DEF hr, ar
<1>6. /\ \A h \in Harts : hart[h] = hr(h)
      /\ \A a \in Actors : act[a] = ar(a)
  BY <1>3
<1>7. Types
  BY <1>3, <1>4, <1>5, Const DEF Types
<1>8. Parks /\ MailOK
  BY <1>3, <1>5, <1>6, Const DEF Parks, ParkOK, MailOK
<1>9. Counted /\ SleepersOK
  <2>1. {a \in Actors : act[a].parked} = {} /\ {a \in Sleepers : act[a].on} = {}
    BY <1>5, <1>6, Const
  <2> QED BY <1>3, <1>5, <1>6, <2>1, FS_EmptySet, Const DEF Counted, SleepersOK
<1>10. ListsOK
  BY <1>2, <1>4, <1>5, <1>6, Const DEF ListsOK, ListOK, Has, Once
<1>11. Dozes
  BY <1>4, <1>6 DEF Dozes, Doze
<1> QED BY <1>7, <1>8, <1>9, <1>10, <1>11 DEF IInv

\* Whoever is marked is linked once, and no other is.
LEMMA LinkedIs == ASSUME IInv PROVE Linked
<1>1. Types /\ ListsOK /\ SleepersOK
  BY Parts
<1>2. ASSUME NEW a \in Sleepers PROVE Cardinality(Links(a)) = IF act[a].on THEN 1 ELSE 0
  <2>1. /\ act[a].slpHart \in Harts
        /\ \A h \in Harts : (act[a].on /\ act[a].slpHart = h) <=> Has(hart[h].slp, a)
    BY <1>1, ActIs, Const DEF Types, ListsOK, ListOK
  <2>2. CASE act[a].on
    <3>1. PICK h \in Harts : h = act[a].slpHart
      BY <2>1
    <3>2. PICK i \in DOMAIN hart[h].slp : hart[h].slp[i] = a
      BY <2>1, <2>2, <3>1 DEF Has
    <3>3. ASSUME NEW g \in Harts, NEW j \in DOMAIN hart[g].slp, hart[g].slp[j] = a
          PROVE  g = h /\ j = i
      <4>1. g = h
        BY <2>1, <3>1, <3>3 DEF Has
      <4>2. Once(hart[h].slp)
        BY <1>1 DEF ListsOK, ListOK
      <4> QED BY <3>2, <3>3, <4>1, <4>2 DEF Once
    <3>4. Links(a) = {<<h, i>>}
      BY <3>2, <3>3 DEF Links
    <3> QED BY <2>2, <3>4, FS_Singleton
  <2>3. CASE ~act[a].on
    <3>1. Links(a) = {}
      BY <2>1, <2>3 DEF Links, Has
    <3> QED BY <2>3, <3>1, FS_EmptySet
  <2> QED BY <2>2, <2>3
<1> QED BY <1>1, <1>2 DEF Linked, SleepersOK

\* the larger of two times
LEMMA MaxIs ==
  ASSUME NEW x \in Nat, NEW y \in Nat
  PROVE  Max({x, y}) \in Nat /\ Max({x, y}) >= x /\ Max({x, y}) >= y
<1>1. \E m \in {x, y} : \A n \in {x, y} : m >= n
  OBVIOUS
<1>2. /\ Max({x, y}) \in {x, y}
      /\ \A n \in {x, y} : Max({x, y}) >= n
  BY <1>1 DEF Max
<1> QED BY <1>2

\* a hart asleep armed its nearest sleeper
LEMMA OnTimeIs == ASSUME IInv PROVE OnTime
<1>1. Types /\ Dozes
  BY Parts
<1>2. SUFFICES ASSUME NEW h \in Harts, hart[h].pc = "asleep", hart[h].slp # <<>>
               PROVE  hart[h].cmp # 0 /\ \A a \in ToSet(hart[h].slp) :
                                           hart[h].cmp <= Max({act[a].wakeAt, now + 1})
  BY DEF OnTime, At
<1>3. Armed(h) /\ hart[h].slp \in Seq(Sleepers) /\ hart[h].cmp \in Nat /\ now \in Nat
  BY <1>1, <1>2, HartIs, Const DEF Dozes, Doze, Types
<1>4. ASSUME NEW a \in ToSet(hart[h].slp) PROVE hart[h].cmp <= Max({act[a].wakeAt, now + 1})
  <2>1. PICK i \in DOMAIN hart[h].slp : a = hart[h].slp[i]
    BY DEF ToSet
  <2>2. act[a].wakeAt \in Nat
    BY <1>1, <1>3, <2>1, ActIs, Const DEF Types
  <2>3. hart[h].cmp <= act[a].wakeAt \/ hart[h].cmp <= now + 1
    BY <1>2, <1>3, <2>1 DEF Armed
  <2>4. PICK w \in Nat : w = act[a].wakeAt
    BY <2>2
  <2>5. PICK m \in Nat : m = Max({w, now + 1})
    BY <1>3, MaxIs
  <2>6. m >= w /\ m >= now + 1
    BY <1>3, <2>5, MaxIs
  <2> QED BY <1>3, <2>3, <2>4, <2>5, <2>6
<1> QED BY <1>2, <1>3, <1>4 DEF Armed

\* the invariant implies what the run checks
LEMMA SoundIs == ASSUME IInv PROVE SleepSound
<1>1. Types /\ Counted /\ MailOK /\ Dozes
  BY Parts
<1>2. TypeOK
  <2>1. /\ now \in 1..MaxTime /\ ringing \subseteq Harts \X Harts
        /\ ready \in [Harts -> SUBSET Actors]
        /\ tmr.dl \in 0..MaxTime /\ tmr.mail \in Nat
    BY <1>1 DEF Types, MailOK
  <2>2. \A h \in Harts : /\ hart[h].cur \in Actors \cup {None} /\ hart[h].cmp \in Nat
                         /\ hart[h].slp \in Seq(Sleepers)
    BY <1>1, HartIs DEF Types
  <2>3. \A a \in Actors : /\ act[a].var \in {"READY", "BLOCKED", "DEAD"}
                          /\ act[a].hart \in Harts
                          /\ act[a].running \in Harts \cup {None}
    BY <1>1, ActIs DEF Types
  <2>4. count.blocked \in Nat
    <3>1. IsFiniteSet({a \in Actors : act[a].parked})
      BY Const, FS_Subset
    <3> QED BY <1>1, <3>1, FS_CardinalityType DEF Counted
  <2> QED BY <2>1, <2>2, <2>3, <2>4 DEF TypeOK
<1>3. Signalled
  BY <1>1 DEF Signalled, At, Dozes, Doze
<1> QED BY <1>1, <1>2, <1>3, LinkedIs, OnTimeIs DEF SleepSound

\* Every reachable state satisfies the inductive invariant: lists, counts,
\* comparators and bells are what their holders take them for.
THEOREM InductiveInvariant == Spec => []IInv
<1>1. IInv /\ [Next]_vars => IInv'
  BY NextStep, Stutter
<1> QED BY <1>1, InitInv, PTL DEF Spec

\* The sleep lists and the detector's counts are exact and a hart sleeps
\* neither past its nearest sleeper nor on work nobody will signal
\* (slp_drain, a_sleep_us, block_unless, hal_wfi), on any number of harts.
THEOREM SleepSoundHolds == Spec => []SleepSound
<1>1. IInv => SleepSound
  BY SoundIs
<1> QED BY <1>1, InductiveInvariant, PTL

\* The body of NotEarly for one sleeper.
InTime(a) ==
  act[a].pc \in {"check", "look", "parked"} /\ act'[a].pc \in {"unlink", "go"}
    => now >= act[a].wakeAt
\* No wait of a sleeper ends.
NoneEnds ==
  \A a \in Sleepers : act[a].pc \in {"check", "look", "parked"} =>
    act'[a].pc \notin {"unlink", "go"}

\* steps that leave every sleeper where it is
LEMMA PcKept ==
  ASSUME \A a \in Sleepers : act'[a].pc = act[a].pc PROVE NoneEnds
  BY DEF NoneEnds

\* a wake leaves every sleeper where it is
LEMMA WakePc ==
  ASSUME NEW A \in [Actors -> ActRec], NEW a \in Actors, NEW s, NEW H, Wake(a, s, A, H),
         \A b \in Sleepers : A[b].pc = act[b].pc
  PROVE  NoneEnds
<1>1. act' = A \/ act' = [A EXCEPT ![a].var = "READY"]
  BY DEF Wake
<1>2. \A b \in Sleepers : act'[b].pc = A[b].pc
  BY <1>1, Const DEF ActRec
<1> QED BY <1>2, PcKept

\* no step of a hart's loop ends a wait
LEMMA NotEarlyLoop == ASSUME IInv, NEW h \in Harts, Loop(h) PROVE NoneEnds
<1>1. Types
  BY Parts
<1>2. CASE TmrDrain(h)
  <2>1. UNCHANGED act \/ \E H : Wake(Svc, h, act, H)
    BY <1>2 DEF TmrDrain
  <2> QED BY <1>1, <2>1, WakePc, PcKept, Const DEF Types
<1>3. CASE TmrClear(h) \/ Again(h) \/ ArmAll(h) \/ Park(h)
  <2>1. UNCHANGED act
    BY <1>3 DEF TmrClear, Again, ArmAll, Park, Spin, Raise, Wait, TimeOut, Leave, Leave2,
       HartStep
  <2> QED BY <2>1, PcKept
<1>4. CASE SlpDrain(h)
  <2>1. PICK a : a = hart[h].slp[hart[h].at]
    OBVIOUS
  <2>2. a \in Actors
    <3>1. hart[h].slp \in Seq(Sleepers) /\ hart[h].at \in Places
            /\ hart[h].at <= Len(hart[h].slp)
      BY <1>1, <1>4, HartIs DEF SlpDrain, Types
    <3>2. hart[h].at \in 1..Len(hart[h].slp)
      BY <3>1, PlaceIs
    <3> QED BY <2>1, <3>1, <3>2, Const
  <2> DEFINE off == [act EXCEPT ![a].on = FALSE]
  <2>3. \/ UNCHANGED act \/ act' = off \/ act' = [ReapedAct(a) EXCEPT ![a].on = FALSE]
        \/ \E H : Wake(a, h, off, H)
    BY <1>4, <2>1 DEF SlpDrain
  <2>4. off \in [Actors -> ActRec] /\ \A b \in Actors : off[b].pc = act[b].pc
    <3>1. [act[a] EXCEPT !.on = FALSE] \in ActRec /\ [act[a] EXCEPT !.on = FALSE].pc = act[a].pc
      BY <1>1, <2>2 DEF Types, ActRec
    <3> QED BY <1>1, <2>2, <3>1 DEF Types
  <2>5. CASE act' = [ReapedAct(a) EXCEPT ![a].on = FALSE]
    <3>1. \A b \in Actors : act'[b].pc = act[b].pc
      BY <1>1, <2>2, <2>5 DEF ReapedAct, Types, ActRec
    <3> QED BY <3>1, PcKept, Const
  <2>6. CASE act' = off \/ UNCHANGED act
    BY <2>4, <2>6, PcKept, Const
  <2>7. CASE \E H : Wake(a, h, off, H)
    <3> HIDE DEF off
    <3> QED BY <2>2, <2>4, <2>7, WakePc, Const
  <2> QED BY <2>3, <2>5, <2>6, <2>7
<1>5. ASSUME NEW a \in Actors, Pick(h, a) PROVE NoneEnds
  <2>1. CASE act[a].var = "READY"
    <3> DEFINE c == IF act[a].pc = "parked" THEN "check" ELSE act[a].pc
               x == [act[a] EXCEPT !.running = h, !.parked = FALSE, !.pc = c]
    <3>1. act' = [act EXCEPT ![a] = x]
      BY <1>5, <2>1 DEF Pick, Resume
    <3>2. x.pc = c
      BY <1>1 DEF Types, ActRec
    <3> HIDE DEF x
    <3>3. \A b \in Actors : b # a => act'[b] = act[b]
      BY <1>1, <3>1 DEF Types
    <3>4. act'[a] = x
      BY <1>1, <3>1 DEF Types
    <3> QED BY <3>2, <3>3, <3>4, Const DEF NoneEnds
  <2>2. CASE act[a].var # "READY"
    <3>1. act' = ReapedAct(a) \/ UNCHANGED act
      BY <1>5, <2>2 DEF Pick
    <3>2. \A b \in Actors : act'[b].pc = act[b].pc
      BY <1>1, <3>1 DEF ReapedAct, Types, ActRec
    <3> QED BY <3>2, PcKept, Const
  <2> QED BY <2>1, <2>2
<1> QED BY <1>2, <1>3, <1>4, <1>5 DEF Loop

-----------------------------------------------------------------------------
\* A sleep is never early.

\* an actor ends its own, when it has seen its deadline pass
LEMMA NotEarlyRun == ASSUME IInv, NEW h \in Harts, Run(h) PROVE \A b \in Sleepers : InTime(b)
<1>1. Types
  BY Parts
<1>2. NoneEnds => \A b \in Sleepers : InTime(b)
  BY DEF NoneEnds, InTime
<1>3. ASSUME NEW a \in Actors, act[a].pc \notin {"check", "look", "parked"},
             \A b \in Actors : b # a => act'[b] = act[b]
      PROVE  NoneEnds
  BY <1>3, Const DEF NoneEnds
<1>4. ASSUME NEW a \in Actors, NEW d \in Spans, SleepStart(h, a, d) PROVE NoneEnds
  <2>1. act[a].pc = "go" /\ \A b \in Actors : b # a => act'[b] = act[b]
    BY <1>1, <1>4 DEF SleepStart, Types
  <2> QED BY <1>3, <2>1
<1>5. ASSUME NEW a \in Actors, HostSlept(h, a) \/ Unlink(h, a) \/ End(h, a) PROVE NoneEnds
  <2>1. /\ act[a].pc \in {"host", "unlink", "go"}
        /\ \A b \in Actors : b # a => act'[b] = act[b]
    BY <1>1, <1>5 DEF HostSlept, Unlink, End, Types
  <2> QED BY <1>3, <2>1
<1>6. ASSUME TimerArm(h) PROVE NoneEnds
  <2>1. act[Svc].pc = "arm" /\ \A b \in Actors : b # Svc => act'[b] = act[b]
    BY <1>1, <1>6, Const DEF TimerArm, Types
  <2> QED BY <1>3, <2>1, Const
\* the two looks at the clock
<1>7. ASSUME NEW a \in Actors, Check(h, a) \/ Look(h, a) PROVE \A b \in Sleepers : InTime(b)
  <2>1. \A b \in Actors : b # a => act'[b] = act[b]
    BY <1>1, <1>7 DEF Check, Look, Types
  <2>2. ASSUME a \in Sleepers, ~Holds(a) PROVE act'[a].pc \in {"look", "end", "parked"}
    <3> DEFINE e == [act[a] EXCEPT !.pc = "end"]
               l == [act[a] EXCEPT !.pc = "look", !.var = "BLOCKED"]
               p == [act[a] EXCEPT !.pc = "parked", !.parked = TRUE]
    <3>1. /\ e \in ActRec /\ e.pc = "end" /\ l \in ActRec /\ l.pc = "look"
          /\ p \in ActRec /\ p.pc = "parked"
      <4>1. act[a] \in ActRec
        BY <1>1 DEF Types
      <4> QED BY <4>1 DEF ActRec, ActPcs
    <3>2. \E x \in {Out(e), l, Out(p)} : act' = [act EXCEPT ![a] = x]
      BY <1>7, <2>2 DEF Check, Look
    <3> HIDE DEF e, l, p
    <3>3. Out(e).pc = "end" /\ Out(p).pc = "parked"
      BY <3>1, OutIs
    <3> QED BY <1>1, <3>1, <3>2, <3>3 DEF Types
  <2>3. Holds(a) /\ a \in Sleepers => now >= act[a].wakeAt
    BY Const DEF Holds
  <2> QED BY <2>1, <2>2, <2>3, Const DEF InTime
<1> QED BY <1>2, <1>4, <1>5, <1>6, <1>7 DEF Run

\* and nobody else ends it
LEMMA NotEarlyStep == ASSUME IInv, [Next]_vars PROVE \A b \in Sleepers : InTime(b)
<1>1. Types
  BY Parts
<1>2. NoneEnds => \A b \in Sleepers : InTime(b)
  BY DEF NoneEnds, InTime
<1>3. CASE Tick \/ UNCHANGED vars
  <2>1. UNCHANGED act
    BY <1>3 DEF Tick, vars
  <2> QED BY <1>2, <2>1, PcKept
<1>4. ASSUME NEW h \in Harts, NEW g \in Harts,
             RingLook(g, h) \/ \E a \in Actors : Steal(h, g, a)
      PROVE  NoneEnds
  <2>1. CASE RingLook(g, h)
    BY <2>1, PcKept DEF RingLook
  <2>2. ASSUME NEW a \in Actors, Steal(h, g, a) PROVE NoneEnds
    <3>1. \A b \in Actors : act'[b].pc = act[b].pc
      BY <1>1, <2>2 DEF Steal, Types, ActRec
    <3> QED BY <3>1, PcKept, Const
  <2> QED BY <1>4, <2>1, <2>2
<1>5. ASSUME NEW h \in Harts, NEW a \in Actors, Kill(h, a) \/ Poke(h, a) PROVE NoneEnds
  <2>1. CASE Kill(h, a)
    <3>1. \A b \in Actors : act'[b].pc = act[b].pc
      BY <1>1, <2>1 DEF Kill, Types, ActRec
    <3> QED BY <3>1, PcKept, Const
  <2>2. CASE Poke(h, a)
    BY <1>1, <2>2, WakePc DEF Poke, Types
  <2> QED BY <1>5, <2>1, <2>2
<1> QED BY <1>2, <1>3, <1>4, <1>5, NotEarlyLoop, NotEarlyRun DEF Next

\* A sleep never returns before its deadline, whoever wakes the sleeper: the
\* loop in a_sleep_us looks at the clock again after every wake.
THEOREM NotEarlyHolds == Spec => NotEarly
<1> DEFINE A == \A a \in Sleepers :
                  act[a].pc \in {"check", "look", "parked"} /\ act'[a].pc \in {"unlink", "go"}
                    => now >= act[a].wakeAt
<1>1. IInv /\ [Next]_vars => [A]_vars
  BY NotEarlyStep DEF InTime
<1> HIDE DEF A
<1>2. Spec => [][A]_vars
  BY <1>1, InductiveInvariant, PTL DEF Spec
<1> QED BY <1>2 DEF NotEarly, A
=============================================================================
