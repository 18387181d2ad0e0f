--------------------------- MODULE ConfineProofs ---------------------------
(***************************************************************************)
(* Proofs about the confined processes of module Confine, for any number   *)
(* of actors, records and blocks, any budget and any number of processes.  *)
(*                                                                         *)
(* The invariant IInv of Confine is inductive: it holds in Init (InitInv), *)
(* and every step keeps it (NextStep).  An action with several outcomes    *)
(* has one lemma per outcome, <Outcome>Step, whose hypotheses are what the *)
(* outcome tests and changes, and one step per part of IInv.  The four     *)
(* parts about records (RecordsOK, LineOK, BoundOK, EndsOK) are carried by *)
(* Frame lemmas where an outcome moves no record.                          *)
(***************************************************************************)
EXTENDS Confine, TLAPS, FiniteSetTheorems

\* who is in the ledger changes with the ledger only
LEMMA ListedSame == ledger' = ledger => Listed' = Listed
BY DEF Listed

\* a step that charges nothing and refuses nothing keeps the accounts
LEMMA AccountsFrame ==
  ASSUME IInv,
         \A b \in Actors : (pc[b] = "refuse" \/ pc'[b] = "refuse") => pc'[b] = pc[b] /\ rec'[b] =
             rec[b],
         UNCHANGED <<charged, budget, rpid, tag, taker>>, missed => missed'
  PROVE  Balanced' /\ WithinBudget' /\ Budgeted' /\ OwnCharges'
<1>1. \A r \in Records : Tagged(r)' = Tagged(r) /\ Refusing(r)' = Refusing(r)
  BY DEF Tagged, Refusing
<1>2. QED BY <1>1 DEF IInv, Balanced, WithinBudget, Budgeted, OwnCharges

\* a step that gives no record, confines nobody and sets no PID_CONFINED keeps BoundOK
LEMMA BoundFrame ==
  ASSUME IInv, missed => missed', running' \subseteq running, told \subseteq told',
         UNCHANGED <<pid, pol>>,
         \A b \in Actors : pc'[b] = "push" => pc[b] = "push" /\ kid'[b] = kid[b],
         \A r \in Records : "CONFINED" \in flags'[r] => "CONFINED" \in flags[r],
         pc[Launcher] = "give" /\ op[Launcher] = "confine" =>
           /\ pc'[Launcher] = pc[Launcher] /\ op'[Launcher] = op[Launcher]
           /\ goal'[Launcher] = goal[Launcher] /\ rec'[Launcher] = rec[Launcher]
  PROVE  BoundOK'
<1>1. \A x \in Actors : Confined(x)' => Confined(x)
  BY DEF IInv, TypeOK, Confined
<1>2. \A p : Told("confine", p) => Told("confine", p)'
  BY DEF Told
<1>3. \A b \in Actors : pc[b] = "push" => kid[b] \in Actors
  BY DEF IInv, CallsOK
<1>4. running \subseteq Actors
  BY DEF IInv, TypeOK
<1> QED BY <1>1, <1>2, <1>3, <1>4 DEF IInv, BoundOK

\* a step that moves no record and clears no PID_CONFINED keeps LineOK
LEMMA LineFrame ==
  ASSUME IInv, missed => missed', running' \subseteq running,
         UNCHANGED <<pid, pol, told>>,
         \A b \in Actors : pc'[b] = "push" => pc[b] = "push" /\ kid'[b] = kid[b],
         \A r \in Records : "CONFINED" \in flags[r] => "CONFINED" \in flags'[r],
         \A b \in Actors : pc'[b] = "give" /\ op'[b] = "confine" =>
           /\ pc[b] = "give" /\ op[b] = "confine" /\ goal'[b] = goal[b]
           /\ rec'[b] = rec[b] /\ some'[b] = some[b]
  PROVE  LineOK'
<1>1. \A x \in Actors : Confined(x) => Confined(x)'
  BY DEF IInv, TypeOK, Confined
<1>2. \A p : Told("confine", p)' <=> Told("confine", p)
  BY DEF Told
<1>3. running \subseteq Actors
  BY DEF IInv, TypeOK
<1> QED BY <1>1, <1>2, <1>3 DEF IInv, LineOK

\* a step that starts no ending and clears no PID_ENDING keeps EndsOK
LEMMA EndsFrame ==
  ASSUME IInv, missed => missed', running' \subseteq running,
         UNCHANGED <<pid, pol, told>>,
         \A b \in Actors : op'[b] = "end" =>
           /\ op[b] = "end" /\ goal'[b] = goal[b] /\ rec'[b] = rec[b]
           /\ pc'[b] # "mark" => pc[b] # "mark" \/ "ENDING" \in flags'[rec[b]],
         \A b \in Actors : pc'[b] = "hold" => pc[b] = "hold",
         \A r \in Records : "ENDING" \in flags[r] => "ENDING" \in flags'[r]
  PROVE  EndsOK'
<1>1. \A p : Told("confine", p)' = Told("confine", p) /\ Told("end", p)' = Told("end", p)
  BY DEF Told
<1>2. running \subseteq Actors /\ pol \in [Actors -> Records \cup {NoRec}]
      /\ rec \in [Actors -> Records \cup {NoRec}]
  BY DEF IInv, TypeOK
<1>3. \A x \in running : ~missed /\ Told("confine", pid[x]) => pol[x] \in Records
  BY <1>2 DEF IInv, LineOK
<1>4. \A b \in Actors : op[b] = "end" /\ pc[b] \in {"mark", "look", "sweep"} => pc[b] = "mark" \/
    rec[b] \in Records
  BY DEF IInv, CallsOK
<1>5. ASSUME NEW b \in Actors, op'[b] = "end", ~missed
      PROVE  /\ rec'[b] = pol'[b] /\ goal'[b] = pid'[b] /\ Told("confine", pid[b])'
             /\ pc'[b] # "mark" => "ENDING" \in flags'[rec'[b]]
  <2>1. rec[b] = pol[b] /\ goal[b] = pid[b] /\ Told("confine", pid[b])
        /\ (pc[b] # "mark" => "ENDING" \in flags[rec[b]])
    BY <1>5 DEF IInv, EndsOK
  <2>2. b \in running
    BY <1>5 DEF IInv, CallsOK
  <2> QED BY <1>1, <1>2, <1>3, <1>5, <2>1, <2>2
<1> QED BY <1>1, <1>2, <1>3, <1>5 DEF IInv, EndsOK

\* the ledger lists actors
LEMMA OfActors ==
  ASSUME TypeOK
  PROVE  Listed \subseteq Actors /\ \A p : Of(p) \subseteq Listed
BY DEF TypeOK, Listed, Of

\* a running actor with a confined record, past its hold, is of a process that was confined
LEMMA ConfinedTold ==
  ASSUME IInv, ~missed, NEW a \in running, pc[a] # "hold", Confined(a)
  PROVE  Told("confine", pid[a]) /\ rpid[pol[a]] = pid[a]
<1>1. a \in Actors
  BY DEF IInv, TypeOK
<1>2. rpid[pol[a]] = pid[a]
  BY DEF IInv, RecordsOK, Stands, Confined
<1>3. op[Launcher] = "confine" => goal[Launcher] # pid[a]
  BY ConfineAssumption DEF IInv, HandOK
<1> QED BY <1>1, <1>2, <1>3 DEF IInv, BoundOK

\* what is tagged with a record, and what is being refused it, are finitely many
LEMMA Counts ==
  ASSUME TypeOK, NEW r
  PROVE  /\ IsFiniteSet(Tagged(r)) /\ IsFiniteSet(Refusing(r))
         /\ Cardinality(Tagged(r)) \in Nat /\ Cardinality(Refusing(r)) \in Nat
         /\ Cardinality(Tagged(r)) = 0 => Tagged(r) = {}
         /\ Cardinality(Refusing(r)) = 0 => Refusing(r) = {}
<1>1. Tagged(r) \subseteq Blocks /\ Refusing(r) \subseteq Actors
  BY DEF Tagged, Refusing
<1>2. IsFiniteSet(Tagged(r)) /\ IsFiniteSet(Refusing(r))
  BY <1>1, ConfineAssumption, FS_Subset
<1> QED BY <1>2, FS_CardinalityType, FS_EmptySet

\* a step that moves no record and changes no PID_DONE keeps RecordsOK
LEMMA RecordsFrame ==
  ASSUME IInv, missed => missed', running' \subseteq running,
         UNCHANGED <<pid, pol, rpid>>,
         \A r \in Records : "DONE" \in flags'[r] <=> "DONE" \in flags[r],
         \A b \in Actors : pc'[b] = "push" => pc[b] = "push" /\ kid'[b] = kid[b],
         \A b \in Actors : pc'[b] = "undone" => pc[b] = "undone" /\ rec'[b] = rec[b],
         \A b \in Actors : pc'[b] = "give" =>
           /\ pc[b] = "give" /\ op'[b] = op[b] /\ goal'[b] = goal[b]
           /\ rec'[b] = rec[b] /\ some'[b] = some[b]
  PROVE  RecordsOK'
<1>1. running \subseteq Actors /\ pol \in [Actors -> Records \cup {NoRec}]
      /\ \A b \in Actors : pc[b] = "push" => kid[b] \in Actors
  BY DEF IInv, TypeOK, CallsOK
<1>2. \A b \in Actors : pc[b] = "give" => rec[b] \in Records
  BY DEF IInv, CallsOK
<1> QED BY <1>1, <1>2 DEF IInv, RecordsOK, Stands, Unheld

-----------------------------------------------------------------------------
(* What each outcome of an action does to the invariant.                    *)

\* the body's end, or a refused spawn: a is dead and leaves its hart
LEMMA FailStep ==
  ASSUME IInv, NEW a \in Actors,
         a \in running,
         pc[a] = "run",
         a # Launcher,
         var' = [var EXCEPT ![a] = "DEAD"],
         running' = running \ {a},
         kid' = [kid EXCEPT ![a] = NoActor],
         pc' = [pc EXCEPT ![a] = "run"],
         op' = [op EXCEPT ![a] = "none"],
         goal' = [goal EXCEPT ![a] = 0],
         rec' = [rec EXCEPT ![a] = NoRec],
         some' = [some EXCEPT ![a] = FALSE],
         dup' = [dup EXCEPT ![a] = FALSE],
         UNCHANGED <<pid, pol, reap, ledger, nextPid, rpid, budget, charged, flags, tag, taker,
                     todo, told, missed>>
  PROVE  IInv'
<1>1. TypeOK'
  BY ConfineAssumption DEF IInv, TypeOK
<1>2. CallsOK'
  BY DEF IInv, CallsOK, Launching, Spawning
<1>3. KidsOK'
  BY ConfineAssumption, ListedSame DEF IInv, KidsOK, TypeOK, RosterOK, Spawning
<1>4. RosterOK'
  BY ConfineAssumption, ListedSame DEF IInv, RosterOK, TypeOK
<1>5. NumbersOK'
  BY ConfineAssumption, ListedSame DEF IInv, NumbersOK, TypeOK
<1>6. LauncherOK'
  BY DEF IInv, LauncherOK, Spawning, Launching
<1>7. HoldOK'
  BY ConfineAssumption, ListedSame DEF IInv, HoldOK, TypeOK, RosterOK
<1>8. HandOK'
  BY ConfineAssumption DEF IInv, HandOK, TypeOK
<1>9. Balanced' /\ WithinBudget' /\ Budgeted' /\ OwnCharges'
  BY AccountsFrame DEF IInv, TypeOK
<1>10. RecordsOK'
  BY DEF IInv, RecordsOK, Stands, Unheld
<1>11. LineOK'
  BY DEF IInv, LineOK, Told, Confined
<1>12. BoundOK'
  BY DEF IInv, BoundOK, Told, Confined
<1>13. EndsOK'
  BY ConfineAssumption DEF IInv, EndsOK, TypeOK, Told, Confined
<1> QED BY <1>1, <1>2, <1>3, <1>4, <1>5, <1>6, <1>7, <1>8, <1>9, <1>10, <1>11, <1>12, <1>13 DEF IInv

\* a confined actor starts to end its process: it has the record of its own process in hand
LEMMA EndStep ==
  ASSUME IInv, NEW a \in Actors,
         a \in running,
         pc[a] = "run",
         Confined(a),
         pc' = [pc EXCEPT ![a] = "mark"],
         op' = [op EXCEPT ![a] = "end"],
         goal' = [goal EXCEPT ![a] = rpid[pol[a]]],
         rec' = [rec EXCEPT ![a] = pol[a]],
         some' = [some EXCEPT ![a] = FALSE],
         dup' = [dup EXCEPT ![a] = FALSE],
         UNCHANGED <<var, running, pid, pol, reap, ledger, nextPid, rpid, budget, charged, flags,
                     tag, taker, kid, todo, told, missed>>
  PROVE  IInv'
<1>1. TypeOK'
  BY SMTT(30), ConfineAssumption, ListedSame DEF IInv, TypeOK, CallsOK, KidsOK, Launching, Spawning,
                              Confined
<1>2. CallsOK'
  BY SMTT(30), ConfineAssumption, ListedSame DEF IInv, TypeOK, CallsOK, KidsOK, RosterOK,
                              LauncherOK, Launching, Spawning, Listed, Confined
<1>3. KidsOK'
  BY DEF IInv, KidsOK, Spawning
<1>4. RosterOK'
  BY ListedSame DEF IInv, RosterOK
<1>5. NumbersOK'
  BY SMTT(30), ConfineAssumption, ListedSame DEF IInv, TypeOK, NumbersOK, CallsOK, KidsOK, RosterOK,
                              LauncherOK, Listed, Launching, Spawning, Confined
<1>6. LauncherOK'
  BY SMTT(30), ConfineAssumption, ListedSame DEF IInv, TypeOK, LauncherOK, CallsOK, KidsOK,
                              RosterOK, NumbersOK, HoldOK, Spawning, Launching, Listed, Confined
<1>7. HoldOK'
  BY DEF IInv, HoldOK
<1>8. HandOK'
  BY ConfineAssumption DEF IInv, HandOK, TypeOK
<1>9. Balanced' /\ WithinBudget' /\ Budgeted' /\ OwnCharges'
  BY AccountsFrame DEF IInv, TypeOK
<1>10. RecordsOK'
  BY DEF IInv, RecordsOK, Stands, Unheld
<1>11. LineOK'
  BY DEF IInv, LineOK, Told, Confined
<1>12. BoundOK'
  BY ConfineAssumption DEF IInv, BoundOK, TypeOK, Told, Confined
<1>13. EndsOK'
  <2>1. CASE missed
    BY <2>1 DEF EndsOK
  <2>2. CASE ~missed
    <3>1. Told("confine", pid[a]) /\ rpid[pol[a]] = pid[a] /\ running \subseteq Actors
      BY <2>2, ConfinedTold DEF IInv, TypeOK
    <3>2. op'[a] = "end" /\ rec'[a] = pol[a] /\ goal'[a] = rpid[pol[a]] /\ pc'[a] = "mark"
      BY DEF IInv, TypeOK
    <3>3. \A b \in Actors \ {a} : /\ op'[b] = op[b] /\ rec'[b] = rec[b]
                                 /\ goal'[b] = goal[b] /\ pc'[b] = pc[b]
      BY DEF IInv, TypeOK
    <3> QED BY <2>2, <3>1, <3>2, <3>3 DEF IInv, EndsOK, Told
  <2> QED BY <2>1, <2>2
<1> QED BY <1>1, <1>2, <1>3, <1>4, <1>5, <1>6, <1>7, <1>8, <1>9, <1>10, <1>11, <1>12, <1>13 DEF IInv

\* the launcher starts a process: x is its only actor, and waits
LEMMA SpawnAppStep ==
  ASSUME IInv, NEW a \in Actors,
         a \in running,
         pc[a] = "run",
         a = Launcher,
         nextPid < MaxPid,
         NEW x \in Actors,
         var[x] = "NEW",
         \A z \in Actors : kid[z] # x,
         nextPid' = nextPid + 1,
         var' = [var EXCEPT ![x] = "LIVE"],
         pid' = [pid EXCEPT ![x] = nextPid + 1],
         Listed' = Listed \cup {x},
         ledger' \in Seq(Actors),
         running' = running \cup {x},
         pc' = [pc EXCEPT ![x] = "hold"],
         UNCHANGED <<pol, reap, rpid, budget, charged, flags, tag, taker, op, goal, rec, some, dup,
                     kid, todo, told, missed>>
  PROVE  IInv'
<1>1. TypeOK'
  <2>1. nextPid + 1 \in 0 .. MaxPid /\ pid' \in [Actors -> 0 .. MaxPid]
    BY ConfineAssumption DEF IInv, TypeOK
  <2>2. var' \in [Actors -> {"NEW", "LIVE", "DEAD"}] /\ running' \subseteq Actors
    BY DEF IInv, TypeOK
  <2> QED BY <2>1, <2>2 DEF IInv, TypeOK
<1>2. CallsOK'
  BY ConfineAssumption DEF IInv, CallsOK, TypeOK, RosterOK, Launching, Spawning
<1>3. KidsOK'
  BY ConfineAssumption DEF IInv, KidsOK, TypeOK, RosterOK, Spawning
<1>4. RosterOK'
  BY ConfineAssumption DEF IInv, RosterOK, TypeOK
<1>5. NumbersOK'
  BY ConfineAssumption DEF IInv, NumbersOK, TypeOK, CallsOK, Launching, Spawning
<1>6. LauncherOK'
  BY ConfineAssumption DEF IInv, LauncherOK, TypeOK, CallsOK, Spawning, Launching
<1>7. HoldOK'
  BY ConfineAssumption DEF IInv, HoldOK, TypeOK, NumbersOK
<1>8. HandOK'
  BY ConfineAssumption DEF IInv, HandOK, TypeOK
<1>9. Balanced' /\ WithinBudget' /\ Budgeted' /\ OwnCharges'
  <2>1. pc[x] = "run"
    BY DEF IInv, RosterOK
  <2> QED BY <2>1, AccountsFrame DEF IInv, TypeOK
<1>10. RecordsOK'
  <2>a. running \subseteq Actors /\ x \notin running
    BY DEF IInv, TypeOK, RosterOK
  <2>b. pol[x] = NoRec
    BY DEF IInv, RosterOK
  <2>1. \A b \in Actors : pc[b] = "push" => kid[b] \in Actors \ {x} /\ b \in running
    BY DEF IInv, CallsOK
  <2>2. \A b \in Actors : pc[b] # "give" /\ pc[b] # "undone"
    BY DEF IInv, CallsOK, LauncherOK, Launching
  <2>3. \A y \in Actors \ {x} : pid'[y] = pid[y] /\ pc'[y] = pc[y]
    BY DEF IInv, TypeOK
  <2>4. pc'[x] = "hold"
    BY DEF IInv, TypeOK
  <2> QED BY <2>a, <2>b, <2>1, <2>2, <2>3, <2>4 DEF IInv, RecordsOK, Stands, Unheld
<1>11. LineOK'
  BY SMTT(30), ConfineAssumption, ListedSame DEF IInv, TypeOK, LineOK, CallsOK, KidsOK, RosterOK,
                              NumbersOK, LauncherOK, HoldOK, HandOK, RecordsOK, Told, Confined,
                              Launching, Spawning, Stands, Unheld
<1>12. BoundOK'
  <2>1. /\ running \subseteq Actors /\ x \notin running
        /\ \A b \in Actors : pc[b] = "push" => b \in running
    BY DEF IInv, TypeOK, RosterOK, CallsOK
  <2>2. pol[x] = NoRec /\ ~Confined(x)
    BY DEF IInv, RosterOK, Confined
  <2>3. \A b \in Actors \ {x} : pc'[b] = pc[b] /\ pid'[b] = pid[b]
    BY DEF IInv, TypeOK
  <2>4. pc'[x] = "hold" /\ pc[Launcher] # "give"
    BY DEF IInv, TypeOK
  <2>5. \A b : Confined(b)' = Confined(b)
    BY DEF Confined
  <2> QED BY <2>1, <2>2, <2>3, <2>4, <2>5 DEF IInv, BoundOK, Told
<1>13. EndsOK'
  BY ConfineAssumption DEF IInv, EndsOK, TypeOK, CallsOK, KidsOK, RosterOK, NumbersOK, LauncherOK,
                           HoldOK, HandOK, RecordsOK, LineOK, BoundOK, Told, Confined, Launching,
                           Spawning, Stands, Unheld
<1> QED BY <1>1, <1>2, <1>3, <1>4, <1>5, <1>6, <1>7, <1>8, <1>9, <1>10, <1>11, <1>12, <1>13 DEF IInv

\* a root is told to go on
LEMMA ReleaseStep ==
  ASSUME IInv, NEW a \in Actors,
         a \in running,
         pc[a] = "run",
         a = Launcher,
         NEW x \in Actors,
         pc[x] = "hold",
         pc' = [pc EXCEPT ![x] = "run"],
         UNCHANGED <<var, running, pid, pol, reap, ledger, nextPid, rpid, budget, charged, flags,
                     tag, taker, op, goal, rec, some, dup, kid, todo, told, missed>>
  PROVE  IInv'
<1>1. TypeOK'
  BY ConfineAssumption DEF IInv, TypeOK
<1>2. CallsOK'
  BY DEF IInv, CallsOK, Launching, Spawning
<1>3. KidsOK'
  BY DEF IInv, KidsOK, Spawning
<1>4. RosterOK'
  BY ListedSame DEF IInv, RosterOK
<1>5. NumbersOK'
  BY ListedSame DEF IInv, NumbersOK
<1>6. LauncherOK'
  BY DEF IInv, LauncherOK, Spawning, Launching
<1>7. HoldOK'
  BY DEF IInv, HoldOK
<1>8. HandOK'
  BY ConfineAssumption DEF IInv, HandOK, TypeOK, CallsOK, LauncherOK, Launching, Spawning
<1>9. Balanced' /\ WithinBudget' /\ Budgeted' /\ OwnCharges'
  BY AccountsFrame DEF IInv, TypeOK
<1>10. RecordsOK'
  BY DEF IInv, RecordsOK, Stands, Unheld
<1>11. LineOK'
  BY DEF IInv, LineOK, Told, Confined
<1>12. BoundOK'
  BY DEF IInv, BoundOK, Told, Confined
<1>13. EndsOK'
  BY DEF IInv, EndsOK, Told, Confined
<1> QED BY <1>1, <1>2, <1>3, <1>4, <1>5, <1>6, <1>7, <1>8, <1>9, <1>10, <1>11, <1>12, <1>13 DEF IInv

\* a spawner takes a control block nobody else is building
LEMMA SpawnTakeStep ==
  ASSUME IInv, NEW a \in Actors,
         a \in running,
         pc[a] = "run",
         a # Launcher,
         NEW x \in Actors,
         var[x] = "NEW",
         \A z \in Actors : kid[z] # x,
         kid' = [kid EXCEPT ![a] = x],
         pc' = [pc EXCEPT ![a] = "take"],
         UNCHANGED <<var, running, pid, pol, reap, ledger, nextPid, rpid, budget, charged, flags,
                     tag, taker, op, goal, rec, some, dup, todo, told, missed>>
  PROVE  IInv'
<1>1. TypeOK'
  BY ConfineAssumption DEF IInv, TypeOK, CallsOK, Launching, Spawning
<1>2. CallsOK'
  BY ConfineAssumption DEF IInv, CallsOK, TypeOK, Launching, Spawning
<1>3. KidsOK'
  BY ConfineAssumption DEF IInv, KidsOK, TypeOK, Spawning
<1>4. RosterOK'
  BY ListedSame DEF IInv, RosterOK
<1>5. NumbersOK'
  BY ListedSame DEF IInv, NumbersOK
<1>6. LauncherOK'
  BY DEF IInv, LauncherOK, Spawning, Launching
<1>7. HoldOK'
  BY DEF IInv, HoldOK
<1>8. HandOK'
  BY DEF IInv, HandOK
<1>9. Balanced' /\ WithinBudget' /\ Budgeted' /\ OwnCharges'
  BY AccountsFrame DEF IInv, TypeOK
<1>10. RecordsOK'
  BY DEF IInv, RecordsOK, Stands, Unheld
<1>11. LineOK'
  BY DEF IInv, LineOK, Told, Confined
<1>12. BoundOK'
  BY DEF IInv, BoundOK, Told, Confined
<1>13. EndsOK'
  BY DEF IInv, EndsOK, Told, Confined
<1> QED BY <1>1, <1>2, <1>3, <1>4, <1>5, <1>6, <1>7, <1>8, <1>9, <1>10, <1>11, <1>12, <1>13 DEF IInv

\* the child's pid and record are its spawner's
LEMMA BuildStep ==
  ASSUME IInv, NEW a \in Actors,
         a \in running,
         pc[a] = "build",
         pid' = [pid EXCEPT ![kid[a]] = pid[a]],
         pol' = [pol EXCEPT ![kid[a]] = pol[a]],
         pc' = [pc EXCEPT ![a] = "push"],
         UNCHANGED <<var, running, reap, ledger, nextPid, rpid, budget, charged, flags, tag, taker,
                     op, goal, rec, some, dup, kid, todo, told, missed>>
  PROVE  IInv'
<1>a. running \subseteq Actors /\ kid[a] \in Actors /\ kid[a] \notin running
  BY DEF IInv, TypeOK, CallsOK, KidsOK, RosterOK
<1>b. \A x \in Actors : x # kid[a] => pid'[x] = pid[x] /\ pol'[x] = pol[x] /\ Confined(x)' =
    Confined(x)
  BY DEF IInv, TypeOK, Confined
<1>c. pid'[kid[a]] = pid[a] /\ pol'[kid[a]] = pol[a] /\ Confined(kid[a])' = Confined(a)
  BY <1>a DEF IInv, TypeOK, Confined
<1>e. \A b \in Actors \ {a} : pc'[b] = pc[b]
  BY DEF IInv, TypeOK
<1>d. \A b \in Actors : pc'[b] = "push" =>
        b = a \/ (pc[b] = "push" /\ kid[b] # kid[a] /\ kid[b] \in Actors /\ b \in running)
  BY <1>a, <1>e DEF IInv, CallsOK, KidsOK
<1>f. \A p, o : Told(o, p)' = Told(o, p)
  BY DEF Told
<1>1. TypeOK'
  BY ConfineAssumption DEF IInv, TypeOK, CallsOK, Launching, Spawning
<1>2. CallsOK'
  BY DEF IInv, CallsOK, Launching, Spawning
<1>3. KidsOK'
  BY ConfineAssumption, ListedSame DEF IInv, KidsOK, TypeOK, CallsOK, RosterOK, Spawning, Launching
<1>4. RosterOK'
  BY ConfineAssumption, ListedSame DEF IInv, RosterOK, TypeOK
<1>5. NumbersOK'
  BY ConfineAssumption, ListedSame DEF IInv, NumbersOK, TypeOK, KidsOK, RosterOK, Spawning
<1>6. LauncherOK'
  BY ConfineAssumption, ListedSame DEF IInv, LauncherOK, TypeOK, KidsOK, RosterOK, Spawning,
                              Launching
<1>7. HoldOK'
  BY ConfineAssumption DEF IInv, HoldOK, TypeOK, KidsOK, Spawning
<1>8. HandOK'
  BY DEF IInv, HandOK
<1>9. Balanced' /\ WithinBudget' /\ Budgeted' /\ OwnCharges'
  BY AccountsFrame DEF IInv, TypeOK
<1>10. RecordsOK'
  BY <1>a, <1>b, <1>c, <1>d, <1>e DEF IInv, RecordsOK, Stands, Unheld
<1>11. LineOK'
  BY <1>a, <1>b, <1>c, <1>d, <1>e, <1>f DEF IInv, LineOK
<1>12. BoundOK'
  <2>1. ~missed /\ Confined(a) => Told("confine", pid[a])
    BY ConfinedTold
  <2> QED BY <2>1, <1>a, <1>b, <1>c, <1>d, <1>e, <1>f DEF IInv, BoundOK, LauncherOK, Spawning
<1>13. EndsOK'
  <2>1. \A b \in Actors : op[b] = "end" => b \in running
    BY DEF IInv, CallsOK
  <2>2. \A b \in Actors : pc'[b] = "hold" => pc[b] = "hold" /\ var[b] # "NEW" /\ b # a
    BY <1>e DEF IInv, TypeOK, HoldOK
  <2>3. op[a] # "end" /\ var[kid[a]] = "NEW"
    BY <1>a DEF IInv, CallsOK, KidsOK, Spawning
  <2> QED BY <2>1, <2>2, <2>3, <1>a, <1>b, <1>c, <1>e, <1>f DEF IInv, EndsOK
<1> QED BY <1>1, <1>2, <1>3, <1>4, <1>5, <1>6, <1>7, <1>8, <1>9, <1>10, <1>11, <1>12, <1>13 DEF IInv

\* the child joins the ledger and goes on a hart
LEMMA PushStep ==
  ASSUME IInv, NEW a \in Actors,
         a \in running,
         pc[a] = "push",
         var' = [var EXCEPT ![kid[a]] = "LIVE"],
         Listed' = Listed \cup {kid[a]},
         ledger' \in Seq(Actors),
         running' = running \cup {kid[a]},
         kid' = [kid EXCEPT ![a] = NoActor],
         pc' = [pc EXCEPT ![a] = "run"],
         UNCHANGED <<pid, pol, reap, nextPid, rpid, budget, charged, flags, tag, taker, op, goal,
                     rec, some, dup, todo, told, missed>>
  PROVE  IInv'
<1>a. running \subseteq Actors /\ kid[a] \in Actors /\ kid[a] \notin running /\ pid[kid[a]] = pid[a]
  BY DEF IInv, TypeOK, CallsOK, KidsOK, RosterOK
<1>b. \A x : Confined(x)' = Confined(x)
  BY DEF Confined
<1>c. \A b \in Actors : pc'[b] = "push" => pc[b] = "push" /\ kid'[b] = kid[b] /\ b # a
  BY DEF IInv, TypeOK
<1>d. \A b \in Actors \ {a} : pc'[b] = pc[b]
  BY DEF IInv, TypeOK
<1>e. \A p, o : Told(o, p)' = Told(o, p)
  BY DEF Told
<1>f. \A b \in Actors : op[b] = "confine" => goal[b] # pid[a]
  BY DEF IInv, HandOK
<1>g. pc'[a] = "run"
  BY DEF IInv, TypeOK
<1>1. TypeOK'
  BY SMTT(30), ConfineAssumption DEF IInv, TypeOK, CallsOK, KidsOK, Launching, Spawning
<1>2. CallsOK'
  BY ConfineAssumption DEF IInv, CallsOK, TypeOK, KidsOK, RosterOK, Launching, Spawning
<1>3. KidsOK'
  BY ConfineAssumption DEF IInv, KidsOK, TypeOK, Spawning
<1>4. RosterOK'
  BY ConfineAssumption DEF IInv, RosterOK, TypeOK
<1>5. NumbersOK'
  BY ConfineAssumption DEF IInv, NumbersOK, TypeOK, CallsOK, KidsOK, RosterOK, LauncherOK,
                           Launching, Spawning
<1>6. LauncherOK'
  BY DEF IInv, LauncherOK, Spawning, Launching
<1>7. HoldOK'
  BY ConfineAssumption DEF IInv, HoldOK, TypeOK, KidsOK, RosterOK, Spawning
<1>8. HandOK'
  BY ConfineAssumption DEF IInv, HandOK, TypeOK, KidsOK, Spawning
<1>9. Balanced' /\ WithinBudget' /\ Budgeted' /\ OwnCharges'
  BY AccountsFrame DEF IInv, TypeOK
<1>10. RecordsOK'
  BY SMTT(30), ConfineAssumption DEF IInv, RecordsOK, TypeOK, CallsOK, KidsOK, Stands, Unheld, Launching,
                           Spawning
<1>11. LineOK'
  <2>1. CASE missed
    BY <2>1 DEF LineOK
  <2>2. CASE ~missed
    <3>1. \A x \in running : Told("confine", pid[x]) => pol[x] # NoRec /\ Confined(x)
            /\ \A y \in running : pid[y] = pid[x] => pol[y] = pol[x]
      BY <2>2 DEF IInv, LineOK
    <3>2. Told("confine", pid[a]) => pol[kid[a]] = pol[a] /\ pol[a] # NoRec /\ Confined(a)
      BY <2>2, <3>1 DEF IInv, LineOK
    <3>3. Confined(a) /\ pol[kid[a]] = pol[a] => Confined(kid[a])
      BY DEF Confined
    <3>4. \A b \in Actors : pc[b] = "give" /\ op[b] = "confine" => pol[kid[a]] # rec[b]
      BY <2>2, <1>f, ConfineAssumption DEF IInv, RecordsOK, Stands, HandOK, CallsOK
    <3>5. \A x \in running' : Told("confine", pid[x]) =>
            /\ pol[x] # NoRec /\ Confined(x)
            /\ \A y \in running' : pid[y] = pid[x] => pol[y] = pol[x]
      BY <3>1, <3>2, <3>3, <1>a
    <3>6. \A b \in Actors : pc[b] = "push" /\ Told("confine", pid[b]) => pol[kid[b]] = pol[b]
      BY <2>2 DEF IInv, LineOK
    <3>7. \A b \in Actors : pc[b] = "give" /\ op[b] = "confine" =>
            \A x \in running' :
              /\ pid[x] = goal[b] /\ some[b] => pol[x] = rec[b]
              /\ Told("confine", goal[b]) => pol[x] # rec[b]
      BY <2>2, <3>4, <1>a, <1>f DEF IInv, LineOK
    <3> QED BY <3>5, <3>6, <3>7, <1>b, <1>c, <1>d, <1>e, <1>g DEF LineOK
  <2> QED BY <2>1, <2>2
<1>12. BoundOK'
  BY SMTT(30), ConfineAssumption DEF IInv, BoundOK, TypeOK, KidsOK, LauncherOK, Told, Confined, Spawning,
                           Launching
<1>13. EndsOK'
  BY SMTT(30), ConfineAssumption, ListedSame DEF IInv, TypeOK, EndsOK, CallsOK, KidsOK, RosterOK,
                              NumbersOK, LauncherOK, HoldOK, HandOK, RecordsOK, LineOK, BoundOK,
                              Told, Confined, Launching, Spawning, Stands, Unheld
<1> QED BY <1>1, <1>2, <1>3, <1>4, <1>5, <1>6, <1>7, <1>8, <1>9, <1>10, <1>11, <1>12, <1>13 DEF IInv

\* an actor without a budget takes a stack
LEMMA ChargeFreeStep ==
  ASSUME IInv, NEW a \in Actors,
         a \in running,
         pc[a] = "take",
         pc' = [pc EXCEPT ![a] = "build"],
         UNCHANGED <<var, running, pid, pol, reap, ledger, nextPid, rpid, budget, charged, flags,
                     tag, taker, op, goal, rec, some, dup, kid, todo, told, missed>>
  PROVE  IInv'
<1>1. TypeOK'
  BY ConfineAssumption DEF IInv, TypeOK
<1>2. CallsOK'
  BY DEF IInv, CallsOK, Launching, Spawning
<1>3. KidsOK'
  BY DEF IInv, KidsOK, Spawning
<1>4. RosterOK'
  BY ListedSame DEF IInv, RosterOK
<1>5. NumbersOK'
  BY ListedSame DEF IInv, NumbersOK
<1>6. LauncherOK'
  BY DEF IInv, LauncherOK, Spawning, Launching
<1>7. HoldOK'
  BY DEF IInv, HoldOK
<1>8. HandOK'
  BY DEF IInv, HandOK
<1>9. Balanced' /\ WithinBudget' /\ Budgeted' /\ OwnCharges'
  BY AccountsFrame DEF IInv, TypeOK
<1>10. RecordsOK'
  BY DEF IInv, RecordsOK, Stands, Unheld
<1>11. LineOK'
  BY DEF IInv, LineOK, Told, Confined
<1>12. BoundOK'
  BY DEF IInv, BoundOK, Told, Confined
<1>13. EndsOK'
  BY DEF IInv, EndsOK, Told, Confined
<1> QED BY <1>1, <1>2, <1>3, <1>4, <1>5, <1>6, <1>7, <1>8, <1>9, <1>10, <1>11, <1>12, <1>13 DEF IInv

\* a take over the budget: it is added, and about to be taken back
LEMMA ChargeOverStep ==
  ASSUME IInv, NEW a \in Actors,
         a \in running,
         pc[a] \in {"run", "take"},
         NEW r \in Records,
         pol[a] = r,
         budget[r] > 0,
         charged[r] + 1 > budget[r],
         charged' = [charged EXCEPT ![r] = @ + 1],
         pc' = [pc EXCEPT ![a] = "refuse"],
         rec' = [rec EXCEPT ![a] = r],
         UNCHANGED <<var, running, pid, pol, reap, ledger, nextPid, rpid, budget, flags, tag, taker,
                     op, goal, some, dup, kid, todo, told, missed>>
  PROVE  IInv'
<1>1. TypeOK'
  BY ConfineAssumption DEF IInv, TypeOK, CallsOK, Launching, Spawning
<1>2. CallsOK'
  BY ConfineAssumption DEF IInv, CallsOK, TypeOK, Launching, Spawning
<1>3. KidsOK'
  BY DEF IInv, KidsOK, Spawning
<1>4. RosterOK'
  BY ListedSame DEF IInv, RosterOK
<1>5. NumbersOK'
  BY ListedSame DEF IInv, NumbersOK
<1>6. LauncherOK'
  BY ConfineAssumption DEF IInv, LauncherOK, TypeOK, Spawning, Launching
<1>7. HoldOK'
  BY DEF IInv, HoldOK
<1>8. HandOK'
  BY DEF IInv, HandOK
<1>9. Balanced' /\ WithinBudget' /\ Budgeted' /\ OwnCharges'
  <2>1. a \notin Refusing(r) /\ Refusing(r)' = Refusing(r) \cup {a}
    BY DEF Refusing, IInv, TypeOK
  <2>2. \A s \in Records \ {r} : Refusing(s)' = Refusing(s)
    BY DEF Refusing, IInv, TypeOK
  <2>3. \A s \in Records : Tagged(s)' = Tagged(s)
    BY DEF Tagged
  <2>4. Cardinality(Refusing(r)') = Cardinality(Refusing(r)) + 1
    BY <2>1, Counts, FS_AddElement DEF IInv
  <2>5. Balanced'
    BY SMTT(30), <2>2, <2>3, <2>4, Counts DEF IInv, TypeOK, Balanced
  <2> QED BY <2>3, <2>5 DEF IInv, TypeOK, WithinBudget, Budgeted, OwnCharges
<1>10. RecordsOK'
  BY DEF IInv, RecordsOK, Stands, Unheld
<1>11. LineOK'
  BY DEF IInv, LineOK, Told, Confined
<1>12. BoundOK'
  BY DEF IInv, BoundOK, Told, Confined
<1>13. EndsOK'
  BY DEF IInv, EndsOK, Told, Confined
<1> QED BY <1>1, <1>2, <1>3, <1>4, <1>5, <1>6, <1>7, <1>8, <1>9, <1>10, <1>11, <1>12, <1>13 DEF IInv

\* a take within the budget: its block is tagged in the same step
LEMMA ChargeFitsStep ==
  ASSUME IInv, NEW a \in Actors,
         a \in running,
         pc[a] \in {"run", "take"},
         NEW r \in Records,
         pol[a] = r,
         budget[r] > 0,
         charged[r] + 1 <= budget[r],
         NEW b \in Blocks,
         tag[b] = NoRec,
         charged' = [charged EXCEPT ![r] = @ + 1],
         tag' = [tag EXCEPT ![b] = r],
         taker' = [taker EXCEPT ![b] = pid[a]],
         NEW l,
         (l = "build" /\ pc[a] = "take") \/ (l = "run" /\ pc[a] = "run"),
         pc' = [pc EXCEPT ![a] = l],
         UNCHANGED <<var, running, pid, pol, reap, ledger, nextPid, rpid, budget, flags, op, goal,
                     rec, some, dup, kid, todo, told, missed>>
  PROVE  IInv'
<1>1. TypeOK'
  <2>1. charged' \in [Records -> Nat]
    BY DEF IInv, TypeOK
  <2>2. tag' \in [Blocks -> Records \cup {NoRec}] /\ taker' \in [Blocks -> 0 .. MaxPid]
    BY DEF IInv, TypeOK
  <2> QED BY <2>1, <2>2 DEF IInv, TypeOK
<1>2. CallsOK'
  BY DEF IInv, TypeOK, CallsOK, KidsOK, Launching, Spawning
<1>3. KidsOK'
  BY DEF IInv, KidsOK, Spawning
<1>4. RosterOK'
  BY ListedSame DEF IInv, RosterOK
<1>5. NumbersOK'
  BY ListedSame DEF IInv, NumbersOK
<1>6. LauncherOK'
  BY DEF IInv, LauncherOK, Spawning, Launching
<1>7. HoldOK'
  BY DEF IInv, HoldOK
<1>8. HandOK'
  <2>1. \A x \in Actors : (pc'[x] = "give" <=> pc[x] = "give") /\ (pc'[x] = "hold" <=> pc[x] =
      "hold")
    BY DEF IInv, TypeOK
  <2> QED BY <2>1 DEF IInv, HandOK
<1>9. Balanced' /\ WithinBudget' /\ Budgeted' /\ OwnCharges'
  <2>1. b \notin Tagged(r) /\ Tagged(r)' = Tagged(r) \cup {b}
    BY ConfineAssumption DEF Tagged, IInv, TypeOK
  <2>2. \A s \in Records \ {r} : Tagged(s)' = Tagged(s)
    BY ConfineAssumption DEF Tagged, IInv, TypeOK
  <2>3. \A s \in Records : Refusing(s)' = Refusing(s)
    BY DEF Refusing, IInv, TypeOK
  <2>4. Cardinality(Tagged(r)') = Cardinality(Tagged(r)) + 1
    BY <2>1, Counts, FS_AddElement DEF IInv
  <2>5. charged[r] = Cardinality(Tagged(r)) + Cardinality(Refusing(r))
        /\ Cardinality(Tagged(r)) \in Nat /\ Cardinality(Refusing(r)) \in Nat
    BY Counts DEF IInv, Balanced
  <2>6. Balanced'
    BY <2>2, <2>3, <2>4, <2>5 DEF IInv, TypeOK, Balanced
  <2>a. charged[r] \in Nat /\ budget[r] \in Nat
    <3>1. charged[r] \in Nat
      BY DEF IInv, TypeOK
    <3>2. budget[r] \in {0, Budget}
      BY DEF IInv, TypeOK
    <3> QED BY <3>1, <3>2, ConfineAssumption
  <2>7. Cardinality(Tagged(r)') <= budget[r]
    BY <2>4, <2>5, <2>a
  <2>8. WithinBudget'
    BY <2>2, <2>7 DEF IInv, TypeOK, WithinBudget
  <2>9. missed \/ rpid[r] = pid[a]
    BY ConfineAssumption DEF IInv, RecordsOK, Stands
  <2> QED BY <2>6, <2>8, <2>9 DEF IInv, TypeOK, Budgeted, OwnCharges
<1>10. RecordsOK'
  BY DEF IInv, RecordsOK, Stands, Unheld
<1>11. LineOK'
  BY DEF IInv, LineOK, Told, Confined
<1>12. BoundOK'
  BY DEF IInv, BoundOK, Told, Confined
<1>13. EndsOK'
  BY DEF IInv, EndsOK, Told, Confined
<1> QED BY <1>1, <1>2, <1>3, <1>4, <1>5, <1>6, <1>7, <1>8, <1>9, <1>10, <1>11, <1>12, <1>13 DEF IInv

\* a refused take is given back, and the process of a starts to end
LEMMA RefuseEndStep ==
  ASSUME IInv, NEW a \in Actors,
         a \in running,
         pc[a] = "refuse",
         NEW r \in Records,
         rec[a] = r,
         charged' = [charged EXCEPT ![r] = @ - 1],
         Confined(a),
         kid' = [kid EXCEPT ![a] = NoActor],
         pc' = [pc EXCEPT ![a] = "mark"],
         op' = [op EXCEPT ![a] = "end"],
         goal' = [goal EXCEPT ![a] = rpid[pol[a]]],
         rec' = [rec EXCEPT ![a] = pol[a]],
         some' = [some EXCEPT ![a] = FALSE],
         dup' = [dup EXCEPT ![a] = FALSE],
         UNCHANGED <<var, running, pid, pol, reap, ledger, nextPid, rpid, budget, flags, tag, taker,
                     todo, told, missed>>
  PROVE  IInv'
<1>a. a \in Refusing(r)
  BY DEF Refusing, IInv, TypeOK
<1>b. /\ charged[r] = Cardinality(Tagged(r)) + Cardinality(Refusing(r))
      /\ Cardinality(Tagged(r)) \in Nat /\ Cardinality(Refusing(r)) \in Nat \ {0}
  BY <1>a, Counts DEF IInv, Balanced
<1>c. charged[r] - 1 \in Nat
  BY <1>b
<1>1. TypeOK'
  <2>1. charged' \in [Records -> Nat]
    BY <1>c DEF IInv, TypeOK
  <2>2. ~Confined(a) \/ (rpid[pol[a]] \in 0 .. MaxPid /\ pol[a] \in Records)
    BY DEF Confined, IInv, TypeOK
  <2>3. goal' \in [Actors -> 0 .. MaxPid] /\ rec' \in [Actors -> Records \cup {NoRec}]
    BY <2>2 DEF IInv, TypeOK
  <2>4. /\ pc' \in [Actors -> {"hold", "run", "take", "refuse", "build", "push", "find", "new",
                             "give", "undone", "mark", "look", "sweep"}]
        /\ op' \in [Actors -> {"none", "confine", "kill", "end"}]
    BY DEF IInv, TypeOK
  <2>5. /\ kid' \in [Actors -> Actors \cup {NoActor}]
        /\ some' \in [Actors -> BOOLEAN] /\ dup' \in [Actors -> BOOLEAN]
    BY DEF IInv, TypeOK
  <2> QED BY <2>1, <2>3, <2>4, <2>5 DEF IInv, TypeOK
<1>2. CallsOK'
  BY SMTT(30), ConfineAssumption, ListedSame DEF IInv, TypeOK, CallsOK, KidsOK, RosterOK,
                              LauncherOK, Launching, Spawning, Listed, Confined
<1>3. KidsOK'
  BY ConfineAssumption DEF IInv, KidsOK, TypeOK, Spawning
<1>4. RosterOK'
  BY ListedSame DEF IInv, RosterOK
<1>5. NumbersOK'
  BY SMTT(30), ConfineAssumption, ListedSame DEF IInv, TypeOK, NumbersOK, CallsOK, KidsOK, RosterOK,
                              LauncherOK, Listed, Launching, Spawning, Confined
<1>6. LauncherOK'
  BY DEF IInv, LauncherOK, Spawning, Launching
<1>7. HoldOK'
  BY DEF IInv, HoldOK
<1>8. HandOK'
  BY ConfineAssumption DEF IInv, HandOK, TypeOK
<1>9. Balanced' /\ WithinBudget' /\ Budgeted' /\ OwnCharges'
  <2>1. Refusing(r)' = Refusing(r) \ {a}
    BY DEF Refusing, IInv, TypeOK
  <2>2. \A s \in Records \ {r} : Refusing(s)' = Refusing(s)
    BY DEF Refusing, IInv, TypeOK
  <2>3. \A s \in Records : Tagged(s)' = Tagged(s)
    BY DEF Tagged
  <2>4. Cardinality(Refusing(r)') = Cardinality(Refusing(r)) - 1
    <3>1. IsFiniteSet(Refusing(r)) /\ a \in Refusing(r)
      BY <1>a, Counts DEF IInv
    <3>2. Cardinality(Refusing(r) \ {a}) = Cardinality(Refusing(r)) - 1
      BY <3>1, FS_RemoveElement
    <3> QED BY <2>1, <3>2
  <2>5. charged'[r] = Cardinality(Tagged(r)') + Cardinality(Refusing(r)')
    BY <1>b, <2>3, <2>4 DEF IInv, TypeOK
  <2>6. \A s \in Records \ {r} : charged'[s] = charged[s]
    BY DEF IInv, TypeOK
  <2>7. Balanced'
    BY <2>2, <2>3, <2>5, <2>6 DEF IInv, Balanced
  <2> QED BY <2>3, <2>7 DEF IInv, TypeOK, WithinBudget, Budgeted, OwnCharges
<1>10. RecordsOK'
  BY DEF IInv, RecordsOK, Stands, Unheld
<1>11. LineOK'
  BY DEF IInv, LineOK, Told, Confined
<1>12. BoundOK'
  BY SMTT(30), BoundFrame DEF IInv, TypeOK, LauncherOK, Spawning
<1>13. EndsOK'
  <2>1. CASE missed
    BY <2>1 DEF EndsOK
  <2>2. CASE ~missed
    <3>1. Told("confine", pid[a]) /\ rpid[pol[a]] = pid[a] /\ running \subseteq Actors
      BY <2>2, ConfinedTold DEF IInv, TypeOK
    <3>2. op'[a] = "end" /\ rec'[a] = pol[a] /\ goal'[a] = rpid[pol[a]] /\ pc'[a] = "mark"
      BY DEF IInv, TypeOK
    <3>3. \A b \in Actors \ {a} : /\ op'[b] = op[b] /\ rec'[b] = rec[b]
                                 /\ goal'[b] = goal[b] /\ pc'[b] = pc[b]
      BY DEF IInv, TypeOK
    <3> QED BY <2>2, <3>1, <3>2, <3>3 DEF IInv, EndsOK, Told
  <2> QED BY <2>1, <2>2
<1> QED BY <1>1, <1>2, <1>3, <1>4, <1>5, <1>6, <1>7, <1>8, <1>9, <1>10, <1>11, <1>12, <1>13 DEF IInv

\* a refused take is given back, and a fails
LEMMA RefuseFailStep ==
  ASSUME IInv, NEW a \in Actors,
         a \in running,
         pc[a] = "refuse",
         NEW r \in Records,
         rec[a] = r,
         charged' = [charged EXCEPT ![r] = @ - 1],
         var' = [var EXCEPT ![a] = "DEAD"],
         running' = running \ {a},
         kid' = [kid EXCEPT ![a] = NoActor],
         pc' = [pc EXCEPT ![a] = "run"],
         op' = [op EXCEPT ![a] = "none"],
         goal' = [goal EXCEPT ![a] = 0],
         rec' = [rec EXCEPT ![a] = NoRec],
         some' = [some EXCEPT ![a] = FALSE],
         dup' = [dup EXCEPT ![a] = FALSE],
         UNCHANGED <<pid, pol, reap, ledger, nextPid, rpid, budget, flags, tag, taker, todo, told,
                     missed>>
  PROVE  IInv'
<1>a. a \in Refusing(r)
  BY DEF Refusing, IInv, TypeOK
<1>b. /\ charged[r] = Cardinality(Tagged(r)) + Cardinality(Refusing(r))
      /\ Cardinality(Tagged(r)) \in Nat /\ Cardinality(Refusing(r)) \in Nat \ {0}
  BY <1>a, Counts DEF IInv, Balanced
<1>c. charged[r] - 1 \in Nat
  BY <1>b
<1>1. TypeOK'
  <2>1. charged' \in [Records -> Nat]
    BY <1>c DEF IInv, TypeOK
  <2>2. ~Confined(a) \/ (rpid[pol[a]] \in 0 .. MaxPid /\ pol[a] \in Records)
    BY DEF Confined, IInv, TypeOK
  <2> QED BY SMTT(30), <2>1, <2>2, ConfineAssumption DEF IInv, TypeOK
<1>2. CallsOK'
  BY ConfineAssumption DEF IInv, CallsOK, TypeOK, Launching, Spawning
<1>3. KidsOK'
  BY ConfineAssumption, ListedSame DEF IInv, KidsOK, TypeOK, RosterOK, Spawning
<1>4. RosterOK'
  BY ConfineAssumption, ListedSame DEF IInv, RosterOK, TypeOK
<1>5. NumbersOK'
  BY ConfineAssumption, ListedSame DEF IInv, NumbersOK, TypeOK
<1>6. LauncherOK'
  BY DEF IInv, LauncherOK, Spawning, Launching
<1>7. HoldOK'
  BY ConfineAssumption, ListedSame DEF IInv, HoldOK, TypeOK, RosterOK
<1>8. HandOK'
  BY ConfineAssumption DEF IInv, HandOK, TypeOK
<1>9. Balanced' /\ WithinBudget' /\ Budgeted' /\ OwnCharges'
  <2>1. Refusing(r)' = Refusing(r) \ {a}
    BY DEF Refusing, IInv, TypeOK
  <2>2. \A s \in Records \ {r} : Refusing(s)' = Refusing(s)
    BY DEF Refusing, IInv, TypeOK
  <2>3. \A s \in Records : Tagged(s)' = Tagged(s)
    BY DEF Tagged
  <2>4. Cardinality(Refusing(r)') = Cardinality(Refusing(r)) - 1
    <3>1. IsFiniteSet(Refusing(r)) /\ a \in Refusing(r)
      BY <1>a, Counts DEF IInv
    <3>2. Cardinality(Refusing(r) \ {a}) = Cardinality(Refusing(r)) - 1
      BY <3>1, FS_RemoveElement
    <3> QED BY <2>1, <3>2
  <2>5. charged'[r] = Cardinality(Tagged(r)') + Cardinality(Refusing(r)')
    BY <1>b, <2>3, <2>4 DEF IInv, TypeOK
  <2>6. \A s \in Records \ {r} : charged'[s] = charged[s]
    BY DEF IInv, TypeOK
  <2>7. Balanced'
    BY <2>2, <2>3, <2>5, <2>6 DEF IInv, Balanced
  <2> QED BY <2>3, <2>7 DEF IInv, TypeOK, WithinBudget, Budgeted, OwnCharges
<1>10. RecordsOK'
  BY DEF IInv, RecordsOK, Stands, Unheld
<1>11. LineOK'
  BY DEF IInv, LineOK, Told, Confined
<1>12. BoundOK'
  BY DEF IInv, BoundOK, Told, Confined
<1>13. EndsOK'
  BY ConfineAssumption DEF IInv, EndsOK, TypeOK, Told, Confined
<1> QED BY <1>1, <1>2, <1>3, <1>4, <1>5, <1>6, <1>7, <1>8, <1>9, <1>10, <1>11, <1>12, <1>13 DEF IInv

\* Sys.confine of a process whose root x waits
LEMMA StartConfineStep ==
  ASSUME IInv, NEW a \in Actors,
         a \in running,
         pc[a] = "run",
         a = Launcher,
         NEW x \in Actors,
         pc[x] = "hold",
         pc' = [pc EXCEPT ![a] = "new"],
         op' = [op EXCEPT ![a] = "confine"],
         goal' = [goal EXCEPT ![a] = pid[x]],
         rec' = [rec EXCEPT ![a] = NoRec],
         some' = [some EXCEPT ![a] = FALSE],
         dup' = [dup EXCEPT ![a] = FALSE],
         UNCHANGED <<var, running, pid, pol, reap, ledger, nextPid, rpid, budget, charged, flags,
                     tag, taker, kid, todo, told, missed>>
  PROVE  IInv'
<1>1. TypeOK'
  BY ConfineAssumption DEF IInv, TypeOK
<1>2. CallsOK'
  BY ConfineAssumption DEF IInv, CallsOK, TypeOK, Launching, Spawning
<1>3. KidsOK'
  BY DEF IInv, KidsOK, Spawning
<1>4. RosterOK'
  BY ListedSame DEF IInv, RosterOK
<1>5. NumbersOK'
  BY ListedSame DEF IInv, NumbersOK
<1>6. LauncherOK'
  <2>1. pid[x] >= 1 /\ x # Launcher
    BY DEF IInv, TypeOK, NumbersOK, LauncherOK, RosterOK, HoldOK
  <2> QED BY <2>1 DEF IInv, TypeOK, LauncherOK, CallsOK, Spawning, Launching
<1>7. HoldOK'
  BY DEF IInv, HoldOK
<1>8. HandOK'
  <2>1. running \subseteq Actors /\ \A y \in running : var[y] # "NEW"
    BY DEF IInv, TypeOK, RosterOK
  <2>2. \A y \in running : pid[y] = pid[x] => y = x
    BY <2>1 DEF IInv, HoldOK
  <2>3. \A b \in Actors \ {a} : op'[b] # "confine"
    BY DEF IInv, TypeOK, LauncherOK, Launching
  <2>4. goal'[a] = pid[x] /\ pc'[a] = "new" /\ pc'[x] = "hold"
    BY DEF IInv, TypeOK
  <2>5. \A b \in Actors : pc'[b] # "give"
    BY <2>4 DEF IInv, TypeOK, CallsOK, LauncherOK, Launching
  <2> QED BY <2>1, <2>2, <2>3, <2>4, <2>5 DEF HandOK
<1>9. Balanced' /\ WithinBudget' /\ Budgeted' /\ OwnCharges'
  BY AccountsFrame DEF IInv, TypeOK
<1>10. RecordsOK'
  BY DEF IInv, RecordsOK, Stands, Unheld
<1>11. LineOK'
  BY SMTT(30) DEF IInv, LineOK, Told, Confined
<1>12. BoundOK'
  BY DEF IInv, BoundOK, Told, Confined
<1>13. EndsOK'
  BY ConfineAssumption DEF IInv, EndsOK, TypeOK, Told, Confined
<1> QED BY <1>1, <1>2, <1>3, <1>4, <1>5, <1>6, <1>7, <1>8, <1>9, <1>10, <1>11, <1>12, <1>13 DEF IInv

\* Sys.killPid of process p
LEMMA StartKillStep ==
  ASSUME IInv, NEW a \in Actors,
         a \in running,
         pc[a] = "run",
         a = Launcher,
         NEW p \in 1 .. nextPid,
         pc' = [pc EXCEPT ![a] = "find"],
         op' = [op EXCEPT ![a] = "kill"],
         goal' = [goal EXCEPT ![a] = p],
         rec' = [rec EXCEPT ![a] = NoRec],
         some' = [some EXCEPT ![a] = FALSE],
         dup' = [dup EXCEPT ![a] = FALSE],
         todo' = [todo EXCEPT ![a] = Of(p)],
         UNCHANGED <<var, running, pid, pol, reap, ledger, nextPid, rpid, budget, charged, flags,
                     tag, taker, kid, told, missed>>
  PROVE  IInv'
<1>1. TypeOK'
  BY SMTT(30), OfActors, ConfineAssumption DEF IInv, TypeOK, CallsOK
<1>2. CallsOK'
  BY ConfineAssumption DEF IInv, CallsOK, TypeOK, Launching, Spawning, Of
<1>3. KidsOK'
  BY DEF IInv, KidsOK, Spawning, Of
<1>4. RosterOK'
  BY SMTT(30), ConfineAssumption, ListedSame, OfActors DEF IInv, RosterOK, TypeOK, LauncherOK, Spawning,
                              Launching, Of
<1>5. NumbersOK'
  BY ListedSame DEF IInv, NumbersOK, Of
<1>6. LauncherOK'
  BY ConfineAssumption DEF IInv, LauncherOK, TypeOK, Spawning, Launching, Of
<1>7. HoldOK'
  BY DEF IInv, HoldOK, Of
<1>8. HandOK'
  BY ConfineAssumption DEF IInv, HandOK, TypeOK, Of
<1>9. Balanced' /\ WithinBudget' /\ Budgeted' /\ OwnCharges'
  BY AccountsFrame DEF IInv, TypeOK
<1>10. RecordsOK'
  BY DEF IInv, RecordsOK, Stands, Unheld, Of
<1>11. LineOK'
  BY LineFrame DEF IInv, TypeOK, CallsOK
<1>12. BoundOK'
  BY DEF IInv, BoundOK, Told, Confined, Of
<1>13. EndsOK'
  BY ConfineAssumption DEF IInv, EndsOK, TypeOK, Told, Confined, Of
<1> QED BY <1>1, <1>2, <1>3, <1>4, <1>5, <1>6, <1>7, <1>8, <1>9, <1>10, <1>11, <1>12, <1>13 DEF IInv

\* no actor of the process has a record
LEMMA FindNoneStep ==
  ASSUME IInv, NEW a \in Actors,
         a \in running,
         pc[a] = "find",
         todo[a] = {},
         pc' = [pc EXCEPT ![a] = "new"],
         UNCHANGED <<var, running, pid, pol, reap, ledger, nextPid, rpid, budget, charged, flags,
                     tag, taker, op, goal, rec, some, dup, kid, todo, told, missed>>
  PROVE  IInv'
<1>1. TypeOK'
  BY ConfineAssumption DEF IInv, TypeOK
<1>2. CallsOK'
  BY DEF IInv, CallsOK, Launching, Spawning
<1>3. KidsOK'
  BY DEF IInv, KidsOK, Spawning
<1>4. RosterOK'
  BY ListedSame DEF IInv, RosterOK
<1>5. NumbersOK'
  BY ListedSame DEF IInv, NumbersOK
<1>6. LauncherOK'
  BY DEF IInv, LauncherOK, Spawning, Launching
<1>7. HoldOK'
  BY DEF IInv, HoldOK
<1>8. HandOK'
  BY DEF IInv, HandOK
<1>9. Balanced' /\ WithinBudget' /\ Budgeted' /\ OwnCharges'
  BY AccountsFrame DEF IInv, TypeOK
<1>10. RecordsOK'
  BY DEF IInv, RecordsOK, Stands, Unheld
<1>11. LineOK'
  BY DEF IInv, LineOK, Told, Confined
<1>12. BoundOK'
  BY DEF IInv, BoundOK, Told, Confined
<1>13. EndsOK'
  BY DEF IInv, EndsOK, Told, Confined
<1> QED BY <1>1, <1>2, <1>3, <1>4, <1>5, <1>6, <1>7, <1>8, <1>9, <1>10, <1>11, <1>12, <1>13 DEF IInv

\* a live actor of the process has one
LEMMA FindHitStep ==
  ASSUME IInv, NEW a \in Actors,
         a \in running,
         pc[a] = "find",
         NEW x \in Actors,
         x \in todo[a],
         todo' = [todo EXCEPT ![a] = @ \ {x}],
         pol[x] # NoRec,
         var[x] # "DEAD",
         rec' = [rec EXCEPT ![a] = pol[x]],
         pc' = [pc EXCEPT ![a] = "mark"],
         UNCHANGED <<var, running, pid, pol, reap, ledger, nextPid, rpid, budget, charged, flags,
                     tag, taker, op, goal, some, dup, kid, told, missed>>
  PROVE  IInv'
<1>1. TypeOK'
  <2>1. rec' \in [Actors -> Records \cup {NoRec}] /\ todo' \in [Actors -> SUBSET Actors]
    BY DEF IInv, TypeOK
  <2> QED BY <2>1 DEF IInv, TypeOK
<1>2. CallsOK'
  BY ConfineAssumption DEF IInv, CallsOK, TypeOK, Launching, Spawning
<1>3. KidsOK'
  BY DEF IInv, KidsOK, Spawning
<1>4. RosterOK'
  BY ListedSame DEF IInv, RosterOK
<1>5. NumbersOK'
  BY ListedSame DEF IInv, NumbersOK
<1>6. LauncherOK'
  BY DEF IInv, LauncherOK, Spawning, Launching
<1>7. HoldOK'
  BY DEF IInv, HoldOK
<1>8. HandOK'
  BY DEF IInv, HandOK
<1>9. Balanced' /\ WithinBudget' /\ Budgeted' /\ OwnCharges'
  BY AccountsFrame DEF IInv, TypeOK
<1>10. RecordsOK'
  BY DEF IInv, RecordsOK, Stands, Unheld
<1>11. LineOK'
  BY DEF IInv, LineOK, Told, Confined
<1>12. BoundOK'
  BY DEF IInv, BoundOK, Told, Confined
<1>13. EndsOK'
  BY ConfineAssumption DEF IInv, EndsOK, TypeOK, CallsOK, Told, Confined, Launching, Spawning
<1> QED BY <1>1, <1>2, <1>3, <1>4, <1>5, <1>6, <1>7, <1>8, <1>9, <1>10, <1>11, <1>12, <1>13 DEF IInv

\* this actor of it has none
LEMMA FindMissStep ==
  ASSUME IInv, NEW a \in Actors,
         a \in running,
         pc[a] = "find",
         NEW x \in Actors,
         x \in todo[a],
         todo' = [todo EXCEPT ![a] = @ \ {x}],
         UNCHANGED <<var, running, pid, pol, reap, ledger, nextPid, rpid, budget, charged, flags,
                     tag, taker, pc, op, goal, rec, some, dup, kid, told, missed>>
  PROVE  IInv'
<1>1. TypeOK'
  BY ConfineAssumption DEF IInv, TypeOK, CallsOK, KidsOK, Launching, Spawning
<1>2. CallsOK'
  BY DEF IInv, CallsOK, Launching, Spawning
<1>3. KidsOK'
  BY DEF IInv, KidsOK, Spawning
<1>4. RosterOK'
  BY ListedSame DEF IInv, RosterOK
<1>5. NumbersOK'
  BY ListedSame DEF IInv, NumbersOK
<1>6. LauncherOK'
  BY DEF IInv, LauncherOK, Spawning, Launching
<1>7. HoldOK'
  BY DEF IInv, HoldOK
<1>8. HandOK'
  BY DEF IInv, HandOK
<1>9. Balanced' /\ WithinBudget' /\ Budgeted' /\ OwnCharges'
  BY AccountsFrame
<1>10. RecordsOK'
  BY DEF IInv, RecordsOK, Stands, Unheld
<1>11. LineOK'
  BY DEF IInv, LineOK, Told, Confined
<1>12. BoundOK'
  BY DEF IInv, BoundOK, Told, Confined
<1>13. EndsOK'
  BY DEF IInv, EndsOK, Told, Confined
<1> QED BY <1>1, <1>2, <1>3, <1>4, <1>5, <1>6, <1>7, <1>8, <1>9, <1>10, <1>11, <1>12, <1>13 DEF IInv

\* a spent record is nobody's, so that it may be taken for process goal[a]
LEMMA NewTakenStep ==
  ASSUME IInv, NEW a \in Actors,
         a \in running,
         pc[a] = "new",
         NEW r \in Records,
         Spent(r),
         rpid' = [rpid EXCEPT ![r] = goal[a]],
         budget' = [budget EXCEPT ![r] = IF op[a] = "confine" THEN Budget ELSE 0],
         flags' = [flags EXCEPT ![r] = IF op[a] = "confine" THEN {"CONFINED"} ELSE {}],
         rec' = [rec EXCEPT ![a] = r],
         pc' = [pc EXCEPT ![a] = "give"],
         todo' = [todo EXCEPT ![a] = Of(goal[a])],
         some' = [some EXCEPT ![a] = FALSE],
         UNCHANGED <<var, running, pid, pol, reap, ledger, nextPid, charged, tag, taker, op, goal,
                     dup, kid, told, missed>>
  PROVE  IInv'
<1>a. running \subseteq Actors /\ "DONE" \in flags[r] /\ pol \in [Actors -> Records \cup {NoRec}]
  BY DEF IInv, TypeOK, Spent
<1>b. ~missed => Unheld(r)
  BY <1>a, ConfineAssumption DEF IInv, RecordsOK, Stands, Unheld
<1>c. \A s \in Records \ {r} : flags'[s] = flags[s] /\ rpid'[s] = rpid[s]
  BY DEF IInv, TypeOK
<1>d. \A x \in Actors : pol[x] # r => Confined(x)' = Confined(x)
  BY <1>a, <1>c DEF Confined
<1>e. \A p, o : Told(o, p)' = Told(o, p)
  BY DEF Told
<1>f. /\ pc'[a] = "give" /\ rec'[a] = r /\ some'[a] = FALSE /\ "DONE" \notin flags'[r]
      /\ \A b \in Actors \ {a} : pc'[b] = pc[b] /\ rec'[b] = rec[b] /\ some'[b] = some[b]
  BY DEF IInv, TypeOK
<1>g. op[a] \in Launching /\ a = Launcher
  BY DEF IInv, CallsOK, LauncherOK
<1>h. \A b \in Actors : pc[b] = "push" => kid[b] \in Actors
  BY DEF IInv, CallsOK
<1>i. \A b \in Actors \ {a} : pc[b] # "give" /\ pc[b] # "undone"
  BY <1>g DEF IInv, CallsOK, LauncherOK, Launching
<1>1. TypeOK'
  BY SMTT(30), OfActors, ConfineAssumption DEF IInv, TypeOK, CallsOK
<1>2. CallsOK'
  BY ConfineAssumption DEF IInv, CallsOK, TypeOK, Launching, Spawning, Of, Spent
<1>3. KidsOK'
  BY DEF IInv, KidsOK, Spawning, Of, Spent
<1>4. RosterOK'
  BY ConfineAssumption, ListedSame, OfActors DEF IInv, RosterOK, TypeOK, CallsOK, KidsOK, NumbersOK,
                              LauncherOK, Launching, Spawning, Of, Spent
<1>5. NumbersOK'
  BY ConfineAssumption, ListedSame DEF IInv, NumbersOK, TypeOK, CallsOK, LauncherOK, Launching,
                              Spawning, Of, Spent
<1>6. LauncherOK'
  BY ConfineAssumption DEF IInv, LauncherOK, TypeOK, Spawning, Launching, Of, Spent
<1>7. HoldOK'
  BY DEF IInv, HoldOK, Of, Spent
<1>8. HandOK'
  BY ConfineAssumption DEF IInv, HandOK, TypeOK, CallsOK, LauncherOK, Launching, Spawning, Of, Spent
<1>9. Balanced' /\ WithinBudget' /\ Budgeted' /\ OwnCharges'
  <2>a. Cardinality(Tagged(r)) = 0 /\ Cardinality(Refusing(r)) = 0
    BY Counts DEF IInv, Balanced, Spent
  <2>1. Tagged(r) = {} /\ Refusing(r) = {}
    BY <2>a, Counts DEF IInv
  <2>2. \A s \in Records : Tagged(s)' = Tagged(s)
    BY DEF Tagged
  <2>3. \A s \in Records : Refusing(s)' = Refusing(s)
    BY <2>1 DEF Refusing, IInv, TypeOK
  <2>4. Balanced'
    BY <2>2, <2>3 DEF IInv, Balanced
  <2>5. WithinBudget'
    BY <2>a, <2>2, ConfineAssumption DEF IInv, TypeOK, WithinBudget
  <2>6. \A b \in Blocks : tag[b] # r
    BY <2>1 DEF Tagged
  <2> QED BY <2>4, <2>5, <2>6 DEF IInv, TypeOK, Budgeted, OwnCharges
<1>10. RecordsOK'
  BY <1>a, <1>b, <1>c, <1>f, <1>h, <1>i DEF IInv, RecordsOK, Stands, Unheld
<1>11. LineOK'
  BY <1>a, <1>b, <1>d, <1>e, <1>f, <1>h, <1>i DEF IInv, LineOK, Unheld
<1>12. BoundOK'
  BY ConfineAssumption, ListedSame DEF IInv, BoundOK, TypeOK, CallsOK, KidsOK, RosterOK, NumbersOK,
                              LauncherOK, HoldOK, HandOK, RecordsOK, LineOK, Told, Confined,
                              Launching, Spawning, Stands, Unheld, Of, Spent
<1>13. EndsOK'
  <2>1. CASE missed
    BY <2>1 DEF EndsOK
  <2>2. CASE ~missed
    <3>1. \A b \in Actors : op[b] = "end" => b \in running /\ b # a
      BY <1>g DEF IInv, CallsOK, Launching
    <3>2. \A x \in running : pol[x] # r /\ (Told("confine", pid[x]) => pol[x] \in Records)
      BY <2>2, <1>a, <1>b DEF IInv, LineOK, Unheld
    <3>3. \A x \in running : Told("confine", pid[x]) => flags'[pol[x]] = flags[pol[x]]
      BY <3>2, <1>c
    <3>4. \A b \in Actors : pc'[b] = "hold" => pc[b] = "hold"
      BY <1>f
    <3> QED BY <2>2, <3>1, <3>3, <3>4, <1>a, <1>e, <1>f DEF IInv, EndsOK
  <2> QED BY <2>1, <2>2
<1> QED BY <1>1, <1>2, <1>3, <1>4, <1>5, <1>6, <1>7, <1>8, <1>9, <1>10, <1>11, <1>12, <1>13 DEF IInv

\* no record is left to confine with
LEMMA NewNoneStep ==
  ASSUME IInv, NEW a \in Actors,
         a \in running,
         pc[a] = "new",
         op[a] = "confine",
         pc' = [pc EXCEPT ![a] = "run"],
         op' = [op EXCEPT ![a] = "none"],
         goal' = [goal EXCEPT ![a] = 0],
         rec' = [rec EXCEPT ![a] = NoRec],
         some' = [some EXCEPT ![a] = FALSE],
         dup' = [dup EXCEPT ![a] = FALSE],
         UNCHANGED <<var, running, pid, pol, reap, ledger, nextPid, rpid, budget, charged, flags,
                     tag, taker, kid, todo, told, missed>>
  PROVE  IInv'
<1>1. TypeOK'
  BY ConfineAssumption DEF IInv, TypeOK
<1>2. CallsOK'
  BY ConfineAssumption DEF IInv, CallsOK, TypeOK, Launching, Spawning
<1>3. KidsOK'
  BY DEF IInv, KidsOK, Spawning
<1>4. RosterOK'
  BY ListedSame DEF IInv, RosterOK
<1>5. NumbersOK'
  BY ConfineAssumption, ListedSame DEF IInv, NumbersOK, TypeOK
<1>6. LauncherOK'
  BY ConfineAssumption DEF IInv, LauncherOK, TypeOK, Spawning, Launching
<1>7. HoldOK'
  BY DEF IInv, HoldOK
<1>8. HandOK'
  BY ConfineAssumption DEF IInv, HandOK, TypeOK
<1>9. Balanced' /\ WithinBudget' /\ Budgeted' /\ OwnCharges'
  BY AccountsFrame DEF IInv, TypeOK
<1>10. RecordsOK'
  BY DEF IInv, RecordsOK, Stands, Unheld
<1>11. LineOK'
  BY DEF IInv, LineOK, Told, Confined
<1>12. BoundOK'
  BY DEF IInv, BoundOK, Told, Confined
<1>13. EndsOK'
  BY DEF IInv, EndsOK, Told, Confined
<1> QED BY <1>1, <1>2, <1>3, <1>4, <1>5, <1>6, <1>7, <1>8, <1>9, <1>10, <1>11, <1>12, <1>13 DEF IInv

\* no record is left: the process is killed without one
LEMMA NewLookStep ==
  ASSUME IInv, NEW a \in Actors,
         a \in running,
         pc[a] = "new",
         op[a] = "kill",
         pc' = [pc EXCEPT ![a] = "look"],
         UNCHANGED <<var, running, pid, pol, reap, ledger, nextPid, rpid, budget, charged, flags,
                     tag, taker, op, goal, rec, some, dup, kid, todo, told, missed>>
  PROVE  IInv'
<1>1. TypeOK'
  BY ConfineAssumption DEF IInv, TypeOK
<1>2. CallsOK'
  BY DEF IInv, CallsOK, Launching, Spawning
<1>3. KidsOK'
  BY DEF IInv, KidsOK, Spawning
<1>4. RosterOK'
  BY ListedSame DEF IInv, RosterOK
<1>5. NumbersOK'
  BY ListedSame DEF IInv, NumbersOK
<1>6. LauncherOK'
  BY DEF IInv, LauncherOK, Spawning, Launching
<1>7. HoldOK'
  BY DEF IInv, HoldOK
<1>8. HandOK'
  BY DEF IInv, HandOK
<1>9. Balanced' /\ WithinBudget' /\ Budgeted' /\ OwnCharges'
  BY AccountsFrame DEF IInv, TypeOK
<1>10. RecordsOK'
  BY DEF IInv, RecordsOK, Stands, Unheld
<1>11. LineOK'
  BY DEF IInv, LineOK, Told, Confined
<1>12. BoundOK'
  BY DEF IInv, BoundOK, Told, Confined
<1>13. EndsOK'
  BY DEF IInv, EndsOK, Told, Confined
<1> QED BY <1>1, <1>2, <1>3, <1>4, <1>5, <1>6, <1>7, <1>8, <1>9, <1>10, <1>11, <1>12, <1>13 DEF IInv

\* a dead actor takes no record
LEMMA GiveSkipStep ==
  ASSUME IInv, NEW a \in Actors,
         a \in running,
         pc[a] = "give",
         NEW x \in Actors,
         x \in todo[a],
         todo' = [todo EXCEPT ![a] = @ \ {x}],
         var[x] = "DEAD",
         UNCHANGED <<var, running, pid, pol, reap, ledger, nextPid, rpid, budget, charged, flags,
                     tag, taker, pc, op, goal, rec, some, dup, kid, told, missed>>
  PROVE  IInv'
<1>1. TypeOK'
  <2>1. todo' \in [Actors -> SUBSET Actors]
    BY DEF IInv, TypeOK
  <2> QED BY <2>1 DEF IInv, TypeOK
<1>2. CallsOK'
  BY DEF IInv, CallsOK, Launching, Spawning
<1>3. KidsOK'
  BY DEF IInv, KidsOK, Spawning
<1>4. RosterOK'
  BY ListedSame DEF IInv, RosterOK
<1>5. NumbersOK'
  BY ListedSame DEF IInv, NumbersOK
<1>6. LauncherOK'
  BY DEF IInv, LauncherOK, Spawning, Launching
<1>7. HoldOK'
  BY DEF IInv, HoldOK
<1>8. HandOK'
  BY DEF IInv, HandOK
<1>9. Balanced' /\ WithinBudget' /\ Budgeted' /\ OwnCharges'
  BY AccountsFrame
<1>10. RecordsOK'
  BY DEF IInv, RecordsOK, Stands, Unheld
<1>11. LineOK'
  BY DEF IInv, LineOK, Told, Confined
<1>12. BoundOK'
  BY DEF IInv, BoundOK, Told, Confined
<1>13. EndsOK'
  BY DEF IInv, EndsOK, Told, Confined
<1> QED BY <1>1, <1>2, <1>3, <1>4, <1>5, <1>6, <1>7, <1>8, <1>9, <1>10, <1>11, <1>12, <1>13 DEF IInv

\* an actor that has a record keeps it
LEMMA GiveDupStep ==
  ASSUME IInv, NEW a \in Actors,
         a \in running,
         pc[a] = "give",
         NEW x \in Actors,
         x \in todo[a],
         todo' = [todo EXCEPT ![a] = @ \ {x}],
         pol[x] # NoRec,
         var[x] # "DEAD",
         dup' = [dup EXCEPT ![a] = TRUE],
         UNCHANGED <<var, running, pid, pol, reap, ledger, nextPid, rpid, budget, charged, flags,
                     tag, taker, pc, op, goal, rec, some, kid, told, missed>>
  PROVE  IInv'
<1>1. TypeOK'
  BY SMTT(30), ConfineAssumption DEF IInv, TypeOK, CallsOK
<1>2. CallsOK'
  BY DEF IInv, CallsOK, Launching, Spawning
<1>3. KidsOK'
  BY DEF IInv, KidsOK, Spawning
<1>4. RosterOK'
  BY ListedSame DEF IInv, RosterOK
<1>5. NumbersOK'
  BY ListedSame DEF IInv, NumbersOK
<1>6. LauncherOK'
  BY DEF IInv, LauncherOK, Spawning, Launching
<1>7. HoldOK'
  BY DEF IInv, HoldOK
<1>8. HandOK'
  BY DEF IInv, HandOK
<1>9. Balanced' /\ WithinBudget' /\ Budgeted' /\ OwnCharges'
  BY AccountsFrame
<1>10. RecordsOK'
  BY DEF IInv, RecordsOK, Stands, Unheld
<1>11. LineOK'
  BY DEF IInv, LineOK, Told, Confined
<1>12. BoundOK'
  BY DEF IInv, BoundOK, Told, Confined
<1>13. EndsOK'
  BY DEF IInv, EndsOK, Told, Confined
<1> QED BY <1>1, <1>2, <1>3, <1>4, <1>5, <1>6, <1>7, <1>8, <1>9, <1>10, <1>11, <1>12, <1>13 DEF IInv

\* a live actor of the process takes the record
LEMMA GiveToStep ==
  ASSUME IInv, NEW a \in Actors,
         a \in running,
         pc[a] = "give",
         NEW x \in Actors,
         x \in todo[a],
         todo' = [todo EXCEPT ![a] = @ \ {x}],
         pol[x] = NoRec,
         var[x] # "DEAD",
         pol' = [pol EXCEPT ![x] = rec[a]],
         some' = [some EXCEPT ![a] = TRUE],
         UNCHANGED <<var, running, pid, reap, ledger, nextPid, rpid, budget, charged, flags, tag,
                     taker, pc, op, goal, rec, dup, kid, told, missed>>
  PROVE  IInv'
<1>a. /\ a = Launcher /\ op[a] \in Launching /\ x # Launcher /\ pid[x] = goal[a]
      /\ x \in running /\ rec[a] \in Records /\ running \subseteq Actors
  BY DEF IInv, TypeOK, CallsOK, LauncherOK, RosterOK
<1>b. pol'[x] = rec[a] /\ \A y \in Actors \ {x} : pol'[y] = pol[y] /\ Confined(y)' = Confined(y)
  BY DEF IInv, TypeOK, Confined
<1>c. Confined(x)' <=> op[a] = "confine"
  BY <1>a, <1>b, ConfineAssumption DEF IInv, HandOK, Confined
<1>d. \A b \in Actors : pc[b] = "push" => kid[b] \in Actors \ {x} /\ b \in running
  BY <1>a DEF IInv, CallsOK, KidsOK, RosterOK
<1>e. \A p, o : Told(o, p)' = Told(o, p)
  BY DEF Told
<1>f. ~missed => ~Told("confine", pid[x])
  BY <1>a DEF IInv, LineOK
<1>g. \A b \in Actors : pc[b] = "give" => b = a
  BY <1>a DEF IInv, CallsOK, LauncherOK
<1>h. op[a] = "confine" => \A y \in running : pid[y] = goal[a] => y = x
  BY <1>a DEF IInv, TypeOK, HandOK, HoldOK, RosterOK
<1>i. op[a] # "end" /\ \A b \in Actors : op[b] = "end" => b \in running
  BY <1>a DEF IInv, CallsOK, Launching
<1>1. TypeOK'
  BY SMTT(30), ConfineAssumption DEF IInv, TypeOK, CallsOK
<1>2. CallsOK'
  BY DEF IInv, CallsOK, Launching, Spawning
<1>3. KidsOK'
  BY DEF IInv, KidsOK, Spawning
<1>4. RosterOK'
  BY ListedSame DEF IInv, RosterOK
<1>5. NumbersOK'
  BY ListedSame DEF IInv, NumbersOK
<1>6. LauncherOK'
  BY ConfineAssumption DEF IInv, LauncherOK, TypeOK, CallsOK, Spawning, Launching
<1>7. HoldOK'
  BY DEF IInv, HoldOK
<1>8. HandOK'
  BY DEF IInv, HandOK
<1>9. Balanced' /\ WithinBudget' /\ Budgeted' /\ OwnCharges'
  BY AccountsFrame
<1>10. RecordsOK'
  BY ConfineAssumption, ListedSame DEF IInv, RecordsOK, TypeOK, CallsOK, KidsOK, RosterOK,
                              LauncherOK, HoldOK, HandOK, Stands, Unheld, Launching, Spawning
<1>11. LineOK'
  BY <1>a, <1>b, <1>d, <1>e, <1>f, <1>g, <1>h DEF IInv, LineOK
<1>12. BoundOK'
  BY <1>a, <1>b, <1>c, <1>d, <1>e DEF IInv, BoundOK
<1>13. EndsOK'
  BY <1>a, <1>b, <1>d, <1>e, <1>f, <1>i DEF IInv, EndsOK
<1> QED BY <1>1, <1>2, <1>3, <1>4, <1>5, <1>6, <1>7, <1>8, <1>9, <1>10, <1>11, <1>12, <1>13 DEF IInv

\* the process is confined: its one actor has the record
LEMMA GivenToldStep ==
  ASSUME IInv, NEW a \in Actors,
         a \in running,
         pc[a] = "give",
         todo[a] = {},
         op[a] = "confine",
         some[a],
         told' = told \cup {<<"confine", goal[a]>>},
         pc' = [pc EXCEPT ![a] = "run"],
         op' = [op EXCEPT ![a] = "none"],
         goal' = [goal EXCEPT ![a] = 0],
         rec' = [rec EXCEPT ![a] = NoRec],
         some' = [some EXCEPT ![a] = FALSE],
         dup' = [dup EXCEPT ![a] = FALSE],
         UNCHANGED <<var, running, pid, pol, reap, ledger, nextPid, rpid, budget, charged, flags,
                     tag, taker, kid, todo, missed>>
  PROVE  IInv'
<1>a. a = Launcher /\ rec[a] \in Records /\ running \subseteq Actors
  BY DEF IInv, TypeOK, CallsOK, LauncherOK, Launching
<1>b. \A x \in Actors : Confined(x)' = Confined(x)
  BY DEF Confined
<1>c. \A p : Told("confine", p)' <=> Told("confine", p) \/ p = goal[a]
  BY DEF Told
<1>d. ~missed => \A x \in running : pid[x] = goal[a] => pol[x] = rec[a] /\ pol[x] # NoRec /\
    Confined(x)
  BY <1>a, ConfineAssumption DEF IInv, LineOK, HandOK, Confined
<1>e. \A b \in Actors : pc[b] = "push" => pid[b] # goal[a]
  BY DEF IInv, HandOK, CallsOK
<1>f. \A b \in Actors : (pc'[b] = "push" <=> pc[b] = "push") /\ pc'[b] # "give"
  BY <1>a DEF IInv, TypeOK, CallsOK, LauncherOK, Launching
<1>1. TypeOK'
  BY ConfineAssumption DEF IInv, TypeOK
<1>2. CallsOK'
  BY ConfineAssumption DEF IInv, CallsOK, TypeOK, Launching, Spawning
<1>3. KidsOK'
  BY DEF IInv, KidsOK, Spawning
<1>4. RosterOK'
  BY ListedSame DEF IInv, RosterOK
<1>5. NumbersOK'
  BY ConfineAssumption, ListedSame DEF IInv, NumbersOK, TypeOK
<1>6. LauncherOK'
  BY ConfineAssumption DEF IInv, LauncherOK, TypeOK, Spawning, Launching
<1>7. HoldOK'
  BY DEF IInv, HoldOK
<1>8. HandOK'
  BY ConfineAssumption DEF IInv, HandOK, TypeOK
<1>9. Balanced' /\ WithinBudget' /\ Budgeted' /\ OwnCharges'
  BY AccountsFrame DEF IInv, TypeOK
<1>10. RecordsOK'
  BY ConfineAssumption DEF IInv, RecordsOK, TypeOK, Stands, Unheld
<1>11. LineOK'
  BY <1>a, <1>b, <1>c, <1>d, <1>e, <1>f DEF IInv, LineOK
<1>12. BoundOK'
  BY DEF IInv, BoundOK, Told, Confined
<1>13. EndsOK'
  BY ConfineAssumption DEF IInv, EndsOK, TypeOK, HandOK, Told, Confined
<1> QED BY <1>1, <1>2, <1>3, <1>4, <1>5, <1>6, <1>7, <1>8, <1>9, <1>10, <1>11, <1>12, <1>13 DEF IInv

\* confine takes its record back from whoever took it
LEMMA GivenBackStep ==
  ASSUME IInv, NEW a \in Actors,
         a \in running,
         pc[a] = "give",
         todo[a] = {},
         op[a] = "confine",
         pol' = [x \in Actors |-> IF x \in Listed /\ pol[x] = rec[a] THEN NoRec ELSE pol[x]],
         pc' = [pc EXCEPT ![a] = "undone"],
         UNCHANGED <<var, running, pid, reap, ledger, nextPid, rpid, budget, charged, flags, tag,
                     taker, op, goal, rec, some, dup, kid, todo, told, missed>>
  PROVE  IInv'
<1>a. a = Launcher /\ rec[a] \in Records /\ running \subseteq Listed /\ Listed \subseteq Actors
  BY OfActors DEF IInv, CallsOK, LauncherOK, Launching, RosterOK
<1>b. \A x \in Listed : pol'[x] # rec[a] /\ (pol[x] # rec[a] => pol'[x] = pol[x]) /\ (pol[x] =
    rec[a] => pol'[x] = NoRec)
  BY <1>a, ConfineAssumption DEF IInv, TypeOK
<1>c. \A x \in Actors \ Listed : pol'[x] = pol[x]
  BY DEF IInv, TypeOK
<1>d. \A b \in Actors : pc[b] = "push" => kid[b] \in Actors \ Listed /\ b \in running /\ pid[b] #
    goal[a]
  BY DEF IInv, CallsOK, KidsOK, RosterOK, HandOK
<1>e. \A b \in Actors : (pc'[b] = "push" <=> pc[b] = "push") /\ pc'[b] # "give" /\ (pc'[b] =
    "undone" => b = a)
        /\ (pc'[b] = "hold" => pc[b] = "hold")
  BY <1>a DEF IInv, TypeOK, CallsOK, LauncherOK, Launching
<1>f. ~missed => \A x \in running : pol[x] = rec[a] => pid[x] = goal[a] /\ ~Told("confine", pid[x])
  BY <1>a, ConfineAssumption DEF IInv, RecordsOK, Stands, HandOK, LineOK
<1>g. ~missed => \A b \in Actors : pc[b] = "push" => pol[kid[b]] # rec[a]
  BY <1>a, <1>d, ConfineAssumption DEF IInv, RecordsOK, Stands, HandOK
<1>h. \A p, o : Told(o, p)' = Told(o, p)
  BY DEF Told
<1>i. \A x \in Actors : (Confined(x)' => Confined(x)) /\ (pol'[x] = pol[x] => Confined(x)' =
    Confined(x))
        /\ (pol'[x] = NoRec => ~Confined(x)')
  BY <1>b, <1>c DEF Confined
<1>j. \A b \in Actors : op[b] = "end" => b \in running
  BY DEF IInv, CallsOK
<1>1. TypeOK'
  BY ConfineAssumption DEF IInv, TypeOK
<1>2. CallsOK'
  BY DEF IInv, CallsOK, Launching, Spawning
<1>3. KidsOK'
  BY DEF IInv, KidsOK, Spawning
<1>4. RosterOK'
  BY ListedSame DEF IInv, RosterOK
<1>5. NumbersOK'
  BY ListedSame DEF IInv, NumbersOK
<1>6. LauncherOK'
  BY DEF IInv, LauncherOK, Spawning, Launching
<1>7. HoldOK'
  BY DEF IInv, HoldOK
<1>8. HandOK'
  BY DEF IInv, HandOK
<1>9. Balanced' /\ WithinBudget' /\ Budgeted' /\ OwnCharges'
  BY AccountsFrame DEF IInv, TypeOK
<1>10. RecordsOK'
  <2>1. CASE missed
    BY <2>1 DEF RecordsOK
  <2>2. CASE ~missed
    <3>1. \A x \in running : Stands(pol'[x], pid[x])
      BY <2>2, <1>a, <1>b DEF IInv, RecordsOK, Stands
    <3>2. \A b \in Actors : pc'[b] = "push" => Stands(pol'[kid[b]], pid[b])
      BY <2>2, <1>c, <1>d, <1>e DEF IInv, RecordsOK
    <3>3. \A b \in Actors : pc'[b] = "undone" => Unheld(rec[b])'
      BY <2>2, <1>a, <1>b, <1>c, <1>d, <1>e, <1>g DEF Unheld
    <3> QED BY <2>2, <3>1, <3>2, <3>3, <1>e DEF RecordsOK, Stands
  <2> QED BY <2>1, <2>2
<1>11. LineOK'
  BY <1>a, <1>b, <1>c, <1>d, <1>e, <1>f, <1>h, <1>i DEF IInv, LineOK
<1>12. BoundOK'
  BY <1>a, <1>b, <1>c, <1>d, <1>e, <1>h, <1>i DEF IInv, BoundOK
<1>13. EndsOK'
  BY <1>a, <1>b, <1>e, <1>f, <1>h, <1>j DEF IInv, EndsOK
<1> QED BY <1>1, <1>2, <1>3, <1>4, <1>5, <1>6, <1>7, <1>8, <1>9, <1>10, <1>11, <1>12, <1>13 DEF IInv

\* the record of the process to be killed is theirs
LEMMA GivenKillStep ==
  ASSUME IInv, NEW a \in Actors,
         a \in running,
         pc[a] = "give",
         todo[a] = {},
         op[a] = "kill",
         some[a],
         pc' = [pc EXCEPT ![a] = "mark"],
         UNCHANGED <<var, running, pid, pol, reap, ledger, nextPid, rpid, budget, charged, flags,
                     tag, taker, op, goal, rec, some, dup, kid, todo, told, missed>>
  PROVE  IInv'
<1>1. TypeOK'
  BY ConfineAssumption DEF IInv, TypeOK
<1>2. CallsOK'
  BY DEF IInv, CallsOK, Launching, Spawning
<1>3. KidsOK'
  BY DEF IInv, KidsOK, Spawning
<1>4. RosterOK'
  BY ListedSame DEF IInv, RosterOK
<1>5. NumbersOK'
  BY ListedSame DEF IInv, NumbersOK
<1>6. LauncherOK'
  BY DEF IInv, LauncherOK, Spawning, Launching
<1>7. HoldOK'
  BY DEF IInv, HoldOK
<1>8. HandOK'
  BY DEF IInv, HandOK
<1>9. Balanced' /\ WithinBudget' /\ Budgeted' /\ OwnCharges'
  BY AccountsFrame DEF IInv, TypeOK
<1>10. RecordsOK'
  BY DEF IInv, RecordsOK, Stands, Unheld
<1>11. LineOK'
  BY DEF IInv, LineOK, Told, Confined
<1>12. BoundOK'
  BY DEF IInv, BoundOK, Told, Confined
<1>13. EndsOK'
  BY DEF IInv, EndsOK, Told, Confined
<1> QED BY <1>1, <1>2, <1>3, <1>4, <1>5, <1>6, <1>7, <1>8, <1>9, <1>10, <1>11, <1>12, <1>13 DEF IInv

\* nobody took the record, and it is let go
LEMMA GivenNoneStep ==
  ASSUME IInv, NEW a \in Actors,
         a \in running,
         pc[a] = "give",
         todo[a] = {},
         op[a] = "kill",
         ~some[a],
         flags' = [flags EXCEPT ![rec[a]] = {"DONE"}],
         rec' = [rec EXCEPT ![a] = NoRec],
         pc' = [pc EXCEPT ![a] = "look"],
         UNCHANGED <<var, running, pid, pol, reap, ledger, nextPid, rpid, budget, charged, tag,
                     taker, op, goal, some, dup, kid, todo, told, missed>>
  PROVE  IInv'
<1>a. rec[a] \in Records /\ running \subseteq Actors /\ a = Launcher /\ op[a] # "end"
  BY DEF IInv, TypeOK, CallsOK, LauncherOK, Launching
<1>b. ~missed => \A x \in running : pol[x] # rec[a]
  BY DEF IInv, RecordsOK, Unheld
<1>c. \A s \in Records \ {rec[a]} : flags'[s] = flags[s]
  BY DEF IInv, TypeOK
<1>d. \A p, o : Told(o, p)' = Told(o, p)
  BY DEF Told
<1>e. \A b \in Actors : op'[b] = "end" => b \in running /\ op[b] = "end" /\ b # a
  BY <1>a DEF IInv, TypeOK, CallsOK
<1>f. \A b \in Actors \ {a} : pc'[b] = pc[b] /\ rec'[b] = rec[b] /\ goal'[b] = goal[b] /\ pc'[a] #
    "hold"
  BY DEF IInv, TypeOK
<1>1. TypeOK'
  BY ConfineAssumption DEF IInv, TypeOK, CallsOK, Launching, Spawning
<1>2. CallsOK'
  BY ConfineAssumption DEF IInv, CallsOK, TypeOK, Launching, Spawning
<1>3. KidsOK'
  BY DEF IInv, KidsOK, Spawning
<1>4. RosterOK'
  BY ListedSame DEF IInv, RosterOK
<1>5. NumbersOK'
  BY ListedSame DEF IInv, NumbersOK
<1>6. LauncherOK'
  BY DEF IInv, LauncherOK, Spawning, Launching
<1>7. HoldOK'
  BY DEF IInv, HoldOK
<1>8. HandOK'
  BY ConfineAssumption DEF IInv, HandOK, TypeOK
<1>9. Balanced' /\ WithinBudget' /\ Budgeted' /\ OwnCharges'
  BY AccountsFrame DEF IInv, TypeOK
<1>10. RecordsOK'
  BY ConfineAssumption DEF IInv, RecordsOK, TypeOK, CallsOK, LauncherOK, Stands, Unheld, Launching,
                           Spawning
<1>11. LineOK'
  BY ConfineAssumption DEF IInv, LineOK, TypeOK, HandOK, Told, Confined
<1>12. BoundOK'
  BY DEF IInv, BoundOK, Told, Confined
<1>13. EndsOK'
  <2>1. CASE missed
    BY <2>1 DEF EndsOK
  <2>2. CASE ~missed
    <3>1. \A x \in running : Told("confine", pid[x]) => flags'[pol[x]] = flags[pol[x]]
      BY <2>2, <1>a, <1>b, <1>c DEF IInv, TypeOK, LineOK
    <3> QED BY <2>2, <3>1, <1>a, <1>d, <1>e, <1>f DEF IInv, EndsOK
  <2> QED BY <2>1, <2>2
<1> QED BY <1>1, <1>2, <1>3, <1>4, <1>5, <1>6, <1>7, <1>8, <1>9, <1>10, <1>11, <1>12, <1>13 DEF IInv

\* the record confine took back is let go
LEMMA UndoneStep ==
  ASSUME IInv, NEW a \in Actors,
         a \in running,
         pc[a] = "undone",
         flags' = [flags EXCEPT ![rec[a]] = {"DONE"}],
         pc' = [pc EXCEPT ![a] = "run"],
         op' = [op EXCEPT ![a] = "none"],
         goal' = [goal EXCEPT ![a] = 0],
         rec' = [rec EXCEPT ![a] = NoRec],
         some' = [some EXCEPT ![a] = FALSE],
         dup' = [dup EXCEPT ![a] = FALSE],
         UNCHANGED <<var, running, pid, pol, reap, ledger, nextPid, rpid, budget, charged, tag,
                     taker, kid, todo, told, missed>>
  PROVE  IInv'
<1>a. rec[a] \in Records /\ running \subseteq Actors /\ a = Launcher /\ op[a] # "end"
  BY DEF IInv, TypeOK, CallsOK, LauncherOK, Launching
<1>b. ~missed => \A x \in running : pol[x] # rec[a]
  BY DEF IInv, RecordsOK, Unheld
<1>c. \A s \in Records \ {rec[a]} : flags'[s] = flags[s]
  BY DEF IInv, TypeOK
<1>d. \A p, o : Told(o, p)' = Told(o, p)
  BY DEF Told
<1>e. \A b \in Actors : op'[b] = "end" => b \in running /\ op[b] = "end" /\ b # a
  BY <1>a DEF IInv, TypeOK, CallsOK
<1>f. \A b \in Actors \ {a} : pc'[b] = pc[b] /\ rec'[b] = rec[b] /\ goal'[b] = goal[b] /\ pc'[a] #
    "hold"
  BY DEF IInv, TypeOK
<1>1. TypeOK'
  BY ConfineAssumption DEF IInv, TypeOK, CallsOK, Launching, Spawning
<1>2. CallsOK'
  BY ConfineAssumption DEF IInv, CallsOK, TypeOK, Launching, Spawning
<1>3. KidsOK'
  BY DEF IInv, KidsOK, Spawning
<1>4. RosterOK'
  BY ListedSame DEF IInv, RosterOK
<1>5. NumbersOK'
  BY ConfineAssumption, ListedSame DEF IInv, NumbersOK, TypeOK
<1>6. LauncherOK'
  BY ConfineAssumption DEF IInv, LauncherOK, TypeOK, Spawning, Launching
<1>7. HoldOK'
  BY DEF IInv, HoldOK
<1>8. HandOK'
  BY ConfineAssumption DEF IInv, HandOK, TypeOK, CallsOK, LauncherOK, Launching, Spawning
<1>9. Balanced' /\ WithinBudget' /\ Budgeted' /\ OwnCharges'
  BY AccountsFrame DEF IInv, TypeOK
<1>10. RecordsOK'
  BY ConfineAssumption DEF IInv, RecordsOK, TypeOK, CallsOK, LauncherOK, Stands, Unheld, Launching,
                           Spawning
<1>11. LineOK'
  BY ConfineAssumption DEF IInv, LineOK, TypeOK, RecordsOK, Told, Confined, Stands, Unheld
<1>12. BoundOK'
  BY BoundFrame DEF IInv, TypeOK, LauncherOK, Launching
<1>13. EndsOK'
  <2>1. CASE missed
    BY <2>1 DEF EndsOK
  <2>2. CASE ~missed
    <3>1. \A x \in running : Told("confine", pid[x]) => flags'[pol[x]] = flags[pol[x]]
      BY <2>2, <1>a, <1>b, <1>c DEF IInv, TypeOK, LineOK
    <3> QED BY <2>2, <3>1, <1>a, <1>d, <1>e, <1>f DEF IInv, EndsOK
  <2> QED BY <2>1, <2>2
<1> QED BY <1>1, <1>2, <1>3, <1>4, <1>5, <1>6, <1>7, <1>8, <1>9, <1>10, <1>11, <1>12, <1>13 DEF IInv

\* PID_ENDING is set
LEMMA MarkStep ==
  ASSUME IInv, NEW a \in Actors,
         a \in running,
         pc[a] = "mark",
         flags' = [flags EXCEPT ![rec[a]] = @ \cup {"ENDING"}],
         pc' = [pc EXCEPT ![a] = "look"],
         UNCHANGED <<var, running, pid, pol, reap, ledger, nextPid, rpid, budget, charged, tag,
                     taker, op, goal, rec, some, dup, kid, todo, told, missed>>
  PROVE  IInv'
<1>1. TypeOK'
  BY ConfineAssumption DEF IInv, TypeOK, CallsOK, Launching, Spawning
<1>2. CallsOK'
  BY DEF IInv, CallsOK, Launching, Spawning
<1>3. KidsOK'
  BY DEF IInv, KidsOK, Spawning
<1>4. RosterOK'
  BY ListedSame DEF IInv, RosterOK
<1>5. NumbersOK'
  BY ListedSame DEF IInv, NumbersOK
<1>6. LauncherOK'
  BY DEF IInv, LauncherOK, Spawning, Launching
<1>7. HoldOK'
  BY DEF IInv, HoldOK
<1>8. HandOK'
  BY DEF IInv, HandOK
<1>9. Balanced' /\ WithinBudget' /\ Budgeted' /\ OwnCharges'
  BY AccountsFrame DEF IInv, TypeOK
<1>10. RecordsOK'
  <2>1. \A s \in Records : "DONE" \in flags'[s] <=> "DONE" \in flags[s]
    BY DEF IInv, TypeOK
  <2>2. \A b \in Actors : (pc'[b] # pc[b]) => pc'[b] = "look"
    BY DEF IInv, TypeOK
  <2>3. running \subseteq Actors /\ pol \in [Actors -> Records \cup {NoRec}] /\ \A b \in Actors :
      pc[b] = "push" => kid[b] \in Actors
    BY DEF IInv, TypeOK, CallsOK
  <2>4. \A b \in Actors : pc[b] = "give" => rec[b] \in Records
    BY DEF IInv, CallsOK
  <2> QED BY <2>1, <2>2, <2>3, <2>4 DEF IInv, RecordsOK, Stands, Unheld
<1>11. LineOK'
  BY DEF IInv, LineOK, Told, Confined
<1>12. BoundOK'
  BY DEF IInv, BoundOK, Told, Confined
<1>13. EndsOK'
  BY ConfineAssumption DEF IInv, EndsOK, TypeOK, CallsOK, Told, Confined, Launching, Spawning
<1> QED BY <1>1, <1>2, <1>3, <1>4, <1>5, <1>6, <1>7, <1>8, <1>9, <1>10, <1>11, <1>12, <1>13 DEF IInv

\* a sweep starts over the actors of process p
LEMMA LookStep ==
  ASSUME IInv, NEW a \in Actors,
         a \in running,
         pc[a] = "look",
         NEW p,
         p = (IF op[a] = "end" THEN rpid[rec[a]] ELSE goal[a]),
         todo' = [todo EXCEPT ![a] = Of(p)],
         some' = [some EXCEPT ![a] = FALSE],
         pc' = [pc EXCEPT ![a] = "sweep"],
         UNCHANGED <<var, running, pid, pol, reap, ledger, nextPid, rpid, budget, charged, flags,
                     tag, taker, op, goal, rec, dup, kid, told, missed>>
  PROVE  IInv'
<1>1. TypeOK'
  BY SMTT(30), OfActors, ConfineAssumption DEF IInv, TypeOK, CallsOK
<1>2. CallsOK'
  BY DEF IInv, CallsOK, Launching, Spawning, Of
<1>3. KidsOK'
  BY DEF IInv, KidsOK, Spawning, Of
<1>4. RosterOK'
  <2>1. p >= 1
    BY ConfineAssumption DEF IInv, TypeOK, CallsOK, NumbersOK, LauncherOK, Launching
  <2>2. Of(p) \subseteq Listed \ {Launcher}
    BY <2>1 DEF Of, IInv, LauncherOK
  <2> QED BY <2>2, ListedSame DEF IInv, TypeOK, RosterOK
<1>5. NumbersOK'
  BY ListedSame DEF IInv, NumbersOK, Of
<1>6. LauncherOK'
  BY DEF IInv, LauncherOK, Spawning, Launching, Of
<1>7. HoldOK'
  BY DEF IInv, HoldOK, Of
<1>8. HandOK'
  BY DEF IInv, HandOK, Of
<1>9. Balanced' /\ WithinBudget' /\ Budgeted' /\ OwnCharges'
  BY AccountsFrame DEF IInv, TypeOK
<1>10. RecordsOK'
  BY DEF IInv, RecordsOK, Stands, Unheld, Of
<1>11. LineOK'
  BY DEF IInv, LineOK, Told, Confined, Of
<1>12. BoundOK'
  BY DEF IInv, BoundOK, Told, Confined, Of
<1>13. EndsOK'
  BY DEF IInv, EndsOK, Told, Confined, Of
<1> QED BY <1>1, <1>2, <1>3, <1>4, <1>5, <1>6, <1>7, <1>8, <1>9, <1>10, <1>11, <1>12, <1>13 DEF IInv

\* the sweep passes over its caller or a dead actor
LEMMA SweepSkipStep ==
  ASSUME IInv, NEW a \in Actors,
         a \in running,
         pc[a] = "sweep",
         NEW x \in Actors,
         x \in todo[a],
         todo' = [todo EXCEPT ![a] = @ \ {x}],
         UNCHANGED <<var, running, pid, pol, reap, ledger, nextPid, rpid, budget, charged, flags,
                     tag, taker, pc, op, goal, rec, some, dup, kid, told, missed>>
  PROVE  IInv'
<1>1. TypeOK'
  <2>1. todo' \in [Actors -> SUBSET Actors]
    BY DEF IInv, TypeOK
  <2> QED BY <2>1 DEF IInv, TypeOK
<1>2. CallsOK'
  BY DEF IInv, CallsOK, Launching, Spawning
<1>3. KidsOK'
  BY DEF IInv, KidsOK, Spawning
<1>4. RosterOK'
  BY ListedSame DEF IInv, RosterOK
<1>5. NumbersOK'
  BY ListedSame DEF IInv, NumbersOK
<1>6. LauncherOK'
  BY DEF IInv, LauncherOK, Spawning, Launching
<1>7. HoldOK'
  BY DEF IInv, HoldOK
<1>8. HandOK'
  BY DEF IInv, HandOK
<1>9. Balanced' /\ WithinBudget' /\ Budgeted' /\ OwnCharges'
  BY AccountsFrame
<1>10. RecordsOK'
  BY DEF IInv, RecordsOK, Stands, Unheld
<1>11. LineOK'
  BY DEF IInv, LineOK, Told, Confined
<1>12. BoundOK'
  BY DEF IInv, BoundOK, Told, Confined
<1>13. EndsOK'
  BY DEF IInv, EndsOK, Told, Confined
<1> QED BY <1>1, <1>2, <1>3, <1>4, <1>5, <1>6, <1>7, <1>8, <1>9, <1>10, <1>11, <1>12, <1>13 DEF IInv

\* the sweep kills x
LEMMA SweepKillStep ==
  ASSUME IInv, NEW a \in Actors,
         a \in running,
         pc[a] = "sweep",
         NEW x \in Actors,
         x \in todo[a],
         todo' = [todo EXCEPT ![a] = @ \ {x}],
         x # a,
         var' = [var EXCEPT ![x] = "DEAD"],
         some' = [some EXCEPT ![a] = TRUE],
         UNCHANGED <<running, pid, pol, reap, ledger, nextPid, rpid, budget, charged, flags, tag,
                     taker, pc, op, goal, rec, dup, kid, told, missed>>
  PROVE  IInv'
<1>1. TypeOK'
  BY ConfineAssumption DEF IInv, TypeOK
<1>2. CallsOK'
  BY DEF IInv, CallsOK, Launching, Spawning
<1>3. KidsOK'
  BY ConfineAssumption, ListedSame DEF IInv, KidsOK, TypeOK, RosterOK, Spawning
<1>4. RosterOK'
  BY ListedSame DEF IInv, RosterOK
<1>5. NumbersOK'
  BY ListedSame DEF IInv, NumbersOK
<1>6. LauncherOK'
  BY ConfineAssumption, ListedSame DEF IInv, LauncherOK, TypeOK, RosterOK, Spawning, Launching
<1>7. HoldOK'
  BY ConfineAssumption, ListedSame DEF IInv, HoldOK, TypeOK, RosterOK
<1>8. HandOK'
  BY DEF IInv, HandOK
<1>9. Balanced' /\ WithinBudget' /\ Budgeted' /\ OwnCharges'
  BY AccountsFrame
<1>10. RecordsOK'
  BY DEF IInv, RecordsOK, Stands, Unheld
<1>11. LineOK'
  BY DEF IInv, LineOK, Told, Confined
<1>12. BoundOK'
  BY DEF IInv, BoundOK, Told, Confined
<1>13. EndsOK'
  BY DEF IInv, EndsOK, Told, Confined
<1> QED BY <1>1, <1>2, <1>3, <1>4, <1>5, <1>6, <1>7, <1>8, <1>9, <1>10, <1>11, <1>12, <1>13 DEF IInv

\* killPid goes round again
LEMMA SweptAgainStep ==
  ASSUME IInv, NEW a \in Actors,
         a \in running,
         pc[a] = "sweep",
         todo[a] = {},
         op[a] = "kill",
         pc' = [pc EXCEPT ![a] = "look"],
         UNCHANGED <<var, running, pid, pol, reap, ledger, nextPid, rpid, budget, charged, flags,
                     tag, taker, op, goal, rec, some, dup, kid, todo, told, missed>>
  PROVE  IInv'
<1>1. TypeOK'
  BY ConfineAssumption DEF IInv, TypeOK
<1>2. CallsOK'
  BY DEF IInv, CallsOK, Launching, Spawning
<1>3. KidsOK'
  BY DEF IInv, KidsOK, Spawning
<1>4. RosterOK'
  BY ListedSame DEF IInv, RosterOK
<1>5. NumbersOK'
  BY ListedSame DEF IInv, NumbersOK
<1>6. LauncherOK'
  BY DEF IInv, LauncherOK, Spawning, Launching
<1>7. HoldOK'
  BY DEF IInv, HoldOK
<1>8. HandOK'
  BY DEF IInv, HandOK
<1>9. Balanced' /\ WithinBudget' /\ Budgeted' /\ OwnCharges'
  BY AccountsFrame DEF IInv, TypeOK
<1>10. RecordsOK'
  BY DEF IInv, RecordsOK, Stands, Unheld
<1>11. LineOK'
  BY DEF IInv, LineOK, Told, Confined
<1>12. BoundOK'
  BY DEF IInv, BoundOK, Told, Confined
<1>13. EndsOK'
  BY DEF IInv, EndsOK, Told, Confined
<1> QED BY <1>1, <1>2, <1>3, <1>4, <1>5, <1>6, <1>7, <1>8, <1>9, <1>10, <1>11, <1>12, <1>13 DEF IInv

\* an actor that ended its own process goes last
LEMMA CloseEndStep ==
  ASSUME IInv, NEW a \in Actors,
         a \in running,
         pc[a] = "sweep",
         told' = told \cup {<<op[a], goal[a]>>},
         op[a] = "end",
         var' = [var EXCEPT ![a] = "DEAD"],
         running' = running \ {a},
         kid' = [kid EXCEPT ![a] = NoActor],
         pc' = [pc EXCEPT ![a] = "run"],
         op' = [op EXCEPT ![a] = "none"],
         goal' = [goal EXCEPT ![a] = 0],
         rec' = [rec EXCEPT ![a] = NoRec],
         some' = [some EXCEPT ![a] = FALSE],
         dup' = [dup EXCEPT ![a] = FALSE],
         UNCHANGED <<pid, pol, reap, ledger, nextPid, rpid, budget, charged, flags, tag, taker,
                     todo, missed>>
  PROVE  IInv'
<1>1. TypeOK'
  BY ConfineAssumption DEF IInv, TypeOK
<1>2. CallsOK'
  BY ConfineAssumption DEF IInv, CallsOK, TypeOK, Launching, Spawning
<1>3. KidsOK'
  BY ConfineAssumption, ListedSame DEF IInv, KidsOK, TypeOK, RosterOK, Spawning
<1>4. RosterOK'
  BY ConfineAssumption, ListedSame DEF IInv, RosterOK, TypeOK
<1>5. NumbersOK'
  BY ConfineAssumption, ListedSame DEF IInv, NumbersOK, TypeOK
<1>6. LauncherOK'
  BY DEF IInv, LauncherOK, Spawning, Launching
<1>7. HoldOK'
  BY ConfineAssumption, ListedSame DEF IInv, HoldOK, TypeOK, RosterOK
<1>8. HandOK'
  BY DEF IInv, HandOK
<1>9. Balanced' /\ WithinBudget' /\ Budgeted' /\ OwnCharges'
  BY AccountsFrame DEF IInv, TypeOK
<1>10. RecordsOK'
  BY DEF IInv, RecordsOK, Stands, Unheld
<1>11. LineOK'
  BY DEF IInv, LineOK, Told, Confined
<1>12. BoundOK'
  BY DEF IInv, BoundOK, Told, Confined
<1>13. EndsOK'
  <2>1. CASE missed
    BY <2>1 DEF EndsOK
  <2>2. CASE ~missed
    <3>1. rec[a] = pol[a] /\ goal[a] = pid[a] /\ Told("confine", pid[a]) /\ "ENDING" \in
        flags[pol[a]]
      BY <2>2 DEF IInv, EndsOK
    <3>2. \A p : (Told("confine", p)' <=> Told("confine", p)) /\ (Told("end", p)' <=> Told("end", p)
        \/ p = pid[a])
      BY <3>1 DEF Told
    <3>3. \A x \in running : pid[x] = pid[a] => pol[x] = pol[a]
      BY <2>2, <3>1 DEF IInv, LineOK
    <3>4. \A x \in Actors : pc[x] = "hold" => pid[x] # pid[a]
      BY DEF IInv, HoldOK, RosterOK
    <3>5. \A b \in Actors : op'[b] = "end" => b # a /\ op[b] = "end" /\ rec'[b] = rec[b] /\ goal'[b]
        = goal[b] /\ pc'[b] = pc[b]
      BY DEF IInv, TypeOK
    <3>6. \A b \in Actors : pc'[b] = "hold" => pc[b] = "hold"
      BY DEF IInv, TypeOK
    <3> QED BY <2>2, <3>1, <3>2, <3>3, <3>4, <3>5, <3>6 DEF IInv, EndsOK
  <2> QED BY <2>1, <2>2
<1> QED BY <1>1, <1>2, <1>3, <1>4, <1>5, <1>6, <1>7, <1>8, <1>9, <1>10, <1>11, <1>12, <1>13 DEF IInv

\* killPid returns
LEMMA CloseKillStep ==
  ASSUME IInv, NEW a \in Actors,
         a \in running,
         pc[a] = "sweep",
         told' = told \cup {<<op[a], goal[a]>>},
         op[a] = "kill",
         pc' = [pc EXCEPT ![a] = "run"],
         op' = [op EXCEPT ![a] = "none"],
         goal' = [goal EXCEPT ![a] = 0],
         rec' = [rec EXCEPT ![a] = NoRec],
         some' = [some EXCEPT ![a] = FALSE],
         dup' = [dup EXCEPT ![a] = FALSE],
         UNCHANGED <<var, running, pid, pol, reap, ledger, nextPid, rpid, budget, charged, flags,
                     tag, taker, kid, todo, missed>>
  PROVE  IInv'
<1>1. TypeOK'
  BY ConfineAssumption DEF IInv, TypeOK
<1>2. CallsOK'
  BY ConfineAssumption DEF IInv, CallsOK, TypeOK, Launching, Spawning
<1>3. KidsOK'
  BY DEF IInv, KidsOK, Spawning
<1>4. RosterOK'
  BY ListedSame DEF IInv, RosterOK
<1>5. NumbersOK'
  BY ConfineAssumption, ListedSame DEF IInv, NumbersOK, TypeOK
<1>6. LauncherOK'
  BY ConfineAssumption DEF IInv, LauncherOK, TypeOK, Spawning, Launching
<1>7. HoldOK'
  BY DEF IInv, HoldOK
<1>8. HandOK'
  BY DEF IInv, HandOK
<1>9. Balanced' /\ WithinBudget' /\ Budgeted' /\ OwnCharges'
  BY AccountsFrame DEF IInv, TypeOK
<1>10. RecordsOK'
  BY DEF IInv, RecordsOK, Stands, Unheld
<1>11. LineOK'
  BY ConfineAssumption DEF IInv, LineOK, TypeOK, Told, Confined
<1>12. BoundOK'
  BY DEF IInv, BoundOK, Told, Confined
<1>13. EndsOK'
  BY DEF IInv, EndsOK, Told, Confined
<1> QED BY <1>1, <1>2, <1>3, <1>4, <1>5, <1>6, <1>7, <1>8, <1>9, <1>10, <1>11, <1>12, <1>13 DEF IInv

\* a killed actor leaves its hart
LEMMA LeaveStep ==
  ASSUME IInv, NEW a \in Actors,
         a \in running,
         pc[a] \in {"run", "hold"},
         var[a] = "DEAD",
         running' = running \ {a},
         UNCHANGED <<var, pid, pol, reap, ledger, nextPid, rpid, budget, charged, flags, tag, taker,
                     pc, op, goal, rec, some, dup, kid, todo, told, missed>>
  PROVE  IInv'
<1>1. TypeOK'
  BY ConfineAssumption DEF IInv, TypeOK
<1>2. CallsOK'
  BY DEF IInv, CallsOK, Launching, Spawning
<1>3. KidsOK'
  BY DEF IInv, KidsOK, Spawning
<1>4. RosterOK'
  BY ListedSame DEF IInv, RosterOK
<1>5. NumbersOK'
  BY ListedSame DEF IInv, NumbersOK
<1>6. LauncherOK'
  BY DEF IInv, LauncherOK, Spawning, Launching
<1>7. HoldOK'
  BY DEF IInv, HoldOK
<1>8. HandOK'
  BY DEF IInv, HandOK
<1>9. Balanced' /\ WithinBudget' /\ Budgeted' /\ OwnCharges'
  BY AccountsFrame
<1>10. RecordsOK'
  BY DEF IInv, RecordsOK, Stands, Unheld
<1>11. LineOK'
  BY DEF IInv, LineOK, Told, Confined
<1>12. BoundOK'
  BY DEF IInv, BoundOK, Told, Confined
<1>13. EndsOK'
  BY DEF IInv, EndsOK, Told, Confined
<1> QED BY <1>1, <1>2, <1>3, <1>4, <1>5, <1>6, <1>7, <1>8, <1>9, <1>10, <1>11, <1>12, <1>13 DEF IInv

\* a teardown that is not about a record
LEMMA ReapPlainStep ==
  ASSUME IInv, NEW a \in Actors,
         var[a] = "DEAD",
         a \notin running,
         reap[a] = "no",
         reap' = [reap EXCEPT ![a] = "done"],
         UNCHANGED <<var, running, pid, pol, ledger, nextPid, rpid, budget, charged, flags, tag,
                     taker, pc, op, goal, rec, some, dup, kid, todo, told, missed>>
  PROVE  IInv'
<1>1. TypeOK'
  BY ConfineAssumption DEF IInv, TypeOK
<1>2. CallsOK'
  BY DEF IInv, CallsOK, Launching, Spawning
<1>3. KidsOK'
  BY DEF IInv, KidsOK, Spawning
<1>4. RosterOK'
  BY ListedSame DEF IInv, RosterOK
<1>5. NumbersOK'
  BY ListedSame DEF IInv, NumbersOK
<1>6. LauncherOK'
  BY DEF IInv, LauncherOK, Spawning, Launching
<1>7. HoldOK'
  BY DEF IInv, HoldOK
<1>8. HandOK'
  BY DEF IInv, HandOK
<1>9. Balanced' /\ WithinBudget' /\ Budgeted' /\ OwnCharges'
  BY AccountsFrame
<1>10. RecordsOK'
  BY DEF IInv, RecordsOK, Stands, Unheld
<1>11. LineOK'
  BY DEF IInv, LineOK, Told, Confined
<1>12. BoundOK'
  BY DEF IInv, BoundOK, Told, Confined
<1>13. EndsOK'
  BY DEF IInv, EndsOK, Told, Confined
<1> QED BY <1>1, <1>2, <1>3, <1>4, <1>5, <1>6, <1>7, <1>8, <1>9, <1>10, <1>11, <1>12, <1>13 DEF IInv

\* a teardown that asks whether the process has an actor left
LEMMA ReapTestStep ==
  ASSUME IInv, NEW a \in Actors,
         var[a] = "DEAD",
         a \notin running,
         reap[a] = "no",
         pol[a] # NoRec,
         rpid[pol[a]] = pid[a],
         reap' = [reap EXCEPT ![a] = "test"],
         rec' = [rec EXCEPT ![a] = pol[a]],
         todo' = [todo EXCEPT ![a] = Of(pid[a])],
         UNCHANGED <<var, running, pid, pol, ledger, nextPid, rpid, budget, charged, flags, tag,
                     taker, pc, op, goal, some, dup, kid, told, missed>>
  PROVE  IInv'
<1>1. TypeOK'
  BY SMTT(30), OfActors, ConfineAssumption DEF IInv, TypeOK, CallsOK
<1>2. CallsOK'
  BY ConfineAssumption DEF IInv, CallsOK, TypeOK, Launching, Spawning, Of
<1>3. KidsOK'
  BY DEF IInv, KidsOK, Spawning, Of
<1>4. RosterOK'
  BY SMTT(30), ConfineAssumption, ListedSame, OfActors DEF IInv, RosterOK, TypeOK, CallsOK, KidsOK, NumbersOK,
                              LauncherOK, Launching, Spawning, Of
<1>5. NumbersOK'
  BY ListedSame DEF IInv, NumbersOK, Of
<1>6. LauncherOK'
  BY ConfineAssumption, ListedSame DEF IInv, LauncherOK, TypeOK, CallsOK, RosterOK, Spawning,
                              Launching, Of
<1>7. HoldOK'
  BY DEF IInv, HoldOK, Of
<1>8. HandOK'
  BY ConfineAssumption DEF IInv, HandOK, TypeOK, CallsOK, LauncherOK, Launching, Spawning, Of
<1>9. Balanced' /\ WithinBudget' /\ Budgeted' /\ OwnCharges'
  BY AccountsFrame DEF IInv, TypeOK, CallsOK
<1>10. RecordsOK'
  BY ConfineAssumption DEF IInv, RecordsOK, TypeOK, CallsOK, LauncherOK, Stands, Unheld, Launching,
                           Spawning, Of
<1>11. LineOK'
  BY LineFrame DEF IInv, TypeOK, CallsOK
<1>12. BoundOK'
  BY SMTT(30), BoundFrame DEF IInv, TypeOK, LauncherOK, Launching
<1>13. EndsOK'
  BY DEF IInv, EndsOK, Told, Confined, Of
<1> QED BY <1>1, <1>2, <1>3, <1>4, <1>5, <1>6, <1>7, <1>8, <1>9, <1>10, <1>11, <1>12, <1>13 DEF IInv

\* pol_quiet found nobody
LEMMA QuietEmptyStep ==
  ASSUME IInv, NEW a \in Actors,
         reap[a] = "test",
         reap' = [reap EXCEPT ![a] = "mark"],
         UNCHANGED <<var, running, pid, pol, ledger, nextPid, rpid, budget, charged, flags, tag,
                     taker, pc, op, goal, rec, some, dup, kid, todo, told, missed>>
  PROVE  IInv'
<1>1. TypeOK'
  BY ConfineAssumption DEF IInv, TypeOK
<1>2. CallsOK'
  BY DEF IInv, CallsOK, Launching, Spawning
<1>3. KidsOK'
  BY DEF IInv, KidsOK, Spawning
<1>4. RosterOK'
  BY ListedSame DEF IInv, RosterOK
<1>5. NumbersOK'
  BY ListedSame DEF IInv, NumbersOK
<1>6. LauncherOK'
  BY DEF IInv, LauncherOK, Spawning, Launching
<1>7. HoldOK'
  BY DEF IInv, HoldOK
<1>8. HandOK'
  BY DEF IInv, HandOK
<1>9. Balanced' /\ WithinBudget' /\ Budgeted' /\ OwnCharges'
  BY AccountsFrame
<1>10. RecordsOK'
  BY DEF IInv, RecordsOK, Stands, Unheld
<1>11. LineOK'
  BY DEF IInv, LineOK, Told, Confined
<1>12. BoundOK'
  BY DEF IInv, BoundOK, Told, Confined
<1>13. EndsOK'
  BY DEF IInv, EndsOK, Told, Confined
<1> QED BY <1>1, <1>2, <1>3, <1>4, <1>5, <1>6, <1>7, <1>8, <1>9, <1>10, <1>11, <1>12, <1>13 DEF IInv

\* pol_quiet found an actor
LEMMA QuietHoldsStep ==
  ASSUME IInv, NEW a \in Actors,
         reap[a] = "test",
         reap' = [reap EXCEPT ![a] = "done"],
         todo' = [todo EXCEPT ![a] = {}],
         UNCHANGED <<var, running, pid, pol, ledger, nextPid, rpid, budget, charged, flags, tag,
                     taker, pc, op, goal, rec, some, dup, kid, told, missed>>
  PROVE  IInv'
<1>1. TypeOK'
  BY ConfineAssumption DEF IInv, TypeOK
<1>2. CallsOK'
  BY DEF IInv, CallsOK, Launching, Spawning
<1>3. KidsOK'
  BY DEF IInv, KidsOK, Spawning
<1>4. RosterOK'
  BY ListedSame DEF IInv, RosterOK
<1>5. NumbersOK'
  BY ListedSame DEF IInv, NumbersOK
<1>6. LauncherOK'
  BY DEF IInv, LauncherOK, Spawning, Launching
<1>7. HoldOK'
  BY DEF IInv, HoldOK
<1>8. HandOK'
  BY DEF IInv, HandOK
<1>9. Balanced' /\ WithinBudget' /\ Budgeted' /\ OwnCharges'
  BY AccountsFrame
<1>10. RecordsOK'
  BY DEF IInv, RecordsOK, Stands, Unheld
<1>11. LineOK'
  BY DEF IInv, LineOK, Told, Confined
<1>12. BoundOK'
  BY DEF IInv, BoundOK, Told, Confined
<1>13. EndsOK'
  BY DEF IInv, EndsOK, Told, Confined
<1> QED BY <1>1, <1>2, <1>3, <1>4, <1>5, <1>6, <1>7, <1>8, <1>9, <1>10, <1>11, <1>12, <1>13 DEF IInv

\* pol_quiet passes over one that is gone
LEMMA QuietDeadStep ==
  ASSUME IInv, NEW a \in Actors,
         reap[a] = "test",
         NEW x \in Actors,
         x \in todo[a],
         todo' = [todo EXCEPT ![a] = @ \ {x}],
         UNCHANGED <<var, running, pid, pol, reap, ledger, nextPid, rpid, budget, charged, flags,
                     tag, taker, pc, op, goal, rec, some, dup, kid, told, missed>>
  PROVE  IInv'
<1>1. TypeOK'
  BY ConfineAssumption DEF IInv, TypeOK, CallsOK, KidsOK, Launching, Spawning
<1>2. CallsOK'
  BY DEF IInv, CallsOK, Launching, Spawning
<1>3. KidsOK'
  BY DEF IInv, KidsOK, Spawning
<1>4. RosterOK'
  BY ListedSame DEF IInv, RosterOK
<1>5. NumbersOK'
  BY ListedSame DEF IInv, NumbersOK
<1>6. LauncherOK'
  BY DEF IInv, LauncherOK, Spawning, Launching
<1>7. HoldOK'
  BY DEF IInv, HoldOK
<1>8. HandOK'
  BY DEF IInv, HandOK
<1>9. Balanced' /\ WithinBudget' /\ Budgeted' /\ OwnCharges'
  BY AccountsFrame
<1>10. RecordsOK'
  BY DEF IInv, RecordsOK, Stands, Unheld
<1>11. LineOK'
  BY DEF IInv, LineOK, Told, Confined
<1>12. BoundOK'
  BY DEF IInv, BoundOK, Told, Confined
<1>13. EndsOK'
  BY DEF IInv, EndsOK, Told, Confined
<1> QED BY <1>1, <1>2, <1>3, <1>4, <1>5, <1>6, <1>7, <1>8, <1>9, <1>10, <1>11, <1>12, <1>13 DEF IInv

\* PID_DONE is set; if the process has an actor, or the record another process, missed says so
LEMMA QuietMarkStep ==
  ASSUME IInv, NEW a \in Actors,
         reap[a] = "mark",
         reap' = [reap EXCEPT ![a] = "done"],
         flags' = [flags EXCEPT ![rec[a]] = @ \cup {"DONE"}],
         missed' = (missed \/ rpid[rec[a]] # pid[a] \/ \E x \in Listed : pid[x] = pid[a] /\
             HoldsPid(x)),
         UNCHANGED <<var, running, pid, pol, ledger, nextPid, rpid, budget, charged, tag, taker, pc,
                     op, goal, rec, some, dup, kid, todo, told>>
  PROVE  IInv'
<1>1. TypeOK'
  BY ConfineAssumption DEF IInv, TypeOK, CallsOK, Launching, Spawning, HoldsPid
<1>2. CallsOK'
  BY DEF IInv, CallsOK, Launching, Spawning, HoldsPid
<1>3. KidsOK'
  BY DEF IInv, KidsOK, Spawning, HoldsPid
<1>4. RosterOK'
  BY ListedSame DEF IInv, RosterOK, HoldsPid
<1>5. NumbersOK'
  BY ListedSame DEF IInv, NumbersOK, HoldsPid
<1>6. LauncherOK'
  BY DEF IInv, LauncherOK, Spawning, Launching, HoldsPid
<1>7. HoldOK'
  BY DEF IInv, HoldOK, HoldsPid
<1>8. HandOK'
  BY DEF IInv, HandOK, HoldsPid
<1>9. Balanced' /\ WithinBudget' /\ Budgeted' /\ OwnCharges'
  BY AccountsFrame
<1>10. RecordsOK'
  <2>1. CASE missed'
    BY <2>1 DEF RecordsOK
  <2>2. CASE ~missed'
    <3>1. ~missed /\ rpid[rec[a]] = pid[a] /\ \A x \in running : pid[x] # pid[a]
      BY <2>2 DEF HoldsPid, IInv, RosterOK
    <3>2. \A s \in Records \ {rec[a]} : flags'[s] = flags[s]
      BY DEF IInv, TypeOK
    <3>3. running \subseteq Actors /\ pol \in [Actors -> Records \cup {NoRec}]
          /\ \A b \in Actors : pc[b] = "push" => kid[b] \in Actors /\ b \in running
      BY DEF IInv, TypeOK, CallsOK
    <3>4. \A b \in Actors : pc[b] = "give" => rec[b] \in Records /\ rpid[rec[b]] = goal[b]
      BY DEF IInv, CallsOK, HandOK
    <3> QED BY <3>1, <3>2, <3>3, <3>4 DEF IInv, RecordsOK, Stands, Unheld
  <2> QED BY <2>1, <2>2
<1>11. LineOK'
  BY ConfineAssumption DEF IInv, LineOK, TypeOK, Told, Confined, HoldsPid
<1>12. BoundOK'
  BY BoundFrame DEF IInv, TypeOK, LauncherOK, Launching
<1>13. EndsOK'
  BY ConfineAssumption DEF IInv, EndsOK, TypeOK, Told, Confined, HoldsPid
<1> QED BY <1>1, <1>2, <1>3, <1>4, <1>5, <1>6, <1>7, <1>8, <1>9, <1>10, <1>11, <1>12, <1>13 DEF IInv

\* a block of record r goes home: the charge of r is at least 1, so the clamp is not met
LEMMA FreeStep ==
  ASSUME IInv, NEW b \in Blocks, NEW r \in Records,
         tag[b] = r,
         charged' = [charged EXCEPT ![r] = IF @ >= 1 THEN @ - 1 ELSE 0],
         tag' = [tag EXCEPT ![b] = NoRec],
         taker' = [taker EXCEPT ![b] = 0],
         UNCHANGED <<var, running, pid, pol, reap, ledger, nextPid, rpid, budget, flags, pc, op,
                     goal, rec, some, dup, kid, todo, told, missed>>
  PROVE  IInv'
<1>a. b \in Tagged(r)
  BY DEF Tagged
<1>b. /\ charged[r] = Cardinality(Tagged(r)) + Cardinality(Refusing(r))
      /\ Cardinality(Tagged(r)) \in Nat \ {0} /\ Cardinality(Refusing(r)) \in Nat
  BY <1>a, Counts DEF IInv, Balanced
<1>c. charged[r] - 1 \in Nat /\ charged[r] >= 1
  BY <1>b
<1>d. charged' \in [Records -> Nat] /\ charged'[r] = charged[r] - 1
      /\ \A s \in Records \ {r} : charged'[s] = charged[s]
  BY <1>c DEF IInv, TypeOK
<1>1. TypeOK'
  <2>1. tag' \in [Blocks -> Records \cup {NoRec}]
    BY DEF IInv, TypeOK
  <2>2. taker' \in [Blocks -> 0 .. MaxPid]
    BY ConfineAssumption DEF IInv, TypeOK
  <2> QED BY <1>d, <2>1, <2>2 DEF IInv, TypeOK
<1>2. Tagged(r)' = Tagged(r) \ {b}
  BY ConfineAssumption DEF Tagged, IInv, TypeOK
<1>3. \A s \in Records \ {r} : Tagged(s)' = Tagged(s)
  BY ConfineAssumption DEF Tagged, IInv, TypeOK
<1>4. \A s \in Records : Refusing(s)' = Refusing(s)
  BY DEF Refusing
<1>5. Cardinality(Tagged(r)') = Cardinality(Tagged(r)) - 1
  BY <1>a, <1>2, Counts, FS_RemoveElement DEF IInv
<1>6. charged'[r] = Cardinality(Tagged(r)') + Cardinality(Refusing(r)')
  BY <1>b, <1>d, <1>4, <1>5
<1>7. Balanced'
  BY <1>3, <1>4, <1>d, <1>6 DEF IInv, Balanced
<1>8. budget[r] > 0 => Cardinality(Tagged(r)') <= budget[r]
  <2>1. budget[r] \in {0, Budget}
    BY DEF IInv, TypeOK
  <2>2. budget[r] > 0 => Cardinality(Tagged(r)) <= budget[r]
    BY DEF IInv, WithinBudget
  <2> QED BY <1>b, <1>5, <2>1, <2>2, ConfineAssumption
<1>9. WithinBudget'
  BY <1>3, <1>8 DEF IInv, WithinBudget
<1>10. Budgeted' /\ OwnCharges'
  BY ConfineAssumption DEF IInv, TypeOK, Budgeted, OwnCharges
<1>11. CallsOK'
  BY DEF IInv, CallsOK, Spawning, Launching
<1>12. KidsOK'
  BY DEF IInv, KidsOK, Spawning
<1>13. RosterOK'
  BY DEF IInv, RosterOK, Listed
<1>14. NumbersOK'
  BY DEF IInv, NumbersOK, Listed
<1>15. LauncherOK'
  BY DEF IInv, LauncherOK, Spawning, Launching
<1>16. HoldOK'
  BY DEF IInv, HoldOK
<1>17. HandOK'
  BY DEF IInv, HandOK
<1>18. RecordsOK'
  BY DEF IInv, RecordsOK, Stands, Unheld
<1>19. LineOK'
  BY DEF IInv, LineOK, Told, Confined
<1>20. BoundOK'
  BY DEF IInv, BoundOK, Told, Confined
<1>21. EndsOK'
  BY DEF IInv, EndsOK, Told, Confined
<1> QED BY <1>1, <1>7, <1>9, <1>10, <1>11, <1>12, <1>13, <1>14, <1>15, <1>16, <1>17, <1>18, <1>19,
    <1>20, <1>21 DEF IInv

\* nothing changes
LEMMA StutterStep ==
  ASSUME IInv, UNCHANGED vars
  PROVE  IInv'
<1> USE DEF vars, acb, recs, blocks, regs, hist
<1>1. TypeOK'
  BY DEF IInv, TypeOK
<1>2. CallsOK'
  BY DEF IInv, CallsOK, Spawning, Launching
<1>3. KidsOK'
  BY DEF IInv, KidsOK, Spawning
<1>4. RosterOK'
  BY DEF IInv, RosterOK, Listed
<1>5. NumbersOK'
  BY DEF IInv, NumbersOK, Listed
<1>6. LauncherOK'
  BY DEF IInv, LauncherOK, Spawning, Launching
<1>7. HoldOK'
  BY DEF IInv, HoldOK
<1>8. HandOK'
  BY DEF IInv, HandOK
<1>9. Balanced'
  BY DEF IInv, Balanced, Tagged, Refusing
<1>10. WithinBudget'
  BY DEF IInv, WithinBudget, Tagged
<1>11. Budgeted'
  BY DEF IInv, Budgeted
<1>12. OwnCharges'
  BY DEF IInv, OwnCharges
<1>13. RecordsOK'
  BY DEF IInv, RecordsOK, Stands, Unheld
<1>14. LineOK'
  BY DEF IInv, LineOK, Told, Confined
<1>15. BoundOK'
  BY DEF IInv, BoundOK, Told, Confined
<1>16. EndsOK'
  BY DEF IInv, EndsOK, Told, Confined
<1> QED BY <1>1, <1>2, <1>3, <1>4, <1>5, <1>6, <1>7, <1>8, <1>9, <1>10, <1>11, <1>12, <1>13, <1>14,
    <1>15, <1>16 DEF IInv

\* the invariant holds when the launcher is the only actor
LEMMA InitInv == Init => IInv
<1> SUFFICES ASSUME Init PROVE IInv
  OBVIOUS
<1>1. TypeOK
  <2>1. ledger \in Seq(Actors) /\ 0 \in 0 .. MaxPid
    BY ConfineAssumption DEF Init
  <2>2. /\ var \in [Actors -> {"NEW", "LIVE", "DEAD"}] /\ running \subseteq Actors
        /\ flags \in [Records -> SUBSET {"CONFINED", "ENDING", "DONE"}]
        /\ charged \in [Records -> Nat]
    BY ConfineAssumption DEF Init
  <2> QED BY <2>1, <2>2 DEF Init, TypeOK
<1>2. Listed = {Launcher}
  BY DEF Init, Listed
<1>3. CallsOK /\ KidsOK /\ RosterOK /\ NumbersOK /\ LauncherOK /\ HoldOK /\ HandOK
  BY <1>2, ConfineAssumption DEF Init, CallsOK, KidsOK, RosterOK, NumbersOK, LauncherOK, HoldOK,
                              HandOK,
     Launching, Spawning
<1>4. Balanced /\ WithinBudget /\ Budgeted /\ OwnCharges
  <2>1. \A r \in Records : Tagged(r) = {} /\ Refusing(r) = {}
    BY ConfineAssumption DEF Init, Tagged, Refusing
  <2>2. Cardinality({}) = 0
    BY FS_EmptySet
  <2>3. Balanced
    <3>1. \A r \in Records : Cardinality(Tagged(r)) = 0 /\ Cardinality(Refusing(r)) = 0
      BY <2>1, <2>2
    <3>2. \A r \in Records : charged[r] = 0
      BY DEF Init
    <3> QED BY <3>1, <3>2 DEF Balanced
  <2> QED BY <2>1, <2>3, ConfineAssumption DEF Init, WithinBudget, Budgeted, OwnCharges
<1>5. RecordsOK /\ LineOK /\ BoundOK /\ EndsOK
  BY ConfineAssumption DEF Init, RecordsOK, LineOK, BoundOK, EndsOK, Stands, Unheld, Told, Confined
<1> QED BY <1>1, <1>3, <1>4, <1>5 DEF IInv

-----------------------------------------------------------------------------
\* a push prepends to the ledger
LEMMA Prepended ==
  ASSUME TypeOK, NEW x \in Actors, ledger' = <<x>> \o ledger
  PROVE  Listed' = Listed \cup {x} /\ ledger' \in Seq(Actors)
<1>1. ledger' \in Seq(Actors) /\ Len(ledger') = Len(ledger) + 1 /\ ledger'[1] = x
      /\ \A i \in 1 .. Len(ledger) : ledger'[i + 1] = ledger[i]
  BY DEF TypeOK
<1>2. \A i \in DOMAIN ledger' : ledger'[i] \in Listed \cup {x}
  <2> SUFFICES ASSUME NEW i \in DOMAIN ledger' PROVE ledger'[i] \in Listed \cup {x}
    OBVIOUS
  <2>1. i = 1 \/ (i - 1 \in 1 .. Len(ledger) /\ ledger'[i] = ledger[i - 1])
    BY <1>1 DEF TypeOK
  <2> QED BY <1>1, <2>1 DEF Listed, TypeOK
<1>3. \A y \in Listed : \E i \in DOMAIN ledger' : ledger'[i] = y
  <2> SUFFICES ASSUME NEW i \in DOMAIN ledger PROVE \E j \in DOMAIN ledger' : ledger'[j] = ledger[i]
    BY DEF Listed
  <2>1. i \in 1 .. Len(ledger) /\ i + 1 \in DOMAIN ledger' /\ ledger'[i + 1] = ledger[i]
    BY <1>1 DEF TypeOK
  <2> QED BY <2>1
<1>4. 1 \in DOMAIN ledger'
  BY <1>1 DEF TypeOK
<1>5. Listed' \subseteq Listed \cup {x}
  BY <1>2 DEF Listed
<1>6. Listed \subseteq Listed'
  BY <1>3 DEF Listed
<1>7. x \in Listed'
  BY <1>1, <1>4 DEF Listed
<1> QED BY <1>1, <1>5, <1>6, <1>7

\* every step keeps the invariant
LEMMA NextStep ==
  ASSUME IInv, Next
  PROVE  IInv'
<1> USE DEF acb, recs, blocks, regs, hist, Begin, Done, Goto, At, Walk, Visited
<1>t. TypeOK /\ kid \in [Actors -> Actors \cup {NoActor}]
  BY DEF IInv, TypeOK
<1>k. \A a \in Actors : pc[a] = "run" => [kid EXCEPT ![a] = NoActor] = kid
  BY <1>t DEF IInv, KidsOK, Spawning
<1>1. ASSUME NEW a \in Actors, Return(a) PROVE IInv'
  BY <1>1, FailStep DEF Return, Fail
<1>2. ASSUME NEW a \in Actors, SpawnApp(a) PROVE IInv'
  <2>1. PICK x \in Actors :
          /\ var[x] = "NEW" /\ \A z \in Actors : kid[z] # x
          /\ nextPid' = nextPid + 1
          /\ var' = [var EXCEPT ![x] = "LIVE"]
          /\ pid' = [pid EXCEPT ![x] = nextPid + 1]
          /\ ledger' = <<x>> \o ledger
          /\ running' = running \cup {x}
          /\ pc' = [pc EXCEPT ![x] = "hold"]
    BY <1>2 DEF SpawnApp
  <2>2. Listed' = Listed \cup {x} /\ ledger' \in Seq(Actors)
    BY <1>t, <2>1, Prepended
  <2> QED BY <1>2, <2>1, <2>2, SpawnAppStep DEF SpawnApp
<1>3. ASSUME NEW a \in Actors, Release(a) PROVE IInv'
  BY <1>3, ReleaseStep DEF Release
<1>4. ASSUME NEW a \in Actors, Spawn(a) PROVE IInv'
  <2>1. CASE Fail(a)
    BY <1>4, <2>1, FailStep DEF Spawn, Fail
  <2>2. CASE Confined(a) /\ End(a) /\ kid' = [kid EXCEPT ![a] = NoActor] /\ UNCHANGED <<var,
      running>>
    <3>1. kid' = kid
      BY <1>4, <1>k, <2>2 DEF Spawn
    <3> QED BY <1>4, <2>2, <3>1, EndStep DEF Spawn, End
  <2>3. CASE /\ \E x \in {y \in Actors : var[y] = "NEW" /\ \A z \in Actors : kid[z] # y} :
                  kid' = [kid EXCEPT ![a] = x]
             /\ Goto(a, "take") /\ UNCHANGED <<var, running, regs>>
    BY <1>4, <2>3, SpawnTakeStep DEF Spawn
  <2> QED BY <1>4, <2>1, <2>2, <2>3 DEF Spawn, Exhausted
<1>5. ASSUME NEW a \in Actors, Build(a) PROVE IInv'
  BY <1>5, BuildStep DEF Build
<1>6. ASSUME NEW a \in Actors, Push(a) PROVE IInv'
  <2>1. kid[a] \in Actors
    BY <1>6 DEF Push, IInv, CallsOK
  <2>2. Listed' = Listed \cup {kid[a]} /\ ledger' \in Seq(Actors)
    BY <1>t, <1>6, <2>1, Prepended DEF Push
  <2> QED BY <1>6, <2>2, PushStep DEF Push
<1>7. ASSUME NEW a \in Actors, Charge(a) PROVE IInv'
  <2>1. pol[a] \in Records \cup {NoRec}
    BY DEF IInv, TypeOK
  <2>n. pol[a] # NoRec => charged[pol[a]] \in Nat /\ budget[pol[a]] \in Nat
    <3>1. pol[a] # NoRec => charged[pol[a]] \in Nat /\ budget[pol[a]] \in {0, Budget}
      BY <2>1 DEF IInv, TypeOK
    <3> QED BY <3>1, ConfineAssumption
  <2>2. CASE pol[a] # NoRec => budget[pol[a]] = 0
    BY <1>7, <2>2, ChargeFreeStep DEF Charge
  <2>3. CASE pol[a] # NoRec /\ budget[pol[a]] > 0 /\ charged[pol[a]] + 1 > budget[pol[a]]
    <3>1. /\ charged' = [charged EXCEPT ![pol[a]] = @ + 1]
          /\ pc' = [pc EXCEPT ![a] = "refuse"] /\ rec' = [rec EXCEPT ![a] = pol[a]]
          /\ UNCHANGED <<tag, taker>>
      BY <1>7, <2>3, <2>n DEF Charge
    <3> QED BY <1>7, <2>1, <2>3, <3>1, ChargeOverStep DEF Charge
  <2>4. CASE pol[a] # NoRec /\ budget[pol[a]] > 0 /\ charged[pol[a]] + 1 <= budget[pol[a]]
    <3>1. PICK b \in Blocks : /\ tag[b] = NoRec
                              /\ tag' = [tag EXCEPT ![b] = pol[a]]
                              /\ taker' = [taker EXCEPT ![b] = pid[a]]
      BY <1>7, <2>4, <2>n DEF Charge, Tagged
    <3>2. /\ charged' = [charged EXCEPT ![pol[a]] = @ + 1] /\ UNCHANGED rec
          /\ pc' = [pc EXCEPT ![a] = IF pc[a] = "take" THEN "build" ELSE "run"]
      BY <1>7, <2>4, <2>n DEF Charge
    <3>3. CASE pc[a] = "take"
      <4>1. pc' = [pc EXCEPT ![a] = "build"]
        BY <3>2, <3>3
      <4> QED BY <1>7, <2>1, <2>4, <3>1, <3>2, <3>3, <4>1, ChargeFitsStep DEF Charge
    <3>4. CASE pc[a] = "run"
      <4>1. pc' = [pc EXCEPT ![a] = "run"]
        BY <3>2, <3>4
      <4> QED BY <1>7, <2>1, <2>4, <3>1, <3>2, <3>4, <4>1, ChargeFitsStep DEF Charge
    <3> QED BY <1>7, <3>3, <3>4 DEF Charge
  <2> QED BY <1>7, <2>1, <2>n, <2>2, <2>3, <2>4 DEF Charge
<1>8. ASSUME NEW a \in Actors, Refuse(a) PROVE IInv'
  <2>1. rec[a] \in Records
    BY <1>8 DEF Refuse, IInv, CallsOK
  <2>2. CASE Confined(a) /\ End(a)
    BY <1>8, <2>1, <2>2, RefuseEndStep DEF Refuse, Exhausted, End, Fail
  <2>3. CASE ~Confined(a) /\ Fail(a)
    BY <1>8, <2>1, <2>3, RefuseFailStep DEF Refuse, Exhausted, Fail
  <2> QED BY <1>8, <2>2, <2>3 DEF Refuse, Exhausted
<1>9. ASSUME NEW a \in Actors, Forbidden(a) PROVE IInv'
  BY <1>9, EndStep DEF Forbidden, End
<1>10. ASSUME NEW a \in Actors, StartConfine(a) PROVE IInv'
  BY <1>10, <1>t, OfActors, StartConfineStep DEF StartConfine
<1>11. ASSUME NEW a \in Actors, StartKill(a) PROVE IInv'
  BY <1>11, StartKillStep DEF StartKill, Killable
<1>12. ASSUME NEW a \in Actors, Find(a) PROVE IInv'
  <2>1. CASE todo[a] = {} /\ Goto(a, "new") /\ UNCHANGED <<todo, rec>>
    BY <1>12, <2>1, FindNoneStep DEF Find
  <2>2. ASSUME NEW x \in Actors, NextIs(a, x), Visited(a, x),
               IF pol[x] # NoRec /\ var[x] # "DEAD"
                 THEN rec' = [rec EXCEPT ![a] = pol[x]] /\ Goto(a, "mark")
                 ELSE UNCHANGED <<rec, pc>>
        PROVE IInv'
    <3>1. CASE pol[x] # NoRec /\ var[x] # "DEAD"
      BY <1>12, <2>2, <3>1, FindHitStep DEF Find, NextIs
    <3>2. CASE ~(pol[x] # NoRec /\ var[x] # "DEAD")
      BY <1>12, <2>2, <3>2, FindMissStep DEF Find, NextIs
    <3> QED BY <3>1, <3>2
  <2> QED BY <1>12, <2>1, <2>2 DEF Find
<1>13. ASSUME NEW a \in Actors, NewRecord(a) PROVE IInv'
  <2>1. ASSUME NEW r \in Records, Spent(r), pc' = [pc EXCEPT ![a] = "give"],
               rpid' = [rpid EXCEPT ![r] = goal[a]],
               budget' = [budget EXCEPT ![r] = IF op[a] = "confine" THEN Budget ELSE 0],
               flags' = [flags EXCEPT ![r] = IF op[a] = "confine" THEN {"CONFINED"} ELSE {}],
               rec' = [rec EXCEPT ![a] = r], Walk(a, goal[a]), UNCHANGED <<op, goal, dup>>
        PROVE IInv'
    BY <1>13, <2>1, NewTakenStep DEF NewRecord
  <2>2. CASE op[a] = "confine" /\ Done(a) /\ UNCHANGED <<rpid, budget, flags, todo>>
    BY <1>13, <2>2, NewNoneStep DEF NewRecord
  <2>3. CASE op[a] = "kill" /\ Goto(a, "look") /\ UNCHANGED <<rpid, budget, flags, todo, regs>>
    BY <1>13, <2>3, NewLookStep DEF NewRecord
  <2>4. op[a] \in {"confine", "kill"}
    BY <1>13 DEF NewRecord, IInv, CallsOK, Launching
  <2> QED BY <1>13, <2>1, <2>2, <2>3, <2>4 DEF NewRecord
<1>14. ASSUME NEW a \in Actors, Give(a) PROVE IInv'
  <2>1. PICK x \in Actors :
          /\ x \in todo[a] /\ todo' = [todo EXCEPT ![a] = @ \ {x}]
          /\ \/ var[x] = "DEAD" /\ UNCHANGED <<pol, some, dup>>
             \/ /\ var[x] # "DEAD" /\ pol[x] # NoRec
                /\ dup' = [dup EXCEPT ![a] = TRUE] /\ UNCHANGED <<pol, some>>
             \/ /\ var[x] # "DEAD" /\ pol[x] = NoRec
                /\ pol' = [pol EXCEPT ![x] = rec[a]]
                /\ some' = [some EXCEPT ![a] = TRUE] /\ UNCHANGED dup
    BY <1>14 DEF Give, NextIs
  <2>2. CASE var[x] = "DEAD" /\ UNCHANGED <<pol, some, dup>>
    BY <1>14, <2>1, <2>2, GiveSkipStep DEF Give
  <2>3. CASE /\ var[x] # "DEAD" /\ pol[x] # NoRec
             /\ dup' = [dup EXCEPT ![a] = TRUE] /\ UNCHANGED <<pol, some>>
    BY <1>14, <2>1, <2>3, GiveDupStep DEF Give
  <2>4. CASE /\ var[x] # "DEAD" /\ pol[x] = NoRec
             /\ pol' = [pol EXCEPT ![x] = rec[a]]
             /\ some' = [some EXCEPT ![a] = TRUE] /\ UNCHANGED dup
    BY <1>14, <2>1, <2>4, GiveToStep DEF Give
  <2> QED BY <2>1, <2>2, <2>3, <2>4
<1>15. ASSUME NEW a \in Actors, Given(a) PROVE IInv'
  <2>1. CASE op[a] = "confine" /\ some[a] /\ ~dup[a] /\ told' = told \cup {<<"confine", goal[a]>>}
             /\ Done(a) /\ UNCHANGED <<pol, flags>>
    BY <1>15, <2>1, GivenToldStep DEF Given
  <2>2. CASE op[a] = "confine"
             /\ pol' = [x \in Actors |-> IF x \in Listed /\ pol[x] = rec[a] THEN NoRec ELSE pol[x]]
             /\ Goto(a, "undone") /\ UNCHANGED <<flags, regs, told>>
    BY <1>15, <2>2, GivenBackStep DEF Given
  <2>3. CASE op[a] = "kill" /\ some[a] /\ Goto(a, "mark") /\ UNCHANGED <<pol, flags, regs, told>>
    BY <1>15, <2>3, GivenKillStep DEF Given
  <2>4. CASE op[a] = "kill" /\ ~some[a] /\ flags' = [flags EXCEPT ![rec[a]] = {"DONE"}]
             /\ rec' = [rec EXCEPT ![a] = NoRec] /\ Goto(a, "look")
             /\ UNCHANGED <<pol, op, goal, some, dup, told>>
    BY <1>15, <2>4, GivenNoneStep DEF Given
  <2> QED BY <1>15, <2>1, <2>2, <2>3, <2>4 DEF Given
<1>16. ASSUME NEW a \in Actors, Undone(a) PROVE IInv'
  BY <1>16, UndoneStep DEF Undone
<1>17. ASSUME NEW a \in Actors, Mark(a) PROVE IInv'
  BY <1>17, MarkStep DEF Mark
<1>18. ASSUME NEW a \in Actors, Look(a) PROVE IInv'
  BY <1>18, LookStep DEF Look
<1>19. ASSUME NEW a \in Actors, Sweep(a) PROVE IInv'
  <2>1. PICK x \in Actors :
          /\ x \in todo[a] /\ todo' = [todo EXCEPT ![a] = @ \ {x}]
          /\ \/ UNCHANGED <<var, some>>
             \/ x # a /\ var' = [var EXCEPT ![x] = "DEAD"] /\ some' = [some EXCEPT ![a] = TRUE]
    BY <1>19 DEF Sweep, NextIs
  <2>2. CASE UNCHANGED <<var, some>>
    BY <1>19, <2>1, <2>2, SweepSkipStep DEF Sweep
  <2>3. CASE x # a /\ var' = [var EXCEPT ![x] = "DEAD"] /\ some' = [some EXCEPT ![a] = TRUE]
    BY <1>19, <2>1, <2>3, SweepKillStep DEF Sweep
  <2> QED BY <2>1, <2>2, <2>3
<1>20. ASSUME NEW a \in Actors, Swept(a) PROVE IInv'
  <2>1. CASE op[a] = "kill" /\ some[a] /\ Goto(a, "look") /\ UNCHANGED <<var, running, regs, kid,
      told>>
    BY <1>20, <2>1, SweptAgainStep DEF Swept
  <2>2. CASE Close(a) /\ op[a] = "end" /\ Fail(a)
    BY <1>20, <2>2, CloseEndStep DEF Swept, Close, Fail
  <2>3. CASE Close(a) /\ op[a] = "kill" /\ Done(a) /\ UNCHANGED <<var, running, kid>>
    BY <1>20, <2>3, CloseKillStep DEF Swept, Close
  <2> QED BY <1>20, <2>1, <2>2, <2>3 DEF Swept, Close
<1>21. ASSUME NEW a \in Actors, Leave(a) PROVE IInv'
  BY <1>21, LeaveStep DEF Leave
<1>22. ASSUME NEW a \in Actors, Reap(a) PROVE IInv'
  <2>1. CASE reap' = [reap EXCEPT ![a] = "done"] /\ UNCHANGED <<rec, todo>>
    BY <1>22, <2>1, ReapPlainStep DEF Reap
  <2>2. CASE pol[a] # NoRec /\ rpid[pol[a]] = pid[a] /\ reap' = [reap EXCEPT ![a] = "test"]
             /\ rec' = [rec EXCEPT ![a] = pol[a]] /\ todo' = [todo EXCEPT ![a] = Of(pid[a])]
    BY <1>22, <2>2, ReapTestStep DEF Reap
  <2> QED BY <1>22, <2>1, <2>2 DEF Reap
<1>23. ASSUME NEW a \in Actors, QuietVisit(a) PROVE IInv'
  <2>1. CASE reap' = [reap EXCEPT ![a] = "mark"] /\ UNCHANGED todo
    BY <1>23, <2>1, QuietEmptyStep DEF QuietVisit
  <2>2. CASE reap' = [reap EXCEPT ![a] = "done"] /\ todo' = [todo EXCEPT ![a] = {}]
    BY <1>23, <2>2, QuietHoldsStep DEF QuietVisit
  <2>3. CASE \E x \in Actors : NextIs(a, x) /\ Visited(a, x) /\ UNCHANGED reap
    BY <1>23, <2>3, QuietDeadStep DEF QuietVisit, NextIs
  <2> QED BY <1>23, <2>1, <2>2, <2>3 DEF QuietVisit
<1>24. ASSUME NEW a \in Actors, QuietMark(a) PROVE IInv'
  BY <1>24, QuietMarkStep DEF QuietMark
<1>25. ASSUME NEW b \in Blocks, Free(b) PROVE IInv'
  <2>1. tag[b] \in Records
    BY <1>25 DEF Free, IInv, TypeOK
  <2> QED BY <1>25, <2>1, FreeStep DEF Free
<1> QED BY <1>1, <1>2, <1>3, <1>4, <1>5, <1>6, <1>7, <1>8, <1>9, <1>10, <1>11, <1>12, <1>13, <1>14,
           <1>15, <1>16, <1>17, <1>18, <1>19, <1>20, <1>21, <1>22, <1>23, <1>24, <1>25
        DEF Next, Program, Memory, Ending, Harts

-----------------------------------------------------------------------------
\* IInv is an invariant, whatever the actors, records, blocks, budget and bounds
THEOREM InductiveInvariant == Spec => []IInv
<1>1. Init => IInv
  BY InitInv
<1>2. IInv /\ [Next]_vars => IInv'
  BY NextStep, StutterStep
<1> QED BY <1>1, <1>2, PTL DEF Spec

\* every variable keeps its type; in particular no charge goes below zero
THEOREM TypeCorrect == Spec => []TypeOK
<1>1. IInv => TypeOK
  BY DEF IInv
<1> QED BY <1>1, InductiveInvariant, PTL

\* What is charged to a record is what is out or in flight, within its budget, and
\* of the process it stands for (fpr_charge, pol_uncharge, pol_new)
THEOREM AccountsHold == Spec => []Accounts
<1>1. IInv => Accounts
  BY DEF IInv, Accounts
<1> QED BY <1>1, InductiveInvariant, PTL

\* A confined process stays confined until a late PID_DONE gives its record away: its
\* record stands for it, passes on to what it spawns, and refuses once it ends
\* (pol_of_pid, spawn_gate, pol_quiet)
THEOREM StaysConfinedHolds == Spec => []StaysConfined
<1>1. IInv => StaysConfined
  <2> SUFFICES ASSUME IInv PROVE StaysConfined
    OBVIOUS
  <2>1. \A x \in Listed : var[x] = "LIVE" => x \in running
    BY OfActors DEF IInv, RosterOK
  <2>2. HeldUnlessMissed
    BY <2>1 DEF IInv, RecordsOK, Stands, HeldUnlessMissed, RecordHeld
  <2>3. Inherited
    BY <2>1 DEF IInv, LineOK, Told, Inherited
  <2>4. BehindGate
    BY <2>1 DEF IInv, LineOK, EndsOK, Told, BehindGate
  <2> QED BY <2>2, <2>3, <2>4 DEF StaysConfined
<1> QED BY <1>1, InductiveInvariant, PTL
=============================================================================
