-------------------- MODULE DeliveryProofs --------------------
(***************************************************************************)
(* The proofs about module Delivery, for any number of actors, senders,    *)
(* blocks, sends and limits.  The invariant says what each party holds at  *)
(* each of its steps: the life of an actor, the send a sender is in, the   *)
(* spawner's record, the holder of every channel block and the one place   *)
(* where each message is counted.  From it: no entry is written into a     *)
(* block that has a new owner, and nothing is leaked or given back twice.  *)
(***************************************************************************)
EXTENDS Delivery, FiniteSetTheorems, WellFoundedInduction, TLAPS

-----------------------------------------------------------------------------
\* Sums over finite sets: a total that is unfolded in any order.

\* Total(f, S) is the sum of f over S, as MapThenSumSet unfolds it.
Pick(S) == CHOOSE x \in S : TRUE
Adds(f, S, g) == g = [T \in SUBSET S |-> IF T = {} THEN 0 ELSE f[Pick(T)] + g[T \ {Pick(T)}]]
Adder(f, S) == CHOOSE g : Adds(f, S, g)
Total(f, S) == Adder(f, S)[S]

\* a set of natural numbers with something in it has a least member
LEMMA Least ==
  ASSUME NEW R, R \subseteq Nat, R # {}
  PROVE  \E i \in R : \A j \in R : i <= j
<1>1. PICK i \in R : \A j \in R : <<j, i>> \notin OpToRel(<, Nat)
  BY NatLessThanWellFounded, WFMin
<1>2. ASSUME NEW j \in R PROVE i <= j
  <2>1. i \in Nat /\ j \in Nat
    OBVIOUS
  <2>2. SUFFICES ASSUME j < i PROVE FALSE
    BY <2>1
  <2>3. <<j, i>> \in OpToRel(<, Nat)
    BY <2>1, <2>2 DEF OpToRel
  <2> QED BY <2>3, <1>1
<1> QED BY <1>2

\* a set of finite sets with something in it has a smallest member
LEMMA Smallest ==
  ASSUME NEW W, W # {}, \A T \in W : IsFiniteSet(T)
  PROVE  \E T \in W : \A U \in W : Cardinality(T) <= Cardinality(U)
<1> DEFINE R == {Cardinality(T) : T \in W}
<1>1. R \subseteq Nat /\ R # {}
  BY FS_CardinalityType
<1>2. PICK i \in R : \A j \in R : i <= j
  BY <1>1, Least
<1>3. PICK T \in W : i = Cardinality(T)
  OBVIOUS
<1>4. \A U \in W : Cardinality(T) <= Cardinality(U)
  BY <1>2, <1>3
<1> QED BY <1>4

\* what CHOOSE picks is in the set
LEMMA PickIn == ASSUME NEW T, T # {} PROVE Pick(T) \in T
  BY DEF Pick

\* taking one element out makes a smaller finite set
LEMMA Fewer ==
  ASSUME NEW T, IsFiniteSet(T), NEW x \in T
  PROVE  IsFiniteSet(T \ {x}) /\ Cardinality(T \ {x}) < Cardinality(T)
         /\ ~(Cardinality(T) <= Cardinality(T \ {x}))
<1>1. IsFiniteSet(T \ {x}) /\ Cardinality(T \ {x}) = Cardinality(T) - 1
  BY FS_RemoveElement
<1>2. Cardinality(T) \in Nat
  BY FS_CardinalityType
<1> QED BY <1>1, <1>2

\* an adder's value at a part of its set
LEMMA AddsAt ==
  ASSUME NEW f, NEW S, NEW g, Adds(f, S, g), NEW T, T \subseteq S
  PROVE  /\ T = {} => g[T] = 0
         /\ T # {} => g[T] = f[Pick(T)] + g[T \ {Pick(T)}]
  BY Zenon DEF Adds

\* there is at most one adder of a finite set, whatever larger set it is for
LEMMA AddsAgree ==
  ASSUME NEW f, NEW S, NEW g, Adds(f, S, g), NEW V, NEW h, Adds(f, V, h),
         IsFiniteSet(S), NEW X, X \subseteq S, X \subseteq V
  PROVE  g[X] = h[X]
<1> DEFINE W == {T \in SUBSET X : g[T] # h[T]}
<1>1. SUFFICES ASSUME W # {} PROVE FALSE
  OBVIOUS
<1>2. \A T \in W : IsFiniteSet(T)
  BY FS_Subset
<1>3. PICK T \in W : \A U \in W : Cardinality(T) <= Cardinality(U)
  <2> HIDE DEF W
  <2> QED BY <1>1, <1>2, Smallest
<1>4. T \subseteq S /\ T \subseteq V /\ IsFiniteSet(T)
  BY <1>2
<1>5. CASE T = {}
  BY <1>4, <1>5, AddsAt
<1>6. CASE T # {}
  <2>1. PICK x \in T : x = Pick(T)
    BY <1>6, PickIn
  <2>2. T \ {x} \notin W
    BY <1>3, <1>4, Fewer
  <2>3. g[T \ {x}] = h[T \ {x}]
    BY <2>2
  <2>4. g[T] = f[Pick(T)] + g[T \ {Pick(T)}]
    BY <1>4, <1>6, AddsAt
  <2>5. h[T] = f[Pick(T)] + h[T \ {Pick(T)}]
    BY <1>4, <1>6, AddsAt
  <2> QED BY <2>1, <2>3, <2>4, <2>5
<1> QED BY <1>5, <1>6

\* every finite set has an adder
LEMMA AddsExists ==
  ASSUME NEW f, NEW S0, IsFiniteSet(S0)
  PROVE  Adds(f, S0, Adder(f, S0))
<1> DEFINE W == {T \in SUBSET S0 : ~Adds(f, T, Adder(f, T))}
<1>1. SUFFICES ASSUME W # {} PROVE FALSE
  OBVIOUS
<1>2. \A T \in W : IsFiniteSet(T)
  BY FS_Subset
<1>3. PICK S \in W : \A U \in W : Cardinality(S) <= Cardinality(U)
  <2> HIDE DEF W
  <2> QED BY <1>1, <1>2, Smallest
<1>4. IsFiniteSet(S) /\ S \subseteq S0
  BY <1>2
<1> DEFINE g == [T \in SUBSET S |-> IF T = {} THEN 0
                                    ELSE f[Pick(T)] + Total(f, T \ {Pick(T)})]
<1>5. ASSUME NEW T \in SUBSET S, NEW x \in T
      PROVE  Adds(f, T \ {x}, Adder(f, T \ {x})) /\ IsFiniteSet(T \ {x})
  <2>1. IsFiniteSet(T) /\ Cardinality(T) <= Cardinality(S)
    BY <1>4, FS_Subset
  <2>2. Cardinality(T \ {x}) < Cardinality(T) /\ IsFiniteSet(T \ {x})
    BY <2>1, Fewer
  <2>3. Cardinality(T) \in Nat /\ Cardinality(S) \in Nat /\ Cardinality(T \ {x}) \in Nat
    BY <1>4, <2>1, <2>2, FS_CardinalityType
  <2>4. T \ {x} \notin W
    BY <1>3, <2>1, <2>2, <2>3
  <2> QED BY <1>4, <2>2, <2>4
<1>6. ASSUME NEW T \in SUBSET S, T # {}
      PROVE  g[T \ {Pick(T)}] = Total(f, T \ {Pick(T)})
  <2>1. PICK x \in T : x = Pick(T)
    BY <1>6, PickIn
  <2> DEFINE U == T \ {x}
  <2>2. Adds(f, U, Adder(f, U)) /\ IsFiniteSet(U)
    BY <1>5
  <2>3. CASE U = {}
    <3>1. g[U] = 0
      BY <2>3
    <3>2. Total(f, U) = 0
      BY <2>2, <2>3, AddsAt DEF Total
    <3> QED BY <2>1, <3>1, <3>2
  <2>4. CASE U # {}
    <3>1. PICK y \in U : y = Pick(U)
      BY <2>4, PickIn
    <3>2. g[U] = f[y] + Total(f, U \ {y})
      BY <2>4, <3>1
    <3>3. Total(f, U) = f[y] + Adder(f, U)[U \ {y}]
      <4>1. Adder(f, U)[U] = f[Pick(U)] + Adder(f, U)[U \ {Pick(U)}]
        <5> HIDE DEF U
        <5> QED BY <2>2, <2>4, AddsAt
      <4>2. Total(f, U) = Adder(f, U)[U]
        BY Zenon DEF Total
      <4> HIDE DEF U
      <4> QED BY <3>1, <4>1, <4>2
    <3>4. Adds(f, U \ {y}, Adder(f, U \ {y}))
      BY <1>5
    <3>5. Adder(f, U)[U \ {y}] = Adder(f, U \ {y})[U \ {y}]
      <4> HIDE DEF U
      <4> QED BY <2>2, <3>4, AddsAgree
    <3> QED BY <2>1, <3>2, <3>3, <3>5 DEF Total
  <2> QED BY <2>3, <2>4
<1>7. Adds(f, S, g)
  <2>1. g = [T \in SUBSET S |-> IF T = {} THEN 0 ELSE f[Pick(T)] + g[T \ {Pick(T)}]]
    <3> DEFINE k == [T \in SUBSET S |-> IF T = {} THEN 0 ELSE f[Pick(T)] + g[T \ {Pick(T)}]]
    <3>1. \A T \in SUBSET S : g[T] = k[T]
      <4> TAKE T \in SUBSET S
      <4>1. CASE T = {}
        BY <4>1
      <4>2. CASE T # {}
        <5>1. g[T] = f[Pick(T)] + Total(f, T \ {Pick(T)})
          BY <4>2
        <5>2. k[T] = f[Pick(T)] + g[T \ {Pick(T)}]
          BY <4>2
        <5>3. g[T \ {Pick(T)}] = Total(f, T \ {Pick(T)})
          BY <1>6, <4>2
        <5> HIDE DEF g, k
        <5> QED BY <5>1, <5>2, <5>3
      <4> QED BY <4>1, <4>2
    <3>2. DOMAIN g = SUBSET S /\ DOMAIN k = SUBSET S
      OBVIOUS
    <3>3. g = [T \in SUBSET S |-> g[T]] /\ k = [T \in SUBSET S |-> k[T]]
      OBVIOUS
    <3>4. g = k
      <4> HIDE DEF g, k
      <4> QED BY <3>1, <3>3
    <3> QED BY <3>4
  <2> HIDE DEF g
  <2> QED BY <2>1 DEF Adds
<1>8. Adds(f, S, Adder(f, S))
  <2> HIDE DEF g
  <2> QED BY <1>7 DEF Adder
<1> QED BY <1>3, <1>8

-----------------------------------------------------------------------------
(* The laws of a total.                                                     *)

\* a total counts one element apart ...
LEMMA TotalPick ==
  ASSUME NEW f, NEW S, IsFiniteSet(S)
  PROVE  /\ S = {} => Total(f, S) = 0
         /\ S # {} => Total(f, S) = f[Pick(S)] + Total(f, S \ {Pick(S)})
<1>1. Adds(f, S, Adder(f, S))
  BY AddsExists
<1>2. CASE S = {}
  BY <1>1, <1>2, AddsAt DEF Total
<1>3. CASE S # {}
  <2>1. Adder(f, S)[S] = f[Pick(S)] + Adder(f, S)[S \ {Pick(S)}]
    BY <1>1, <1>3, AddsAt
  <2>2. PICK x \in S : x = Pick(S)
    BY <1>3, PickIn
  <2>3. IsFiniteSet(S \ {x})
    BY FS_RemoveElement
  <2>4. Adds(f, S \ {x}, Adder(f, S \ {x}))
    BY <2>3, AddsExists
  <2>5. Adder(f, S)[S \ {x}] = Adder(f, S \ {x})[S \ {x}]
    BY <1>1, <2>4, AddsAgree
  <2> QED BY <1>3, <2>1, <2>2, <2>5 DEF Total
<1> QED BY <1>2, <1>3

\* a total of integers is an integer
LEMMA TotalType ==
  ASSUME NEW D, NEW f \in [D -> Int], NEW S0, S0 \subseteq D, IsFiniteSet(S0)
  PROVE  Total(f, S0) \in Int
<1> DEFINE W == {T \in SUBSET S0 : Total(f, T) \notin Int}
<1>1. SUFFICES ASSUME W # {} PROVE FALSE
  OBVIOUS
<1>2. \A T \in W : IsFiniteSet(T)
  BY FS_Subset
<1>3. PICK S \in W : \A U \in W : Cardinality(S) <= Cardinality(U)
  <2> HIDE DEF W
  <2> QED BY <1>1, <1>2, Smallest
<1>4. IsFiniteSet(S) /\ S \subseteq S0
  BY <1>2
<1>5. S # {}
  <2>1. SUFFICES ASSUME S = {} PROVE FALSE
    OBVIOUS
  <2>2. Total(f, S) = 0
    BY <1>4, <2>1, TotalPick
  <2>3. Total(f, S) \notin Int
    BY <1>3
  <2> QED BY <2>2, <2>3
<1>6. PICK x \in S : x = Pick(S)
  BY <1>5, PickIn
<1>7. S \ {x} \notin W
  BY <1>3, <1>4, Fewer
<1>8. Total(f, S \ {x}) \in Int
  BY <1>4, <1>7
<1>9. Total(f, S) = f[x] + Total(f, S \ {x})
  BY <1>4, <1>5, <1>6, TotalPick
<1>10. f[x] \in Int
  BY <1>4
<1> QED BY <1>3, <1>8, <1>9, <1>10

\* the order does not matter: any element may be counted apart
LEMMA TotalOut ==
  ASSUME NEW D, NEW f \in [D -> Int], NEW S0, S0 \subseteq D, IsFiniteSet(S0), NEW y0 \in S0
  PROVE  Total(f, S0) = f[y0] + Total(f, S0 \ {y0})
<1> DEFINE W == {T \in SUBSET S0 : \E y \in T : Total(f, T) # f[y] + Total(f, T \ {y})}
<1>1. SUFFICES ASSUME W # {} PROVE FALSE
  OBVIOUS
<1>2. \A T \in W : IsFiniteSet(T)
  BY FS_Subset
<1>3. PICK S \in W : \A U \in W : Cardinality(S) <= Cardinality(U)
  <2> HIDE DEF W
  <2> QED BY <1>1, <1>2, Smallest
<1>4. IsFiniteSet(S) /\ S \subseteq S0
  BY <1>2
<1>5. PICK y \in S : Total(f, S) # f[y] + Total(f, S \ {y})
  BY <1>3
<1>6. PICK x \in S : x = Pick(S)
  BY <1>5, PickIn
<1>7. Total(f, S) = f[x] + Total(f, S \ {x})
  BY <1>4, <1>6, TotalPick
<1>8. x # y
  BY <1>5, <1>7
<1>9. IsFiniteSet(S \ {x}) /\ IsFiniteSet(S \ {y}) /\ IsFiniteSet((S \ {x}) \ {y})
  BY <1>4, FS_RemoveElement
<1>10. S \ {x} \notin W /\ S \ {y} \notin W
  BY <1>3, <1>4, Fewer
<1>11. Total(f, S \ {x}) = f[y] + Total(f, (S \ {x}) \ {y})
  <2>1. y \in S \ {x} /\ S \ {x} \in SUBSET S0
    BY <1>4, <1>8
  <2> QED BY <1>10, <2>1
<1>12. Total(f, S \ {y}) = f[x] + Total(f, (S \ {y}) \ {x})
  <2>1. x \in S \ {y} /\ S \ {y} \in SUBSET S0
    BY <1>4, <1>8
  <2> QED BY <1>10, <2>1
<1>13. (S \ {y}) \ {x} = (S \ {x}) \ {y}
  OBVIOUS
<1>14. f[x] \in Int /\ f[y] \in Int /\ Total(f, (S \ {x}) \ {y}) \in Int
  <2>1. (S \ {x}) \ {y} \subseteq D
    BY <1>4
  <2> QED BY <1>4, <1>9, <2>1, TotalType
<1> QED BY <1>5, <1>7, <1>11, <1>12, <1>13, <1>14

\* an element more adds its value
LEMMA TotalIn ==
  ASSUME NEW D, NEW f \in [D -> Int], NEW S, S \subseteq D, IsFiniteSet(S),
         NEW y \in D, y \notin S
  PROVE  Total(f, S \cup {y}) = Total(f, S) + f[y]
<1>1. IsFiniteSet(S \cup {y}) /\ S \cup {y} \subseteq D
  BY FS_AddElement
<1>2. (S \cup {y}) \ {y} = S
  OBVIOUS
<1>3. Total(f, S \cup {y}) = f[y] + Total(f, (S \cup {y}) \ {y})
  BY <1>1, TotalOut
<1>4. Total(f, S) \in Int /\ f[y] \in Int
  BY TotalType
<1>5. Total(f, S \cup {y}) = f[y] + Total(f, S)
  BY Zenon, <1>2, <1>3
<1> QED BY <1>4, <1>5

\* a total depends on what is counted only
LEMMA TotalSame ==
  ASSUME NEW f, NEW g, NEW S0, IsFiniteSet(S0), \A x \in S0 : f[x] = g[x]
  PROVE  Total(f, S0) = Total(g, S0)
<1> DEFINE W == {T \in SUBSET S0 : Total(f, T) # Total(g, T)}
<1>1. SUFFICES ASSUME W # {} PROVE FALSE
  OBVIOUS
<1>2. \A T \in W : IsFiniteSet(T)
  BY FS_Subset
<1>3. PICK S \in W : \A U \in W : Cardinality(S) <= Cardinality(U)
  <2> HIDE DEF W
  <2> QED BY <1>1, <1>2, Smallest
<1>4. IsFiniteSet(S) /\ S \subseteq S0
  BY <1>2
<1>5. S # {}
  BY <1>3, <1>4, TotalPick
<1>6. PICK x \in S : x = Pick(S)
  BY <1>5, PickIn
<1>7. S \ {x} \notin W
  BY <1>3, <1>4, Fewer
<1>8. Total(f, S \ {x}) = Total(g, S \ {x})
  BY <1>4, <1>7
<1>9. Total(f, S) = f[x] + Total(f, S \ {x})
  BY <1>4, <1>5, <1>6, TotalPick
<1>10. Total(g, S) = g[x] + Total(g, S \ {x})
  BY <1>4, <1>5, <1>6, TotalPick
<1>11. f[x] = g[x]
  BY <1>4
<1> QED BY <1>3, <1>8, <1>9, <1>10, <1>11

-----------------------------------------------------------------------------
(* The two sums of the model are totals.                                    *)

\* The two sums of ChargesBalance, as totals.
Charges == [e \in Entry |-> e.charge]
ChargeSum(S) == MapThenSumSet(LAMBDA e : e.charge, S)
SenderSum(v, S) == MapThenSumSet(LAMBDA s : v[s].charge, S)
Owed(v) == [s \in Senders |-> v[s].charge]

ChargeAdds(S, g) ==
  g = [T \in SUBSET S |-> IF T = {} THEN 0 ELSE Pick(T).charge + g[T \ {Pick(T)}]]
SenderAdds(v, S, g) ==
  g = [T \in SUBSET S |-> IF T = {} THEN 0 ELSE v[Pick(T)].charge + g[T \ {Pick(T)}]]

\* what the two sums are, from the definition of MapThenSumSet
LEMMA ChargeSumIs ==
  ASSUME NEW S PROVE ChargeSum(S) = (CHOOSE g : ChargeAdds(S, g))[S]
  BY Zenon DEF ChargeSum, ChargeAdds, MapThenSumSet, MapThenFoldSet, Pick

\* the same for the senders' charges
LEMMA SenderSumIs ==
  ASSUME NEW v, NEW S PROVE SenderSum(v, S) = (CHOOSE g : SenderAdds(v, S, g))[S]
  BY Zenon DEF SenderSum, SenderAdds, MapThenSumSet, MapThenFoldSet, Pick

\* both are unfolded as a total is ...
LEMMA ChargeAddsSame ==
  ASSUME NEW S, S \subseteq Entry, NEW g
  PROVE  ChargeAdds(S, g) <=> Adds(Charges, S, g)
<1> DEFINE u == [T \in SUBSET S |-> IF T = {} THEN 0 ELSE Pick(T).charge + g[T \ {Pick(T)}]]
           v == [T \in SUBSET S |-> IF T = {} THEN 0 ELSE Charges[Pick(T)] + g[T \ {Pick(T)}]]
<1>1. \A T \in SUBSET S : u[T] = v[T]
  <2> TAKE T \in SUBSET S
  <2>1. CASE T = {}
    BY <2>1
  <2>2. CASE T # {}
    <3>1. PICK x \in T : x = Pick(T)
      BY <2>2, PickIn
    <3>2. Charges[x] = x.charge
      BY DEF Charges
    <3> QED BY <2>2, <3>1, <3>2
  <2> QED BY <2>1, <2>2
<1>2. u = [T \in SUBSET S |-> u[T]] /\ v = [T \in SUBSET S |-> v[T]]
  OBVIOUS
<1>3. u = v
  <2> HIDE DEF u, v
  <2> QED BY <1>1, <1>2
<1>4. ChargeAdds(S, g) <=> g = u
  BY Zenon DEF ChargeAdds
<1>5. Adds(Charges, S, g) <=> g = v
  BY Zenon DEF Adds
<1> HIDE DEF u, v
<1> QED BY <1>3, <1>4, <1>5

\* ... so both are totals
LEMMA ChargeSumTotal ==
  ASSUME NEW S, S \subseteq Entry, IsFiniteSet(S)
  PROVE  ChargeSum(S) = Total(Charges, S)
<1>1. Adds(Charges, S, Adder(Charges, S))
  BY AddsExists
<1>2. PICK g : g = CHOOSE h : ChargeAdds(S, h)
  OBVIOUS
<1>3. ChargeAdds(S, g)
  <2>1. ChargeAdds(S, Adder(Charges, S))
    BY <1>1, ChargeAddsSame
  <2> QED BY <1>2, <2>1
<1>4. Adds(Charges, S, g)
  BY <1>3, ChargeAddsSame
<1>5. g[S] = Adder(Charges, S)[S]
  BY <1>1, <1>4, AddsAgree
<1> QED BY <1>2, <1>5, ChargeSumIs DEF Total

\* the same for the senders' charges
LEMMA SenderAddsSame ==
  ASSUME NEW v, NEW S, S \subseteq Senders, NEW g
  PROVE  SenderAdds(v, S, g) <=> Adds(Owed(v), S, g)
<1> DEFINE u == [T \in SUBSET S |-> IF T = {} THEN 0 ELSE v[Pick(T)].charge + g[T \ {Pick(T)}]]
           w == [T \in SUBSET S |-> IF T = {} THEN 0 ELSE Owed(v)[Pick(T)] + g[T \ {Pick(T)}]]
<1>1. \A T \in SUBSET S : u[T] = w[T]
  <2> TAKE T \in SUBSET S
  <2>1. CASE T = {}
    BY <2>1
  <2>2. CASE T # {}
    <3>1. PICK x \in T : x = Pick(T)
      BY <2>2, PickIn
    <3>2. Owed(v)[x] = v[x].charge
      BY DEF Owed
    <3> QED BY <2>2, <3>1, <3>2
  <2> QED BY <2>1, <2>2
<1>2. u = [T \in SUBSET S |-> u[T]] /\ w = [T \in SUBSET S |-> w[T]]
  OBVIOUS
<1>3. u = w
  <2> HIDE DEF u, w
  <2> QED BY <1>1, <1>2
<1>4. SenderAdds(v, S, g) <=> g = u
  BY Zenon DEF SenderAdds
<1>5. Adds(Owed(v), S, g) <=> g = w
  BY Zenon DEF Adds
<1> HIDE DEF u, w
<1> QED BY <1>3, <1>4, <1>5

\* the same for the senders' charges
LEMMA SenderSumTotal ==
  ASSUME NEW v, NEW S, S \subseteq Senders, IsFiniteSet(S)
  PROVE  SenderSum(v, S) = Total(Owed(v), S)
<1>1. Adds(Owed(v), S, Adder(Owed(v), S))
  BY AddsExists
<1>2. PICK g : g = CHOOSE h : SenderAdds(v, S, h)
  OBVIOUS
<1>3. SenderAdds(v, S, g)
  <2>1. SenderAdds(v, S, Adder(Owed(v), S))
    BY <1>1, SenderAddsSame
  <2> QED BY <1>2, <2>1
<1>4. Adds(Owed(v), S, g)
  BY <1>3, SenderAddsSame
<1>5. g[S] = Adder(Owed(v), S)[S]
  BY <1>1, <1>4, AddsAgree
<1> QED BY <1>2, <1>5, SenderSumIs DEF Total
(* The invariant.                                                           *)

\* The types of the records, with counts that may be anything: their bounds are
\* proved with the accounts.
Lives == {"none", "built", "claimed", "drained", "limbo", "gone"}
Kept == {"channels", "entry", "acb"}

Acb ==
  [var : {"unborn", "READY", "DEAD"}, ch : Blocks \cup {None}, bounded : BOOLEAN,
   messages : Int, bytes : Int, items : SUBSET Items, shlock : Senders \cup {None},
   hand : Entry \cup {NoEntry}, rx : SUBSET Messages, life : Lives]
Blk ==
  [at : {"list", "held", "limbo"}, q : SUBSET Entry, owner : Actors \cup {None},
   cap : [Senders -> Nat], since : [Harts -> 0..2]]
Snd ==
  [var : {"READY", "DEAD"}, pc : Steps, to : Actors \cup {None},
   m : Messages \cup {None}, charge : Nat, c : Blocks \cup {None},
   send_to : Actors \cup {None}, send_root : Messages \cup {None}, hold : BOOLEAN,
   left : Nat]
Sp ==
  [var : {"READY", "DEAD"}, pc : {"idle", "reserve", "init", "gone"},
   kind : {"heap", "inbox"}, n : 0..6, ch : Blocks \cup {None}, cleanup : BOOLEAN,
   left : Nat]
Types ==
  /\ acb \in [Actors -> Acb]
  /\ blk \in [Blocks -> Blk] /\ \A b \in Blocks : IsFiniteSet(blk[b].q)
  /\ snd \in [Senders -> Snd]
  /\ rc \in [Messages -> Int]
  /\ out \in [Items -> Int]
  /\ sp \in Sp

\* An actor's life, from its admission to the reaper's last store.
LifeOK(a) ==
  /\ acb[a].life = "none" <=> acb[a].var = "unborn"
  /\ acb[a].life = "none" =>
       /\ acb[a].ch = None /\ acb[a].items = {} /\ acb[a].hand = NoEntry
       /\ acb[a].rx = {} /\ ~acb[a].bounded
  /\ acb[a].life \in {"claimed", "drained", "limbo", "gone"} =>
       acb[a].var = "DEAD" /\ acb[a].hand = NoEntry
  /\ acb[a].life \in {"built", "claimed", "drained", "limbo"} <=> acb[a].ch # None
  /\ acb[a].life \in {"built", "claimed"} =>
       Kept \subseteq acb[a].items /\ (acb[a].bounded => "charges" \in acb[a].items)
  /\ acb[a].life \in {"drained", "limbo"} => acb[a].items = Kept /\ acb[a].rx = {}
  /\ acb[a].life = "gone" => acb[a].items = {"acb"} /\ acb[a].rx = {}
  /\ acb[a].shlock # None =>
       /\ acb[a].bounded /\ acb[a].life \in {"built", "claimed"}
       /\ snd[acb[a].shlock].pc = "publish" /\ snd[acb[a].shlock].to = a

\* What a sender holds at each of its steps.
SenderOK(s) ==
  /\ snd[s].left \in 0..SendMax[s]
  /\ snd[s].pc = "idle" => snd[s].m = None /\ snd[s].send_to = None /\ snd[s].send_root = None
  /\ snd[s].pc = "gone" => snd[s].send_to = None /\ snd[s].send_root = None
                           /\ snd[s].var = "DEAD"
  /\ snd[s].m # None => snd[s].m = <<s, snd[s].left + 1>>
  /\ snd[s].pc \notin {"idle", "gone"} =>
       snd[s].m # None /\ snd[s].to \in Actors /\ acb[snd[s].to].var # "unborn"
  /\ snd[s].pc \in {"copy", "pin"} =>
       /\ snd[s].send_root = None
       /\ snd[s].send_to = IF acb[snd[s].to].bounded THEN snd[s].to ELSE None
  /\ snd[s].pc \in {"lock", "publish"} =>
       /\ snd[s].send_to = snd[s].to /\ snd[s].send_root = snd[s].m
       /\ acb[snd[s].to].bounded
  /\ snd[s].pc = "publish" => acb[snd[s].to].shlock = s
  /\ snd[s].pc \in {"check", "resolve", "push", "write", "grow", "fault"} =>
       /\ snd[s].send_to = None /\ snd[s].send_root = None
       /\ ~acb[snd[s].to].bounded
  /\ snd[s].pc \in {"push", "write", "grow"} =>
       snd[s].c \in Blocks /\ acb[snd[s].to].ch \in {snd[s].c, None}
  /\ snd[s].pc = "write" /\ acb[snd[s].to].life \in {"limbo", "gone"} =>
       /\ blk[snd[s].c].at = "limbo" /\ blk[snd[s].c].since[s] = 0
       /\ blk[snd[s].c].owner = None

\* The spawner's record agrees with what it has taken.
SpawnerOK ==
  /\ sp.cleanup <=> sp.pc \in {"reserve", "init"}
  /\ sp.pc = "init" => sp.n < 6 /\ Wants = "channels" /\ sp.ch \in Blocks
  /\ sp.pc = "reserve" => ("channels" \in Got <=> sp.ch # None)
  /\ sp.pc = "reserve" /\ sp.ch # None => blk[sp.ch].q = {}

Holds(a, b) == acb[a].life \in {"built", "claimed", "drained"} /\ acb[a].ch = b
SpHolds(b) == sp.cleanup /\ sp.ch = b

\* A held block has one holder, an actor or the spawner; what waits in limbo or
\* on the list has none, and what a block's rings hold is for its last actor.
Kept1 == \A b \in Blocks : blk[b].at = "held" => SpHolds(b) \/ \E a \in Actors : Holds(a, b)
Kept2 == \A b \in Blocks : SpHolds(b) => blk[b].at = "held" /\ \A a \in Actors : ~Holds(a, b)
Kept3 ==
  \A a \in Actors, b \in Blocks :
    Holds(a, b) => /\ blk[b].at = "held"
                   /\ blk[b].owner = IF acb[a].bounded THEN a ELSE None
                   /\ \A a2 \in Actors : Holds(a2, b) => a2 = a
Kept4 ==
  \A a \in Actors : acb[a].life = "limbo" =>
    /\ blk[acb[a].ch].at = "limbo" /\ blk[acb[a].ch].since[Home] = 0
    /\ blk[acb[a].ch].owner = IF acb[a].bounded THEN a ELSE None
Kept5 == \A b \in Blocks : blk[b].at = "list" => blk[b].q = {}
Kept6 ==
  \A b \in Blocks : \A e \in blk[b].q :
    /\ acb[e.to].var # "unborn"
    /\ blk[b].owner = IF acb[e.to].bounded THEN e.to ELSE None
    /\ acb[e.to].bounded => acb[e.to].life \in {"built", "claimed"} /\ acb[e.to].ch = b
BlocksOK == Kept1 /\ Kept2 /\ Kept3 /\ Kept4 /\ Kept5 /\ Kept6

\* Each resource taken is in the record of an admission or with an actor.
Under(i) == sp.cleanup /\ (i \in Got \/ (i = "channels" /\ sp.pc = "init"))
With(i) == {a \in Actors : i \in acb[a].items}
OutOK == \A i \in Items : out[i] = Cardinality(With(i)) + (IF Under(i) THEN 1 ELSE 0)

\* A message is counted once, where it is: in a ring, with a receiver, or with
\* its sender.
One(S) == \E x \in S : S = {x}
Place1(m) ==
  \/ rc[m] = 0 /\ InRing(m) = {} /\ InHand(m) = {} /\ InSend(m) = {}
  \/ rc[m] = 1 /\ One(InRing(m)) /\ InHand(m) = {} /\ InSend(m) = {}
  \/ rc[m] = 1 /\ InRing(m) = {} /\ One(InHand(m)) /\ InSend(m) = {}
  \/ rc[m] = 1 /\ InRing(m) = {} /\ InHand(m) = {} /\ One(InSend(m))
Unsent == \A s \in Senders : \A k \in 1..snd[s].left : rc[<<s, k>>] = 0
Copied == \A s \in Senders : snd[s].pc \in {"copy", "pin"} => rc[snd[s].m] = 0
OnceIn == \A b \in Blocks : \A e1, e2 \in blk[b].q : e1.m = e2.m => e1 = e2
InHandOnce == \A a \in Actors : acb[a].hand # NoEntry => acb[a].hand.m \notin acb[a].rx
Places == (\A m \in Messages : Place1(m)) /\ Unsent /\ Copied /\ OnceIn /\ InHandOnce

LivesOK == \A a \in Actors : LifeOK(a)
SendersOK == \A s \in Senders : SenderOK(s)
\* The inductive invariant.
IInv == Types /\ LivesOK /\ SendersOK /\ SpawnerOK /\ BlocksOK /\ OutOK /\ Places

-----------------------------------------------------------------------------

-----------------------------------------------------------------------------
\* The constants, and what the operators on an account keep.

\* All of a mailbox but its counts.
Core(x, y) ==
  /\ x.var = y.var /\ x.ch = y.ch /\ x.bounded = y.bounded /\ x.items = y.items
  /\ x.shlock = y.shlock /\ x.hand = y.hand /\ x.rx = y.rx /\ x.life = y.life
SameAcb(a) == Core(acb'[a], acb[a])
SameBlk(b) ==
  /\ blk'[b].at = blk[b].at /\ blk'[b].q = blk[b].q /\ blk'[b].owner = blk[b].owner
  /\ blk'[b].since = blk[b].since
Others(s) == \A t \in Senders : t # s => snd'[t] = snd[t]
Dropped(ms) == \A m \in Messages : rc'[m] = IF m \in ms THEN rc[m] - 1 ELSE rc[m]

\* the sizes and names, from the assumption on the constants
LEMMA Const ==
  /\ None \notin Senders /\ None \notin Actors /\ None \notin Blocks /\ None \notin Messages
  /\ Home \notin Senders /\ IsFiniteSet(Actors) /\ IsFiniteSet(Senders) /\ First \in Actors
  /\ SendMax \in [Senders -> Nat] /\ Size \in [Senders -> Nat]
  /\ RingCap \in Nat /\ MaxCap \in Nat /\ MaxMessages \in Nat /\ MaxBytes \in Nat
  /\ SpawnMax \in Nat /\ Kinds \subseteq {"copy", "move"}
  BY DeliveryAssumption

\* new counts change nothing else
LEMMA CountsSet ==
  ASSUME NEW x \in Acb, NEW p \in Int, NEW q \in Int
  PROVE  [x EXCEPT !.messages = p, !.bytes = q] \in Acb
         /\ Core([x EXCEPT !.messages = p, !.bytes = q], x)
<1>1. [x EXCEPT !.messages = p, !.bytes = q] \in Acb
  BY DEF Acb
<1>2. Core([x EXCEPT !.messages = p, !.bytes = q], x)
  BY DEF Acb, Core
<1> QED BY <1>1, <1>2

\* a mailbox agrees with itself
LEMMA CoreRefl == ASSUME NEW x PROVE Core(x, x)
  BY DEF Core

\* the counts are integers
LEMMA CountsType == ASSUME NEW x \in Acb PROVE x.messages \in Int /\ x.bytes \in Int
  BY DEF Acb

\* inbox_release, inbox_reserve and the drain change nothing but counts
LEMMA ReleaseKeeps ==
  ASSUME NEW x \in Acb, NEW z \in Nat
  PROVE  Release(x, z) \in Acb /\ Core(Release(x, z), x)
<1>1. PICK p \in Int, q \in Int : p = x.messages - 1 /\ q = x.bytes - z
  BY CountsType
<1>2. Release(x, z) = IF x.bounded THEN [x EXCEPT !.messages = p, !.bytes = q] ELSE x
  BY <1>1 DEF Release
<1>3. [x EXCEPT !.messages = p, !.bytes = q] \in Acb
         /\ Core([x EXCEPT !.messages = p, !.bytes = q], x)
  BY CountsSet
<1> QED BY Zenon, <1>2, <1>3, CoreRefl

\* the same for a reservation
LEMMA ChargeKeeps ==
  ASSUME NEW x \in Acb, NEW z \in Nat
  PROVE  Charge(x, z) \in Acb /\ Core(Charge(x, z), x)
<1>1. PICK p \in Int, q \in Int : p = x.messages + 1 /\ q = x.bytes + z
  BY CountsType
<1>2. Charge(x, z) = [x EXCEPT !.messages = p, !.bytes = q]
  BY <1>1 DEF Charge
<1>3. [x EXCEPT !.messages = p, !.bytes = q] \in Acb
         /\ Core([x EXCEPT !.messages = p, !.bytes = q], x)
  BY CountsSet
<1> QED BY Zenon, <1>2, <1>3

\* the same for a drain
LEMMA ReleaseAllKeeps ==
  ASSUME NEW x \in Acb, NEW es, es \subseteq Entry, IsFiniteSet(es)
  PROVE  ReleaseAll(x, es) \in Acb /\ Core(ReleaseAll(x, es), x)
<1>1. PICK n \in Nat : n = Cardinality(es)
  BY FS_CardinalityType
<1>2. PICK z \in Int : z = MapThenSumSet(LAMBDA e : e.charge, es)
  <2>1. Charges \in [Entry -> Int]
    BY DEF Charges, Entry
  <2>2. Total(Charges, es) \in Int
    BY <2>1, TotalType
  <2>3. ChargeSum(es) = Total(Charges, es)
    BY ChargeSumTotal
  <2> QED BY <2>2, <2>3 DEF ChargeSum
<1>3. PICK p \in Int, q \in Int : p = x.messages - n /\ q = x.bytes - z
  BY CountsType
<1>4. ReleaseAll(x, es) = IF x.bounded THEN [x EXCEPT !.messages = p, !.bytes = q] ELSE x
  BY <1>1, <1>2, <1>3 DEF ReleaseAll
<1>5. [x EXCEPT !.messages = p, !.bytes = q] \in Acb
         /\ Core([x EXCEPT !.messages = p, !.bytes = q], x)
  BY CountsSet
<1> QED BY Zenon, <1>4, <1>5, CoreRefl

-----------------------------------------------------------------------------
\* Fields by their types; a send starts.

\* the fields of a record by their types, for each kind of record
LEMMA AcbType == ASSUME NEW x \in Acb
  PROVE  /\ x.var \in {"unborn", "READY", "DEAD"} /\ x.ch \in Blocks \cup {None}
         /\ x.bounded \in BOOLEAN /\ x.messages \in Int /\ x.bytes \in Int
         /\ x.items \subseteq Items /\ x.shlock \in Senders \cup {None}
         /\ x.hand \in Entry \cup {NoEntry} /\ x.rx \subseteq Messages /\ x.life \in Lives
  BY DEF Acb

\* of a channel block
LEMMA BlkType == ASSUME NEW x \in Blk
  PROVE  /\ x.at \in {"list", "held", "limbo"} /\ x.q \subseteq Entry
         /\ x.owner \in Actors \cup {None} /\ x.cap \in [Senders -> Nat]
         /\ x.since \in [Harts -> 0..2]
  BY DEF Blk

\* of a sender
LEMMA SndType == ASSUME NEW x \in Snd
  PROVE  /\ x.var \in {"READY", "DEAD"} /\ x.pc \in Steps /\ x.to \in Actors \cup {None}
         /\ x.m \in Messages \cup {None} /\ x.charge \in Nat /\ x.c \in Blocks \cup {None}
         /\ x.send_to \in Actors \cup {None} /\ x.send_root \in Messages \cup {None}
         /\ x.hold \in BOOLEAN /\ x.left \in Nat
  BY DEF Snd

\* the k-th message of a sender
LEMMA MessageIs ==
  ASSUME NEW s \in Senders, NEW k, k \in 1..SendMax[s]
  PROVE  <<s, k>> \in Messages
  BY Const DEF Messages

\* a sender between sends
LEMMA IdleIs ==
  ASSUME NEW x \in Snd
  PROVE  /\ Idle(x) \in Snd /\ Idle(x).pc = "idle" /\ Idle(x).m = None
         /\ Idle(x).send_to = None /\ Idle(x).send_root = None
         /\ Idle(x).left = x.left /\ Idle(x).var = x.var /\ Idle(x).charge = 0
  BY Const DEF Idle, Snd, Steps, Parkable

\* fpr_send_as and sendLinear begin, with the reservation
LEMMA StartEffect ==
  ASSUME Types, NEW s \in Senders, SenderOK(s), NEW a \in Actors, NEW kind \in Kinds,
           Start(s, a, kind)
  PROVE  /\ snd[s].pc = "idle" /\ snd[s].left \in 1..SendMax[s]
              /\ <<s, snd[s].left>> \in Messages
         /\ acb[a].var = "READY"
         /\ \A b \in Actors : SameAcb(b)
         /\ acb' \in [Actors -> Acb]
         /\ UNCHANGED <<blk, out, sp>> /\ Others(s)
         /\ snd' \in [Senders -> Snd]
         /\ snd'[s].pc = IF kind = "copy" THEN "copy"
                         ELSE IF acb[a].bounded THEN "lock" ELSE "check"
         /\ snd'[s].to = a /\ snd'[s].m = <<s, snd[s].left>> /\ snd'[s].left = snd[s].left - 1
         /\ snd'[s].charge = IF acb[a].bounded THEN Size[s] ELSE 0
         /\ snd'[s].send_to = IF acb[a].bounded THEN a ELSE None
         /\ snd'[s].send_root = IF acb[a].bounded
              /\ kind = "move" THEN <<s, snd[s].left>> ELSE None
         /\ kind \in {"copy", "move"}
         /\ rc' = [rc EXCEPT ![<<s, snd[s].left>>] = IF kind = "move" THEN 1 ELSE @]
<1>1. snd[s] \in Snd /\ acb[a] \in Acb /\ kind \in {"copy", "move"}
  BY Const DEF Types
<1>2. snd[s].pc = "idle" /\ snd[s].left \in 1..SendMax[s] /\ acb[a].var = "READY"
  <2>1. snd[s].left \in 0..SendMax[s] /\ SendMax[s] \in Nat
    BY Const DEF SenderOK
  <2>2. snd[s].left > 0 /\ snd[s].pc = "idle" /\ acb[a].var # "unborn" /\ acb[a].var # "DEAD"
    BY DEF Start, Ready
  <2> QED BY <1>1, <2>1, <2>2, AcbType
<1>3. PICK k \in 1..SendMax[s] : k = snd[s].left
  BY <1>2
<1>4. PICK m \in Messages : m = <<s, k>>
  BY MessageIs
<1>5. PICK z \in Nat : z = Size[s]
  BY Const
<1>6. acb' = [acb EXCEPT ![a] = IF acb[a].bounded THEN Charge(acb[a], z) ELSE acb[a]]
  BY <1>5 DEF Start
<1>7. Charge(acb[a], z) \in Acb /\ Core(Charge(acb[a], z), acb[a])
  BY <1>1, ChargeKeeps
<1>8. acb' \in [Actors -> Acb] /\ \A b \in Actors : SameAcb(b)
  <2>1. acb \in [Actors -> Acb]
    BY DEF Types
  <2> QED BY <1>6, <1>7, <2>1, CoreRefl DEF SameAcb
<1> DEFINE R == [snd[s] EXCEPT !.pc = CASE kind = "copy" -> "copy"
                                       [] kind = "move" /\ acb[a].bounded -> "lock"
                                       [] OTHER -> "check",
                               !.to = a, !.m = <<s, snd[s].left>>, !.left = snd[s].left - 1,
                               !.charge = IF acb[a].bounded THEN Size[s] ELSE 0,
                               !.send_to = IF acb[a].bounded THEN a ELSE None,
                               !.send_root = IF acb[a].bounded
                                 /\ kind = "move" THEN <<s, snd[s].left>>
                                               ELSE None]
<1>9. snd' = [snd EXCEPT ![s] = R]
  BY Zenon DEF Start
<1>10. /\ R.pc = IF kind = "copy" THEN "copy" ELSE IF acb[a].bounded THEN "lock" ELSE "check"
       /\ R.to = a /\ R.m = m /\ R.left = k - 1
       /\ R.charge = IF acb[a].bounded THEN z ELSE 0
       /\ R.send_to = IF acb[a].bounded THEN a ELSE None
       /\ R.send_root = IF acb[a].bounded /\ kind = "move" THEN m ELSE None
  BY <1>1, <1>3, <1>4, <1>5 DEF Snd
<1>11. R \in Snd
  <2>1. k - 1 \in Nat
    BY <1>3
  <2>2. (CASE kind = "copy" -> "copy" [] kind = "move" /\ acb[a].bounded -> "lock"
           [] OTHER -> "check") \in Steps
    BY DEF Steps, Parkable
  <2>3. R = [snd[s] EXCEPT !.pc = CASE kind = "copy" -> "copy"
                                    [] kind = "move" /\ acb[a].bounded -> "lock"
                                    [] OTHER -> "check",
                           !.to = a, !.m = m, !.left = k - 1,
                           !.charge = IF acb[a].bounded THEN z ELSE 0,
                           !.send_to = IF acb[a].bounded THEN a ELSE None,
                           !.send_root = IF acb[a].bounded /\ kind = "move" THEN m ELSE None]
    BY <1>3, <1>4, <1>5
  <2> HIDE DEF R
  <2> QED BY <1>1, <2>1, <2>2, <2>3 DEF Snd
<1>12. snd' \in [Senders -> Snd] /\ snd'[s] = R /\ Others(s)
  <2> HIDE DEF R
  <2>1. snd \in [Senders -> Snd]
    BY DEF Types
  <2> QED BY <1>9, <1>11, <2>1 DEF Others
<1>13. rc' = [rc EXCEPT ![m] = IF kind = "move" THEN 1 ELSE @]
  BY <1>3, <1>4 DEF Start
<1>14. UNCHANGED <<blk, out, sp>>
  BY DEF Start
<1> HIDE DEF R
<1> QED BY <1>1, <1>2, <1>3, <1>4, <1>5, <1>8, <1>10, <1>12, <1>13, <1>14

-----------------------------------------------------------------------------
\* What each step of a sender changes.

\* all of a sender's record but its step
SameSnd(s) ==
  /\ snd'[s].var = snd[s].var /\ snd'[s].to = snd[s].to /\ snd'[s].m = snd[s].m
  /\ snd'[s].charge = snd[s].charge /\ snd'[s].c = snd[s].c
  /\ snd'[s].send_to = snd[s].send_to /\ snd'[s].send_root = snd[s].send_root
  /\ snd'[s].left = snd[s].left
\* a sender has gone back to idle
Idled(s) ==
  /\ snd'[s].pc = "idle" /\ snd'[s].m = None /\ snd'[s].send_to = None
  /\ snd'[s].send_root = None /\ snd'[s].left = snd[s].left /\ snd'[s].var = snd[s].var

\* a sender takes one step on
LEMMA PcSet ==
  ASSUME Types, NEW s \in Senders, NEW p \in Steps, snd' = [snd EXCEPT ![s].pc = p]
  PROVE  snd' \in [Senders -> Snd] /\ Others(s) /\ snd'[s].pc = p /\ SameSnd(s)
<1>1. snd \in [Senders -> Snd] /\ snd[s] \in Snd
  BY DEF Types
<1>2. PICK x \in Snd : x = snd[s]
  BY <1>1
<1> DEFINE R == [x EXCEPT !.pc = p]
<1>3. R \in Snd /\ R.pc = p
  BY <1>2 DEF Snd
<1>4. /\ R.var = x.var /\ R.to = x.to /\ R.m = x.m /\ R.charge = x.charge /\ R.c = x.c
      /\ R.send_to = x.send_to /\ R.send_root = x.send_root /\ R.left = x.left
  BY <1>2 DEF Snd
<1>5. snd' = [snd EXCEPT ![s] = R]
  BY <1>2
<1> HIDE DEF R
<1>6. snd' \in [Senders -> Snd] /\ Others(s) /\ snd'[s] = R
  BY <1>1, <1>3, <1>5 DEF Others
<1> QED BY <1>2, <1>3, <1>4, <1>6 DEF SameSnd

\* a send ends
LEMMA IdleSet ==
  ASSUME Types, NEW s \in Senders, snd' = [snd EXCEPT ![s] = Idle(@)]
  PROVE  snd' \in [Senders -> Snd] /\ Others(s) /\ Idled(s)
<1>1. snd \in [Senders -> Snd] /\ snd[s] \in Snd
  BY DEF Types
<1>2. snd' \in [Senders -> Snd] /\ Others(s) /\ snd'[s] = Idle(snd[s])
  BY <1>1, IdleIs DEF Others
<1> QED BY <1>1, <1>2, IdleIs DEF Idled

\* counts are dropped
LEMMA DecrefIs ==
  ASSUME Types, NEW ms, rc' = Decref(ms)
  PROVE  rc' \in [Messages -> Int] /\ Dropped(ms)
<1>1. rc \in [Messages -> Int]
  BY DEF Types
<1>2. Dropped(ms)
  BY DEF Decref, Dropped
<1>3. rc' \in [Messages -> Int]
  BY <1>1 DEF Decref
<1> QED BY <1>2, <1>3

\* no count changes
LEMMA DroppedNone ==
  ASSUME Types, UNCHANGED rc PROVE rc' \in [Messages -> Int] /\ Dropped({})
  BY DEF Types, Dropped

\* the mailboxes keep all but their counts
Cores == acb' \in [Actors -> Acb] /\ \A b \in Actors : SameAcb(b)

\* no mailbox changes
LEMMA CoresSame == ASSUME Types, UNCHANGED acb PROVE Cores
  BY CoreRefl DEF Types, Cores, SameAcb

\* a charge is given back
LEMMA CoresRelease ==
  ASSUME Types, NEW a \in Actors, NEW z \in Nat, acb' = [acb EXCEPT ![a] = Release(@, z)]
  PROVE  Cores
<1>1. acb \in [Actors -> Acb] /\ acb[a] \in Acb
  BY DEF Types
<1>2. Release(acb[a], z) \in Acb /\ Core(Release(acb[a], z), acb[a])
  BY <1>1, ReleaseKeeps
<1> QED BY <1>1, <1>2, CoreRefl DEF Cores, SameAcb

\* send_cancel changes nothing but counts
LEMMA CoresCancel ==
  ASSUME Types, NEW s \in Senders, acb' = Cancelled(s, acb)
  PROVE  Cores
<1>1. CASE snd[s].send_to = None
  BY <1>1, CoresSame DEF Cancelled
<1>2. CASE snd[s].send_to # None
  <2>1. snd[s].send_to \in Actors /\ snd[s].charge \in Nat
    BY <1>2, SndType DEF Types
  <2>2. acb' = [acb EXCEPT ![snd[s].send_to] = Release(@, snd[s].charge)]
    BY <1>2 DEF Cancelled
  <2> QED BY <2>1, <2>2, CoresRelease
<1> QED BY <1>1, <1>2

\* a send that is refused at the first look
LEMMA RefusedEffect ==
  ASSUME Types, NEW s \in Senders, NEW a \in Actors, Refused(s, a)
  PROVE  /\ snd[s].pc = "idle" /\ UNCHANGED <<acb, blk, rc, out, sp>>
         /\ snd' \in [Senders -> Snd] /\ Others(s)
         /\ snd'[s] = [snd[s] EXCEPT !.left = snd[s].left - 1]
         /\ snd'[s].left = snd[s].left - 1 /\ snd[s].left > 0
         /\ snd'[s].pc = "idle" /\ snd'[s].m = snd[s].m /\ snd'[s].send_to = snd[s].send_to
         /\ snd'[s].send_root = snd[s].send_root /\ snd'[s].var = snd[s].var
<1>1. snd \in [Senders -> Snd] /\ snd[s] \in Snd
  BY DEF Types
<1>2. PICK x \in Snd : x = snd[s]
  BY <1>1
<1>3. x.left > 0 /\ x.pc = "idle"
  BY <1>2 DEF Refused, Ready
<1>4. PICK k \in Nat : k = x.left - 1
  BY <1>2, <1>3, SndType
<1> DEFINE R == [x EXCEPT !.left = k]
<1>5. R \in Snd /\ R.left = k /\ R.pc = x.pc /\ R.m = x.m /\ R.send_to = x.send_to
      /\ R.send_root = x.send_root /\ R.var = x.var
  BY <1>2 DEF Snd
<1>6. snd' = [snd EXCEPT ![s] = R]
  BY <1>2, <1>4 DEF Refused
<1>7. snd' \in [Senders -> Snd] /\ snd'[s] = R /\ Others(s)
  <2> HIDE DEF R
  <2> QED BY <1>1, <1>5, <1>6 DEF Others
<1>8. UNCHANGED <<acb, blk, rc, out, sp>>
  BY DEF Refused
<1> QED BY <1>2, <1>3, <1>4, <1>5, <1>7, <1>8

\* the message is copied
LEMMA CopyEffect ==
  ASSUME Types, NEW s \in Senders, Copy(s)
  PROVE  /\ snd[s].pc = "copy" /\ UNCHANGED <<acb, blk, rc, out, sp>>
         /\ snd' \in [Senders -> Snd] /\ Others(s)
         /\ snd'[s].pc = "pin" /\ SameSnd(s)
<1>1. snd \in [Senders -> Snd] /\ snd[s] \in Snd
  BY DEF Types
<1>2. PICK x \in Snd : x = snd[s]
  BY <1>1
<1>3. PICK v \in BOOLEAN : v = (x.send_to # None)
  OBVIOUS
<1> DEFINE R == [x EXCEPT !.pc = "pin", !.hold = v]
<1>4. R \in Snd /\ R.pc = "pin"
  BY <1>2 DEF Snd, Steps, Parkable
<1>5. /\ R.var = x.var /\ R.to = x.to /\ R.m = x.m /\ R.charge = x.charge /\ R.c = x.c
      /\ R.send_to = x.send_to /\ R.send_root = x.send_root /\ R.left = x.left
  BY <1>2 DEF Snd
<1>6. snd' = [snd EXCEPT ![s] = R]
  <2>1. snd' = [snd EXCEPT ![s].pc = "pin", ![s].hold = snd[s].send_to # None]
    BY DEF Copy
  <2> QED BY <1>1, <1>2, <1>3, <2>1
<1>7. snd' \in [Senders -> Snd] /\ snd'[s] = R /\ Others(s)
  <2> HIDE DEF R
  <2> QED BY <1>1, <1>4, <1>6 DEF Others
<1>8. UNCHANGED <<acb, blk, rc, out, sp>> /\ snd[s].pc = "copy"
  BY DEF Copy, Ready
<1> HIDE DEF R
<1> QED BY <1>2, <1>4, <1>5, <1>7, <1>8 DEF SameSnd

\* the copy is counted, and recorded for send_cancel
LEMMA PinEffect ==
  ASSUME Types, NEW s \in Senders, Pin(s), snd[s].m \in Messages
  PROVE  /\ snd[s].pc = "pin" /\ UNCHANGED <<acb, blk, out, sp>>
         /\ snd' \in [Senders -> Snd] /\ Others(s)
         /\ snd'[s].pc = IF snd[s].send_to # None THEN "lock" ELSE "check"
         /\ snd'[s].send_root = IF snd[s].send_to # None THEN snd[s].m ELSE snd[s].send_root
         /\ snd'[s].var = snd[s].var /\ snd'[s].to = snd[s].to /\ snd'[s].m = snd[s].m
         /\ snd'[s].charge = snd[s].charge /\ snd'[s].c = snd[s].c
         /\ snd'[s].send_to = snd[s].send_to /\ snd'[s].left = snd[s].left
         /\ rc' \in [Messages -> Int]
         /\ \A m \in Messages : rc'[m] = IF m = snd[s].m THEN rc[m] + 1 ELSE rc[m]
<1>1. snd \in [Senders -> Snd] /\ snd[s] \in Snd /\ rc \in [Messages -> Int]
  BY DEF Types
<1>2. PICK x \in Snd : x = snd[s]
  BY <1>1
<1> DEFINE R == [x EXCEPT !.pc = "lock", !.send_root = x.m, !.hold = FALSE]
           Q == [x EXCEPT !.pc = "check"]
<1>3. R \in Snd /\ R.pc = "lock" /\ R.send_root = x.m /\ Q \in Snd /\ Q.pc = "check"
      /\ Q.send_root = x.send_root
  BY <1>2 DEF Snd, Steps, Parkable
<1>4. /\ R.var = x.var /\ R.to = x.to /\ R.m = x.m /\ R.charge = x.charge /\ R.c = x.c
      /\ R.send_to = x.send_to /\ R.left = x.left
  BY <1>2 DEF Snd
<1>5. /\ Q.var = x.var /\ Q.to = x.to /\ Q.m = x.m /\ Q.charge = x.charge /\ Q.c = x.c
      /\ Q.send_to = x.send_to /\ Q.left = x.left
  BY <1>2 DEF Snd
<1>6. snd' = [snd EXCEPT ![s] = IF x.send_to # None THEN R ELSE Q]
  BY <1>2 DEF Pin
<1>7. /\ snd' \in [Senders -> Snd] /\ snd'[s] = (IF x.send_to # None THEN R ELSE Q)
      /\ Others(s)
  <2> HIDE DEF R, Q
  <2> QED BY <1>1, <1>3, <1>6 DEF Others
<1>8. rc' = [rc EXCEPT ![x.m] = @ + 1] /\ UNCHANGED <<acb, blk, out, sp>> /\ x.pc = "pin"
  BY <1>2 DEF Pin, Ready
<1>9. rc' \in [Messages -> Int]
      /\ \A m \in Messages : rc'[m] = IF m = x.m THEN rc[m] + 1 ELSE rc[m]
  BY <1>1, <1>2, <1>8
<1> HIDE DEF R, Q
<1> QED BY <1>2, <1>3, <1>4, <1>5, <1>7, <1>8, <1>9

\* one lock word changes, or its owner's counts with it
Locked(a, v) ==
  /\ acb' \in [Actors -> Acb] /\ \A b \in Actors : b # a => SameAcb(b)
  /\ acb'[a].var = acb[a].var /\ acb'[a].ch = acb[a].ch /\ acb'[a].bounded = acb[a].bounded
  /\ acb'[a].items = acb[a].items /\ acb'[a].shlock = v
  /\ acb'[a].hand = acb[a].hand /\ acb'[a].rx = acb[a].rx /\ acb'[a].life = acb[a].life

BlkTypes == blk' \in [Blocks -> Blk] /\ \A b \in Blocks : IsFiniteSet(blk'[b].q)
\* the rings of one block hold qs now
Rings(b, qs) ==
  /\ BlkTypes
  /\ \A c \in Blocks : c # b => blk'[c] = blk[c]
  /\ blk'[b].at = blk[b].at /\ blk'[b].q = qs /\ blk'[b].owner = blk[b].owner
  /\ blk'[b].since = blk[b].since

\* the lock word is written
LEMMA LockedSet ==
  ASSUME Types, NEW a \in Actors, NEW v \in Senders \cup {None},
         acb' = [acb EXCEPT ![a].shlock = v]
  PROVE  Locked(a, v)
<1>1. acb \in [Actors -> Acb] /\ acb[a] \in Acb
  BY DEF Types
<1>2. PICK x \in Acb : x = acb[a]
  BY <1>1
<1> DEFINE R == [x EXCEPT !.shlock = v]
<1>3. R \in Acb /\ R.shlock = v
  BY <1>2 DEF Acb
<1>4. /\ R.var = x.var /\ R.ch = x.ch /\ R.bounded = x.bounded /\ R.items = x.items
      /\ R.hand = x.hand /\ R.rx = x.rx /\ R.life = x.life
  BY <1>2 DEF Acb
<1>5. acb' = [acb EXCEPT ![a] = R]
  BY <1>2
<1> HIDE DEF R
<1>6. acb' \in [Actors -> Acb] /\ acb'[a] = R /\ \A b \in Actors : b # a => acb'[b] = acb[b]
  BY <1>1, <1>3, <1>5
<1> QED BY <1>2, <1>3, <1>4, <1>6, CoreRefl DEF Locked, SameAcb

\* the lock is dropped and a charge given back
LEMMA LockedReleased ==
  ASSUME Types, NEW a \in Actors, NEW v \in Senders \cup {None}, NEW z \in Nat,
         acb' = [[acb EXCEPT ![a].shlock = v] EXCEPT ![a] = Release(@, z)]
  PROVE  Locked(a, v)
<1>1. acb \in [Actors -> Acb] /\ acb[a] \in Acb
  BY DEF Types
<1>2. PICK x \in Acb : x = acb[a]
  BY <1>1
<1> DEFINE R == [x EXCEPT !.shlock = v]
<1>3. R \in Acb /\ R.shlock = v
  BY <1>2 DEF Acb
<1>4. /\ R.var = x.var /\ R.ch = x.ch /\ R.bounded = x.bounded /\ R.items = x.items
      /\ R.hand = x.hand /\ R.rx = x.rx /\ R.life = x.life
  BY <1>2 DEF Acb
<1>5. PICK u : u = [acb EXCEPT ![a].shlock = v]
  OBVIOUS
<1>6. u = [acb EXCEPT ![a] = R]
  BY <1>2, <1>5
<1> HIDE DEF R
<1>7. u \in [Actors -> Acb] /\ u[a] = R /\ \A b \in Actors : b # a => u[b] = acb[b]
  BY <1>1, <1>3, <1>6
<1>8. acb' = [u EXCEPT ![a] = Release(u[a], z)]
  BY <1>5
<1>9. Release(R, z) \in Acb /\ Core(Release(R, z), R)
  BY <1>3, ReleaseKeeps
<1>10. PICK y \in Acb : y = Release(R, z)
  BY <1>9
<1>11. acb' \in [Actors -> Acb] /\ acb'[a] = y /\ \A b \in Actors : b # a => acb'[b] = acb[b]
  BY <1>7, <1>8, <1>10
<1>12. Core(y, R)
  BY <1>9, <1>10
<1> QED BY <1>2, <1>3, <1>4, <1>11, <1>12, CoreRefl DEF Locked, SameAcb, Core

\* a block's rings are written
LEMMA RingsSet ==
  ASSUME Types, NEW b \in Blocks, NEW qs, qs \subseteq Entry, IsFiniteSet(qs),
         blk' = [blk EXCEPT ![b].q = qs]
  PROVE  Rings(b, qs)
<1>1. blk \in [Blocks -> Blk] /\ blk[b] \in Blk /\ \A c \in Blocks : IsFiniteSet(blk[c].q)
  BY DEF Types
<1>2. PICK x \in Blk : x = blk[b]
  BY <1>1
<1> DEFINE R == [x EXCEPT !.q = qs]
<1>3. R \in Blk /\ R.q = qs /\ R.at = x.at /\ R.owner = x.owner /\ R.since = x.since
  BY <1>2 DEF Blk
<1>4. blk' = [blk EXCEPT ![b] = R]
  BY <1>2
<1> HIDE DEF R
<1>5. blk' \in [Blocks -> Blk] /\ blk'[b] = R /\ \A c \in Blocks : c # b => blk'[c] = blk[c]
  BY <1>1, <1>3, <1>4
<1> QED BY <1>1, <1>2, <1>3, <1>5 DEF Rings, BlkTypes

\* a send is given up
LEMMA GiveUpEffect ==
  ASSUME Types, NEW s \in Senders, GiveUp(s)
  PROVE  /\ rc' \in [Messages -> Int] /\ Dropped({snd[s].m})
         /\ snd' \in [Senders -> Snd] /\ Others(s) /\ Idled(s)
  BY DecrefIs, IdleSet DEF GiveUp

\* the death check under shlock
LEMMA LockEffect ==
  ASSUME Types, NEW s \in Senders, Lock(s), snd[s].to \in Actors
  PROVE  /\ snd[s].pc = "lock" /\ UNCHANGED <<blk, out, sp>> /\ acb[snd[s].to].shlock = None
         /\ snd' \in [Senders -> Snd] /\ Others(s) /\ rc' \in [Messages -> Int]
         /\ \/ acb[snd[s].to].var = "DEAD" /\ Cores /\ Idled(s) /\ Dropped(CancelRoots(s))
               /\ acb' = Cancelled(s, acb)
            \/ acb[snd[s].to].var # "DEAD" /\ Locked(snd[s].to, s) /\ UNCHANGED rc
               /\ snd'[s].pc = "publish" /\ SameSnd(s)
               /\ acb' = [acb EXCEPT ![snd[s].to].shlock = s]
<1>1. snd[s].pc = "lock" /\ UNCHANGED <<blk, out, sp>> /\ acb[snd[s].to].shlock = None
  BY DEF Lock, Ready
<1>2. CASE acb[snd[s].to].var = "DEAD"
  <2>1. /\ acb' = Cancelled(s, acb) /\ rc' = Decref(CancelRoots(s))
        /\ snd' = [snd EXCEPT ![s] = Idle(@)]
    BY <1>2 DEF Lock
  <2> QED BY <1>1, <1>2, <2>1, CoresCancel, IdleSet, DecrefIs
<1>3. CASE acb[snd[s].to].var # "DEAD"
  <2>1. /\ acb' = [acb EXCEPT ![snd[s].to].shlock = s] /\ UNCHANGED rc
        /\ snd' = [snd EXCEPT ![s].pc = "publish"]
    BY <1>3 DEF Lock
  <2>2. "publish" \in Steps
    BY DEF Steps
  <2> QED BY <1>1, <1>3, <2>1, <2>2, LockedSet, PcSet, DroppedNone
<1> QED BY <1>2, <1>3

\* the ring entry of a sender's message
LEMMA MailIs ==
  ASSUME Types, NEW s \in Senders, snd[s].to \in Actors, snd[s].m \in Messages
  PROVE  Mail(s) \in Entry /\ Mail(s).m = snd[s].m /\ Mail(s).to = snd[s].to
         /\ Mail(s).charge = snd[s].charge
<1>1. snd[s].charge \in Nat
  BY SndType DEF Types
<1> QED BY <1>1 DEF Mail, Entry

\* an entry goes into a block's rings
LEMMA RingsAdd ==
  ASSUME Types, NEW b \in Blocks, NEW e \in Entry, blk' = [blk EXCEPT ![b].q = @ \cup {e}]
  PROVE  Rings(b, blk[b].q \cup {e})
<1>1. IsFiniteSet(blk[b].q) /\ blk[b].q \subseteq Entry
  BY BlkType DEF Types
<1>2. IsFiniteSet(blk[b].q \cup {e}) /\ blk[b].q \cup {e} \subseteq Entry
  BY <1>1, FS_AddElement
<1> QED BY <1>2, RingsSet

\* the rest of the section under shlock
LEMMA PublishEffect ==
  ASSUME Types, NEW s \in Senders, Publish(s), NEW a \in Actors, snd[s].to = a,
         snd[s].m \in Messages, snd[s].send_to = a, NEW b \in Blocks, acb[a].ch = b
  PROVE  /\ snd[s].pc = "publish" /\ UNCHANGED <<out, sp>>
         /\ snd' \in [Senders -> Snd] /\ Others(s) /\ rc' \in [Messages -> Int]
         /\ Locked(a, None) /\ Idled(s)
         /\ \/ Rings(b, blk[b].q \cup {Mail(s)}) /\ UNCHANGED rc
               /\ acb' = [acb EXCEPT ![a].shlock = None]
            \/ UNCHANGED blk /\ Dropped(CancelRoots(s))
               /\ acb' = Cancelled(s, [acb EXCEPT ![a].shlock = None])
<1>1. snd[s].pc = "publish" /\ UNCHANGED <<out, sp>> /\ snd' = [snd EXCEPT ![s] = Idle(@)]
  BY DEF Publish, Ready
<1>2. snd' \in [Senders -> Snd] /\ Others(s) /\ Idled(s)
  BY <1>1, IdleSet
<1>3. CASE Room(s, b)
  <2>1. /\ blk' = [blk EXCEPT ![b].q = @ \cup {Mail(s)}] /\ UNCHANGED rc
        /\ acb' = [acb EXCEPT ![a].shlock = None]
    BY <1>3 DEF Publish
  <2>2. Locked(a, None)
    BY <2>1, LockedSet
  <2>3. Rings(b, blk[b].q \cup {Mail(s)})
    <3>1. PICK e \in Entry : e = Mail(s)
      BY MailIs
    <3> QED BY <2>1, <3>1, RingsAdd
  <2> QED BY <1>1, <1>2, <2>1, <2>2, <2>3, DroppedNone
<1>4. CASE ~Room(s, b)
  <2>1. /\ acb' = Cancelled(s, [acb EXCEPT ![a].shlock = None]) /\ UNCHANGED blk
        /\ rc' = Decref(CancelRoots(s))
    BY <1>4 DEF Publish
  <2>2. snd[s].charge \in Nat /\ None # a
    BY SndType, Const DEF Types
  <2>3. acb' = [[acb EXCEPT ![a].shlock = None] EXCEPT ![a] = Release(@, snd[s].charge)]
    BY <2>1, <2>2 DEF Cancelled
  <2>4. Locked(a, None)
    BY <2>2, <2>3, LockedReleased
  <2> QED BY <1>1, <1>2, <2>1, <2>4, DecrefIs
<1> QED BY <1>3, <1>4

\* the blocks keep all but a capacity
SameBlks == BlkTypes /\ \A b \in Blocks : SameBlk(b)

\* no block changes
LEMMA SameBlksUnchanged == ASSUME Types, UNCHANGED blk PROVE SameBlks
  BY DEF Types, SameBlks, BlkTypes, SameBlk

\* the death check of a send without a limit
LEMMA CheckEffect ==
  ASSUME Types, NEW s \in Senders, Check(s)
  PROVE  /\ snd[s].pc = "check" /\ UNCHANGED <<acb, blk, out, sp>>
         /\ snd' \in [Senders -> Snd] /\ Others(s) /\ rc' \in [Messages -> Int]
         /\ \/ Idled(s) /\ Dropped({snd[s].m})
            \/ snd'[s].pc = "resolve" /\ SameSnd(s) /\ UNCHANGED rc
<1>1. snd[s].pc = "check" /\ UNCHANGED <<acb, blk, out, sp>>
  BY DEF Check, Ready
<1>2. CASE GiveUp(s)
  BY <1>1, <1>2, GiveUpEffect
<1>3. CASE snd' = [snd EXCEPT ![s].pc = "resolve"] /\ UNCHANGED rc
  <2>1. "resolve" \in Steps
    BY DEF Steps
  <2> QED BY <1>1, <1>3, <2>1, PcSet, DroppedNone
<1> QED BY <1>2, <1>3 DEF Check

\* chan_for reads the block
LEMMA ResolveEffect ==
  ASSUME Types, NEW s \in Senders, Resolve(s), snd[s].to \in Actors
  PROVE  /\ snd[s].pc = "resolve" /\ UNCHANGED <<acb, blk, rc, out, sp>>
         /\ snd' \in [Senders -> Snd] /\ Others(s)
         /\ acb[snd[s].to].ch \in Blocks
         /\ snd'[s].pc = "push" /\ snd'[s].c = acb[snd[s].to].ch
         /\ snd'[s].var = snd[s].var /\ snd'[s].to = snd[s].to /\ snd'[s].m = snd[s].m
         /\ snd'[s].charge = snd[s].charge
         /\ snd'[s].send_to = snd[s].send_to /\ snd'[s].send_root = snd[s].send_root
         /\ snd'[s].left = snd[s].left
<1>1. snd \in [Senders -> Snd] /\ snd[s] \in Snd /\ acb[snd[s].to] \in Acb
  BY DEF Types
<1>2. PICK x \in Snd : x = snd[s]
  BY <1>1
<1>3. acb[snd[s].to].ch \in Blocks /\ snd[s].pc = "resolve"
  BY <1>1, AcbType DEF Resolve, Ready
<1>4. PICK b \in Blocks : b = acb[snd[s].to].ch
  BY <1>3
<1> DEFINE R == [x EXCEPT !.pc = "push", !.c = b]
<1>5. R \in Snd /\ R.pc = "push" /\ R.c = b
  BY <1>2 DEF Snd, Steps
<1>6. /\ R.var = x.var /\ R.to = x.to /\ R.m = x.m /\ R.charge = x.charge
      /\ R.send_to = x.send_to /\ R.send_root = x.send_root /\ R.left = x.left
  BY <1>2 DEF Snd
<1>7. snd' = [snd EXCEPT ![s] = R]
  <2>1. snd' = [snd EXCEPT ![s].pc = "push", ![s].c = b]
    BY <1>4 DEF Resolve
  <2> QED BY <1>1, <1>2, <2>1
<1> HIDE DEF R
<1>8. snd' \in [Senders -> Snd] /\ snd'[s] = R /\ Others(s)
  BY <1>1, <1>5, <1>7 DEF Others
<1>9. UNCHANGED <<acb, blk, rc, out, sp>>
  BY DEF Resolve
<1> QED BY <1>2, <1>3, <1>4, <1>5, <1>6, <1>8, <1>9

\* the block pointer was nil
LEMMA FaultEffect ==
  ASSUME Types, NEW s \in Senders, Fault(s)
  PROVE  /\ snd[s].pc \in {"resolve", "publish"} /\ acb[snd[s].to].ch = None
         /\ UNCHANGED <<acb, blk, rc, out, sp>>
         /\ snd' \in [Senders -> Snd] /\ Others(s) /\ snd'[s].pc = "fault" /\ SameSnd(s)
<1>1. /\ snd[s].pc \in {"resolve", "publish"} /\ acb[snd[s].to].ch = None
      /\ UNCHANGED <<acb, blk, rc, out, sp>> /\ snd' = [snd EXCEPT ![s].pc = "fault"]
  BY DEF Fault
<1>2. "fault" \in Steps
  BY DEF Steps
<1> QED BY <1>1, <1>2, PcSet

\* ring_push looks at the ring
LEMMA PushLookEffect ==
  ASSUME Types, NEW s \in Senders, PushLook(s)
  PROVE  /\ snd[s].pc = "push" /\ UNCHANGED <<acb, blk, out, sp>>
         /\ snd' \in [Senders -> Snd] /\ Others(s) /\ rc' \in [Messages -> Int]
         /\ \/ Idled(s) /\ Dropped({snd[s].m})
            \/ /\ snd'[s].pc \in {"write", "grow"} /\ SameSnd(s) /\ UNCHANGED rc
               /\ acb[snd[s].to].var # "DEAD"
<1>1. snd[s].pc = "push" /\ UNCHANGED <<acb, blk, out, sp>>
  BY DEF PushLook, Ready
<1>2. \/ GiveUp(s)
      \/ /\ acb[snd[s].to].var # "DEAD" /\ UNCHANGED rc
         /\ \/ snd' = [snd EXCEPT ![s].pc = "write"]
            \/ snd' = [snd EXCEPT ![s].pc = "grow"]
  BY DEF PushLook
<1>3. "write" \in Steps /\ "grow" \in Steps
  BY DEF Steps, Parkable
<1>4. CASE GiveUp(s)
  BY <1>1, <1>4, GiveUpEffect
<1>5. CASE snd' = [snd EXCEPT ![s].pc = "write"] /\ UNCHANGED rc /\ acb[snd[s].to].var # "DEAD"
  BY <1>1, <1>3, <1>5, PcSet, DroppedNone
<1>6. CASE snd' = [snd EXCEPT ![s].pc = "grow"] /\ UNCHANGED rc /\ acb[snd[s].to].var # "DEAD"
  BY <1>1, <1>3, <1>6, PcSet, DroppedNone
<1> QED BY <1>2, <1>4, <1>5, <1>6

\* the entry is written, with no lock against the reaper
LEMMA WriteEffect ==
  ASSUME Types, NEW s \in Senders, Write(s), snd[s].to \in Actors, snd[s].m \in Messages,
         snd[s].c \in Blocks
  PROVE  /\ snd[s].pc = "write" /\ UNCHANGED <<acb, rc, out, sp>>
         /\ snd' \in [Senders -> Snd] /\ Others(s) /\ Idled(s)
         /\ Rings(snd[s].c, blk[snd[s].c].q \cup {Mail(s)})
<1>1. PICK e \in Entry : e = Mail(s)
  BY MailIs
<1>2. blk' = [blk EXCEPT ![snd[s].c].q = @ \cup {e}]
  BY <1>1 DEF Write
<1>3. Rings(snd[s].c, blk[snd[s].c].q \cup {e})
  BY <1>2, RingsAdd
<1>4. /\ snd[s].pc = "write" /\ UNCHANGED <<acb, rc, out, sp>>
      /\ snd' = [snd EXCEPT ![s] = Idle(@)]
  BY DEF Write, Ready
<1> QED BY <1>1, <1>3, <1>4, IdleSet

\* a ring's capacity doubles
LEMMA CapSet ==
  ASSUME Types, NEW b \in Blocks, NEW s \in Senders, blk' = [blk EXCEPT ![b].cap[s] = 2 * @]
  PROVE  SameBlks
<1>1. blk \in [Blocks -> Blk] /\ blk[b] \in Blk /\ \A c \in Blocks : IsFiniteSet(blk[c].q)
  BY DEF Types
<1>2. PICK x \in Blk : x = blk[b]
  BY <1>1
<1>3. PICK k \in Nat : k = 2 * x.cap[s]
  BY <1>2, BlkType
<1>4. PICK f \in [Senders -> Nat] : f = [x.cap EXCEPT ![s] = k]
  BY <1>2, <1>3, BlkType
<1> DEFINE R == [x EXCEPT !.cap = f]
<1>5. R \in Blk /\ R.q = x.q /\ R.at = x.at /\ R.owner = x.owner /\ R.since = x.since
  BY <1>2 DEF Blk
<1>6. blk' = [blk EXCEPT ![b] = R]
  BY <1>2, <1>3, <1>4
<1> HIDE DEF R
<1>7. blk' \in [Blocks -> Blk] /\ blk'[b] = R /\ \A c \in Blocks : c # b => blk'[c] = blk[c]
  BY <1>1, <1>5, <1>6
<1> QED BY <1>1, <1>2, <1>5, <1>7 DEF SameBlks, SameBlk, BlkTypes

\* the grown block came, or was denied
LEMMA GrowEffect ==
  ASSUME Types, NEW s \in Senders, Grow(s), snd[s].c \in Blocks
  PROVE  /\ snd[s].pc = "grow" /\ UNCHANGED <<acb, out, sp>>
         /\ snd' \in [Senders -> Snd] /\ Others(s) /\ rc' \in [Messages -> Int] /\ SameBlks
         /\ \/ Idled(s) /\ Dropped({snd[s].m})
            \/ snd'[s].pc = "push" /\ SameSnd(s) /\ UNCHANGED rc
<1>1. snd[s].pc = "grow" /\ UNCHANGED <<acb, out, sp>>
  BY DEF Grow, Ready
<1>2. CASE GiveUp(s) /\ UNCHANGED blk
  BY <1>1, <1>2, GiveUpEffect, SameBlksUnchanged
<1>3. CASE /\ blk' = [blk EXCEPT ![snd[s].c].cap[s] = 2 * @]
           /\ snd' = [snd EXCEPT ![s].pc = "push"] /\ UNCHANGED rc
  <2>1. "push" \in Steps
    BY DEF Steps
  <2>2. SameBlks
    BY <1>3, CapSet
  <2> QED BY <1>1, <1>3, <2>1, <2>2, PcSet, DroppedNone
<1> QED BY <1>2, <1>3 DEF Grow

\* a sender is killed
LEMMA KillSenderEffect ==
  ASSUME Types, NEW s \in Senders, KillSender(s)
  PROVE  /\ UNCHANGED <<acb, blk, rc, out, sp>>
         /\ snd' \in [Senders -> Snd] /\ Others(s)
         /\ snd'[s].var = "DEAD" /\ snd[s].var = "READY"
         /\ snd'[s].pc = snd[s].pc /\ snd'[s].to = snd[s].to /\ snd'[s].m = snd[s].m
         /\ snd'[s].charge = snd[s].charge /\ snd'[s].c = snd[s].c
         /\ snd'[s].send_to = snd[s].send_to /\ snd'[s].send_root = snd[s].send_root
         /\ snd'[s].left = snd[s].left
<1>1. snd \in [Senders -> Snd] /\ snd[s] \in Snd
  BY DEF Types
<1>2. PICK x \in Snd : x = snd[s]
  BY <1>1
<1> DEFINE R == [x EXCEPT !.var = "DEAD"]
<1>3. R \in Snd /\ R.var = "DEAD"
  BY <1>2 DEF Snd
<1>4. /\ R.pc = x.pc /\ R.to = x.to /\ R.m = x.m /\ R.charge = x.charge /\ R.c = x.c
      /\ R.send_to = x.send_to /\ R.send_root = x.send_root /\ R.left = x.left
  BY <1>2 DEF Snd
<1>5. snd' = [snd EXCEPT ![s] = R] /\ UNCHANGED <<acb, blk, rc, out, sp>> /\ x.var = "READY"
  BY <1>2 DEF KillSender
<1> HIDE DEF R
<1>6. snd' \in [Senders -> Snd] /\ snd'[s] = R /\ Others(s)
  BY <1>1, <1>3, <1>5 DEF Others
<1> QED BY <1>2, <1>3, <1>4, <1>5, <1>6

\* a dead sender's send is cancelled
LEMMA ReapSenderEffect ==
  ASSUME Types, NEW s \in Senders, ReapSender(s)
  PROVE  /\ snd[s].pc \in Parkable /\ snd[s].var = "DEAD" /\ UNCHANGED <<blk, out, sp>>
         /\ Cores /\ acb' = Cancelled(s, acb)
         /\ rc' \in [Messages -> Int] /\ Dropped(CancelRoots(s))
         /\ snd' \in [Senders -> Snd] /\ Others(s)
         /\ snd'[s].pc = "gone" /\ snd'[s].send_to = None /\ snd'[s].send_root = None
         /\ snd'[s].m = IF snd[s].pc = "grow" THEN snd[s].m ELSE None
         /\ snd'[s].var = "DEAD" /\ snd'[s].left = snd[s].left
<1>1. snd \in [Senders -> Snd] /\ snd[s] \in Snd
  BY DEF Types
<1>2. PICK x \in Snd : x = snd[s]
  BY <1>1
<1>3. PICK n \in Messages \cup {None} : n = IF x.pc = "grow" THEN x.m ELSE None
  BY <1>2, SndType
<1> DEFINE R == [x EXCEPT !.pc = "gone", !.send_to = None, !.send_root = None,
                          !.hold = FALSE, !.m = n]
<1>4. R \in Snd
  BY <1>2 DEF Snd, Steps
<1>5. R.pc = "gone" /\ R.send_to = None /\ R.send_root = None /\ R.m = n
      /\ R.var = x.var /\ R.left = x.left
  BY <1>2 DEF Snd
<1>6. snd' = [snd EXCEPT ![s] = R]
  <2>1. snd' = [snd EXCEPT ![s].pc = "gone", ![s].send_to = None, ![s].send_root = None,
                           ![s].hold = FALSE, ![s].m = IF snd[s].pc = "grow" THEN @ ELSE None]
    BY DEF ReapSender
  <2> QED BY <1>1, <1>2, <1>3, <2>1
<1> HIDE DEF R
<1>7. snd' \in [Senders -> Snd] /\ snd'[s] = R /\ Others(s)
  BY <1>1, <1>4, <1>6 DEF Others
<1>8. /\ x.pc \in Parkable /\ x.var = "DEAD" /\ UNCHANGED <<blk, out, sp>>
      /\ acb' = Cancelled(s, acb) /\ rc' = Decref(CancelRoots(s))
  BY <1>2 DEF ReapSender
<1>9. Cores /\ rc' \in [Messages -> Int] /\ Dropped(CancelRoots(s))
  BY <1>8, CoresCancel, DecrefIs
<1> QED BY <1>2, <1>3, <1>5, <1>7, <1>8, <1>9

-----------------------------------------------------------------------------
\* What each step of a receiver and of its reaper changes.

\* only mailbox a changes, and it keeps its account's limit and its lock word
Only(a) ==
  /\ acb' \in [Actors -> Acb] /\ \A b \in Actors : b # a => SameAcb(b)
  /\ acb'[a].bounded = acb[a].bounded /\ acb'[a].shlock = acb[a].shlock

\* one mailbox's record is written
LEMMA OnlySet ==
  ASSUME Types, NEW a \in Actors, NEW x \in Acb, acb' = [acb EXCEPT ![a] = x],
         x.bounded = acb[a].bounded, x.shlock = acb[a].shlock
  PROVE  Only(a) /\ acb'[a] = x
<1>1. acb \in [Actors -> Acb]
  BY DEF Types
<1> QED BY <1>1, CoreRefl DEF Only, SameAcb

\* an entry leaves a block's rings
LEMMA RingsMinus ==
  ASSUME Types, NEW b \in Blocks, NEW e, blk' = [blk EXCEPT ![b].q = @ \ {e}]
  PROVE  Rings(b, blk[b].q \ {e})
<1>1. IsFiniteSet(blk[b].q) /\ blk[b].q \subseteq Entry
  BY BlkType DEF Types
<1>2. IsFiniteSet(blk[b].q \ {e}) /\ blk[b].q \ {e} \subseteq Entry
  BY <1>1, FS_Subset
<1> QED BY <1>2, RingsSet

\* a receive takes an entry out
LEMMA TakeEffect ==
  ASSUME Types, NEW a \in Actors, NEW b \in Blocks, acb[a].ch = b, NEW e, Take(a, e)
  PROVE  /\ acb[a].var = "READY" /\ acb[a].hand = NoEntry /\ e \in blk[b].q /\ e \in Entry
         /\ UNCHANGED <<snd, rc, out, sp>> /\ Rings(b, blk[b].q \ {e})
         /\ Only(a) /\ acb'[a].hand = e
         /\ acb'[a].messages = acb[a].messages /\ acb'[a].bytes = acb[a].bytes
         /\ acb'[a].var = acb[a].var /\ acb'[a].ch = b /\ acb'[a].items = acb[a].items
         /\ acb'[a].rx = acb[a].rx /\ acb'[a].life = acb[a].life
<1>1. /\ acb[a].var = "READY" /\ acb[a].hand = NoEntry /\ e \in blk[b].q
      /\ UNCHANGED <<snd, rc, out, sp>> /\ acb' = [acb EXCEPT ![a].hand = e]
      /\ blk' = [blk EXCEPT ![b].q = @ \ {e}]
  BY DEF Take
<1>2. acb[a] \in Acb /\ blk[b].q \subseteq Entry
  BY BlkType DEF Types
<1>3. PICK x \in Acb : x = acb[a]
  BY <1>2
<1>4. e \in Entry
  BY <1>1, <1>2
<1> DEFINE R == [x EXCEPT !.hand = e]
<1>5. R \in Acb /\ R.hand = e
  BY <1>3, <1>4 DEF Acb
<1>6. /\ R.var = x.var /\ R.ch = x.ch /\ R.bounded = x.bounded /\ R.items = x.items
      /\ R.messages = x.messages /\ R.bytes = x.bytes
      /\ R.shlock = x.shlock /\ R.rx = x.rx /\ R.life = x.life
  BY <1>3 DEF Acb
<1>7. acb' = [acb EXCEPT ![a] = R]
  BY <1>1, <1>3
<1> HIDE DEF R
<1>8. Only(a) /\ acb'[a] = R
  BY <1>3, <1>5, <1>6, <1>7, OnlySet
<1>9. Rings(b, blk[b].q \ {e})
  BY <1>1, RingsMinus
<1> QED BY <1>1, <1>3, <1>4, <1>5, <1>6, <1>8, <1>9

\* and gives its charge back
LEMMA TakenEffect ==
  ASSUME Types, NEW a \in Actors, Taken(a)
  PROVE  /\ acb[a].hand \in Entry /\ acb[a].hand # NoEntry
              /\ UNCHANGED <<blk, snd, rc, out, sp>>
         /\ Only(a) /\ acb'[a].hand = NoEntry /\ acb'[a].rx = acb[a].rx \cup {acb[a].hand.m}
         /\ acb'[a].var = acb[a].var /\ acb'[a].ch = acb[a].ch
         /\ acb'[a].items = acb[a].items /\ acb'[a].life = acb[a].life
         /\ acb'[a].messages = Release(acb[a], acb[a].hand.charge).messages
         /\ acb'[a].bytes = Release(acb[a], acb[a].hand.charge).bytes
<1>1. acb[a] \in Acb /\ acb[a].hand # NoEntry /\ UNCHANGED <<blk, snd, rc, out, sp>>
  BY DEF Types, Taken
<1>2. PICK x \in Acb : x = acb[a]
  BY <1>1
<1>3. PICK e \in Entry : e = x.hand
  BY <1>1, <1>2, AcbType
<1>4. e.m \in Messages /\ e.charge \in Nat
  BY DEF Entry
<1>5. PICK y \in Acb : y = Release(x, e.charge) /\ Core(y, x)
  BY <1>4, ReleaseKeeps
<1>6. PICK S : S = x.rx \cup {e.m}
  OBVIOUS
<1>7. S \subseteq Messages
  BY <1>4, <1>6, AcbType
<1> DEFINE R == [y EXCEPT !.hand = NoEntry, !.rx = S]
<1>8. R \in Acb /\ R.hand = NoEntry /\ R.rx = S
  BY <1>5, <1>7 DEF Acb
<1>9. /\ R.var = y.var /\ R.ch = y.ch /\ R.bounded = y.bounded /\ R.items = y.items
      /\ R.messages = y.messages /\ R.bytes = y.bytes
      /\ R.shlock = y.shlock /\ R.life = y.life
  BY <1>5 DEF Acb
<1>10. acb' = [acb EXCEPT ![a] = R]
  <2>1. acb' = [acb EXCEPT ![a] = [Release(acb[a], acb[a].hand.charge) EXCEPT
                     !.hand = NoEntry, !.rx = acb[a].rx \cup {acb[a].hand.m}]]
    BY DEF Taken
  <2> QED BY <1>2, <1>3, <1>5, <1>6, <2>1
<1> HIDE DEF R
<1>11. /\ y.var = x.var /\ y.ch = x.ch /\ y.bounded = x.bounded /\ y.items = x.items
       /\ y.shlock = x.shlock /\ y.life = x.life
  BY <1>5 DEF Core
<1>12. Only(a) /\ acb'[a] = R
  BY <1>2, <1>8, <1>9, <1>10, <1>11, OnlySet
<1> QED BY <1>1, <1>2, <1>3, <1>5, <1>6, <1>8, <1>9, <1>11, <1>12

\* the turn drops what it received
LEMMA EndTurnEffect ==
  ASSUME Types, NEW a \in Actors, EndTurn(a)
  PROVE  /\ acb[a].var = "READY" /\ acb[a].hand = NoEntry /\ acb[a].rx # {}
         /\ UNCHANGED <<blk, snd, out, sp>> /\ rc' \in [Messages -> Int] /\ Dropped(acb[a].rx)
         /\ Only(a) /\ acb'[a].rx = {} /\ acb'[a].hand = acb[a].hand
         /\ acb'[a].var = acb[a].var /\ acb'[a].ch = acb[a].ch
         /\ acb'[a].items = acb[a].items /\ acb'[a].life = acb[a].life
         /\ acb'[a].messages = acb[a].messages /\ acb'[a].bytes = acb[a].bytes
<1>1. /\ acb[a].var = "READY" /\ acb[a].hand = NoEntry /\ acb[a].rx # {}
      /\ UNCHANGED <<blk, snd, out, sp>> /\ acb' = [acb EXCEPT ![a].rx = {}]
      /\ rc' = Decref(acb[a].rx)
  BY DEF EndTurn
<1>2. PICK x \in Acb : x = acb[a]
  BY DEF Types
<1> DEFINE R == [x EXCEPT !.rx = {}]
<1>3. R \in Acb /\ R.rx = {}
  BY <1>2 DEF Acb
<1>4. /\ R.var = x.var /\ R.ch = x.ch /\ R.bounded = x.bounded /\ R.items = x.items
      /\ R.messages = x.messages /\ R.bytes = x.bytes
      /\ R.shlock = x.shlock /\ R.hand = x.hand /\ R.life = x.life
  BY <1>2 DEF Acb
<1>5. acb' = [acb EXCEPT ![a] = R]
  BY <1>1, <1>2
<1> HIDE DEF R
<1>6. Only(a) /\ acb'[a] = R
  BY <1>2, <1>3, <1>4, <1>5, OnlySet
<1> QED BY <1>1, <1>2, <1>3, <1>4, <1>6, DecrefIs

\* an actor is killed
LEMMA KillEffect ==
  ASSUME Types, NEW a \in Actors, Kill(a)
  PROVE  /\ acb[a].var = "READY" /\ UNCHANGED <<blk, snd, rc, out, sp>>
         /\ Only(a) /\ acb'[a].var = "DEAD" /\ acb'[a].ch = acb[a].ch
         /\ acb'[a].items = acb[a].items /\ acb'[a].life = acb[a].life
         /\ acb'[a].hand = acb[a].hand /\ acb'[a].rx = acb[a].rx
         /\ acb'[a].messages = acb[a].messages /\ acb'[a].bytes = acb[a].bytes
<1>1. /\ acb[a].var = "READY"
      /\ UNCHANGED <<blk, snd, rc, out, sp>> /\ acb' = [acb EXCEPT ![a].var = "DEAD"]
  BY DEF Kill
<1>2. PICK x \in Acb : x = acb[a]
  BY DEF Types
<1> DEFINE R == [x EXCEPT !.var = "DEAD"]
<1>3. R \in Acb /\ R.var = "DEAD"
  BY <1>2 DEF Acb
<1>4. /\ R.rx = x.rx /\ R.ch = x.ch /\ R.bounded = x.bounded /\ R.items = x.items
      /\ R.messages = x.messages /\ R.bytes = x.bytes
      /\ R.shlock = x.shlock /\ R.hand = x.hand /\ R.life = x.life
  BY <1>2 DEF Acb
<1>5. acb' = [acb EXCEPT ![a] = R]
  BY <1>1, <1>2
<1> HIDE DEF R
<1>6. Only(a) /\ acb'[a] = R
  BY <1>2, <1>3, <1>4, <1>5, OnlySet
<1> QED BY <1>1, <1>2, <1>3, <1>4, <1>6

\* only its life moves on
LEMMA LifeSet ==
  ASSUME Types, NEW a \in Actors, NEW v \in Lives, acb' = [acb EXCEPT ![a].life = v]
  PROVE  /\ Only(a) /\ acb'[a].life = v /\ acb'[a].var = acb[a].var /\ acb'[a].ch = acb[a].ch
         /\ acb'[a].items = acb[a].items
         /\ acb'[a].hand = acb[a].hand /\ acb'[a].rx = acb[a].rx
         /\ acb'[a].messages = acb[a].messages /\ acb'[a].bytes = acb[a].bytes
<1>2. PICK x \in Acb : x = acb[a]
  BY DEF Types
<1> DEFINE R == [x EXCEPT !.life = v]
<1>3. R \in Acb /\ R.life = v
  BY <1>2 DEF Acb
<1>4. /\ R.rx = x.rx /\ R.ch = x.ch /\ R.bounded = x.bounded /\ R.items = x.items
      /\ R.messages = x.messages /\ R.bytes = x.bytes
      /\ R.shlock = x.shlock /\ R.hand = x.hand /\ R.var = x.var
  BY <1>2 DEF Acb
<1>5. acb' = [acb EXCEPT ![a] = R]
  BY <1>2
<1> HIDE DEF R
<1>6. Only(a) /\ acb'[a] = R
  BY <1>2, <1>3, <1>4, <1>5, OnlySet
<1> QED BY <1>2, <1>3, <1>4, <1>6

\* reap claims a dead actor
LEMMA ClaimEffect ==
  ASSUME Types, NEW a \in Actors, Claim(a)
  PROVE  /\ acb[a].var = "DEAD" /\ acb[a].life = "built" /\ acb[a].hand = NoEntry
         /\ UNCHANGED <<blk, snd, rc, out, sp>>
         /\ Only(a) /\ acb'[a].life = "claimed" /\ acb'[a].var = acb[a].var
         /\ acb'[a].ch = acb[a].ch /\ acb'[a].items = acb[a].items
         /\ acb'[a].hand = acb[a].hand /\ acb'[a].rx = acb[a].rx
         /\ acb'[a].messages = acb[a].messages /\ acb'[a].bytes = acb[a].bytes
<1>1. /\ acb[a].var = "DEAD" /\ acb[a].life = "built" /\ acb[a].hand = NoEntry
      /\ UNCHANGED <<blk, snd, rc, out, sp>> /\ acb' = [acb EXCEPT ![a].life = "claimed"]
  BY DEF Claim
<1>2. "claimed" \in Lives
  BY DEF Lives
<1> QED BY <1>1, <1>2, LifeSet

\* its block goes to limbo
LEMMA LimboEffect ==
  ASSUME Types, NEW a \in Actors, Limbo(a), NEW b \in Blocks, acb[a].ch = b
  PROVE  /\ acb[a].life = "drained" /\ UNCHANGED <<snd, rc, out, sp>>
         /\ Only(a) /\ acb'[a].life = "limbo" /\ acb'[a].var = acb[a].var
         /\ acb'[a].ch = acb[a].ch /\ acb'[a].items = acb[a].items
         /\ acb'[a].hand = acb[a].hand /\ acb'[a].rx = acb[a].rx
         /\ acb'[a].messages = acb[a].messages /\ acb'[a].bytes = acb[a].bytes
         /\ BlkTypes /\ \A c \in Blocks : c # b => blk'[c] = blk[c]
         /\ blk'[b].at = "limbo" /\ blk'[b].q = blk[b].q /\ blk'[b].owner = blk[b].owner
         /\ \A h \in Harts : blk'[b].since[h] = 0
<1>1. /\ acb[a].life = "drained"
      /\ UNCHANGED <<snd, rc, out, sp>> /\ acb' = [acb EXCEPT ![a].life = "limbo"]
      /\ blk' = [blk EXCEPT ![b] = [@ EXCEPT !.at = "limbo", !.since = [h \in Harts |-> 0]]]
  BY DEF Limbo
<1>2. "limbo" \in Lives
  BY DEF Lives
<1>3. blk \in [Blocks -> Blk] /\ blk[b] \in Blk /\ \A c \in Blocks : IsFiniteSet(blk[c].q)
  BY DEF Types
<1>4. PICK x \in Blk : x = blk[b]
  BY <1>3
<1>5. PICK f \in [Harts -> 0..2] : f = [h \in Harts |-> 0]
  <2>1. 0 \in 0..2
    OBVIOUS
  <2> QED BY <2>1
<1> DEFINE R == [x EXCEPT !.at = "limbo", !.since = f]
<1>6. R \in Blk /\ R.at = "limbo" /\ R.since = f /\ R.q = x.q /\ R.owner = x.owner
  BY <1>4 DEF Blk
<1>7. blk' = [blk EXCEPT ![b] = R]
  BY <1>1, <1>4, <1>5
<1> HIDE DEF R
<1>8. blk' \in [Blocks -> Blk] /\ blk'[b] = R /\ \A c \in Blocks : c # b => blk'[c] = blk[c]
  BY <1>3, <1>6, <1>7
<1>9. BlkTypes
  BY <1>3, <1>4, <1>6, <1>8 DEF BlkTypes
<1>10. \A h \in Harts : R.since[h] = 0
  BY <1>5, <1>6
<1> QED BY <1>1, <1>2, <1>4, <1>6, <1>8, <1>9, <1>10, LifeSet

-----------------------------------------------------------------------------
\* The spawner's record, the drain, the way back to the list, a hart's turn.

\* the six reservations of an admission, in either order
LEMMA OrderIs ==
  ASSUME NEW kind \in {"heap", "inbox"}
  PROVE  /\ Len(Order(kind)) = 6
         /\ \A i \in 1..6 : Order(kind)[i] \in Items
         /\ \A i, j \in 1..6 : Order(kind)[i] = Order(kind)[j] => i = j
         /\ Kept \subseteq {Order(kind)[i] : i \in 1..6}
         /\ kind = "inbox" => "charges" \in {Order(kind)[i] : i \in 1..6}
<1>1. CASE kind = "heap"
  <2>1. Order(kind) = <<"grant", "stack", "buckets", "channels", "entry", "acb">>
    BY <1>1 DEF Order
  <2>2. PICK o : o = Order(kind)
    OBVIOUS
  <2>3. /\ Len(o) = 6 /\ o[1] = "grant" /\ o[2] = "stack" /\ o[3] = "buckets"
        /\ o[4] = "channels" /\ o[5] = "entry" /\ o[6] = "acb" /\ DOMAIN o = 1..6
    BY <2>1, <2>2
  <2>4. \A i \in 1..6 : o[i] \in Items
    <3>1. \A i \in 1..6 : o[i] \in ToSet(Order("heap"))
      BY <1>1, <2>2, <2>3 DEF ToSet
    <3> QED BY <3>1 DEF Items
  <2>5. \A i, j \in 1..6 : o[i] = o[j] => i = j
    <3> SUFFICES ASSUME NEW i \in 1..6, NEW j \in 1..6, o[i] = o[j] PROVE i = j
      OBVIOUS
    <3> QED BY <2>3
  <2>6. Kept \subseteq {o[i] : i \in 1..6}
    BY <2>3 DEF Kept
  <2> QED BY <1>1, <2>2, <2>3, <2>4, <2>5, <2>6
<1>2. CASE kind = "inbox"
  <2>1. Order(kind) = <<"stack", "buckets", "channels", "charges", "entry", "acb">>
    BY <1>2 DEF Order
  <2>2. PICK o : o = Order(kind)
    OBVIOUS
  <2>3. /\ Len(o) = 6 /\ o[1] = "stack" /\ o[2] = "buckets" /\ o[3] = "channels"
        /\ o[4] = "charges" /\ o[5] = "entry" /\ o[6] = "acb" /\ DOMAIN o = 1..6
    BY <2>1, <2>2
  <2>4. \A i \in 1..6 : o[i] \in Items
    <3>1. \A i \in 1..6 : o[i] \in ToSet(Order("inbox"))
      BY <1>2, <2>2, <2>3 DEF ToSet
    <3> QED BY <3>1 DEF Items
  <2>5. \A i, j \in 1..6 : o[i] = o[j] => i = j
    <3> SUFFICES ASSUME NEW i \in 1..6, NEW j \in 1..6, o[i] = o[j] PROVE i = j
      OBVIOUS
    <3> QED BY <2>3
  <2>6. Kept \subseteq {o[i] : i \in 1..6} /\ "charges" \in {o[i] : i \in 1..6}
    BY <2>3 DEF Kept
  <2> QED BY <1>2, <2>2, <2>3, <2>4, <2>5, <2>6
<1> QED BY <1>1, <1>2

\* what an actor keeps to the end
LEMMA KeptItems == Kept \subseteq Items
<1>1. PICK k \in {"heap", "inbox"} : k = "heap"
  OBVIOUS
<1> QED BY <1>1, OrderIs

\* The spawner's record, as a set and step by step.
LEMMA SpType == ASSUME Types
  PROVE  /\ sp.var \in {"READY", "DEAD"} /\ sp.pc \in {"idle", "reserve", "init", "gone"}
         /\ sp.kind \in {"heap", "inbox"} /\ sp.n \in 0..6 /\ sp.ch \in Blocks \cup {None}
         /\ sp.cleanup \in BOOLEAN /\ sp.left \in Nat /\ sp \in Sp
  BY DEF Types, Sp

\* what an admission has taken are items
LEMMA GotItems == ASSUME Types PROVE Got \subseteq Items
<1>1. sp.kind \in {"heap", "inbox"} /\ sp.n \in 0..6
  BY SpType
<1>2. \A i \in 1..6 : Order(sp.kind)[i] \in Items
  BY <1>1, OrderIs
<1>3. \A i \in 1..sp.n : i \in 1..6
  BY <1>1
<1> QED BY <1>2, <1>3 DEF Got

\* the next reservation is a new item
LEMMA WantsNew ==
  ASSUME Types, sp.n < 6
  PROVE  /\ Wants \in Items /\ Wants \notin Got
         /\ {Order(sp.kind)[i] : i \in 1..(sp.n + 1)} = Got \cup {Wants}
<1>1. sp.kind \in {"heap", "inbox"} /\ sp.n \in 0..6
  BY SpType
<1>2. PICK n \in 0..5 : n = sp.n
  BY <1>1
<1>3. PICK o : o = Order(sp.kind)
  OBVIOUS
<1>4. (\A i \in 1..6 : o[i] \in Items) /\ \A i, j \in 1..6 : o[i] = o[j] => i = j
  BY <1>1, <1>3, OrderIs
<1>5. n + 1 \in 1..6 /\ 1..(n + 1) = 1..n \cup {n + 1} /\ \A i \in 1..n : i \in 1..6
        /\ i # n + 1
  BY <1>2
<1>6. Wants = o[n + 1] /\ Got = {o[i] : i \in 1..n}
  BY <1>2, <1>3 DEF Wants, Got
<1>7. o[n + 1] \in Items /\ o[n + 1] \notin {o[i] : i \in 1..n}
  BY <1>4, <1>5
<1>8. {o[i] : i \in 1..(n + 1)} = {o[i] : i \in 1..n} \cup {o[n + 1]}
  BY <1>5
<1> QED BY <1>2, <1>3, <1>6, <1>7, <1>8

\* an admission that begins has nothing
LEMMA GotNone == ASSUME sp.n = 0 PROVE Got = {}
  BY DEF Got

\* one that is complete has what an actor keeps, and the charges of an inbox
LEMMA GotAll ==
  ASSUME Types, sp.n = 6
  PROVE  Kept \subseteq Got /\ (sp.kind = "inbox" => "charges" \in Got)
<1>1. sp.kind \in {"heap", "inbox"} /\ Got = {Order(sp.kind)[i] : i \in 1..6}
  BY SpType DEF Got
<1> QED BY <1>1, OrderIs

\* the reaper drains the rings and returns the heap
LEMMA DrainEffect ==
  ASSUME Types, NEW a \in Actors, Drain(a), NEW b \in Blocks, acb[a].ch = b
  PROVE  /\ acb[a].life = "claimed" /\ Barrier(a) /\ UNCHANGED <<snd, sp>>
         /\ Only(a) /\ acb'[a].life = "drained" /\ acb'[a].rx = {}
         /\ acb'[a].items = acb[a].items \cap Kept
         /\ acb'[a].var = acb[a].var /\ acb'[a].ch = b /\ acb'[a].hand = acb[a].hand
         /\ acb'[a].messages = ReleaseAll(acb[a], blk[b].q).messages
         /\ acb'[a].bytes = ReleaseAll(acb[a], blk[b].q).bytes
         /\ Rings(b, {})
         /\ rc' \in [Messages -> Int] /\ Dropped(Roots(blk[b].q) \cup acb[a].rx)
         /\ out' \in [Items -> Int]
         /\ \A i \in Items : out'[i] = IF i \in acb[a].items \ Kept THEN out[i] - 1 ELSE out[i]
<1>1. /\ acb[a].life = "claimed" /\ Barrier(a) /\ UNCHANGED <<snd, sp>>
      /\ blk' = [blk EXCEPT ![b].q = {}]
      /\ rc' = Decref(Roots(blk[b].q) \cup acb[a].rx)
      /\ out' = [i \in Items |-> IF i \in acb[a].items \ Kept THEN out[i] - 1 ELSE out[i]]
      /\ acb' = [acb EXCEPT ![a] = [ReleaseAll(acb[a], blk[b].q) EXCEPT
               !.life = "drained", !.rx = {}, !.items = acb[a].items \cap Kept]]
  BY DEF Drain, Kept
<1>2. PICK x \in Acb : x = acb[a]
  BY DEF Types
<1>3. PICK es : es = blk[b].q
  OBVIOUS
<1>4. es \subseteq Entry /\ IsFiniteSet(es)
  BY <1>3, BlkType DEF Types
<1>5. PICK y \in Acb : y = ReleaseAll(x, es) /\ Core(y, x)
  BY <1>4, ReleaseAllKeeps
<1>6. PICK S : S = x.items \cap Kept
  OBVIOUS
<1>7. S \subseteq Items
  BY <1>6, AcbType
<1> DEFINE R == [y EXCEPT !.life = "drained", !.rx = {}, !.items = S]
<1>8. R \in Acb /\ R.life = "drained" /\ R.rx = {} /\ R.items = S
  BY <1>5, <1>7 DEF Acb, Lives
<1>9. /\ R.var = y.var /\ R.ch = y.ch /\ R.bounded = y.bounded
      /\ R.messages = y.messages /\ R.bytes = y.bytes
      /\ R.shlock = y.shlock /\ R.hand = y.hand
  BY <1>5 DEF Acb
<1>10. acb' = [acb EXCEPT ![a] = R]
  BY <1>1, <1>2, <1>3, <1>5, <1>6
<1> HIDE DEF R
<1>11. /\ y.var = x.var /\ y.ch = x.ch /\ y.bounded = x.bounded /\ y.hand = x.hand
       /\ y.shlock = x.shlock
  BY <1>5 DEF Core
<1>12. Only(a) /\ acb'[a] = R
  BY <1>2, <1>8, <1>9, <1>10, <1>11, OnlySet
<1>13. Rings(b, {})
  BY <1>1, RingsSet, FS_EmptySet
<1>14. out' \in [Items -> Int]
      /\ \A i \in Items : out'[i] = IF i \in acb[a].items \ Kept THEN out[i] - 1 ELSE out[i]
  BY <1>1 DEF Types
<1> QED BY <1>1, <1>2, <1>3, <1>5, <1>6, <1>8, <1>9, <1>11, <1>12, <1>13, <1>14, DecrefIs

\* and gives up the block and the entry
LEMMA ClearEffect ==
  ASSUME Types, NEW a \in Actors, Clear(a)
  PROVE  /\ acb[a].life = "limbo" /\ UNCHANGED <<blk, snd, rc, sp>>
         /\ Only(a) /\ acb'[a].life = "gone" /\ acb'[a].ch = None /\ acb'[a].items = {"acb"}
         /\ acb'[a].var = acb[a].var /\ acb'[a].hand = acb[a].hand /\ acb'[a].rx = acb[a].rx
         /\ acb'[a].messages = acb[a].messages /\ acb'[a].bytes = acb[a].bytes
         /\ out' \in [Items -> Int]
         /\ \A i \in Items : out'[i] = IF i \in {"channels",
              "entry"} THEN out[i] - 1 ELSE out[i]
<1>1. /\ acb[a].life = "limbo" /\ UNCHANGED <<blk, snd, rc, sp>>
      /\ acb' = [acb EXCEPT ![a].ch = None, ![a].life = "gone", ![a].items = {"acb"}]
      /\ out' = [out EXCEPT !["channels"] = @ - 1, !["entry"] = @ - 1]
  BY DEF Clear
<1>2. PICK x \in Acb : x = acb[a]
  BY DEF Types
<1>3. acb \in [Actors -> Acb] /\ {"acb"} \subseteq Items
  BY KeptItems DEF Types, Kept
<1> DEFINE R == [x EXCEPT !.ch = None, !.life = "gone", !.items = {"acb"}]
<1>4. R \in Acb /\ R.life = "gone" /\ R.ch = None /\ R.items = {"acb"}
  BY <1>2, <1>3 DEF Acb, Lives
<1>5. /\ R.var = x.var /\ R.bounded = x.bounded
      /\ R.messages = x.messages /\ R.bytes = x.bytes
      /\ R.shlock = x.shlock /\ R.hand = x.hand /\ R.rx = x.rx
  BY <1>2 DEF Acb
<1>6. acb' = [acb EXCEPT ![a] = R]
  BY <1>1, <1>2, <1>3
<1> HIDE DEF R
<1>7. Only(a) /\ acb'[a] = R
  BY <1>2, <1>4, <1>5, <1>6, OnlySet
<1>8. out' \in [Items -> Int]
      /\ \A i \in Items : out'[i] = IF i \in {"channels", "entry"} THEN out[i] - 1 ELSE out[i]
  <2>1. out \in [Items -> Int] /\ "channels" \in Items /\ "entry" \in Items
    BY KeptItems DEF Types, Kept
  <2> QED BY <1>1, <2>1
<1> QED BY <1>1, <1>2, <1>4, <1>5, <1>7, <1>8

\* a hart comes round its loop, and the epochs with it
LEMMA TurnEffect ==
  ASSUME Types, NEW h \in Harts, Turn(h)
  PROVE  /\ UNCHANGED <<acb, snd, rc, out, sp>> /\ BlkTypes
         /\ h = Home => \A a \in Actors : acb[a].life \notin {"claimed", "drained", "limbo"}
         /\ h # Home => h \in Senders /\ snd[h].pc \in Parkable \cup {"gone"}
         /\ \A b \in Blocks :
              /\ blk'[b].at = blk[b].at /\ blk'[b].q = blk[b].q /\ blk'[b].owner = blk[b].owner
              /\ \A k \in Harts : k # h => blk'[b].since[k] = blk[b].since[k]
<1>1. /\ UNCHANGED <<acb, snd, rc, out, sp>>
      /\ h = Home => \A a \in Actors : acb[a].life \notin {"claimed", "drained", "limbo"}
      /\ h # Home => h \in Senders /\ snd[h].pc \in Parkable \cup {"gone"}
      /\ blk' = [b \in Blocks |->
           IF blk[b].at = "limbo" /\ blk[b].since[h] < 2
           THEN [blk[b] EXCEPT !.since[h] = @ + 1] ELSE blk[b]]
  BY DEF Turn, Harts
<1>2. ASSUME NEW b \in Blocks
      PROVE  /\ blk'[b] \in Blk /\ IsFiniteSet(blk'[b].q)
             /\ blk'[b].at = blk[b].at /\ blk'[b].q = blk[b].q /\ blk'[b].owner = blk[b].owner
             /\ \A k \in Harts : k # h => blk'[b].since[k] = blk[b].since[k]
  <2>1. blk[b] \in Blk /\ IsFiniteSet(blk[b].q)
    BY DEF Types
  <2>2. PICK x \in Blk : x = blk[b]
    BY <2>1
  <2>3. CASE x.at = "limbo" /\ x.since[h] < 2
    <3>1. x.since \in [Harts -> 0..2]
      BY BlkType
    <3>2. PICK k \in 0..2 : k = x.since[h] + 1
      BY <2>3, <3>1
    <3>3. PICK f \in [Harts -> 0..2] : f = [x.since EXCEPT ![h] = k]
      BY <3>1, <3>2
    <3> DEFINE R == [x EXCEPT !.since = f]
    <3>4. R \in Blk /\ R.since = f /\ R.at = x.at /\ R.q = x.q /\ R.owner = x.owner
      BY <2>2 DEF Blk
    <3>5. blk'[b] = R
      BY <1>1, <2>2, <2>3, <3>2, <3>3
    <3> HIDE DEF R
    <3>6. \A j \in Harts : j # h => f[j] = x.since[j]
      BY <3>1, <3>3
    <3> QED BY <2>1, <2>2, <3>4, <3>5, <3>6
  <2>4. CASE ~(x.at = "limbo" /\ x.since[h] < 2)
    <3>1. blk'[b] = x
      BY <1>1, <2>2, <2>4
    <3> QED BY <2>1, <2>2, <3>1
  <2> QED BY <2>3, <2>4
<1>3. blk' \in [Blocks -> Blk]
  <2>1. DOMAIN blk' = Blocks /\ blk' = [b \in Blocks |-> blk'[b]]
    BY <1>1
  <2> QED BY <1>2, <2>1
<1> QED BY <1>1, <1>2, <1>3 DEF BlkTypes

-----------------------------------------------------------------------------
\* What each step of the spawner changes.

\* an admission begins
LEMMA AdmitEffect ==
  ASSUME Types, NEW kind \in {"heap", "inbox"}, Admit(kind)
  PROVE  /\ sp.pc = "idle" /\ UNCHANGED <<acb, blk, snd, rc, out>>
         /\ sp' \in Sp /\ sp'.pc = "reserve" /\ sp'.kind = kind /\ sp'.n = 0 /\ sp'.ch = None
         /\ sp'.cleanup = TRUE
<1>1. /\ sp.pc = "idle" /\ UNCHANGED <<acb, blk, snd, rc, out>> /\ sp.left > 0
      /\ sp' = [sp EXCEPT !.pc = "reserve", !.kind = kind, !.n = 0, !.ch = None,
                      !.cleanup = TRUE, !.left = sp.left - 1]
  BY DEF Admit
<1>2. PICK x \in Sp : x = sp
  BY SpType
<1>3. PICK k \in Nat : k = x.left - 1
  BY <1>1, <1>2, SpType
<1>4. PICK z \in 0..6 : z = 0
  OBVIOUS
<1>5. sp' = [x EXCEPT !.pc = "reserve", !.kind = kind, !.n = z, !.ch = None,
                      !.cleanup = TRUE, !.left = k]
  BY <1>1, <1>2, <1>3, <1>4
<1>6. sp' \in Sp
  BY <1>2, <1>5 DEF Sp
<1>7. sp'.pc = "reserve" /\ sp'.kind = kind /\ sp'.n = z /\ sp'.ch = None /\ sp'.cleanup = TRUE
  BY <1>2, <1>5 DEF Sp
<1> QED BY <1>1, <1>4, <1>6, <1>7

\* something other than the block is reserved
LEMMA ReserveEffect ==
  ASSUME Types, Reserve
  PROVE  /\ sp.pc = "reserve" /\ sp.n < 6 /\ Wants # "channels" /\ Wants \in Items
         /\ UNCHANGED <<acb, blk, snd, rc>>
         /\ out' \in [Items -> Int]
         /\ \A i \in Items : out'[i] = IF i = Wants THEN out[i] + 1 ELSE out[i]
         /\ sp' \in Sp /\ sp'.pc = sp.pc /\ sp'.kind = sp.kind /\ sp'.n = sp.n + 1
         /\ sp'.ch = sp.ch /\ sp'.cleanup = sp.cleanup
<1>1. /\ sp.pc = "reserve" /\ sp.n < Len(Order(sp.kind)) /\ Wants # "channels"
      /\ out' = [out EXCEPT ![Wants] = @ + 1]
      /\ sp' = [sp EXCEPT !.n = sp.n + 1]
      /\ UNCHANGED <<acb, blk, snd, rc>>
  BY DEF Reserve
<1>2. PICK x \in Sp : x = sp
  BY SpType
<1>3. sp.n < 6 /\ Wants \in Items
  BY <1>1, OrderIs, WantsNew, SpType
<1>4. PICK k \in 0..6 : k = x.n + 1
  BY <1>2, <1>3, SpType
<1>5. sp' = [x EXCEPT !.n = k]
  BY <1>1, <1>2, <1>4
<1>6. sp' \in Sp
  BY <1>2, <1>5 DEF Sp
<1>7. /\ sp'.pc = x.pc /\ sp'.kind = x.kind /\ sp'.n = k /\ sp'.ch = x.ch
      /\ sp'.cleanup = x.cleanup
  BY <1>2, <1>5 DEF Sp
<1>8. PICK w \in Items : w = Wants
  BY <1>3
<1>9. out' \in [Items -> Int]
      /\ \A i \in Items : out'[i] = IF i = Wants THEN out[i] + 1 ELSE out[i]
  BY <1>1, <1>8 DEF Types
<1> QED BY <1>1, <1>2, <1>3, <1>4, <1>6, <1>7, <1>9

\* a block comes from the list, or from limbo once every hart has come round
LEMMA TakeBlockEffect ==
  ASSUME Types, NEW b \in Blocks, TakeBlock(b)
  PROVE  /\ sp.pc = "reserve" /\ sp.n < 6 /\ Wants = "channels"
         /\ (blk[b].at = "limbo" /\ Matured(b)) \/ blk[b].at = "list"
         /\ UNCHANGED <<acb, snd, rc>>
         /\ out' \in [Items -> Int]
         /\ \A i \in Items : out'[i] = IF i = "channels" THEN out[i] + 1 ELSE out[i]
         /\ sp' \in Sp /\ sp'.pc = "init" /\ sp'.kind = sp.kind /\ sp'.n = sp.n
         /\ sp'.ch = b /\ sp'.cleanup = sp.cleanup
         /\ BlkTypes /\ \A c \in Blocks : c # b => blk'[c] = blk[c]
         /\ blk'[b].at = "held" /\ blk'[b].q = blk[b].q /\ blk'[b].owner = blk[b].owner
         /\ blk'[b].since = blk[b].since
<1>1. /\ sp.pc = "reserve" /\ sp.n < Len(Order(sp.kind)) /\ Wants = "channels"
      /\ (blk[b].at = "limbo" /\ Matured(b)) \/ blk[b].at = "list"
      /\ blk' = [blk EXCEPT ![b].at = "held"]
      /\ sp' = [sp EXCEPT !.pc = "init", !.ch = b]
      /\ out' = [out EXCEPT !["channels"] = @ + 1]
      /\ UNCHANGED <<acb, snd, rc>>
  BY DEF TakeBlock
<1>2. PICK x \in Sp : x = sp
  BY SpType
<1>3. sp.n < 6 /\ "channels" \in Items
  BY <1>1, OrderIs, SpType, KeptItems DEF Kept
<1>4. sp' = [x EXCEPT !.pc = "init", !.ch = b]
  BY <1>1, <1>2
<1>5. sp' \in Sp
  BY <1>2, <1>4 DEF Sp
<1>6. /\ sp'.pc = "init" /\ sp'.kind = x.kind /\ sp'.n = x.n /\ sp'.ch = b
      /\ sp'.cleanup = x.cleanup
  BY <1>2, <1>4 DEF Sp
<1>7. out' \in [Items -> Int]
      /\ \A i \in Items : out'[i] = IF i = "channels" THEN out[i] + 1 ELSE out[i]
  BY <1>1, <1>3 DEF Types
<1>8. blk \in [Blocks -> Blk] /\ \A c \in Blocks : IsFiniteSet(blk[c].q)
  BY DEF Types
<1>9. PICK y \in Blk : y = blk[b]
  BY <1>8
<1> DEFINE R == [y EXCEPT !.at = "held"]
<1>10. R \in Blk /\ R.at = "held" /\ R.q = y.q /\ R.owner = y.owner /\ R.since = y.since
  BY <1>9 DEF Blk
<1>11. blk' = [blk EXCEPT ![b] = R]
  BY <1>1, <1>9
<1> HIDE DEF R
<1>12. blk' \in [Blocks -> Blk] /\ blk'[b] = R /\ \A c \in Blocks : c # b => blk'[c] = blk[c]
  BY <1>8, <1>10, <1>11
<1>13. BlkTypes
  BY <1>8, <1>9, <1>10, <1>12 DEF BlkTypes
<1> QED BY <1>1, <1>2, <1>3, <1>5, <1>6, <1>7, <1>9, <1>10, <1>12, <1>13

\* an initialised block
LEMMA FreshIs ==
  ASSUME NEW at \in {"list", "held", "limbo"}
  PROVE  /\ Fresh(at) \in Blk /\ Fresh(at).at = at /\ Fresh(at).q = {}
         /\ Fresh(at).owner = None
<1>1. PICK f \in [Senders -> Nat] : f = [s \in Senders |-> RingCap]
  BY Const
<1>2. PICK g \in [Harts -> 0..2] : g = [h \in Harts |-> 0]
  <2>1. 0 \in 0..2
    OBVIOUS
  <2> QED BY <2>1
<1>3. Fresh(at) = [at |-> at, q |-> {}, owner |-> None, cap |-> f, since |-> g]
  BY <1>1, <1>2 DEF Fresh
<1> QED BY <1>3 DEF Blk

\* chan_init clears what late writers left
LEMMA InitBlockEffect ==
  ASSUME Types, SpawnerOK, InitBlock
  PROVE  /\ sp.pc = "init" /\ sp.ch \in Blocks /\ UNCHANGED <<snd, out>> /\ Cores
         /\ acb' = IF blk[sp.ch].owner = None THEN acb
                   ELSE [acb EXCEPT ![blk[sp.ch].owner] = ReleaseAll(@, blk[sp.ch].q)]
         /\ rc' \in [Messages -> Int] /\ Dropped(Roots(blk[sp.ch].q))
         /\ sp' \in Sp /\ sp'.pc = "reserve" /\ sp'.kind = sp.kind /\ sp'.n = sp.n + 1
         /\ sp'.ch = sp.ch /\ sp'.cleanup = sp.cleanup
         /\ BlkTypes /\ \A c \in Blocks : c # sp.ch => blk'[c] = blk[c]
         /\ blk'[sp.ch].at = "held" /\ blk'[sp.ch].q = {} /\ blk'[sp.ch].owner = None
<1>1. /\ sp.pc = "init" /\ UNCHANGED <<snd, out>>
      /\ rc' = Decref(Roots(blk[sp.ch].q))
      /\ acb' = IF blk[sp.ch].owner = None THEN acb
                ELSE [acb EXCEPT ![blk[sp.ch].owner] = ReleaseAll(@, blk[sp.ch].q)]
      /\ blk' = [blk EXCEPT ![sp.ch] = Fresh("held")]
      /\ sp' = [sp EXCEPT !.pc = "reserve", !.n = sp.n + 1]
  BY DEF InitBlock
<1>2. PICK b \in Blocks : b = sp.ch
  BY <1>1 DEF SpawnerOK
<1>3. sp.n < 6
  BY <1>1 DEF SpawnerOK
<1>4. PICK x \in Sp : x = sp
  BY SpType
<1>5. PICK k \in 0..6 : k = x.n + 1
  BY <1>3, <1>4, SpType
<1>6. sp' = [x EXCEPT !.pc = "reserve", !.n = k]
  BY <1>1, <1>4, <1>5
<1>7. sp' \in Sp
  BY <1>4, <1>6 DEF Sp
<1>8. /\ sp'.pc = "reserve" /\ sp'.kind = x.kind /\ sp'.n = k /\ sp'.ch = x.ch
      /\ sp'.cleanup = x.cleanup
  BY <1>4, <1>6 DEF Sp
<1>9. blk \in [Blocks -> Blk] /\ \A c \in Blocks : IsFiniteSet(blk[c].q)
  BY DEF Types
<1>10. PICK f \in Blk : f = Fresh("held") /\ f.at = "held" /\ f.q = {} /\ f.owner = None
  BY FreshIs
<1>11. blk' \in [Blocks -> Blk] /\ blk'[b] = f /\ \A c \in Blocks : c # b => blk'[c] = blk[c]
  BY <1>1, <1>2, <1>9, <1>10
<1>12. BlkTypes
  BY <1>9, <1>10, <1>11, FS_EmptySet DEF BlkTypes
<1>13. Cores
  <2>1. CASE blk[b].owner = None
    BY <1>1, <1>2, <2>1, CoresSame
  <2>2. CASE blk[b].owner # None
    <3>1. blk[b] \in Blk /\ IsFiniteSet(blk[b].q)
      BY <1>9
    <3>2. blk[b].owner \in Actors /\ blk[b].q \subseteq Entry
      BY <2>2, <3>1, BlkType
    <3>3. PICK a \in Actors : a = blk[b].owner
      BY <3>2
    <3>4. acb' = [acb EXCEPT ![a] = ReleaseAll(@, blk[b].q)]
      BY <1>1, <1>2, <2>2, <3>3
    <3>5. acb \in [Actors -> Acb] /\ acb[a] \in Acb
      BY DEF Types
    <3>6. ReleaseAll(acb[a], blk[b].q) \in Acb /\ Core(ReleaseAll(acb[a], blk[b].q), acb[a])
      BY <3>1, <3>2, <3>5, ReleaseAllKeeps
    <3> QED BY <3>4, <3>5, <3>6, CoreRefl DEF Cores, SameAcb
  <2> QED BY <2>1, <2>2
<1> QED BY <1>1, <1>2, <1>4, <1>5, <1>7, <1>8, <1>10, <1>11, <1>12, <1>13, DecrefIs

\* the actor is built
LEMMA BuildEffect ==
  ASSUME Types, NEW a \in Actors, Build(a), sp.ch \in Blocks
  PROVE  /\ sp.pc = "reserve" /\ sp.n = 6 /\ acb[a].var = "unborn" /\ UNCHANGED <<snd, rc, out>>
         /\ acb' \in [Actors -> Acb] /\ \A b \in Actors : b # a => SameAcb(b)
         /\ \A b \in Actors : b # a => acb'[b] = acb[b]
         /\ acb'[a].var = "READY" /\ acb'[a].ch = sp.ch /\ acb'[a].bounded = (sp.kind = "inbox")
         /\ acb'[a].items = Got /\ acb'[a].shlock = None /\ acb'[a].hand = NoEntry
         /\ acb'[a].rx = {} /\ acb'[a].life = "built"
         /\ acb'[a].messages = 0 /\ acb'[a].bytes = 0
         /\ BlkTypes /\ \A c \in Blocks : c # sp.ch => blk'[c] = blk[c]
         /\ blk'[sp.ch].at = blk[sp.ch].at /\ blk'[sp.ch].q = blk[sp.ch].q
         /\ blk'[sp.ch].owner = IF sp.kind = "inbox" THEN a ELSE None
         /\ sp' \in Sp /\ sp'.pc = "idle" /\ sp'.kind = sp.kind /\ sp'.n = sp.n
         /\ sp'.ch = sp.ch /\ sp'.cleanup = FALSE
<1>1. /\ sp.pc = "reserve" /\ sp.n = Len(Order(sp.kind)) /\ acb[a].var = "unborn"
      /\ UNCHANGED <<snd, rc, out>>
      /\ acb' = [acb EXCEPT ![a] = Born(sp.ch, sp.kind = "inbox", Got)]
      /\ blk' = [blk EXCEPT ![sp.ch].owner = IF sp.kind = "inbox" THEN a ELSE None]
      /\ sp' = [sp EXCEPT !.pc = "idle", !.cleanup = FALSE]
  BY DEF Build
<1>2. sp.n = 6
  BY <1>1, OrderIs, SpType
<1>3. PICK b \in Blocks : b = sp.ch
  OBVIOUS
<1>4. PICK v \in BOOLEAN : v = (sp.kind = "inbox")
  OBVIOUS
<1>5. PICK S : S = Got
  OBVIOUS
<1>6. S \subseteq Items
  BY <1>5, GotItems
<1>7. PICK r \in Acb : r = Born(b, v, S)
      /\ r.var = "READY" /\ r.ch = b /\ r.bounded = v /\ r.items = S /\ r.shlock = None
      /\ r.hand = NoEntry /\ r.rx = {} /\ r.life = "built" /\ r.messages = 0 /\ r.bytes = 0
  <2>1. PICK u \in Acb : u = Unborn /\ u.messages = 0 /\ u.bytes = 0 /\ u.shlock = None
                         /\ u.hand = NoEntry /\ u.rx = {}
    <3>1. Unborn \in Acb
      BY DEF Unborn, Acb, Lives
    <3>2. Unborn.messages = 0 /\ Unborn.bytes = 0 /\ Unborn.shlock = None
          /\ Unborn.hand = NoEntry /\ Unborn.rx = {}
      BY DEF Unborn
    <3> QED BY <3>1, <3>2
  <2> DEFINE Z == [u EXCEPT !.var = "READY", !.ch = b, !.bounded = v,
                            !.items = S, !.life = "built"]
  <2>2. Born(b, v, S) = Z
    BY <2>1 DEF Born
  <2>3. Z \in Acb
    BY <1>6, <2>1 DEF Acb, Lives
  <2>4. Z.var = "READY" /\ Z.ch = b /\ Z.bounded = v /\ Z.items = S /\ Z.shlock = u.shlock
        /\ Z.hand = u.hand /\ Z.rx = u.rx /\ Z.life = "built"
        /\ Z.messages = u.messages /\ Z.bytes = u.bytes
    BY <2>1 DEF Acb
  <2> HIDE DEF Z
  <2> QED BY <2>1, <2>2, <2>3, <2>4
<1>8. acb \in [Actors -> Acb] /\ acb' = [acb EXCEPT ![a] = r]
  BY <1>1, <1>3, <1>4, <1>5, <1>7 DEF Types
<1>9. acb' \in [Actors -> Acb] /\ acb'[a] = r /\ \A c \in Actors : c # a => acb'[c] = acb[c]
  BY <1>8
<1>10. blk \in [Blocks -> Blk] /\ \A c \in Blocks : IsFiniteSet(blk[c].q)
  BY DEF Types
<1>11. PICK y \in Blk : y = blk[b]
  BY <1>10
<1>12. PICK o \in Actors \cup {None} : o = IF sp.kind = "inbox" THEN a ELSE None
  OBVIOUS
<1> DEFINE R == [y EXCEPT !.owner = o]
<1>13. R \in Blk /\ R.at = y.at /\ R.q = y.q /\ R.owner = o
  BY <1>11 DEF Blk
<1>14. blk' = [blk EXCEPT ![b] = R]
  BY <1>1, <1>3, <1>11, <1>12
<1> HIDE DEF R
<1>15. blk' \in [Blocks -> Blk] /\ blk'[b] = R /\ \A c \in Blocks : c # b => blk'[c] = blk[c]
  BY <1>10, <1>13, <1>14
<1>16. BlkTypes
  BY <1>10, <1>11, <1>13, <1>15 DEF BlkTypes
<1>17. PICK x \in Sp : x = sp
  BY SpType
<1>18. sp' = [x EXCEPT !.pc = "idle", !.cleanup = FALSE]
  BY <1>1, <1>17
<1>19. sp' \in Sp
  BY <1>17, <1>18 DEF Sp
<1>20. /\ sp'.pc = "idle" /\ sp'.kind = x.kind /\ sp'.n = x.n /\ sp'.ch = x.ch
       /\ sp'.cleanup = FALSE
  BY <1>17, <1>18 DEF Sp
<1>21. \A c \in Actors : c # a => SameAcb(c)
  BY <1>9, CoreRefl DEF SameAcb
<1> QED BY <1>1, <1>2, <1>3, <1>4, <1>5, <1>7, <1>9, <1>11, <1>12, <1>13, <1>15, <1>16, <1>17,
      <1>19, <1>20, <1>21

\* A rollback puts the block on the free list, if the record has one.
RolledBack ==
  /\ out' \in [Items -> Int]
  /\ \A i \in Items : out'[i] = IF i \in Got THEN out[i] - 1 ELSE out[i]
  /\ BlkTypes
  /\ "channels" \notin Got => blk' = blk
  /\ "channels" \in Got =>
       /\ \A c \in Blocks : c # sp.ch => blk'[c] = blk[c]
       /\ blk'[sp.ch].at = "list" /\ blk'[sp.ch].q = blk[sp.ch].q
       /\ blk'[sp.ch].owner = blk[sp.ch].owner /\ blk'[sp.ch].since = blk[sp.ch].since

LEMMA RollbackIs ==
  ASSUME Types, "channels" \in Got => sp.ch \in Blocks, Rollback
  PROVE  RolledBack
<1>1. /\ out' = [i \in Items |-> IF i \in Got THEN out[i] - 1 ELSE out[i]]
      /\ blk' = IF "channels" \in Got THEN [blk EXCEPT ![sp.ch].at = "list"] ELSE blk
  BY DEF Rollback
<1>2. out' \in [Items -> Int]
      /\ \A i \in Items : out'[i] = IF i \in Got THEN out[i] - 1 ELSE out[i]
  BY <1>1 DEF Types
<1>3. blk \in [Blocks -> Blk] /\ \A c \in Blocks : IsFiniteSet(blk[c].q)
  BY DEF Types
<1>4. CASE "channels" \notin Got
  BY <1>1, <1>2, <1>3, <1>4 DEF RolledBack, BlkTypes
<1>5. CASE "channels" \in Got
  <2>1. PICK b \in Blocks : b = sp.ch
    BY <1>5
  <2>2. PICK y \in Blk : y = blk[b]
    BY <1>3
  <2> DEFINE R == [y EXCEPT !.at = "list"]
  <2>3. R \in Blk /\ R.at = "list" /\ R.q = y.q /\ R.owner = y.owner /\ R.since = y.since
    BY <2>2 DEF Blk
  <2>4. blk' = [blk EXCEPT ![b] = R]
    BY <1>1, <1>5, <2>1, <2>2
  <2> HIDE DEF R
  <2>5. blk' \in [Blocks -> Blk] /\ blk'[b] = R /\ \A c \in Blocks : c # b => blk'[c] = blk[c]
    BY <1>3, <2>3, <2>4
  <2>6. BlkTypes
    BY <1>3, <2>2, <2>3, <2>5 DEF BlkTypes
  <2> QED BY <1>2, <1>5, <2>1, <2>2, <2>3, <2>5, <2>6 DEF RolledBack
<1> QED BY <1>4, <1>5

\* the record is closed
LEMMA SpClosed ==
  ASSUME Types, NEW p \in {"idle", "gone"}, sp' = [sp EXCEPT !.pc = p, !.cleanup = FALSE]
  PROVE  /\ sp' \in Sp /\ sp'.pc = p /\ sp'.kind = sp.kind /\ sp'.n = sp.n
         /\ sp'.ch = sp.ch /\ sp'.cleanup = FALSE
<1>1. PICK x \in Sp : x = sp
  BY SpType
<1>2. sp' = [x EXCEPT !.pc = p, !.cleanup = FALSE]
  BY <1>1
<1>3. sp' \in Sp
  BY <1>1, <1>2 DEF Sp
<1>4. sp'.pc = p /\ sp'.kind = x.kind /\ sp'.n = x.n /\ sp'.ch = x.ch /\ sp'.cleanup = FALSE
  BY <1>1, <1>2 DEF Sp
<1> QED BY <1>1, <1>3, <1>4

\* an admission is denied
LEMMA DenyEffect ==
  ASSUME Types, "channels" \in Got => sp.ch \in Blocks, Deny
  PROVE  /\ sp.pc = "reserve" /\ sp.n < 6 /\ UNCHANGED <<acb, snd, rc>> /\ RolledBack
         /\ sp' \in Sp /\ sp'.pc = "idle" /\ sp'.kind = sp.kind /\ sp'.n = sp.n
         /\ sp'.ch = sp.ch /\ sp'.cleanup = FALSE
<1>1. /\ sp.pc = "reserve" /\ sp.n < Len(Order(sp.kind)) /\ Rollback
      /\ sp' = [sp EXCEPT !.pc = "idle", !.cleanup = FALSE] /\ UNCHANGED <<acb, snd, rc>>
  BY DEF Deny
<1>2. sp.n < 6
  BY <1>1, OrderIs, SpType
<1> QED BY <1>1, <1>2, RollbackIs, SpClosed

\* the spawner is killed
LEMMA KillSpawnerEffect ==
  ASSUME Types, KillSpawner
  PROVE  /\ UNCHANGED <<acb, blk, snd, rc, out>>
         /\ sp' \in Sp /\ sp'.pc = sp.pc /\ sp'.kind = sp.kind /\ sp'.n = sp.n
         /\ sp'.ch = sp.ch /\ sp'.cleanup = sp.cleanup
<1>1. PICK x \in Sp : x = sp
  BY SpType
<1>2. sp' = [x EXCEPT !.var = "DEAD"] /\ UNCHANGED <<acb, blk, snd, rc, out>>
  BY <1>1 DEF KillSpawner
<1>3. sp' \in Sp
  BY <1>1, <1>2 DEF Sp
<1>4. sp'.pc = x.pc /\ sp'.kind = x.kind /\ sp'.n = x.n /\ sp'.ch = x.ch
      /\ sp'.cleanup = x.cleanup
  BY <1>1, <1>2 DEF Sp
<1> QED BY <1>1, <1>2, <1>3, <1>4

\* its reaper rolls back what it had
LEMMA ReapSpawnerEffect ==
  ASSUME Types, "channels" \in Got => sp.ch \in Blocks \/ ~sp.cleanup, ReapSpawner
  PROVE  /\ sp.pc \in {"idle", "reserve"} /\ UNCHANGED <<acb, snd, rc>>
         /\ sp.cleanup => RolledBack
         /\ ~sp.cleanup => UNCHANGED <<out, blk>>
         /\ sp' \in Sp /\ sp'.pc = "gone" /\ sp'.kind = sp.kind /\ sp'.n = sp.n
         /\ sp'.ch = sp.ch /\ sp'.cleanup = FALSE
<1>1. /\ sp.pc \in {"idle", "reserve"} /\ UNCHANGED <<acb, snd, rc>>
      /\ IF sp.cleanup THEN Rollback ELSE UNCHANGED <<out, blk>>
      /\ sp' = [sp EXCEPT !.pc = "gone", !.cleanup = FALSE]
  BY DEF ReapSpawner
<1> QED BY <1>1, RollbackIs, SpClosed

-----------------------------------------------------------------------------
\* What was taken is counted where it is: OutOK.

\* No actor's items change.
ItemsSame == \A a \in Actors : acb'[a].items = acb[a].items

\* finitely many actors have an item
LEMMA WithFinite == ASSUME NEW i PROVE IsFiniteSet(With(i)) /\ Cardinality(With(i)) \in Nat
<1>1. With(i) \subseteq Actors /\ IsFiniteSet(Actors)
  BY Const DEF With
<1> QED BY <1>1, FS_Subset, FS_CardinalityType

\* nobody gets or gives an item
LEMMA WithSame == ASSUME ItemsSame, NEW i PROVE With(i)' = With(i)
  BY DEF ItemsSame, With

\* a step that moves no item
LEMMA OutFrame ==
  ASSUME OutOK, UNCHANGED <<out, sp>>, ItemsSame
  PROVE  OutOK'
<1>1. SUFFICES ASSUME NEW i \in Items
               PROVE  out'[i] = Cardinality(With(i)') + (IF Under(i)' THEN 1 ELSE 0)
  BY DEF OutOK
<1>2. With(i)' = With(i)
  BY WithSame
<1>3. Under(i)' <=> Under(i)
  BY DEF Under, Got, Wants
<1>4. out[i] = Cardinality(With(i)) + (IF Under(i) THEN 1 ELSE 0)
  BY DEF OutOK
<1> QED BY <1>2, <1>3, <1>4

\* An actor gives up the items S.
LEMMA OutLeaves ==
  ASSUME Types, OutOK, UNCHANGED sp, NEW a \in Actors, NEW S, S \subseteq acb[a].items,
         acb'[a].items = acb[a].items \ S,
         \A b \in Actors : b # a => acb'[b].items = acb[b].items,
         \A i \in Items : out'[i] = IF i \in S THEN out[i] - 1 ELSE out[i]
  PROVE  OutOK'
<1>1. SUFFICES ASSUME NEW i \in Items
               PROVE  out'[i] = Cardinality(With(i)') + (IF Under(i)' THEN 1 ELSE 0)
  BY DEF OutOK
<1>2. Under(i)' <=> Under(i)
  BY DEF Under, Got, Wants
<1>3. out[i] = Cardinality(With(i)) + (IF Under(i) THEN 1 ELSE 0)
  BY DEF OutOK
<1>4. IsFiniteSet(With(i)) /\ Cardinality(With(i)) \in Nat
  BY WithFinite
<1>5. CASE i \in S
  <2>1. a \in With(i) /\ With(i)' = With(i) \ {a}
    BY <1>5 DEF With
  <2>2. Cardinality(With(i)') = Cardinality(With(i)) - 1
    BY <1>4, <2>1, FS_RemoveElement
  <2> QED BY <1>2, <1>3, <1>4, <1>5, <2>2
<1>6. CASE i \notin S
  <2>1. With(i)' = With(i)
    BY <1>6 DEF With
  <2> QED BY <1>2, <1>3, <1>6, <2>1
<1> QED BY <1>5, <1>6

\* the drain gives up all but what is kept
LEMMA OutDrain ==
  ASSUME Types, OutOK, NEW a \in Actors, NEW b \in Blocks, acb[a].ch = b, Drain(a)
  PROVE  OutOK'
<1>1. /\ UNCHANGED sp /\ Only(a) /\ acb'[a].items = acb[a].items \cap Kept
      /\ \A i \in Items : out'[i] = IF i \in acb[a].items \ Kept THEN out[i] - 1 ELSE out[i]
  BY DrainEffect
<1>2. PICK S : S = acb[a].items \ Kept
  OBVIOUS
<1>3. S \subseteq acb[a].items /\ acb'[a].items = acb[a].items \ S
  BY <1>1, <1>2
<1>4. \A c \in Actors : c # a => acb'[c].items = acb[c].items
  BY <1>1 DEF Only, SameAcb, Core
<1> QED BY <1>1, <1>2, <1>3, <1>4, OutLeaves

\* the reaper's last step gives up the block and the entry
LEMMA OutClear ==
  ASSUME Types, OutOK, NEW a \in Actors, acb[a].items = Kept, Clear(a)
  PROVE  OutOK'
<1>1. /\ UNCHANGED sp /\ Only(a) /\ acb'[a].items = {"acb"}
      /\ \A i \in Items : out'[i] = IF i \in {"channels", "entry"} THEN out[i] - 1 ELSE out[i]
  BY ClearEffect
<1>2. PICK S : S = {"channels", "entry"}
  OBVIOUS
<1>3. S \subseteq acb[a].items /\ acb'[a].items = acb[a].items \ S
  BY <1>1, <1>2 DEF Kept
<1>4. \A c \in Actors : c # a => acb'[c].items = acb[c].items
  BY <1>1 DEF Only, SameAcb, Core
<1> QED BY <1>1, <1>2, <1>3, <1>4, OutLeaves

\* The spawner's record comes to hold, and no longer holds, what T has and U had.
LEMMA OutUnder ==
  ASSUME OutOK, ItemsSame,
         \A i \in Items : out'[i] = out[i] + (IF Under(i)' THEN 1 ELSE 0)
                                      - (IF Under(i) THEN 1 ELSE 0)
  PROVE  OutOK'
<1>1. SUFFICES ASSUME NEW i \in Items
               PROVE  out'[i] = Cardinality(With(i)') + (IF Under(i)' THEN 1 ELSE 0)
  BY DEF OutOK
<1>2. With(i)' = With(i) /\ Cardinality(With(i)) \in Nat
  BY WithSame, WithFinite
<1>3. out[i] = Cardinality(With(i)) + (IF Under(i) THEN 1 ELSE 0)
  BY DEF OutOK
<1>4. out'[i] = out[i] + (IF Under(i)' THEN 1 ELSE 0) - (IF Under(i) THEN 1 ELSE 0)
  OBVIOUS
<1>5. CASE Under(i)
  BY <1>2, <1>3, <1>4, <1>5
<1>6. CASE ~Under(i)
  BY <1>2, <1>3, <1>4, <1>6
<1> QED BY <1>5, <1>6

\* no mailbox changes
LEMMA ItemsUnchanged == ASSUME UNCHANGED acb PROVE ItemsSame
  BY DEF ItemsSame

\* only counts change
LEMMA ItemsCores == ASSUME Cores PROVE ItemsSame
  BY DEF ItemsSame, Cores, SameAcb, Core

\* what the spawner's record has, at each of its steps
LEMMA UnderIs ==
  ASSUME NEW i
  PROVE  /\ sp.cleanup /\ sp.pc = "reserve" => (Under(i) <=> i \in Got)
         /\ sp.cleanup /\ sp.pc = "init" => (Under(i) <=> i \in Got \cup {"channels"})
         /\ ~sp.cleanup => ~Under(i)
  BY DEF Under

\* the same after a step
LEMMA UnderPrimed ==
  ASSUME NEW i
  PROVE  /\ sp'.cleanup /\ sp'.pc = "reserve" => (Under(i)' <=> i \in Got')
         /\ sp'.cleanup /\ sp'.pc = "init" => (Under(i)' <=> i \in Got' \cup {"channels"})
         /\ ~sp'.cleanup => ~Under(i)'
  BY DEF Under

\* a step of someone else
LEMMA GotKept == ASSUME sp'.kind = sp.kind, sp'.n = sp.n PROVE Got' = Got /\ Wants' = Wants
  BY DEF Got, Wants

\* a reservation is recorded
LEMMA GotGrows ==
  ASSUME Types, sp.n < 6, sp'.kind = sp.kind, sp'.n = sp.n + 1
  PROVE  Got' = Got \cup {Wants}
<1>1. Got' = {Order(sp.kind)[i] : i \in 1..(sp.n + 1)}
  BY DEF Got
<1> QED BY <1>1, WantsNew

\* an admission begins with nothing
LEMMA OutAdmit ==
  ASSUME Types, OutOK, SpawnerOK, NEW kind \in {"heap", "inbox"}, Admit(kind)
  PROVE  OutOK'
<1>1. /\ sp.pc = "idle" /\ UNCHANGED <<acb, out>> /\ sp'.pc = "reserve" /\ sp'.n = 0
      /\ sp'.cleanup = TRUE
  BY AdmitEffect
<1>2. ~sp.cleanup /\ Got' = {} /\ ItemsSame
  BY <1>1, ItemsUnchanged DEF SpawnerOK, Got
<1>3. ASSUME NEW i \in Items PROVE ~Under(i)' /\ ~Under(i) /\ out'[i] = out[i] /\ out[i] \in Int
  BY <1>1, <1>2, UnderIs, UnderPrimed DEF Types
<1> QED BY <1>2, <1>3, OutUnder

\* a reservation is counted with the record
LEMMA OutReserve ==
  ASSUME Types, OutOK, SpawnerOK, Reserve
  PROVE  OutOK'
<1>1. /\ sp.pc = "reserve" /\ sp.n < 6 /\ UNCHANGED acb
      /\ \A i \in Items : out'[i] = IF i = Wants THEN out[i] + 1 ELSE out[i]
      /\ sp'.pc = sp.pc /\ sp'.kind = sp.kind /\ sp'.n = sp.n + 1 /\ sp'.cleanup = sp.cleanup
  BY ReserveEffect
<1>2. sp.cleanup /\ Wants \notin Got /\ Got' = Got \cup {Wants} /\ ItemsSame
  BY <1>1, GotGrows, WantsNew, ItemsUnchanged DEF SpawnerOK
<1>3. ASSUME NEW i \in Items
      PROVE  out'[i] = out[i] + (IF Under(i)' THEN 1 ELSE 0) - (IF Under(i) THEN 1 ELSE 0)
  <2>1. (Under(i) <=> i \in Got) /\ (Under(i)' <=> i \in Got \cup {Wants})
    BY <1>1, <1>2, UnderIs, UnderPrimed
  <2>2. out[i] \in Int
    BY DEF Types
  <2> QED BY <1>1, <1>2, <2>1, <2>2
<1> QED BY <1>2, <1>3, OutUnder

\* the block too, before it is initialised
LEMMA OutTakeBlock ==
  ASSUME Types, OutOK, SpawnerOK, NEW b \in Blocks, TakeBlock(b)
  PROVE  OutOK'
<1>1. /\ sp.pc = "reserve" /\ sp.n < 6 /\ UNCHANGED acb /\ Wants = "channels"
      /\ \A i \in Items : out'[i] = IF i = "channels" THEN out[i] + 1 ELSE out[i]
      /\ sp'.pc = "init" /\ sp'.kind = sp.kind /\ sp'.n = sp.n /\ sp'.cleanup = sp.cleanup
  BY TakeBlockEffect
<1>2. sp.cleanup /\ "channels" \notin Got /\ Got' = Got /\ ItemsSame
  BY <1>1, GotKept, WantsNew, ItemsUnchanged DEF SpawnerOK
<1>3. ASSUME NEW i \in Items
      PROVE  out'[i] = out[i] + (IF Under(i)' THEN 1 ELSE 0) - (IF Under(i) THEN 1 ELSE 0)
  <2>1. (Under(i) <=> i \in Got) /\ (Under(i)' <=> i \in Got \cup {"channels"})
    BY <1>1, <1>2, UnderIs, UnderPrimed
  <2>2. out[i] \in Int
    BY DEF Types
  <2> QED BY <1>1, <1>2, <2>1, <2>2
<1> QED BY <1>2, <1>3, OutUnder

\* and after
LEMMA OutInitBlock ==
  ASSUME Types, OutOK, SpawnerOK, InitBlock
  PROVE  OutOK'
<1>1. /\ sp.pc = "init" /\ UNCHANGED out /\ Cores
      /\ sp'.pc = "reserve" /\ sp'.kind = sp.kind /\ sp'.n = sp.n + 1
           /\ sp'.cleanup = sp.cleanup
  BY InitBlockEffect
<1>2. sp.cleanup /\ sp.n < 6 /\ Wants = "channels" /\ ItemsSame
  BY <1>1, ItemsCores DEF SpawnerOK
<1>3. Got' = Got \cup {"channels"}
  BY <1>1, <1>2, GotGrows
<1>4. ASSUME NEW i \in Items
      PROVE  out'[i] = out[i] + (IF Under(i)' THEN 1 ELSE 0) - (IF Under(i) THEN 1 ELSE 0)
  <2>1. Under(i)' <=> Under(i)
    BY <1>1, <1>2, <1>3, UnderIs, UnderPrimed
  <2>2. out[i] \in Int
    BY DEF Types
  <2> QED BY <1>1, <2>1, <2>2
<1> QED BY <1>2, <1>4, OutUnder

\* what the record had is the actor's
LEMMA OutBuild ==
  ASSUME Types, OutOK, SpawnerOK, sp.ch \in Blocks, NEW a \in Actors, acb[a].items = {},
           Build(a)
  PROVE  OutOK'
<1>1. /\ sp.pc = "reserve" /\ UNCHANGED out /\ acb'[a].items = Got /\ ~sp'.cleanup
      /\ \A b \in Actors : b # a => acb'[b] = acb[b]
  BY BuildEffect
<1>2. sp.cleanup
  BY <1>1 DEF SpawnerOK
<1>3. SUFFICES ASSUME NEW i \in Items
               PROVE  out'[i] = Cardinality(With(i)') + (IF Under(i)' THEN 1 ELSE 0)
  BY DEF OutOK
<1>4. (Under(i) <=> i \in Got) /\ ~Under(i)'
  BY <1>1, <1>2, UnderIs, UnderPrimed
<1>5. out[i] = Cardinality(With(i)) + (IF Under(i) THEN 1 ELSE 0)
  BY DEF OutOK
<1>6. IsFiniteSet(With(i)) /\ Cardinality(With(i)) \in Nat
  BY WithFinite
<1>7. CASE i \in Got
  <2>1. a \notin With(i) /\ With(i)' = With(i) \cup {a}
    BY <1>1, <1>7 DEF With
  <2>2. Cardinality(With(i)') = Cardinality(With(i)) + 1
    BY <1>6, <2>1, FS_AddElement
  <2> QED BY <1>1, <1>4, <1>5, <1>6, <1>7, <2>2
<1>8. CASE i \notin Got
  <2>1. With(i)' = With(i)
    BY <1>1, <1>8 DEF With
  <2> QED BY <1>1, <1>4, <1>5, <1>6, <1>8, <2>1
<1> QED BY <1>7, <1>8

\* or given back
LEMMA OutRolledBack ==
  ASSUME Types, OutOK, UNCHANGED acb, sp.cleanup, sp.pc = "reserve", RolledBack, ~sp'.cleanup
  PROVE  OutOK'
<1>1. ItemsSame /\ \A i \in Items : out'[i] = IF i \in Got THEN out[i] - 1 ELSE out[i]
  BY ItemsUnchanged DEF RolledBack
<1>2. ASSUME NEW i \in Items
      PROVE  out'[i] = out[i] + (IF Under(i)' THEN 1 ELSE 0) - (IF Under(i) THEN 1 ELSE 0)
  <2>1. (Under(i) <=> i \in Got) /\ ~Under(i)'
    BY UnderIs, UnderPrimed
  <2>2. out[i] \in Int
    BY DEF Types
  <2> QED BY <1>1, <2>1, <2>2
<1> QED BY <1>1, <1>2, OutUnder

\* the spawner is killed with nothing in its record
LEMMA OutSpSame ==
  ASSUME Types, OutOK, UNCHANGED <<acb, out>>,
         \/ ~sp.cleanup /\ ~sp'.cleanup
         \/ sp'.pc = sp.pc /\ sp'.kind = sp.kind /\ sp'.n = sp.n /\ sp'.cleanup = sp.cleanup
  PROVE  OutOK'
<1>1. ItemsSame
  BY ItemsUnchanged
<1>2. ASSUME NEW i \in Items
      PROVE  out'[i] = out[i] + (IF Under(i)' THEN 1 ELSE 0) - (IF Under(i) THEN 1 ELSE 0)
  <2>1. Under(i)' <=> Under(i)
    BY DEF Under, Got, Wants
  <2>2. out[i] \in Int
    BY DEF Types
  <2> QED BY <2>1, <2>2
<1> QED BY <1>1, <1>2, OutUnder

-----------------------------------------------------------------------------
\* A block has one holder, and its rings are for its last actor: BlocksOK.

\* The lives in which an actor holds its block.
Holdings == {"built", "claimed", "drained"}
HolderSame(a) ==
  /\ acb'[a].ch = acb[a].ch /\ acb'[a].bounded = acb[a].bounded
  /\ acb'[a].life \in Holdings <=> acb[a].life \in Holdings
  /\ acb'[a].life = "limbo" <=> acb[a].life = "limbo"
BlkSame(b) == blk'[b].at = blk[b].at /\ blk'[b].owner = blk[b].owner
SpSame == \A b \in Blocks : SpHolds(b)' <=> SpHolds(b)
HomeSame ==
  \A a \in Actors : acb[a].life = "limbo" =>
    blk'[acb[a].ch].since[Home] = blk[acb[a].ch].since[Home]

\* when holders, records and the places of blocks stay, so does what is said of them
LEMMA KeptFrame ==
  ASSUME BlocksOK, LivesOK, Types, \A a \in Actors : HolderSame(a), SpSame, HomeSame,
         \A b \in Blocks : BlkSame(b),
         \A b \in Blocks : blk'[b].q \subseteq blk[b].q \/ blk[b].at # "list"
  PROVE  Kept1' /\ Kept2' /\ Kept3' /\ Kept4' /\ Kept5'
<1>1. ASSUME NEW a \in Actors, NEW b \in Blocks PROVE Holds(a, b)' <=> Holds(a, b)
  BY DEF HolderSame, Holds, Holdings
<1>2. Kept1 /\ Kept2 /\ Kept3 /\ Kept4 /\ Kept5
  BY DEF BlocksOK
<1>3. Kept1' /\ Kept2'
  BY <1>1, <1>2 DEF Kept1, Kept2, SpSame, BlkSame
<1>4. Kept3'
  BY <1>1, <1>2 DEF Kept3, BlkSame, HolderSame
<1>5. Kept4'
  <2> SUFFICES ASSUME NEW a \in Actors, acb'[a].life = "limbo"
               PROVE  /\ blk'[acb'[a].ch].at = "limbo" /\ blk'[acb'[a].ch].since[Home] = 0
                      /\ blk'[acb'[a].ch].owner = IF acb'[a].bounded THEN a ELSE None
    BY DEF Kept4
  <2>1. acb[a].life = "limbo" /\ acb'[a].ch = acb[a].ch /\ acb'[a].bounded = acb[a].bounded
    BY DEF HolderSame
  <2>2. acb[a].ch # None
    BY <2>1 DEF LivesOK, LifeOK
  <2>3. acb[a].ch \in Blocks
    BY <2>2, AcbType DEF Types
  <2> QED BY <1>2, <2>1, <2>3 DEF Kept4, BlkSame, HomeSame
<1>6. Kept5'
  BY <1>2 DEF Kept5, BlkSame
<1> QED BY <1>3, <1>4, <1>5, <1>6

\* Entries only leave, and their actors go on.
LEMMA EntriesFrame ==
  ASSUME Types, Kept6,
         \A b \in Blocks : blk'[b].owner = blk[b].owner /\ blk'[b].q \subseteq blk[b].q,
         \A a \in Actors : /\ acb'[a].bounded = acb[a].bounded
                           /\ acb[a].var # "unborn" => acb'[a].var # "unborn"
                           /\ acb[a].life \in {"built", "claimed"} =>
                                acb'[a].life \in {"built", "claimed"} /\ acb'[a].ch = acb[a].ch
  PROVE  Kept6'
<1> SUFFICES ASSUME NEW b \in Blocks, NEW e \in blk'[b].q
             PROVE  /\ acb'[e.to].var # "unborn"
                    /\ blk'[b].owner = IF acb'[e.to].bounded THEN e.to ELSE None
                    /\ acb'[e.to].bounded =>
                         acb'[e.to].life \in {"built", "claimed"} /\ acb'[e.to].ch = b
  BY DEF Kept6
<1>1. e \in blk[b].q /\ blk[b].q \subseteq Entry
  BY BlkType DEF Types
<1>2. e.to \in Actors
  BY <1>1 DEF Entry
<1> QED BY <1>1, <1>2 DEF Kept6

\* an entry's actor and message
LEMMA EntryTo == ASSUME Types, NEW b \in Blocks, NEW e \in blk[b].q
                 PROVE e \in Entry /\ e.to \in Actors /\ e.m \in Messages
<1>1. blk[b].q \subseteq Entry
  BY BlkType DEF Types
<1> QED BY <1>1 DEF Entry

\* What the steps of senders, receivers and harts have in common.
LEMMA BlocksFrame ==
  ASSUME Types, BlocksOK, LivesOK, \A a \in Actors : HolderSame(a), SpSame, HomeSame,
         \A b \in Blocks : BlkSame(b) /\ blk'[b].q \subseteq blk[b].q,
         \A a \in Actors : /\ acb[a].var # "unborn" => acb'[a].var # "unborn"
                           /\ acb[a].life \in {"built", "claimed"} =>
                                acb'[a].life \in {"built", "claimed"}
  PROVE  BlocksOK'
<1>1. Kept1' /\ Kept2' /\ Kept3' /\ Kept4' /\ Kept5'
  BY KeptFrame
<1>2. Kept6'
  BY EntriesFrame DEF BlocksOK, BlkSame, HolderSame
<1> QED BY <1>1, <1>2 DEF BlocksOK

\* A message is put into a block.
LEMMA BlocksPut ==
  ASSUME Types, BlocksOK, LivesOK, \A a \in Actors : HolderSame(a), SpSame,
         \A a \in Actors : acb'[a].var = acb[a].var /\ acb'[a].life = acb[a].life,
         NEW b \in Blocks, NEW e \in Entry, Rings(b, blk[b].q \cup {e}), blk[b].at # "list",
         acb[e.to].var # "unborn", blk[b].owner = IF acb[e.to].bounded THEN e.to ELSE None,
         acb[e.to].bounded => acb[e.to].life \in {"built", "claimed"} /\ acb[e.to].ch = b
  PROVE  BlocksOK'
<1>1. \A c \in Blocks : BlkSame(c) /\ blk'[c].since = blk[c].since
  BY DEF Rings, BlkSame
<1>2. \A c \in Blocks : blk'[c].q \subseteq blk[c].q \/ blk[c].at # "list"
  BY DEF Rings
<1>3. HomeSame
  <2> SUFFICES ASSUME NEW a \in Actors, acb[a].life = "limbo"
               PROVE  blk'[acb[a].ch].since[Home] = blk[acb[a].ch].since[Home]
    BY DEF HomeSame
  <2>1. acb[a].ch \in Blocks
    BY AcbType DEF LivesOK, LifeOK, Types
  <2> QED BY <1>1, <2>1
<1>4. Kept1' /\ Kept2' /\ Kept3' /\ Kept4' /\ Kept5'
  BY <1>1, <1>2, <1>3, KeptFrame
<1>5. Kept6'
  <2> SUFFICES ASSUME NEW c \in Blocks, NEW d \in blk'[c].q
               PROVE  /\ acb'[d.to].var # "unborn"
                      /\ blk'[c].owner = IF acb'[d.to].bounded THEN d.to ELSE None
                      /\ acb'[d.to].bounded =>
                           acb'[d.to].life \in {"built", "claimed"} /\ acb'[d.to].ch = c
    BY DEF Kept6
  <2>1. d \in blk[c].q \/ (c = b /\ d = e)
    <3>1. CASE c = b
      <4>1. blk'[b].q = blk[b].q \cup {e}
        BY DEF Rings
      <4> QED BY <3>1, <4>1
    <3>2. CASE c # b
      BY <3>2 DEF Rings
    <3> QED BY <3>1, <3>2
  <2>2. e.to \in Actors /\ Kept6 /\ blk'[c].owner = blk[c].owner
    BY <1>1 DEF Entry, BlocksOK, BlkSame
  <2>3. CASE d \in blk[c].q
    <3>1. d.to \in Actors
      BY <2>3, EntryTo
    <3> QED BY <2>2, <2>3, <3>1 DEF Kept6, HolderSame
  <2>4. CASE c = b /\ d = e
    BY <2>2, <2>4 DEF HolderSame
  <2> QED BY <2>1, <2>3, <2>4
<1> QED BY <1>4, <1>5 DEF BlocksOK

\* only counts change
LEMMA HolderCores == ASSUME Cores PROVE \A a \in Actors : HolderSame(a)
  BY DEF Cores, SameAcb, Core, HolderSame

\* a lock word changes
LEMMA HolderLocked ==
  ASSUME NEW a \in Actors, NEW v, Locked(a, v) PROVE \A b \in Actors : HolderSame(b)
  BY DEF Locked, SameAcb, Core, HolderSame

\* the spawner's block stays its own
LEMMA SpUnchanged ==
  ASSUME sp'.cleanup = sp.cleanup, sp'.ch = sp.ch PROVE SpSame
  BY DEF SpSame, SpHolds

\* no hart leaves a block behind
LEMMA HomeBlks == ASSUME Types, LivesOK, \A b \in Blocks : blk'[b].since = blk[b].since
  PROVE HomeSame
<1> SUFFICES ASSUME NEW a \in Actors, acb[a].life = "limbo"
             PROVE  blk'[acb[a].ch].since[Home] = blk[acb[a].ch].since[Home]
  BY DEF HomeSame
<1>1. acb[a].ch \in Blocks
  BY AcbType DEF LivesOK, LifeOK, Types
<1> QED BY <1>1

\* the drain leaves the rings of its block empty
LEMMA BlocksDrain ==
  ASSUME Types, BlocksOK, LivesOK, NEW a \in Actors, NEW b \in Blocks, acb[a].ch = b, Drain(a)
  PROVE  BlocksOK'
<1>1. /\ acb[a].life = "claimed" /\ UNCHANGED sp /\ Only(a) /\ acb'[a].life = "drained"
      /\ acb'[a].var = acb[a].var /\ acb'[a].ch = b /\ Rings(b, {})
  BY DrainEffect
<1>2. \A c \in Actors : HolderSame(c)
  BY <1>1 DEF Only, SameAcb, Core, HolderSame, Holdings
<1>3. SpSame
  BY <1>1, SpUnchanged
<1>4. \A c \in Blocks : BlkSame(c) /\ blk'[c].q \subseteq blk[c].q
        /\ blk'[c].since = blk[c].since
  BY <1>1 DEF Rings, BlkSame
<1>5. HomeSame
  BY <1>4, HomeBlks
<1>6. Kept1' /\ Kept2' /\ Kept3' /\ Kept4' /\ Kept5'
  BY <1>2, <1>3, <1>4, <1>5, KeptFrame
<1>7. Kept6'
  <2> SUFFICES ASSUME NEW c \in Blocks, NEW e \in blk'[c].q
               PROVE  /\ acb'[e.to].var # "unborn"
                      /\ blk'[c].owner = IF acb'[e.to].bounded THEN e.to ELSE None
                      /\ acb'[e.to].bounded =>
                           acb'[e.to].life \in {"built", "claimed"} /\ acb'[e.to].ch = c
    BY DEF Kept6
  <2>1. c # b /\ e \in blk[c].q /\ blk'[c].owner = blk[c].owner
    BY <1>1 DEF Rings
  <2>2. e.to \in Actors
    BY <2>1, EntryTo
  <2>3. /\ acb[e.to].var # "unborn"
        /\ blk[c].owner = IF acb[e.to].bounded THEN e.to ELSE None
        /\ acb[e.to].bounded => acb[e.to].life \in {"built", "claimed"} /\ acb[e.to].ch = c
    BY <2>1 DEF BlocksOK, Kept6
  <2>4. CASE e.to = a
    BY <1>1, <2>1, <2>3, <2>4 DEF Only
  <2>5. CASE e.to # a
    BY <1>1, <2>1, <2>2, <2>3, <2>5 DEF Only, SameAcb, Core
  <2> QED BY <2>4, <2>5
<1> QED BY <1>6, <1>7 DEF BlocksOK

\* a block in limbo has no holder and is not left behind yet
LEMMA BlocksLimbo ==
  ASSUME Types, BlocksOK, LivesOK, NEW a \in Actors, NEW b \in Blocks, acb[a].ch = b, Limbo(a)
  PROVE  BlocksOK'
<1>1. /\ acb[a].life = "drained" /\ UNCHANGED sp /\ Only(a) /\ acb'[a].life = "limbo"
      /\ acb'[a].var = acb[a].var /\ acb'[a].ch = acb[a].ch
      /\ \A c \in Blocks : c # b => blk'[c] = blk[c]
      /\ blk'[b].at = "limbo" /\ blk'[b].q = blk[b].q /\ blk'[b].owner = blk[b].owner
      /\ \A h \in Harts : blk'[b].since[h] = 0
  BY LimboEffect
<1>2. Kept1 /\ Kept2 /\ Kept3 /\ Kept4 /\ Kept5 /\ Kept6
  BY DEF BlocksOK
<1>3. Holds(a, b) /\ \A c \in Blocks : ~Holds(a, c)'
  BY <1>1 DEF Holds
<1>4. \A c \in Actors, d \in Blocks : c # a => (Holds(c, d)' <=> Holds(c, d))
  BY <1>1 DEF Only, SameAcb, Core, Holds
<1>5. /\ blk[b].at = "held" /\ blk[b].owner = IF acb[a].bounded THEN a ELSE None
      /\ \A c \in Actors : Holds(c, b) => c = a
  BY <1>2, <1>3 DEF Kept3
<1>6. \A c \in Blocks : SpHolds(c)' <=> SpHolds(c)
  BY <1>1 DEF SpHolds
<1>7. Home \in Harts
  BY DEF Harts
<1>8. Kept1'
  <2> SUFFICES ASSUME NEW d \in Blocks, blk'[d].at = "held"
               PROVE  SpHolds(d)' \/ \E c \in Actors : Holds(c, d)'
    BY DEF Kept1
  <2>1. d # b /\ blk[d].at = "held"
    BY <1>1
  <2>2. SpHolds(d) \/ \E c \in Actors : Holds(c, d)
    BY <1>2, <2>1 DEF Kept1
  <2>3. ~Holds(a, d)
    BY <1>3, <2>1 DEF Holds
  <2> QED BY <1>4, <1>6, <2>2, <2>3
<1>9. Kept2'
  <2> SUFFICES ASSUME NEW d \in Blocks, SpHolds(d)'
               PROVE  blk'[d].at = "held" /\ \A c \in Actors : ~Holds(c, d)'
    BY DEF Kept2
  <2>1. blk[d].at = "held" /\ \A c \in Actors : ~Holds(c, d)
    BY <1>2, <1>6 DEF Kept2
  <2>2. d # b
    BY <1>3, <2>1
  <2> QED BY <1>1, <1>3, <1>4, <2>1, <2>2
<1>10. Kept3'
  <2> SUFFICES ASSUME NEW c \in Actors, NEW d \in Blocks, Holds(c, d)'
               PROVE  /\ blk'[d].at = "held"
                      /\ blk'[d].owner = IF acb'[c].bounded THEN c ELSE None
                      /\ \A c2 \in Actors : Holds(c2, d)' => c2 = c
    BY DEF Kept3
  <2>1. c # a /\ Holds(c, d)
    BY <1>3, <1>4
  <2>2. d # b
    BY <1>5, <2>1
  <2>3. /\ blk[d].at = "held" /\ blk[d].owner = IF acb[c].bounded THEN c ELSE None
        /\ \A c2 \in Actors : Holds(c2, d) => c2 = c
    BY <1>2, <2>1 DEF Kept3
  <2>4. acb'[c].bounded = acb[c].bounded
    BY <1>1, <2>1 DEF Only, SameAcb, Core
  <2> QED BY <1>1, <1>3, <1>4, <2>1, <2>2, <2>3, <2>4
<1>11. Kept4'
  <2> SUFFICES ASSUME NEW c \in Actors, acb'[c].life = "limbo"
               PROVE  /\ blk'[acb'[c].ch].at = "limbo" /\ blk'[acb'[c].ch].since[Home] = 0
                      /\ blk'[acb'[c].ch].owner = IF acb'[c].bounded THEN c ELSE None
    BY DEF Kept4
  <2>1. CASE c = a
    BY <1>1, <1>5, <1>7, <2>1 DEF Only
  <2>2. CASE c # a
    <3>1. acb[c].life = "limbo" /\ acb'[c].ch = acb[c].ch /\ acb'[c].bounded = acb[c].bounded
      BY <1>1, <2>2 DEF Only, SameAcb, Core
    <3>2. acb[c].ch \in Blocks
      BY <3>1, AcbType DEF LivesOK, LifeOK, Types
    <3>3. /\ blk[acb[c].ch].at = "limbo" /\ blk[acb[c].ch].since[Home] = 0
          /\ blk[acb[c].ch].owner = IF acb[c].bounded THEN c ELSE None
      BY <1>2, <3>1 DEF Kept4
    <3>4. acb[c].ch # b
      BY <1>5, <3>3
    <3> QED BY <1>1, <3>1, <3>2, <3>3, <3>4
  <2> QED BY <2>1, <2>2
<1>12. Kept5'
  BY <1>1, <1>2 DEF Kept5
<1>13. Kept6'
  <2>1. \A c \in Blocks : blk'[c].owner = blk[c].owner /\ blk'[c].q \subseteq blk[c].q
    BY <1>1
  <2>2. \A c \in Actors : /\ acb'[c].bounded = acb[c].bounded
                          /\ acb[c].var # "unborn" => acb'[c].var # "unborn"
                          /\ acb[c].life \in {"built", "claimed"} =>
                                acb'[c].life \in {"built", "claimed"} /\ acb'[c].ch = acb[c].ch
    BY <1>1 DEF Only, SameAcb, Core
  <2> QED BY <1>2, <2>1, <2>2, EntriesFrame
<1> QED BY <1>8, <1>9, <1>10, <1>11, <1>12, <1>13 DEF BlocksOK

\* the actor forgets its block after the home hart has come round
LEMMA BlocksClear ==
  ASSUME Types, BlocksOK, LivesOK, NEW a \in Actors, Clear(a)
  PROVE  BlocksOK'
<1>1. /\ acb[a].life = "limbo" /\ UNCHANGED <<blk, sp>> /\ Only(a) /\ acb'[a].life = "gone"
      /\ acb'[a].var = acb[a].var
  BY ClearEffect
<1>2. Kept1 /\ Kept2 /\ Kept3 /\ Kept4 /\ Kept5 /\ Kept6
  BY DEF BlocksOK
<1>3. \A c \in Actors, d \in Blocks : Holds(c, d)' <=> Holds(c, d)
  <2> SUFFICES ASSUME NEW c \in Actors, NEW d \in Blocks PROVE Holds(c, d)' <=> Holds(c, d)
    OBVIOUS
  <2>1. CASE c = a
    BY <1>1, <2>1 DEF Holds
  <2>2. CASE c # a
    BY <1>1, <2>2 DEF Only, SameAcb, Core, Holds
  <2> QED BY <2>1, <2>2
<1>4. \A c \in Blocks : SpHolds(c)' <=> SpHolds(c)
  BY <1>1 DEF SpHolds
<1>5. Kept1' /\ Kept2'
  BY <1>1, <1>2, <1>3, <1>4 DEF Kept1, Kept2
<1>6. \A c \in Actors : acb'[c].bounded = acb[c].bounded
  BY <1>1 DEF Only, SameAcb, Core
<1>7. Kept3'
  BY <1>1, <1>2, <1>3, <1>6 DEF Kept3
<1>8. Kept4'
  BY <1>1, <1>2, <1>6 DEF Kept4, Only, SameAcb, Core
<1>9. Kept5'
  BY <1>1, <1>2 DEF Kept5
<1>10. Kept6'
  <2>1. \A c \in Blocks : blk'[c].owner = blk[c].owner /\ blk'[c].q \subseteq blk[c].q
    BY <1>1
  <2>2. \A c \in Actors : /\ acb'[c].bounded = acb[c].bounded
                          /\ acb[c].var # "unborn" => acb'[c].var # "unborn"
                          /\ acb[c].life \in {"built", "claimed"} =>
                                acb'[c].life \in {"built", "claimed"} /\ acb'[c].ch = acb[c].ch
    BY <1>1 DEF Only, SameAcb, Core
  <2> QED BY <1>2, <2>1, <2>2, EntriesFrame
<1> QED BY <1>5, <1>7, <1>8, <1>9, <1>10 DEF BlocksOK

\* an actor in limbo still names its block
LEMMA LimboBlock == ASSUME Types, LivesOK, NEW a \in Actors, acb[a].life = "limbo"
                    PROVE acb[a].ch \in Blocks
  BY AcbType DEF LivesOK, LifeOK, Types

\* before the block is taken the record has none
LEMMA SpNone ==
  ASSUME Types, SpawnerOK, sp.pc = "reserve", "channels" \notin Got
  PROVE  sp.cleanup /\ sp.ch = None /\ \A b \in Blocks : ~SpHolds(b)
<1>1. sp.cleanup /\ sp.ch = None
  BY DEF SpawnerOK
<1> QED BY <1>1, Const DEF SpHolds

\* a block is taken that nobody holds
LEMMA BlocksTakeBlock ==
  ASSUME Types, BlocksOK, LivesOK, SpawnerOK, NEW b \in Blocks, TakeBlock(b)
  PROVE  BlocksOK'
<1>1. /\ sp.pc = "reserve" /\ sp.n < 6 /\ Wants = "channels"
      /\ (blk[b].at = "limbo" /\ Matured(b)) \/ blk[b].at = "list"
      /\ UNCHANGED acb
      /\ sp'.ch = b /\ sp'.cleanup = sp.cleanup
      /\ \A c \in Blocks : c # b => blk'[c] = blk[c]
      /\ blk'[b].at = "held" /\ blk'[b].q = blk[b].q /\ blk'[b].owner = blk[b].owner
  BY TakeBlockEffect
<1>2. Kept1 /\ Kept2 /\ Kept3 /\ Kept4 /\ Kept5 /\ Kept6
  BY DEF BlocksOK
<1>3. sp.cleanup /\ \A c \in Blocks : ~SpHolds(c)
  BY <1>1, WantsNew, SpNone
<1>4. \A c \in Blocks : SpHolds(c)' <=> c = b
  BY <1>1, <1>3 DEF SpHolds
<1>5. \A c \in Actors, d \in Blocks : Holds(c, d)' <=> Holds(c, d)
  BY <1>1 DEF Holds
<1>6. \A c \in Actors : ~Holds(c, b)
  BY <1>1, <1>2 DEF Kept3
<1>7. Kept1'
  BY <1>1, <1>2, <1>3, <1>4, <1>5 DEF Kept1
<1>8. Kept2'
  BY <1>1, <1>4, <1>5, <1>6 DEF Kept2
<1>9. Kept3'
  BY <1>1, <1>2, <1>5, <1>6 DEF Kept3
<1>10. Kept4'
  <2> SUFFICES ASSUME NEW c \in Actors, acb[c].life = "limbo"
               PROVE  /\ blk'[acb[c].ch].at = "limbo" /\ blk'[acb[c].ch].since[Home] = 0
                      /\ blk'[acb[c].ch].owner = IF acb[c].bounded THEN c ELSE None
    BY <1>1 DEF Kept4
  <2>1. /\ blk[acb[c].ch].at = "limbo" /\ blk[acb[c].ch].since[Home] = 0
        /\ blk[acb[c].ch].owner = IF acb[c].bounded THEN c ELSE None
    BY <1>2 DEF Kept4
  <2>2. acb[c].ch \in Blocks
    BY LimboBlock
  <2>3. acb[c].ch # b
    <3>1. CASE blk[b].at = "list"
      BY <2>1, <3>1
    <3>2. CASE Matured(b)
      <4>1. blk[b].since[Home] >= 2
        BY <3>2 DEF Matured, Harts
      <4> QED BY <2>1, <4>1
    <3> QED BY <1>1, <3>1, <3>2
  <2> QED BY <1>1, <2>1, <2>2, <2>3
<1>11. Kept5'
  BY <1>1, <1>2 DEF Kept5
<1>12. Kept6'
  <2>1. \A c \in Blocks : blk'[c].owner = blk[c].owner /\ blk'[c].q \subseteq blk[c].q
    BY <1>1
  <2> QED BY <1>1, <1>2, <2>1, EntriesFrame
<1> QED BY <1>7, <1>8, <1>9, <1>10, <1>11, <1>12 DEF BlocksOK

\* chan_init empties it
LEMMA BlocksInitBlock ==
  ASSUME Types, BlocksOK, LivesOK, SpawnerOK, InitBlock
  PROVE  BlocksOK'
<1>1. PICK b \in Blocks : b = sp.ch
  BY InitBlockEffect
<1>2. /\ sp.pc = "init" /\ Cores /\ sp'.ch = b /\ sp'.cleanup = sp.cleanup
      /\ \A c \in Blocks : c # b => blk'[c] = blk[c]
      /\ blk'[b].at = "held" /\ blk'[b].q = {} /\ blk'[b].owner = None
  BY <1>1, InitBlockEffect
<1>3. Kept1 /\ Kept2 /\ Kept3 /\ Kept4 /\ Kept5 /\ Kept6
  BY DEF BlocksOK
<1>4. SpHolds(b)
  BY <1>1, <1>2 DEF SpawnerOK, SpHolds
<1>5. blk[b].at = "held" /\ \A c \in Actors : ~Holds(c, b)
  BY <1>3, <1>4 DEF Kept2
<1>6. \A c \in Blocks : SpHolds(c)' <=> SpHolds(c)
  BY <1>1, <1>2 DEF SpHolds
<1>7. \A c \in Actors, d \in Blocks : Holds(c, d)' <=> Holds(c, d)
  BY <1>2 DEF Cores, SameAcb, Core, Holds
<1>8. \A c \in Actors : acb'[c].bounded = acb[c].bounded /\ acb'[c].ch = acb[c].ch
                        /\ acb'[c].life = acb[c].life /\ acb'[c].var = acb[c].var
  BY <1>2 DEF Cores, SameAcb, Core
<1>9. Kept1'
  BY <1>2, <1>3, <1>4, <1>6, <1>7 DEF Kept1
<1>10. Kept2'
  BY <1>2, <1>3, <1>5, <1>6, <1>7 DEF Kept2
<1>11. Kept3'
  BY <1>2, <1>3, <1>5, <1>7, <1>8 DEF Kept3
<1>12. Kept4'
  <2> SUFFICES ASSUME NEW c \in Actors, acb[c].life = "limbo"
               PROVE  /\ blk'[acb[c].ch].at = "limbo" /\ blk'[acb[c].ch].since[Home] = 0
                      /\ blk'[acb[c].ch].owner = IF acb[c].bounded THEN c ELSE None
    BY <1>8 DEF Kept4
  <2>1. /\ blk[acb[c].ch].at = "limbo" /\ blk[acb[c].ch].since[Home] = 0
        /\ blk[acb[c].ch].owner = IF acb[c].bounded THEN c ELSE None
    BY <1>3 DEF Kept4
  <2>2. acb[c].ch \in Blocks /\ acb[c].ch # b
    BY <1>5, <2>1, LimboBlock
  <2> QED BY <1>2, <2>1, <2>2
<1>13. Kept5'
  BY <1>2, <1>3 DEF Kept5
<1>14. Kept6'
  <2> SUFFICES ASSUME NEW c \in Blocks, NEW e \in blk'[c].q
               PROVE  /\ acb'[e.to].var # "unborn"
                      /\ blk'[c].owner = IF acb'[e.to].bounded THEN e.to ELSE None
                      /\ acb'[e.to].bounded =>
                           acb'[e.to].life \in {"built", "claimed"} /\ acb'[e.to].ch = c
    BY DEF Kept6
  <2>1. c # b /\ blk'[c] = blk[c] /\ e \in blk[c].q
    BY <1>2
  <2>2. e.to \in Actors
    BY <2>1, EntryTo
  <2> QED BY <1>3, <1>8, <2>1, <2>2 DEF Kept6
<1> QED BY <1>9, <1>10, <1>11, <1>12, <1>13, <1>14 DEF BlocksOK

\* the block goes from the record to the actor
LEMMA BlocksBuild ==
  ASSUME Types, BlocksOK, LivesOK, SpawnerOK, NEW a \in Actors, sp.ch \in Blocks, Build(a)
  PROVE  BlocksOK'
<1>1. PICK b \in Blocks : b = sp.ch
  OBVIOUS
<1>2. /\ sp.pc = "reserve" /\ acb[a].var = "unborn"
      /\ \A c \in Actors : c # a => acb'[c] = acb[c]
      /\ acb'[a].var = "READY" /\ acb'[a].ch = b /\ acb'[a].bounded = (sp.kind = "inbox")
      /\ acb'[a].life = "built"
      /\ \A c \in Blocks : c # b => blk'[c] = blk[c]
      /\ blk'[b].at = blk[b].at /\ blk'[b].q = blk[b].q
      /\ blk'[b].owner = IF sp.kind = "inbox" THEN a ELSE None
      /\ ~sp'.cleanup
  BY <1>1, BuildEffect
<1>3. Kept1 /\ Kept2 /\ Kept3 /\ Kept4 /\ Kept5 /\ Kept6
  BY DEF BlocksOK
<1>4. sp.cleanup /\ SpHolds(b) /\ blk[b].q = {}
  BY <1>1, <1>2, Const DEF SpawnerOK, SpHolds
<1>5. blk[b].at = "held" /\ \A c \in Actors : ~Holds(c, b)
  BY <1>3, <1>4 DEF Kept2
<1>6. acb[a].life = "none"
  BY <1>2 DEF LivesOK, LifeOK
<1>7. \A c \in Actors, d \in Blocks : c # a => (Holds(c, d)' <=> Holds(c, d))
  BY <1>2 DEF Holds
<1>8. \A d \in Blocks : (Holds(a, d)' <=> d = b) /\ ~Holds(a, d)
  BY <1>2, <1>6 DEF Holds
<1>9. \A d \in Blocks : ~SpHolds(d)' /\ (SpHolds(d) => d = b)
  BY <1>1, <1>2 DEF SpHolds
<1>10. Kept1'
  <2> SUFFICES ASSUME NEW d \in Blocks, blk'[d].at = "held" PROVE \E c \in Actors : Holds(c, d)'
    BY DEF Kept1
  <2>1. CASE d = b
    BY <1>8, <2>1
  <2>2. CASE d # b
    <3>1. \E c \in Actors : Holds(c, d)
      BY <1>2, <1>3, <1>9, <2>2 DEF Kept1
    <3> QED BY <1>7, <1>8, <3>1
  <2> QED BY <2>1, <2>2
<1>11. Kept2'
  BY <1>9 DEF Kept2
<1>12. Kept3'
  <2> SUFFICES ASSUME NEW c \in Actors, NEW d \in Blocks, Holds(c, d)'
               PROVE  /\ blk'[d].at = "held"
                      /\ blk'[d].owner = IF acb'[c].bounded THEN c ELSE None
                      /\ \A c2 \in Actors : Holds(c2, d)' => c2 = c
    BY DEF Kept3
  <2>1. CASE c = a
    BY <1>2, <1>5, <1>7, <1>8, <2>1
  <2>2. CASE c # a
    <3>1. Holds(c, d) /\ d # b
      BY <1>5, <1>7, <2>2
    <3>2. /\ blk[d].at = "held" /\ blk[d].owner = IF acb[c].bounded THEN c ELSE None
          /\ \A c2 \in Actors : Holds(c2, d) => c2 = c
      BY <1>3, <3>1 DEF Kept3
    <3> QED BY <1>2, <1>7, <1>8, <2>2, <3>1, <3>2
  <2> QED BY <2>1, <2>2
<1>13. Kept4'
  <2> SUFFICES ASSUME NEW c \in Actors, acb'[c].life = "limbo"
               PROVE  /\ blk'[acb'[c].ch].at = "limbo" /\ blk'[acb'[c].ch].since[Home] = 0
                      /\ blk'[acb'[c].ch].owner = IF acb'[c].bounded THEN c ELSE None
    BY DEF Kept4
  <2>1. c # a /\ acb'[c] = acb[c]
    BY <1>2
  <2>2. /\ blk[acb[c].ch].at = "limbo" /\ blk[acb[c].ch].since[Home] = 0
        /\ blk[acb[c].ch].owner = IF acb[c].bounded THEN c ELSE None
    BY <1>3, <2>1 DEF Kept4
  <2>3. acb[c].ch \in Blocks /\ acb[c].ch # b
    BY <1>5, <2>1, <2>2, LimboBlock
  <2> QED BY <1>2, <2>1, <2>2, <2>3
<1>14. Kept5'
  BY <1>2, <1>3 DEF Kept5
<1>15. Kept6'
  <2> SUFFICES ASSUME NEW c \in Blocks, NEW e \in blk'[c].q
               PROVE  /\ acb'[e.to].var # "unborn"
                      /\ blk'[c].owner = IF acb'[e.to].bounded THEN e.to ELSE None
                      /\ acb'[e.to].bounded =>
                           acb'[e.to].life \in {"built", "claimed"} /\ acb'[e.to].ch = c
    BY DEF Kept6
  <2>1. c # b /\ blk'[c] = blk[c] /\ e \in blk[c].q
    BY <1>2, <1>4
  <2>2. e.to \in Actors /\ acb[e.to].var # "unborn"
    BY <1>3, <2>1, EntryTo DEF Kept6
  <2>3. acb'[e.to] = acb[e.to]
    BY <1>2, <2>2
  <2> QED BY <1>3, <2>1, <2>3 DEF Kept6
<1> QED BY <1>10, <1>11, <1>12, <1>13, <1>14, <1>15 DEF BlocksOK

\* or back to the list, empty
LEMMA BlocksRolledBack ==
  ASSUME Types, BlocksOK, LivesOK, SpawnerOK, sp.pc = "reserve", UNCHANGED acb, RolledBack,
         ~sp'.cleanup
  PROVE  BlocksOK'
<1>1. Kept1 /\ Kept2 /\ Kept3 /\ Kept4 /\ Kept5 /\ Kept6
  BY DEF BlocksOK
<1>2. \A d \in Blocks : ~SpHolds(d)'
  BY DEF SpHolds
<1>3. \A c \in Actors, d \in Blocks : Holds(c, d)' <=> Holds(c, d)
  BY DEF Holds
<1>4. CASE "channels" \notin Got
  <2>1. \A d \in Blocks : ~SpHolds(d)
    BY <1>4, SpNone
  <2>2. UNCHANGED blk
    BY <1>4 DEF RolledBack
  <2>3. Kept1' /\ Kept2' /\ Kept3'
    BY <1>1, <1>2, <1>3, <2>1, <2>2 DEF Kept1, Kept2, Kept3
  <2>4. Kept4' /\ Kept5' /\ Kept6'
    BY <1>1, <2>2 DEF Kept4, Kept5, Kept6
  <2> QED BY <2>3, <2>4 DEF BlocksOK
<1>5. CASE "channels" \in Got
  <2>1. sp.ch # None /\ sp.ch \in Blocks /\ sp.cleanup
    BY <1>5, SpType DEF SpawnerOK
  <2>2. PICK b \in Blocks : b = sp.ch
    BY <2>1
  <2>3. /\ \A c \in Blocks : c # b => blk'[c] = blk[c]
        /\ blk'[b].at = "list" /\ blk'[b].q = blk[b].q /\ blk'[b].owner = blk[b].owner
    BY <1>5, <2>2 DEF RolledBack
  <2>4. SpHolds(b) /\ (\A d \in Blocks : SpHolds(d) => d = b) /\ blk[b].q = {}
    BY <2>1, <2>2 DEF SpHolds, SpawnerOK
  <2>5. blk[b].at = "held" /\ \A c \in Actors : ~Holds(c, b)
    BY <1>1, <2>4 DEF Kept2
  <2>6. Kept1'
    BY <1>1, <1>3, <2>3, <2>4 DEF Kept1
  <2>7. Kept2'
    BY <1>2 DEF Kept2
  <2>8. Kept3'
    BY <1>1, <1>3, <2>3, <2>5 DEF Kept3
  <2>9. Kept4'
    <3> SUFFICES ASSUME NEW c \in Actors, acb[c].life = "limbo"
                 PROVE  /\ blk'[acb[c].ch].at = "limbo" /\ blk'[acb[c].ch].since[Home] = 0
                        /\ blk'[acb[c].ch].owner = IF acb[c].bounded THEN c ELSE None
      BY DEF Kept4
    <3>1. /\ blk[acb[c].ch].at = "limbo" /\ blk[acb[c].ch].since[Home] = 0
          /\ blk[acb[c].ch].owner = IF acb[c].bounded THEN c ELSE None
      BY <1>1 DEF Kept4
    <3>2. acb[c].ch \in Blocks /\ acb[c].ch # b
      BY <2>5, <3>1, LimboBlock
    <3> QED BY <2>3, <3>1, <3>2
  <2>10. Kept5'
    BY <1>1, <2>3, <2>4 DEF Kept5
  <2>11. Kept6'
    <3>1. \A c \in Blocks : blk'[c].owner = blk[c].owner /\ blk'[c].q \subseteq blk[c].q
      BY <2>3
    <3> QED BY <1>1, <3>1, EntriesFrame
  <2> QED BY <2>6, <2>7, <2>8, <2>9, <2>10, <2>11 DEF BlocksOK
<1> QED BY <1>4, <1>5

-----------------------------------------------------------------------------
\* The lives of actors: LivesOK.

LEMMA LifeFrame ==
  ASSUME NEW a \in Actors, LifeOK(a), SameAcb(a),
         acb[a].shlock # None =>
           snd'[acb[a].shlock].pc = "publish" /\ snd'[acb[a].shlock].to = a
  PROVE  LifeOK(a)'
  BY DEF LifeOK, SameAcb, Core

\* the holder of a lock is between its check and its unlock
LEMMA ShlockIs ==
  ASSUME Types, LivesOK, NEW a \in Actors, acb[a].shlock # None
  PROVE  /\ acb[a].shlock \in Senders /\ snd[acb[a].shlock].pc = "publish"
         /\ snd[acb[a].shlock].to = a /\ acb[a].bounded /\ acb[a].life \in {"built", "claimed"}
<1>1. acb[a].shlock \in Senders
  BY AcbType DEF Types
<1> QED BY <1>1 DEF LivesOK, LifeOK

\* a sender's step outside the lock
LEMMA LivesSender ==
  ASSUME Types, LivesOK, Cores, NEW s \in Senders, Others(s),
         snd[s].pc = "publish" => snd'[s].pc = "publish" /\ snd'[s].to = snd[s].to
  PROVE  LivesOK'
<1>1. ASSUME NEW a \in Actors PROVE LifeOK(a)'
  <2>1. LifeOK(a) /\ SameAcb(a)
    BY DEF LivesOK, Cores
  <2>2. ASSUME acb[a].shlock # None
        PROVE  snd'[acb[a].shlock].pc = "publish" /\ snd'[acb[a].shlock].to = a
    BY <2>2, ShlockIs DEF Others
  <2> QED BY <2>1, <2>2, LifeFrame
<1> QED BY <1>1 DEF LivesOK

\* a step of neither
LEMMA LivesQuiet ==
  ASSUME Types, LivesOK, Cores, UNCHANGED snd PROVE LivesOK'
<1>1. ASSUME NEW a \in Actors PROVE LifeOK(a)'
  <2>1. LifeOK(a) /\ SameAcb(a)
    BY DEF LivesOK, Cores
  <2> QED BY <2>1, LifeFrame, ShlockIs
<1> QED BY <1>1 DEF LivesOK

\* only a living mailbox is locked
LEMMA LivesLock ==
  ASSUME Types, LivesOK, NEW s \in Senders, SenderOK(s), NEW a \in Actors, snd[s].to = a,
         acb[a].bounded, acb[a].var \notin {"DEAD", "unborn"}, snd[s].pc = "lock",
         Locked(a, s), Others(s), snd'[s].pc = "publish", snd'[s].to = a
  PROVE  LivesOK'
<1>1. ASSUME NEW b \in Actors PROVE LifeOK(b)'
  <2>1. LifeOK(b)
    BY DEF LivesOK
  <2>2. CASE b = a
    <3>1. acb[a].life = "built"
      BY <2>1, <2>2, AcbType DEF LifeOK, Types, Lives
    <3> QED BY <2>1, <2>2, <3>1 DEF LifeOK, Locked
  <2>3. CASE b # a
    <3>1. SameAcb(b)
      BY <2>3 DEF Locked
    <3>2. ASSUME acb[b].shlock # None
          PROVE  snd'[acb[b].shlock].pc = "publish" /\ snd'[acb[b].shlock].to = b
      BY <3>2, ShlockIs DEF Others
    <3> QED BY <2>1, <3>1, <3>2, LifeFrame
  <2> QED BY <2>2, <2>3
<1> QED BY <1>1 DEF LivesOK

\* the holder unlocks
LEMMA LivesUnlock ==
  ASSUME Types, LivesOK, NEW s \in Senders, NEW a \in Actors, snd[s].to = a,
         Locked(a, None), Others(s)
  PROVE  LivesOK'
<1>1. ASSUME NEW b \in Actors PROVE LifeOK(b)'
  <2>1. LifeOK(b)
    BY DEF LivesOK
  <2>2. CASE b = a
    BY <2>1, <2>2 DEF LifeOK, Locked
  <2>3. CASE b # a
    <3>1. SameAcb(b)
      BY <2>3 DEF Locked
    <3>2. ASSUME acb[b].shlock # None
          PROVE  snd'[acb[b].shlock].pc = "publish" /\ snd'[acb[b].shlock].to = b
      <4>1. acb[b].shlock # s
        BY <2>3, <3>2, ShlockIs
      <4> QED BY <3>2, <4>1, ShlockIs DEF Others
    <3> QED BY <2>1, <3>1, <3>2, LifeFrame
  <2> QED BY <2>2, <2>3
<1> QED BY <1>1 DEF LivesOK

\* One mailbox moves on.
LEMMA LivesOnly ==
  ASSUME Types, LivesOK, UNCHANGED snd, NEW a \in Actors, \A b \in Actors : b # a => SameAcb(b),
         LifeOK(a)'
  PROVE  LivesOK'
<1>1. ASSUME NEW b \in Actors PROVE LifeOK(b)'
  <2>1. LifeOK(b)
    BY DEF LivesOK
  <2>2. CASE b # a
    BY <2>1, <2>2, LifeFrame, ShlockIs
  <2> QED BY <2>2
<1> QED BY <1>1 DEF LivesOK

\* each step of the actor and of its reaper, from here on
LEMMA LivesTake ==
  ASSUME Types, LivesOK, NEW a \in Actors, NEW b \in Blocks, acb[a].ch = b, NEW e, Take(a, e)
  PROVE  LivesOK'
<1>1. /\ acb[a].var = "READY" /\ UNCHANGED snd /\ Only(a)
      /\ acb'[a].var = acb[a].var /\ acb'[a].ch = acb[a].ch /\ acb'[a].items = acb[a].items
      /\ acb'[a].rx = acb[a].rx /\ acb'[a].life = acb[a].life
  BY TakeEffect
<1>2. LifeOK(a)
  BY DEF LivesOK
<1>3. LifeOK(a)'
  BY <1>1, <1>2 DEF LifeOK, Only
<1> QED BY <1>1, <1>3, LivesOnly DEF Only

LEMMA LivesTaken ==
  ASSUME Types, LivesOK, NEW a \in Actors, Taken(a)
  PROVE  LivesOK'
<1>1. /\ acb[a].hand # NoEntry /\ UNCHANGED snd /\ Only(a) /\ acb'[a].hand = NoEntry
      /\ acb'[a].var = acb[a].var /\ acb'[a].ch = acb[a].ch /\ acb'[a].items = acb[a].items
      /\ acb'[a].life = acb[a].life
  BY TakenEffect
<1>2. LifeOK(a)
  BY DEF LivesOK
<1>3. acb[a].life = "built"
  BY <1>1, <1>2, AcbType DEF LifeOK, Types, Lives
<1>4. LifeOK(a)'
  BY <1>1, <1>2, <1>3 DEF LifeOK, Only
<1> QED BY <1>1, <1>4, LivesOnly DEF Only

LEMMA LivesEndTurn ==
  ASSUME Types, LivesOK, NEW a \in Actors, EndTurn(a)
  PROVE  LivesOK'
<1>1. /\ UNCHANGED snd /\ Only(a) /\ acb'[a].rx = {} /\ acb'[a].hand = acb[a].hand
      /\ acb'[a].var = acb[a].var /\ acb'[a].ch = acb[a].ch /\ acb'[a].items = acb[a].items
      /\ acb'[a].life = acb[a].life
  BY EndTurnEffect
<1>2. LifeOK(a)
  BY DEF LivesOK
<1>3. LifeOK(a)'
  BY <1>1, <1>2 DEF LifeOK, Only
<1> QED BY <1>1, <1>3, LivesOnly DEF Only

LEMMA LivesKill ==
  ASSUME Types, LivesOK, NEW a \in Actors, Kill(a)
  PROVE  LivesOK'
<1>1. /\ acb[a].var = "READY" /\ UNCHANGED snd
      /\ Only(a) /\ acb'[a].var = "DEAD" /\ acb'[a].ch = acb[a].ch
      /\ acb'[a].items = acb[a].items /\ acb'[a].life = acb[a].life
      /\ acb'[a].hand = acb[a].hand /\ acb'[a].rx = acb[a].rx
  BY KillEffect
<1>2. LifeOK(a)
  BY DEF LivesOK
<1>3. LifeOK(a)'
  BY <1>1, <1>2 DEF LifeOK, Only
<1> QED BY <1>1, <1>3, LivesOnly DEF Only

LEMMA LivesClaim ==
  ASSUME Types, LivesOK, NEW a \in Actors, Claim(a)
  PROVE  LivesOK'
<1>1. /\ acb[a].var = "DEAD" /\ acb[a].life = "built" /\ acb[a].hand = NoEntry /\ UNCHANGED snd
      /\ Only(a) /\ acb'[a].life = "claimed" /\ acb'[a].var = acb[a].var
      /\ acb'[a].ch = acb[a].ch /\ acb'[a].items = acb[a].items
      /\ acb'[a].hand = acb[a].hand /\ acb'[a].rx = acb[a].rx
  BY ClaimEffect
<1>2. LifeOK(a)
  BY DEF LivesOK
<1>3. LifeOK(a)'
  BY <1>1, <1>2 DEF LifeOK, Only
<1> QED BY <1>1, <1>3, LivesOnly DEF Only

LEMMA LivesDrain ==
  ASSUME Types, LivesOK, NEW a \in Actors, NEW b \in Blocks, acb[a].ch = b, Drain(a)
  PROVE  LivesOK'
<1>1. /\ acb[a].life = "claimed" /\ Barrier(a) /\ UNCHANGED snd
      /\ Only(a) /\ acb'[a].life = "drained" /\ acb'[a].rx = {}
      /\ acb'[a].items = acb[a].items \cap Kept
      /\ acb'[a].var = acb[a].var /\ acb'[a].ch = acb[a].ch /\ acb'[a].hand = acb[a].hand
  BY DrainEffect
<1>2. LifeOK(a)
  BY DEF LivesOK
<1>3. acb[a].shlock = None
  BY <1>1, <1>2 DEF LifeOK, Barrier
<1>4. acb'[a].items = Kept
  BY <1>1, <1>2 DEF LifeOK
<1>5. LifeOK(a)'
  BY <1>1, <1>2, <1>3, <1>4 DEF LifeOK, Only
<1> QED BY <1>1, <1>5, LivesOnly DEF Only

LEMMA LivesLimbo ==
  ASSUME Types, LivesOK, NEW a \in Actors, NEW b \in Blocks, acb[a].ch = b, Limbo(a)
  PROVE  LivesOK'
<1>1. /\ acb[a].life = "drained" /\ UNCHANGED snd
      /\ Only(a) /\ acb'[a].life = "limbo" /\ acb'[a].var = acb[a].var
      /\ acb'[a].ch = acb[a].ch /\ acb'[a].items = acb[a].items
      /\ acb'[a].hand = acb[a].hand /\ acb'[a].rx = acb[a].rx
  BY LimboEffect
<1>2. LifeOK(a)
  BY DEF LivesOK
<1>3. LifeOK(a)'
  BY <1>1, <1>2 DEF LifeOK, Only
<1> QED BY <1>1, <1>3, LivesOnly DEF Only

LEMMA LivesClear ==
  ASSUME Types, LivesOK, NEW a \in Actors, Clear(a)
  PROVE  LivesOK'
<1>1. /\ acb[a].life = "limbo" /\ UNCHANGED snd
      /\ Only(a) /\ acb'[a].life = "gone" /\ acb'[a].ch = None /\ acb'[a].items = {"acb"}
      /\ acb'[a].var = acb[a].var /\ acb'[a].hand = acb[a].hand /\ acb'[a].rx = acb[a].rx
  BY ClearEffect
<1>2. LifeOK(a)
  BY DEF LivesOK
<1>3. LifeOK(a)'
  BY <1>1, <1>2 DEF LifeOK, Only
<1> QED BY <1>1, <1>3, LivesOnly DEF Only

LEMMA LivesBuild ==
  ASSUME Types, LivesOK, NEW a \in Actors, sp.ch \in Blocks, Build(a)
  PROVE  LivesOK'
<1>1. /\ sp.n = 6 /\ UNCHANGED snd /\ \A b \in Actors : b # a => SameAcb(b)
      /\ acb'[a].var = "READY" /\ acb'[a].ch = sp.ch /\ acb'[a].bounded = (sp.kind = "inbox")
      /\ acb'[a].items = Got /\ acb'[a].shlock = None /\ acb'[a].hand = NoEntry
      /\ acb'[a].life = "built"
  BY BuildEffect
<1>2. Kept \subseteq Got /\ (sp.kind = "inbox" => "charges" \in Got) /\ sp.ch # None
  BY <1>1, GotAll, Const
<1>3. LifeOK(a)'
  BY <1>1, <1>2 DEF LifeOK
<1> QED BY <1>1, <1>3, LivesOnly

-----------------------------------------------------------------------------
\* What a sender holds: SendersOK.

\* A block in limbo that sender t's hart has not left behind stays as it is.
LimboStays(t) ==
  \A c \in Blocks : blk[c].at = "limbo" /\ blk[c].since[t] = 0 =>
    blk'[c].at = "limbo" /\ blk'[c].since[t] = 0 /\ blk'[c].owner = blk[c].owner
\* No actor that was there changes its limit, or gets another block.
BornStays ==
  \A x \in Actors : acb[x].var # "unborn" =>
    /\ acb'[x].var # "unborn" /\ acb'[x].bounded = acb[x].bounded
    /\ acb'[x].ch \in {acb[x].ch, None}
ShlockStays(t) == \A x \in Actors : acb[x].shlock = t => acb'[x].shlock = t
DyingStays ==
  \A x \in Actors : acb'[x].life \in {"limbo", "gone"} => acb[x].life \in {"limbo", "gone"}

\* what stays true of a sender that takes no step
LEMMA SenderFrame ==
  ASSUME Types, NEW t \in Senders, SenderOK(t), snd'[t] = snd[t], LimboStays(t), BornStays,
         ShlockStays(t), DyingStays
  PROVE  SenderOK(t)'
<1>1. PICK x : x = snd[t].to
  OBVIOUS
<1>2. CASE snd[t].pc \in {"idle", "gone"}
  BY <1>2 DEF SenderOK
<1>3. CASE snd[t].pc \notin {"idle", "gone"}
  <2>1. x \in Actors /\ acb[x].var # "unborn"
    BY <1>1, <1>3 DEF SenderOK
  <2>2. /\ acb'[x].var # "unborn" /\ acb'[x].bounded = acb[x].bounded
        /\ acb'[x].ch \in {acb[x].ch, None}
    BY <2>1 DEF BornStays
  <2>3. snd[t].pc = "publish" => acb'[x].shlock = t
    BY <1>1, <2>1 DEF SenderOK, ShlockStays
  <2>4. snd[t].pc \in {"push", "write", "grow"} =>
          snd[t].c \in Blocks /\ acb'[x].ch \in {snd[t].c, None}
    BY <1>1, <2>2 DEF SenderOK
  <2>5. snd[t].pc = "write" /\ acb'[x].life \in {"limbo", "gone"} =>
          /\ blk'[snd[t].c].at = "limbo" /\ blk'[snd[t].c].since[t] = 0
          /\ blk'[snd[t].c].owner = None
    <3>1. SUFFICES ASSUME snd[t].pc = "write", acb'[x].life \in {"limbo", "gone"}
                   PROVE  /\ blk'[snd[t].c].at = "limbo" /\ blk'[snd[t].c].since[t] = 0
                          /\ blk'[snd[t].c].owner = None
      OBVIOUS
    <3>2. acb[x].life \in {"limbo", "gone"} /\ snd[t].c \in Blocks
      BY <2>1, <2>4, <3>1 DEF DyingStays
    <3>3. /\ blk[snd[t].c].at = "limbo" /\ blk[snd[t].c].since[t] = 0
          /\ blk[snd[t].c].owner = None
      BY <1>1, <3>1, <3>2 DEF SenderOK
    <3> QED BY <3>2, <3>3 DEF LimboStays
  <2> QED BY <1>1, <1>3, <2>1, <2>2, <2>3, <2>4, <2>5 DEF SenderOK
<1> QED BY <1>2, <1>3

\* The others, while sender s takes a step.
LEMMA SendersStep ==
  ASSUME Types, SendersOK, NEW s \in Senders, Others(s), BornStays, DyingStays,
         \A t \in Senders : t # s => ShlockStays(t) /\ LimboStays(t), SenderOK(s)'
  PROVE  SendersOK'
<1>1. ASSUME NEW t \in Senders PROVE SenderOK(t)'
  <2>1. CASE t # s
    BY <2>1, SenderFrame DEF SendersOK, Others
  <2> QED BY <2>1
<1> QED BY <1>1 DEF SendersOK

\* no sender takes a step
LEMMA SendersQuiet ==
  ASSUME Types, SendersOK, UNCHANGED snd, BornStays, DyingStays,
         \A t \in Senders : ShlockStays(t) /\ LimboStays(t)
  PROVE  SendersOK'
  BY SenderFrame DEF SendersOK

\* only counts change
LEMMA StaysCores ==
  ASSUME Cores PROVE BornStays /\ DyingStays /\ \A t \in Senders : ShlockStays(t)
  BY DEF Cores, SameAcb, Core, BornStays, DyingStays, ShlockStays

\* a lock word changes
LEMMA StaysLocked ==
  ASSUME NEW a \in Actors, NEW v, Locked(a, v)
  PROVE  /\ BornStays /\ DyingStays
         /\ \A t : acb[a].shlock # t => ShlockStays(t)
  BY DEF Locked, SameAcb, Core, BornStays, DyingStays, ShlockStays

\* no block is left behind or taken
LEMMA LimboSame ==
  ASSUME \A b \in Blocks : BlkSame(b) /\ blk'[b].since = blk[b].since
  PROVE  \A t \in Senders : LimboStays(t)
  BY DEF LimboStays, BlkSame

\* a ring grows
LEMMA LimboBlks == ASSUME SameBlks PROVE \A t \in Senders : LimboStays(t)
  BY DEF LimboStays, SameBlks, SameBlk

\* a block's rings change
LEMMA LimboRings == ASSUME NEW b \in Blocks, NEW qs, Rings(b, qs)
                    PROVE \A t \in Senders : LimboStays(t)
  BY DEF LimboStays, Rings

\* no block changes
LEMMA LimboUnchanged == ASSUME UNCHANGED blk PROVE \A t \in Senders : LimboStays(t)
  BY DEF LimboStays

\* a send ends
LEMMA SenderIdled ==
  ASSUME Types, NEW s \in Senders, SenderOK(s), Idled(s) PROVE SenderOK(s)'
  BY DEF SenderOK, Idled

\* a sender that goes on to another step of the same send
LEMMA SenderStart ==
  ASSUME Types, NEW s \in Senders, SenderOK(s), NEW a \in Actors, NEW kind \in Kinds,
           Start(s, a, kind)
  PROVE  SenderOK(s)'
<1>1. /\ snd[s].left \in 1..SendMax[s] /\ <<s, snd[s].left>> \in Messages
      /\ acb[a].var = "READY" /\ SameAcb(a)
      /\ snd'[s].pc = IF kind = "copy" THEN "copy"
                      ELSE IF acb[a].bounded THEN "lock" ELSE "check"
      /\ snd'[s].to = a /\ snd'[s].m = <<s, snd[s].left>> /\ snd'[s].left = snd[s].left - 1
      /\ snd'[s].send_to = IF acb[a].bounded THEN a ELSE None
      /\ snd'[s].send_root = IF acb[a].bounded
           /\ kind = "move" THEN <<s, snd[s].left>> ELSE None
      /\ kind \in {"copy", "move"}
  BY StartEffect
<1>2. acb'[a].var = "READY" /\ acb'[a].bounded = acb[a].bounded
  BY <1>1 DEF SameAcb, Core
<1>3. PICK k \in 1..SendMax[s] : k = snd[s].left
  BY <1>1
<1>4. snd'[s].left \in 0..SendMax[s] /\ snd'[s].left + 1 = k
  BY <1>1, <1>3, Const
<1>5. snd'[s].m = <<s, snd'[s].left + 1>> /\ snd'[s].m # None
  BY <1>1, <1>3, <1>4, Const
<1>6. CASE kind = "copy"
  <2>1. /\ snd'[s].pc = "copy" /\ snd'[s].send_root = None
        /\ snd'[s].send_to = IF acb'[a].bounded THEN a ELSE None
    BY <1>1, <1>2, <1>6
  <2> QED BY <1>1, <1>2, <1>4, <1>5, <2>1 DEF SenderOK
<1>7. CASE kind = "move" /\ acb[a].bounded
  <2>1. /\ snd'[s].pc = "lock" /\ snd'[s].send_root = snd'[s].m
        /\ snd'[s].send_to = a
    BY <1>1, <1>7
  <2> QED BY <1>1, <1>2, <1>4, <1>5, <1>7, <2>1 DEF SenderOK
<1>8. CASE kind = "move" /\ ~acb[a].bounded
  <2>1. /\ snd'[s].pc = "check" /\ snd'[s].send_root = None
        /\ snd'[s].send_to = None
    BY <1>1, <1>8
  <2> QED BY <1>1, <1>2, <1>4, <1>5, <1>8, <2>1 DEF SenderOK
<1> QED BY <1>1, <1>6, <1>7, <1>8

LEMMA SenderRefused ==
  ASSUME Types, NEW s \in Senders, SenderOK(s), NEW a \in Actors, Refused(s, a)
  PROVE  SenderOK(s)'
<1>1. /\ snd'[s].left = snd[s].left - 1 /\ snd[s].left > 0 /\ snd[s].pc = "idle"
      /\ snd'[s].pc = "idle" /\ snd'[s].m = snd[s].m /\ snd'[s].send_to = snd[s].send_to
      /\ snd'[s].send_root = snd[s].send_root
  BY RefusedEffect
<1>2. SendMax[s] \in Nat
  BY Const
<1>3. snd'[s].left \in 0..SendMax[s]
  BY <1>1, <1>2 DEF SenderOK
<1> QED BY <1>1, <1>3 DEF SenderOK

LEMMA SenderCopy ==
  ASSUME Types, NEW s \in Senders, SenderOK(s), Copy(s) PROVE SenderOK(s)'
<1>1. snd[s].pc = "copy" /\ UNCHANGED <<acb, blk>> /\ snd'[s].pc = "pin" /\ SameSnd(s)
  BY CopyEffect
<1> QED BY <1>1 DEF SenderOK, SameSnd

LEMMA SenderPin ==
  ASSUME Types, NEW s \in Senders, SenderOK(s), Pin(s)
  PROVE  SenderOK(s)'
<1>1. snd[s].pc = "pin"
  BY DEF Pin, Ready
<1>2. /\ snd[s].m # None /\ snd[s].to \in Actors /\ acb[snd[s].to].var # "unborn"
      /\ snd[s].send_root = None
      /\ snd[s].send_to = IF acb[snd[s].to].bounded THEN snd[s].to ELSE None
      /\ snd[s].left \in 0..SendMax[s] /\ snd[s].m = <<s, snd[s].left + 1>>
  <2>1. snd[s].m # None /\ snd[s].to \in Actors /\ acb[snd[s].to].var # "unborn"
    BY <1>1 DEF SenderOK
  <2>2. /\ snd[s].send_root = None
        /\ snd[s].send_to = IF acb[snd[s].to].bounded THEN snd[s].to ELSE None
    BY <1>1 DEF SenderOK
  <2>3. snd[s].left \in 0..SendMax[s] /\ snd[s].m = <<s, snd[s].left + 1>>
    BY <2>1 DEF SenderOK
  <2> QED BY <2>1, <2>2, <2>3
<1>3. snd[s].m \in Messages
  BY <1>2, SndType DEF Types
<1>4. /\ UNCHANGED <<acb, blk>>
      /\ snd'[s].pc = IF snd[s].send_to # None THEN "lock" ELSE "check"
      /\ snd'[s].send_root = IF snd[s].send_to # None THEN snd[s].m ELSE snd[s].send_root
      /\ snd'[s].to = snd[s].to /\ snd'[s].m = snd[s].m
      /\ snd'[s].send_to = snd[s].send_to /\ snd'[s].left = snd[s].left
  BY <1>3, PinEffect
<1>5. CASE acb[snd[s].to].bounded
  <2>1. snd[s].send_to = snd[s].to /\ snd[s].send_to # None
    BY <1>2, <1>5, Const
  <2> QED BY <1>2, <1>4, <1>5, <2>1 DEF SenderOK
<1>6. CASE ~acb[snd[s].to].bounded
  <2>1. snd[s].send_to = None
    BY <1>2, <1>6
  <2>2. /\ snd'[s].pc = "check" /\ snd'[s].send_to = None /\ snd'[s].send_root = None
        /\ snd'[s].to = snd[s].to /\ snd'[s].m = snd[s].m /\ snd'[s].left = snd[s].left
        /\ UNCHANGED acb
    BY <1>2, <1>4, <2>1
  <2> QED BY <1>2, <1>6, <2>2 DEF SenderOK
<1> QED BY <1>5, <1>6

LEMMA SenderLock ==
  ASSUME Types, NEW s \in Senders, SenderOK(s), snd[s].pc = "lock", Locked(snd[s].to, s),
         snd'[s].pc = "publish", SameSnd(s)
  PROVE  SenderOK(s)'
<1>1. PICK a \in Actors : a = snd[s].to
  BY DEF SenderOK
<1>2. acb'[a].var = acb[a].var /\ acb'[a].bounded = acb[a].bounded /\ acb'[a].shlock = s
  BY <1>1 DEF Locked
<1> QED BY <1>1, <1>2 DEF SenderOK, SameSnd

LEMMA SenderGoes ==
  ASSUME Types, NEW s \in Senders, SenderOK(s), UNCHANGED acb, SameSnd(s),
         snd[s].pc \in {"check", "resolve", "push", "grow"},
         \/ snd'[s].pc \in {"resolve", "fault"}
         \/ snd'[s].pc \in {"push", "grow"} /\ snd[s].pc \in {"push", "grow"}
         \/ /\ snd'[s].pc = "write" /\ snd[s].pc = "push"
            /\ acb[snd[s].to].life \notin {"limbo", "gone"}
  PROVE  SenderOK(s)'
<1>1. PICK a \in Actors : a = snd[s].to
  BY DEF SenderOK
<1> QED BY <1>1 DEF SenderOK, SameSnd

\* the block that chan_for reads is the actor's
LEMMA SenderResolve ==
  ASSUME Types, NEW s \in Senders, SenderOK(s), Resolve(s)
  PROVE  SenderOK(s)'
<1>1. snd[s].pc = "resolve"
  BY DEF Resolve, Ready
<1>2. PICK a \in Actors : a = snd[s].to
  BY <1>1 DEF SenderOK
<1>3. /\ UNCHANGED acb /\ acb[a].ch \in Blocks
      /\ snd'[s].pc = "push" /\ snd'[s].c = acb[a].ch /\ snd'[s].to = a /\ snd'[s].m = snd[s].m
      /\ snd'[s].send_to = snd[s].send_to /\ snd'[s].send_root = snd[s].send_root
      /\ snd'[s].left = snd[s].left
  BY <1>2, ResolveEffect
<1> QED BY <1>1, <1>2, <1>3 DEF SenderOK

LEMMA SenderKilled ==
  ASSUME Types, NEW s \in Senders, SenderOK(s), KillSender(s)
  PROVE  SenderOK(s)'
<1>1. /\ UNCHANGED <<acb, blk>> /\ snd'[s].var = "DEAD"
      /\ snd'[s].pc = snd[s].pc /\ snd'[s].to = snd[s].to /\ snd'[s].m = snd[s].m
      /\ snd'[s].c = snd[s].c
      /\ snd'[s].send_to = snd[s].send_to /\ snd'[s].send_root = snd[s].send_root
      /\ snd'[s].left = snd[s].left
  BY KillSenderEffect
<1> QED BY <1>1 DEF SenderOK

LEMMA SenderReaped ==
  ASSUME Types, NEW s \in Senders, SenderOK(s), ReapSender(s)
  PROVE  SenderOK(s)'
<1>1. /\ snd'[s].pc = "gone" /\ snd'[s].send_to = None /\ snd'[s].send_root = None
      /\ snd'[s].m = IF snd[s].pc = "grow" THEN snd[s].m ELSE None
      /\ snd'[s].var = "DEAD" /\ snd'[s].left = snd[s].left
  BY ReapSenderEffect
<1> QED BY <1>1 DEF SenderOK

-----------------------------------------------------------------------------
\* The spawner: SpawnerOK; and where a message can be.

\* the record stays as it is
LEMMA SpawnerFrame ==
  ASSUME Types, SpawnerOK, sp'.pc = sp.pc, sp'.kind = sp.kind, sp'.n = sp.n, sp'.ch = sp.ch,
         sp'.cleanup = sp.cleanup,
         sp.pc = "reserve" /\ sp.ch # None => blk'[sp.ch].q \subseteq blk[sp.ch].q
  PROVE  SpawnerOK'
<1>1. Got' = Got /\ Wants' = Wants
  BY GotKept
<1> QED BY <1>1 DEF SpawnerOK

\* no ring gains an entry
LEMMA SpawnerQuiet ==
  ASSUME Types, SpawnerOK, UNCHANGED sp, \A b \in Blocks : blk'[b].q \subseteq blk[b].q
  PROVE  SpawnerOK'
<1>1. sp.ch # None => sp.ch \in Blocks
  BY SpType
<1> QED BY <1>1, SpawnerFrame

\* no entry goes into the record's block
LEMMA SpawnerPut ==
  ASSUME Types, SpawnerOK, BlocksOK, UNCHANGED sp, NEW b \in Blocks, NEW qs, Rings(b, qs),
         blk[b].at = "limbo" \/ \E a \in Actors : Holds(a, b)
  PROVE  SpawnerOK'
<1>1. ASSUME sp.pc = "reserve", sp.ch # None
      PROVE  blk'[sp.ch].q \subseteq blk[sp.ch].q
  <2>1. PICK c \in Blocks : c = sp.ch
    BY <1>1, SpType
  <2>2. SpHolds(c)
    BY <1>1, <2>1 DEF SpHolds, SpawnerOK
  <2>3. c # b
    BY <2>2 DEF BlocksOK, Kept2
  <2> QED BY <2>1, <2>3 DEF Rings
<1> QED BY <1>1, SpawnerFrame

\* each step of the spawner, from here on
LEMMA SpawnerAdmit ==
  ASSUME Types, SpawnerOK, NEW kind \in {"heap", "inbox"}, Admit(kind) PROVE SpawnerOK'
<1>1. sp'.pc = "reserve" /\ sp'.n = 0 /\ sp'.ch = None /\ sp'.cleanup = TRUE
  BY AdmitEffect
<1>2. Got' = {}
  BY <1>1 DEF Got
<1> QED BY <1>1, <1>2 DEF SpawnerOK

LEMMA SpawnerReserve == ASSUME Types, SpawnerOK, Reserve PROVE SpawnerOK'
<1>1. /\ sp.pc = "reserve" /\ sp.n < 6 /\ Wants # "channels" /\ UNCHANGED blk
      /\ sp'.pc = sp.pc /\ sp'.kind = sp.kind /\ sp'.n = sp.n + 1
      /\ sp'.ch = sp.ch /\ sp'.cleanup = sp.cleanup
  BY ReserveEffect
<1>2. Got' = Got \cup {Wants}
  BY <1>1, GotGrows
<1>3. "channels" \in Got' <=> "channels" \in Got
  BY <1>1, <1>2
<1> QED BY <1>1, <1>3 DEF SpawnerOK

LEMMA SpawnerTakeBlock ==
  ASSUME Types, SpawnerOK, NEW b \in Blocks, TakeBlock(b) PROVE SpawnerOK'
<1>1. /\ sp.pc = "reserve" /\ sp.n < 6 /\ Wants = "channels"
      /\ sp'.pc = "init" /\ sp'.kind = sp.kind /\ sp'.n = sp.n
      /\ sp'.ch = b /\ sp'.cleanup = sp.cleanup
  BY TakeBlockEffect
<1>2. Wants' = Wants
  BY <1>1, GotKept
<1> QED BY <1>1, <1>2 DEF SpawnerOK

LEMMA SpawnerInitBlock == ASSUME Types, SpawnerOK, InitBlock PROVE SpawnerOK'
<1>1. /\ sp.pc = "init" /\ sp.ch \in Blocks
      /\ sp'.pc = "reserve" /\ sp'.kind = sp.kind /\ sp'.n = sp.n + 1
      /\ sp'.ch = sp.ch /\ sp'.cleanup = sp.cleanup /\ blk'[sp.ch].q = {}
  BY InitBlockEffect
<1>2. sp.n < 6 /\ Wants = "channels" /\ sp.cleanup
  BY <1>1 DEF SpawnerOK
<1>3. Got' = Got \cup {"channels"} /\ sp.ch # None
  BY <1>1, <1>2, GotGrows, Const
<1> QED BY <1>1, <1>2, <1>3 DEF SpawnerOK

LEMMA SpawnerDone ==
  ASSUME sp'.pc \in {"idle", "gone"}, sp'.cleanup = FALSE PROVE SpawnerOK'
  BY DEF SpawnerOK

-----------------------------------------------------------------------------

\* No ring, no hand changes.
QsSame == \A b \in Blocks : blk'[b].q = blk[b].q
HandsSame == \A a \in Actors : acb'[a].hand = acb[a].hand /\ acb'[a].rx = acb[a].rx

\* the places of a message, when nothing moves
LEMMA RingSame == ASSUME QsSame, NEW m PROVE InRing(m)' = InRing(m)
  BY DEF QsSame, InRing, Roots

\* in hands
LEMMA HandSame == ASSUME HandsSame, NEW m PROVE InHand(m)' = InHand(m)
  BY DEF HandsSame, InHand

\* with senders
LEMMA SendSame ==
  ASSUME NEW s \in Senders, Others(s), NEW m, s \in InSend(m)' <=> s \in InSend(m)
  PROVE  InSend(m)' = InSend(m)
  BY DEF Others, InSend

\* no sender moves
LEMMA SendUnchanged == ASSUME UNCHANGED snd, NEW m PROVE InSend(m)' = InSend(m)
  BY DEF InSend

\* a message stays where it is
LEMMA Place1Same ==
  ASSUME NEW m, Place1(m), rc'[m] = rc[m], InRing(m)' = InRing(m), InHand(m)' = InHand(m),
         InSend(m)' = InSend(m)
  PROVE  Place1(m)'
  BY DEF Place1, One

\* sets of one
LEMMA OneIs == ASSUME NEW S, One(S), NEW x \in S PROVE S = {x}
  BY DEF One

\* a singleton is one
LEMMA IsOne == ASSUME NEW x PROVE One({x})
  BY DEF One

\* a message that is somewhere is nowhere else: with a sender
LEMMA AtSender ==
  ASSUME NEW m, Place1(m), NEW s \in InSend(m)
  PROVE  rc[m] = 1 /\ InRing(m) = {} /\ InHand(m) = {} /\ InSend(m) = {s}
  BY OneIs DEF Place1

\* in a ring
LEMMA AtRing ==
  ASSUME NEW m, Place1(m), NEW b \in InRing(m)
  PROVE  rc[m] = 1 /\ InRing(m) = {b} /\ InHand(m) = {} /\ InSend(m) = {}
  BY OneIs DEF Place1

\* with a receiver
LEMMA AtHand ==
  ASSUME NEW m, Place1(m), NEW a \in InHand(m)
  PROVE  rc[m] = 1 /\ InRing(m) = {} /\ InHand(m) = {a} /\ InSend(m) = {}
  BY OneIs DEF Place1

\* a message without a count is nowhere
LEMMA Nowhere ==
  ASSUME NEW m, Place1(m), rc[m] = 0
  PROVE  InRing(m) = {} /\ InHand(m) = {} /\ InSend(m) = {}
  BY DEF Place1

\* no two entries of one message
LEMMA OncesSame == ASSUME OnceIn, QsSame PROVE OnceIn'
  BY DEF OnceIn, QsSame

\* no message twice with a receiver
LEMMA HandOnceSame == ASSUME InHandOnce, HandsSame PROVE InHandOnce'
  BY DEF InHandOnce, HandsSame

\* whose message it is
LEMMA MessageOf ==
  ASSUME Types, SendersOK, NEW s \in Senders, snd[s].m # None
  PROVE  /\ snd[s].m = <<s, snd[s].left + 1>> /\ snd[s].m \in Messages /\ snd[s].left \in Nat
         /\ \A t \in Senders : t # s => snd[t].m # snd[s].m
         /\ \A t \in Senders : \A k \in 1..snd[t].left : <<t, k>> # snd[s].m
<1>1. snd[s].m = <<s, snd[s].left + 1>>
  BY DEF SendersOK, SenderOK
<1>2. snd[s].m \in Messages /\ \A t \in Senders : snd[t].left \in Nat
  BY SndType DEF Types
<1>3. ASSUME NEW t \in Senders, t # s PROVE snd[t].m # snd[s].m
  <2>1. CASE snd[t].m = None
    BY <2>1
  <2>2. CASE snd[t].m # None
    <3>1. snd[t].m = <<t, snd[t].left + 1>>
      BY <2>2 DEF SendersOK, SenderOK
    <3> QED BY <1>1, <1>3, <3>1
  <2> QED BY <2>1, <2>2
<1>4. ASSUME NEW t \in Senders, NEW k \in 1..snd[t].left PROVE <<t, k>> # snd[s].m
  <2>1. SUFFICES ASSUME <<t, k>> = <<s, snd[s].left + 1>> PROVE FALSE
    BY <1>1
  <2>2. t = s /\ k = snd[s].left + 1
    BY <2>1
  <2> QED BY <1>2, <2>2
<1> QED BY <1>1, <1>2, <1>3, <1>4

\* a message still to be sent
LEMMA UnsentMessage ==
  ASSUME Types, SendersOK, NEW s \in Senders, NEW k \in 1..snd[s].left
           PROVE <<s, k>> \in Messages
<1>1. snd[s].left \in 0..SendMax[s] /\ SendMax[s] \in Nat
  BY Const DEF SendersOK, SenderOK
<1>2. k \in 1..SendMax[s]
  BY <1>1
<1> QED BY <1>2, MessageIs

\* A step that moves no message.
LEMMA PlacesQuiet ==
  ASSUME Types, SendersOK, Places, QsSame, HandsSame, UNCHANGED rc,
         \A m \in Messages : InSend(m)' = InSend(m),
         \A s \in Senders :
           /\ snd'[s].left \in Nat /\ snd'[s].left <= snd[s].left
           /\ snd'[s].pc \in {"copy", "pin"} => snd[s].pc \in {"copy", "pin"}
                /\ snd'[s].m = snd[s].m
  PROVE  Places'
<1>1. \A m \in Messages : Place1(m)'
  BY Place1Same, RingSame, HandSame DEF Places
<1>2. Unsent'
  <2> SUFFICES ASSUME NEW s \in Senders, NEW k \in 1..snd'[s].left PROVE rc'[<<s, k>>] = 0
    BY DEF Unsent
  <2>1. k \in 1..snd[s].left
    BY SndType DEF Types
  <2> QED BY <2>1 DEF Places, Unsent
<1>3. Copied'
  BY DEF Places, Copied
<1> QED BY <1>1, <1>2, <1>3, OncesSame, HandOnceSame DEF Places

\* A step that drops what has one count each.
LEMMA DropsQuiet ==
  ASSUME Types, SendersOK, Places, UNCHANGED snd, NEW ms, Dropped(ms), \A m \in ms : rc[m] = 1
  PROVE  Unsent' /\ Copied'
<1>1. Unsent'
  <2> SUFFICES ASSUME NEW s \in Senders, NEW k \in 1..snd[s].left PROVE rc'[<<s, k>>] = 0
    BY DEF Unsent
  <2>1. <<s, k>> \in Messages /\ rc[<<s, k>>] = 0
    BY UnsentMessage DEF Places, Unsent
  <2> QED BY <2>1 DEF Dropped
<1>2. Copied'
  <2> SUFFICES ASSUME NEW s \in Senders, snd[s].pc \in {"copy", "pin"} PROVE rc'[snd[s].m] = 0
    BY DEF Copied
  <2>1. snd[s].m # None
    BY DEF SendersOK, SenderOK
  <2>2. snd[s].m \in Messages /\ rc[snd[s].m] = 0
    BY <2>1, MessageOf DEF Places, Copied
  <2> QED BY <2>2 DEF Dropped
<1> QED BY <1>1, <1>2

-----------------------------------------------------------------------------
\* A message is counted once: Places, for the sender's steps.

\* only counts change
LEMMA HandsCores == ASSUME Cores PROVE HandsSame
  BY DEF Cores, SameAcb, Core, HandsSame

\* a lock word changes
LEMMA HandsLocked == ASSUME NEW a \in Actors, NEW v, Locked(a, v) PROVE HandsSame
  BY DEF Locked, SameAcb, Core, HandsSame

\* no block changes
LEMMA QsUnchanged == ASSUME UNCHANGED blk PROVE QsSame
  BY DEF QsSame

\* a ring grows
LEMMA QsBlks == ASSUME SameBlks PROVE QsSame
  BY DEF QsSame, SameBlks, SameBlk

\* a moved root comes with its count, a copy has none yet
LEMMA PlacesStart ==
  ASSUME Types, SendersOK, Places, NEW s \in Senders, NEW a \in Actors, NEW kind \in Kinds,
         Start(s, a, kind)
  PROVE  Places'
<1>1. SenderOK(s)
  BY DEF SendersOK
<1>2. PICK k \in 1..SendMax[s] : k = snd[s].left
  BY <1>1, StartEffect
<1>3. PICK m0 \in Messages : m0 = <<s, k>>
  BY MessageIs
<1>4. /\ snd[s].pc = "idle" /\ Cores /\ UNCHANGED blk /\ Others(s)
      /\ snd'[s].pc = IF kind = "copy" THEN "copy"
                      ELSE IF acb[a].bounded THEN "lock" ELSE "check"
      /\ snd'[s].m = m0 /\ snd'[s].left = k - 1
      /\ rc' = [rc EXCEPT ![m0] = IF kind = "move" THEN 1 ELSE @]
      /\ kind \in {"copy", "move"}
  BY <1>1, <1>2, <1>3, StartEffect DEF Cores
<1>5. /\ \A m \in Messages : m # m0 => rc'[m] = rc[m]
      /\ rc'[m0] = IF kind = "move" THEN 1 ELSE rc[m0]
  BY <1>4 DEF Types
<1>6. snd[s].m = None /\ QsSame /\ HandsSame
  BY <1>1, <1>4, HandsCores, QsUnchanged DEF SenderOK
<1>7. rc[m0] = 0
  BY <1>2, <1>3 DEF Places, Unsent
<1>8. ASSUME NEW m \in Messages, m # m0 PROVE Place1(m)'
  <2>1. m # None
    BY Const
  <2>2. s \in InSend(m)' <=> s \in InSend(m)
    BY <1>4, <1>6, <1>8, <2>1 DEF InSend
  <2>3. InSend(m)' = InSend(m)
    BY <1>4, <2>2, SendSame
  <2> QED BY <1>5, <1>6, <1>8, <2>3, Place1Same, RingSame, HandSame DEF Places
<1>9. Place1(m0)'
  <2>1. InRing(m0) = {} /\ InHand(m0) = {} /\ InSend(m0) = {}
    BY <1>7, Nowhere DEF Places
  <2>2. InRing(m0)' = {} /\ InHand(m0)' = {}
    BY <1>6, <2>1, RingSame, HandSame
  <2>3. \A t \in Senders : t # s => t \notin InSend(m0)'
    BY <1>4, <2>1 DEF InSend, Others
  <2>4. CASE kind = "copy"
    <3>1. InSend(m0)' = {}
      BY <1>4, <2>3, <2>4 DEF InSend
    <3> QED BY <1>5, <1>7, <2>2, <2>4, <3>1 DEF Place1
  <2>5. CASE kind = "move"
    <3>1. InSend(m0)' = {s}
      BY <1>4, <2>3, <2>5 DEF InSend
    <3> QED BY <1>5, <2>2, <2>5, <3>1, IsOne DEF Place1
  <2> QED BY <1>4, <2>4, <2>5
<1>10. Unsent'
  <2> SUFFICES ASSUME NEW t \in Senders, NEW j \in 1..snd'[t].left PROVE rc'[<<t, j>>] = 0
    BY DEF Unsent
  <2>1. CASE t = s
    <3>1. j \in 1..snd[s].left /\ <<t, j>> # m0
      BY <1>2, <1>3, <1>4, <2>1
    <3>2. <<t, j>> \in Messages /\ rc[<<t, j>>] = 0
      BY <2>1, <3>1, UnsentMessage DEF Places, Unsent
    <3> QED BY <1>5, <3>1, <3>2
  <2>2. CASE t # s
    <3>1. j \in 1..snd[t].left /\ <<t, j>> # m0
      BY <1>3, <1>4, <2>2 DEF Others
    <3>2. <<t, j>> \in Messages /\ rc[<<t, j>>] = 0
      BY <3>1, UnsentMessage DEF Places, Unsent
    <3> QED BY <1>5, <3>1, <3>2
  <2> QED BY <2>1, <2>2
<1>11. Copied'
  <2> SUFFICES ASSUME NEW t \in Senders, snd'[t].pc \in {"copy", "pin"} PROVE rc'[snd'[t].m] = 0
    BY DEF Copied
  <2>1. CASE t = s
    BY <1>4, <1>5, <1>7, <2>1
  <2>2. CASE t # s
    <3>1. snd[t].pc \in {"copy", "pin"} /\ snd'[t] = snd[t]
      BY <1>4, <2>2 DEF Others
    <3>2. snd[t].m # None
      BY <3>1 DEF SendersOK, SenderOK
    <3>3. snd[t].m \in Messages /\ snd[t].m = <<t, snd[t].left + 1>>
      BY <3>2, MessageOf
    <3>4. snd[t].m # m0
      BY <1>3, <2>2, <3>3
    <3> QED BY <1>5, <3>1, <3>3, <3>4 DEF Places, Copied
  <2> QED BY <2>1, <2>2
<1> QED BY <1>6, <1>8, <1>9, <1>10, <1>11, OncesSame, HandOnceSame DEF Places

\* the copy gets its count
LEMMA PlacesPin ==
  ASSUME Types, SendersOK, Places, NEW s \in Senders, Pin(s)
  PROVE  Places'
<1>1. snd[s].pc = "pin"
  BY DEF Pin, Ready
<1>2. snd[s].m # None
  BY <1>1 DEF SendersOK, SenderOK
<1>3. PICK m0 \in Messages : m0 = snd[s].m
  BY <1>2, MessageOf
<1>4. /\ Cores /\ UNCHANGED blk /\ Others(s)
      /\ snd'[s].pc \in {"lock", "check"} /\ snd'[s].m = m0 /\ snd'[s].left = snd[s].left
      /\ \A m \in Messages : rc'[m] = IF m = m0 THEN rc[m] + 1 ELSE rc[m]
  BY <1>3, PinEffect, CoresSame
<1>5. QsSame /\ HandsSame
  BY <1>4, HandsCores, QsUnchanged
<1>6. rc[m0] = 0
  BY <1>1, <1>3 DEF Places, Copied
<1>7. ASSUME NEW m \in Messages, m # m0 PROVE Place1(m)'
  <2>1. s \in InSend(m)' <=> s \in InSend(m)
    BY <1>3, <1>4, <1>7 DEF InSend
  <2>2. InSend(m)' = InSend(m)
    BY <1>4, <2>1, SendSame
  <2> QED BY <1>4, <1>5, <1>7, <2>2, Place1Same, RingSame, HandSame DEF Places
<1>8. Place1(m0)'
  <2>1. InRing(m0) = {} /\ InHand(m0) = {} /\ InSend(m0) = {}
    BY <1>6, Nowhere DEF Places
  <2>2. InRing(m0)' = {} /\ InHand(m0)' = {}
    BY <1>5, <2>1, RingSame, HandSame
  <2>3. InSend(m0)' = {s}
    BY <1>4, <2>1 DEF InSend, Others
  <2>4. rc'[m0] = 1
    BY <1>4, <1>6
  <2>5. One(InSend(m0)')
    BY <2>3, IsOne
  <2> QED BY <2>2, <2>4, <2>5 DEF Place1, One
<1>9. Unsent'
  <2> SUFFICES ASSUME NEW t \in Senders, NEW j \in 1..snd'[t].left PROVE rc'[<<t, j>>] = 0
    BY DEF Unsent
  <2>1. j \in 1..snd[t].left
    BY <1>4 DEF Others
  <2>2. <<t, j>> \in Messages /\ rc[<<t, j>>] = 0 /\ <<t, j>> # m0
    BY <1>2, <1>3, <2>1, UnsentMessage, MessageOf DEF Places, Unsent
  <2> QED BY <1>4, <2>2
<1>10. Copied'
  <2> SUFFICES ASSUME NEW t \in Senders, snd'[t].pc \in {"copy", "pin"} PROVE rc'[snd'[t].m] = 0
    BY DEF Copied
  <2>1. t # s /\ snd'[t] = snd[t]
    BY <1>4 DEF Others
  <2>2. snd[t].m # None
    BY <2>1 DEF SendersOK, SenderOK
  <2>3. snd[t].m \in Messages /\ snd[t].m # m0
    BY <1>2, <1>3, <2>1, <2>2, MessageOf
  <2> QED BY <1>4, <2>1, <2>3 DEF Places, Copied
<1> QED BY <1>5, <1>7, <1>8, <1>9, <1>10, OncesSame, HandOnceSame DEF Places

\* a sender's step in which its message stays with it
LEMMA PlacesGoes ==
  ASSUME Types, SendersOK, Places, NEW s \in Senders, Others(s), QsSame, HandsSame,
           UNCHANGED rc,
         snd'[s].left = snd[s].left, snd'[s].m = snd[s].m,
         snd'[s].pc \in {"copy", "pin"} <=> snd[s].pc \in {"copy", "pin"}
  PROVE  Places'
<1>1. ASSUME NEW m \in Messages PROVE InSend(m)' = InSend(m)
  <2>1. s \in InSend(m)' <=> s \in InSend(m)
    BY DEF InSend
  <2> QED BY <2>1, SendSame
<1>2. ASSUME NEW t \in Senders
      PROVE  /\ snd'[t].left \in Nat /\ snd'[t].left <= snd[t].left
             /\ snd'[t].pc \in {"copy", "pin"} => snd[t].pc \in {"copy", "pin"}
                  /\ snd'[t].m = snd[t].m
  <2>1. snd[t].left \in Nat /\ snd'[t].left = snd[t].left
    BY SndType DEF Types, Others
  <2> QED BY <2>1 DEF Others
<1> QED BY <1>1, <1>2, PlacesQuiet

\* a send that is refused has no message
LEMMA PlacesRefused ==
  ASSUME Types, SendersOK, Places, NEW s \in Senders, NEW a \in Actors, Refused(s, a)
  PROVE  Places'
<1>1. /\ snd[s].pc = "idle" /\ UNCHANGED <<acb, blk, rc>> /\ Others(s)
      /\ snd'[s].left = snd[s].left - 1 /\ snd[s].left > 0
      /\ snd'[s].pc = "idle" /\ snd'[s].m = snd[s].m
  BY RefusedEffect
<1>2. ASSUME NEW m \in Messages PROVE InSend(m)' = InSend(m)
  <2>1. s \in InSend(m)' <=> s \in InSend(m)
    BY <1>1 DEF InSend
  <2> QED BY <1>1, <2>1, SendSame
<1>3. ASSUME NEW t \in Senders
      PROVE  /\ snd'[t].left \in Nat /\ snd'[t].left <= snd[t].left
             /\ snd'[t].pc \in {"copy", "pin"} => snd[t].pc \in {"copy", "pin"}
                  /\ snd'[t].m = snd[t].m
  <2>1. snd[t].left \in Nat
    BY SndType DEF Types
  <2>2. t = s \/ snd'[t] = snd[t]
    BY <1>1 DEF Others
  <2> QED BY <1>1, <2>1, <2>2
<1> QED BY <1>1, <1>2, <1>3, PlacesQuiet, QsUnchanged, HandsCores, CoresSame

\* a send that is given up: the sender drops the count it had
LEMMA PlacesGiveUp ==
  ASSUME Types, SendersOK, Places, NEW s \in Senders, Others(s), Idled(s), QsSame, HandsSame,
         snd[s].pc \notin {"idle", "gone", "copy", "pin"}, Dropped({snd[s].m})
  PROVE  Places'
<1>1. snd[s].m # None
  BY DEF SendersOK, SenderOK
<1>2. PICK m0 \in Messages : m0 = snd[s].m
  BY <1>1, MessageOf
<1>3. s \in InSend(m0)
  BY <1>2 DEF InSend
<1>4. rc[m0] = 1 /\ InRing(m0) = {} /\ InHand(m0) = {} /\ InSend(m0) = {s}
  BY <1>3, AtSender DEF Places
<1>5. rc'[m0] = 0 /\ \A m \in Messages : m # m0 => rc'[m] = rc[m]
  BY <1>2, <1>4 DEF Dropped
<1>6. ASSUME NEW m \in Messages, m # m0 PROVE Place1(m)'
  <2>1. s \in InSend(m)' <=> s \in InSend(m)
    BY <1>2, <1>6, Const DEF InSend, Idled
  <2> QED BY <1>5, <1>6, <2>1, SendSame, Place1Same, RingSame, HandSame DEF Places
<1>7. Place1(m0)'
  <2>1. InRing(m0)' = {} /\ InHand(m0)' = {}
    BY <1>4, RingSame, HandSame
  <2>2. InSend(m0)' = {}
    BY <1>4, Const DEF InSend, Idled, Others
  <2> QED BY <1>5, <2>1, <2>2 DEF Place1
<1>8. Unsent'
  <2> SUFFICES ASSUME NEW t \in Senders, NEW j \in 1..snd'[t].left PROVE rc'[<<t, j>>] = 0
    BY DEF Unsent
  <2>1. j \in 1..snd[t].left
    BY DEF Others, Idled
  <2>2. <<t, j>> \in Messages /\ rc[<<t, j>>] = 0 /\ <<t, j>> # m0
    BY <1>1, <1>2, <2>1, UnsentMessage, MessageOf DEF Places, Unsent
  <2> QED BY <1>5, <2>2
<1>9. Copied'
  <2> SUFFICES ASSUME NEW t \in Senders, snd'[t].pc \in {"copy", "pin"} PROVE rc'[snd'[t].m] = 0
    BY DEF Copied
  <2>1. t # s /\ snd'[t] = snd[t]
    BY DEF Others, Idled
  <2>2. snd[t].m # None
    BY <2>1 DEF SendersOK, SenderOK
  <2>3. snd[t].m \in Messages /\ snd[t].m # m0
    BY <1>1, <1>2, <2>1, <2>2, MessageOf
  <2> QED BY <1>5, <2>1, <2>3 DEF Places, Copied
<1> QED BY <1>6, <1>7, <1>8, <1>9, OncesSame, HandOnceSame DEF Places

\* a message goes from its sender's hand into a ring
LEMMA PlacesPut ==
  ASSUME Types, SendersOK, Places, NEW s \in Senders, Others(s), Idled(s), HandsSame,
           UNCHANGED rc,
         snd[s].pc \notin {"idle", "gone", "copy", "pin"}, snd[s].to \in Actors,
         NEW b \in Blocks, Rings(b, blk[b].q \cup {Mail(s)})
  PROVE  Places'
<1>1. snd[s].m # None
  BY DEF SendersOK, SenderOK
<1>2. PICK m0 \in Messages : m0 = snd[s].m
  BY <1>1, MessageOf
<1>3. s \in InSend(m0)
  BY <1>2 DEF InSend
<1>4. rc[m0] = 1 /\ InRing(m0) = {} /\ InHand(m0) = {} /\ InSend(m0) = {s}
  BY <1>3, AtSender DEF Places
<1>5. PICK e \in Entry : e = Mail(s) /\ e.m = m0
  BY <1>2, MailIs
<1>6. blk'[b].q = blk[b].q \cup {e} /\ \A c \in Blocks : c # b => blk'[c].q = blk[c].q
  BY <1>5 DEF Rings
<1>7. ASSUME NEW m \in Messages, m # m0 PROVE Place1(m)'
  <2>1. s \in InSend(m)' <=> s \in InSend(m)
    BY <1>2, <1>7, Const DEF InSend, Idled
  <2>2. \A c \in Blocks : c \in InRing(m)' <=> c \in InRing(m)
    <3> SUFFICES ASSUME NEW c \in Blocks PROVE c \in InRing(m)' <=> c \in InRing(m)
      OBVIOUS
    <3>1. CASE c = b
      BY <1>5, <1>6, <1>7, <3>1 DEF InRing, Roots
    <3>2. CASE c # b
      BY <1>6, <3>2 DEF InRing, Roots
    <3> QED BY <3>1, <3>2
  <2>3. InRing(m)' = InRing(m)
    BY <2>2 DEF InRing
  <2> QED BY <1>7, <2>1, <2>3, SendSame, Place1Same, HandSame DEF Places
<1>8. Place1(m0)'
  <2>1. InHand(m0)' = {}
    BY <1>4, HandSame
  <2>2. InSend(m0)' = {}
    BY <1>4, Const DEF InSend, Idled, Others
  <2>3. \A c \in Blocks : c \in InRing(m0)' <=> c = b
    <3> SUFFICES ASSUME NEW c \in Blocks PROVE c \in InRing(m0)' <=> c = b
      OBVIOUS
    <3>1. CASE c = b
      BY <1>5, <1>6, <3>1 DEF InRing, Roots
    <3>2. CASE c # b
      BY <1>4, <1>6, <3>2 DEF InRing, Roots
    <3> QED BY <3>1, <3>2
  <2>4. InRing(m0)' = {b}
    BY <2>3 DEF InRing
  <2> QED BY <1>4, <2>1, <2>2, <2>4, IsOne DEF Place1
<1>9. Unsent'
  BY DEF Unsent, Places, Others, Idled
<1>10. Copied'
  BY DEF Copied, Places, Others, Idled
<1>11. OnceIn'
  <2> SUFFICES ASSUME NEW c \in Blocks, NEW e1 \in blk'[c].q, NEW e2 \in blk'[c].q, e1.m = e2.m
               PROVE  e1 = e2
    BY DEF OnceIn
  <2>1. CASE c # b
    BY <1>6, <2>1 DEF Places, OnceIn
  <2>2. CASE c = b
    <3>1. \A d \in blk[b].q : d.m # m0
      BY <1>4 DEF InRing, Roots
    <3>2. (e1 \in blk[b].q \/ e1 = e) /\ (e2 \in blk[b].q \/ e2 = e)
      BY <1>6, <2>2
    <3>3. CASE e1 \in blk[b].q /\ e2 \in blk[b].q
      BY <3>3 DEF Places, OnceIn
    <3> QED BY <1>5, <3>1, <3>2, <3>3
  <2> QED BY <2>1, <2>2
<1> QED BY <1>7, <1>8, <1>9, <1>10, <1>11, HandOnceSame DEF Places

\* a dead sender's root is dropped if it was recorded
LEMMA PlacesReapSender ==
  ASSUME Types, SendersOK, Places, NEW s \in Senders, ReapSender(s)
  PROVE  Places'
<1>1. /\ snd[s].pc \in Parkable /\ UNCHANGED blk /\ Cores /\ Dropped(CancelRoots(s))
           /\ Others(s)
      /\ snd'[s].pc = "gone" /\ snd'[s].m = IF snd[s].pc = "grow" THEN snd[s].m ELSE None
      /\ snd'[s].left = snd[s].left /\ rc' \in [Messages -> Int]
  BY ReapSenderEffect
<1>2. snd[s].send_root = None /\ (snd[s].pc = "idle" => snd[s].m = None)
  BY <1>1 DEF SendersOK, SenderOK, Parkable
<1>3. UNCHANGED rc
  <2>1. \A m \in Messages : rc'[m] = rc[m]
    BY <1>1, <1>2 DEF CancelRoots, Dropped
  <2>2. rc \in [Messages -> Int] /\ rc' \in [Messages -> Int]
    BY <1>1 DEF Types
  <2> QED BY <2>1, <2>2
<1>4. ASSUME NEW m \in Messages PROVE InSend(m)' = InSend(m)
  <2>1. m # None
    BY Const
  <2>2. s \in InSend(m)' <=> s \in InSend(m)
    BY <1>1, <1>2, <2>1 DEF InSend, Parkable
  <2> QED BY <1>1, <2>2, SendSame
<1>5. ASSUME NEW t \in Senders
      PROVE  /\ snd'[t].left \in Nat /\ snd'[t].left <= snd[t].left
             /\ snd'[t].pc \in {"copy", "pin"} => snd[t].pc \in {"copy", "pin"}
                  /\ snd'[t].m = snd[t].m
  <2>1. snd[t].left \in Nat /\ snd'[t].left = snd[t].left
    BY <1>1, SndType DEF Types, Others
  <2>2. t = s \/ snd'[t] = snd[t]
    BY <1>1 DEF Others
  <2> QED BY <1>1, <2>1, <2>2
<1> QED BY <1>1, <1>3, <1>4, <1>5, PlacesQuiet, QsUnchanged, HandsCores

-----------------------------------------------------------------------------
\* Places, for the steps that empty a hand or a block.

\* what is left of Places when senders do nothing and no count changes
LEMMA KeepsUnsent ==
  ASSUME Places, UNCHANGED <<snd, rc>> PROVE Unsent' /\ Copied'
  BY DEF Places, Unsent, Copied

\* nothing moves
LEMMA PlacesStill ==
  ASSUME Types, SendersOK, Places, UNCHANGED <<snd, rc>>, QsSame, HandsSame
  PROVE  Places'
<1>1. \A m \in Messages : Place1(m)'
  BY Place1Same, RingSame, HandSame, SendUnchanged DEF Places
<1> QED BY <1>1, KeepsUnsent, OncesSame, HandOnceSame DEF Places

\* the empty hand holds no message
LEMMA NoHand == ASSUME NEW m \in Messages PROVE NoEntry.m # m
  BY Const DEF NoEntry

\* an entry goes from the ring to the hand
LEMMA PlacesTake ==
  ASSUME Types, SendersOK, Places, NEW a \in Actors, NEW b \in Blocks, acb[a].ch = b, NEW e,
         Take(a, e)
  PROVE  Places'
<1>1. /\ acb[a].hand = NoEntry /\ e \in blk[b].q /\ e \in Entry
      /\ UNCHANGED <<snd, rc>> /\ Rings(b, blk[b].q \ {e})
      /\ Only(a) /\ acb'[a].hand = e /\ acb'[a].rx = acb[a].rx
  BY TakeEffect
<1>2. PICK m0 \in Messages : m0 = e.m
  BY <1>1 DEF Entry
<1>3. blk'[b].q = blk[b].q \ {e} /\ \A c \in Blocks : c # b => blk'[c].q = blk[c].q
  BY <1>1 DEF Rings
<1>4. \A d \in blk[b].q : d.m = m0 => d = e
  BY <1>1, <1>2 DEF Places, OnceIn
<1>5. b \in InRing(m0)
  BY <1>1, <1>2 DEF InRing, Roots
<1>6. rc[m0] = 1 /\ InRing(m0) = {b} /\ InHand(m0) = {} /\ InSend(m0) = {}
  BY <1>5, AtRing DEF Places
<1>7. \A c \in Actors : c # a => acb'[c].hand = acb[c].hand /\ acb'[c].rx = acb[c].rx
  BY <1>1 DEF Only, SameAcb, Core
<1>8. ASSUME NEW m \in Messages, m # m0 PROVE Place1(m)'
  <2>1. \A c \in Blocks : c \in InRing(m)' <=> c \in InRing(m)
    <3> SUFFICES ASSUME NEW c \in Blocks PROVE c \in InRing(m)' <=> c \in InRing(m)
      OBVIOUS
    <3>1. CASE c = b
      BY <1>2, <1>3, <1>8, <3>1 DEF InRing, Roots
    <3>2. CASE c # b
      BY <1>3, <3>2 DEF InRing, Roots
    <3> QED BY <3>1, <3>2
  <2>2. InRing(m)' = InRing(m)
    BY <2>1 DEF InRing
  <2>3. \A c \in Actors : c \in InHand(m)' <=> c \in InHand(m)
    BY <1>1, <1>2, <1>7, <1>8, NoHand DEF InHand
  <2>4. InHand(m)' = InHand(m)
    BY <2>3 DEF InHand
  <2> QED BY <1>1, <2>2, <2>4, SendUnchanged, Place1Same DEF Places
<1>9. Place1(m0)'
  <2>1. \A c \in Blocks : c \notin InRing(m0)'
    <3> SUFFICES ASSUME NEW c \in Blocks PROVE c \notin InRing(m0)'
      OBVIOUS
    <3>1. CASE c = b
      BY <1>3, <1>4, <3>1 DEF InRing, Roots
    <3>2. CASE c # b
      BY <1>3, <1>6, <3>2 DEF InRing, Roots
    <3> QED BY <3>1, <3>2
  <2>2. InRing(m0)' = {}
    BY <2>1 DEF InRing
  <2>3. \A c \in Actors : c \in InHand(m0)' <=> c = a
    BY <1>1, <1>2, <1>6, <1>7 DEF InHand
  <2>4. One(InHand(m0)')
    <3>1. InHand(m0)' = {a}
      BY <2>3 DEF InHand
    <3> QED BY <3>1, IsOne
  <2>5. InSend(m0)' = {} /\ rc'[m0] = 1
    BY <1>1, <1>6, SendUnchanged
  <2> QED BY <2>2, <2>4, <2>5 DEF Place1, One
<1>10. OnceIn'
  <2>1. \A c \in Blocks : blk'[c].q \subseteq blk[c].q
    BY <1>3
  <2> QED BY <2>1 DEF Places, OnceIn
<1>11. InHandOnce'
  <2> SUFFICES ASSUME NEW c \in Actors, acb'[c].hand # NoEntry
                        PROVE acb'[c].hand.m \notin acb'[c].rx
    BY DEF InHandOnce
  <2>1. CASE c = a
    BY <1>1, <1>2, <1>6, <2>1 DEF InHand
  <2>2. CASE c # a
    BY <1>7, <2>2 DEF Places, InHandOnce
  <2> QED BY <2>1, <2>2
<1> QED BY <1>1, <1>8, <1>9, <1>10, <1>11, KeepsUnsent DEF Places

\* from the hand to what was received
LEMMA PlacesTaken ==
  ASSUME Types, SendersOK, Places, NEW a \in Actors, Taken(a)
  PROVE  Places'
<1>1. /\ acb[a].hand \in Entry /\ UNCHANGED <<blk, snd, rc>>
      /\ Only(a) /\ acb'[a].hand = NoEntry /\ acb'[a].rx = acb[a].rx \cup {acb[a].hand.m}
  BY TakenEffect
<1>2. \A c \in Actors : c # a => acb'[c].hand = acb[c].hand /\ acb'[c].rx = acb[c].rx
  BY <1>1 DEF Only, SameAcb, Core
<1>3. ASSUME NEW m \in Messages PROVE Place1(m)'
  <2>1. \A c \in Actors : c \in InHand(m)' <=> c \in InHand(m)
    <3> SUFFICES ASSUME NEW c \in Actors PROVE c \in InHand(m)' <=> c \in InHand(m)
      OBVIOUS
    <3>1. CASE c = a
      BY <1>1, <3>1, NoHand DEF InHand
    <3>2. CASE c # a
      BY <1>2, <3>2 DEF InHand
    <3> QED BY <3>1, <3>2
  <2>2. InHand(m)' = InHand(m)
    BY <2>1 DEF InHand
  <2> QED BY <1>1, <2>2, QsUnchanged, RingSame, SendUnchanged, Place1Same DEF Places
<1>4. InHandOnce'
  BY <1>1, <1>2 DEF Places, InHandOnce
<1> QED BY <1>1, <1>3, <1>4, KeepsUnsent, OncesSame, QsUnchanged DEF Places

\* which the turn drops
LEMMA PlacesEndTurn ==
  ASSUME Types, SendersOK, Places, NEW a \in Actors, EndTurn(a)
  PROVE  Places'
<1>1. /\ acb[a].hand = NoEntry /\ UNCHANGED <<blk, snd>> /\ Dropped(acb[a].rx)
      /\ Only(a) /\ acb'[a].rx = {} /\ acb'[a].hand = acb[a].hand
  BY EndTurnEffect
<1>2. \A c \in Actors : c # a => acb'[c].hand = acb[c].hand /\ acb'[c].rx = acb[c].rx
  BY <1>1 DEF Only, SameAcb, Core
<1>3. \A m \in acb[a].rx : m \in Messages /\ a \in InHand(m)
  BY AcbType DEF Types, InHand
<1>4. \A m \in acb[a].rx : rc[m] = 1 /\ InRing(m) = {} /\ InHand(m) = {a} /\ InSend(m) = {}
  BY <1>3, AtHand DEF Places
<1>5. ASSUME NEW m \in Messages PROVE Place1(m)'
  <2>1. InRing(m)' = InRing(m) /\ InSend(m)' = InSend(m)
    BY <1>1, QsUnchanged, RingSame, SendUnchanged
  <2>2. CASE m \in acb[a].rx
    <3>1. rc'[m] = 0
      BY <1>1, <1>4, <2>2 DEF Dropped
    <3>2. \A c \in Actors : c \notin InHand(m)'
      BY <1>1, <1>2, <1>4, <2>2, NoHand DEF InHand
    <3>3. InHand(m)' = {}
      BY <3>2 DEF InHand
    <3> QED BY <1>4, <2>1, <2>2, <3>1, <3>3 DEF Place1
  <2>3. CASE m \notin acb[a].rx
    <3>1. rc'[m] = rc[m]
      BY <1>1, <2>3 DEF Dropped
    <3>2. \A c \in Actors : c \in InHand(m)' <=> c \in InHand(m)
      BY <1>1, <1>2, <2>3 DEF InHand
    <3>3. InHand(m)' = InHand(m)
      BY <3>2 DEF InHand
    <3> QED BY <2>1, <3>1, <3>3, Place1Same DEF Places
  <2> QED BY <2>2, <2>3
<1>6. InHandOnce'
  BY <1>1, <1>2 DEF Places, InHandOnce
<1>7. Unsent' /\ Copied'
  BY <1>1, <1>4, DropsQuiet
<1> QED BY <1>1, <1>5, <1>6, <1>7, OncesSame, QsUnchanged DEF Places

\* Whoever clears the rings of a block drops what is in them, and the reaper
\* what its actor has received.
LEMMA PlacesClear ==
  ASSUME Types, SendersOK, Places, UNCHANGED snd, NEW b \in Blocks, blk'[b].q = {},
         \A c \in Blocks : c # b => blk'[c].q = blk[c].q,
         NEW ms, Dropped(Roots(blk[b].q) \cup ms), NEW A, A \subseteq Actors,
         \A a \in A : acb[a].hand = NoEntry /\ acb'[a].hand = NoEntry /\ acb'[a].rx = {},
         \A a \in Actors : a \notin A => acb'[a].hand = acb[a].hand /\ acb'[a].rx = acb[a].rx,
         \A m \in Messages : m \in ms <=> \E a \in A : m \in acb[a].rx,
         ms \subseteq Messages
  PROVE  Places'
<1>1. ASSUME NEW m \in Roots(blk[b].q)
      PROVE  m \in Messages /\ rc[m] = 1 /\ InRing(m) = {b} /\ InHand(m) = {} /\ InSend(m) = {}
  <2>1. m \in Messages
    BY EntryTo DEF Roots
  <2>2. b \in InRing(m)
    BY DEF InRing
  <2> QED BY <2>1, <2>2, AtRing DEF Places
<1>2. ASSUME NEW m \in ms
      PROVE  \E a \in A : rc[m] = 1 /\ InRing(m) = {} /\ InHand(m) = {a} /\ InSend(m) = {}
  <2>1. PICK a \in A : m \in acb[a].rx
    OBVIOUS
  <2>2. a \in InHand(m) /\ m \in Messages
    BY <2>1 DEF InHand
  <2> QED BY <2>2, AtHand DEF Places
<1>3. ASSUME NEW m \in Messages PROVE Place1(m)'
  <2>1. InSend(m)' = InSend(m)
    BY SendUnchanged
  <2>2. CASE m \in Roots(blk[b].q)
    <3>1. rc'[m] = 0
      BY <1>1, <2>2 DEF Dropped
    <3>2. \A c \in Blocks : c \notin InRing(m)'
      <4> SUFFICES ASSUME NEW c \in Blocks PROVE c \notin InRing(m)'
        OBVIOUS
      <4>1. CASE c = b
        BY <4>1 DEF InRing, Roots
      <4>2. CASE c # b
        <5>1. c \notin InRing(m)
          BY <1>1, <2>2, <4>2
        <5> QED BY <4>2, <5>1 DEF InRing, Roots
      <4> QED BY <4>1, <4>2
    <3>3. InRing(m)' = {}
      BY <3>2 DEF InRing
    <3>4. \A a \in Actors : a \notin InHand(m)'
      <4> SUFFICES ASSUME NEW a \in Actors PROVE a \notin InHand(m)'
        OBVIOUS
      <4>1. CASE a \in A
        BY <4>1, NoHand DEF InHand
      <4>2. CASE a \notin A
        <5>1. a \notin InHand(m)
          BY <1>1, <2>2
        <5> QED BY <4>2, <5>1 DEF InHand
      <4> QED BY <4>1, <4>2
    <3>5. InHand(m)' = {}
      BY <3>4 DEF InHand
    <3> QED BY <1>1, <2>1, <2>2, <3>1, <3>3, <3>5 DEF Place1
  <2>3. CASE m \notin Roots(blk[b].q)
    <3>1. \A c \in Blocks : c \in InRing(m)' <=> c \in InRing(m)
      <4> SUFFICES ASSUME NEW c \in Blocks PROVE c \in InRing(m)' <=> c \in InRing(m)
        OBVIOUS
      <4>1. CASE c = b
        BY <2>3, <4>1 DEF InRing, Roots
      <4>2. CASE c # b
        BY <4>2 DEF InRing, Roots
      <4> QED BY <4>1, <4>2
    <3>2. InRing(m)' = InRing(m)
      BY <3>1 DEF InRing
    <3>3. CASE m \in ms
      <4>1. PICK x \in A : rc[m] = 1 /\ InRing(m) = {} /\ InHand(m) = {x} /\ InSend(m) = {}
        BY <1>2, <3>3
      <4>2. rc'[m] = 0
        BY <3>3, <4>1 DEF Dropped
      <4>3. \A a \in Actors : a \notin InHand(m)'
        <5> SUFFICES ASSUME NEW a \in Actors PROVE a \notin InHand(m)'
          OBVIOUS
        <5>1. CASE a \in A
          BY <5>1, NoHand DEF InHand
        <5>2. CASE a \notin A
          <6>1. a \notin InHand(m)
            BY <4>1, <5>2
          <6> QED BY <5>2, <6>1 DEF InHand
        <5> QED BY <5>1, <5>2
      <4>4. InHand(m)' = {}
        BY <4>3 DEF InHand
      <4> QED BY <2>1, <3>2, <4>1, <4>2, <4>4 DEF Place1
    <3>4. CASE m \notin ms
      <4>1. rc'[m] = rc[m]
        BY <2>3, <3>4 DEF Dropped
      <4>2. \A a \in Actors : a \in InHand(m)' <=> a \in InHand(m)
        <5> SUFFICES ASSUME NEW a \in Actors PROVE a \in InHand(m)' <=> a \in InHand(m)
          OBVIOUS
        <5>1. CASE a \in A
          BY <3>4, <5>1, NoHand DEF InHand
        <5>2. CASE a \notin A
          BY <5>2 DEF InHand
        <5> QED BY <5>1, <5>2
      <4>3. InHand(m)' = InHand(m)
        BY <4>2 DEF InHand
      <4> QED BY <2>1, <3>2, <4>1, <4>3, Place1Same DEF Places
    <3> QED BY <3>3, <3>4
  <2> QED BY <2>2, <2>3
<1>4. OnceIn'
  <2>1. \A c \in Blocks : blk'[c].q \subseteq blk[c].q
    OBVIOUS
  <2> QED BY <2>1 DEF Places, OnceIn
<1>5. InHandOnce'
  BY DEF Places, InHandOnce
<1>6. Unsent' /\ Copied'
  <2>1. \A m \in Roots(blk[b].q) \cup ms : rc[m] = 1
    BY <1>1, <1>2
  <2> QED BY <2>1, DropsQuiet
<1> QED BY <1>3, <1>4, <1>5, <1>6 DEF Places

\* the reaper drops it all
LEMMA PlacesDrain ==
  ASSUME Types, LivesOK, SendersOK, Places, NEW a \in Actors, NEW b \in Blocks, acb[a].ch = b,
         Drain(a)
  PROVE  Places'
<1>1. /\ acb[a].life = "claimed" /\ UNCHANGED snd /\ Only(a) /\ acb'[a].rx = {}
      /\ acb'[a].hand = acb[a].hand /\ Rings(b, {}) /\ Dropped(Roots(blk[b].q) \cup acb[a].rx)
  BY DrainEffect
<1>2. acb[a].hand = NoEntry
  BY <1>1 DEF LivesOK, LifeOK
<1>3. acb[a].rx \subseteq Messages
  BY AcbType DEF Types
<1>4. blk'[b].q = {} /\ \A c \in Blocks : c # b => blk'[c].q = blk[c].q
  BY <1>1 DEF Rings
<1>5. \A c \in Actors : c \notin {a} => acb'[c].hand = acb[c].hand /\ acb'[c].rx = acb[c].rx
  BY <1>1 DEF Only, SameAcb, Core
<1>6. \A c \in {a} : acb[c].hand = NoEntry /\ acb'[c].hand = NoEntry /\ acb'[c].rx = {}
  BY <1>1, <1>2
<1>7. \A m \in Messages : m \in acb[a].rx <=> \E c \in {a} : m \in acb[c].rx
  OBVIOUS
<1>8. {a} \subseteq Actors
  OBVIOUS
<1> QED BY <1>1, <1>3, <1>4, <1>5, <1>6, <1>7, <1>8, PlacesClear

\* chan_init drops what late writers left
LEMMA PlacesInitBlock ==
  ASSUME Types, SpawnerOK, SendersOK, Places, InitBlock
  PROVE  Places'
<1>1. PICK b \in Blocks : b = sp.ch
  BY InitBlockEffect
<1>2. /\ UNCHANGED snd /\ Cores /\ Dropped(Roots(blk[b].q))
      /\ blk'[b].q = {} /\ \A c \in Blocks : c # b => blk'[c].q = blk[c].q
  BY <1>1, InitBlockEffect
<1>3. \A c \in Actors : c \notin {} => acb'[c].hand = acb[c].hand /\ acb'[c].rx = acb[c].rx
  BY <1>2, HandsCores DEF HandsSame
<1>4. Dropped(Roots(blk[b].q) \cup {})
  BY <1>2 DEF Dropped
<1>5. PICK A : A = {}
  OBVIOUS
<1>6. PICK ms : ms = {}
  OBVIOUS
<1> QED BY <1>2, <1>3, <1>4, <1>5, <1>6, PlacesClear

-----------------------------------------------------------------------------
\* Every step of a sender keeps the invariant.

\* types, from what each step says
LEMMA TypesStep ==
  ASSUME Types, UNCHANGED acb \/ acb' \in [Actors -> Acb], UNCHANGED blk \/ BlkTypes,
         UNCHANGED snd \/ snd' \in [Senders -> Snd], UNCHANGED rc \/ rc' \in [Messages -> Int],
         UNCHANGED out \/ out' \in [Items -> Int], UNCHANGED sp \/ sp' \in Sp
  PROVE  Types'
  BY DEF Types, BlkTypes

\* the conjuncts of the invariant
LEMMA Parts ==
  ASSUME IInv
  PROVE  /\ Types /\ LivesOK /\ SendersOK /\ SpawnerOK /\ BlocksOK /\ OutOK /\ Places
         /\ \A s \in Senders : SenderOK(s)
         /\ \A a \in Actors : LifeOK(a)
  BY DEF IInv, LivesOK, SendersOK

\* A step of a sender that leaves the blocks' rings and the lock words alone.
LEMMA SenderStep ==
  ASSUME IInv, NEW s \in Senders, UNCHANGED <<out, sp>>, snd' \in [Senders -> Snd], Others(s),
         UNCHANGED rc \/ rc' \in [Messages -> Int], Cores, SameBlks,
         snd[s].pc = "publish" => snd'[s].pc = "publish" /\ snd'[s].to = snd[s].to,
         SenderOK(s)', Places'
  PROVE  IInv'
<1>1. /\ Types /\ LivesOK /\ SendersOK /\ SpawnerOK /\ BlocksOK /\ OutOK
  BY Parts
<1>2. Types'
  BY <1>1, TypesStep DEF Cores, SameBlks
<1>3. LivesOK'
  BY <1>1, LivesSender
<1>4. SendersOK'
  BY <1>1, SendersStep, StaysCores, LimboBlks
<1>5. \A b \in Blocks : BlkSame(b) /\ blk'[b].q \subseteq blk[b].q
        /\ blk'[b].since = blk[b].since
  BY DEF SameBlks, SameBlk, BlkSame
<1>6. SpawnerOK'
  BY <1>1, <1>5, SpawnerQuiet
<1>7. \A a \in Actors : acb'[a].var = acb[a].var /\ acb'[a].life = acb[a].life
  BY DEF Cores, SameAcb, Core
<1>8. BlocksOK'
  BY <1>1, <1>5, <1>7, BlocksFrame, HolderCores, SpUnchanged, HomeBlks
<1>9. OutOK'
  BY <1>1, OutFrame, ItemsCores
<1> QED BY <1>2, <1>3, <1>4, <1>6, <1>8, <1>9 DEF IInv

\* each step of a sender, from here on
LEMMA StepStart ==
  ASSUME IInv, NEW s \in Senders, NEW a \in Actors, NEW kind \in Kinds, Start(s, a, kind)
  PROVE  IInv'
<1>1. Types /\ SendersOK /\ SenderOK(s) /\ Places
  BY Parts
<1>2. /\ snd[s].pc = "idle" /\ \A b \in Actors : SameAcb(b)
      /\ acb' \in [Actors -> Acb] /\ UNCHANGED <<blk, out, sp>> /\ Others(s)
      /\ snd' \in [Senders -> Snd] /\ <<s, snd[s].left>> \in Messages
      /\ rc' = [rc EXCEPT ![<<s, snd[s].left>>] = IF kind = "move" THEN 1 ELSE @]
  BY <1>1, StartEffect
<1>3. rc' \in [Messages -> Int]
  BY <1>1, <1>2 DEF Types
<1>4. Cores /\ SameBlks
  BY <1>1, <1>2, SameBlksUnchanged DEF Cores
<1>5. SenderOK(s)' /\ Places'
  BY <1>1, SenderStart, PlacesStart
<1> QED BY <1>2, <1>3, <1>4, <1>5, SenderStep

LEMMA StepRefused ==
  ASSUME IInv, NEW s \in Senders, NEW a \in Actors, Refused(s, a)
  PROVE  IInv'
<1>1. Types /\ SendersOK /\ SenderOK(s) /\ Places
  BY Parts
<1>2. /\ snd[s].pc = "idle" /\ UNCHANGED <<acb, blk, rc, out, sp>>
      /\ snd' \in [Senders -> Snd] /\ Others(s)
  BY <1>1, RefusedEffect
<1>3. Cores /\ SameBlks /\ SenderOK(s)' /\ Places'
  BY <1>1, <1>2, CoresSame, SameBlksUnchanged, SenderRefused, PlacesRefused
<1> QED BY <1>2, <1>3, SenderStep

LEMMA StepCopy ==
  ASSUME IInv, NEW s \in Senders, Copy(s)
  PROVE  IInv'
<1>1. Types /\ SendersOK /\ SenderOK(s) /\ Places
  BY Parts
<1>2. /\ snd[s].pc = "copy" /\ UNCHANGED <<acb, blk, rc, out, sp>>
      /\ snd' \in [Senders -> Snd] /\ Others(s) /\ snd'[s].pc = "pin" /\ SameSnd(s)
  BY <1>1, CopyEffect
<1>3. Cores /\ SameBlks /\ SenderOK(s)'
  BY <1>1, <1>2, CoresSame, SameBlksUnchanged, SenderCopy
<1>4. Places'
  BY <1>1, <1>2, PlacesGoes, QsUnchanged, HandsCores, CoresSame DEF SameSnd
<1> QED BY <1>2, <1>3, <1>4, SenderStep

LEMMA StepPin ==
  ASSUME IInv, NEW s \in Senders, Pin(s)
  PROVE  IInv'
<1>1. Types /\ SendersOK /\ SenderOK(s) /\ Places
  BY Parts
<1>2. snd[s].pc = "pin"
  BY DEF Pin, Ready
<1>3. snd[s].m \in Messages
  BY <1>1, <1>2, MessageOf DEF SenderOK
<1>4. /\ UNCHANGED <<acb, blk, out, sp>> /\ rc' \in [Messages -> Int]
      /\ snd' \in [Senders -> Snd] /\ Others(s)
  BY <1>1, <1>3, PinEffect
<1>5. Cores /\ SameBlks /\ SenderOK(s)' /\ Places'
  BY <1>1, <1>4, CoresSame, SameBlksUnchanged, SenderPin, PlacesPin
<1> QED BY <1>2, <1>4, <1>5, SenderStep

\* A send that is given up, with the reservation if there was one.
LEMMA StepGiveUp ==
  ASSUME IInv, NEW s \in Senders, UNCHANGED <<out, sp>>, snd' \in [Senders -> Snd], Others(s),
         rc' \in [Messages -> Int], Cores, SameBlks, Idled(s), Dropped({snd[s].m}),
         snd[s].pc \notin {"idle", "gone", "copy", "pin", "publish"}
  PROVE  IInv'
<1>1. Types /\ SendersOK /\ SenderOK(s) /\ Places
  BY Parts
<1>2. SenderOK(s)'
  BY <1>1, SenderIdled
<1>3. Places'
  BY <1>1, PlacesGiveUp, QsBlks, HandsCores
<1> QED BY <1>2, <1>3, SenderStep

\* a send under way has a target and a message
LEMMA SendTo ==
  ASSUME IInv, NEW s \in Senders, snd[s].pc \notin {"idle", "gone"}
  PROVE  snd[s].to \in Actors /\ snd[s].m \in Messages /\ acb[snd[s].to].var # "unborn"
         /\ snd[s].m # None
<1>1. Types /\ SendersOK /\ SenderOK(s)
  BY Parts
<1>2. snd[s].to \in Actors /\ snd[s].m # None /\ acb[snd[s].to].var # "unborn"
  BY <1>1 DEF SenderOK
<1> QED BY <1>1, <1>2, MessageOf

LEMMA StepLock ==
  ASSUME IInv, NEW s \in Senders, Lock(s)
  PROVE  IInv'
<1>1. /\ Types /\ LivesOK /\ SendersOK /\ SpawnerOK /\ BlocksOK /\ OutOK /\ Places
      /\ SenderOK(s)
  BY Parts
<1>2. snd[s].pc = "lock"
  BY DEF Lock, Ready
<1>3. PICK a \in Actors : a = snd[s].to /\ acb[a].var # "unborn" /\ snd[s].m # None
  BY <1>2, SendTo
<1>4. snd[s].send_root = snd[s].m /\ acb[a].bounded
  BY <1>1, <1>2, <1>3 DEF SenderOK
<1>5. /\ UNCHANGED <<blk, out, sp>> /\ snd' \in [Senders -> Snd] /\ Others(s)
      /\ rc' \in [Messages -> Int] /\ acb[a].shlock = None
      /\ \/ acb[a].var = "DEAD" /\ Cores /\ Idled(s) /\ Dropped(CancelRoots(s))
         \/ acb[a].var # "DEAD" /\ Locked(a, s) /\ UNCHANGED rc
            /\ snd'[s].pc = "publish" /\ SameSnd(s)
  BY <1>1, <1>3, LockEffect
<1>6. CASE Cores /\ Idled(s) /\ Dropped(CancelRoots(s))
  <2>1. Dropped({snd[s].m})
    BY <1>3, <1>4, <1>6 DEF CancelRoots
  <2>2. SameBlks
    BY <1>1, <1>5, SameBlksUnchanged
  <2> QED BY <1>2, <1>5, <1>6, <2>1, <2>2, StepGiveUp
<1>7. CASE acb[a].var # "DEAD" /\ Locked(a, s) /\ UNCHANGED rc /\ snd'[s].pc = "publish"
             /\ SameSnd(s)
  <2>1. Types'
    BY <1>1, <1>5, <1>7, TypesStep DEF Locked
  <2>2. snd'[s].to = a /\ snd'[s].m = snd[s].m /\ snd'[s].left = snd[s].left
    BY <1>3, <1>7 DEF SameSnd
  <2>3. LivesOK'
    BY <1>1, <1>2, <1>3, <1>4, <1>5, <1>7, <2>2, LivesLock
  <2>4. SenderOK(s)'
    BY <1>1, <1>2, <1>3, <1>7, SenderLock
  <2>5. \A t \in Senders : t # s => ShlockStays(t) /\ LimboStays(t)
    BY <1>5, <1>7, Const, StaysLocked, LimboUnchanged
  <2>6. SendersOK'
    BY <1>1, <1>5, <1>7, <2>4, <2>5, SendersStep, StaysLocked
  <2>7. SpawnerOK'
    BY <1>1, <1>5, SpawnerQuiet
  <2>8. \A c \in Actors : acb'[c].var = acb[c].var /\ acb'[c].life = acb[c].life
                          /\ acb'[c].items = acb[c].items
    BY <1>7 DEF Locked, SameAcb, Core
  <2>9. \A b \in Blocks : BlkSame(b) /\ blk'[b].q \subseteq blk[b].q
          /\ blk'[b].since = blk[b].since
    BY <1>5 DEF BlkSame
  <2>10. BlocksOK'
    BY <1>1, <1>5, <1>7, <2>8, <2>9, BlocksFrame, HolderLocked, SpUnchanged, HomeBlks
  <2>11. OutOK'
    BY <1>1, <1>5, <2>8, OutFrame DEF ItemsSame
  <2>12. Places'
    BY <1>1, <1>2, <1>5, <1>7, <2>2, PlacesGoes, QsUnchanged, HandsLocked
  <2> QED BY <2>1, <2>3, <2>6, <2>7, <2>10, <2>11, <2>12 DEF IInv
<1> QED BY <1>5, <1>6, <1>7

LEMMA StepPublish ==
  ASSUME IInv, NEW s \in Senders, Publish(s)
  PROVE  IInv'
<1>1. /\ Types /\ LivesOK /\ SendersOK /\ SpawnerOK /\ BlocksOK /\ OutOK /\ Places
      /\ SenderOK(s)
  BY Parts
<1>2. snd[s].pc = "publish"
  BY DEF Publish, Ready
<1>3. PICK a \in Actors : a = snd[s].to /\ acb[a].var # "unborn" /\ snd[s].m # None
                          /\ snd[s].m \in Messages
  BY <1>2, SendTo
<1>4. snd[s].send_root = snd[s].m /\ acb[a].bounded /\ acb[a].shlock = s /\ snd[s].send_to = a
  BY <1>1, <1>2, <1>3 DEF SenderOK
<1>5. acb[a].life \in {"built", "claimed"} /\ acb[a].ch # None
  BY <1>1, <1>4, Const, ShlockIs DEF LivesOK, LifeOK
<1>6. PICK b \in Blocks : b = acb[a].ch
  BY <1>1, <1>5, AcbType DEF Types
<1>7. /\ UNCHANGED <<out, sp>> /\ snd' \in [Senders -> Snd] /\ Others(s)
      /\ rc' \in [Messages -> Int] /\ Locked(a, None) /\ Idled(s)
      /\ \/ Rings(b, blk[b].q \cup {Mail(s)}) /\ UNCHANGED rc
         \/ UNCHANGED blk /\ Dropped(CancelRoots(s))
  BY <1>1, <1>3, <1>4, <1>6, PublishEffect
<1>8. LivesOK'
  BY <1>1, <1>3, <1>7, LivesUnlock
<1>9. SenderOK(s)'
  BY <1>1, <1>7, SenderIdled
<1>10. \A t \in Senders : t # s => ShlockStays(t)
  BY <1>4, <1>7, StaysLocked
<1>11. \A c \in Actors : acb'[c].var = acb[c].var /\ acb'[c].life = acb[c].life
                         /\ acb'[c].items = acb[c].items
  BY <1>7 DEF Locked, SameAcb, Core
<1>12. OutOK'
  BY <1>1, <1>7, <1>11, OutFrame DEF ItemsSame
<1>13. CASE Rings(b, blk[b].q \cup {Mail(s)}) /\ UNCHANGED rc
  <2>1. Types'
    BY <1>1, <1>7, <1>13, TypesStep DEF Locked, Rings
  <2>2. SendersOK'
    BY <1>1, <1>7, <1>9, <1>10, <1>13, SendersStep, StaysLocked, LimboRings
  <2>3. PICK e \in Entry : e = Mail(s) /\ e.to = a
    BY <1>1, <1>3, MailIs
  <2>4. Holds(a, b) /\ Kept3
    BY <1>1, <1>5, <1>6 DEF Holds, BlocksOK
  <2>5. blk[b].at = "held" /\ blk[b].owner = a
    BY <1>4, <2>4 DEF Kept3
  <2>6. SpawnerOK'
    BY <1>1, <1>7, <1>13, <2>4, SpawnerPut
  <2>7. BlocksOK'
    <3>1. \A c \in Actors : HolderSame(c)
      BY <1>7, HolderLocked
    <3>2. SpSame
      BY <1>7, SpUnchanged
    <3>3. \A c \in Actors : acb'[c].var = acb[c].var /\ acb'[c].life = acb[c].life
      BY <1>11
    <3>4. Rings(b, blk[b].q \cup {e})
      BY <1>13, <2>3
    <3>5. blk[b].at # "list"
      BY <2>5
    <3>6. /\ acb[e.to].var # "unborn" /\ acb[e.to].bounded
          /\ acb[e.to].life \in {"built", "claimed"} /\ acb[e.to].ch = b /\ blk[b].owner = e.to
      BY <1>3, <1>4, <1>5, <1>6, <2>3, <2>5
    <3>7. blk[b].owner = IF acb[e.to].bounded THEN e.to ELSE None
      BY <3>6
    <3> QED BY <1>1, <3>1, <3>2, <3>3, <3>4, <3>5, <3>6, <3>7, BlocksPut
  <2>8. Places'
    BY <1>1, <1>2, <1>3, <1>7, <1>13, PlacesPut, HandsLocked
  <2> QED BY <1>8, <1>12, <2>1, <2>2, <2>6, <2>7, <2>8 DEF IInv
<1>14. CASE UNCHANGED blk /\ Dropped(CancelRoots(s))
  <2>1. Types'
    BY <1>1, <1>7, <1>14, TypesStep DEF Locked
  <2>2. SendersOK'
    BY <1>1, <1>7, <1>9, <1>10, <1>14, SendersStep, StaysLocked, LimboUnchanged
  <2>3. SpawnerOK'
    BY <1>1, <1>7, <1>14, SpawnerQuiet
  <2>4. \A c \in Blocks : BlkSame(c) /\ blk'[c].q \subseteq blk[c].q
          /\ blk'[c].since = blk[c].since
    BY <1>14 DEF BlkSame
  <2>5. BlocksOK'
    BY <1>1, <1>7, <1>11, <2>4, BlocksFrame, HolderLocked, SpUnchanged, HomeBlks
  <2>6. Dropped({snd[s].m})
    BY <1>3, <1>4, <1>14 DEF CancelRoots
  <2>7. Places'
    BY <1>1, <1>2, <1>7, <1>14, <2>6, PlacesGiveUp, QsUnchanged, HandsLocked
  <2> QED BY <1>8, <1>12, <2>1, <2>2, <2>3, <2>5, <2>7 DEF IInv
<1> QED BY <1>7, <1>13, <1>14

LEMMA StepCheck ==
  ASSUME IInv, NEW s \in Senders, Check(s)
  PROVE  IInv'
<1>1. Types /\ SendersOK /\ SenderOK(s) /\ Places
  BY Parts
<1>2. /\ snd[s].pc = "check" /\ UNCHANGED <<acb, blk, out, sp>>
      /\ snd' \in [Senders -> Snd] /\ Others(s) /\ rc' \in [Messages -> Int]
      /\ \/ Idled(s) /\ Dropped({snd[s].m})
         \/ snd'[s].pc = "resolve" /\ SameSnd(s) /\ UNCHANGED rc
  BY <1>1, CheckEffect
<1>3. Cores /\ SameBlks
  BY <1>1, <1>2, CoresSame, SameBlksUnchanged
<1>4. CASE Idled(s) /\ Dropped({snd[s].m})
  BY <1>2, <1>3, <1>4, StepGiveUp
<1>5. CASE snd'[s].pc = "resolve" /\ SameSnd(s) /\ UNCHANGED rc
  <2>1. SenderOK(s)'
    BY <1>1, <1>2, <1>5, SenderGoes
  <2>2. Places'
    BY <1>1, <1>2, <1>3, <1>5, PlacesGoes, QsBlks, HandsCores DEF SameSnd
  <2> QED BY <1>2, <1>3, <2>1, <2>2, SenderStep
<1> QED BY <1>2, <1>4, <1>5

LEMMA StepResolve ==
  ASSUME IInv, NEW s \in Senders, Resolve(s)
  PROVE  IInv'
<1>1. Types /\ SendersOK /\ SenderOK(s) /\ Places
  BY Parts
<1>2. snd[s].pc = "resolve"
  BY DEF Resolve, Ready
<1>3. /\ UNCHANGED <<acb, blk, rc, out, sp>>
      /\ snd' \in [Senders -> Snd] /\ Others(s) /\ snd'[s].pc = "push"
      /\ snd'[s].m = snd[s].m /\ snd'[s].left = snd[s].left
  BY <1>1, <1>2, SendTo, ResolveEffect
<1>4. Cores /\ SameBlks
  BY <1>1, <1>3, CoresSame, SameBlksUnchanged
<1>5. SenderOK(s)'
  BY <1>1, SenderResolve
<1>6. Places'
  BY <1>1, <1>2, <1>3, <1>4, PlacesGoes, QsBlks, HandsCores
<1> QED BY <1>2, <1>3, <1>4, <1>5, <1>6, SenderStep

LEMMA StepFault ==
  ASSUME IInv, NEW s \in Senders, Fault(s)
  PROVE  IInv'
<1>1. Types /\ LivesOK /\ SendersOK /\ SenderOK(s) /\ Places
  BY Parts
<1>2. /\ snd[s].pc \in {"resolve", "publish"} /\ acb[snd[s].to].ch = None
      /\ UNCHANGED <<acb, blk, rc, out, sp>>
      /\ snd' \in [Senders -> Snd] /\ Others(s) /\ snd'[s].pc = "fault" /\ SameSnd(s)
  BY <1>1, FaultEffect
<1>3. snd[s].pc = "resolve"
  <2>1. SUFFICES ASSUME snd[s].pc = "publish" PROVE FALSE
    BY <1>2
  <2>2. PICK a \in Actors : a = snd[s].to
    BY <2>1, SendTo
  <2>3. acb[a].shlock = s
    BY <1>1, <2>1, <2>2 DEF SenderOK
  <2>4. acb[a].ch # None
    BY <1>1, <2>3, Const, ShlockIs DEF LivesOK, LifeOK
  <2> QED BY <1>2, <2>2, <2>4
<1>4. Cores /\ SameBlks
  BY <1>1, <1>2, CoresSame, SameBlksUnchanged
<1>5. SenderOK(s)'
  BY <1>1, <1>2, <1>3, SenderGoes
<1>6. Places'
  BY <1>1, <1>2, <1>3, <1>4, PlacesGoes, QsBlks, HandsCores DEF SameSnd
<1> QED BY <1>2, <1>3, <1>4, <1>5, <1>6, SenderStep

LEMMA StepPushLook ==
  ASSUME IInv, NEW s \in Senders, PushLook(s)
  PROVE  IInv'
<1>1. Types /\ LivesOK /\ SendersOK /\ SenderOK(s) /\ Places
  BY Parts
<1>2. /\ snd[s].pc = "push" /\ UNCHANGED <<acb, blk, out, sp>>
      /\ snd' \in [Senders -> Snd] /\ Others(s) /\ rc' \in [Messages -> Int]
      /\ \/ Idled(s) /\ Dropped({snd[s].m})
         \/ /\ snd'[s].pc \in {"write", "grow"} /\ SameSnd(s) /\ UNCHANGED rc
            /\ acb[snd[s].to].var # "DEAD"
  BY <1>1, PushLookEffect
<1>3. Cores /\ SameBlks
  BY <1>1, <1>2, CoresSame, SameBlksUnchanged
<1>4. CASE Idled(s) /\ Dropped({snd[s].m})
  BY <1>2, <1>3, <1>4, StepGiveUp
<1>5. CASE /\ snd'[s].pc \in {"write", "grow"} /\ SameSnd(s) /\ UNCHANGED rc
           /\ acb[snd[s].to].var # "DEAD"
  <2>1. PICK a \in Actors : a = snd[s].to
    BY <1>2, SendTo
  <2>2. acb[a].life \notin {"limbo", "gone"}
    BY <1>1, <1>5, <2>1 DEF LivesOK, LifeOK
  <2>3. SenderOK(s)'
    BY <1>1, <1>2, <1>5, <2>1, <2>2, SenderGoes
  <2>4. Places'
    BY <1>1, <1>2, <1>3, <1>5, PlacesGoes, QsBlks, HandsCores DEF SameSnd
  <2> QED BY <1>2, <1>3, <2>3, <2>4, SenderStep
<1> QED BY <1>2, <1>4, <1>5

LEMMA StepWrite ==
  ASSUME IInv, NEW s \in Senders, Write(s)
  PROVE  IInv'
<1>1. /\ Types /\ LivesOK /\ SendersOK /\ SpawnerOK /\ BlocksOK /\ OutOK /\ Places
      /\ SenderOK(s)
  BY Parts
<1>2. snd[s].pc = "write"
  BY DEF Write, Ready
<1>3. PICK a \in Actors : a = snd[s].to /\ acb[a].var # "unborn" /\ snd[s].m # None
                          /\ snd[s].m \in Messages
  BY <1>2, SendTo
<1>4. PICK b \in Blocks : b = snd[s].c /\ acb[a].ch \in {b, None}
  BY <1>1, <1>2, <1>3 DEF SenderOK
<1>5. ~acb[a].bounded
  BY <1>1, <1>2, <1>3 DEF SenderOK
<1>6. /\ UNCHANGED <<acb, rc, out, sp>> /\ snd' \in [Senders -> Snd] /\ Others(s) /\ Idled(s)
      /\ Rings(b, blk[b].q \cup {Mail(s)})
  BY <1>1, <1>3, <1>4, WriteEffect
<1>7. blk[b].owner = None /\ (blk[b].at = "limbo" \/ (blk[b].at = "held" /\ Holds(a, b)))
  <2>1. CASE acb[a].life \in {"limbo", "gone"}
    BY <1>1, <1>2, <1>3, <1>4, <2>1 DEF SenderOK
  <2>2. CASE acb[a].life \notin {"limbo", "gone"}
    <3>1. acb[a].life \in {"built", "claimed", "drained"} /\ acb[a].ch # None
      BY <1>1, <1>3, <2>2, AcbType DEF LivesOK, LifeOK, Lives, Types
    <3>2. Holds(a, b)
      BY <1>4, <3>1 DEF Holds
    <3> QED BY <1>1, <1>5, <3>2 DEF BlocksOK, Kept3
  <2> QED BY <2>1, <2>2
<1>8. Cores
  BY <1>1, <1>6, CoresSame
<1>9. Types'
  BY <1>1, <1>6, TypesStep DEF Rings
<1>10. LivesOK'
  BY <1>1, <1>2, <1>6, <1>8, LivesSender
<1>11. SenderOK(s)'
  BY <1>1, <1>6, SenderIdled
<1>12. SendersOK'
  BY <1>1, <1>6, <1>8, <1>11, SendersStep, StaysCores, LimboRings
<1>13. SpawnerOK'
  BY <1>1, <1>6, <1>7, SpawnerPut
<1>14. PICK e \in Entry : e = Mail(s) /\ e.to = a
  BY <1>1, <1>3, MailIs
<1>15. BlocksOK'
  <2>1. \A c \in Actors : acb'[c].var = acb[c].var /\ acb'[c].life = acb[c].life
    BY <1>6
  <2>2. blk[b].at # "list"
    BY <1>7
  <2> QED BY <1>1, <1>3, <1>5, <1>6, <1>7, <1>8, <1>14, <2>1, <2>2, BlocksPut, HolderCores,
        SpUnchanged
<1>16. OutOK'
  BY <1>1, <1>6, <1>8, OutFrame, ItemsCores
<1>17. Places'
  BY <1>1, <1>2, <1>3, <1>6, <1>8, PlacesPut, HandsCores
<1> QED BY <1>9, <1>10, <1>12, <1>13, <1>15, <1>16, <1>17 DEF IInv

LEMMA StepGrow ==
  ASSUME IInv, NEW s \in Senders, Grow(s)
  PROVE  IInv'
<1>1. Types /\ SendersOK /\ SenderOK(s) /\ Places
  BY Parts
<1>2. snd[s].pc = "grow"
  BY DEF Grow, Ready
<1>3. snd[s].c \in Blocks
  BY <1>1, <1>2 DEF SenderOK
<1>4. /\ UNCHANGED <<acb, out, sp>>
      /\ snd' \in [Senders -> Snd] /\ Others(s) /\ rc' \in [Messages -> Int] /\ SameBlks
      /\ \/ Idled(s) /\ Dropped({snd[s].m})
         \/ snd'[s].pc = "push" /\ SameSnd(s) /\ UNCHANGED rc
  BY <1>1, <1>3, GrowEffect
<1>5. Cores
  BY <1>1, <1>4, CoresSame
<1>6. CASE Idled(s) /\ Dropped({snd[s].m})
  BY <1>2, <1>4, <1>5, <1>6, StepGiveUp
<1>7. CASE snd'[s].pc = "push" /\ SameSnd(s) /\ UNCHANGED rc
  <2>1. SenderOK(s)'
    BY <1>1, <1>2, <1>4, <1>7, SenderGoes
  <2>2. Places'
    BY <1>1, <1>2, <1>4, <1>5, <1>7, PlacesGoes, QsBlks, HandsCores DEF SameSnd
  <2> QED BY <1>2, <1>4, <1>5, <2>1, <2>2, SenderStep
<1> QED BY <1>4, <1>6, <1>7

LEMMA StepKillSender ==
  ASSUME IInv, NEW s \in Senders, KillSender(s)
  PROVE  IInv'
<1>1. Types /\ SendersOK /\ SenderOK(s) /\ Places
  BY Parts
<1>2. /\ UNCHANGED <<acb, blk, rc, out, sp>>
      /\ snd' \in [Senders -> Snd] /\ Others(s)
      /\ snd'[s].pc = snd[s].pc /\ snd'[s].to = snd[s].to /\ snd'[s].m = snd[s].m
      /\ snd'[s].left = snd[s].left
  BY <1>1, KillSenderEffect
<1>3. Cores /\ SameBlks /\ SenderOK(s)'
  BY <1>1, <1>2, CoresSame, SameBlksUnchanged, SenderKilled
<1>4. Places'
  BY <1>1, <1>2, <1>3, PlacesGoes, QsBlks, HandsCores
<1> QED BY <1>2, <1>3, <1>4, SenderStep

LEMMA StepReapSender ==
  ASSUME IInv, NEW s \in Senders, ReapSender(s)
  PROVE  IInv'
<1>1. Types /\ SendersOK /\ SenderOK(s) /\ Places
  BY Parts
<1>2. /\ snd[s].pc \in Parkable /\ UNCHANGED <<blk, out, sp>>
      /\ Cores /\ rc' \in [Messages -> Int]
      /\ snd' \in [Senders -> Snd] /\ Others(s)
  BY <1>1, ReapSenderEffect
<1>3. SameBlks /\ SenderOK(s)' /\ Places' /\ snd[s].pc # "publish"
  BY <1>1, <1>2, SameBlksUnchanged, SenderReaped, PlacesReapSender DEF Parkable
<1> QED BY <1>2, <1>3, SenderStep

-----------------------------------------------------------------------------
\* Every step of a receiver and of its reaper keeps it.

\* one mailbox changes: what stays for the senders ...
LEMMA OnlyStays ==
  ASSUME NEW a \in Actors, Only(a), acb[a].var # "unborn" => acb'[a].var # "unborn",
         acb'[a].ch \in {acb[a].ch, None}
  PROVE  BornStays /\ \A t \in Senders : ShlockStays(t)
<1>1. \A x \in Actors : x # a => SameAcb(x)
  BY DEF Only
<1>2. acb'[a].bounded = acb[a].bounded /\ acb'[a].shlock = acb[a].shlock
  BY DEF Only
<1> QED BY <1>1, <1>2 DEF BornStays, ShlockStays, SameAcb, Core

\* ... when it does not go to limbo
LEMMA OnlyDying ==
  ASSUME NEW a \in Actors, Only(a),
         acb'[a].life \in {"limbo", "gone"} => acb[a].life \in {"limbo", "gone"}
  PROVE  DyingStays
  BY DEF Only, DyingStays, SameAcb, Core

\* the holders, ...
LEMMA OnlyHolder ==
  ASSUME NEW a \in Actors, Only(a), acb'[a].ch = acb[a].ch,
         acb'[a].life \in Holdings <=> acb[a].life \in Holdings,
         acb'[a].life = "limbo" <=> acb[a].life = "limbo"
  PROVE  \A b \in Actors : HolderSame(b)
<1>1. \A x \in Actors : x # a => SameAcb(x)
  BY DEF Only
<1>2. acb'[a].bounded = acb[a].bounded
  BY DEF Only
<1> QED BY <1>1, <1>2 DEF HolderSame, SameAcb, Core

\* ... the items ...
LEMMA OnlyItems ==
  ASSUME NEW a \in Actors, Only(a), acb'[a].items = acb[a].items PROVE ItemsSame
  BY DEF Only, ItemsSame, SameAcb, Core

\* ... and the hands
LEMMA OnlyHands ==
  ASSUME NEW a \in Actors, Only(a), acb'[a].hand = acb[a].hand, acb'[a].rx = acb[a].rx
  PROVE  HandsSame
  BY DEF Only, HandsSame, SameAcb, Core

\* A step of the receiver, of a kill, or of reap's claim: nothing moves between
\* the actor, its block and its items.
LEMMA OwnStep ==
  ASSUME IInv, NEW a \in Actors, Only(a), UNCHANGED <<snd, out, sp>>,
         acb[a].var # "unborn" => acb'[a].var # "unborn", acb'[a].ch = acb[a].ch,
         acb'[a].items = acb[a].items,
         \/ acb'[a].life = acb[a].life
         \/ acb[a].life = "built" /\ acb'[a].life = "claimed",
         UNCHANGED rc \/ rc' \in [Messages -> Int], BlkTypes,
         \A b \in Blocks : BlkSame(b) /\ blk'[b].q \subseteq blk[b].q
           /\ blk'[b].since = blk[b].since,
         LivesOK', Places'
  PROVE  IInv'
<1>1. /\ Types /\ LivesOK /\ SendersOK /\ SpawnerOK /\ BlocksOK /\ OutOK
  BY Parts
<1>2. Types'
  BY <1>1, TypesStep DEF Only
<1>3. /\ acb'[a].life \in Holdings <=> acb[a].life \in Holdings
      /\ acb'[a].life = "limbo" <=> acb[a].life = "limbo"
      /\ acb'[a].life \in {"limbo", "gone"} => acb[a].life \in {"limbo", "gone"}
      /\ acb[a].life \in {"built", "claimed"} => acb'[a].life \in {"built", "claimed"}
  BY DEF Holdings
<1>4. SendersOK'
  BY <1>1, <1>3, SendersQuiet, OnlyStays, OnlyDying, LimboSame
<1>5. SpawnerOK'
  BY <1>1, SpawnerQuiet
<1>6. \A c \in Actors :
        /\ acb[c].var # "unborn" => acb'[c].var # "unborn"
        /\ acb[c].life \in {"built", "claimed"} => acb'[c].life \in {"built", "claimed"}
  BY <1>3 DEF Only, SameAcb, Core
<1>7. BlocksOK'
  BY <1>1, <1>3, <1>6, BlocksFrame, OnlyHolder, SpUnchanged, HomeBlks
<1>8. OutOK'
  BY <1>1, OutFrame, OnlyItems
<1> QED BY <1>2, <1>4, <1>5, <1>7, <1>8 DEF IInv

\* no block changes
LEMMA BlksUnchanged ==
  ASSUME Types, UNCHANGED blk
  PROVE  /\ BlkTypes
         /\ \A b \in Blocks :
              BlkSame(b) /\ blk'[b].q \subseteq blk[b].q /\ blk'[b].since = blk[b].since
<1>1. BlkTypes
  BY SameBlksUnchanged DEF SameBlks
<1> QED BY <1>1 DEF BlkSame

\* each step of the actor and of its reaper, from here on
LEMMA StepTake ==
  ASSUME IInv, NEW a \in Actors, acb[a].ch # None, NEW e, Take(a, e)
  PROVE  IInv'
<1>1. Types /\ LivesOK /\ SendersOK /\ Places
  BY Parts
<1>2. PICK b \in Blocks : b = acb[a].ch
  BY <1>1, AcbType DEF Types
<1>3. /\ UNCHANGED <<snd, rc, out, sp>> /\ Rings(b, blk[b].q \ {e}) /\ Only(a)
      /\ acb'[a].var = acb[a].var /\ acb'[a].ch = b /\ acb'[a].items = acb[a].items
      /\ acb'[a].life = acb[a].life
  BY <1>1, <1>2, TakeEffect
<1>4. BlkTypes /\ \A c \in Blocks :
        BlkSame(c) /\ blk'[c].q \subseteq blk[c].q /\ blk'[c].since = blk[c].since
  BY <1>3 DEF Rings, BlkSame
<1>5. LivesOK' /\ Places'
  BY <1>1, <1>2, LivesTake, PlacesTake
<1> QED BY <1>2, <1>3, <1>4, <1>5, OwnStep

LEMMA StepTaken ==
  ASSUME IInv, NEW a \in Actors, Taken(a)
  PROVE  IInv'
<1>1. Types /\ LivesOK /\ SendersOK /\ Places
  BY Parts
<1>2. /\ UNCHANGED <<blk, snd, rc, out, sp>> /\ Only(a)
      /\ acb'[a].var = acb[a].var /\ acb'[a].ch = acb[a].ch
      /\ acb'[a].items = acb[a].items /\ acb'[a].life = acb[a].life
  BY <1>1, TakenEffect
<1>3. LivesOK' /\ Places'
  BY <1>1, LivesTaken, PlacesTaken
<1> QED BY <1>1, <1>2, <1>3, OwnStep, BlksUnchanged

LEMMA StepEndTurn ==
  ASSUME IInv, NEW a \in Actors, EndTurn(a)
  PROVE  IInv'
<1>1. Types /\ LivesOK /\ SendersOK /\ Places
  BY Parts
<1>2. /\ UNCHANGED <<blk, snd, out, sp>> /\ rc' \in [Messages -> Int] /\ Only(a)
      /\ acb'[a].var = acb[a].var /\ acb'[a].ch = acb[a].ch
      /\ acb'[a].items = acb[a].items /\ acb'[a].life = acb[a].life
  BY <1>1, EndTurnEffect
<1>3. LivesOK' /\ Places'
  BY <1>1, LivesEndTurn, PlacesEndTurn
<1> QED BY <1>1, <1>2, <1>3, OwnStep, BlksUnchanged

LEMMA StepKill ==
  ASSUME IInv, NEW a \in Actors, Kill(a)
  PROVE  IInv'
<1>1. Types /\ LivesOK /\ SendersOK /\ Places
  BY Parts
<1>2. /\ UNCHANGED <<blk, snd, rc, out, sp>> /\ Only(a) /\ acb'[a].var = "DEAD"
      /\ acb'[a].ch = acb[a].ch /\ acb'[a].items = acb[a].items /\ acb'[a].life = acb[a].life
      /\ acb'[a].hand = acb[a].hand /\ acb'[a].rx = acb[a].rx
  BY <1>1, KillEffect
<1>3. LivesOK' /\ Places'
  BY <1>1, <1>2, LivesKill, PlacesStill, QsUnchanged, OnlyHands
<1> QED BY <1>1, <1>2, <1>3, OwnStep, BlksUnchanged

LEMMA StepClaim ==
  ASSUME IInv, NEW a \in Actors, Claim(a)
  PROVE  IInv'
<1>1. Types /\ LivesOK /\ SendersOK /\ Places
  BY Parts
<1>2. /\ acb[a].life = "built" /\ UNCHANGED <<blk, snd, rc, out, sp>> /\ Only(a)
      /\ acb'[a].life = "claimed" /\ acb'[a].var = acb[a].var
      /\ acb'[a].ch = acb[a].ch /\ acb'[a].items = acb[a].items
      /\ acb'[a].hand = acb[a].hand /\ acb'[a].rx = acb[a].rx
  BY <1>1, ClaimEffect
<1>3. LivesOK' /\ Places'
  BY <1>1, <1>2, LivesClaim, PlacesStill, QsUnchanged, OnlyHands
<1> QED BY <1>1, <1>2, <1>3, OwnStep, BlksUnchanged

\* The block of an actor that still holds one.
LEMMA BlockOf ==
  ASSUME Types, LivesOK, NEW a \in Actors,
         acb[a].life \in {"built", "claimed", "drained", "limbo"}
  PROVE  acb[a].ch \in Blocks
<1>1. acb[a].ch # None
  BY DEF LivesOK, LifeOK
<1> QED BY <1>1, AcbType DEF Types

LEMMA StepDrain ==
  ASSUME IInv, NEW a \in Actors, Drain(a)
  PROVE  IInv'
<1>1. Types /\ LivesOK /\ SendersOK /\ SpawnerOK /\ BlocksOK /\ OutOK /\ Places
  BY Parts
<1>2. PICK b \in Blocks : b = acb[a].ch
  BY <1>1, BlockOf DEF Drain
<1>3. /\ acb[a].life = "claimed" /\ UNCHANGED <<snd, sp>> /\ Only(a) /\ acb'[a].life = "drained"
      /\ acb'[a].var = acb[a].var /\ acb'[a].ch = b /\ Rings(b, {})
      /\ rc' \in [Messages -> Int] /\ out' \in [Items -> Int]
  BY <1>1, <1>2, DrainEffect
<1>4. Types'
  BY <1>1, <1>3, TypesStep DEF Only, Rings
<1>5. LivesOK' /\ BlocksOK' /\ OutOK' /\ Places'
  BY <1>1, <1>2, LivesDrain, BlocksDrain, OutDrain, PlacesDrain
<1>6. SendersOK'
  BY <1>1, <1>2, <1>3, SendersQuiet, OnlyStays, OnlyDying, LimboRings
<1>7. \A c \in Blocks : blk'[c].q \subseteq blk[c].q
  BY <1>3 DEF Rings
<1>8. SpawnerOK'
  BY <1>1, <1>3, <1>7, SpawnerQuiet
<1> QED BY <1>4, <1>5, <1>6, <1>8 DEF IInv

LEMMA StepLimbo ==
  ASSUME IInv, NEW a \in Actors, Limbo(a)
  PROVE  IInv'
<1>1. Types /\ LivesOK /\ SendersOK /\ SpawnerOK /\ BlocksOK /\ OutOK /\ Places
  BY Parts
<1>2. PICK b \in Blocks : b = acb[a].ch
  BY <1>1, BlockOf DEF Limbo
<1>3. /\ acb[a].life = "drained" /\ UNCHANGED <<snd, rc, out, sp>> /\ Only(a)
      /\ acb'[a].life = "limbo" /\ acb'[a].var = acb[a].var
      /\ acb'[a].ch = acb[a].ch /\ acb'[a].items = acb[a].items
      /\ acb'[a].hand = acb[a].hand /\ acb'[a].rx = acb[a].rx
      /\ BlkTypes /\ \A c \in Blocks : c # b => blk'[c] = blk[c]
      /\ blk'[b].at = "limbo" /\ blk'[b].q = blk[b].q /\ blk'[b].owner = blk[b].owner
      /\ \A h \in Harts : blk'[b].since[h] = 0
  BY <1>1, <1>2, LimboEffect
<1>4. Types'
  BY <1>1, <1>3, TypesStep DEF Only
<1>5. LivesOK' /\ BlocksOK'
  BY <1>1, <1>2, LivesLimbo, BlocksLimbo
<1>6. \A c \in Blocks : blk'[c].q = blk[c].q
  BY <1>3
<1>7. SpawnerOK' /\ OutOK' /\ Places'
  BY <1>1, <1>3, <1>6, SpawnerQuiet, OutFrame, OnlyItems, PlacesStill, OnlyHands DEF QsSame
<1>8. Holds(a, b)
  BY <1>2, <1>3 DEF Holds
<1>9. blk[b].at = "held" /\ blk[b].owner = IF acb[a].bounded THEN a ELSE None
  BY <1>1, <1>8 DEF BlocksOK, Kept3
<1>10. \A t \in Senders : LimboStays(t)
  BY <1>3, <1>9 DEF LimboStays
<1>11. BornStays /\ \A t \in Senders : ShlockStays(t)
  BY <1>2, <1>3, OnlyStays
<1>12. ASSUME NEW t \in Senders PROVE SenderOK(t)'
  <2>1. SenderOK(t) /\ snd'[t] = snd[t]
    BY <1>1, <1>3, Parts
  <2>2. CASE snd[t].pc = "write" /\ snd[t].to = a
    <3>1. ~acb[a].bounded /\ snd[t].c = b /\ t \in Harts
      BY <1>2, <2>1, <2>2, Const DEF SenderOK, Harts
    <3>2. /\ blk'[snd'[t].c].at = "limbo" /\ blk'[snd'[t].c].since[t] = 0
          /\ blk'[snd'[t].c].owner = None
      BY <1>3, <1>9, <2>1, <3>1
    <3>3. snd[t].pc # "idle" /\ snd[t].pc # "publish" /\ a \in Actors
      BY <2>2
    <3> QED BY <1>2, <1>3, <1>11, <2>1, <2>2, <3>1, <3>2 DEF SenderOK, BornStays
  <2>3. CASE ~(snd[t].pc = "write" /\ snd[t].to = a)
    <3>1. snd[t].pc = "write" => snd[t].to \in Actors /\ snd[t].to # a
      BY <2>1, <2>3 DEF SenderOK
    <3>2. \A x \in Actors : x # a => acb'[x].life = acb[x].life
      BY <1>3 DEF Only, SameAcb, Core
    <3> QED BY <1>10, <1>11, <2>1, <3>1, <3>2 DEF SenderOK, LimboStays, BornStays, ShlockStays
  <2> QED BY <2>2, <2>3
<1>13. SendersOK'
  BY <1>12 DEF SendersOK
<1> QED BY <1>4, <1>5, <1>7, <1>13 DEF IInv

LEMMA StepClear ==
  ASSUME IInv, NEW a \in Actors, Clear(a)
  PROVE  IInv'
<1>1. Types /\ LivesOK /\ SendersOK /\ SpawnerOK /\ BlocksOK /\ OutOK /\ Places
  BY Parts
<1>2. /\ acb[a].life = "limbo" /\ UNCHANGED <<blk, snd, rc, sp>> /\ Only(a)
      /\ acb'[a].life = "gone" /\ acb'[a].ch = None /\ acb'[a].var = acb[a].var
      /\ acb'[a].hand = acb[a].hand /\ acb'[a].rx = acb[a].rx /\ out' \in [Items -> Int]
  BY <1>1, ClearEffect
<1>3. acb[a].items = Kept
  BY <1>1, <1>2 DEF LivesOK, LifeOK
<1>4. Types'
  BY <1>1, <1>2, TypesStep DEF Only
<1>5. LivesOK' /\ BlocksOK' /\ OutOK'
  BY <1>1, <1>3, LivesClear, BlocksClear, OutClear
<1>6. SendersOK'
  BY <1>1, <1>2, SendersQuiet, OnlyStays, OnlyDying, LimboUnchanged
<1>7. SpawnerOK'
  BY <1>1, <1>2, SpawnerQuiet
<1>8. Places'
  BY <1>1, <1>2, PlacesStill, QsUnchanged, OnlyHands
<1> QED BY <1>4, <1>5, <1>6, <1>7, <1>8 DEF IInv

-----------------------------------------------------------------------------
\* Every step of the spawner and of a hart keeps it.

\* a hart comes round only when no sender on it is inside a push
LEMMA StepTurn ==
  ASSUME IInv, NEW h \in Harts, Turn(h)
  PROVE  IInv'
<1>1. Types /\ LivesOK /\ SendersOK /\ SpawnerOK /\ BlocksOK /\ OutOK /\ Places
  BY Parts
<1>2. /\ UNCHANGED <<acb, snd, rc, out, sp>> /\ BlkTypes
      /\ h = Home => \A a \in Actors : acb[a].life \notin {"claimed", "drained", "limbo"}
      /\ h # Home => h \in Senders /\ snd[h].pc \in Parkable \cup {"gone"}
      /\ \A b \in Blocks :
           /\ blk'[b].at = blk[b].at /\ blk'[b].q = blk[b].q /\ blk'[b].owner = blk[b].owner
           /\ \A k \in Harts : k # h => blk'[b].since[k] = blk[b].since[k]
  BY <1>1, TurnEffect
<1>3. Cores
  BY <1>1, <1>2, CoresSame
<1>4. Types'
  BY <1>1, <1>2, TypesStep
<1>5. LivesOK'
  BY <1>1, <1>2, <1>3, LivesQuiet
<1>6. \A t \in Senders : t # h => LimboStays(t)
  BY <1>2 DEF LimboStays, Harts
<1>7. BornStays /\ DyingStays /\ \A t \in Senders : ShlockStays(t)
  BY <1>3, StaysCores
<1>8. ASSUME NEW t \in Senders PROVE SenderOK(t)'
  <2>1. SenderOK(t) /\ snd'[t] = snd[t]
    BY <1>2, Parts
  <2>2. CASE t # h
    BY <1>1, <1>6, <1>7, <2>1, <2>2, SenderFrame
  <2>3. CASE t = h
    <3>1. snd[t].pc # "write"
      BY <1>2, <2>3, Const DEF Parkable
    <3> QED BY <1>2, <2>1, <3>1 DEF SenderOK
  <2> QED BY <2>2, <2>3
<1>9. SendersOK'
  BY <1>8 DEF SendersOK
<1>10. SpawnerOK' /\ OutOK' /\ Places'
  BY <1>1, <1>2, <1>3, SpawnerQuiet, OutFrame, ItemsUnchanged, PlacesStill, HandsCores
     DEF QsSame
<1>11. HomeSame
  <2>1. SUFFICES ASSUME NEW a \in Actors, acb[a].life = "limbo"
                 PROVE  blk'[acb[a].ch].since[Home] = blk[acb[a].ch].since[Home]
    BY DEF HomeSame
  <2>2. acb[a].ch \in Blocks /\ h # Home
    BY <1>1, <1>2, <2>1, LimboBlock
  <2> QED BY <1>2, <2>2 DEF Harts
<1>12. \A b \in Blocks : BlkSame(b) /\ blk'[b].q \subseteq blk[b].q
  BY <1>2 DEF BlkSame
<1>13. BlocksOK'
  BY <1>1, <1>2, <1>3, <1>11, <1>12, BlocksFrame, HolderCores, SpUnchanged
<1> QED BY <1>4, <1>5, <1>9, <1>10, <1>13 DEF IInv

\* A step of the spawner that touches no actor and takes no block from limbo
\* before every writer has come round.
LEMMA SpStep ==
  ASSUME IInv, UNCHANGED snd, Cores, UNCHANGED blk \/ BlkTypes,
           \A t \in Senders : LimboStays(t),
         UNCHANGED rc \/ rc' \in [Messages -> Int], UNCHANGED out \/ out' \in [Items -> Int],
         sp' \in Sp, SpawnerOK', BlocksOK', OutOK', Places'
  PROVE  IInv'
<1>1. Types /\ LivesOK /\ SendersOK
  BY Parts
<1>2. Types'
  BY <1>1, TypesStep DEF Cores
<1>3. LivesOK' /\ SendersOK'
  BY <1>1, LivesQuiet, SendersQuiet, StaysCores
<1> QED BY <1>2, <1>3 DEF IInv

\* each step of the spawner, from here on
LEMMA StepAdmit ==
  ASSUME IInv, NEW kind \in {"heap", "inbox"}, Admit(kind)
  PROVE  IInv'
<1>1. Types /\ LivesOK /\ SendersOK /\ SpawnerOK /\ BlocksOK /\ OutOK /\ Places
  BY Parts
<1>2. /\ sp.pc = "idle" /\ UNCHANGED <<acb, blk, snd, rc, out>> /\ sp' \in Sp
      /\ sp'.ch = None /\ sp'.cleanup = TRUE
  BY <1>1, AdmitEffect
<1>3. Cores /\ QsSame /\ HandsSame /\ \A t \in Senders : LimboStays(t)
  BY <1>1, <1>2, CoresSame, QsUnchanged, HandsCores, LimboUnchanged
<1>4. ~sp.cleanup
  BY <1>1, <1>2 DEF SpawnerOK
<1>5. SpSame
  BY <1>2, <1>4, Const DEF SpSame, SpHolds
<1>6. \A b \in Blocks : BlkSame(b) /\ blk'[b].q \subseteq blk[b].q
        /\ blk'[b].since = blk[b].since
  BY <1>2 DEF BlkSame
<1>7. BlocksOK'
  BY <1>1, <1>2, <1>3, <1>5, <1>6, BlocksFrame, HolderCores, HomeBlks
<1>8. SpawnerOK' /\ OutOK' /\ Places'
  BY <1>1, <1>2, <1>3, SpawnerAdmit, OutAdmit, PlacesStill
<1> QED BY <1>2, <1>3, <1>7, <1>8, SpStep

LEMMA StepReserve ==
  ASSUME IInv, Reserve
  PROVE  IInv'
<1>1. Types /\ LivesOK /\ SendersOK /\ SpawnerOK /\ BlocksOK /\ OutOK /\ Places
  BY Parts
<1>2. /\ UNCHANGED <<acb, blk, snd, rc>> /\ out' \in [Items -> Int] /\ sp' \in Sp
      /\ sp'.ch = sp.ch /\ sp'.cleanup = sp.cleanup
  BY <1>1, ReserveEffect
<1>3. Cores /\ QsSame /\ HandsSame /\ \A t \in Senders : LimboStays(t)
  BY <1>1, <1>2, CoresSame, QsUnchanged, HandsCores, LimboUnchanged
<1>4. \A b \in Blocks : BlkSame(b) /\ blk'[b].q \subseteq blk[b].q
        /\ blk'[b].since = blk[b].since
  BY <1>2 DEF BlkSame
<1>5. BlocksOK'
  BY <1>1, <1>2, <1>3, <1>4, BlocksFrame, HolderCores, HomeBlks, SpUnchanged
<1>6. SpawnerOK' /\ OutOK' /\ Places'
  BY <1>1, <1>2, <1>3, SpawnerReserve, OutReserve, PlacesStill
<1> QED BY <1>2, <1>3, <1>5, <1>6, SpStep

\* A block that is not in limbo may change.
LEMMA LimboElse ==
  ASSUME NEW b \in Blocks, \A c \in Blocks : c # b => blk'[c] = blk[c],
         blk[b].at # "limbo" \/ \A h \in Harts : blk[b].since[h] # 0
  PROVE  \A t \in Senders : LimboStays(t)
  BY DEF LimboStays, Harts

LEMMA StepTakeBlock ==
  ASSUME IInv, NEW b \in Blocks, TakeBlock(b)
  PROVE  IInv'
<1>1. Types /\ LivesOK /\ SendersOK /\ SpawnerOK /\ BlocksOK /\ OutOK /\ Places
  BY Parts
<1>2. /\ (blk[b].at = "limbo" /\ Matured(b)) \/ blk[b].at = "list"
      /\ UNCHANGED <<acb, snd, rc>> /\ out' \in [Items -> Int] /\ sp' \in Sp
      /\ BlkTypes /\ \A c \in Blocks : c # b => blk'[c] = blk[c]
      /\ blk'[b].q = blk[b].q
  BY <1>1, TakeBlockEffect
<1>3. blk[b].at # "limbo" \/ \A h \in Harts : blk[b].since[h] # 0
  <2>1. CASE Matured(b)
    <3>1. ASSUME NEW h \in Harts, blk[b].since[h] = 0 PROVE FALSE
      BY <2>1, <3>1 DEF Matured
    <3> QED BY <3>1
  <2> QED BY <1>2, <2>1
<1>4. Cores /\ QsSame /\ HandsSame /\ \A t \in Senders : LimboStays(t)
  BY <1>1, <1>2, <1>3, CoresSame, HandsCores, LimboElse DEF QsSame
<1>5. SpawnerOK' /\ BlocksOK' /\ OutOK' /\ Places'
  BY <1>1, <1>2, <1>4, SpawnerTakeBlock, BlocksTakeBlock, OutTakeBlock, PlacesStill
<1> QED BY <1>2, <1>4, <1>5, SpStep

LEMMA SpBlock ==
  ASSUME Types, SpawnerOK, BlocksOK, sp.cleanup, sp.ch # None
  PROVE  sp.ch \in Blocks /\ blk[sp.ch].at = "held"
<1>1. sp.ch \in Blocks
  BY SpType
<1>2. SpHolds(sp.ch)
  BY DEF SpHolds
<1> QED BY <1>1, <1>2 DEF BlocksOK, Kept2

LEMMA StepInitBlock ==
  ASSUME IInv, InitBlock
  PROVE  IInv'
<1>1. Types /\ LivesOK /\ SendersOK /\ SpawnerOK /\ BlocksOK /\ OutOK /\ Places
  BY Parts
<1>2. PICK b \in Blocks : b = sp.ch
  BY <1>1, InitBlockEffect
<1>3. /\ sp.pc = "init" /\ UNCHANGED <<snd, out>> /\ Cores /\ rc' \in [Messages -> Int]
      /\ sp' \in Sp /\ BlkTypes /\ \A c \in Blocks : c # b => blk'[c] = blk[c]
  BY <1>1, <1>2, InitBlockEffect
<1>4. sp.cleanup /\ sp.ch # None
  BY <1>1, <1>2, <1>3, Const DEF SpawnerOK
<1>5. blk[b].at = "held"
  BY <1>1, <1>2, <1>4, SpBlock
<1>6. \A t \in Senders : LimboStays(t)
  BY <1>3, <1>5, LimboElse
<1>7. SpawnerOK' /\ BlocksOK' /\ OutOK' /\ Places'
  BY <1>1, SpawnerInitBlock, BlocksInitBlock, OutInitBlock, PlacesInitBlock
<1> QED BY <1>3, <1>6, <1>7, SpStep

LEMMA StepBuild ==
  ASSUME IInv, NEW a \in Actors, Build(a)
  PROVE  IInv'
<1>1. Types /\ LivesOK /\ SendersOK /\ SpawnerOK /\ BlocksOK /\ OutOK /\ Places
  BY Parts
<1>2. sp.pc = "reserve" /\ sp.n = 6
  BY <1>1, OrderIs, SpType DEF Build
<1>3. "channels" \in Got
  BY <1>1, <1>2, GotAll DEF Kept
<1>4. sp.cleanup /\ sp.ch # None
  BY <1>1, <1>2, <1>3 DEF SpawnerOK
<1>5. PICK b \in Blocks : b = sp.ch /\ blk[b].at = "held"
  BY <1>1, <1>4, SpBlock
<1>6. /\ acb[a].var = "unborn" /\ UNCHANGED <<snd, rc, out>>
      /\ acb' \in [Actors -> Acb] /\ \A c \in Actors : c # a => SameAcb(c)
      /\ \A c \in Actors : c # a => acb'[c] = acb[c]
      /\ acb'[a].var = "READY" /\ acb'[a].hand = NoEntry /\ acb'[a].rx = {}
      /\ acb'[a].life = "built"
      /\ BlkTypes /\ \A c \in Blocks : c # b => blk'[c] = blk[c]
      /\ blk'[b].q = blk[b].q
      /\ sp' \in Sp /\ sp'.pc = "idle" /\ sp'.cleanup = FALSE
  BY <1>1, <1>5, BuildEffect
<1>7. acb[a].items = {} /\ acb[a].hand = NoEntry /\ acb[a].rx = {} /\ acb[a].life = "none"
  BY <1>1, <1>6 DEF LivesOK, LifeOK
<1>8. acb[a].shlock = None
  BY <1>1, <1>7, ShlockIs
<1>9. Types'
  BY <1>1, <1>6, TypesStep
<1>10. LivesOK' /\ BlocksOK' /\ OutOK'
  BY <1>1, <1>5, <1>7, LivesBuild, BlocksBuild, OutBuild
<1>11. BornStays
  BY <1>6 DEF BornStays
<1>12. DyingStays
  BY <1>6 DEF DyingStays
<1>13. \A t \in Senders : ShlockStays(t)
  BY <1>6, <1>8, Const DEF ShlockStays
<1>14. \A t \in Senders : LimboStays(t)
  BY <1>5, <1>6, LimboElse
<1>15. SendersOK'
  BY <1>1, <1>6, <1>11, <1>12, <1>13, <1>14, SendersQuiet
<1>16. SpawnerOK'
  BY <1>6, SpawnerDone
<1>17. QsSame
  BY <1>6 DEF QsSame
<1>18. HandsSame
  BY <1>6, <1>7 DEF HandsSame
<1>19. Places'
  BY <1>1, <1>6, <1>17, <1>18, PlacesStill
<1> QED BY <1>9, <1>10, <1>15, <1>16, <1>19 DEF IInv

\* The record's block, when it holds one.
LEMMA RecordBlock ==
  ASSUME IInv, sp.cleanup, sp.pc = "reserve", "channels" \in Got
  PROVE  sp.ch \in Blocks /\ blk[sp.ch].at = "held"
<1>1. Types /\ SpawnerOK /\ BlocksOK
  BY Parts
<1>2. sp.ch # None
  BY <1>1 DEF SpawnerOK
<1> QED BY <1>1, <1>2, SpBlock

\* A rollback of a record, by the spawner or by its reaper.
LEMMA StepRolledBack ==
  ASSUME IInv, sp.cleanup, sp.pc = "reserve",
           UNCHANGED <<acb, snd, rc>>, RolledBack, sp' \in Sp,
         sp'.pc \in {"idle", "gone"}, sp'.cleanup = FALSE
  PROVE  IInv'
<1>1. Types /\ LivesOK /\ SendersOK /\ SpawnerOK /\ BlocksOK /\ OutOK /\ Places
  BY Parts
<1>2. out' \in [Items -> Int] /\ BlkTypes
  BY DEF RolledBack
<1>3. QsSame /\ \A t \in Senders : LimboStays(t)
  <2>1. CASE "channels" \notin Got
    BY <2>1, QsUnchanged, LimboUnchanged DEF RolledBack
  <2>2. CASE "channels" \in Got
    <3>1. sp.ch \in Blocks /\ blk[sp.ch].at = "held"
      BY <2>2, RecordBlock
    <3>2. /\ \A c \in Blocks : c # sp.ch => blk'[c] = blk[c]
          /\ blk'[sp.ch].q = blk[sp.ch].q
      BY <2>2 DEF RolledBack
    <3> QED BY <3>1, <3>2, LimboElse DEF QsSame
  <2> QED BY <2>1, <2>2
<1>4. Cores /\ HandsSame
  BY <1>1, CoresSame, HandsCores
<1>5. SpawnerOK' /\ BlocksOK' /\ OutOK' /\ Places'
  BY <1>1, <1>3, <1>4, SpawnerDone, BlocksRolledBack, OutRolledBack, PlacesStill
<1> QED BY <1>2, <1>3, <1>4, <1>5, SpStep

LEMMA StepDeny ==
  ASSUME IInv, Deny
  PROVE  IInv'
<1>1. Types /\ SpawnerOK
  BY Parts
<1>2. sp.pc = "reserve"
  BY DEF Deny
<1>3. sp.cleanup
  BY <1>1, <1>2 DEF SpawnerOK
<1>4. "channels" \in Got => sp.ch \in Blocks
  BY <1>2, <1>3, RecordBlock
<1>5. /\ UNCHANGED <<acb, snd, rc>> /\ RolledBack /\ sp' \in Sp /\ sp'.pc = "idle"
      /\ sp'.cleanup = FALSE
  BY <1>1, <1>4, DenyEffect
<1> QED BY <1>2, <1>3, <1>5, StepRolledBack

\* The spawner's record is closed, or stays as it is.
LEMMA StepSpOnly ==
  ASSUME IInv, UNCHANGED <<acb, blk, snd, rc, out>>, sp' \in Sp,
         \/ ~sp.cleanup /\ ~sp'.cleanup /\ sp'.pc = "gone"
         \/ /\ sp'.pc = sp.pc /\ sp'.kind = sp.kind /\ sp'.n = sp.n /\ sp'.ch = sp.ch
            /\ sp'.cleanup = sp.cleanup
  PROVE  IInv'
<1>1. Types /\ LivesOK /\ SendersOK /\ SpawnerOK /\ BlocksOK /\ OutOK /\ Places
  BY Parts
<1>2. Cores /\ QsSame /\ HandsSame /\ \A t \in Senders : LimboStays(t)
  BY <1>1, CoresSame, QsUnchanged, HandsCores, LimboUnchanged
<1>3. SpawnerOK'
  <2>1. CASE ~sp'.cleanup /\ sp'.pc = "gone"
    BY <1>1, <2>1, SpType, SpawnerDone DEF Sp
  <2>2. CASE /\ sp'.pc = sp.pc /\ sp'.kind = sp.kind /\ sp'.n = sp.n /\ sp'.ch = sp.ch
             /\ sp'.cleanup = sp.cleanup
    BY <1>1, <2>2, SpawnerFrame
  <2> QED BY <2>1, <2>2
<1>4. SpSame
  BY DEF SpSame, SpHolds
<1>5. \A b \in Blocks : BlkSame(b) /\ blk'[b].q \subseteq blk[b].q
        /\ blk'[b].since = blk[b].since
  BY DEF BlkSame
<1>6. BlocksOK'
  BY <1>1, <1>2, <1>4, <1>5, BlocksFrame, HolderCores, HomeBlks
<1>7. OutOK' /\ Places'
  BY <1>1, <1>2, OutSpSame, PlacesStill
<1> QED BY <1>2, <1>3, <1>6, <1>7, SpStep

LEMMA StepKillSpawner ==
  ASSUME IInv, KillSpawner
  PROVE  IInv'
<1>1. Types
  BY Parts
<1> QED BY <1>1, KillSpawnerEffect, StepSpOnly

LEMMA StepReapSpawner ==
  ASSUME IInv, ReapSpawner
  PROVE  IInv'
<1>1. Types /\ SpawnerOK
  BY Parts
<1>2. sp.pc \in {"idle", "reserve"}
  BY DEF ReapSpawner
<1>3. sp.cleanup <=> sp.pc = "reserve"
  BY <1>1, <1>2 DEF SpawnerOK
<1>4. "channels" \in Got => sp.ch \in Blocks \/ ~sp.cleanup
  BY <1>3, RecordBlock
<1>5. /\ UNCHANGED <<acb, snd, rc>>
      /\ sp.cleanup => RolledBack
      /\ ~sp.cleanup => UNCHANGED <<out, blk>>
      /\ sp' \in Sp /\ sp'.pc = "gone" /\ sp'.cleanup = FALSE
  BY <1>1, <1>4, ReapSpawnerEffect
<1>6. CASE sp.cleanup
  BY <1>3, <1>5, <1>6, StepRolledBack
<1>7. CASE ~sp.cleanup
  BY <1>5, <1>7, StepSpOnly
<1> QED BY <1>6, <1>7

-----------------------------------------------------------------------------
\* The inductive invariant.

\* what the first actor starts with
LEMMA SpawnItemsIs ==
  ASSUME NEW bounded \in BOOLEAN
  PROVE  /\ SpawnItems(bounded) \subseteq Items /\ Kept \subseteq SpawnItems(bounded)
         /\ bounded => "charges" \in SpawnItems(bounded)
<1>1. /\ Order("inbox")[1] = "stack" /\ Order("inbox")[2] = "buckets"
      /\ Order("inbox")[4] = "charges"
  BY DEF Order
<1>2. {"stack", "buckets", "charges"} \subseteq Items
  <2>1. \A i \in 1..6 : Order("inbox")[i] \in Items
    BY OrderIs
  <2>2. Order("inbox")[1] \in Items /\ Order("inbox")[2] \in Items
          /\ Order("inbox")[4] \in Items
    BY <2>1
  <2> QED BY <1>1, <2>2
<1>3. Kept \subseteq Items
  BY KeptItems
<1> QED BY <1>2, <1>3 DEF SpawnItems, Kept

\* an actor that is built, and one that is not
LEMMA BornIs ==
  ASSUME NEW b \in Blocks, NEW bounded \in BOOLEAN, NEW items, items \subseteq Items
  PROVE  /\ Born(b, bounded, items) \in Acb /\ Unborn \in Acb
         /\ Born(b, bounded, items).var = "READY" /\ Born(b, bounded, items).ch = b
         /\ Born(b, bounded, items).bounded = bounded /\ Born(b, bounded, items).items = items
         /\ Born(b, bounded, items).shlock = None /\ Born(b, bounded, items).hand = NoEntry
         /\ Born(b, bounded, items).rx = {} /\ Born(b, bounded, items).life = "built"
         /\ Born(b, bounded, items).messages = 0 /\ Born(b, bounded, items).bytes = 0
         /\ Unborn.var = "unborn" /\ Unborn.ch = None /\ Unborn.bounded = FALSE
         /\ Unborn.items = {} /\ Unborn.shlock = None /\ Unborn.hand = NoEntry
         /\ Unborn.rx = {} /\ Unborn.life = "none"
<1>1. /\ Unborn.var = "unborn" /\ Unborn.ch = None /\ Unborn.bounded = FALSE
      /\ Unborn.items = {} /\ Unborn.shlock = None /\ Unborn.hand = NoEntry
      /\ Unborn.rx = {} /\ Unborn.life = "none" /\ Unborn.messages = 0 /\ Unborn.bytes = 0
  BY DEF Unborn
<1>2. Unborn \in Acb
  <2>1. 0 \in Int /\ {} \in SUBSET Items /\ {} \in SUBSET Messages
    OBVIOUS
  <2> QED BY <2>1 DEF Unborn, Acb, Lives
<1>3. PICK u \in Acb : u = Unborn
  BY <1>2
<1> DEFINE R == [u EXCEPT !.var = "READY", !.ch = b, !.bounded = bounded, !.items = items,
                          !.life = "built"]
<1>4. R = Born(b, bounded, items)
  BY <1>3 DEF Born
<1>5. /\ R \in Acb /\ R.var = "READY" /\ R.ch = b /\ R.bounded = bounded /\ R.items = items
      /\ R.life = "built"
  BY DEF Acb, Lives
<1>6. /\ R.shlock = u.shlock /\ R.hand = u.hand /\ R.rx = u.rx
      /\ R.messages = u.messages /\ R.bytes = u.bytes
  BY DEF Acb
<1> HIDE DEF R
<1> QED BY <1>1, <1>2, <1>3, <1>4, <1>5, <1>6

\* What the initial states say, field by field.
LEMMA InitIs ==
  ASSUME Init
  PROVE  \E bounded \in BOOLEAN, b \in Blocks :
    /\ acb \in [Actors -> Acb] /\ blk \in [Blocks -> Blk] /\ snd \in [Senders -> Snd]
    /\ rc \in [Messages -> Int] /\ out \in [Items -> Int] /\ sp \in Sp
    /\ \A a \in Actors : a # First => acb[a] = Unborn
    /\ acb[First] = Born(b, bounded, SpawnItems(bounded))
    /\ \A c \in Blocks : c # b => blk[c] = Fresh("list")
    /\ blk[b].at = "held" /\ blk[b].owner = IF bounded THEN First ELSE None
    /\ \A c \in Blocks : blk[c].q = {}
    /\ \A s \in Senders :
         /\ snd[s].pc = "idle" /\ snd[s].m = None /\ snd[s].send_to = None
         /\ snd[s].send_root = None /\ snd[s].left = SendMax[s]
    /\ \A m \in Messages : rc[m] = 0
    /\ \A i \in Items : out[i] = IF i \in SpawnItems(bounded) THEN 1 ELSE 0
    /\ sp.pc = "idle" /\ sp.cleanup = FALSE
<1>1. PICK bounded \in BOOLEAN, b \in Blocks :
        /\ acb = [a \in Actors |-> IF a = First THEN Born(b, bounded, SpawnItems(bounded))
                                   ELSE Unborn]
        /\ blk = [c \in Blocks |-> IF c = b THEN [Fresh("held") EXCEPT
                                                    !.owner = IF bounded THEN First ELSE None]
                                   ELSE Fresh("list")]
        /\ snd = [s \in Senders |->
                    [var |-> "READY", pc |-> "idle", to |-> None, m |-> None, charge |-> 0,
                     c |-> None, send_to |-> None, send_root |-> None, hold |-> FALSE,
                     left |-> SendMax[s]]]
        /\ rc = [m \in Messages |-> 0]
        /\ out = [i \in Items |-> IF i \in SpawnItems(bounded) THEN 1 ELSE 0]
        /\ sp = [var |-> "READY", pc |-> "idle", kind |-> "heap", n |-> 0, ch |-> None,
                 cleanup |-> FALSE, left |-> SpawnMax]
  BY DEF Init
<1>2. acb \in [Actors -> Acb]
  BY <1>1, SpawnItemsIs, BornIs
<1>3. PICK f \in Blk : f = Fresh("held") /\ f.at = "held" /\ f.q = {}
  BY FreshIs
<1>4. PICK o \in Actors \cup {None} : o = IF bounded THEN First ELSE None
  BY Const
<1> DEFINE H == [f EXCEPT !.owner = o]
<1>5. H \in Blk /\ H.at = "held" /\ H.q = {} /\ H.owner = o
  BY <1>3 DEF Blk
<1>6. blk = [c \in Blocks |-> IF c = b THEN H ELSE Fresh("list")]
  BY <1>1, <1>3, <1>4
<1> HIDE DEF H
<1>7. Fresh("list") \in Blk /\ Fresh("list").q = {}
  BY FreshIs
<1>8. /\ blk \in [Blocks -> Blk] /\ \A c \in Blocks : c # b => blk[c] = Fresh("list")
      /\ blk[b].at = "held" /\ blk[b].owner = IF bounded THEN First ELSE None
      /\ \A c \in Blocks : blk[c].q = {}
  BY <1>4, <1>5, <1>6, <1>7
<1>9. \A s \in Senders :
        [var |-> "READY", pc |-> "idle", to |-> None, m |-> None, charge |-> 0,
         c |-> None, send_to |-> None, send_root |-> None, hold |-> FALSE,
         left |-> SendMax[s]] \in Snd
  BY Const DEF Snd, Steps, Parkable
<1>10. snd \in [Senders -> Snd]
  BY <1>1, <1>9
<1>11. 0 \in 0..6 /\ 0 \in Int /\ 1 \in Int
  OBVIOUS
<1>12. sp \in Sp
  BY <1>1, <1>11, Const DEF Sp
<1>13. rc \in [Messages -> Int] /\ out \in [Items -> Int]
  BY <1>1, <1>11
<1>14. acb[First] = Born(b, bounded, SpawnItems(bounded)) /\ \A a \in Actors : a # First =>
         acb[a] = Unborn
  BY <1>1, Const
<1> QED BY <1>1, <1>2, <1>8, <1>10, <1>12, <1>13, <1>14

\* the initial states satisfy the invariant
LEMMA InitInv ==
  ASSUME Init PROVE IInv
<1>1. PICK bounded \in BOOLEAN, b \in Blocks :
    /\ acb \in [Actors -> Acb] /\ blk \in [Blocks -> Blk] /\ snd \in [Senders -> Snd]
    /\ rc \in [Messages -> Int] /\ out \in [Items -> Int] /\ sp \in Sp
    /\ \A a \in Actors : a # First => acb[a] = Unborn
    /\ acb[First] = Born(b, bounded, SpawnItems(bounded))
    /\ \A c \in Blocks : c # b => blk[c] = Fresh("list")
    /\ blk[b].at = "held" /\ blk[b].owner = IF bounded THEN First ELSE None
    /\ \A c \in Blocks : blk[c].q = {}
    /\ \A s \in Senders :
         /\ snd[s].pc = "idle" /\ snd[s].m = None /\ snd[s].send_to = None
         /\ snd[s].send_root = None /\ snd[s].left = SendMax[s]
    /\ \A m \in Messages : rc[m] = 0
    /\ \A i \in Items : out[i] = IF i \in SpawnItems(bounded) THEN 1 ELSE 0
    /\ sp.pc = "idle" /\ sp.cleanup = FALSE
  BY InitIs
<1>2. Types
  BY <1>1, FS_EmptySet DEF Types
<1>3. SpawnItems(bounded) \subseteq Items
  BY SpawnItemsIs
<1>4. /\ acb[First].var = "READY" /\ acb[First].ch = b /\ acb[First].bounded = bounded
      /\ acb[First].items = SpawnItems(bounded) /\ acb[First].shlock = None
      /\ acb[First].hand = NoEntry /\ acb[First].rx = {} /\ acb[First].life = "built"
  <2>1. PICK its : its = SpawnItems(bounded)
    OBVIOUS
  <2>2. its \subseteq Items
    BY <1>3, <2>1
  <2>3. acb[First] = Born(b, bounded, its)
    BY <1>1, <2>1
  <2>4. PICK x : x = Born(b, bounded, its)
    OBVIOUS
  <2>5. x.bounded = bounded
    BY <2>4 DEF Born, Unborn
  <2>6. x.ch = b /\ x.items = its
    BY <2>4 DEF Born, Unborn
  <2>7. x.var = "READY" /\ x.shlock = None /\ x.hand = NoEntry /\ x.rx = {} /\ x.life = "built"
    BY <2>4 DEF Born, Unborn
  <2>8. acb[First] = x
    BY <2>3, <2>4
  <2> QED BY <2>1, <2>5, <2>6, <2>7, <2>8, Zenon
<1>5. \A a \in Actors : a # First =>
        /\ acb[a].var = "unborn" /\ acb[a].ch = None /\ acb[a].bounded = FALSE
        /\ acb[a].items = {} /\ acb[a].shlock = None /\ acb[a].hand = NoEntry
        /\ acb[a].rx = {} /\ acb[a].life = "none"
  <2>1. /\ Unborn.var = "unborn" /\ Unborn.ch = None /\ Unborn.bounded = FALSE
        /\ Unborn.items = {} /\ Unborn.shlock = None /\ Unborn.hand = NoEntry
        /\ Unborn.rx = {} /\ Unborn.life = "none"
    BY DEF Unborn
  <2> QED BY <1>1, <2>1
<1>6. LivesOK
  <2>1. LifeOK(First)
    BY <1>4, Const, SpawnItemsIs DEF LifeOK
  <2>2. ASSUME NEW a \in Actors, a # First PROVE LifeOK(a)
    BY <1>5, <2>2 DEF LifeOK
  <2> QED BY <2>1, <2>2 DEF LivesOK
<1>7. SendersOK
  <2>1. ASSUME NEW s \in Senders PROVE SenderOK(s)
    <3>1. SendMax[s] \in 0..SendMax[s]
      BY Const
    <3> QED BY <1>1, <3>1 DEF SenderOK
  <2> QED BY <2>1 DEF SendersOK
<1>8. SpawnerOK
  BY <1>1 DEF SpawnerOK
<1>9. \A a \in Actors, c \in Blocks : Holds(a, c) <=> a = First /\ c = b
  BY <1>4, <1>5 DEF Holds
<1>10. \A c \in Blocks : ~SpHolds(c)
  BY <1>1 DEF SpHolds
<1>11. \A c \in Blocks : c # b => blk[c].at = "list"
  BY <1>1, FreshIs
<1>12. BlocksOK
  <2>1. Kept1
    BY <1>9, <1>11, Const DEF Kept1
  <2>2. Kept2 /\ Kept5 /\ Kept6
    BY <1>1, <1>10 DEF Kept2, Kept5, Kept6
  <2>3. Kept3
    BY <1>1, <1>4, <1>9 DEF Kept3
  <2>4. Kept4
    BY <1>4, <1>5 DEF Kept4
  <2> QED BY <2>1, <2>2, <2>3, <2>4 DEF BlocksOK
<1>13. OutOK
  <2>1. SUFFICES ASSUME NEW i \in Items
                          PROVE out[i] = Cardinality(With(i)) + (IF Under(i) THEN 1 ELSE 0)
    BY DEF OutOK
  <2>2. ~Under(i)
    BY <1>1 DEF Under
  <2>3. CASE i \in SpawnItems(bounded)
    <3>1. With(i) = {First}
      BY <1>4, <1>5, <2>3, Const DEF With
    <3>2. Cardinality({First}) = 1
      BY FS_Singleton
    <3> QED BY <1>1, <2>2, <2>3, <3>1, <3>2
  <2>4. CASE i \notin SpawnItems(bounded)
    <3>1. With(i) = {}
      BY <1>4, <1>5, <2>4 DEF With
    <3>2. Cardinality({}) = 0
      BY FS_EmptySet
    <3> QED BY <1>1, <2>2, <2>4, <3>1, <3>2
  <2> QED BY <2>3, <2>4
<1>14. Places
  <2>1. ASSUME NEW m \in Messages PROVE Place1(m)
    <3>1. InRing(m) = {}
      BY <1>1 DEF InRing, Roots
    <3>2. InHand(m) = {}
      BY <1>4, <1>5, NoHand DEF InHand
    <3>3. InSend(m) = {}
      BY <1>1, Const DEF InSend
    <3> QED BY <1>1, <3>1, <3>2, <3>3 DEF Place1
  <2>2. Unsent
    <3>1. SUFFICES ASSUME NEW s \in Senders, NEW k \in 1..snd[s].left PROVE rc[<<s, k>>] = 0
      BY DEF Unsent
    <3>2. k \in 1..SendMax[s]
      BY <1>1
    <3> QED BY <1>1, <3>2, MessageIs
  <2>3. Copied
    BY <1>1 DEF Copied
  <2>4. OnceIn /\ InHandOnce
    BY <1>1, <1>4, <1>5 DEF OnceIn, InHandOnce
  <2> QED BY <2>1, <2>2, <2>3, <2>4 DEF Places
<1> QED BY <1>2, <1>6, <1>7, <1>8, <1>12, <1>13, <1>14 DEF IInv

\* a step of nobody
LEMMA Still ==
  ASSUME IInv, UNCHANGED vars PROVE IInv'
<1>1. /\ Types /\ SpawnerOK
  BY Parts
<1>2. UNCHANGED <<acb, blk, snd, rc, out>> /\ sp' = sp
  BY DEF vars
<1> QED BY <1>1, <1>2, SpType, StepSpOnly

\* and every step keeps it
LEMMA StepInv ==
  ASSUME IInv, [Next]_vars PROVE IInv'
<1>1. CASE UNCHANGED vars
  BY <1>1, Still
<1>2. ASSUME NEW s \in Senders, Send(s) \/ KillSender(s) \/ ReapSender(s) PROVE IInv'
  BY <1>2, StepStart, StepRefused, StepCopy, StepPin, StepLock, StepPublish, StepCheck,
     StepResolve, StepFault, StepPushLook, StepWrite, StepGrow, StepKillSender, StepReapSender
     DEF Send
<1>3. ASSUME NEW a \in Actors, Receive(a) \/ Kill(a) \/ Reap(a) PROVE IInv'
  <2>1. CASE \E e \in (IF acb[a].ch = None THEN {} ELSE blk[acb[a].ch].q) : Take(a, e)
    BY <2>1, StepTake
  <2> QED BY <1>3, <2>1, StepTaken, StepEndTurn, StepKill, StepClaim, StepDrain, StepLimbo,
        StepClear
          DEF Receive, Reap
<1>4. ASSUME Spawning PROVE IInv'
  BY <1>4, StepAdmit, StepReserve, StepInitBlock, StepDeny, StepKillSpawner, StepReapSpawner,
     StepTakeBlock, StepBuild DEF Spawning
<1> QED BY <1>1, <1>2, <1>3, <1>4, StepTurn DEF Next

\* The invariant holds in every state: lives, senders, the spawner's record, blocks,
\* items and messages agree, through kills and reaps of anyone between any two steps.
THEOREM InductiveInvariant == Spec => []IInv
<1>1. Init => IInv
  BY InitInv
<1>2. IInv /\ [Next]_vars => IInv'
  BY StepInv
<1> QED BY <1>1, <1>2, PTL DEF Spec

-----------------------------------------------------------------------------
\* What it says.

\* a writer's block has not been reused: limbo waits for the writer's hart
LEMMA WriterSafe ==
  ASSUME IInv PROVE NoStaleWriter
<1>1. Types /\ LivesOK /\ BlocksOK
  BY Parts
<1>2. SUFFICES ASSUME NEW s \in Senders, snd[s].pc = "write"
               PROVE  blk[snd[s].c].at = "limbo" \/ acb[snd[s].to].ch = snd[s].c
  BY DEF NoStaleWriter
<1>3. SenderOK(s)
  BY Parts
<1>4. PICK a \in Actors : a = snd[s].to /\ acb[a].var # "unborn"
  BY <1>2, SendTo
<1>5. CASE acb[a].life \in {"limbo", "gone"}
  BY <1>2, <1>3, <1>4, <1>5 DEF SenderOK
<1>6. CASE acb[a].life \notin {"limbo", "gone"}
  <2>1. acb[a].life \in {"built", "claimed", "drained"}
    BY <1>1, <1>4, <1>6, AcbType DEF LivesOK, LifeOK, Lives, Types
  <2>2. acb[a].ch # None
    BY <1>1, <2>1 DEF LivesOK, LifeOK
  <2> QED BY <1>2, <1>3, <1>4, <2>2 DEF SenderOK
<1> QED BY <1>5, <1>6

\* a set of one
LEMMA OneCounts == ASSUME NEW S, One(S) PROVE Cardinality(S) = 1
<1>1. PICK x : S = {x}
  BY DEF One
<1> QED BY <1>1, FS_Singleton

\* each message has one count or none
LEMMA CountedOnce ==
  ASSUME IInv PROVE Accounted
<1>1. Places
  BY Parts
<1>2. SUFFICES ASSUME NEW m \in Messages
               PROVE  rc[m] = Cardinality(InRing(m)) + Cardinality(InHand(m))
                              + Cardinality(InSend(m))
  BY DEF Accounted
<1>3. Place1(m)
  BY <1>1 DEF Places
<1>4. Cardinality({}) = 0
  BY FS_EmptySet
<1>5. CASE rc[m] = 0 /\ InRing(m) = {} /\ InHand(m) = {} /\ InSend(m) = {}
  BY <1>4, <1>5
<1>6. CASE rc[m] = 1 /\ One(InRing(m)) /\ InHand(m) = {} /\ InSend(m) = {}
  <2>1. Cardinality(InRing(m)) = 1
    BY <1>6, OneCounts
  <2> QED BY <1>4, <1>6, <2>1
<1>7. CASE rc[m] = 1 /\ InRing(m) = {} /\ One(InHand(m)) /\ InSend(m) = {}
  <2>1. Cardinality(InHand(m)) = 1
    BY <1>7, OneCounts
  <2> QED BY <1>4, <1>7, <2>1
<1>8. CASE rc[m] = 1 /\ InRing(m) = {} /\ InHand(m) = {} /\ One(InSend(m))
  <2>1. Cardinality(InSend(m)) = 1
    BY <1>8, OneCounts
  <2> QED BY <1>4, <1>8, <2>1
<1> QED BY <1>3, <1>5, <1>6, <1>7, <1>8 DEF Place1

\* who holds a block
LEMMA HolderIs ==
  ASSUME Types, LivesOK, NEW b \in Blocks
  PROVE  \A a \in Actors : acb[a].ch = b /\ acb[a].life # "limbo" <=> Holds(a, b)
<1>1. SUFFICES ASSUME NEW a \in Actors PROVE acb[a].ch = b
                        /\ acb[a].life # "limbo" <=> Holds(a, b)
  OBVIOUS
<1>2. acb[a].life \in {"built", "claimed", "drained", "limbo"} <=> acb[a].ch # None
  BY DEF LivesOK, LifeOK
<1>3. acb[a].life \in Lives
  BY AcbType DEF Types
<1>4. b # None
  BY Const
<1> QED BY <1>2, <1>3, <1>4 DEF Lives, Holds

\* a held block has one holder
LEMMA HeldOnce ==
  ASSUME IInv, NEW b \in Blocks, NEW S,
           S = {a \in Actors : acb[a].ch = b /\ acb[a].life # "limbo"}
  PROVE  blk[b].at = "held" <=> Cardinality(S) + (IF sp.cleanup /\ sp.ch = b THEN 1 ELSE 0) = 1
<1>1. Types /\ LivesOK /\ BlocksOK
  BY Parts
<1>2. S = {a \in Actors : Holds(a, b)}
  BY <1>1, HolderIs
<1>3. S = {} \/ \E a \in Actors : S = {a} /\ Holds(a, b)
  <2>1. SUFFICES ASSUME NEW a \in S PROVE S = {a} /\ Holds(a, b) /\ a \in Actors
    OBVIOUS
  <2>2. a \in Actors /\ Holds(a, b)
    BY <1>2
  <2>3. \A c \in Actors : Holds(c, b) => c = a
    BY <1>1, <2>2 DEF BlocksOK, Kept3
  <2> QED BY <1>2, <2>2, <2>3
<1>4. CASE S = {}
  <2>1. Cardinality(S) = 0
    BY <1>4, FS_EmptySet
  <2>2. \A a \in Actors : ~Holds(a, b)
    BY <1>2, <1>4
  <2>3. blk[b].at = "held" <=> SpHolds(b)
    BY <1>1, <2>2 DEF BlocksOK, Kept1, Kept2
  <2> QED BY <2>1, <2>3 DEF SpHolds
<1>5. ASSUME NEW a \in Actors, S = {a}, Holds(a, b)
      PROVE  blk[b].at = "held" <=> Cardinality(S) + (IF sp.cleanup
               /\ sp.ch = b THEN 1 ELSE 0) = 1
  <2>1. Cardinality(S) = 1
    BY <1>5, FS_Singleton
  <2>2. blk[b].at = "held" /\ ~SpHolds(b)
    BY <1>1, <1>5 DEF BlocksOK, Kept2, Kept3
  <2>3. ~(sp.cleanup /\ sp.ch = b)
    BY <2>2 DEF SpHolds
  <2> QED BY <2>1, <2>2, <2>3
<1> QED BY <1>3, <1>4, <1>5

\* each item taken is somebody's
LEMMA TakenOnce ==
  ASSUME IInv PROVE Conserved
<1>1. Types /\ BlocksOK /\ OutOK
  BY Parts
<1>2. \A i \in Items :
        out[i] = Cardinality({a \in Actors : i \in acb[a].items})
                   + (IF Reserving /\ (i \in Got \/ (i = "channels" /\ sp.pc = "init"))
                      THEN 1 ELSE 0)
  BY <1>1 DEF OutOK, With, Under, Reserving
<1>3. \A b \in Blocks :
        blk[b].at = "held" <=>
          Cardinality({a \in Actors : acb[a].ch = b /\ acb[a].life # "limbo"})
            + (IF Reserving /\ sp.ch = b THEN 1 ELSE 0) = 1
  BY HeldOnce DEF Reserving
<1>4. \A b \in Blocks : blk[b].at = "list" => blk[b].q = {}
  BY <1>1 DEF BlocksOK, Kept5
<1> QED BY <1>2, <1>3, <1>4 DEF Conserved

\* a bounded send's target keeps its block under the lock
LEMMA ProducerCovered ==
  ASSUME IInv PROVE BoundedCovered
<1>1. Types /\ LivesOK
  BY Parts
<1>2. SUFFICES ASSUME NEW s \in Senders, snd[s].pc \in {"publish", "fault"},
                        snd[s].send_to # None
               PROVE  /\ acb[snd[s].to].ch # None
                      /\ "charges" \in acb[snd[s].to].items
  BY DEF BoundedCovered
<1>3. SenderOK(s)
  BY Parts
<1>4. snd[s].pc = "publish"
  BY <1>2, <1>3 DEF SenderOK
<1>5. PICK a \in Actors : a = snd[s].to
  BY <1>4, SendTo
<1>6. acb[a].shlock = s
  BY <1>3, <1>4, <1>5 DEF SenderOK
<1>7. acb[a].bounded /\ acb[a].life \in {"built", "claimed"}
  BY <1>1, <1>6, ShlockIs, Const
<1>8. acb[a].ch # None /\ "charges" \in acb[a].items
  BY <1>1, <1>7 DEF LivesOK, LifeOK
<1> QED BY <1>5, <1>8

\* ring_push to a mailbox without a limit takes no lock against the reaper: its block
\* may be in limbo when the entry is written, but it is never the block of another
\* actor, because take_block waits until every hart has come round its loop.
THEOREM NoStaleWriterHolds == Spec => []NoStaleWriter
<1>1. IInv => NoStaleWriter
  BY WriterSafe
<1> QED BY <1>1, InductiveInvariant, PTL

\* A message has one count while it is in one ring, with one receiver or with one
\* sender, and none when it is gone; every reserved item is in the record of the
\* admission or with its actor, so kills of either give it back once.
THEOREM NothingLeaksHolds == Spec => []NothingLeaks
<1>1. IInv => NothingLeaks
  BY CountedOnce, TakenOnce DEF NothingLeaks
<1> QED BY <1>1, InductiveInvariant, PTL

\* A bounded producer under shlock finds the block of its target: the reaper waits
\* for the lock before it drains.
THEOREM BoundedCoveredHolds == Spec => []BoundedCovered
<1>1. IInv => BoundedCovered
  BY ProducerCovered
<1> QED BY <1>1, InductiveInvariant, PTL
=============================================================================
