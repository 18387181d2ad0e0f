------------------------------- MODULE Buddy -------------------------------
(***************************************************************************)
(* The buddy allocator (runtime/buddy.c) as functions of its free lists.   *)
(*                                                                         *)
(* The arena is N units of the minimum block.  A block is its first unit   *)
(* and its order; the free lists together are one set of blocks, so which  *)
(* block of a list is taken is left open.  Each operator is what one       *)
(* region under buddy_lock does to that set.                               *)
(***************************************************************************)
EXTENDS Integers, FiniteSets, FiniteSetsExt

CONSTANT N  \* the arena's size in minimum blocks
ASSUME BuddyAssumption == N \in Nat \ {0}

Arena == 0..(N - 1)
Orders == {k \in 0..N : 2^k <= N}
MaxOrder == Max(Orders)
Block == [off : Arena, ord : Orders]
At(o, k) == [off |-> o, ord |-> k]
Units(b) == b.off..(b.off + 2^b.ord - 1)
UnitsOf(bs) == UNION {Units(b) : b \in bs}

\* The blocks that lie where a block of their order may lie, in the arena.
Placed == {b \in Block : b.off % 2^b.ord = 0 /\ Units(b) \subseteq Arena}

\* The largest aligned blocks that fill a set of units: the decomposition
\* buddy_init seeds and every split leaves behind.
Fits(S) == {b \in Placed : Units(b) \subseteq S}
Tiles(S) ==
  LET fit == Fits(S) IN
  {b \in fit : ~\E c \in fit : c.ord > b.ord /\ Units(b) \subseteq Units(c)}

\* Mutant of Split: one half too many.
SplitOver(b, want) == {At(b.off + 2^k, k) : k \in want..b.ord}

\* split_down: the block taken, and the halves left above it.
Split(b, want) == {At(b.off + 2^k, k) : k \in want..(b.ord - 1)}

\* The blocks buddy_alloc may take for an order: of the first list that is
\* not empty.
Candidates(free, want) ==
  LET above == {b \in free : b.ord >= want}
  IN  {b \in above : \A c \in above : b.ord <= c.ord}

AfterAlloc(free, b, want) == (free \ {b}) \cup Split(b, want)

\* The block beside a block: the other half of their parent.
Beside(o, k) == IF (o \div 2^k) % 2 = 0 THEN o + 2^k ELSE o - 2^k
Lower(o, k) == o - (o % 2^k)

\* buddy_free_locked: the block joins its free neighbour as long as there
\* is one of the same order.
Joins(free, o, k) == At(Beside(Lower(o, k), k), k) \in free
MergedTo(free, b) ==
  CHOOSE k \in b.ord..MaxOrder :
    /\ \A j \in b.ord..(k - 1) : Joins(free, b.off, j)
    /\ k = MaxOrder \/ ~Joins(free, b.off, k)

AfterFree(free, b) ==
  LET k == MergedTo(free, b)
      eaten == {At(Beside(Lower(b.off, j), j), j) : j \in b.ord..(k - 1)}
  IN  (free \ eaten) \cup {At(Lower(b.off, k), k)}

\* buddy_realloc in place: a smaller order gives the upper halves back; a
\* larger one absorbs the free block above while this one is a low half.
Shrunk(free, b, want) == free \cup Split(b, want)
GrownTo(free, b, want) ==
  CHOOSE k \in b.ord..want :
    /\ \A j \in b.ord..(k - 1) :
         (b.off \div 2^j) % 2 = 0 /\ At(b.off + 2^j, j) \in free
    /\ \/ k = want
       \/ (b.off \div 2^k) % 2 = 1
       \/ At(b.off + 2^k, k) \notin free
Absorbed(free, b, k) == free \ Split(At(b.off, k), b.ord)

\* buddy_reserve_range: unit by unit from the left as far as the range is
\* free (take_aligned takes whole blocks where it can; what is left of a
\* free block is tiled again).
TakenUnits(free, range) ==
  {u \in range : \A v \in range : v <= u => v \in UnitsOf(free)}
AfterTake(free, units) ==
  UNION {IF Units(b) \cap units = {} THEN {b} ELSE Tiles(Units(b) \ units) : b \in free}
=============================================================================
