------------------------------- MODULE Lanes --------------------------------
(***************************************************************************)
(* Machine words and the numeric tier of Vec (runtime/vec.c): what one     *)
(* lane of each operation computes, and the operations that move words     *)
(* between columns.  A column is a sequence of signed words of Width bits; *)
(* an Int the program holds is a tagged word, one bit narrower.            *)
(***************************************************************************)
EXTENDS Integers, Sequences

CONSTANT Width

ASSUME LanesAssumption == Width \in Nat /\ Width > 1

Signed(n, bits) ==
  LET m == n % 2^bits IN IF m >= 2^(bits - 1) THEN m - 2^bits ELSE m
Word(n) == Signed(n, Width)
\* TAG drops the top bit of a raw word.
Narrow(n) == Signed(n, Width - 1)
Truth(p) == IF p THEN 1 ELSE 0
Least(p, q) == IF p < q THEN p ELSE q
Most(p, q) == IF p > q THEN p ELSE q

-----------------------------------------------------------------------------
(* One lane.  k is the scalar operand, already untagged. *)

h_axpb(a, b, p) == Word(a * p + b)
h_sar(k, p) == p \div 2^k
h_minS(k, p) == Least(p, k)
h_maxS(k, p) == Most(p, k)
h_ges(k, p) == Truth(p >= k)
h_eqS(k, p) == Truth(p = k)
h_absv(p) == IF p < 0 THEN Word(-p) ELSE p

\* C's division truncates; a zero divisor gives 0.
h_zipDiv(p, q) ==
  LET a == IF p < 0 THEN -p ELSE p
      b == IF q < 0 THEN -q ELSE q
  IN IF q = 0 THEN 0 ELSE IF (p < 0) = (q < 0) THEN a \div b ELSE -(a \div b)

\* The operations on one column, by name and operands.
Lane(op, p) ==
  CASE op.f = "axpb" -> h_axpb(op.a, op.b, p)
    [] op.f = "sar"  -> h_sar(op.a, p)
    [] op.f = "minS" -> h_minS(op.a, p)
    [] op.f = "maxS" -> h_maxS(op.a, p)
    [] op.f = "ges"  -> h_ges(op.a, p)
    [] op.f = "eqS"  -> h_eqS(op.a, p)
    [] op.f = "absv" -> h_absv(p)

\* The operations on two columns of one length.
Lanes2(f, p, q) ==
  CASE f = "add" -> Word(p + q)
    [] f = "sub" -> Word(p - q)
    [] f = "mul" -> Word(p * q)
    [] f = "min" -> Least(p, q)
    [] f = "max" -> Most(p, q)
    [] f = "lt"  -> Truth(p < q)
    [] f = "eq"  -> Truth(p = q)
    [] f = "div" -> h_zipDiv(p, q)

-----------------------------------------------------------------------------
(* Whole columns. *)

VS_BLOCKS(op, p) == [i \in DOMAIN p |-> Lane(op, p[i])]
VS_ZIP(f, p, q) == [i \in DOMAIN p |-> Lanes2(f, p[i], q[i])]

\* An index out of range reads 0.
h_gather(x, s) ==
  [i \in DOMAIN x |-> IF x[i] \in 0 .. Len(s) - 1 THEN s[x[i] + 1] ELSE 0]

h_blend(m, s, d) == [i \in DOMAIN d |-> IF m[i] # 0 THEN s[i] ELSE d[i]]

h_burst(off, s, d) ==
  [i \in DOMAIN d |-> IF i - off \in DOMAIN s THEN s[i - off] ELSE d[i]]
=============================================================================
