------------------------------- MODULE Copy ---------------------------------
(***************************************************************************)
(* The walks over a value graph in runtime/runtime.c: the deep copy a send *)
(* makes and the two walks that measure it beforehand, the copy keep and   *)
(* the region boundaries make, and the walks that find the vectors of a    *)
(* graph that dies.                                                        *)
(*                                                                         *)
(* A graph is a term, a tree: what is shared inside a message is copied    *)
(* once for every path to it.  A cell carries the place it lives:          *)
(* "static" for a static of the runtime or of the receiver's own image,    *)
(* "image" for one of the sender's process image, any other place is the   *)
(* heap's.  A closure names its code's place too.  Sizes are in words.     *)
(*                                                                         *)
(* c says what a copy is for: to, the place it is made; far, whether the   *)
(* receiver is another process; move, whether an owned vector crosses by   *)
(* handle (copy_movevec).                                                  *)
(***************************************************************************)
EXTENDS Columns

CONSTANTS
  ManagedPrefix,  \* words before a managed cell: 1 with compact headers, else 2
  MaxDepth        \* the depth ceiling of an admission walk

ASSUME CopyAssumption == ManagedPrefix \in {1, 2} /\ MaxDepth \in Nat

AddUp(s) == FoldLeft(LAMBDA a, b : a + b, 0, s)

Fn(at, code, args) == [tid |-> "fn", at |-> at, code |-> code, args |-> args]
List(at, heads, tail) == [tid |-> "list", at |-> at, heads |-> heads, tail |-> tail]
Nil(at) == List(at, <<>>, None)

Plain(v) == v.tid \in {"int", "flt", "actor"}
fpr_in_heap(v) == ~Plain(v) /\ v.at \notin {"static", "image"}
img_foreign(at, c) == at = "image" /\ c.far

\* The values a cell holds, a list's tail among them.
Fields(v) ==
  CASE v.tid = "fn" -> v.args
    [] v.tid = "tup" -> v.f
    [] v.tid = "list" -> IF v.heads = <<>> THEN <<>> ELSE Append(v.heads, v.tail)
    [] OTHER -> <<>>
WithFields(v, f) ==
  CASE v.tid = "fn" -> [v EXCEPT !.args = f]
    [] v.tid = "tup" -> [v EXCEPT !.f = f]
    [] v.tid = "list" /\ v.heads # <<>> -> [v EXCEPT !.heads = Front(f), !.tail = Last(f)]
    [] OTHER -> v

-----------------------------------------------------------------------------
(* Sizes. *)

Even(n) == n + (n % 2)
dc_cellsz(raw) == Even(raw + ManagedPrefix)
dc_rawsz(raw) == Even(raw + 2)

\* A cell's extent, as its allocation recorded it.
PREHEADER(v) ==
  dc_cellsz(CASE v.tid = "str" -> 3
              [] v.tid = "fn" -> 4 + Len(v.args)
              [] OTHER -> 1 + Len(Fields(v)))

\* A static cell has no extent of its own: its shape says.
img_static_raw(v) ==
  CASE v.tid = "str" -> 3
    [] v.tid = "tup" /\ v.id = "Result" -> 2
    [] OTHER -> 1
Payload(v) == IF v.tid = "tup" /\ v.id = "Result" THEN v.f ELSE <<>>

VecWords == 9      \* vec_t
NodeWords == 4     \* vec_shape_t
ColWords == 2      \* col_t
KindWords(n) == (n + 7) \div 8
RECURSIVE NodesIn(_)
NodesIn(node) == 1 + AddUp([k \in DOMAIN node.kids |-> NodesIn(node.kids[k])])
Nodes(x) == NodesIn(x.shape[1])

\* What a copy of a vector takes, its boxed elements apart: header, recipe,
\* directory and kinds, and each column's record and span.
VecParts(x) ==
  <<dc_cellsz(VecWords)>>
  \o (IF x.shape = <<>> THEN <<>> ELSE <<dc_rawsz(NodeWords * Nodes(x))>>)
  \o (IF x.cols = <<>> THEN <<>>
      ELSE <<dc_rawsz(Len(x.cols)), dc_rawsz(KindWords(Len(x.cols)))>>)
  \o FlattenSeq([k \in DOMAIN x.cols |->
                   <<dc_rawsz(ColWords)>>
                   \o (IF x.len = 0 THEN <<>> ELSE <<dc_rawsz(x.len)>>)])
Boxed(x) == FlattenSeq([k \in DOMAIN x.cols |->
                          IF VK_RAW(x.kinds[k]) THEN <<>> ELSE x.cols[k].cells])

\* Mutant of vec_movable_here: only the header is looked at.
movable_header(x) == x.at = "base"
\* An owned vector that outlives a turn where it is: its header, so every
\* piece, in this actor's base pool, and no element that could be elsewhere.
vec_movable_here(x) ==
  x.at = "base" /\ \A k \in DOMAIN x.kinds : VK_RAW(x.kinds[k])

RECURSIVE dc_size(_, _)
dc_size(v, c) ==
  LET All(s) == AddUp([i \in DOMAIN s |-> dc_size(s[i], c)])
  IN CASE Plain(v) -> 0
       [] ~Plain(v) /\ ~fpr_in_heap(v) ->
            IF img_foreign(v.at, c)
              THEN dc_cellsz(img_static_raw(v)) + All(Payload(v)) ELSE 0
       [] fpr_in_heap(v) /\ v.tid = "vec" ->
            IF c.move /\ vec_movable_here(v) THEN 0 ELSE AddUp(VecParts(v)) + All(Boxed(v))
       [] OTHER -> PREHEADER(v) + All(Fields(v))

\* What is left of an allowance after n words, or -1: it did not do.
budget_take(left, n) == IF n > left THEN -1 ELSE left - n

\* The admission walk of a bounded inbox.  It descends no deeper than the
\* ceiling; a list's spine is no descent.
RECURSIVE dc_budget(_, _, _, _)
dc_budget(v, left, depth, c) ==
  LET Inner(l, s) ==
        FoldLeft(LAMBDA a, w : IF a < 0 THEN a ELSE dc_budget(w, a, depth + 1, c), l, s)
  IN CASE left < 0 -> -1
       [] left >= 0 /\ v.tid = "int" -> left
       [] left >= 0 /\ v.tid # "int" /\ depth > MaxDepth -> -1
       [] left >= 0 /\ v.tid \in {"flt", "actor"} /\ depth <= MaxDepth -> left
       [] left >= 0 /\ ~Plain(v) /\ ~fpr_in_heap(v) /\ depth <= MaxDepth ->
            IF img_foreign(v.at, c)
              THEN Inner(budget_take(left, dc_cellsz(img_static_raw(v))), Payload(v))
              ELSE left
       [] left >= 0 /\ fpr_in_heap(v) /\ depth <= MaxDepth /\ v.tid = "vec" ->
            Inner(FoldLeft(LAMBDA a, n : IF a < 0 THEN a ELSE budget_take(a, n), left, VecParts(v)),
                  Boxed(v))
       [] left >= 0 /\ fpr_in_heap(v) /\ depth <= MaxDepth /\ v.tid = "list" /\ v.heads # <<>> ->
            dc_budget(v.tail, Inner(budget_take(left, PREHEADER(v)), v.heads), depth, c)
       [] OTHER -> Inner(budget_take(left, PREHEADER(v)), Fields(v))

\* What a bounded inbox charges for a message (the rounding up to whole
\* slabs left out), or -1.
fpr_msg_charge_to(v, limit, c) ==
  LET left == dc_budget(v, limit, 0, c) IN IF left < 0 THEN -1 ELSE limit - left

-----------------------------------------------------------------------------
(* Copies: the new graph, and the words it took. *)

\* The columns of a copied vector: tight spans, beside the copy.
Tight(x, to, cells) ==
  [k \in DOMAIN x.cols |-> [cap |-> x.len, at |-> IF x.len = 0 THEN None ELSE to,
                            cells |-> cells[k]]]
Relocated(x, to, cells) ==
  [x EXCEPT !.at = to, !.dir = IF x.cols = <<>> THEN None ELSE to, !.cols = Tight(x, to, cells)]

\* Every piece a copy of a vector bumps, in order, and its boxed elements.
Bumped(x, n) ==
  dc_cellsz(VecWords) + n
  + (IF x.shape # <<>> THEN dc_rawsz(NodeWords * Nodes(x)) ELSE 0)
  + (IF x.cols # <<>> THEN dc_rawsz(Len(x.cols)) + dc_rawsz(KindWords(Len(x.cols))) ELSE 0)
  + Len(x.cols) * (dc_rawsz(ColWords) + (IF x.len > 0 THEN dc_rawsz(x.len) ELSE 0))

\* Mutant of Elements: a boxed element is copied as a word.
elements_shallow(x, d) ==
  [k \in DOMAIN x.cols |-> x.cols[k].cells]
\* The cells of each column of a copy, d being the copies of the boxed ones.
Elements(x, d) ==
  [k \in DOMAIN x.cols |->
     IF VK_RAW(x.kinds[k]) THEN x.cols[k].cells
     ELSE [i \in DOMAIN x.cols[k].cells |-> d[k][i].v]]

\* Copies of the boxed cells of each column.
Words2(d) == AddUp([k \in DOMAIN d |-> AddUp([i \in DOMAIN d[k] |-> d[k][i].n])])

RECURSIVE dc_dup(_, _)
dc_dup(v, c) ==
  LET f == IF fpr_in_heap(v) THEN Fields(v) ELSE Payload(v)
      g == [i \in DOMAIN f |-> dc_dup(f[i], c)]
      d == [k \in DOMAIN v.cols |->
              IF VK_RAW(v.kinds[k]) THEN <<>>
              ELSE [i \in DOMAIN v.cols[k].cells |-> dc_dup(v.cols[k].cells[i], c)]]
      n == AddUp([i \in DOMAIN g |-> g[i].n])
      w == WithFields([v EXCEPT !.at = c.to], [i \in DOMAIN g |-> g[i].v])
  IN CASE Plain(v) -> [v |-> v, n |-> 0]
       [] ~Plain(v) /\ ~fpr_in_heap(v) /\ ~img_foreign(v.at, c) -> [v |-> v, n |-> 0]
       [] ~Plain(v) /\ ~fpr_in_heap(v) /\ img_foreign(v.at, c) ->
            [v |-> w, n |-> dc_cellsz(img_static_raw(v)) + n]
       [] fpr_in_heap(v) /\ v.tid = "vec" ->
            IF c.move /\ vec_movable_here(v) THEN [v |-> v, n |-> 0]
            ELSE [v |-> Relocated(v, c.to, Elements(v, d)), n |-> Bumped(v, Words2(d))]
       [] OTHER -> [v |-> w, n |-> PREHEADER(v) + n]

\* A static of another process's image has no copy if it is a function.  The
\* walks that measure, not the copy itself, also look at a closure's code.
RECURSIVE Refused(_, _, _)
Refused(v, c, measured) ==
  \/ v.tid = "fn" /\ img_foreign(v.at, c)
  \/ measured /\ v.tid = "fn" /\ img_foreign(v.code, c)
  \/ LET s == IF v.tid = "vec" THEN Boxed(v) ELSE Fields(v)
     IN \E i \in DOMAIN s : Refused(s[i], c, measured)

\* keep, and a region's result: into the current pool, every static as it is.
RECURSIVE kp_dup(_, _)
kp_dup(v, c) ==
  LET g == [i \in DOMAIN Fields(v) |-> kp_dup(Fields(v)[i], c)]
      d == [k \in DOMAIN v.cols |->
              IF VK_RAW(v.kinds[k]) THEN <<>>
              ELSE [i \in DOMAIN v.cols[k].cells |-> kp_dup(v.cols[k].cells[i], c)]]
      n == AddUp([i \in DOMAIN g |-> g[i].n])
      w == WithFields([v EXCEPT !.at = c.to], [i \in DOMAIN g |-> g[i].v])
  IN CASE ~fpr_in_heap(v) -> [v |-> v, n |-> 0]
       [] fpr_in_heap(v) /\ v.tid = "vec" ->
            IF c.move /\ vec_movable_here(v) THEN [v |-> v, n |-> 0]
            ELSE [v |-> Relocated(v, c.to, Elements(v, d)), n |-> Bumped(v, Words2(d))]
       [] OTHER -> [v |-> w, n |-> PREHEADER(v) + n]

\* Does kp_dup of v take left words?  What of left remains, or -1: it does.
\* Of a vector it counts the header and the columns.
RECURSIVE kp_reaches(_, _, _)
kp_reaches(v, left, c) ==
  LET Inner(l, s) == FoldLeft(LAMBDA a, w : kp_reaches(w, a, c), l, s)
      Less(n) == IF n >= left THEN -1 ELSE left - n
  IN CASE left < 0 -> -1
       [] left >= 0 /\ ~fpr_in_heap(v) -> left
       [] left >= 0 /\ fpr_in_heap(v) /\ v.tid = "vec" ->
            IF c.move /\ vec_movable_here(v) THEN left
            ELSE Inner(Less(dc_cellsz(VecWords)
                            + Len(v.cols) * (dc_rawsz(ColWords) + dc_rawsz(v.len))), Boxed(v))
       [] OTHER -> Inner(Less(PREHEADER(v)), Fields(v))

-----------------------------------------------------------------------------
(* What dies with a graph. *)

\* Its vectors.  What a vector's own cells name is not looked at.
RECURSIVE VecsOf(_)
VecsOf(v) ==
  CASE ~fpr_in_heap(v) -> <<>>
    [] fpr_in_heap(v) /\ v.tid = "vec" -> <<v>>
    [] OTHER -> FlattenSeq([i \in DOMAIN Fields(v) |-> VecsOf(Fields(v)[i])])
has_vec(v) == VecsOf(v) # <<>>

Freed(b, x) == vfree([x |-> x, b |-> b, bad |-> FALSE]).b
\* A message root's last drop.
dc_release(b, v) == FoldLeft(Freed, b, VecsOf(v))
\* A boundary's old graph, after the copy: the vectors that were copied.
vec_release_in(b, v) ==
  FoldLeft(Freed, b, SelectSeq(VecsOf(v), LAMBDA x : ~vec_movable_here(x)))
=============================================================================
