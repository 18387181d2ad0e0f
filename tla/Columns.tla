------------------------------ MODULE Columns -------------------------------
(***************************************************************************)
(* The linear vector of runtime/vec.c, by its storage: a header, a         *)
(* directory of columns with a kind each, the recipe of a nested product,  *)
(* and one contiguous span of words per column.                            *)
(*                                                                         *)
(* A piece is written with the place it lives: "base" (the actor's base    *)
(* pool, which the operations here allocate from), or a place a copy made  *)
(* elsewhere put it.  An operation maps a store [x, b, bad] to the next:   *)
(* the vector, how many pieces of the base pool are allocated, and whether *)
(* the operation panicked or read a float as a pointer.                    *)
(*                                                                         *)
(* A value is a record whose tid says what the word is.  A float is its    *)
(* own bit pattern, of which only the low bit, the tag of an Int, matters. *)
(***************************************************************************)
EXTENDS Lanes, FiniteSets, SequencesExt, Folds

CONSTANTS
  FirstCap,  \* VL_B0, the words of a column's first span
  None

ASSUME ColumnsAssumption == FirstCap \in Nat \ {0}

Num(n) == [tid |-> "int", n |-> n]
Flt(low) == [tid |-> "flt", low |-> low]
Str(id, at) == [tid |-> "str", at |-> at, id |-> id]
Tup(id, at, f) == [tid |-> "tup", at |-> at, id |-> id, f |-> f]

ISINT(v) == v.tid = "int" \/ (v.tid = "flt" /\ v.low = 1)
VK_RAW(k) == k # "box"
VK_FLOAT(k) == k = "flt"

NoCol == [cap |-> 0, at |-> None, cells |-> <<>>]
Fresh == [tid |-> "vec", at |-> "base", rep |-> "UNSET", kinds |-> <<>>, id |-> None,
          shape |-> <<>>, len |-> 0, dir |-> None, cols |-> <<>>]
Panic(s) == [s EXCEPT !.bad = TRUE]

\* How many pieces of x are at a place.  The directory, the kinds, the recipe
\* and the column records are allocated together.
Pieces(x, at) ==
  (IF x.at = at THEN 1 ELSE 0)
  + (IF x.cols # <<>> /\ x.dir = at
       THEN 2 + Len(x.cols) + (IF x.shape # <<>> THEN 1 ELSE 0) ELSE 0)
  + Cardinality({k \in DOMAIN x.cols : x.cols[k].cap > 0 /\ x.cols[k].at = at})

-----------------------------------------------------------------------------
(* Layout. *)

\* The span doubles, in the base pool, wherever it was.
col_grow(s, k) ==
  LET c == s.x.cols[k]
      old == IF c.cap > 0 /\ c.at = "base" THEN 1 ELSE 0
  IN [s EXCEPT !.x.cols[k].cap = IF c.cap > 0 THEN 2 * c.cap ELSE FirstCap,
               !.x.cols[k].at = "base",
               !.b = @ + 1 - old]

\* The directory, the kinds, and the column record of each column.
vdir_alloc(s, kinds) ==
  [s EXCEPT !.x.kinds = kinds,
            !.x.dir = "base",
            !.x.cols = [k \in DOMAIN kinds |-> NoCol],
            !.b = @ + 2 + Len(kinds)]

h_new(b) == [x |-> Fresh, b |-> b + 1, bad |-> FALSE]

\* The layout of the first value pushed.  A float that is not odd would be
\* read as a pointer.
fix_layout(s, v) ==
  IF ISINT(v) THEN [vdir_alloc(s, <<"int">>) EXCEPT !.x.rep = "INT"]
  ELSE IF v.tid = "flt" THEN Panic(s)
  ELSE IF v.tid = "tup"
    THEN [vdir_alloc(s, [k \in DOMAIN v.f |-> IF ISINT(v.f[k]) THEN "int" ELSE "box"])
            EXCEPT !.x.rep = "SOA", !.x.id = v.id]
  ELSE [vdir_alloc(s, <<"box">>) EXCEPT !.x.rep = "BOX"]

layout_kind(c) == CASE c = "i" -> "int" [] c = "d" -> "flt" [] c = "b" -> "box"

\* The recipe of a nested product: a column's node, or a product's with one
\* for each field.
Leaf(col) == [col |-> col, id |-> None, kids |-> <<>>]
Product(kids) == [col |-> 0, id |-> None, kids |-> kids]

\* A parenthesised descriptor.  open holds the fields read so far of each
\* product still open.
tree_layout(s, spec) ==
  LET cols == SelectSeq(spec, LAMBDA c : c \notin {"(", ")"})
      Field(open, n) == Append(Front(open), Append(Last(open), n))
      Read(p, c) ==
        CASE c = "(" -> [p EXCEPT !.open = Append(@, <<>>)]
          [] c = ")" -> [p EXCEPT !.open = Field(Front(@), Product(Last(@)))]
          [] OTHER -> [open |-> Field(p.open, Leaf(p.col + 1)), col |-> p.col + 1]
      t == FoldLeft(Read, [open |-> <<<<>>>>, col |-> 0], spec)
  IN [vdir_alloc(s, [k \in DOMAIN cols |-> layout_kind(cols[k])])
        EXCEPT !.x.rep = "TREE", !.x.shape = t.open[1], !.b = @ + 1]

\* A declared layout; an empty descriptor declares none.
h_newAs(spec, b) ==
  LET s == h_new(b)
      kinds == [k \in DOMAIN spec |-> layout_kind(spec[k])]
      one == CASE spec = <<"d">> -> "FLT" [] spec = <<"i">> -> "INT" [] OTHER -> "BOX"
  IN IF spec = <<>> THEN s
     ELSE IF spec[1] = "(" THEN tree_layout(s, spec)
     ELSE [vdir_alloc(s, kinds) EXCEPT !.x.rep = IF Len(spec) = 1 THEN one ELSE "SOA"]

vhas_float(x) == \E k \in DOMAIN x.kinds : VK_FLOAT(x.kinds[k])

\* rep, identity and recipe of x.
vdir_like(s, x) ==
  LET t == [s EXCEPT !.x.rep = x.rep, !.x.id = x.id, !.x.shape = x.shape,
                     !.b = @ + (IF x.shape # <<>> THEN 1 ELSE 0)]
  IN IF x.kinds = <<>> THEN t ELSE vdir_alloc(t, x.kinds)

h_new_like(x, b) == vdir_like(h_new(b), x)

\* Mutant of NewFor: the layout is always inferred again.
new_inferred(x, b) == h_new(b)
\* What map and split build into: a layout with a float in it cannot be
\* inferred from the values.
NewFor(x, b) == IF vhas_float(x) THEN h_new_like(x, b) ELSE h_new(b)

-----------------------------------------------------------------------------
(* Rows. *)

\* A raw word is tagged as it is read, and loses its top bit.
get_cell(x, k, i) ==
  LET v == x.cols[k].cells[i]
  IN IF x.kinds[k] = "int" /\ v.tid = "int" THEN Num(Narrow(v.n)) ELSE v

\* The value a recipe's node makes of row i.
RECURSIVE tree_get(_, _, _)
tree_get(x, node, i) ==
  IF node.col > 0 THEN get_cell(x, node.col, i)
  ELSE Tup(node.id, "new", [k \in DOMAIN node.kids |-> tree_get(x, node.kids[k], i)])

\* Row i (from 1) as a value, made afresh when it is a product.
row_at(x, i) ==
  CASE x.rep = "TREE" -> tree_get(x, x.shape[1], i)
    [] x.rep = "SOA" -> Tup(x.id, "new", [k \in DOMAIN x.cols |-> get_cell(x, k, i)])
    [] OTHER -> get_cell(x, 1, i)
AllRows(x) == [i \in 1 .. x.len |-> row_at(x, i)]

\* Does v have a recipe's form?  A product has the identity of the first one
\* stored.
RECURSIVE Fits(_, _)
Fits(node, v) ==
  \/ node.col > 0
  \/ /\ v.tid = "tup" /\ node.id \in {None, v.id} /\ Len(v.f) = Len(node.kids)
     /\ \A k \in DOMAIN v.f : Fits(node.kids[k], v.f[k])

\* Its columns' values, and the recipe with its products named.
RECURSIVE tree_parts(_, _)
tree_parts(node, v) ==
  IF node.col > 0 THEN <<v>>
  ELSE FlattenSeq([k \in DOMAIN v.f |-> tree_parts(node.kids[k], v.f[k])])
RECURSIVE Named(_, _)
Named(node, v) ==
  IF node.col > 0 THEN node
  ELSE [node EXCEPT !.id = v.id,
                    !.kids = [k \in DOMAIN v.f |-> Named(node.kids[k], v.f[k])]]

\* What a push or a set stores of v, and the identity the vector then has.
Parted(x, v) ==
  LET p == [parts |-> <<>>, shape |-> x.shape, id |-> x.id, bad |-> FALSE]
      soa == v.tid = "tup" /\ (x.id = v.id \/ (x.id = None /\ Len(v.f) = Len(x.cols)))
  IN CASE x.rep = "TREE" /\ Fits(x.shape[1], v) ->
            [p EXCEPT !.parts = tree_parts(x.shape[1], v), !.shape = <<Named(@[1], v)>>]
       [] x.rep = "SOA" /\ soa -> [p EXCEPT !.parts = v.f, !.id = v.id]
       [] x.rep \in {"INT", "FLT", "BOX"} -> [p EXCEPT !.parts = <<v>>]
       [] OTHER -> [p EXCEPT !.bad = TRUE]

\* put_cell of every column: an Int column takes nothing but an Int.
put_cell(s, i, v) ==
  LET p == Parted(s.x, v)
      wrong == p.bad \/ \E k \in DOMAIN p.parts : s.x.kinds[k] = "int" /\ ~ISINT(p.parts[k])
      Cells(k) == IF i > Len(s.x.cols[k].cells) THEN Append(s.x.cols[k].cells, p.parts[k])
                  ELSE [s.x.cols[k].cells EXCEPT ![i] = p.parts[k]]
  IN IF wrong THEN Panic(s)
     ELSE [s EXCEPT !.x.cols = [k \in DOMAIN @ |-> [@[k] EXCEPT !.cells = Cells(k)]],
                    !.x.shape = p.shape, !.x.id = p.id]

Growing(x) == SelectSeq([k \in DOMAIN x.cols |-> k], LAMBDA k : x.cols[k].cap = x.len)

h_push(s, v) ==
  LET s1 == IF s.x.rep = "UNSET" THEN fix_layout(s, v) ELSE s
      s2 == FoldLeft(col_grow, s1, Growing(s1.x))
      s3 == put_cell(s2, s.x.len + 1, v)
  IN IF s.bad \/ s1.bad \/ s3.bad THEN Panic(s) ELSE [s3 EXCEPT !.x.len = @ + 1]
Pushed(s, vals) == FoldLeft(h_push, s, vals)

-----------------------------------------------------------------------------
(* Whole vectors. *)

\* Every piece of the base pool is freed, a piece anywhere else is not its
\* to free; the header forgets its columns.
vfree(s) ==
  [s EXCEPT !.b = @ - Pieces(s.x, "base"),
            !.x.kinds = <<>>, !.x.cols = <<>>, !.x.shape = <<>>, !.x.dir = None]

CapFor(len) == CHOOSE c \in {FirstCap * 2^j : j \in 0 .. len} :
                 c >= len /\ (c = FirstCap \/ c < 2 * len)
col_copy(c, len) ==
  IF len = 0 THEN NoCol ELSE [cap |-> CapFor(len), at |-> "base", cells |-> c.cells]
\* Vec.dup: every piece again.
vcopy(x, b) ==
  LET n == [x EXCEPT !.at = "base", !.dir = IF x.cols = <<>> THEN None ELSE "base",
                     !.cols = [k \in DOMAIN x.cols |-> col_copy(x.cols[k], x.len)]]
  IN [x |-> n, b |-> b + Pieces(n, "base"), bad |-> FALSE]

\* lo .. hi in one raw column, filled without a push each.
h_range(lo, hi, b) ==
  LET s == fix_layout(h_new(b), Num(lo))
      n == hi - lo + 1
      RECURSIVE Room(_)
      Room(t) == IF t.x.cols[1].cap >= n THEN t ELSE Room(col_grow(t, 1))
      full == Room(s)
  IN IF hi < lo THEN h_new(b)
     ELSE [full EXCEPT !.x.len = n, !.x.cols[1].cells = [i \in 1 .. n |-> Num(lo + i - 1)]]

h_iota(n, b) == Pushed(h_new(b), [i \in 1 .. n |-> Num(i - 1)])
h_fromListAs(spec, vals, b) == Pushed(h_newAs(spec, b), vals)

\* A vector built from vals, what the function gives for each row of a consumed one.
fpr_vec_map(vals, x, b) ==
  LET out == Pushed(NewFor(x, b), vals) IN [out EXCEPT !.b = @ - Pieces(x, "base")]
h_mapAs(spec, vals, x, b) ==
  LET out == Pushed(h_newAs(spec, b), vals) IN [out EXCEPT !.b = @ - Pieces(x, "base")]

\* The rows kept, numbered in keep, slide down; the spans keep their length.
fpr_vec_filter(keep, s) ==
  LET at == SelectSeq([i \in 1 .. s.x.len |-> i], LAMBDA i : i \in keep)
  IN [s EXCEPT !.x.len = Len(at),
               !.x.cols = [k \in DOMAIN @ |->
                             [@[k] EXCEPT !.cells = [i \in DOMAIN at |-> @[at[i]]]]]]

\* Two fresh vectors; the one split is freed.  b of the second counts both.
h_split(n, x, b) ==
  LET m == IF n < 0 THEN 0 ELSE Least(n, x.len)
      lo == Pushed(NewFor(x, b), SubSeq(AllRows(x), 1, m))
      hi == Pushed(NewFor(x, lo.b), SubSeq(AllRows(x), m + 1, x.len))
  IN <<lo, [hi EXCEPT !.b = @ - Pieces(x, "base")]>>

\* The words of an Int column, and the vector with others in their place.
Words(x) == [i \in 1 .. x.len |-> x.cols[1].cells[i].n]
WithWords(x, w) == [x EXCEPT !.cols[1].cells = [i \in DOMAIN w |-> Num(w[i])]]

h_slice(off, n, x, b) ==
  Pushed(h_new(b), [i \in 1 .. n |-> Num(Narrow(Words(x)[off + i]))])

\* vnum: a vector with rows is an Int column.  One without rows passes too,
\* and must at least have a column.
vnum(x) == x.cols # <<>> /\ (x.len > 0 => x.rep = "INT")
=============================================================================
