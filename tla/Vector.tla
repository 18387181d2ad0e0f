------------------------------- MODULE Vector -------------------------------
(***************************************************************************)
(* The vectors of one actor: what vec.c does to them (Columns), and what   *)
(* runtime.c does to them (Copy) when one is sent, received, kept, or      *)
(* crosses the turn of a compiler-placed loop or the end of a costly call. *)
(*                                                                         *)
(* Programs are linear: an operation that takes a vector ends its name,    *)
(* a name made outside a region is not used inside unless it was passed    *)
(* in, and the state of a turn or the result of a call is every vector     *)
(* the region still has.  The actor sends to itself: its own message slab  *)
(* and its own mailbox stand for any sender's and any receiver's.          *)
(*                                                                         *)
(* Places: "base", the actor's pool; "arena", the open region's; "held",   *)
(* a loop's transfer slab; "msg", the slab of the message received;        *)
(* "mail", the slab of the message on its way; "dead", memory given back.  *)
(***************************************************************************)
EXTENDS Copy

CONSTANTS
  Programs,  \* bound: what a program uses: [elem, vals, ops, names, len]
  MaxLen,    \* bound: rows
  LaneOps,   \* bound: operands of the numeric tier
  ZipOps,
  Limit      \* a bounded inbox's allowance

ASSUME VectorAssumption ==
  /\ MaxLen \in Nat /\ Limit \in Nat
  /\ \A p \in Programs : p.names \in Nat /\ p.len \in 0 .. MaxLen

VARIABLES
  prog,   \* the program
  hs,     \* its vectors, by name
  bulk,   \* pieces of vectors allocated from the base pool
  mail,   \* the message on its way: the copy, the words it took, the words
          \* measured before it, and what a bounded inbox charges for it
  root,   \* the message received: the name of its vector, or what is left of
          \* the vector in the slab when its name is used up
  reg,    \* the region open, and the names from outside it
  ans,    \* the rows the last operation answered with
  alive,
  rows    \* what each name's vector holds, worked out once a state (see Rows)
vars == <<prog, hs, bulk, mail, root, reg, ans, alive, rows>>

Handles == 1 .. 3
NoRegion == [kind |-> None, outer |-> {}]

Init ==
  /\ prog \in Programs
  /\ hs = [h \in Handles |-> None]
  /\ bulk = 0 /\ mail = None /\ root = None /\ reg = NoRegion
  /\ ans = <<>> /\ alive = TRUE
  /\ rows = hs

-----------------------------------------------------------------------------
(* The program. *)

Cur == IF reg.kind = None THEN "base" ELSE "arena"
Names == 1 .. prog.names
Uses(op) == alive /\ reg.kind # "ending" /\ op \in prog.ops
Mine(h) == h \in Names /\ h \notin reg.outer /\ hs[h] # None
MineAll == {h \in Names : Mine(h)}
NewName(h) == h \in Names /\ hs[h] = None /\ \A g \in 1 .. h - 1 : hs[g] # None

Pair(at, f) == Tup("P", at, f)
Elements2(elem, at) ==
  CASE elem = "Int"  -> <<Num(0), Num(1)>>
    [] elem = "Flt"  -> <<Flt(0), Flt(1)>>
    [] elem = "Box"  -> <<Str("a", at), Str("b", at)>>
    [] elem = "IntBox" -> <<Pair(at, <<Num(0), Str("a", at)>>), Pair(at, <<Num(1), Str("b", at)>>)>>
    [] elem = "IntFlt" -> <<Pair(at, <<Num(0), Flt(1)>>), Pair(at, <<Num(1), Flt(0)>>)>>
    [] elem = "Tree" -> <<Tup("R", at, <<Pair(at, <<Num(0), Flt(1)>>), Str("a", at)>>),
                          Tup("R", at, <<Pair(at, <<Num(1), Flt(0)>>), Str("b", at)>>)>>
\* The descriptors a checked program declares an element's layout with; none
\* only where the first value shows it.
Specs(elem) ==
  CASE elem = "Int"  -> {<<>>, <<"i">>}
    [] elem = "Flt"  -> {<<"d">>}
    [] elem = "Box"  -> {<<>>, <<"b">>}
    [] elem = "IntBox" -> {<<>>, <<"i", "b">>}
    [] elem = "IntFlt" -> {<<"i", "d">>}
    [] elem = "Tree" -> {<<"(", "(", "i", "d", ")", "b", ")">>}
Vals == {Elements2(prog.elem, Cur)[i] : i \in 1 .. prog.vals}
Lists == UNION {[1 .. n -> Vals] : n \in 0 .. prog.len}

\* The function programs map: a new value of the element's type.
RECURSIVE Stepped(_, _)
Stepped(v, at) ==
  CASE v.tid = "int" -> Num(Narrow(v.n + 1))
    [] v.tid = "flt" -> Flt(1 - v.low)
    [] v.tid = "str" -> Str(IF v.id = "a" THEN "b" ELSE "a", at)
    [] OTHER -> Tup(v.id, at, [i \in DOMAIN v.f |-> Stepped(v.f[i], at)])
RECURSIVE Keeps(_)
Keeps(v) ==
  CASE v.tid = "int" -> v.n % 2 = 0
    [] v.tid = "flt" -> v.low = 0
    [] v.tid = "str" -> v.id = "a"
    [] OTHER -> Keeps(v.f[1])

\* A value without the place it is at; memory given back holds none.
RECURSIVE Strip(_)
Strip(v) ==
  CASE v.tid = "str" -> Str(IF v.at = "dead" THEN "dead" ELSE v.id, "any")
    [] v.tid = "tup" -> Tup(v.id, "any", [i \in DOMAIN v.f |-> Strip(v.f[i])])
    [] OTHER -> v
Seen(x) == [i \in 1 .. x.len |-> Strip(row_at(x, i))]

-----------------------------------------------------------------------------
(* Results. *)

Store(h) == [x |-> hs[h], b |-> bulk, bad |-> FALSE]
\* What the slab of the message received holds of a vector it brought.
Left(r, gone) ==
  IF r # None /\ r.h \in gone
    THEN [r EXCEPT !.h = None, !.left = vfree(Store(r.h)).x] ELSE r

\* The actor ends, and why is its last answer.
Die(why) ==
  /\ alive' = FALSE /\ hs' = [h \in Handles |-> None] /\ bulk' = 0
  /\ mail' = None /\ root' = None /\ reg' = NoRegion /\ ans' = <<[tid |-> "end", why |-> why]>>
  /\ UNCHANGED prog

\* The names change, those in gone used up; s says what the pool then has.
Result(new, gone, s, a) ==
  IF s.bad THEN Die("panic")
  ELSE /\ hs' = new /\ bulk' = s.b /\ root' = Left(root, gone) /\ ans' = a
       /\ UNCHANGED <<prog, mail, reg, alive>>
Update(h, s) == Result([hs EXCEPT ![h] = s.x], {}, s, <<>>)
Rebuilt(h, s) == Result([hs EXCEPT ![h] = s.x], {h}, s, <<>>)
Answer(a) == ans' = a /\ UNCHANGED <<prog, hs, bulk, mail, root, reg, alive>>

-----------------------------------------------------------------------------
(* The operations of vec.c. *)

Make(h) ==
  /\ Uses("make") /\ NewName(h)
  /\ \/ \E spec \in Specs(prog.elem) : Update(h, h_newAs(spec, bulk))
     \/ \E spec \in Specs(prog.elem), vals \in Lists : Update(h, h_fromListAs(spec, vals, bulk))
     \/ /\ prog.elem = "Int"
        /\ \E lo \in -1 .. 0, n \in 0 .. prog.len : Update(h, h_range(lo, lo + n - 1, bulk))
     \/ prog.elem = "Int" /\ \E n \in 0 .. prog.len : Update(h, h_iota(n, bulk))

Push(h) ==
  /\ Uses("push") /\ Mine(h) /\ hs[h].len < prog.len
  /\ \E v \in Vals : Update(h, h_push(Store(h), v))

\* The bounds check of every indexed read and write (the index from 0).
InRange(x, i) == 0 <= i /\ i < x.len

\* Vec.get and Vec.at, with the vector in a pair or without.
h_get(h, i) ==
  /\ Uses("get") /\ Mine(h)
  /\ IF InRange(hs[h], i) THEN Answer(<<Strip(row_at(hs[h], i + 1))>>) ELSE Die("range")

\* Vec.set and Vec.put.
h_set(h, i) ==
  /\ Uses("get") /\ Mine(h)
  /\ IF InRange(hs[h], i) THEN \E v \in Vals : Update(h, put_cell(Store(h), i + 1, v)) ELSE Die("range")

h_len(h) == Uses("get") /\ Mine(h) /\ Answer(<<Num(hs[h].len)>>)

h_dup(h, g) ==
  /\ Uses("dup") /\ Mine(h) /\ NewName(g)
  /\ Update(g, vcopy(hs[h], bulk))

Map(h) ==
  /\ Uses("map") /\ Mine(h)
  /\ LET vals == [i \in 1 .. hs[h].len |-> Stepped(row_at(hs[h], i), Cur)]
     IN \/ Rebuilt(h, fpr_vec_map(vals, hs[h], bulk))
        \/ \E spec \in Specs(prog.elem) : Rebuilt(h, h_mapAs(spec, vals, hs[h], bulk))

Filter(h) ==
  /\ Uses("map") /\ Mine(h)
  /\ LET keep == {i \in 1 .. hs[h].len : Keeps(row_at(hs[h], i))}
     IN Update(h, fpr_vec_filter(keep, Store(h)))

fpr_vec_fold(h) == Uses("get") /\ Mine(h) /\ Answer(Seen(hs[h]))

\* A vector used up, its storage freed.
Consume(h, a) == Result([hs EXCEPT ![h] = None], {h}, vfree(Store(h)), a)
h_toList(h) == Uses("map") /\ Mine(h) /\ Consume(h, Seen(hs[h]))
h_free(h) == Uses("make") /\ Mine(h) /\ Consume(h, <<>>)

Split(h, g) ==
  /\ Uses("split") /\ Mine(h) /\ NewName(g)
  /\ \E n \in -1 .. prog.len + 1 :
       LET two == h_split(n, hs[h], bulk)
       IN Result([hs EXCEPT ![h] = two[1].x, ![g] = two[2].x], {h},
                 [two[2] EXCEPT !.bad = @ \/ two[1].bad], <<>>)

-----------------------------------------------------------------------------
(* The numeric tier.  An empty vector with no layout has no column for it  *)
(* to read: vnum asks for one.                                             *)

Lanes1(h) == Uses("lanes") /\ Mine(h) /\ vnum(hs[h])
OnLanes(h) ==
  /\ Lanes1(h)
  /\ \E op \in LaneOps :
       Update(h, [Store(h) EXCEPT !.x = WithWords(@, VS_BLOCKS(op, Words(@)))])

\* d has its new words, those in gone were consumed.
Merged(d, w, gone) ==
  LET b == bulk - AddUp([i \in 1 .. Cardinality(gone) |->
                           Pieces(hs[SetToSeq(gone)[i]], "base")])
  IN Result([h \in Handles |-> IF h \in gone THEN None
                               ELSE IF h = d THEN WithWords(hs[d], w) ELSE hs[h]],
            gone, [Store(d) EXCEPT !.b = b], <<>>)

OnTwo(d, s) ==
  /\ Lanes1(d) /\ Lanes1(s) /\ d # s /\ hs[d].len = hs[s].len
  /\ \E f \in ZipOps : Merged(d, VS_ZIP(f, Words(hs[d]), Words(hs[s])), {s})

Gather(x, s) ==
  /\ Lanes1(x) /\ Lanes1(s) /\ x # s
  /\ Merged(x, h_gather(Words(hs[x]), Words(hs[s])), {})

Blend(m, s, d) ==
  /\ Lanes1(m) /\ Lanes1(s) /\ Lanes1(d) /\ m # s /\ m # d /\ s # d
  /\ hs[m].len = hs[d].len /\ hs[s].len = hs[d].len
  /\ Merged(d, h_blend(Words(hs[m]), Words(hs[s]), Words(hs[d])), {m, s})

Slice(h, g) ==
  /\ Lanes1(h) /\ NewName(g)
  /\ \E off \in 0 .. prog.len, n \in 0 .. prog.len :
       off + n <= hs[h].len /\ Update(g, h_slice(off, n, hs[h], bulk))

Burst(s, d) ==
  /\ Lanes1(s) /\ Lanes1(d) /\ s # d
  /\ \E off \in 0 .. prog.len :
       /\ off + hs[s].len <= hs[d].len
       /\ Merged(d, h_burst(off, Words(hs[s]), Words(hs[d])), {s})

-----------------------------------------------------------------------------
(* Messages. *)

\* What programs send a vector in, and what they send without one.
Wraps(x, at) ==
  {x}
  \cup IF "wrap" \notin prog.ops THEN {} ELSE
  {Pair(at, <<x, Str("a", "static")>>),
   List(at, <<x>>, Nil("static")),
   List(at, <<Num(1), x>>, Nil(at)),
   Fn(at, "static", <<x, [tid |-> "actor"]>>)}
Others(at) ==
  {Tup("Result", "image", <<Str("a", "image")>>), Tup("Result", at, <<Str("a", "image")>>),
   Tup("Unit", "image", <<>>), Fn("image", "image", <<>>), Fn(at, "image", <<Num(0)>>),
   List(at, <<List(at, <<List(at, <<Str("a", at)>>, Nil(at))>>, Nil(at))>>, Nil("image"))}

\* Most copies go straight into the packing slab; a bounded inbox, and a
\* message too big for a slab of the usual size, are measured first.
Send(of, far, measured) ==
  LET c == [to |-> "mail", far |-> far, move |-> FALSE]
      r == dc_dup(of, c)
  IN IF Refused(of, c, measured) THEN Die("refused")
     ELSE /\ mail' = [far |-> far, msg |-> r.v, used |-> r.n, size |-> dc_size(of, c),
                      charge |-> fpr_msg_charge_to(of, Limit, c)]
          /\ ans' = IF has_vec(of) THEN <<>> ELSE ans
          /\ UNCHANGED <<prog, hs, bulk, root, reg, alive>>
SendVector ==
  /\ Uses("mail") /\ mail = None
  /\ \E h \in MineAll : \E of \in Wraps(hs[h], Cur) : Send(of, FALSE, FALSE)
SendOther ==
  /\ Uses("images") /\ mail = None
  /\ \E of \in Others(Cur), far, measured \in BOOLEAN : Send(of, far, measured)

\* Pieces and boxed elements, where(at) says where those at a place go.
RECURSIVE Move(_, _)
Move(v, where) ==
  LET To(at) == IF at \in DOMAIN where THEN where[at] ELSE at
      f == [i \in DOMAIN Fields(v) |-> Move(Fields(v)[i], where)]
      Cells(s) == [i \in DOMAIN s |-> Move(s[i], where)]
  IN CASE Plain(v) -> v
       [] v.tid = "vec" ->
            [v EXCEPT !.at = To(@), !.dir = To(@),
                      !.cols = [k \in DOMAIN @ |->
                                  [@[k] EXCEPT !.at = To(@), !.cells = Cells(@)]]]
       [] OTHER -> WithFields([v EXCEPT !.at = To(@)], f)
Moved(new, where) ==
  [h \in Handles |-> IF new[h] = None THEN None ELSE Move(new[h], where)]

Receive(h) ==
  /\ alive /\ reg.kind # "ending" /\ mail # None /\ root = None
  /\ LET vecs == VecsOf(Move(mail.msg, [mail |-> "msg"]))
         some == vecs # <<>>
     IN /\ NewName(h)
        /\ hs' = IF some THEN [hs EXCEPT ![h] = vecs[1]] ELSE hs
        /\ root' = [h |-> IF some THEN h ELSE None, left |-> Num(0), in |-> reg.kind # None]
        /\ ans' = IF some THEN <<>> ELSE ans
  /\ mail' = None
  /\ UNCHANGED <<prog, bulk, reg, alive>>

\* keep: a copy in the current pool.
g_keep(h, g) ==
  /\ Uses("mail") /\ Mine(h) /\ NewName(g)
  /\ LET x == kp_dup(hs[h], [to |-> Cur, far |-> FALSE, move |-> FALSE]).v
     IN Update(g, [x |-> x, b |-> bulk + Pieces(x, "base"), bad |-> FALSE])

\* What a root owns outside its slab when the last drop of it comes.
Rooted(new) == IF root.h = None THEN root.left ELSE new[root.h]
Reads(x, at) == x # None /\ Move(x, [a \in {at} |-> "no place"]) # x

\* Nothing a live name reads may be in the message.
Drop ==
  /\ Uses("mail") /\ root # None /\ (root.in = (reg.kind # None))
  /\ \A h \in Handles : h # root.h => ~Reads(hs[h], "msg")
  /\ hs' = IF root.h = None THEN hs ELSE [hs EXCEPT ![root.h] = None]
  /\ bulk' = dc_release(bulk, Rooted(hs))
  /\ ans' = IF root.h = None THEN ans ELSE <<>>
  /\ root' = None
  /\ UNCHANGED <<prog, mail, reg, alive>>

-----------------------------------------------------------------------------
(* Regions. *)

\* The names passed in are the region's, the others wait outside.
Open ==
  /\ Uses("turns") /\ reg.kind = None
  /\ \E kind \in {"loop", "call"}, passed \in SUBSET MineAll :
       reg' = [kind |-> kind, outer |-> MineAll \ passed]
  /\ UNCHANGED <<prog, hs, bulk, mail, root, ans, alive>>

Crossing == SetToSortSeq(MineAll, <)
State == Tup("state", "arena", [i \in DOMAIN Crossing |-> hs[Crossing[i]]])
Across(to) == [to |-> to, far |-> FALSE, move |-> TRUE]
Placed(v) == [h \in Handles |->
                IF h \in MineAll THEN v.f[SelectInSeq(Crossing, LAMBDA g : g = h)] ELSE hs[h]]
Received == root # None /\ root.in
\* The message's vector was copied out and the original freed.
Crossed == Left(root, {h \in MineAll : ~vec_movable_here(hs[h])})

\* The turn ends: the state is copied, its vectors that were copied are
\* freed, the messages of the turn die, and the arena and the state of the
\* turn before with them.
Boundary ==
  /\ alive /\ reg.kind = "loop"
  /\ LET after == Placed(dc_dup(State, Across("next")).v)
         b == vec_release_in(bulk, State)
         died == IF Received THEN {"arena", "held", "msg"} ELSE {"arena", "held"}
     IN /\ hs' = Moved(after, [at \in died \cup {"next"} |->
                                      IF at = "next" THEN "held" ELSE "dead"])
        /\ bulk' = IF Received THEN dc_release(b, Crossed.left) ELSE b
        /\ root' = IF Received THEN None ELSE Crossed
  /\ reg' \in {reg, [reg EXCEPT !.kind = "ending"]}
  /\ UNCHANGED <<prog, mail, ans, alive>>

\* The loop is over: its last state is copied out of the slab it is in.
LoopEnd ==
  /\ alive /\ reg.kind = "ending"
  /\ LET out == kp_dup(State, Across("next")).v
         new == AddUp([i \in DOMAIN out.f |-> Pieces(out.f[i], "next")])
     IN /\ hs' = Moved(Placed(out), [arena |-> "dead", held |-> "dead", next |-> "base"])
        /\ bulk' = bulk + new
  /\ reg' = NoRegion
  /\ UNCHANGED <<prog, mail, root, ans, alive>>

\* A call's end.  A result large beside its arena takes the arena's slabs
\* along into the pool outside.
CallEnd ==
  /\ alive /\ reg.kind = "call"
  /\ \/ /\ ~Received /\ kp_reaches(State, 1, Across("next")) < 0
        /\ hs' = Moved(hs, [arena |-> "base"])
        /\ bulk' = bulk + AddUp([i \in DOMAIN Crossing |-> Pieces(hs[Crossing[i]], "arena")])
        /\ root' = root
     \/ LET out == kp_dup(State, Across("next")).v
            b == vec_release_in(bulk + AddUp([i \in DOMAIN out.f |-> Pieces(out.f[i], "next")]), State)
            died == IF Received THEN {"arena", "msg"} ELSE {"arena"}
        IN /\ hs' = Moved(Placed(out), [at \in died \cup {"next"} |->
                                               IF at = "next" THEN "base" ELSE "dead"])
           /\ bulk' = IF Received THEN dc_release(b, Crossed.left) ELSE b
           /\ root' = IF Received THEN None ELSE Crossed
  /\ reg' = NoRegion
  /\ UNCHANGED <<prog, mail, ans, alive>>

Step ==
  \/ \E h \in Handles :
       \/ Make(h) \/ Push(h) \/ h_len(h) \/ Map(h) \/ Filter(h) \/ fpr_vec_fold(h)
       \/ h_toList(h) \/ h_free(h) \/ OnLanes(h) \/ Receive(h)
       \/ \E i \in -1 .. prog.len : h_get(h, i) \/ h_set(h, i)
  \/ \E h, g \in Handles :
       \/ h_dup(h, g) \/ Split(h, g) \/ OnTwo(h, g) \/ Gather(h, g) \/ Slice(h, g)
       \/ Burst(h, g) \/ g_keep(h, g)
  \/ \E m, s, d \in Handles : Blend(m, s, d)
  \/ SendVector \/ SendOther \/ Drop
  \/ Open \/ Boundary \/ LoopEnd \/ CallEnd

RowsOf(x) ==
  IF x = None THEN None
  ELSE IF x.rep = "INT" THEN [i \in 1 .. x.len |-> x.cols[1].cells[i]] ELSE Seen(x)
Next == Step /\ rows' = [h \in Handles |-> RowsOf(hs'[h])]

Spec == Init /\ [][Next]_vars

-----------------------------------------------------------------------------
(* Properties. *)

\* Every vector is whole: each column has the rows the vector has, a cell of
\* the kind the directory says, and room for them (vec.c).
Whole(x) ==
  /\ Len(x.kinds) = Len(x.cols)
  /\ \A k \in DOMAIN x.cols :
       /\ Len(x.cols[k].cells) = x.len /\ x.len <= x.cols[k].cap
       /\ x.kinds[k] = "int" => \A i \in 1 .. x.len : ISINT(x.cols[k].cells[i])

\* Every span, record and directory the base pool has given a vector is part
\* of exactly one vector some name still owns, none is lost and none freed
\* twice, a vector whose header is in the base pool is there altogether, and
\* nothing a name can reach is in memory that was given back (vec.c vfree,
\* runtime.c dc_release, vec_release_in, vec_movable_here).
StoreExact ==
  /\ bulk = AddUp([h \in Handles |-> IF hs[h] = None THEN 0 ELSE Pieces(hs[h], "base")])
  /\ \A h \in Handles : hs[h] # None =>
       /\ Whole(hs[h])
       /\ ~Reads(hs[h], "dead")
       /\ hs[h].at = "base" =>
            /\ hs[h].dir \in {None, "base"}
            /\ \A k \in DOMAIN hs[h].cols : hs[h].cols[k].at \in {None, "base"}

RECURSIVE Depth(_)
Depth(v) ==
  LET s == CASE v.tid = "vec" -> Boxed(v) [] v.tid = "list" -> v.heads [] OTHER -> Fields(v)
      d == [i \in DOMAIN s |-> Depth(s[i])]
      below == FoldLeft(Most, 0, d)
  IN IF Plain(v) THEN 0 ELSE 1 + (IF s = <<>> THEN 0 ELSE below)

\* Where every cell of a copy is.
RECURSIVE PlacesOf(_)
PlacesOf(v) ==
  IF Plain(v) THEN {}
  ELSE {v.at}
       \cup (IF v.tid = "vec"
               THEN {v.dir} \cup {v.cols[k].at : k \in DOMAIN v.cols}
                    \cup UNION {PlacesOf(Boxed(v)[i]) : i \in DOMAIN Boxed(v)}
               ELSE UNION {PlacesOf(Fields(v)[i]) : i \in DOMAIN Fields(v)})

\* A message takes exactly the words the walk before it measured, so it fits
\* the slab made for it, and a bounded inbox is charged exactly that, or
\* refuses what is too large or too deep; the copy reads nothing outside its
\* slab that can die before it; and a turn's state fits its transfer slab
\* (runtime.c dc_size_in, dc_budget, dc_dup, transfer_copy_in).
CopiesFit ==
  /\ mail # None =>
       LET fits == mail.used <= Limit /\ Depth(mail.msg) <= MaxDepth + 1
       IN /\ mail.used = mail.size
          /\ mail.charge = IF fits THEN mail.used ELSE -1
          /\ PlacesOf(mail.msg) \subseteq
               {"mail", "static", None} \cup (IF mail.far THEN {} ELSE {"image"})
  /\ alive => dc_dup(State, Across("next")).n = dc_size(State, Across("next"))

\* No message brings a receiver a function of another process's image
\* (docs/2026-10-01-PROCESS-IMAGES.md:37, "a static closure, or a heap closure
\* whose code is in the image": refused).
NoForeignCode ==
  (mail # None /\ mail.far /\ mail.msg.tid = "fn") => mail.msg.code # "image"

StepRow(v) == Stepped(v, "any")
MailRows == IF mail = None \/ ~has_vec(mail.msg) THEN None ELSE RowsOf(VecsOf(mail.msg)[1])
AnyValues == {Num(-1)} \cup UNION {{Elements2(p.elem, "any")[i] : i \in 1 .. 2} : p \in Programs}
R == INSTANCE Rows WITH mail <- MailRows, Values <- AnyValues, Step <- StepRow
\* A program's vectors are sequences of rows that change by the operation it
\* asked for and by nothing else (vec.c, and runtime.c's copies around it).
ImplementsRows == R!Spec
=============================================================================
