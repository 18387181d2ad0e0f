-------------------------------- MODULE Rows --------------------------------
(***************************************************************************)
(* What a Vector is to the program that owns it: a sequence of rows under  *)
(* a name, used up by the operations that take it and by no others,        *)
(* whatever its layout, wherever its storage, and however many turns,      *)
(* messages and regions it has crossed.                                    *)
(*                                                                         *)
(* The rows of an Int vector are machine words; a program reads one as an  *)
(* Int, a bit narrower (see Lanes).                                        *)
(***************************************************************************)
EXTENDS Lanes

CONSTANTS
  Handles,
  MaxLen,
  Values,     \* the elements programs push
  LaneOps,    \* the operations on one column, with their operands
  ZipOps,     \* the operations on two
  Step(_),    \* the function programs map
  Keeps(_),   \* the predicate they filter by
  None

VARIABLES rows, ans, mail, alive
vars == <<rows, ans, mail, alive>>

Init ==
  /\ rows = [h \in Handles |-> None]
  /\ ans = <<>> /\ mail = None /\ alive = TRUE

Seen(r) == IF r.tid = "int" THEN [r EXCEPT !.n = Narrow(@)] ELSE r
AllSeen(s) == [i \in DOMAIN s |-> Seen(s[i])]
WordsOf(s) == [i \in DOMAIN s |-> s[i].n]
Nums(w) == [i \in DOMAIN w |-> [tid |-> "int", n |-> w[i]]]
IntRows(h) == \A i \in DOMAIN rows[h] : rows[h][i].tid = "int"

Owned(h) == alive /\ rows[h] # None
Unused(h) == alive /\ rows[h] = None
Becomes(new, a) == rows' = new /\ ans' = a /\ UNCHANGED <<mail, alive>>
Set(h, s) == Becomes([rows EXCEPT ![h] = s], <<>>)
Answer(a) == Becomes(rows, a)

Make(h) ==
  /\ Unused(h)
  /\ rows'[h] # None /\ Len(rows'[h]) <= MaxLen
  /\ rows'[h] \in [1 .. Len(rows'[h]) -> Values]
  /\ Set(h, rows'[h])

Push(h) == Owned(h) /\ \E v \in Values : Set(h, Append(rows[h], v))

Get(h) ==
  /\ Owned(h)
  /\ \E i \in DOMAIN rows[h] : Answer(<<Seen(rows[h][i])>>)

Put(h) ==
  /\ Owned(h)
  /\ \E i \in DOMAIN rows[h], v \in Values : Set(h, [rows[h] EXCEPT ![i] = v])

Length(h) == Owned(h) /\ Answer(Nums(<<Len(rows[h])>>))

Dup(h, g) == Owned(h) /\ Unused(g) /\ Set(g, rows[h])

Map(h) == Owned(h) /\ Set(h, [i \in DOMAIN rows[h] |-> Step(Seen(rows[h][i]))])

Filter(h) == Owned(h) /\ Set(h, SelectSeq(rows[h], LAMBDA r : Keeps(Seen(r))))

Fold(h) == Owned(h) /\ Answer(AllSeen(rows[h]))

ToList(h) == Owned(h) /\ Becomes([rows EXCEPT ![h] = None], AllSeen(rows[h]))

Split(h, g) ==
  /\ Owned(h) /\ Unused(g)
  /\ \E n \in 0 .. Len(rows[h]) :
       Becomes([rows EXCEPT ![h] = AllSeen(SubSeq(rows[h], 1, n)),
                            ![g] = AllSeen(SubSeq(rows[h], n + 1, Len(rows[h])))], <<>>)

Free(h) == Owned(h) /\ Set(h, None)

OnLanes(h) ==
  /\ Owned(h) /\ IntRows(h)
  /\ \E op \in LaneOps : Set(h, Nums(VS_BLOCKS(op, WordsOf(rows[h]))))

OnTwo(d, s) ==
  /\ Owned(d) /\ Owned(s) /\ d # s /\ IntRows(d) /\ IntRows(s)
  /\ Len(rows[d]) = Len(rows[s])
  /\ \E f \in ZipOps :
       Becomes([rows EXCEPT ![d] = Nums(VS_ZIP(f, WordsOf(rows[d]), WordsOf(rows[s]))),
                            ![s] = None], <<>>)

Gather(x, s) ==
  /\ Owned(x) /\ Owned(s) /\ x # s /\ IntRows(x) /\ IntRows(s)
  /\ Set(x, Nums(h_gather(WordsOf(rows[x]), WordsOf(rows[s]))))

Blend(m, s, d) ==
  /\ Owned(m) /\ Owned(s) /\ Owned(d) /\ m # s /\ m # d /\ s # d
  /\ IntRows(m) /\ IntRows(s) /\ IntRows(d)
  /\ Len(rows[m]) = Len(rows[d]) /\ Len(rows[s]) = Len(rows[d])
  /\ Becomes([rows EXCEPT ![d] = Nums(h_blend(WordsOf(rows[m]), WordsOf(rows[s]), WordsOf(rows[d]))),
                          ![m] = None, ![s] = None], <<>>)

Slice(h, g) ==
  /\ Owned(h) /\ Unused(g) /\ IntRows(h)
  /\ \E off \in 0 .. Len(rows[h]) : \E n \in 0 .. Len(rows[h]) - off :
       Set(g, AllSeen(SubSeq(rows[h], off + 1, off + n)))

Burst(s, d) ==
  /\ Owned(s) /\ Owned(d) /\ s # d /\ IntRows(s) /\ IntRows(d)
  /\ \E off \in 0 .. Len(rows[d]) - Len(rows[s]) :
       Becomes([rows EXCEPT ![d] = Nums(h_burst(off, WordsOf(rows[s]), WordsOf(rows[d]))),
                            ![s] = None], <<>>)

\* The sender keeps what it sends.  A vector taken from a message is the
\* receiver's until the message is dropped.
Send(h) == Owned(h) /\ mail = None /\ mail' = rows[h] /\ ans' = <<>> /\ UNCHANGED <<rows, alive>>
Receive(h) ==
  /\ Unused(h) /\ mail # None
  /\ rows' = [rows EXCEPT ![h] = mail] /\ mail' = None /\ ans' = <<>> /\ UNCHANGED alive

\* The actor ends for an index out of range or a message that cannot be
\* sent, never for the values it pushed.
End ==
  /\ alive /\ alive' = FALSE
  /\ rows' = [h \in Handles |-> None] /\ mail' = None
  /\ \E why \in {"range", "refused"} : ans' = <<[tid |-> "end", why |-> why]>>

Next ==
  \/ End
  \/ \E h \in Handles :
       \/ Make(h) \/ Push(h) \/ Get(h) \/ Put(h) \/ Length(h) \/ Map(h) \/ Filter(h)
       \/ Fold(h) \/ ToList(h) \/ Free(h) \/ OnLanes(h) \/ Send(h) \/ Receive(h)
  \/ \E h, g \in Handles :
       Dup(h, g) \/ Split(h, g) \/ OnTwo(h, g) \/ Gather(h, g) \/ Slice(h, g) \/ Burst(h, g)
  \/ \E m, s, d \in Handles : Blend(m, s, d)

Spec == Init /\ [][Next]_vars
=============================================================================
