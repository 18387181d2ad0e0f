-------------------------- MODULE HostWatchProofs ---------------------------
(***************************************************************************)
(* The proofs about module Host, continued: the descriptor watcher and its *)
(* service (WatchSound), for any number of clients, descriptors, asks,     *)
(* arrivals and deadlines.                                                 *)
(*                                                                         *)
(* WaitsInv says of each client that its step, its messages and its        *)
(* answers fit what the service keeps (ClientsFit); of the thread that     *)
(* while its snapshot is current it is the armed set (Snapshot); of a      *)
(* service at its mailbox that the armed set is what it keeps, or an       *)
(* interrupt is on its way or was given up (InSync); and that the          *)
(* readiness service answers a success only where the descriptor has been  *)
(* ready since the client asked (Seen).                                    *)
(*                                                                         *)
(* InSync rests on the order of the thread's steps, disarm and then raise, *)
(* and on the waker being bound from before the service is ready until it  *)
(* has unbound (WakerReached): so the irq hart giving up the last          *)
(* interrupt of the watcher's source is the one way to lose it.            *)
(***************************************************************************)
EXTENDS HostProofs, SequenceTheorems

-----------------------------------------------------------------------------
(* The waits: the invariant                                                *)

\* how a wait ends, and the answers a client may be sent, in order
Outcomes == {"ok", "err"}
Ends == {<<"ok">>, <<"err">>}
Admitted == {<<"admitted", "ok">>, <<"admitted", "err">>}
Closed == {<<"retired">>, <<"ok", "retired">>, <<"err", "retired">>}

\* where a client's wait is: cp its step, b its messages to the service, n the
\* answers to it, e whether the service keeps it, r whether its removal waits for
\* an acknowledgement, f whether it was found
Fits(ready, over, cp, b, n, e, r, f) ==
    \/ cp = "idle" /\ n = <<>> /\ ~e /\ ~r /\ (b = <<>> \/ over)
    \/ ready /\ cp = "sent" /\ ~r /\ b = <<"register">> /\ n = <<>> /\ ~e
    \/ ready /\ cp = "sent" /\ ~r /\ b = <<>> /\ n = <<"refused">> /\ ~e
    \/ ready /\ cp = "sent" /\ ~r /\ b = <<>> /\ n = <<"admitted">> /\ e
    \/ ready /\ cp = "sent" /\ ~r /\ b = <<>> /\ n \in Admitted /\ ~e
    \/ cp = "ticket" /\ ~r /\ b = <<>> /\ n = <<>> /\ e
    \/ cp = "ticket" /\ ~r /\ b = <<>> /\ n \in Ends /\ ~e
    \/ ~ready /\ cp = "ticket" /\ ~r /\ b = <<"register">> /\ n = <<>> /\ ~e
    \/ ready /\ cp = "cancel" /\ ~r /\ b = <<"retire">> /\ n = <<>>
    \/ ready /\ cp = "cancel" /\ ~r /\ b = <<"retire">> /\ n \in Ends /\ ~e
    \/ ready /\ cp = "cancel" /\ r /\ b = <<>> /\ ~e /\ n = <<>>
    \/ ready /\ cp = "cancel" /\ r /\ b = <<>> /\ ~e /\ n \in Ends /\ ~f
    \/ ready /\ cp = "cancel" /\ ~r /\ b = <<>> /\ ~e /\ n \in Closed

\* each client's step, messages and answers fit what the service keeps of it
ClientsFit ==
    \A c \in Clients :
        Fits(Readiness, svc.mode = "end", client[c].pc, box[c], note[c], c \in svc.entries,
             svc.reply = c, svc.found)

\* a service that has not begun or is stopping keeps nothing; an acknowledgement is owed only
\* between a removal and the arm after it
Ending ==
    /\ (svc.mode \in {"off", "binding"} \/ Stopping) => svc.entries = {}
    /\ Stopping => stop = "taken"
    /\ svc.reply # NoOne => Readiness /\ svc.mode = "drain"
    /\ svc.mode = "end" /\ ~Readiness => \A c \in Clients : box[c] = <<>>

\* the thread's snapshot, while it is current, is the armed set
Snapshot ==
    /\ thread.pc \in {"poll", "back"} /\ thread.current =>
          watcher.armed /\ thread.set = watcher.want /\ thread.deadline = watcher.deadline
    /\ svc.mode = "binding" => ~watcher.armed
    /\ PollInterrupted

\* the service is about to hear of what is not armed, unless that interrupt was given up
Covered == Coming \/ watcher.irq \in dropped

\* a service waiting for messages has told the watcher what it keeps, or is about to hear of it
InSync ==
    svc.mode = "recv" /\ Watched =>
        /\ watcher.armed => FdsOf(svc.entries) = watcher.want
                            /\ (Readiness => watcher.deadline = Nearest(svc.entries))
        /\ svc.entries # {} => watcher.armed \/ Covered

\* whoever waits for data that is there has seen it arrive
SeenData == \A c \in Clients : client[c].pc # "idle" /\ FdOf(c) \in data => since[c]

\* so has whoever the readiness service would answer
SeenReady ==
    Readiness /\ svc.mode = "recv" =>
        \A c \in svc.entries :
            /\ FdOf(c) \in watcher.ready => since[c]
            /\ thread.pc = "back" /\ thread.current /\ FdOf(c) \in thread.got => since[c]

\* every success is deserved: answered or about to be
Seen == SeenData /\ SeenReady /\ (~Watched => watcher.ready = {}) /\ Fresh

\* The inductive invariant of the waits.
WaitsInv == ClientsFit /\ Ending /\ Snapshot /\ InSync /\ Seen

-----------------------------------------------------------------------------
(* Short sequences of answers                                              *)

\* a pair made by Append
LEMMA PairSeq ==
  ASSUME NEW x, NEW y
  PROVE  Append(<<x>>, y) = <<x, y>>
<1> DEFINE S == {x, y}
<1>1. <<x>> \in Seq(S) /\ <<x, y>> \in Seq(S) /\ Append(<<x>>, y) \in Seq(S)
  OBVIOUS
<1>2. Len(Append(<<x>>, y)) = 2 /\ Len(<<x, y>>) = 2
  BY <1>1
<1>3. Append(<<x>>, y)[1] = x /\ Append(<<x>>, y)[2] = y
  BY <1>1
<1>4. \A i \in 1 .. 2 : Append(<<x>>, y)[i] = <<x, y>>[i]
  BY <1>3
<1> HIDE DEF S
<1> QED BY <1>1, <1>2, <1>4, SeqEqual

\* the ends of short sequences
LEMMA ShortSeqs ==
  /\ \A x : Append(<<>>, x) = <<x>> /\ Head(<<x>>) = x /\ Tail(<<x>>) = <<>> /\ <<x>> # <<>>
  /\ \A x, y : Append(<<x>>, y) = <<x, y>> /\ Head(<<x, y>>) = x /\ Tail(<<x, y>>) = <<y>> /\ <<x, y>> # <<>>
  /\ \A x, y, z : <<x>> # <<y, z>>
<1>1. \A x : Append(<<>>, x) = <<x>> /\ Head(<<x>>) = x /\ Tail(<<x>>) = <<>> /\ <<x>> # <<>>
  OBVIOUS
<1>2. \A x, y : Append(<<x>>, y) = <<x, y>>
  BY PairSeq
<1>3. \A x, y : Head(<<x, y>>) = x /\ Tail(<<x, y>>) = <<y>> /\ <<x, y>> # <<>>
  OBVIOUS
<1>4. \A x, y, z : <<x>> # <<y, z>>
  OBVIOUS
<1> QED BY <1>1, <1>2, <1>3, <1>4

\* a wait that ends fits
LEMMA FitsDone ==
  ASSUME NEW ready \in BOOLEAN, NEW over \in BOOLEAN, NEW cp, NEW b, NEW n, NEW r \in BOOLEAN, NEW f,
         Fits(ready, over, cp, b, n, TRUE, r, f), NEW w \in Outcomes
  PROVE  Fits(ready, over, cp, b, Append(n, w), FALSE, r, f)
<1>1. n = <<>> => Append(n, w) \in Ends
  BY ShortSeqs DEF Ends, Outcomes
<1>2. n = <<"admitted">> => Append(n, w) \in Admitted
  BY ShortSeqs DEF Admitted, Outcomes
<1>3. CASE cp = "sent"
  <2>1. ready /\ ~r /\ b = <<>> /\ n = <<"admitted">>
    BY <1>3 DEF Fits
  <2> QED BY <2>1, <1>2, <1>3 DEF Fits
<1>4. CASE cp # "sent"
  <2>1. /\ n = <<>> /\ cp \in {"ticket", "cancel"} /\ ~r
        /\ cp = "ticket" => b = <<>>
        /\ cp = "cancel" => ready /\ b = <<"retire">>
    BY <1>4 DEF Fits
  <2>2. Append(n, w) \in Ends
    BY <2>1, <1>1
  <2> QED BY <2>1, <2>2 DEF Fits
<1> QED BY <1>3, <1>4

\* a removal that is acknowledged fits
LEMMA FitsAcknowledged ==
  ASSUME NEW ready \in BOOLEAN, NEW over \in BOOLEAN, NEW cp, NEW b, NEW n, NEW e \in BOOLEAN, NEW f \in BOOLEAN,
         Fits(ready, over, cp, b, n, e, TRUE, f), NEW g \in BOOLEAN
  PROVE  /\ ~e
         /\ f => Fits(ready, over, cp, b, Append(Append(n, "err"), "retired"), e, FALSE, g)
         /\ ~f => Fits(ready, over, cp, b, Append(n, "retired"), e, FALSE, g)
<1>1. /\ ready /\ cp = "cancel" /\ b = <<>> /\ ~e
      /\ n = <<>> \/ (n \in Ends /\ ~f)
  BY DEF Fits
<1>2. CASE f
  <2>1. Append(Append(n, "err"), "retired") = <<"err", "retired">>
    BY <1>1, <1>2, ShortSeqs
  <2> QED BY <2>1, <1>1, <1>2 DEF Fits, Closed
<1>3. CASE ~f
  <2>1. Append(n, "retired") \in Closed
    <3>1. Append(<<>>, "retired") \in Closed
      BY ShortSeqs DEF Closed
    <3>2. Append(<<"ok">>, "retired") \in Closed
      BY ShortSeqs DEF Closed
    <3>3. Append(<<"err">>, "retired") \in Closed
      BY ShortSeqs DEF Closed
    <3>4. n \in {<<>>, <<"ok">>, <<"err">>}
      BY <1>1, <1>3 DEF Ends
    <3> QED BY <3>1, <3>2, <3>3, <3>4
  <2> QED BY <2>1, <1>1, <1>3 DEF Fits
<1> QED BY <1>2, <1>3

-----------------------------------------------------------------------------
(* ClientsFit and Ending                                                   *)

\* what the steps of a program with waits start from
Waiting == Routed /\ WaitsInv

\* where client c is
Placed(c) == Fits(Readiness, svc.mode = "end", client[c].pc, box[c], note[c], c \in svc.entries, svc.reply = c, svc.found)

\* the types it gives, and each client's place
LEMMA WaitFacts ==
  ASSUME Waiting
  PROVE  /\ svc \in ServiceT /\ svc.entries \in SUBSET Clients /\ box \in BoxT /\ note \in NoteT
         /\ client \in [Clients -> ClientT] /\ watcher \in WatcherT /\ thread \in ThreadT
         /\ Readiness \in BOOLEAN /\ svc.found \in BOOLEAN /\ WTypes
         /\ \A c \in Clients : Placed(c) /\ (c \in svc.entries => client[c].pc # "idle")
<1>1. /\ svc \in ServiceT /\ svc.entries \in SUBSET Clients /\ box \in BoxT /\ note \in NoteT
      /\ client \in [Clients -> ClientT] /\ watcher \in WatcherT /\ thread \in ThreadT
      /\ Readiness \in BOOLEAN /\ svc.found \in BOOLEAN /\ WTypes
  BY DEF Waiting, Routed, WTypes, ServiceT, Readiness
<1>2. \A c \in Clients : Placed(c)
  BY DEF Waiting, WaitsInv, ClientsFit, Placed
<1>3. \A c \in Clients : c \in svc.entries => client[c].pc # "idle"
  BY <1>2 DEF Placed, Fits
<1> QED BY <1>1, <1>2, <1>3

\* clients and service stand still
LEMMA FitFrame ==
  ASSUME Waiting, UNCHANGED <<client, box, note>>, svc'.kind = svc.kind, svc'.entries = svc.entries,
         svc'.reply = svc.reply, svc'.found = svc.found, svc'.mode = "end" \/ svc.mode # "end"
  PROVE  ClientsFit'
<1>1. ASSUME NEW c \in Clients PROVE Placed(c)'
  <2>1. Placed(c)
    BY WaitFacts
  <2>2. CASE svc'.mode = "end"
    BY <2>1, <2>2 DEF Placed, Readiness, Fits
  <2>3. CASE svc'.mode # "end"
    BY <2>1, <2>3 DEF Placed, Readiness
  <2> QED BY <2>2, <2>3
<1> QED BY <1>1 DEF ClientsFit, Placed

\* some of the waits kept are answered
LEMMA AnsweredFit ==
  ASSUME Waiting, svc.mode # "end", svc'.mode # "end", svc'.kind = svc.kind, svc'.reply = svc.reply,
         svc'.found = svc.found, UNCHANGED <<client, box>>,
         \A c \in Clients :
            \/ c \in svc.entries /\ c \notin svc'.entries /\ \E w \in Outcomes : note'[c] = Append(note[c], w)
            \/ (c \in svc'.entries <=> c \in svc.entries) /\ note'[c] = note[c]
  PROVE  ClientsFit'
<1>1. ASSUME NEW c \in Clients PROVE Placed(c)'
  <2>0. Placed(c)
    BY WaitFacts
  <2>1. CASE (c \in svc'.entries <=> c \in svc.entries) /\ note'[c] = note[c]
    BY <2>0, <2>1 DEF Placed, Readiness
  <2>2. ASSUME NEW w \in Outcomes, c \in svc.entries, c \notin svc'.entries, note'[c] = Append(note[c], w)
        PROVE  Placed(c)'
    <3>1. Fits(Readiness, FALSE, client[c].pc, box[c], note[c], TRUE, svc.reply = c, svc.found)
      BY <2>0, <2>2 DEF Placed
    <3>2. (svc.reply = c) \in BOOLEAN /\ FALSE \in BOOLEAN /\ Readiness \in BOOLEAN
      BY WaitFacts
    <3>3. Fits(Readiness, FALSE, client[c].pc, box[c], Append(note[c], w), FALSE, svc.reply = c, svc.found)
      BY <3>1, <3>2, FitsDone
    <3> QED BY <2>2, <3>3 DEF Placed, Readiness, Fits
  <2> QED BY <2>1, <2>2
<1> QED BY <1>1 DEF ClientsFit, Placed

\* what settling leaves
LEMMA SettledIs ==
  ASSUME WTypes, NEW ready, Settle(svc.entries, ready)
  PROVE  /\ svc' \in ServiceT /\ svc'.kind = svc.kind /\ svc'.mode = "drain" /\ svc'.reply = svc.reply
         /\ svc'.found = svc.found
         /\ \A c \in Clients :
              \/ /\ c \in svc.entries /\ c \notin svc'.entries
                 /\ \/ note'[c] = Append(note[c], "err")
                    \/ note'[c] = Append(note[c], "ok") /\ FdOf(c) \in ready
              \/ (c \in svc'.entries <=> c \in svc.entries) /\ note'[c] = note[c]
<1>1. PICK kept : kept = svc.entries \ (TimedOut(svc.entries) \union Matched(svc.entries, ready))
  OBVIOUS
<1>2. svc' = [svc EXCEPT !.entries = kept, !.mode = "drain"] /\ kept \in SUBSET Clients /\ svc \in ServiceT
  BY <1>1 DEF Settle, WTypes, ServiceT
<1>3. /\ svc' \in ServiceT /\ svc'.kind = svc.kind /\ svc'.mode = "drain" /\ svc'.reply = svc.reply
      /\ svc'.found = svc.found /\ svc'.entries = kept
  BY <1>2 DEF ServiceT
<1>4. \A c \in Clients :
        /\ c \in TimedOut(svc.entries) => c \in svc.entries /\ c \notin Matched(svc.entries, ready)
        /\ c \in Matched(svc.entries, ready) => c \in svc.entries /\ FdOf(c) \in ready
  BY DEF TimedOut, Matched
<1>5. \A c \in Clients :
        /\ c \in TimedOut(svc.entries) => note'[c] = Append(note[c], "err")
        /\ c \in Matched(svc.entries, ready) => note'[c] = Append(note[c], "ok")
        /\ c \notin TimedOut(svc.entries) \union Matched(svc.entries, ready) => note'[c] = note[c]
  BY <1>4 DEF Settle, Told
<1> QED BY <1>1, <1>3, <1>4, <1>5

\* what arming leaves of the notes
LEMMA AcknowledgedIs ==
  ASSUME WTypes, NEW cs, NEW c \in Clients, note' = Acknowledged(Told(note, cs, "err"))
  PROVE  /\ c # svc.reply => note'[c] = IF c \in cs THEN Append(note[c], "err") ELSE note[c]
         /\ c = svc.reply /\ c \notin cs =>
              note'[c] = Append(IF svc.found THEN Append(note[c], "err") ELSE note[c], "retired")
<1>1. PICK n : n = Told(note, cs, "err")
  OBVIOUS
<1>2. n[c] = IF c \in cs THEN Append(note[c], "err") ELSE note[c]
  BY <1>1 DEF Told
<1>3. CASE svc.reply = NoOne
  BY <1>1, <1>2, <1>3, WatchAssumption DEF Acknowledged
<1>4. CASE svc.reply # NoOne
  <2>1. PICK m : m = IF svc.found THEN Told(n, {svc.reply}, "err") ELSE n
    OBVIOUS
  <2>2. note' = Told(m, {svc.reply}, "retired")
    BY <1>1, <1>4, <2>1 DEF Acknowledged
  <2>3. m[c] = IF svc.found /\ c = svc.reply THEN Append(n[c], "err") ELSE n[c]
    BY <2>1 DEF Told
  <2>4. note'[c] = IF c = svc.reply THEN Append(m[c], "retired") ELSE m[c]
    BY <2>2 DEF Told
  <2> QED BY <1>2, <2>3, <2>4
<1> QED BY <1>3, <1>4

\* the service arms, having ended some waits
LEMMA ArmedFit ==
  ASSUME Waiting, NEW late, late \subseteq svc.entries, svc.mode = "drain",
         svc' = [svc EXCEPT !.mode = "recv", !.entries = svc.entries \ late, !.reply = NoOne, !.found = FALSE],
         note' = Acknowledged(Told(note, late, "err")), UNCHANGED <<client, box>>
  PROVE  ClientsFit'
<1> USE WatchAssumption
<1>1. /\ svc'.kind = svc.kind /\ svc'.mode = "recv" /\ svc'.entries = svc.entries \ late
      /\ svc'.reply = NoOne /\ svc'.found = FALSE
  BY WaitFacts DEF ServiceT
<1>2. ASSUME NEW c \in Clients PROVE Placed(c)'
  <2>0. PICK e \in BOOLEAN : e <=> c \in svc.entries
    OBVIOUS
  <2>1. PICK r \in BOOLEAN : r <=> svc.reply = c
    OBVIOUS
  <2>2. Fits(Readiness, FALSE, client[c].pc, box[c], note[c], e, r, svc.found)
    BY <2>0, <2>1, WaitFacts DEF Placed, Fits
  <2>3. /\ Readiness \in BOOLEAN /\ svc.found \in BOOLEAN /\ FALSE \in BOOLEAN /\ WTypes
        /\ "err" \in Outcomes
    BY WaitFacts DEF Outcomes
  <2>4. CASE r
    <3>1. Fits(Readiness, FALSE, client[c].pc, box[c], note[c], e, TRUE, svc.found)
      BY <2>2, <2>4
    <3>0. ~e
      BY <3>1 DEF Fits
    <3>2. Fits(Readiness, FALSE, client[c].pc, box[c],
               Append(IF svc.found THEN Append(note[c], "err") ELSE note[c], "retired"), FALSE, FALSE, FALSE)
      <4>1. CASE svc.found
        <5>1. Fits(Readiness, FALSE, client[c].pc, box[c], note[c], FALSE, TRUE, TRUE)
          BY <3>0, <3>1, <4>1 DEF Fits
        <5>2. Fits(Readiness, FALSE, client[c].pc, box[c], Append(Append(note[c], "err"), "retired"), FALSE, FALSE, FALSE)
          BY <2>3, <5>1, FitsAcknowledged
        <5> QED BY <4>1, <5>2
      <4>2. CASE ~svc.found
        <5>1. Fits(Readiness, FALSE, client[c].pc, box[c], note[c], FALSE, TRUE, FALSE)
          BY <3>0, <3>1, <4>2 DEF Fits
        <5>2. Fits(Readiness, FALSE, client[c].pc, box[c], Append(note[c], "retired"), FALSE, FALSE, FALSE)
          BY <2>3, <5>1, FitsAcknowledged
        <5> QED BY <4>2, <5>2
      <4> QED BY <4>1, <4>2
    <3>3. note'[c] = Append(IF svc.found THEN Append(note[c], "err") ELSE note[c], "retired")
      BY <2>0, <2>1, <2>3, <2>4, <3>0, AcknowledgedIs
    <3>4. Fits(Readiness, FALSE, client[c].pc, box[c], note'[c], FALSE, FALSE, FALSE)
      BY <3>2, <3>3
    <3> QED BY <1>1, <2>0, <3>0, <3>4 DEF Placed, Readiness, Fits
  <2>5. CASE ~r /\ c \in late
    <3>1. Fits(Readiness, FALSE, client[c].pc, box[c], note[c], TRUE, FALSE, svc.found)
      BY <2>0, <2>2, <2>5 DEF Fits
    <3>2. Fits(Readiness, FALSE, client[c].pc, box[c], Append(note[c], "err"), FALSE, FALSE, svc.found)
      BY <2>3, <3>1, FitsDone
    <3>3. note'[c] = Append(note[c], "err") /\ c \notin svc'.entries
      BY <1>1, <2>1, <2>3, <2>5, AcknowledgedIs
    <3>4. Fits(Readiness, FALSE, client[c].pc, box[c], note'[c], FALSE, FALSE, svc.found)
      BY <3>2, <3>3
    <3> QED BY <1>1, <3>3, <3>4 DEF Placed, Readiness, Fits
  <2>6. CASE ~r /\ c \notin late
    <3>1. note'[c] = note[c] /\ (c \in svc'.entries <=> e)
      BY <1>1, <2>0, <2>1, <2>3, <2>6, AcknowledgedIs
    <3> QED BY <1>1, <2>2, <2>6, <3>1 DEF Placed, Readiness, Fits
  <2> QED BY <2>4, <2>5, <2>6
<1> QED BY <1>2 DEF ClientsFit, Placed

\* the clients whose wait a step leaves where it is
Stays(c) ==
  /\ client'[c].pc = client[c].pc /\ box'[c] = box[c] /\ note'[c] = note[c]
  /\ c \in svc'.entries <=> c \in svc.entries
  /\ svc'.reply = c <=> svc.reply = c
  /\ svc'.reply = c => svc'.found = svc.found

\* a client left alone still fits
LEMMA StaysFit ==
  ASSUME Waiting, NEW c \in Clients, Stays(c), svc'.kind = svc.kind, svc'.mode = "end" <=> svc.mode = "end"
  PROVE  Placed(c)'
<1>1. Placed(c)
  BY WaitFacts
<1> QED BY <1>1 DEF Placed, Stays, Readiness, Fits

\* a step of client c alone
LEMMA OneFit ==
  ASSUME Waiting, NEW c \in Clients, UNCHANGED svc, Placed(c)',
         \A d \in Clients \ {c} : client'[d] = client[d] /\ box'[d] = box[d] /\ note'[d] = note[d]
  PROVE  ClientsFit'
<1>1. ASSUME NEW d \in Clients \ {c} PROVE Placed(d)'
  BY StaysFit DEF Stays
<1> QED BY <1>1 DEF ClientsFit, Placed

\* the service takes a wait
LEMMA TakeRegisterFit ==
  ASSUME Waiting, NEW c \in Clients, TakeRegister(c)
  PROVE  ClientsFit'
<1>1. /\ svc.mode \in {"recv", "drain"} /\ box[c] # <<>> /\ Head(box[c]) = "register"
      /\ box' = [box EXCEPT ![c] = Tail(box[c])] /\ UNCHANGED client
  BY DEF TakeRegister, Receiving
<1>2. /\ box[c] = <<"register">> /\ note[c] = <<>> /\ c \notin svc.entries /\ svc.reply # c
      /\ Readiness => client[c].pc = "sent"
      /\ ~Readiness => client[c].pc = "ticket"
  <2>1. Placed(c)
    BY WaitFacts
  <2> QED BY <1>1, <2>1, ShortSeqs DEF Placed, Fits
<1>3. box'[c] = <<>> /\ \A d \in Clients \ {c} : box'[d] = box[d]
  BY <1>1, <1>2, WaitFacts, ShortSeqs DEF BoxT
<1>4. PICK es : /\ svc' = [svc EXCEPT !.mode = "drain", !.entries = es]
                /\ \/ Readiness /\ es = svc.entries /\ note' = Told(note, {c}, "refused")
                   \/ Readiness /\ es = svc.entries \union {c} /\ note' = Told(note, {c}, "admitted")
                   \/ ~Readiness /\ es = svc.entries \union {c} /\ note' = note
  <2>1. [svc EXCEPT !.mode = "drain"] = [svc EXCEPT !.mode = "drain", !.entries = svc.entries]
    BY WaitFacts DEF ServiceT
  <2> QED BY <2>1 DEF TakeRegister
<1>5. /\ svc'.kind = svc.kind /\ svc'.mode = "drain" /\ svc'.entries = es /\ svc'.reply = svc.reply
      /\ svc'.found = svc.found
  BY <1>4, WaitFacts DEF ServiceT
<1>6. \A d \in Clients \ {c} : note'[d] = note[d]
  BY <1>4 DEF Told
<1>7. Placed(c)'
  <2>1. CASE Readiness /\ es = svc.entries /\ note' = Told(note, {c}, "refused")
    <3>1. note'[c] = <<"refused">>
      BY <1>2, <2>1, ShortSeqs DEF Told
    <3> QED BY <1>1, <1>2, <1>3, <1>5, <2>1, <3>1 DEF Placed, Fits, Readiness
  <2>2. CASE Readiness /\ es = svc.entries \union {c} /\ note' = Told(note, {c}, "admitted")
    <3>1. note'[c] = <<"admitted">>
      BY <1>2, <2>2, ShortSeqs DEF Told
    <3> QED BY <1>1, <1>2, <1>3, <1>5, <2>2, <3>1 DEF Placed, Fits, Readiness
  <2>3. CASE ~Readiness /\ es = svc.entries \union {c} /\ note' = note
    BY <1>1, <1>2, <1>3, <1>5, <2>3 DEF Placed, Fits, Readiness
  <2> QED BY <1>4, <2>1, <2>2, <2>3
<1>8. ASSUME NEW d \in Clients \ {c} PROVE Placed(d)'
  <2>1. Stays(d)
    BY <1>1, <1>3, <1>4, <1>5, <1>6 DEF Stays
  <2> QED BY <2>1, <1>1, <1>5, StaysFit
<1> QED BY <1>7, <1>8 DEF ClientsFit, Placed

\* the service takes a removal
LEMMA TakeRetireFit ==
  ASSUME Waiting, NEW c \in Clients, TakeRetire(c)
  PROVE  ClientsFit'
<1> USE WatchAssumption
<1>1. /\ svc.mode \in {"recv", "drain"} /\ box[c] # <<>> /\ Head(box[c]) = "retire"
      /\ box' = [box EXCEPT ![c] = Tail(box[c])] /\ UNCHANGED <<client, note>>
      /\ svc' = [svc EXCEPT !.mode = "drain", !.entries = svc.entries \ {c}, !.reply = c, !.found = c \in svc.entries]
      /\ Receiving
  BY DEF TakeRetire, Receiving
<1>2. /\ box[c] = <<"retire">> /\ Readiness /\ client[c].pc = "cancel"
      /\ note[c] = <<>> \/ (note[c] \in Ends /\ c \notin svc.entries)
  <2>1. Placed(c)
    BY WaitFacts
  <2> QED BY <1>1, <2>1, ShortSeqs DEF Placed, Fits
<1>3. box'[c] = <<>> /\ \A d \in Clients \ {c} : box'[d] = box[d]
  BY <1>1, <1>2, WaitFacts, ShortSeqs DEF BoxT
<1>4. /\ svc'.kind = svc.kind /\ svc'.mode = "drain" /\ svc'.entries = svc.entries \ {c} /\ svc'.reply = c
      /\ svc'.found <=> c \in svc.entries
  BY <1>1, WaitFacts DEF ServiceT
<1>5. svc.reply = NoOne
  BY <1>1, <1>2 DEF Waiting, WaitsInv, Ending, Receiving
<1>6. Placed(c)'
  BY <1>1, <1>2, <1>3, <1>4 DEF Placed, Fits, Readiness
<1>7. ASSUME NEW d \in Clients \ {c} PROVE Placed(d)'
  <2>1. Stays(d)
    BY <1>1, <1>3, <1>4, <1>5 DEF Stays
  <2> QED BY <2>1, <1>1, <1>4, StaysFit
<1> QED BY <1>6, <1>7 DEF ClientsFit, Placed

\* the service takes its Stop and ends every wait
LEMMA TakeStopFit ==
  ASSUME Waiting, TakeStop
  PROVE  ClientsFit'
<1>1. /\ svc.mode \in {"recv", "drain"} /\ UNCHANGED <<client, box>> /\ note' = Told(note, svc.entries, "err")
      /\ svc' = [svc EXCEPT !.entries = {}, !.mode = IF Watched THEN "retiring" ELSE "finish"]
  BY DEF TakeStop, Receiving
<1>2. /\ svc'.kind = svc.kind /\ svc'.mode \in {"retiring", "finish"} /\ svc'.entries = {} /\ svc'.reply = svc.reply
      /\ svc'.found = svc.found
  BY <1>1, WaitFacts DEF ServiceT
<1>3. \A c \in Clients :
        /\ c \in svc.entries => note'[c] = Append(note[c], "err")
        /\ c \notin svc.entries => note'[c] = note[c]
  BY <1>1 DEF Told
<1> QED BY <1>1, <1>2, <1>3, AnsweredFit DEF Outcomes

\* a stopping service refuses
LEMMA RefuseFit ==
  ASSUME Waiting, NEW c \in Clients, Refuse(c)
  PROVE  ClientsFit'
<1> USE WatchAssumption
<1>1. /\ svc.mode \in {"retiring", "finish"} /\ box[c] # <<>> /\ UNCHANGED <<svc, client>>
      /\ box' = [box EXCEPT ![c] = Tail(box[c])]
      /\ note' = Told(note, {c}, IF Head(box[c]) = "retire" THEN "retired" ELSE IF Readiness THEN "refused" ELSE "err")
  BY DEF Refuse
<1>2. c \notin svc.entries /\ svc.reply = NoOne
  BY <1>1 DEF Waiting, WaitsInv, Ending, Stopping
<1>3. Placed(c)
  BY WaitFacts
<1>4. \A d \in Clients \ {c} : box'[d] = box[d] /\ note'[d] = note[d]
  BY <1>1, WaitFacts DEF BoxT, Told
<1>5. note'[c] = Append(note[c], IF Head(box[c]) = "retire" THEN "retired" ELSE IF Readiness THEN "refused" ELSE "err")
      /\ box'[c] = Tail(box[c])
  BY <1>1, WaitFacts DEF BoxT, Told
<1>6. ASSUME box[c] = <<"register">> PROVE Placed(c)'
  <2>1. note[c] = <<>> /\ (Readiness => client[c].pc = "sent") /\ (~Readiness => client[c].pc = "ticket")
    BY <1>1, <1>3, <1>6, ShortSeqs DEF Placed, Fits
  <2>2. box'[c] = <<>> /\ note'[c] = IF Readiness THEN <<"refused">> ELSE <<"err">>
    BY <1>5, <1>6, <2>1, ShortSeqs
  <2> QED BY <1>1, <1>2, <2>1, <2>2 DEF Placed, Fits, Readiness, Ends
<1>7. ASSUME box[c] = <<"retire">> PROVE Placed(c)'
  <2>1. (note[c] = <<>> \/ note[c] \in Ends) /\ Readiness /\ client[c].pc = "cancel"
    BY <1>1, <1>3, <1>7, ShortSeqs DEF Placed, Fits
  <2>2. box'[c] = <<>> /\ note'[c] = Append(note[c], "retired")
    BY <1>5, <1>7, <2>1, ShortSeqs
  <2>3. note'[c] \in Closed
    <3>1. CASE note[c] = <<>>
      BY <2>2, <3>1, ShortSeqs DEF Closed
    <3>2. ASSUME NEW x \in {"ok", "err"}, note[c] = <<x>> PROVE note'[c] \in Closed
      BY <2>2, <3>2, ShortSeqs DEF Closed
    <3> QED BY <2>1, <3>1, <3>2 DEF Ends
  <2> QED BY <1>1, <1>2, <2>1, <2>2, <2>3 DEF Placed, Fits, Readiness
<1>8. box[c] \in {<<"register">>, <<"retire">>}
  BY <1>1, <1>3 DEF Placed, Fits
<1> QED BY <1>1, <1>4, <1>6, <1>7, <1>8, OneFit

\* a client asks
LEMMA RegisterFit ==
  ASSUME Waiting, NEW c \in Clients, Register(c)
  PROVE  ClientsFit'
<1>1. /\ client[c].pc = "idle" /\ stop = "no" /\ UNCHANGED <<svc, note>>
      /\ box' = [box EXCEPT ![c] = Append(box[c], "register")]
  BY DEF Register
<1>2. svc.mode # "end"
  BY <1>1 DEF Waiting, WaitsInv, Ending, Stopping
<1>3. PICK rec : client' = [client EXCEPT ![c] = rec] /\ rec.pc = IF Readiness THEN "sent" ELSE "ticket"
  <2>1. PICK f \in Fds, d \in IF Readiness THEN {d \in 1 .. Horizon : d > now} ELSE {0} :
          client' = [client EXCEPT ![c] = [pc |-> IF Readiness THEN "sent" ELSE "ticket",
                                           fd |-> f, deadline |-> d, asks |-> client[c].asks + 1]]
    BY DEF Register
  <2>2. PICK rec : rec = [pc |-> IF Readiness THEN "sent" ELSE "ticket",
                          fd |-> f, deadline |-> d, asks |-> client[c].asks + 1]
    OBVIOUS
  <2>3. rec.pc = IF Readiness THEN "sent" ELSE "ticket"
    BY <2>2
  <2>4. client' = [client EXCEPT ![c] = rec]
    BY <2>1, <2>2
  <2> QED BY <2>3, <2>4
<1>4. Placed(c)
  BY WaitFacts
<1>5. note[c] = <<>> /\ c \notin svc.entries /\ svc.reply # c /\ box[c] = <<>>
  BY <1>1, <1>2, <1>4 DEF Placed, Fits
<1>6. box'[c] = <<"register">> /\ client'[c].pc = IF Readiness THEN "sent" ELSE "ticket"
  BY <1>1, <1>3, <1>5, WaitFacts, ShortSeqs DEF BoxT
<1>7. Placed(c)'
  BY <1>1, <1>2, <1>5, <1>6 DEF Placed, Fits, Readiness
<1>8. \A d \in Clients \ {c} : client'[d] = client[d] /\ box'[d] = box[d] /\ note'[d] = note[d]
  BY <1>1, <1>3, WaitFacts DEF BoxT
<1> QED BY <1>1, <1>7, <1>8, OneFit

\* a client cancels
LEMMA CancelFit ==
  ASSUME Waiting, NEW c \in Clients, Cancel(c)
  PROVE  ClientsFit'
<1>1. /\ Readiness /\ client[c].pc = "ticket" /\ UNCHANGED <<svc, note>>
      /\ client' = [client EXCEPT ![c].pc = "cancel"] /\ box' = [box EXCEPT ![c] = Append(box[c], "retire")]
  BY DEF Cancel, Became
<1>2. Placed(c)
  BY WaitFacts
<1>3. box[c] = <<>> /\ svc.reply # c /\ (note[c] = <<>> \/ (note[c] \in Ends /\ c \notin svc.entries))
  BY <1>1, <1>2 DEF Placed, Fits
<1>4. box'[c] = <<"retire">> /\ client'[c].pc = "cancel"
  BY <1>1, <1>3, WaitFacts, ShortSeqs DEF BoxT, ClientT
<1>5. Placed(c)'
  BY <1>1, <1>3, <1>4 DEF Placed, Fits, Readiness
<1>6. \A d \in Clients \ {c} : client'[d] = client[d] /\ box'[d] = box[d] /\ note'[d] = note[d]
  BY <1>1, WaitFacts DEF BoxT
<1> QED BY <1>1, <1>5, <1>6, OneFit

\* a client hears that the service is dead
LEMMA DeadFit ==
  ASSUME Waiting, NEW c \in Clients, ServiceDead(c)
  PROVE  ClientsFit'
<1> USE WatchAssumption
<1>1. /\ svc.mode = "end" /\ note[c] = <<>> /\ UNCHANGED <<svc, note, box>>
      /\ client' = [client EXCEPT ![c].pc = "idle"]
  BY DEF ServiceDead, Became
<1>2. c \notin svc.entries /\ svc.reply # c
  BY <1>1 DEF Waiting, WaitsInv, Ending, Stopping
<1>3. client'[c].pc = "idle" /\ \A d \in Clients \ {c} : client'[d] = client[d]
  BY <1>1, WaitFacts DEF ClientT
<1>4. Placed(c)'
  BY <1>1, <1>2, <1>3 DEF Placed, Fits
<1> QED BY <1>1, <1>3, <1>4, OneFit

\* a client takes an answer, which only one who waits is sent
LEMMA TakeNoteFit ==
  ASSUME Waiting, NEW c \in Clients, TakeNote(c)
  PROVE  ClientsFit' /\ client[c].pc # "idle"
<1>1. /\ note[c] # <<>> /\ note' = [note EXCEPT ![c] = Tail(note[c])] /\ UNCHANGED <<svc, box>>
  BY DEF TakeNote
<1>2. PICK p : /\ client'[c].pc = p /\ \A d \in Clients \ {c} : client'[d] = client[d]
               /\ \/ Head(note[c]) = "admitted" /\ p = "ticket"
                  \/ Head(note[c]) \in {"ok", "err"} /\ client[c].pc = "cancel" /\ p = "cancel"
                  \/ Head(note[c]) \in {"ok", "err"} /\ client[c].pc # "cancel" /\ p = "idle"
                  \/ Head(note[c]) \in {"refused", "retired"} /\ p = "idle"
  <2>1. \A q \in {"ticket", "idle"} : Became(c, q) => client'[c].pc = q /\ \A d \in Clients \ {c} : client'[d] = client[d]
    BY WaitFacts DEF Became, ClientT
  <2> QED BY <2>1 DEF TakeNote
<1>3. Placed(c)
  BY WaitFacts
<1>4. note'[c] = Tail(note[c]) /\ \A d \in Clients \ {c} : note'[d] = note[d]
  BY <1>1, WaitFacts DEF NoteT
<1>5. ASSUME note[c] \in {<<"refused">>, <<"admitted">>} PROVE Placed(c)' /\ client[c].pc # "idle"
  <2>1. /\ Readiness /\ client[c].pc = "sent" /\ svc.reply # c /\ box[c] = <<>>
        /\ c \in svc.entries <=> note[c] = <<"admitted">>
    BY <1>3, <1>5, ShortSeqs DEF Placed, Fits, Ends, Closed, Admitted
  <2>2. /\ Head(note[c]) \in {"refused", "admitted"} /\ Tail(note[c]) = <<>>
        /\ Head(note[c]) = "admitted" <=> note[c] = <<"admitted">>
    BY <1>5, ShortSeqs
  <2> QED BY <2>1, <2>2, <1>1, <1>2, <1>4 DEF Placed, Fits, Readiness
<1>6. ASSUME NEW x \in Outcomes, note[c] = <<"admitted", x>> PROVE Placed(c)' /\ client[c].pc # "idle"
  <2>1. Readiness /\ client[c].pc = "sent" /\ svc.reply # c /\ box[c] = <<>> /\ c \notin svc.entries
    BY <1>3, <1>6, ShortSeqs DEF Placed, Fits, Ends, Closed, Admitted
  <2>2. Head(note[c]) = "admitted" /\ Tail(note[c]) = <<x>>
    BY <1>6, ShortSeqs
  <2> QED BY <2>1, <2>2, <1>1, <1>2, <1>4 DEF Placed, Fits, Readiness, Ends, Outcomes
<1>7. ASSUME note[c] \in Ends PROVE Placed(c)' /\ client[c].pc # "idle"
  <2>1. Head(note[c]) \in {"ok", "err"} /\ Tail(note[c]) = <<>>
    BY <1>7, ShortSeqs DEF Ends
  <2>2. \/ client[c].pc = "ticket" /\ svc.reply # c /\ box[c] = <<>> /\ c \notin svc.entries
        \/ Readiness /\ client[c].pc = "cancel" /\ svc.reply # c /\ box[c] = <<"retire">> /\ c \notin svc.entries
        \/ Readiness /\ client[c].pc = "cancel" /\ svc.reply = c /\ box[c] = <<>> /\ c \notin svc.entries
    BY <1>3, <1>7, ShortSeqs DEF Placed, Fits, Ends, Closed, Admitted
  <2> QED BY <2>1, <2>2, <1>1, <1>2, <1>4 DEF Placed, Fits, Readiness
<1>8. ASSUME note[c] \in Closed PROVE Placed(c)' /\ client[c].pc # "idle"
  <2>1. Readiness /\ client[c].pc = "cancel" /\ svc.reply # c /\ box[c] = <<>> /\ c \notin svc.entries
    BY <1>3, <1>8, ShortSeqs DEF Placed, Fits, Ends, Closed, Admitted
  <2>2. \/ Head(note[c]) = "retired" /\ Tail(note[c]) = <<>>
        \/ Head(note[c]) \in {"ok", "err"} /\ Tail(note[c]) \in Closed
    <3>1. CASE note[c] = <<"retired">>
      BY <3>1, ShortSeqs
    <3>2. ASSUME NEW x \in {"ok", "err"}, note[c] = <<x, "retired">>
          PROVE  Head(note[c]) \in {"ok", "err"} /\ Tail(note[c]) \in Closed
      BY <3>2, ShortSeqs DEF Closed
    <3> QED BY <1>8, <3>1, <3>2 DEF Closed
  <2> QED BY <2>1, <2>2, <1>1, <1>2, <1>4 DEF Placed, Fits, Readiness
<1>9. \/ note[c] \in {<<"refused">>, <<"admitted">>} \/ note[c] \in Ends \/ note[c] \in Closed
      \/ \E x \in Outcomes : note[c] = <<"admitted", x>>
  BY <1>1, <1>3 DEF Placed, Fits, Admitted, Outcomes
<1>10. Placed(c)' /\ client[c].pc # "idle"
  BY <1>5, <1>6, <1>7, <1>8, <1>9
<1> QED BY <1>1, <1>2, <1>4, <1>10, OneFit

\* what the steps of the service make of the service
LEMMA ServiceIs ==
  ASSUME Waiting, ServiceStep
  PROVE  /\ svc'.kind = svc.kind /\ svc' \in ServiceT
         /\ ServiceStart => svc.mode = "off" /\ svc'.entries = svc.entries /\ svc'.reply = svc.reply /\ svc'.found = svc.found
                            /\ svc'.mode \in {"binding", "recv"}
         /\ ServiceReady => svc.mode = "binding" /\ svc'.entries = svc.entries /\ svc'.reply = svc.reply /\ svc'.found = svc.found
                            /\ svc'.mode = "recv"
         /\ RetireWoken => svc.mode = "retiring" /\ svc'.entries = svc.entries /\ svc'.reply = svc.reply /\ svc'.found = svc.found
                            /\ svc'.mode \in {"retiring", "close"}
         /\ h_watch_close => svc.mode = "close" /\ svc'.entries = svc.entries /\ svc'.reply = svc.reply /\ svc'.found = svc.found
                            /\ svc'.mode \in {"close", "finish"}
         /\ ServiceEnds => svc.mode = "finish" /\ svc'.entries = svc.entries /\ svc'.reply = svc.reply /\ svc'.found = svc.found
                            /\ svc'.mode = "end"
         /\ Arm => svc.mode = "drain" /\ svc'.mode = "recv" /\ svc'.reply = NoOne
         /\ ArmFails => svc.mode = "drain" /\ svc'.mode = "recv" /\ svc'.reply = NoOne /\ svc'.entries = {}
         /\ TakeWoke \/ FallbackPass => Receiving /\ svc'.mode = "drain" /\ svc'.reply = svc.reply
         /\ TakeStop => Receiving /\ svc'.mode \in {"retiring", "finish"} /\ svc'.entries = {} /\ svc'.reply = svc.reply
         /\ \A c \in Clients : TakeRegister(c) => Receiving /\ svc'.mode = "drain" /\ svc'.reply = svc.reply
         /\ \A c \in Clients : TakeRetire(c) => Receiving /\ svc'.mode = "drain" /\ svc'.reply = c /\ Readiness
         /\ \A c \in Clients : Refuse(c) => svc' = svc
<1>1. svc' \in ServiceT
  BY WaitFacts, ServiceTypes DEF WTypes
<1>2. svc'.kind = svc.kind
  BY WaitFacts DEF ServiceStep, ServiceStart, ServiceReady, TakeWoke, Arm, ArmFails, FallbackPass, TakeStop, RetireWoken,
     h_watch_close, ServiceEnds, TakeRegister, TakeRetire, Refuse, Settle, ServiceT
<1>3. /\ ServiceStart => svc.mode = "off" /\ svc'.entries = svc.entries /\ svc'.reply = svc.reply /\ svc'.found = svc.found
                         /\ svc'.mode \in {"binding", "recv"}
      /\ ServiceReady => svc.mode = "binding" /\ svc'.entries = svc.entries /\ svc'.reply = svc.reply /\ svc'.found = svc.found
                         /\ svc'.mode = "recv"
  BY WaitFacts DEF ServiceStart, ServiceReady, ServiceT
<1>4. /\ RetireWoken => svc.mode = "retiring" /\ svc'.entries = svc.entries /\ svc'.reply = svc.reply /\ svc'.found = svc.found
                         /\ svc'.mode \in {"retiring", "close"}
      /\ h_watch_close => svc.mode = "close" /\ svc'.entries = svc.entries /\ svc'.reply = svc.reply /\ svc'.found = svc.found
                         /\ svc'.mode \in {"close", "finish"}
      /\ ServiceEnds => svc.mode = "finish" /\ svc'.entries = svc.entries /\ svc'.reply = svc.reply /\ svc'.found = svc.found
                         /\ svc'.mode = "end"
  BY WaitFacts DEF RetireWoken, h_watch_close, ServiceEnds, ServiceT
<1>5. /\ Arm => svc.mode = "drain" /\ svc'.mode = "recv" /\ svc'.reply = NoOne
      /\ ArmFails => svc.mode = "drain" /\ svc'.mode = "recv" /\ svc'.reply = NoOne /\ svc'.entries = {}
  BY WaitFacts DEF Arm, ArmFails, ServiceT
<1>6. TakeWoke \/ FallbackPass => Receiving /\ svc'.mode = "drain" /\ svc'.reply = svc.reply
  BY WaitFacts, SettledIs DEF TakeWoke, FallbackPass, Receiving
<1>7. TakeStop => Receiving /\ svc'.mode \in {"retiring", "finish"} /\ svc'.entries = {} /\ svc'.reply = svc.reply
  BY WaitFacts DEF TakeStop, ServiceT
<1>8. /\ \A c \in Clients : TakeRegister(c) => Receiving /\ svc'.mode = "drain" /\ svc'.reply = svc.reply
      /\ \A c \in Clients : Refuse(c) => svc' = svc
  BY WaitFacts DEF TakeRegister, Refuse, ServiceT
<1>9. ASSUME NEW c \in Clients, TakeRetire(c)
      PROVE  Receiving /\ svc'.mode = "drain" /\ svc'.reply = c /\ Readiness
  <2>1. Receiving /\ svc'.mode = "drain" /\ svc'.reply = c
    BY <1>9, WaitFacts DEF TakeRetire, ServiceT
  <2>2. Placed(c) /\ box[c] # <<>> /\ Head(box[c]) = "retire" /\ svc.mode # "end"
    BY <1>9, WaitFacts DEF TakeRetire, Receiving
  <2> QED BY <2>1, <2>2, ShortSeqs DEF Placed, Fits
<1> QED BY <1>1, <1>2, <1>3, <1>4, <1>5, <1>6, <1>7, <1>8, <1>9

\* every step of the service leaves the clients fitting
LEMMA ServiceFit ==
  ASSUME Waiting, ServiceStep
  PROVE  ClientsFit'
<1>1. CASE ServiceStart \/ ServiceReady \/ RetireWoken \/ h_watch_close \/ ServiceEnds
  <2>1. UNCHANGED <<client, box, note>>
    BY <1>1 DEF ServiceStart, ServiceReady, RetireWoken, h_watch_close, ServiceEnds
  <2> QED BY <1>1, <2>1, ServiceIs, FitFrame
<1>2. CASE TakeWoke \/ FallbackPass
  <2>1. PICK ready : Settle(svc.entries, ready) /\ UNCHANGED <<client, box>> /\ svc.mode \in {"recv", "drain"}
    BY <1>2 DEF TakeWoke, FallbackPass, Receiving
  <2>2. /\ svc'.kind = svc.kind /\ svc'.mode = "drain" /\ svc'.reply = svc.reply /\ svc'.found = svc.found
        /\ \A c \in Clients :
              \/ c \in svc.entries /\ c \notin svc'.entries /\ \E w \in Outcomes : note'[c] = Append(note[c], w)
              \/ (c \in svc'.entries <=> c \in svc.entries) /\ note'[c] = note[c]
    BY <2>1, WaitFacts, SettledIs DEF Outcomes
  <2> QED BY <2>1, <2>2, AnsweredFit
<1>3. CASE Arm
  <2>1. PICK late : late = IF Readiness THEN TimedOut(svc.entries) ELSE {}
    OBVIOUS
  <2>2. late \subseteq svc.entries
    BY <2>1 DEF TimedOut
  <2> QED BY <1>3, <2>1, <2>2, ArmedFit DEF Arm
<1>4. CASE ArmFails
  <2>1. svc.entries \ svc.entries = {}
    OBVIOUS
  <2> QED BY <1>4, <2>1, ArmedFit DEF ArmFails
<1> QED BY <1>1, <1>2, <1>3, <1>4, TakeStopFit, TakeRegisterFit, TakeRetireFit, RefuseFit DEF ServiceStep

\* so does every step
LEMMA FitNext ==
  ASSUME Waiting, [Next]_vars
  PROVE  ClientsFit'
<1>1. CASE ServiceStep
  BY <1>1, ServiceFit
<1>2. CASE \E c \in Clients : Register(c) \/ Cancel(c) \/ ClientStep(c)
  BY <1>2, RegisterFit, CancelFit, TakeNoteFit, DeadFit DEF ClientStep
<1>3. CASE UNCHANGED <<svc, client, box, note>>
  BY <1>3, FitFrame
<1>4. CASE WatchStep
  <2>1. ThreadStep \/ WakerStep \/ Stop \/ Tick \/ (\E f \in Fds : Arrive(f) \/ Consume(f)) =>
          UNCHANGED <<svc, client, box, note>>
    BY DEF ThreadStep, ThreadPolls, PollReturns, ThreadPublishes, ThreadRaises, ThreadStops,
           WakerStep, WakerBound, WakerWakes, WakerUnbinds, WakerEnds, Stop, Tick, Arrive, Consume
  <2> QED BY <2>1, <1>1, <1>2, <1>3, <1>4 DEF WatchStep, WatchNext
<1>5. CASE JobsStep \/ IrqStep \/ ResolverStep \/ UNCHANGED vars
  BY <1>5, <1>3 DEF JobsStep, IrqStep, ResolverStep, vars, watchVars
<1> QED BY <1>4, <1>5 DEF Next

\* the service stands still and no message is added at its end
LEMMA EndingFrame ==
  ASSUME Waiting, UNCHANGED <<svc, stop>>,
         svc.mode = "end" /\ ~Readiness => \A c \in Clients : box'[c] = box[c] \/ box'[c] = <<>>
  PROVE  Ending'
BY DEF Waiting, WaitsInv, Ending, Stopping, Readiness

\* every step keeps Ending
LEMMA EndingNext ==
  ASSUME Waiting, [Next]_vars
  PROVE  Ending'
<1> USE WatchAssumption
<1>0. Ending /\ svc \in ServiceT
  BY WaitFacts DEF Waiting, WaitsInv
<1>1. CASE ServiceStep
  <2>1. CASE ServiceStart \/ ServiceReady \/ RetireWoken \/ h_watch_close
    BY <1>0, <1>1, <2>1, ServiceIs DEF ServiceStart, ServiceReady, RetireWoken, h_watch_close, Ending, Stopping, Readiness
  <2>2. CASE ServiceEnds
    BY <1>0, <1>1, <2>2, ServiceIs DEF ServiceEnds, Ending, Stopping, Readiness
  <2>3. CASE Arm \/ ArmFails
    BY <1>0, <1>1, <2>3, ServiceIs DEF Ending, Stopping
  <2>4. CASE TakeWoke \/ FallbackPass
    BY <1>0, <1>1, <2>4, ServiceIs DEF Ending, Stopping, Readiness
  <2>5. CASE TakeStop
    <3>1. svc.reply = NoOne
      BY <1>0, <1>1, <2>5, ServiceIs DEF Ending, Receiving
    <3> QED BY <1>1, <2>5, <3>1, ServiceIs DEF TakeStop, Ending, Stopping
  <2>6. ASSUME NEW c \in Clients, TakeRegister(c) PROVE Ending'
    BY <1>0, <1>1, <2>6, ServiceIs DEF Ending, Stopping, Readiness
  <2>7. ASSUME NEW c \in Clients, TakeRetire(c) PROVE Ending'
    BY <1>0, <1>1, <2>7, ServiceIs DEF Ending, Stopping, Readiness
  <2>8. ASSUME NEW c \in Clients, Refuse(c) PROVE Ending'
    BY <1>0, <2>8 DEF Refuse, Ending, Stopping, Readiness
  <2> QED BY <1>1, <2>1, <2>2, <2>3, <2>4, <2>5, <2>6, <2>7, <2>8 DEF ServiceStep
<1>2. ASSUME NEW c \in Clients, Register(c) PROVE Ending'
  <2>1. svc.mode # "end" /\ UNCHANGED <<svc, stop>>
    BY <1>0, <1>2 DEF Register, Ending, Stopping
  <2> QED BY <2>1, EndingFrame
<1>3. ASSUME NEW c \in Clients, Cancel(c) \/ ClientStep(c) PROVE Ending'
  <2>1. UNCHANGED <<svc, stop>> /\ (Readiness \/ UNCHANGED box)
    BY <1>3 DEF Cancel, ClientStep, TakeNote, ServiceDead
  <2> QED BY <2>1, EndingFrame
<1>4. CASE Stop
  BY <1>0, <1>4 DEF Stop, Ending, Stopping, Readiness
<1>5. CASE UNCHANGED <<svc, stop, box>>
  BY <1>5, EndingFrame
<1>6. CASE WatchStep
  <2>1. ThreadStep \/ WakerStep \/ Tick \/ (\E f \in Fds : Arrive(f) \/ Consume(f)) =>
          UNCHANGED <<svc, stop, box>>
    BY DEF ThreadStep, ThreadPolls, PollReturns, ThreadPublishes, ThreadRaises, ThreadStops,
           WakerStep, WakerBound, WakerWakes, WakerUnbinds, WakerEnds, Tick, Arrive, Consume
  <2> QED BY <2>1, <1>1, <1>2, <1>3, <1>4, <1>5, <1>6 DEF WatchStep, WatchNext
<1>7. CASE JobsStep \/ IrqStep \/ ResolverStep \/ UNCHANGED vars
  BY <1>5, <1>7 DEF JobsStep, IrqStep, ResolverStep, vars, watchVars
<1> QED BY <1>6, <1>7 DEF Next

-----------------------------------------------------------------------------
(* Snapshot                                                                *)

\* the watcher as the thread sees it
SameWatcher ==
  /\ watcher'.state = watcher.state /\ watcher'.irq = watcher.irq /\ watcher'.armed = watcher.armed
  /\ watcher'.want = watcher.want /\ watcher'.deadline = watcher.deadline /\ watcher'.wake = watcher.wake

\* watcher and thread stand still
LEMMA SnapFrame ==
  ASSUME Waiting, SameWatcher, thread' = thread, svc'.mode = "binding" => svc.mode = "binding"
  PROVE  Snapshot'
BY DEF Waiting, WaitsInv, Snapshot, PollInterrupted, SameWatcher

\* a watcher told anew wakes the thread and its snapshot is out of date
LEMMA SnapTold ==
  ASSUME Waiting, NEW set, NEW d, NEW ready, NowTold(set, d, ready), svc'.mode # "binding"
  PROVE  Snapshot'
<1>1. watcher.polling <=> thread.pc \in {"poll", "back"}
  BY DEF Waiting, Routed, RouterInv, WatcherShape
<1> QED BY <1>1 DEF NowTold, OutdatedThread, Snapshot, PollInterrupted

\* the steps of the thread
LEMMA SnapThread ==
  ASSUME Waiting, ThreadStep
  PROVE  Snapshot'
<1>1. Snapshot /\ watcher \in WatcherT /\ thread \in ThreadT
  BY WaitFacts DEF Waiting, WaitsInv
<1>2. CASE ThreadPolls
  <2>1. /\ thread'.pc = "poll" /\ thread'.current /\ thread'.set = watcher.want /\ thread'.deadline = watcher.deadline
        /\ SameWatcher /\ watcher.armed /\ watcher.state = "open" /\ svc' = svc
    BY <1>1, <1>2 DEF ThreadPolls, WatcherT, ThreadT, SameWatcher
  <2> QED BY <1>1, <2>1 DEF Snapshot, PollInterrupted, SameWatcher
<1>3. CASE PollReturns
  <2>1. /\ thread.pc = "poll" /\ thread'.pc = "back" /\ thread'.current = thread.current /\ thread'.set = thread.set
        /\ thread'.deadline = thread.deadline /\ UNCHANGED <<watcher, svc>>
    BY <1>1, <1>3 DEF PollReturns, ThreadT
  <2> QED BY <1>1, <2>1 DEF Snapshot, PollInterrupted
<1>4. CASE ThreadPublishes
  <2>1. thread'.pc \in {"top", "raise"} /\ svc' = svc
    BY <1>1, <1>4 DEF ThreadPublishes, ThreadT
  <2>2. watcher'.armed => watcher.armed
    <3>1. PICK w : w = [Awake EXCEPT !.polling = FALSE]
      OBVIOUS
    <3>2. w \in WatcherT /\ w.armed = watcher.armed
      BY <1>1, <3>1 DEF Awake, Drained, WatcherT
    <3>3. PICK v : v = Found(w)
      OBVIOUS
    <3>4. v \in WatcherT /\ ~[v EXCEPT !.armed = FALSE].armed
      BY <1>1, <3>2, <3>3 DEF Found, WatcherT, ThreadT
    <3> QED BY <1>4, <3>1, <3>2, <3>3, <3>4 DEF ThreadPublishes
  <2> QED BY <1>1, <2>1, <2>2 DEF Snapshot, PollInterrupted
<1>5. CASE ThreadRaises
  <2>1. thread'.pc = "top" /\ UNCHANGED <<watcher, svc>>
    BY <1>1, <1>5 DEF ThreadRaises, ThreadT
  <2> QED BY <1>1, <2>1 DEF Snapshot, PollInterrupted
<1>6. CASE ThreadStops
  <2>1. thread'.pc = "gone" /\ watcher'.armed = watcher.armed /\ svc' = svc
    BY <1>1, <1>6 DEF ThreadStops, NoThread, WatcherT
  <2> QED BY <1>1, <2>1 DEF Snapshot, PollInterrupted
<1> QED BY <1>2, <1>3, <1>4, <1>5, <1>6 DEF ThreadStep

\* a service arming its waits leaves the thread told, or the watcher as it was
LEMMA SnapArmed ==
  ASSUME Waiting, NEW cs \in SUBSET Clients, svc'.mode # "binding",
         IF Watched THEN Armed(cs) ELSE UNCHANGED <<watcher, thread>>
  PROVE  Snapshot'
<1>1. CASE UNCHANGED <<watcher, thread>>
  BY <1>1, SnapFrame DEF SameWatcher
<1>2. CASE Armed(cs)
  <2>1. \/ UNCHANGED <<watcher, thread>>
        \/ \E d, ready : NowTold(FdsOf(cs), d, ready)
    BY <1>2, WaitFacts, ArmedIs
  <2> QED BY <1>1, <2>1, SnapTold
<1> QED BY <1>1, <1>2

\* the steps of the service
LEMMA SnapService ==
  ASSUME Waiting, ServiceStep
  PROVE  Snapshot'
<1>1. /\ watcher \in WatcherT /\ thread \in ThreadT /\ svc \in ServiceT /\ svc.entries \in SUBSET Clients
      /\ WTypes /\ WatcherShape /\ Snapshot
  BY WaitFacts DEF Waiting, Routed, RouterInv, WaitsInv
<1>2. CASE ServiceStart
  <2>1. CASE UNCHANGED <<watcher, thread>> /\ svc'.mode # "binding"
    BY <2>1, SnapFrame DEF SameWatcher
  <2>2. CASE ~watcher'.armed /\ thread'.pc = "top"
    BY <2>2 DEF Snapshot, PollInterrupted
  <2>3. ASSUME NEW s \in Sources, watcher' = [NoWatcher EXCEPT !.state = "open", !.irq = s]
        PROVE  ~watcher'.armed
    BY <2>3 DEF NoWatcher
  <2>4. thread' = [NoThread EXCEPT !.pc = "top"] => thread'.pc = "top"
    BY DEF NoThread
  <2> QED BY <1>1, <1>2, <2>1, <2>2, <2>3, <2>4 DEF ServiceStart, ServiceT
<1>3. CASE ServiceReady \/ RetireWoken \/ ServiceEnds
  <2>1. UNCHANGED <<watcher, thread>>
    BY <1>3 DEF ServiceReady, RetireWoken, ServiceEnds
  <2> QED BY <1>3, <2>1, ServiceIs, SnapFrame DEF SameWatcher
<1>4. CASE TakeWoke \/ FallbackPass
  <2>1. SameWatcher /\ thread' = thread
    BY <1>1, <1>4 DEF TakeWoke, FallbackPass, Taken, WatcherT, SameWatcher
  <2> QED BY <1>4, <2>1, ServiceIs, SnapFrame
<1>5. CASE Arm
  <2>1. PICK kept \in SUBSET Clients : IF Watched THEN Armed(kept) ELSE UNCHANGED <<watcher, thread>>
    <3>1. svc.entries \ (IF Readiness THEN TimedOut(svc.entries) ELSE {}) \in SUBSET Clients
      BY <1>1
    <3> QED BY <1>5, <3>1 DEF Arm
  <2> QED BY <1>5, <2>1, ServiceIs, SnapArmed
<1>6. CASE ArmFails
  <2>1. NowTold({}, 0, {})
    BY <1>1, <1>6, ArmRefusedIs DEF ArmFails
  <2> QED BY <1>6, <2>1, ServiceIs, SnapTold
<1>7. CASE TakeStop
  <2>1. IF Watched THEN Armed({}) ELSE UNCHANGED <<watcher, thread>>
    BY <1>7 DEF TakeStop
  <2>2. {} \in SUBSET Clients
    OBVIOUS
  <2> QED BY <1>7, <2>1, <2>2, ServiceIs, SnapArmed
<1>8. CASE h_watch_close
  <2>1. svc'.mode # "binding" /\ thread' = thread
    BY <1>8, ServiceIs DEF h_watch_close
  <2>2. CASE watcher.state = "stopped"
    BY <1>1, <2>1, <2>2 DEF WatcherShape, Snapshot, PollInterrupted
  <2>3. CASE watcher.state = "open"
    <3>1. PICK w : w = [watcher EXCEPT !.state = "closing"]
      OBVIOUS
    <3>2. /\ w \in WatcherT /\ w.armed = watcher.armed /\ w.want = watcher.want /\ w.deadline = watcher.deadline
          /\ w.wake = watcher.wake /\ w.polling = watcher.polling
      BY <1>1, <3>1 DEF WatcherT
    <3>3. watcher' = Signalled(w)
      BY <1>8, <2>3, <3>1 DEF h_watch_close
    <3>4. /\ watcher'.armed = watcher.armed /\ watcher'.want = watcher.want /\ watcher'.deadline = watcher.deadline
          /\ watcher'.wake <=> watcher.wake \/ watcher.polling
      BY <3>2, <3>3, SignalledIs
    <3> QED BY <1>1, <2>1, <3>4 DEF WatcherShape, Snapshot, PollInterrupted
  <2> QED BY <1>8, <2>2, <2>3 DEF h_watch_close
<1>9. ASSUME NEW c \in Clients, TakeRegister(c) \/ TakeRetire(c) \/ Refuse(c) PROVE Snapshot'
  <2>1. UNCHANGED <<watcher, thread>>
    BY <1>9 DEF TakeRegister, TakeRetire, Refuse
  <2>2. svc'.mode = "drain" \/ svc' = svc
    BY <1>9, ServiceIs
  <2> QED BY <2>1, <2>2, SnapFrame DEF SameWatcher
<1> QED BY <1>2, <1>3, <1>4, <1>5, <1>6, <1>7, <1>8, <1>9 DEF ServiceStep

\* every step keeps Snapshot
LEMMA SnapNext ==
  ASSUME Waiting, [Next]_vars
  PROVE  Snapshot'
<1>1. CASE ThreadStep \/ ServiceStep
  BY <1>1, SnapThread, SnapService
<1>2. CASE UNCHANGED <<watcher, thread, svc>>
  BY <1>2, SnapFrame DEF SameWatcher
<1>3. CASE WatchStep
  <2>1. WakerStep \/ (\E c \in Clients : Register(c) \/ Cancel(c) \/ ClientStep(c)) \/ Stop \/ Tick
        \/ (\E f \in Fds : Arrive(f) \/ Consume(f)) => UNCHANGED <<watcher, thread, svc>>
    BY DEF WakerStep, WakerBound, WakerWakes, WakerUnbinds, WakerEnds, Register, Cancel, ClientStep, TakeNote,
           ServiceDead, Stop, Tick, Arrive, Consume
  <2> QED BY <1>1, <1>2, <1>3, <2>1 DEF WatchStep, WatchNext
<1>4. CASE JobsStep \/ IrqStep \/ ResolverStep \/ UNCHANGED vars
  BY <1>2, <1>4 DEF JobsStep, IrqStep, ResolverStep, vars, watchVars
<1> QED BY <1>3, <1>4 DEF Next

-----------------------------------------------------------------------------
(* InSync                                                                  *)

\* an interrupt under way stays so
LEMMA ComingFrame ==
  ASSUME Coming, watcher'.irq = watcher.irq, thread.pc = "raise" => thread'.pc = "raise",
         pending \subseteq pending', opened \subseteq opened', claims' = claims,
         mail'[Waker] = mail[Waker], woken' = woken
  PROVE  Coming'
<1>1. CASE thread.pc = "raise" \/ mail[Waker] # <<>> \/ woken # <<>>
  BY <1>1 DEF Coming
<1>2. CASE OnItsWay(watcher.irq)
  <2>1. OnItsWay(watcher.irq)'
    BY <1>2 DEF OnItsWay
  <2> QED BY <2>1 DEF Coming
<1> QED BY <1>1, <1>2 DEF Coming

\* nor is what was given up, unless it is raised again
LEMMA CoveredFrame ==
  ASSUME Covered, watcher'.irq = watcher.irq, thread.pc = "raise" => thread'.pc = "raise",
         pending \subseteq pending', opened \subseteq opened', claims' = claims,
         mail'[Waker] = mail[Waker], woken' = woken,
         watcher.irq \in dropped => watcher.irq \in dropped' \union (pending' \intersect opened')
  PROVE  Covered'
<1>1. CASE Coming
  BY <1>1, ComingFrame DEF Covered
<1>2. CASE watcher.irq \in dropped
  BY <1>2 DEF Covered, Coming, OnItsWay
<1> QED BY <1>1, <1>2 DEF Covered

\* a service that waits beside its watcher has a waker that hears it
LEMMA WakerListens ==
  ASSUME Waiting, svc.mode = "recv", Watched
  PROVE  /\ waker = "waiting" /\ watcher.irq \in opened /\ table[watcher.irq] = Waker
         /\ Waker \notin ended /\ watcher.irq \in Sources /\ watcher.state = "open"
<1>1. waker = "waiting"
  BY DEF Waiting, Routed, RouterInv, WakerShape
<1>2. watcher.irq \in Sources /\ watcher.state = "open"
  BY WaitFacts DEF Waiting, Routed, RouterInv, WatcherShape, WatcherT, Watched
<1> QED BY <1>1, <1>2 DEF Waiting, Routed, RouterInv, WakerReached, WakerBinding

\* a claimed interrupt of the watcher is posted to the router, or given up
LEMMA ClaimCovered ==
  ASSUME Waiting, Covered, NEW s \in Sources, Claim(s), UNCHANGED watchVars
  PROVE  Covered'
<1>1. /\ s \in pending /\ pending' = pending \ {s}
      /\ UNCHANGED <<opened, mail, watcher, thread, woken>> /\ claims \in Seq(Sources)
  BY DEF Claim, watchVars, Waiting, Routed, IrqTypeOK
<1>2. CASE thread.pc = "raise" \/ mail[Waker] # <<>> \/ woken # <<>>
  BY <1>1, <1>2 DEF Covered, Coming
<1>3. CASE watcher.irq \in dropped
  BY <1>1, <1>3 DEF Claim, Covered
<1>4. ASSUME claims' = Append(claims, s), OnItsWay(watcher.irq) PROVE Covered'
  <2>1. Len(claims) + 1 \in 1 .. Len(claims') /\ claims'[Len(claims) + 1] = s
    BY <1>1, <1>4
  <2>2. \A i \in 1 .. Len(claims) : i \in 1 .. Len(claims') /\ claims'[i] = claims[i]
    BY <1>1, <1>4
  <2>3. OnItsWay(watcher.irq)'
    BY <1>1, <1>4, <2>1, <2>2 DEF OnItsWay
  <2> QED BY <2>3 DEF Covered, Coming
<1>5. ASSUME claims' = claims, dropped' = dropped \union {s}, OnItsWay(watcher.irq) PROVE Covered'
  <2>1. CASE s = watcher.irq
    BY <1>1, <1>5, <2>1 DEF Covered
  <2>2. CASE s # watcher.irq
    <3>1. OnItsWay(watcher.irq)'
      BY <1>1, <1>5, <2>2 DEF OnItsWay
    <3> QED BY <3>1 DEF Covered, Coming
  <2> QED BY <2>1, <2>2
<1>6. \/ claims' = Append(claims, s)
      \/ claims' = claims /\ dropped' = dropped \union {s}
  BY DEF Claim
<1> QED BY <1>2, <1>3, <1>4, <1>5, <1>6 DEF Covered, Coming

\* a routed interrupt of the watcher is in the waker's mailbox
LEMMA RouteComing ==
  ASSUME Waiting, Coming, table[watcher.irq] = Waker, Waker \notin ended, watcher.irq \in Sources,
         RouteClaim, UNCHANGED watchVars
  PROVE  Coming'
<1> USE WatchAssumption, NoOneAssumption
<1>1. /\ claims # <<>> /\ claims' = Tail(claims) /\ claims \in Seq(Sources) /\ mail \in [Binders -> Seq(Sources)]
      /\ UNCHANGED <<opened, pending, watcher, thread, woken>>
  BY DEF RouteClaim, watchVars, Waiting, Routed, IrqTypeOK
<1>2. CASE thread.pc = "raise" \/ woken # <<>>
  BY <1>1, <1>2 DEF Coming
<1>3. CASE watcher.irq \in pending \intersect opened
  BY <1>1, <1>3 DEF Coming, OnItsWay
<1>4. PICK s \in Sources : s = Head(claims) /\ s = claims[1]
  BY <1>1
<1>8. Append(mail[Waker], s) # <<>>
  <2>1. PICK q \in Seq(Sources) : q = mail[Waker]
    BY <1>1
  <2>2. Len(Append(q, s)) = Len(q) + 1
    OBVIOUS
  <2>3. Append(q, s) # <<>>
    BY <2>2
  <2> QED BY <2>1, <2>3
<1>5. \/ mail' = mail
      \/ table[s] \in Binders /\ mail' = [mail EXCEPT ![table[s]] = Append(mail[table[s]], s)]
  BY <1>4 DEF RouteClaim
<1>6. CASE mail[Waker] # <<>>
  <2>1. mail'[Waker] # <<>>
    <3>1. CASE mail' = mail
      BY <1>6, <3>1
    <3>2. ASSUME NEW b \in Binders, mail' = [mail EXCEPT ![b] = Append(mail[b], s)] PROVE mail'[Waker] # <<>>
      <4>1. CASE b = Waker
        BY <1>1, <1>8, <3>2, <4>1
      <4>2. CASE b # Waker
        BY <1>1, <1>6, <3>2, <4>2
      <4> QED BY <4>1, <4>2
    <3> QED BY <1>5, <3>1, <3>2
  <2> QED BY <2>1 DEF Coming
<1>7. ASSUME NEW i \in 1 .. Len(claims), claims[i] = watcher.irq PROVE Coming'
  <2>1. CASE i = 1
    <3>1. s = watcher.irq
      BY <1>4, <1>7, <2>1
    <3>2. mail' = [mail EXCEPT ![Waker] = Append(mail[Waker], s)]
      BY <1>4, <3>1 DEF RouteClaim
    <3>3. mail'[Waker] # <<>>
      BY <1>1, <1>8, <3>2
    <3> QED BY <3>3 DEF Coming
  <2>2. CASE i # 1
    <3>1. PICK j \in Nat \ {0} : j = i - 1
      BY <2>2
    <3>2. j \in 1 .. Len(claims') /\ claims'[j] = watcher.irq
      BY <1>1, <1>7, <3>1
    <3> QED BY <1>1, <3>2 DEF Coming, OnItsWay
  <2> QED BY <2>1, <2>2
<1> QED BY <1>2, <1>3, <1>6, <1>7 DEF Coming, OnItsWay

\* the service keeps what it keeps and the watcher what it was told
SameSync ==
  /\ svc' = svc /\ watcher'.state = watcher.state /\ watcher'.irq = watcher.irq /\ watcher'.armed = watcher.armed
  /\ watcher'.want = watcher.want /\ watcher'.deadline = watcher.deadline
  /\ \A c \in svc.entries : client'[c].fd = client[c].fd /\ client'[c].deadline = client[c].deadline

\* service and watcher stand still, and what was coming still is
LEMMA SyncFrame ==
  ASSUME Waiting, SameSync, svc.mode = "recv" /\ Watched /\ Covered => Covered'
  PROVE  InSync'
<1>1. FdsOf(svc.entries)' = FdsOf(svc.entries)
  BY DEF FdsOf, FdOf, SameSync
<1>2. Nearest(svc.entries)' = Nearest(svc.entries)
  <2>1. {client'[c].deadline : c \in svc.entries} = {client[c].deadline : c \in svc.entries}
    BY DEF SameSync
  <2> QED BY <2>1 DEF Nearest, Readiness, SameSync
<1> QED BY <1>1, <1>2 DEF InSync, SameSync, Watched, Readiness, Waiting, WaitsInv

\* what it tells the watcher is what it keeps
LEMMA SyncArmed ==
  ASSUME Waiting, NEW cs \in SUBSET Clients, svc'.entries = cs, svc'.kind = svc.kind, client' = client,
         IF Watched THEN Armed(cs) ELSE UNCHANGED <<watcher, thread>>
  PROVE  InSync'
<1>1. FdsOf(svc.entries)' = FdsOf(cs) /\ (cs # {} => FdsOf(cs) # {})
  BY DEF FdsOf, FdOf
<1>2. Nearest(svc.entries)' = Nearest(cs)
  BY DEF Nearest, Readiness
<1>3. CASE ~Watched
  BY <1>3 DEF InSync, Watched
<1>4. CASE Watched
  <2>1. \/ /\ ~Readiness /\ watcher.armed /\ watcher.deadline = 0 /\ watcher.want = FdsOf(cs)
           /\ UNCHANGED <<watcher, thread>>
        \/ ~Readiness /\ NowTold(FdsOf(cs), 0, watcher.ready)
        \/ Readiness /\ NowTold(FdsOf(cs), Nearest(cs), {})
    BY <1>4, WaitFacts, ArmedIs
  <2> QED BY <1>1, <1>2, <2>1 DEF InSync, NowTold, Readiness
<1> QED BY <1>3, <1>4

\* the steps of the thread: it disarms only on its way to raise
LEMMA SyncThread ==
  ASSUME Waiting, ThreadStep
  PROVE  InSync'
<1>1. /\ watcher \in WatcherT /\ thread \in ThreadT /\ WatcherShape /\ UNCHANGED <<svc, client, woken>>
  BY WaitFacts DEF Waiting, Routed, RouterInv, ThreadStep, ThreadPolls, PollReturns, ThreadPublishes, ThreadRaises, ThreadStops
<1>2. CASE ThreadPolls \/ PollReturns
  <2>1. /\ SameSync /\ UNCHANGED irqVars /\ thread.pc # "raise"
    BY <1>1, <1>2 DEF ThreadPolls, PollReturns, WatcherT, SameSync
  <2>2. UNCHANGED <<pending, opened, claims, mail, dropped>>
    BY <2>1 DEF irqVars
  <2> QED BY <1>1, <2>1, <2>2, SyncFrame, CoveredFrame DEF SameSync
<1>3. CASE ThreadPublishes
  <2>0. /\ thread.pc = "back" /\ UNCHANGED <<pending, opened, claims, mail, dropped>>
    BY <1>3 DEF ThreadPublishes, irqVars
  <2>1. PICK w : w = [Awake EXCEPT !.polling = FALSE]
    OBVIOUS
  <2>2. /\ w \in WatcherT /\ w.state = watcher.state /\ w.irq = watcher.irq /\ w.armed = watcher.armed
        /\ w.want = watcher.want /\ w.deadline = watcher.deadline
    BY <1>1, <2>1 DEF Awake, Drained, WatcherT
  <2>3. CASE watcher' = w
    <3>1. SameSync
      BY <1>1, <2>2, <2>3 DEF SameSync
    <3> QED BY <1>1, <2>0, <2>2, <2>3, <3>1, SyncFrame, CoveredFrame
  <2>4. CASE watcher' = [Found(w) EXCEPT !.armed = FALSE] /\ thread' = [thread EXCEPT !.pc = "raise"]
    <3>1. PICK v : v = Found(w)
      OBVIOUS
    <3>2. v \in WatcherT
      BY <1>1, <2>2, <3>1 DEF Found, WatcherT, ThreadT
    <3>3. ~watcher'.armed /\ thread'.pc = "raise"
      BY <1>1, <2>4, <3>1, <3>2 DEF WatcherT, ThreadT
    <3> QED BY <3>3 DEF InSync, Covered, Coming
  <2> QED BY <1>3, <2>1, <2>3, <2>4 DEF ThreadPublishes
<1>4. CASE ThreadRaises
  <2>1. SameSync /\ watcher' = watcher /\ pending' = pending \union {watcher.irq} /\ opened' = opened
    BY <1>1, <1>4 DEF ThreadRaises, Raise, SameSync
  <2>2. svc.mode = "recv" /\ Watched => Covered'
    BY <2>1, WakerListens DEF Covered, Coming, OnItsWay
  <2> QED BY <2>1, <2>2, SyncFrame
<1>5. CASE ThreadStops
  <2>1. svc.mode # "recv" /\ svc' = svc
    BY <1>1, <1>5 DEF ThreadStops, WatcherShape
  <2> QED BY <2>1 DEF InSync
<1> QED BY <1>2, <1>3, <1>4, <1>5 DEF ThreadStep

\* the steps of the service: it is back at its mailbox only after an arm
LEMMA SyncService ==
  ASSUME Waiting, ServiceStep
  PROVE  InSync'
<1>1. /\ watcher \in WatcherT /\ svc \in ServiceT /\ svc.entries \in SUBSET Clients
      /\ WTypes /\ WatcherShape /\ Snapshot /\ Ending
  BY WaitFacts DEF Waiting, Routed, RouterInv, WaitsInv
<1>2. CASE svc'.mode # "recv"
  BY <1>2 DEF InSync
<1>3. CASE ServiceStart
  <2>1. svc'.mode = "recv" => watcher' = watcher /\ watcher.state = "none"
    BY <1>1, <1>3 DEF ServiceStart, ServiceT, WatcherShape
  <2> QED BY <2>1 DEF InSync, Watched
<1>4. CASE ServiceReady
  <2>1. svc.mode = "binding" /\ svc'.entries = svc.entries /\ watcher' = watcher
    BY <1>4, ServiceIs DEF ServiceReady
  <2>2. svc'.entries = {} /\ ~watcher'.armed
    BY <1>1, <2>1 DEF Snapshot, Ending
  <2> QED BY <2>2 DEF InSync
<1>5. CASE Arm
  <2>1. PICK kept : kept = svc.entries \ (IF Readiness THEN TimedOut(svc.entries) ELSE {})
    OBVIOUS
  <2>2. svc' = [svc EXCEPT !.mode = "recv", !.entries = kept, !.reply = NoOne, !.found = FALSE]
        /\ kept \in SUBSET Clients /\ client' = client
        /\ IF Watched THEN Armed(kept) ELSE UNCHANGED <<watcher, thread>>
    BY <1>1, <1>5, <2>1 DEF Arm
  <2>3. svc'.entries = kept /\ svc'.kind = svc.kind
    BY <1>1, <2>2 DEF ServiceT
  <2> QED BY <2>2, <2>3, SyncArmed
<1>6. CASE ArmFails
  <2>1. NowTold({}, 0, {})
    BY <1>1, <1>6, ArmRefusedIs DEF ArmFails
  <2>2. ~watcher'.armed /\ svc'.entries = {}
    BY <1>6, <2>1, ServiceIs DEF NowTold
  <2> QED BY <2>2 DEF InSync
<1>7. ASSUME NEW c \in Clients, Refuse(c) PROVE InSync'
  <2>1. svc' = svc /\ svc.mode # "recv"
    BY <1>7 DEF Refuse
  <2> QED BY <2>1 DEF InSync
<1>8. TakeWoke \/ FallbackPass \/ TakeStop \/ RetireWoken \/ h_watch_close \/ ServiceEnds => svc'.mode # "recv"
  BY ServiceIs
<1>9. \A c \in Clients : TakeRegister(c) \/ TakeRetire(c) => svc'.mode # "recv"
  BY ServiceIs
<1> QED BY <1>2, <1>3, <1>4, <1>5, <1>6, <1>7, <1>8, <1>9 DEF ServiceStep

\* the steps of the waker: a delivery becomes a Woke
LEMMA SyncWaker ==
  ASSUME Waiting, WakerStep
  PROVE  InSync'
<1>1. UNCHANGED <<watcher, thread, svc, client>>
  BY DEF WakerStep, WakerBound, WakerWakes, WakerUnbinds, WakerEnds
<1>2. CASE WakerWakes
  <2>1. woken' # <<>>
    BY <1>2, WaitFacts DEF WakerWakes, WTypes
  <2> QED BY <1>1, <2>1, SyncFrame DEF SameSync, Covered, Coming
<1>3. CASE WakerBound \/ WakerUnbinds \/ WakerEnds
  <2>1. svc.mode # "recv" \/ ~Watched
    BY <1>3, WakerListens DEF WakerBound, WakerUnbinds, WakerEnds
  <2> QED BY <1>1, <2>1 DEF InSync, Watched
<1> QED BY <1>2, <1>3 DEF WakerStep

\* the steps of the clients: a new wait is not yet kept
LEMMA SyncClient ==
  ASSUME Waiting, NEW c \in Clients, Register(c) \/ Cancel(c) \/ ClientStep(c)
  PROVE  InSync'
<1>1. UNCHANGED <<watcher, thread, svc, woken, irqVars>>
  BY DEF Register, Cancel, ClientStep, TakeNote, ServiceDead
<1>2. \A d \in svc.entries : client'[d].fd = client[d].fd /\ client'[d].deadline = client[d].deadline
  <2>1. CASE Register(c)
    <3>1. c \notin svc.entries
      BY <2>1, WaitFacts DEF Register
    <3>2. \A d \in Clients \ {c} : client'[d] = client[d]
      BY <2>1, WaitFacts DEF Register
    <3> QED BY <3>1, <3>2, WaitFacts
  <2>2. ASSUME NEW p, Became(c, p) PROVE \A d \in Clients : client'[d].fd = client[d].fd /\ client'[d].deadline = client[d].deadline
    BY <2>2, WaitFacts DEF Became, ClientT
  <2>3. CASE Cancel(c) \/ ClientStep(c)
    <3>1. client' = client \/ \E p : Became(c, p)
      BY <2>3 DEF Cancel, ClientStep, TakeNote, ServiceDead
    <3> QED BY <2>2, <3>1, WaitFacts
  <2> QED BY <2>1, <2>3
<1> QED BY <1>1, <1>2, SyncFrame, CoveredFrame DEF SameSync, irqVars

\* the steps of helpers and broker
LEMMA SyncJobs ==
  ASSUME Waiting, JobsStep
  PROVE  InSync'
<1> USE HostAssumption, JobsAssumption, WatchAssumption
<1>1. UNCHANGED <<watcher, thread, svc, client, woken>>
  BY DEF JobsStep, watchVars
<1>2. /\ pending \subseteq pending' /\ opened \subseteq opened' /\ claims' = claims
      /\ dropped \subseteq dropped' \union pending'
  BY DEF JobsStep, JobsNext, BrokerStep, HelperStep, BrokerTakes, BrokerStores, BrokerRaises, Raise, j_new,
         Bound, Answered, fpr_job_submit, Interrupted, TakeDelivery, j_result, irqVars
<1>3. mail'[Waker] = mail[Waker]
  <2>1. ASSUME NEW h \in Helpers, Interrupted(h) PROVE mail'[Waker] = mail[Waker]
    <3>1. h # Waker /\ mail' = [mail EXCEPT ![h] = Tail(mail[h])]
      BY <2>1 DEF Interrupted, TakeDelivery
    <3> QED BY <3>1 DEF Waiting, Routed, IrqTypeOK
  <2> QED BY <2>1 DEF JobsStep, JobsNext, BrokerStep, HelperStep, BrokerTakes, BrokerStores, BrokerRaises, j_new,
          Bound, Answered, fpr_job_submit, j_result, irqVars
<1>4. svc.mode = "recv" /\ Watched => watcher.irq \in opened'
  BY <1>2, WakerListens
<1> QED BY <1>1, <1>2, <1>3, <1>4, SyncFrame, CoveredFrame DEF SameSync

\* the irq hart and the router
LEMMA SyncIrq ==
  ASSUME Waiting, IrqStep
  PROVE  InSync'
<1>1. UNCHANGED <<watcher, thread, svc, client, woken>> /\ UNCHANGED watchVars
  BY DEF IrqStep, watchVars
<1>2. SameSync
  BY <1>1 DEF SameSync
<1>3. ASSUME svc.mode = "recv", Watched, Covered PROVE Covered'
  <2>1. watcher.irq \in opened /\ table[watcher.irq] = Waker /\ Waker \notin ended /\ watcher.irq \in Sources
    BY <1>3, WakerListens
  <2>2. ASSUME NEW b \in Binders, RouteBind(b) \/ RouteUnbind(b) PROVE Covered'
    <3>1. UNCHANGED <<pending, claims, mail, dropped>> /\ opened \subseteq opened'
      BY <2>2 DEF RouteBind, RouteUnbind, Reply
    <3> QED BY <1>1, <1>3, <3>1, CoveredFrame
  <2>3. ASSUME RouteClaim PROVE Covered'
    <3>1. UNCHANGED <<watcher, dropped>>
      BY <1>1, <2>3 DEF RouteClaim
    <3> QED BY <1>1, <1>3, <2>1, <2>3, <3>1, RouteComing DEF Covered
  <2> QED BY <1>1, <1>3, <2>2, <2>3, ClaimCovered DEF IrqStep, IrqNext
<1> QED BY <1>2, <1>3, SyncFrame

\* every step keeps InSync
LEMMA SyncNext ==
  ASSUME Waiting, [Next]_vars
  PROVE  InSync'
<1>1. CASE ThreadStep \/ ServiceStep \/ WakerStep \/ JobsStep \/ IrqStep
  BY <1>1, SyncThread, SyncService, SyncWaker, SyncJobs, SyncIrq
<1>2. CASE UNCHANGED <<watcher, thread, svc, client, woken, irqVars>>
  BY <1>2, SyncFrame, CoveredFrame DEF SameSync, irqVars
<1>3. CASE WatchStep
  <2>1. Stop \/ Tick \/ (\E f \in Fds : Arrive(f) \/ Consume(f)) => UNCHANGED <<watcher, thread, svc, client, woken, irqVars>>
    BY DEF Stop, Tick, Arrive, Consume
  <2> QED BY <1>1, <1>2, <1>3, <2>1, SyncClient DEF WatchStep, WatchNext
<1>4. CASE ResolverStep \/ UNCHANGED vars
  BY <1>2, <1>4 DEF ResolverStep, vars, watchVars
<1> QED BY <1>1, <1>3, <1>4 DEF Next

-----------------------------------------------------------------------------
(* Seen, and the theorem                                                   *)

\* an answer of success among client c's
Ok(c) == \E i \in 1 .. Len(note[c]) : note[c][i] = "ok"

\* a success in a longer list of answers is the new one or an old one
LEMMA OkAppended ==
  ASSUME NEW q \in Seq(Notes), NEW w \in Notes, NEW i \in 1 .. Len(Append(q, w)), Append(q, w)[i] = "ok"
  PROVE  w = "ok" \/ \E j \in 1 .. Len(q) : q[j] = "ok"
<1>1. CASE i = Len(q) + 1
  BY <1>1
<1>2. CASE i # Len(q) + 1
  <2>1. i \in 1 .. Len(q) /\ q[i] = "ok"
    BY <1>2
  <2> QED BY <2>1
<1> QED BY <1>1, <1>2

\* a success left is one there was
LEMMA OkTail ==
  ASSUME NEW q \in Seq(Notes), q # <<>>, NEW i \in 1 .. Len(Tail(q)), Tail(q)[i] = "ok"
  PROVE  \E j \in 1 .. Len(q) : q[j] = "ok"
<1>1. i + 1 \in 1 .. Len(q) /\ q[i + 1] = "ok"
  OBVIOUS
<1> QED BY <1>1

\* what a step may do to a client's answers: a success is new only where the
\* descriptor has been ready since the client asked
TrueAnswers(c) ==
  \/ note'[c] = note[c]
  \/ \E w \in Notes \ {"ok"} : note'[c] = Append(note[c], w)
  \/ \E v, w \in Notes \ {"ok"} : note'[c] = Append(Append(note[c], v), w)
  \/ since[c] /\ note'[c] = Append(note[c], "ok")
  \/ note[c] # <<>> /\ note'[c] = Tail(note[c])

\* honest answers keep Fresh
LEMMA FreshFrame ==
  ASSUME Waiting, svc'.kind = svc.kind,
         \A c \in Clients : \/ TrueAnswers(c) /\ (since[c] => since'[c])
                            \/ note'[c] = <<>>
  PROVE  Fresh'
<1> SUFFICES ASSUME NEW c \in Clients, Readiness, NEW i \in 1 .. Len(note'[c]), note'[c][i] = "ok"
             PROVE  since'[c]
  BY DEF Fresh, Readiness
<1>1. note[c] \in Seq(Notes) /\ (Ok(c) => since[c])
  BY WaitFacts DEF Waiting, WaitsInv, Seen, Fresh, Ok, NoteT
<1>2. note'[c] # <<>>
  OBVIOUS
<1>3. CASE note'[c] = note[c]
  BY <1>1, <1>2, <1>3 DEF Ok
<1>4. ASSUME NEW w \in Notes \ {"ok"}, note'[c] = Append(note[c], w) PROVE Ok(c)
  BY <1>1, <1>4, OkAppended DEF Ok
<1>5. ASSUME NEW v \in Notes \ {"ok"}, NEW w \in Notes \ {"ok"}, note'[c] = Append(Append(note[c], v), w)
      PROVE  Ok(c)
  <2>1. Append(note[c], v) \in Seq(Notes)
    BY <1>1
  <2>2. \E j \in 1 .. Len(Append(note[c], v)) : Append(note[c], v)[j] = "ok"
    BY <1>5, <2>1, OkAppended
  <2> QED BY <1>1, <2>2, OkAppended DEF Ok
<1>6. CASE note[c] # <<>> /\ note'[c] = Tail(note[c])
  <2>1. Ok(c)
    BY <1>1, <1>6, OkTail DEF Ok
  <2> QED BY <1>1, <1>2, <1>6, <2>1
<1> QED BY <1>1, <1>2, <1>3, <1>4, <1>5, <1>6 DEF TrueAnswers

\* nobody starts to wait and nothing arrives
LEMMA SeenDataFrame ==
  ASSUME Waiting, data' \subseteq data,
         \A c \in Clients : /\ client'[c].pc # "idle" => client[c].pc # "idle"
                            /\ client'[c].fd = client[c].fd /\ (since[c] => since'[c])
  PROVE  SeenData'
BY DEF Waiting, WaitsInv, Seen, SeenData, FdOf

\* service and watcher stand still
LEMMA SeenReadyFrame ==
  ASSUME Waiting, svc' = svc, watcher'.ready = watcher.ready, thread' = thread \/ thread'.pc # "back",
         \A c \in svc.entries : client'[c].fd = client[c].fd /\ (since[c] => since'[c])
  PROVE  SeenReady'
<1>1. SeenReady
  BY DEF Waiting, WaitsInv, Seen
<1> QED BY <1>1 DEF SeenReady, FdOf, Readiness

\* without a watcher nothing is ready
Unready == ~Watched => watcher.ready = {}

\* the steps of the thread: it finds ready what is there while its set is current
LEMMA SeenThread ==
  ASSUME Waiting, ThreadStep
  PROVE  Seen'
<1>1. /\ watcher \in WatcherT /\ thread \in ThreadT /\ UNCHANGED <<svc, client, note, since, data>>
      /\ SeenData /\ SeenReady /\ Unready /\ Fresh /\ svc.entries \in SUBSET Clients
  BY WaitFacts DEF Waiting, WaitsInv, Seen, Unready, ThreadStep, ThreadPolls, PollReturns, ThreadPublishes, ThreadRaises, ThreadStops
<1>2. SeenData' /\ Fresh'
  BY <1>1 DEF SeenData, FdOf, Fresh, Readiness
<1>3. CASE ThreadPolls \/ ThreadRaises \/ ThreadStops
  <2>1. thread'.pc # "back" /\ watcher'.ready = watcher.ready /\ (watcher.state # "none" => watcher'.state # "none")
    <3>1. CASE ThreadPolls
      BY <1>1, <3>1 DEF ThreadPolls, WatcherT, ThreadT
    <3>2. CASE ThreadRaises
      BY <1>1, <3>2 DEF ThreadRaises, ThreadT
    <3>3. CASE ThreadStops
      BY <1>1, <3>3 DEF ThreadStops, NoThread, WatcherT
    <3> QED BY <1>3, <3>1, <3>2, <3>3
  <2> QED BY <1>1, <1>2, <2>1, SeenReadyFrame DEF Seen, Unready, Watched
<1>4. CASE PollReturns
  <2>1. watcher' = watcher /\ thread'.got = thread.set \intersect data
    BY <1>1, <1>4 DEF PollReturns, ThreadT
  <2>2. SeenReady'
    BY <1>1, <2>1, WaitFacts DEF SeenReady, SeenData, FdOf, Readiness
  <2> QED BY <1>1, <1>2, <2>1, <2>2 DEF Seen, Unready, Watched
<1>5. CASE ThreadPublishes
  <2>1. PICK w : w = [Awake EXCEPT !.polling = FALSE]
    OBVIOUS
  <2>2. w \in WatcherT /\ w.state = watcher.state /\ w.ready = watcher.ready
    BY <1>1, <2>1 DEF Awake, Drained, WatcherT
  <2>3. thread'.pc # "back"
    BY <1>1, <1>5 DEF ThreadPublishes, ThreadT
  <2>4. CASE watcher' = w
    BY <1>1, <1>2, <2>2, <2>3, <2>4, SeenReadyFrame DEF Seen, Unready, Watched
  <2>5. CASE watcher' = [Found(w) EXCEPT !.armed = FALSE] /\ thread.current
    <3>1. PICK v : v = Found(w)
      OBVIOUS
    <3>2. v \in WatcherT /\ v.state = watcher.state /\ v.ready = watcher.ready \union thread.got
      BY <1>1, <2>2, <3>1 DEF Found, WatcherT, ThreadT
    <3>3. watcher'.state = watcher.state /\ watcher'.ready = watcher.ready \union thread.got
      BY <2>5, <3>1, <3>2 DEF WatcherT
    <3>4. thread.pc = "back" /\ watcher.state = "open"
      BY <1>5 DEF ThreadPublishes
    <3>5. SeenReady'
      BY <1>1, <2>3, <2>5, <3>3, <3>4 DEF SeenReady, FdOf, Readiness
    <3> QED BY <1>2, <3>3, <3>4, <3>5 DEF Seen, Watched
  <2> QED BY <1>5, <2>1, <2>4, <2>5 DEF ThreadPublishes
<1> QED BY <1>3, <1>4, <1>5 DEF ThreadStep

\* what arming answers holds no success
LEMMA ArmAnswers ==
  ASSUME Waiting, NEW cs, cs \subseteq svc.entries, note' = Acknowledged(Told(note, cs, "err")), NEW c \in Clients
  PROVE  TrueAnswers(c)
<1>1. svc.reply = c => c \notin cs
  BY WaitFacts DEF Placed, Fits
<1>2. /\ c # svc.reply => note'[c] = IF c \in cs THEN Append(note[c], "err") ELSE note[c]
      /\ c = svc.reply /\ c \notin cs =>
           note'[c] = Append(IF svc.found THEN Append(note[c], "err") ELSE note[c], "retired")
  BY WaitFacts, AcknowledgedIs
<1>3. {"err", "retired"} \subseteq Notes \ {"ok"}
  BY DEF Notes
<1>4. CASE c # svc.reply
  BY <1>2, <1>3, <1>4 DEF TrueAnswers
<1>5. CASE c = svc.reply /\ svc.found
  <2>1. note'[c] = Append(Append(note[c], "err"), "retired")
    BY <1>1, <1>2, <1>5
  <2> QED BY <1>3, <2>1 DEF TrueAnswers
<1>6. CASE c = svc.reply /\ ~svc.found
  <2>1. note'[c] = Append(note[c], "retired")
    BY <1>1, <1>2, <1>6
  <2> QED BY <1>3, <2>1 DEF TrueAnswers
<1> QED BY <1>4, <1>5, <1>6

\* the steps of the service
LEMMA SeenService ==
  ASSUME Waiting, ServiceStep
  PROVE  Seen'
<1>1. /\ watcher \in WatcherT /\ thread \in ThreadT /\ svc \in ServiceT /\ svc.entries \in SUBSET Clients
      /\ WTypes /\ WatcherShape /\ Ending /\ SeenData /\ SeenReady /\ Unready
  BY WaitFacts DEF Waiting, Routed, RouterInv, WaitsInv, Seen, Unready
<1>2. UNCHANGED <<client, since, data>> /\ svc'.kind = svc.kind
  BY ServiceIs DEF ServiceStep, ServiceStart, ServiceReady, TakeWoke, Arm, ArmFails, FallbackPass, TakeStop,
     RetireWoken, h_watch_close, ServiceEnds, TakeRegister, TakeRetire, Refuse
<1>3. SeenData'
  BY <1>2, SeenDataFrame
<1>4. {"admitted", "refused", "err", "retired"} \subseteq Notes \ {"ok"}
  BY DEF Notes
<1>5. (\A c \in Clients : TrueAnswers(c)) => Fresh'
  BY <1>2, FreshFrame
<1>6. CASE ServiceStart \/ ServiceReady \/ RetireWoken \/ h_watch_close \/ ServiceEnds
  <2>1. note' = note
    BY <1>6 DEF ServiceStart, ServiceReady, RetireWoken, h_watch_close, ServiceEnds
  <2>2. SeenReady'
    <3>1. CASE svc'.mode # "recv"
      BY <3>1 DEF SeenReady
    <3>2. CASE ServiceStart \/ ServiceReady
      <4>1. svc'.entries = {}
        BY <1>1, <3>2, ServiceIs DEF Ending
      <4> QED BY <4>1 DEF SeenReady
    <3> QED BY <1>6, <3>1, <3>2, ServiceIs
  <2>3. Unready'
    <3>1. CASE ServiceStart
      <4>1. \A s \in Sources : [NoWatcher EXCEPT !.state = "open", !.irq = s].state # "none"
        BY DEF NoWatcher
      <4> QED BY <1>1, <3>1, <4>1 DEF ServiceStart, Unready, Watched
    <3>2. CASE h_watch_close
      <4>1. NoWatcher.ready = {}
        BY DEF NoWatcher
      <4>2. PICK w : w = [watcher EXCEPT !.state = "closing"]
        OBVIOUS
      <4>3. w \in WatcherT /\ Signalled(w).state = "closing"
        BY <1>1, <4>2, SignalledIs DEF WatcherT
      <4> QED BY <3>2, <4>1, <4>2, <4>3 DEF h_watch_close, Unready, Watched
    <3>3. CASE ServiceReady \/ RetireWoken \/ ServiceEnds
      BY <1>1, <3>3 DEF ServiceReady, RetireWoken, ServiceEnds, Unready, Watched
    <3> QED BY <1>6, <3>1, <3>2, <3>3
  <2> QED BY <1>3, <1>5, <2>1, <2>2, <2>3 DEF Seen, Unready, TrueAnswers
<1>7. ASSUME NEW ready, Settle(svc.entries, ready), \A c \in svc.entries : Readiness /\ FdOf(c) \in ready => since[c],
             watcher'.state = watcher.state, watcher'.ready \subseteq watcher.ready
      PROVE  Seen'
  <2>1. /\ svc'.mode = "drain"
        /\ \A c \in Clients :
             \/ /\ c \in svc.entries /\ c \notin svc'.entries
                /\ \/ note'[c] = Append(note[c], "err")
                   \/ note'[c] = Append(note[c], "ok") /\ FdOf(c) \in ready
             \/ (c \in svc'.entries <=> c \in svc.entries) /\ note'[c] = note[c]
    BY <1>1, <1>7, SettledIs
  <2>2. Readiness => \A c \in Clients : TrueAnswers(c)
    BY <1>4, <1>7, <2>1 DEF TrueAnswers
  <2>3. Fresh'
    BY <1>2, <1>5, <2>2 DEF Fresh, Readiness
  <2>4. SeenReady' /\ Unready'
    BY <1>1, <1>7, <2>1 DEF SeenReady, Unready, Watched
  <2> QED BY <1>3, <2>3, <2>4 DEF Seen, Unready
<1>8. CASE TakeWoke
  <2>1. watcher'.state = watcher.state /\ watcher'.ready = {} /\ Settle(svc.entries, watcher.ready)
    BY <1>1, <1>8 DEF TakeWoke, Taken, WatcherT
  <2>2. \A c \in svc.entries : Readiness /\ FdOf(c) \in watcher.ready => since[c]
    BY <1>1, <1>8 DEF TakeWoke, Receiving, SeenReady
  <2> QED BY <1>7, <2>1, <2>2
<1>9. CASE FallbackPass
  <2>1. watcher' = watcher /\ Settle(svc.entries, data)
    BY <1>9 DEF FallbackPass
  <2>2. \A c \in svc.entries : FdOf(c) \in data => since[c]
    BY <1>1, WaitFacts DEF SeenData
  <2> QED BY <1>7, <2>1, <2>2
\* arming
<1>10. ASSUME NEW cs \in SUBSET Clients, IF Watched THEN Armed(cs) ELSE UNCHANGED <<watcher, thread>>
       PROVE  Unready' /\ (Readiness => SeenReady')
  <2>1. CASE ~Watched
    <3>1. UNCHANGED <<watcher, thread>>
      BY <1>10, <2>1
    <3>2. watcher.ready = {} /\ thread.pc = "gone"
      BY <1>1, <2>1 DEF Unready, Watched, WatcherShape
    <3> QED BY <2>1, <3>1, <3>2 DEF Unready, SeenReady, Watched
  <2>2. CASE Watched
    <3>1. \/ ~Readiness /\ UNCHANGED <<watcher, thread>>
          \/ ~Readiness /\ NowTold(FdsOf(cs), 0, watcher.ready)
          \/ Readiness /\ NowTold(FdsOf(cs), Nearest(cs), {})
      BY <1>1, <1>10, <2>2, ArmedIs
    <3> QED BY <2>2, <3>1 DEF NowTold, OutdatedThread, Unready, Watched, SeenReady
  <2> QED BY <2>1, <2>2
<1>11. CASE Arm
  <2>1. PICK late : late = IF Readiness THEN TimedOut(svc.entries) ELSE {}
    OBVIOUS
  <2>2. late \subseteq svc.entries /\ svc.entries \ late \in SUBSET Clients
    BY <1>1, <2>1 DEF TimedOut
  <2>3. /\ note' = Acknowledged(Told(note, late, "err"))
        /\ IF Watched THEN Armed(svc.entries \ late) ELSE UNCHANGED <<watcher, thread>>
    BY <1>11, <2>1 DEF Arm
  <2>4. Fresh'
    BY <1>5, <2>2, <2>3, ArmAnswers
  <2>5. Unready' /\ SeenReady'
    BY <1>2, <1>10, <2>2, <2>3 DEF SeenReady, Readiness
  <2> QED BY <1>3, <2>4, <2>5 DEF Seen, Unready
<1>12. CASE ArmFails
  <2>1. NowTold({}, 0, {}) /\ svc'.entries = {}
    BY <1>1, <1>12, ServiceIs, ArmRefusedIs DEF ArmFails
  <2>2. Fresh'
    BY <1>5, <1>12, ArmAnswers DEF ArmFails
  <2>3. Unready' /\ SeenReady'
    BY <2>1 DEF Unready, SeenReady, NowTold
  <2> QED BY <1>3, <2>2, <2>3 DEF Seen, Unready
<1>13. CASE TakeStop
  <2>1. IF Watched THEN Armed({}) ELSE UNCHANGED <<watcher, thread>>
    BY <1>13 DEF TakeStop
  <2>2. Unready'
    <3>1. {} \in SUBSET Clients
      OBVIOUS
    <3> QED BY <1>10, <2>1, <3>1
  <2>3. \A c \in Clients : note'[c] = IF c \in svc.entries THEN Append(note[c], "err") ELSE note[c]
    BY <1>13 DEF TakeStop, Told
  <2>4. Fresh'
    BY <1>4, <1>5, <2>3 DEF TrueAnswers
  <2>5. SeenReady'
    BY <1>13, ServiceIs DEF SeenReady
  <2> QED BY <1>3, <2>2, <2>4, <2>5 DEF Seen, Unready
<1>14. ASSUME NEW c \in Clients, TakeRegister(c) \/ TakeRetire(c) \/ Refuse(c) PROVE Seen'
  <2>1. watcher' = watcher
    BY <1>14 DEF TakeRegister, TakeRetire, Refuse
  <2>2. note' = note \/ \E w \in Notes \ {"ok"} : note' = Told(note, {c}, w)
    BY <1>4, <1>14 DEF TakeRegister, TakeRetire, Refuse
  <2>3. Fresh'
    BY <1>5, <2>2 DEF Told, TrueAnswers
  <2>4. svc'.mode # "recv"
    <3>1. Refuse(c) => svc' = svc /\ svc.mode # "recv"
      BY DEF Refuse
    <3> QED BY <1>14, <3>1, ServiceIs
  <2> QED BY <1>1, <1>3, <2>1, <2>3, <2>4 DEF Seen, SeenReady, Unready, Watched
<1> QED BY <1>6, <1>8, <1>9, <1>11, <1>12, <1>13, <1>14 DEF ServiceStep

\* the steps of the clients
LEMMA SeenClient ==
  ASSUME Waiting, NEW c \in Clients, Register(c) \/ Cancel(c) \/ ClientStep(c)
  PROVE  Seen'
<1>1. /\ UNCHANGED <<watcher, thread, svc, data>> /\ client \in [Clients -> ClientT] /\ note \in NoteT
      /\ svc.entries \in SUBSET Clients
      /\ since \in [Clients -> BOOLEAN] /\ SeenData /\ SeenReady /\ Unready /\ Fresh
  BY WaitFacts DEF Waiting, WaitsInv, Seen, Unready, WTypes, Register, Cancel, ClientStep, TakeNote, ServiceDead
<1>2. Unready'
  BY <1>1 DEF Unready, Watched
<1>3. CASE Register(c)
  <2>1. PICK f, d :
          /\ f \in Fds
          /\ client' = [client EXCEPT ![c] = [pc |-> IF Readiness THEN "sent" ELSE "ticket",
                                              fd |-> f, deadline |-> d, asks |-> client[c].asks + 1]]
          /\ since' = [since EXCEPT ![c] = f \in data]
    BY <1>3 DEF Register
  <2>2. note' = note /\ note[c] = <<>> /\ c \notin svc.entries
    <3>1. client[c].pc = "idle" /\ note' = note
      BY <1>3 DEF Register
    <3> QED BY <3>1, WaitFacts DEF Placed, Fits
  <2>3. client'[c].fd = f /\ (since'[c] <=> f \in data)
    BY <1>1, <2>1
  <2>4. \A e \in Clients \ {c} : client'[e] = client[e] /\ since'[e] = since[e]
    BY <1>1, <2>1
  <2>5. SeenData'
    BY <1>1, <2>3, <2>4 DEF SeenData, FdOf
  <2>6. SeenReady'
    BY <1>1, <2>2, <2>4, SeenReadyFrame
  <2>7. Fresh'
    <3>1. \A e \in Clients : (TrueAnswers(e) /\ (since[e] => since'[e])) \/ note'[e] = <<>>
      BY <2>2, <2>4 DEF TrueAnswers
    <3> QED BY <1>1, <3>1, FreshFrame
  <2> QED BY <1>2, <2>5, <2>6, <2>7 DEF Seen, Unready
<1>4. CASE Cancel(c) \/ ClientStep(c)
  <2>1. since' = since
    BY <1>4 DEF Cancel, ClientStep, TakeNote, ServiceDead
  <2>2. ASSUME NEW p, Became(c, p), p = "idle" \/ client[c].pc # "idle"
        PROVE  \A e \in Clients : client'[e].fd = client[e].fd /\ (client'[e].pc # "idle" => client[e].pc # "idle")
    BY <1>1, <2>2 DEF Became, ClientT
  <2>3. client' = client \/ \E p : Became(c, p) /\ (p = "idle" \/ client[c].pc # "idle")
    BY <1>4, TakeNoteFit DEF Cancel, ClientStep, TakeNote, ServiceDead
  <2>4. \A e \in Clients : client'[e].fd = client[e].fd /\ (client'[e].pc # "idle" => client[e].pc # "idle")
    BY <2>2, <2>3
  <2>5. SeenData' /\ SeenReady'
    BY <1>1, <2>1, <2>4, SeenDataFrame, SeenReadyFrame
  <2>6. \A e \in Clients : TrueAnswers(e)
    <3>1. note' = note \/ (note[c] # <<>> /\ note' = [note EXCEPT ![c] = Tail(note[c])])
      BY <1>4 DEF Cancel, ClientStep, TakeNote, ServiceDead
    <3> QED BY <1>1, <3>1 DEF TrueAnswers, NoteT
  <2> QED BY <1>1, <1>2, <2>1, <2>5, <2>6, FreshFrame DEF Seen, Unready
<1> QED BY <1>3, <1>4

\* every step keeps Seen
LEMMA SeenNext ==
  ASSUME Waiting, [Next]_vars
  PROVE  Seen'
<1>1. CASE ThreadStep \/ ServiceStep
  BY <1>1, SeenThread, SeenService
<1>2. CASE UNCHANGED <<watcher, thread, svc, client, note, since>> /\ data' \subseteq data
  BY <1>2 DEF Waiting, WaitsInv, Seen, SeenData, SeenReady, Fresh, FdOf, Readiness, Watched
<1>3. ASSUME NEW f \in Fds, Arrive(f) PROVE Seen'
  <2>1. /\ data' = data \union {f} /\ UNCHANGED <<watcher, thread, svc, client, note>>
        /\ \A c \in Clients : since'[c] <=> since[c] \/ (client[c].pc # "idle" /\ FdOf(c) = f)
    BY <1>3 DEF Arrive
  <2> QED BY <2>1, WaitFacts DEF Waiting, WaitsInv, Seen, SeenData, SeenReady, Fresh, FdOf, Readiness, Watched
<1>4. CASE WatchStep
  <2>1. WakerStep \/ Stop \/ Tick \/ (\E f \in Fds : Consume(f)) =>
          UNCHANGED <<watcher, thread, svc, client, note, since>> /\ data' \subseteq data
    BY DEF WakerStep, WakerBound, WakerWakes, WakerUnbinds, WakerEnds, Stop, Tick, Consume
  <2> QED BY <1>1, <1>2, <1>3, <1>4, <2>1, SeenClient DEF WatchStep, WatchNext
<1>5. CASE JobsStep \/ IrqStep \/ ResolverStep \/ UNCHANGED vars
  BY <1>2, <1>5 DEF JobsStep, IrqStep, ResolverStep, vars, watchVars
<1> QED BY <1>4, <1>5 DEF Next

\* the waits are right at the start
LEMMA WaitsStart == Init => WaitsInv
<1> SUFFICES ASSUME Init PROVE WaitsInv
  OBVIOUS
<1> USE WatchAssumption
<1>1. /\ svc.mode = "off" /\ svc.entries = {} /\ svc.reply = NoOne /\ watcher = NoWatcher /\ thread.pc = "gone"
      /\ data = {}
      /\ \A c \in Clients : client[c].pc = "idle" /\ box[c] = <<>> /\ note[c] = <<>>
  BY DEF Init, WatchInit, NoThread
<1>2. ClientsFit
  BY <1>1 DEF ClientsFit, Fits
<1>3. Ending /\ InSync
  BY <1>1 DEF Ending, Stopping, InSync
<1>4. Snapshot
  BY <1>1 DEF Snapshot, PollInterrupted
<1>5. Seen
  <2>1. watcher.ready = {}
    BY <1>1 DEF NoWatcher
  <2> QED BY <1>1, <2>1 DEF Seen, SeenData, SeenReady, Fresh
<1> QED BY <1>2, <1>3, <1>4, <1>5 DEF WaitsInv

\* from which the watcher is sound
LEMMA WaitsSound ==
  ASSUME Waiting
  PROVE  WatchSound
<1> USE NoSource
<1>1. /\ WatcherShape /\ WakerBinding /\ OneUser /\ Ending /\ Snapshot /\ InSync /\ Seen
  BY DEF Waiting, Routed, RouterInv, WaitsInv
<1>2. NoneForgotten
  BY <1>1 DEF NoneForgotten, Snapshot, InSync, Covered
<1>3. CleanStop
  <2>1. watcher.state = "none" => thread.pc = "gone"
    BY <1>1, WaitFacts DEF WatcherShape, ThreadT
  <2>2. ASSUME NEW s \in Sources, table[s] = Waker PROVE s \in used
    BY <1>1, <2>2 DEF WakerBinding, OneUser, Watched, WatcherShape
  <2>3. ASSUME NEW c \in Clients, svc.mode = "end", ~Readiness, client[c].pc # "idle" PROVE note[c] # <<>>
    <3>1. c \notin svc.entries /\ box[c] = <<>>
      BY <1>1, <2>3 DEF Ending, Stopping
    <3>2. note[c] \in Ends
      <4>1. <<"register">> # <<>>
        BY ShortSeqs
      <4> QED BY <2>3, <3>1, <4>1, WaitFacts DEF Placed, Fits
    <3> QED BY <3>2, ShortSeqs DEF Ends
  <2> QED BY <2>1, <2>2, <2>3 DEF CleanStop
<1> QED BY <1>1, <1>2, <1>3 DEF WatchSound, Seen

\* A service at its mailbox forgets no wait of the watcher, unless the last interrupt of the
\* watcher's source was given up for want of memory; the readiness service completes none by
\* another set's readiness; the source goes back only when nothing can raise it any more; and a
\* poller that has ended has answered everyone.
THEOREM WatchRightly == Spec => []WatchSound
<1>1. Init => HostRight /\ WaitsInv
  BY HostStarts, WaitsStart
<1>2. HostRight /\ WaitsInv /\ [Next]_vars => (HostRight /\ WaitsInv)'
  <2> SUFFICES ASSUME HostRight, WaitsInv, [Next]_vars PROVE HostRight' /\ WaitsInv'
    OBVIOUS
  <2>1. Waiting
    BY DEF HostRight, Waiting
  <2> QED BY <2>1, HostKeeps, FitNext, EndingNext, SnapNext, SyncNext, SeenNext DEF WaitsInv
<1>3. HostRight /\ WaitsInv => WatchSound
  BY WaitsSound DEF HostRight, Waiting
<1> QED BY <1>1, <1>2, <1>3, PTL DEF Spec
=============================================================================
