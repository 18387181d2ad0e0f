-------------------- MODULE DeliveryChargesProofs --------------------
(***************************************************************************)
(* The accounts of bounded inboxes: messages and bytes charged are those   *)
(* queued, in the receiver's hand and reserved by senders.  The invariant  *)
(* of DeliveryProofs says where every message is; on it stands one balance *)
(* per mailbox, and the laws of sums that each step's change of it needs.  *)
(***************************************************************************)
EXTENDS DeliveryProofs

-----------------------------------------------------------------------------
\* A balance: a count and a sum over queued, held and reserved messages.

\* n messages of z bytes are charged for the entries Q, the hand H and the
\* reservations R.
Bal(n, z, Q, H, R, f) ==
  /\ n = Cardinality(Q) + Cardinality(R) + Cardinality(H)
  /\ z = Total(Charges, Q \cup H) + Total(f, R)
Books(Q, H, R) ==
  /\ Q \subseteq Entry /\ IsFiniteSet(Q) /\ H \subseteq Entry /\ IsFiniteSet(H)
  /\ R \subseteq Senders

\* sums and cardinalities of books are numbers
LEMMA BooksTypes ==
  ASSUME NEW Q, NEW H, NEW R, Books(Q, H, R), NEW f \in [Senders -> Nat]
  PROVE  /\ IsFiniteSet(R) /\ IsFiniteSet(Q \cup H) /\ Q \cup H \subseteq Entry
         /\ Cardinality(Q) \in Nat /\ Cardinality(H) \in Nat /\ Cardinality(R) \in Nat
         /\ Total(Charges, Q \cup H) \in Int /\ Total(Charges, Q) \in Int /\ Total(f, R) \in Int
         /\ Charges \in [Entry -> Int] /\ f \in [Senders -> Int]
<1>1. IsFiniteSet(R)
  BY Const, FS_Subset DEF Books
<1>2. IsFiniteSet(Q \cup H) /\ Q \cup H \subseteq Entry
  BY FS_Union DEF Books
<1>3. Cardinality(Q) \in Nat /\ Cardinality(H) \in Nat /\ Cardinality(R) \in Nat
  BY <1>1, FS_CardinalityType DEF Books
<1>4. Charges \in [Entry -> Int]
  BY DEF Charges, Entry
<1>5. f \in [Senders -> Int]
  OBVIOUS
<1>6. Total(Charges, Q \cup H) \in Int /\ Total(Charges, Q) \in Int
  BY <1>2, <1>4, TotalType DEF Books
<1>7. Total(f, R) \in Int
  BY <1>1, <1>5, TotalType DEF Books
<1> QED BY <1>1, <1>2, <1>3, <1>4, <1>5, <1>6, <1>7

\* someone else's charge changes
LEMMA BalSame ==
  ASSUME NEW n, NEW z, NEW Q, NEW H, NEW R, NEW f \in [Senders -> Nat],
           NEW g \in [Senders -> Nat],
         Books(Q, H, R), Bal(n, z, Q, H, R, f), \A t \in R : g[t] = f[t]
  PROVE  Bal(n, z, Q, H, R, g)
<1>1. Total(f, R) = Total(g, R)
  BY BooksTypes, TotalSame
<1> QED BY <1>1 DEF Bal

\* a reservation
LEMMA BalCharge ==
  ASSUME NEW n, NEW z, NEW Q, NEW H, NEW R, NEW f \in [Senders -> Nat],
           NEW g \in [Senders -> Nat],
         Books(Q, H, R), Bal(n, z, Q, H, R, f), NEW s \in Senders, s \notin R,
         \A t \in R : g[t] = f[t]
  PROVE  Bal(n + 1, z + g[s], Q, H, R \cup {s}, g)
<1>1. Bal(n, z, Q, H, R, g)
  BY BalSame
<1>2. /\ IsFiniteSet(R) /\ g \in [Senders -> Int]
      /\ Cardinality(Q) \in Nat /\ Cardinality(H) \in Nat /\ Cardinality(R) \in Nat
      /\ Total(Charges, Q \cup H) \in Int /\ Total(g, R) \in Int
  BY BooksTypes
<1>3. Cardinality(R \cup {s}) = Cardinality(R) + 1
  BY <1>2, FS_AddElement
<1>4. Total(g, R \cup {s}) = Total(g, R) + g[s]
  BY <1>2, TotalIn DEF Books
<1>5. g[s] \in Int
  OBVIOUS
<1> QED BY <1>1, <1>2, <1>3, <1>4, <1>5 DEF Bal

\* a reservation is given back
LEMMA BalCancel ==
  ASSUME NEW n, NEW z, NEW Q, NEW H, NEW R, NEW f \in [Senders -> Nat],
           NEW g \in [Senders -> Nat],
         Books(Q, H, R), Bal(n, z, Q, H, R, f), NEW s \in R, \A t \in R \ {s} : g[t] = f[t]
  PROVE  Bal(n - 1, z - f[s], Q, H, R \ {s}, g)
<1>1. /\ IsFiniteSet(R) /\ f \in [Senders -> Int]
      /\ Cardinality(Q) \in Nat /\ Cardinality(H) \in Nat /\ Cardinality(R) \in Nat
      /\ Total(Charges, Q \cup H) \in Int /\ Total(f, R) \in Int
  BY BooksTypes
<1>2. Cardinality(R \ {s}) = Cardinality(R) - 1
  BY <1>1, FS_RemoveElement
<1>3. Total(f, R) = f[s] + Total(f, R \ {s})
  BY <1>1, TotalOut DEF Books
<1>4. Books(Q, H, R \ {s}) /\ s \in Senders
  BY DEF Books
<1>5. Total(f, R \ {s}) \in Int
  BY <1>4, BooksTypes
<1>6. f[s] \in Int
  BY <1>4
<1>7. Bal(n - 1, z - f[s], Q, H, R \ {s}, f)
  BY <1>1, <1>2, <1>3, <1>5, <1>6 DEF Bal
<1> QED BY <1>4, <1>7, BalSame

\* a reservation becomes an entry
LEMMA BalPut ==
  ASSUME NEW n, NEW z, NEW Q, NEW H, NEW R, NEW f \in [Senders -> Nat],
           NEW g \in [Senders -> Nat],
         Books(Q, H, R), Bal(n, z, Q, H, R, f), NEW s \in R, \A t \in R \ {s} : g[t] = f[t],
         NEW e \in Entry, e \notin Q \cup H, e.charge = f[s]
  PROVE  Bal(n, z, Q \cup {e}, H, R \ {s}, g)
<1>1. Bal(n - 1, z - f[s], Q, H, R \ {s}, g)
  BY BalCancel
<1>2. Books(Q, H, R \ {s}) /\ s \in Senders
  BY DEF Books
<1>3. /\ IsFiniteSet(Q \cup H) /\ Q \cup H \subseteq Entry /\ Charges \in [Entry -> Int]
      /\ Cardinality(Q) \in Nat /\ Cardinality(H) \in Nat /\ Cardinality(R \ {s}) \in Nat
      /\ Total(Charges, Q \cup H) \in Int /\ Total(g, R \ {s}) \in Int
  BY <1>2, BooksTypes
<1>4. Cardinality(Q \cup {e}) = Cardinality(Q) + 1
  BY FS_AddElement DEF Books
<1>5. Total(Charges, (Q \cup H) \cup {e}) = Total(Charges, Q \cup H) + Charges[e]
  BY <1>3, TotalIn
<1>6. Charges[e] = f[s] /\ (Q \cup {e}) \cup H = (Q \cup H) \cup {e}
  BY DEF Charges
<1>7. f[s] \in Int
  BY <1>2
<1>8. Total(Charges, (Q \cup {e}) \cup H) = Total(Charges, Q \cup H) + f[s]
  BY <1>5, <1>6
<1>9. n \in Int /\ z \in Int
  <2>1. Total(f, R) \in Int /\ Cardinality(R) \in Nat
    BY BooksTypes
  <2> QED BY <1>3, <2>1 DEF Bal
<1> QED BY <1>1, <1>3, <1>4, <1>7, <1>8, <1>9 DEF Bal

\* an entry goes into the hand
LEMMA BalTake ==
  ASSUME NEW n, NEW z, NEW Q, NEW R, NEW f \in [Senders -> Nat],
         Books(Q, {}, R), Bal(n, z, Q, {}, R, f), NEW e \in Q
  PROVE  Bal(n, z, Q \ {e}, {e}, R, f)
<1>1. Cardinality(Q \ {e}) = Cardinality(Q) - 1
  BY FS_RemoveElement DEF Books
<1>2. Cardinality({e}) = 1 /\ Cardinality({}) = 0
  BY FS_Singleton, FS_EmptySet
<1>3. (Q \ {e}) \cup {e} = Q \cup {}
  OBVIOUS
<1>4. Cardinality(Q) \in Nat /\ Cardinality(R) \in Nat
  BY BooksTypes
<1>5. z = Total(Charges, (Q \ {e}) \cup {e}) + Total(f, R)
  BY <1>3 DEF Bal
<1>6. n = Cardinality(Q) + Cardinality(R)
  BY <1>2, <1>4 DEF Bal
<1>7. n = Cardinality(Q \ {e}) + Cardinality(R) + Cardinality({e})
  BY <1>1, <1>2, <1>4, <1>6
<1> QED BY <1>5, <1>7 DEF Bal

\* and its charge is given back
LEMMA BalTaken ==
  ASSUME NEW n, NEW z, NEW Q, NEW R, NEW f \in [Senders -> Nat], NEW e \in Entry, e \notin Q,
         Books(Q, {e}, R), Bal(n, z, Q, {e}, R, f)
  PROVE  Bal(n - 1, z - e.charge, Q, {}, R, f)
<1>1. Cardinality({e}) = 1 /\ Cardinality({}) = 0
  BY FS_Singleton, FS_EmptySet
<1>2. /\ Cardinality(Q) \in Nat /\ Cardinality(R) \in Nat /\ Charges \in [Entry -> Int]
      /\ Total(Charges, Q) \in Int /\ Total(f, R) \in Int
  BY BooksTypes
<1>3. Total(Charges, Q \cup {e}) = Total(Charges, Q) + Charges[e]
  BY <1>2, TotalIn DEF Books
<1>4. Charges[e] = e.charge /\ e.charge \in Int /\ Q \cup {} = Q
  BY DEF Charges, Entry
<1>5. n = Cardinality(Q) + Cardinality(R) + 1 /\ z = Total(Charges, Q) + e.charge + Total(f, R)
  BY <1>1, <1>3, <1>4 DEF Bal
<1> QED BY <1>1, <1>2, <1>4, <1>5 DEF Bal

\* all entries go, with their charges
LEMMA BalDrain ==
  ASSUME NEW n, NEW z, NEW Q, NEW R, NEW f \in [Senders -> Nat],
         Books(Q, {}, R), Bal(n, z, Q, {}, R, f)
  PROVE  Bal(n - Cardinality(Q), z - Total(Charges, Q), {}, {}, R, f)
<1>1. Cardinality({}) = 0 /\ Total(Charges, {}) = 0 /\ Q \cup {} = Q
  BY FS_EmptySet, TotalPick
<1>2. /\ Cardinality(Q) \in Nat /\ Cardinality(R) \in Nat
      /\ Total(Charges, Q) \in Int /\ Total(f, R) \in Int
  BY BooksTypes
<1>3. {} \cup {} = {}
  OBVIOUS
<1> QED BY <1>1, <1>2, <1>3 DEF Bal

\* empty books
LEMMA BalNew ==
  ASSUME NEW f PROVE Bal(0, 0, {}, {}, {}, f)
<1>1. Cardinality({}) = 0 /\ Total(Charges, {}) = 0 /\ Total(f, {}) = 0
  BY FS_EmptySet, TotalPick
<1>2. {} \cup {} = {}
  OBVIOUS
<1> QED BY <1>1, <1>2 DEF Bal

\* A sum of charges is not negative.
LEMMA TotalNat ==
  ASSUME NEW D, NEW f \in [D -> Nat], NEW S0, S0 \subseteq D, IsFiniteSet(S0)
  PROVE  Total(f, S0) \in Nat
<1> DEFINE W == {T \in SUBSET S0 : Total(f, T) \notin Nat}
<1>1. SUFFICES ASSUME W # {} PROVE FALSE
  OBVIOUS
<1>2. \A T \in W : IsFiniteSet(T)
  BY FS_Subset
<1>3. PICK T \in W : \A U \in W : Cardinality(T) <= Cardinality(U)
  BY <1>1, <1>2, Smallest
<1>4. IsFiniteSet(T) /\ T \subseteq D /\ Total(f, T) \notin Nat
  BY <1>2, <1>3
<1>5. T # {}
  <2>1. T = {} => Total(f, T) = 0
    BY <1>4, TotalPick
  <2> QED BY <1>4, <2>1
<1>6. PICK x \in T : x = Pick(T)
  BY <1>5, PickIn
<1>7. T \ {x} \notin W
  BY <1>3, <1>4, Fewer
<1>8. Total(f, T \ {x}) \in Nat /\ f[x] \in Nat
  BY <1>4, <1>7
<1>9. Total(f, T) = f[x] + Total(f, T \ {x})
  BY <1>4, <1>5, <1>6, TotalPick
<1> QED BY <1>4, <1>8, <1>9

-----------------------------------------------------------------------------
\* The account of one mailbox.

\* A mailbox's books are in balance.
Balance(x) ==
  Bal(acb[x].messages, acb[x].bytes, Queued(x), Holding(x), Reserved(x), Owed(snd))

\* An account: what is charged is what is there, within the limits, and a mailbox
\* without a limit is not charged.
Account(x) ==
  /\ acb[x].bounded => Balance(x)
  /\ acb[x].messages <= MaxMessages /\ acb[x].bytes <= MaxBytes
  /\ ~acb[x].bounded => acb[x].messages = 0 /\ acb[x].bytes = 0
Accounts == \A x \in Actors : Account(x)

\* the charges of senders
LEMMA OwedType ==
  /\ Types => Owed(snd) \in [Senders -> Nat] /\ \A s \in Senders : Owed(snd)[s] = snd[s].charge
  /\ Types' => Owed(snd') \in [Senders -> Nat]
       /\ \A s \in Senders : Owed(snd')[s] = snd'[s].charge
<1>1. \A s \in Senders : Types => snd[s].charge \in Nat
  BY SndType DEF Types
<1>2. \A s \in Senders : Types' => snd'[s].charge \in Nat
  BY SndType DEF Types
<1> QED BY <1>1, <1>2 DEF Owed

\* what is queued for an actor
LEMMA QueuedHas ==
  ASSUME NEW x, NEW e PROVE e \in Queued(x) <=> e.to = x /\ \E b \in Blocks : e \in blk[b].q
  BY DEF Queued

\* the same after a step
LEMMA QueuedHasNext ==
  ASSUME NEW x, NEW e PROVE e \in Queued(x)' <=> e.to = x /\ \E b \in Blocks : e \in blk'[b].q
  BY DEF Queued

\* Whoever holds the block of a bounded mailbox is who its messages are for.
LEMMA OwnMail ==
  ASSUME IInv, NEW x \in Actors, NEW b \in Blocks, Holds(x, b), NEW e \in blk[b].q
  PROVE  /\ acb[x].bounded => e.to = x
         /\ acb[e.to].bounded => e.to = x
<1>1. Types /\ BlocksOK
  BY Parts
<1>2. e.to \in Actors
  BY <1>1, EntryTo
<1>3. blk[b].owner = IF acb[x].bounded THEN x ELSE None
  BY <1>1 DEF BlocksOK, Kept3
<1>4. blk[b].owner = IF acb[e.to].bounded THEN e.to ELSE None
  BY <1>1 DEF BlocksOK, Kept6
<1> QED BY <1>2, <1>3, <1>4, Const

\* A message for a bounded mailbox is in the block its actor holds.
LEMMA MailAt ==
  ASSUME IInv, NEW b \in Blocks, NEW e \in blk[b].q, acb[e.to].bounded
  PROVE  Holds(e.to, b) /\ acb[e.to].life \in {"built", "claimed"}
<1>1. Types /\ BlocksOK
  BY Parts
<1> QED BY <1>1 DEF BlocksOK, Kept6, Holds

\* so what is queued for it is its rings
LEMMA QueuedIs ==
  ASSUME IInv, NEW x \in Actors, acb[x].bounded
  PROVE  /\ \A b \in Blocks : Holds(x, b) => Queued(x) = blk[b].q
         /\ Queued(x) \subseteq Entry /\ IsFiniteSet(Queued(x))
<1>1. Types
  BY Parts
<1>2. ASSUME NEW b \in Blocks, Holds(x, b) PROVE Queued(x) = blk[b].q
  <2>1. \A e \in blk[b].q : e \in Queued(x)
    BY <1>2, OwnMail, QueuedHas
  <2>2. ASSUME NEW e \in Queued(x) PROVE e \in blk[b].q
    <3>1. PICK c \in Blocks : e \in blk[c].q /\ e.to = x
      BY <2>2, QueuedHas
    <3>2. Holds(x, c)
      BY <3>1, MailAt
    <3>3. c = b
      BY <1>2, <3>2 DEF Holds
    <3> QED BY <3>1, <3>3
  <2> QED BY <2>1, <2>2
<1>3. CASE \E b \in Blocks : Holds(x, b)
  <2>1. PICK b \in Blocks : Holds(x, b)
    BY <1>3
  <2>2. blk[b].q \subseteq Entry /\ IsFiniteSet(blk[b].q)
    BY <1>1, BlkType DEF Types
  <2> QED BY <1>2, <2>1, <2>2
<1>4. CASE ~\E b \in Blocks : Holds(x, b)
  <2>1. Queued(x) = {}
    <3>1. SUFFICES ASSUME NEW e \in Queued(x) PROVE FALSE
      OBVIOUS
    <3>2. PICK c \in Blocks : e \in blk[c].q /\ e.to = x
      BY <3>1, QueuedHas
    <3> QED BY <1>4, <3>2, MailAt
  <2> QED BY <1>2, <2>1, FS_EmptySet
<1> QED BY <1>3, <1>4

\* the books of a bounded mailbox
LEMMA BooksOf ==
  ASSUME IInv, NEW x \in Actors, acb[x].bounded
  PROVE  Books(Queued(x), Holding(x), Reserved(x))
<1>1. Types
  BY Parts
<1>2. acb[x].hand \in Entry \cup {NoEntry}
  BY <1>1, AcbType DEF Types
<1>3. Holding(x) \subseteq Entry /\ IsFiniteSet(Holding(x))
  BY <1>2, FS_Singleton, FS_EmptySet DEF Holding
<1> QED BY <1>3, QueuedIs DEF Books, Reserved

\* What a sender has reserved is at the mailbox it sends to.
LEMMA ReservedTo ==
  ASSUME IInv, NEW s \in Senders, snd[s].send_to # None
  PROVE  /\ snd[s].send_to \in Actors /\ acb[snd[s].send_to].bounded
         /\ acb[snd[s].send_to].var # "unborn" /\ snd[s].to = snd[s].send_to
<1>1. SenderOK(s) /\ Types
  BY Parts
<1>2. snd[s].pc \in {"copy", "pin", "lock", "publish"}
  <2>1. snd[s].pc \in Steps
    BY <1>1, SndType DEF Types
  <2> QED BY <1>1, <2>1 DEF SenderOK, Steps, Parkable
<1> QED BY <1>1, <1>2 DEF SenderOK

\* A message of a sender is not in a ring nor in a hand.
LEMMA MailNew ==
  ASSUME IInv, NEW s \in Senders, snd[s].pc \notin {"idle", "gone", "copy", "pin"},
           NEW x \in Actors
  PROVE  Mail(s) \notin Queued(x) \cup Holding(x)
<1>1. Types /\ Places
  BY Parts
<1>2. PICK m \in Messages : m = snd[s].m
  BY SendTo
<1>3. s \in InSend(m)
  BY <1>2 DEF InSend
<1>4. InRing(m) = {} /\ InHand(m) = {}
  BY <1>1, <1>3, AtSender DEF Places
<1>5. Mail(s).m = m
  BY <1>2 DEF Mail
<1>6. Mail(s) \notin Queued(x)
  BY <1>4, <1>5, QueuedHas DEF InRing, Roots
<1>7. Mail(s) \notin Holding(x)
  BY <1>4, <1>5 DEF InHand, Holding
<1> QED BY <1>6, <1>7

\* An entry is in one ring, and no hand holds what is queued.
LEMMA MailOnce ==
  ASSUME IInv, NEW b \in Blocks, NEW e \in blk[b].q
  PROVE  /\ \A c \in Blocks : e \in blk[c].q => c = b
         /\ \A a \in Actors : acb[a].hand # e
<1>1. Types /\ Places
  BY Parts
<1>2. PICK m \in Messages : m = e.m
  BY <1>1, EntryTo
<1>3. b \in InRing(m)
  BY <1>2 DEF InRing, Roots
<1>4. InRing(m) = {b} /\ InHand(m) = {}
  BY <1>1, <1>3, AtRing DEF Places
<1>5. \A c \in Blocks : e \in blk[c].q => c \in InRing(m)
  BY <1>2 DEF InRing, Roots
<1>6. \A a \in Actors : acb[a].hand = e => a \in InHand(m)
  BY <1>2 DEF InHand
<1> QED BY <1>4, <1>5, <1>6

\* One account's counts stay, and what is owed to it.
CountsSame(x) ==
  /\ acb'[x].bounded = acb[x].bounded /\ acb'[x].messages = acb[x].messages
  /\ acb'[x].bytes = acb[x].bytes
OwesSame(x) == \A t \in Reserved(x) : snd'[t].charge = snd[t].charge

\* Nothing of an actor's account moves.
LEMMA AccountQuiet ==
  ASSUME IInv, IInv', NEW x \in Actors, Account(x), CountsSame(x), OwesSame(x),
         acb[x].bounded =>
           Queued(x)' = Queued(x) /\ Reserved(x)' = Reserved(x) /\ Holding(x)' = Holding(x)
  PROVE  Account(x)'
<1>1. Types /\ Types'
  BY Parts DEF IInv
<1>2. ASSUME acb[x].bounded PROVE Balance(x)'
  <2>1. Books(Queued(x), Holding(x), Reserved(x)) /\ Reserved(x) \subseteq Senders
    BY <1>2, BooksOf DEF Books
  <2>2. Balance(x)
    BY <1>2 DEF Account
  <2>3. \A t \in Reserved(x) : Owed(snd')[t] = Owed(snd)[t]
    BY <1>1, <2>1, OwedType DEF OwesSame
  <2>4. Bal(acb[x].messages, acb[x].bytes, Queued(x), Holding(x), Reserved(x), Owed(snd'))
    BY <1>1, <2>1, <2>2, <2>3, OwedType, BalSame DEF Balance
  <2> QED BY <1>2, <2>4 DEF Balance, CountsSame
<1> QED BY <1>2 DEF Account, CountsSame

\* no ring changes
LEMMA QueuedSame == ASSUME QsSame, NEW x PROVE Queued(x)' = Queued(x)
<1>1. \A e : e \in Queued(x)' <=> e \in Queued(x)
  BY QueuedHas, QueuedHasNext DEF QsSame
<1> QED BY <1>1 DEF Queued

\* no hand changes
LEMMA HoldingSame == ASSUME NEW x, acb'[x].hand = acb[x].hand PROVE Holding(x)' = Holding(x)
  BY DEF Holding

\* Whatever the senders do, their reservations stay.
SendsSame ==
  \A t \in Senders : /\ snd'[t].send_to = snd[t].send_to
                     /\ snd[t].send_to # None => snd'[t].charge = snd[t].charge

\* then neither do the books
LEMMA ReservedSame ==
  ASSUME SendsSame, NEW x \in Actors PROVE Reserved(x)' = Reserved(x) /\ OwesSame(x)
<1>1. x # None
  BY Const
<1> QED BY <1>1 DEF SendsSame, Reserved, OwesSame

\* a step that moves no charge
LEMMA AccountsQuiet ==
  ASSUME IInv, IInv', Accounts, SendsSame, QsSame,
         \A x \in Actors : CountsSame(x) /\ acb'[x].hand = acb[x].hand
  PROVE  Accounts'
<1>1. SUFFICES ASSUME NEW x \in Actors PROVE Account(x)'
  BY DEF Accounts
<1>2. Account(x)
  BY DEF Accounts
<1> QED BY <1>2, AccountQuiet, QueuedSame, ReservedSame, HoldingSame

\* no mailbox changes
LEMMA CountsUnchanged ==
  ASSUME UNCHANGED acb PROVE \A x \in Actors : CountsSame(x) /\ acb'[x].hand = acb[x].hand
  BY DEF CountsSame

\* no sender changes
LEMMA SendsUnchanged == ASSUME UNCHANGED snd PROVE SendsSame
  BY DEF SendsSame

\* one sender changes, and keeps its reservation
LEMMA SendsOne ==
  ASSUME NEW s \in Senders, Others(s), snd'[s].send_to = snd[s].send_to,
         snd[s].send_to # None => snd'[s].charge = snd[s].charge
  PROVE  SendsSame
  BY DEF SendsSame, Others

\* An actor's own step, its counts and its hand left alone.
LEMMA CountsOnly ==
  ASSUME NEW a \in Actors, Only(a), \A x \in Actors : x # a => acb'[x] = acb[x],
         acb'[a].messages = acb[a].messages, acb'[a].bytes = acb[a].bytes,
         acb'[a].hand = acb[a].hand
  PROVE  \A x \in Actors : CountsSame(x) /\ acb'[x].hand = acb[x].hand
<1>1. CountsSame(a)
  BY DEF CountsSame, Only
<1>2. \A x \in Actors : x # a => CountsSame(x) /\ acb'[x].hand = acb[x].hand
  BY DEF CountsSame
<1> QED BY <1>1, <1>2

-----------------------------------------------------------------------------
\* Steps that move no charge.

\* The shape of every step that leaves the accounts alone.
LEMMA QuietOne ==
  ASSUME IInv, IInv', Accounts, NEW s \in Senders, Others(s), QsSame,
         snd'[s].send_to = snd[s].send_to,
         snd[s].send_to # None => snd'[s].charge = snd[s].charge,
         \A x \in Actors : CountsSame(x) /\ acb'[x].hand = acb[x].hand
  PROVE  Accounts'
  BY SendsOne, AccountsQuiet

\* a step of no sender that moves no charge
LEMMA QuietHome ==
  ASSUME IInv, IInv', Accounts, UNCHANGED snd, QsSame,
         \A x \in Actors : CountsSame(x) /\ acb'[x].hand = acb[x].hand
  PROVE  Accounts'
  BY SendsUnchanged, AccountsQuiet

\* a reservation is only there while it can be cancelled
LEMMA IdledSends ==
  ASSUME IInv, NEW s \in Senders, snd[s].pc \notin {"copy", "pin", "lock", "publish"}
  PROVE  snd[s].send_to = None
<1>1. SenderOK(s) /\ Types
  BY Parts
<1>2. snd[s].pc \in Steps
  BY <1>1, SndType DEF Types
<1> QED BY <1>1, <1>2 DEF SenderOK, Steps, Parkable

\* each step that moves no charge, from here on
LEMMA ChargesRefused ==
  ASSUME IInv, IInv', Accounts, NEW s \in Senders, NEW a \in Actors, Refused(s, a)
  PROVE  Accounts'
<1>1. Types
  BY Parts
<1>2. /\ snd[s].pc = "idle" /\ UNCHANGED <<acb, blk, rc, out, sp>> /\ Others(s)
      /\ snd'[s].send_to = snd[s].send_to
  BY <1>1, RefusedEffect
<1>3. snd[s].send_to = None
  BY <1>2, IdledSends
<1>4. QsSame /\ \A x \in Actors : CountsSame(x) /\ acb'[x].hand = acb[x].hand
  BY <1>2, QsUnchanged, CountsUnchanged
<1> QED BY <1>2, <1>3, <1>4, QuietOne

LEMMA ChargesCopy ==
  ASSUME IInv, IInv', Accounts, NEW s \in Senders, Copy(s)
  PROVE  Accounts'
<1>1. UNCHANGED <<acb, blk>> /\ Others(s) /\ SameSnd(s)
  BY Parts, CopyEffect
<1>2. QsSame /\ \A x \in Actors : CountsSame(x) /\ acb'[x].hand = acb[x].hand
  BY <1>1, QsUnchanged, CountsUnchanged
<1> QED BY <1>1, <1>2, QuietOne DEF SameSnd

LEMMA ChargesPin ==
  ASSUME IInv, IInv', Accounts, NEW s \in Senders, Pin(s)
  PROVE  Accounts'
<1>1. snd[s].pc = "pin"
  BY DEF Pin, Ready
<1>2. snd[s].m \in Messages
  BY <1>1, SendTo
<1>3. /\ UNCHANGED <<acb, blk>> /\ Others(s)
      /\ snd'[s].charge = snd[s].charge /\ snd'[s].send_to = snd[s].send_to
  BY <1>2, Parts, PinEffect
<1>4. QsSame /\ \A x \in Actors : CountsSame(x) /\ acb'[x].hand = acb[x].hand
  BY <1>3, QsUnchanged, CountsUnchanged
<1> QED BY <1>3, <1>4, QuietOne

LEMMA ChargesCheck ==
  ASSUME IInv, IInv', Accounts, NEW s \in Senders, Check(s)
  PROVE  Accounts'
<1>1. /\ snd[s].pc = "check" /\ UNCHANGED <<acb, blk>> /\ Others(s)
      /\ Idled(s) \/ SameSnd(s)
  BY Parts, CheckEffect
<1>2. snd[s].send_to = None /\ snd'[s].send_to = None
  BY <1>1, IdledSends DEF Idled, SameSnd
<1>3. QsSame /\ \A x \in Actors : CountsSame(x) /\ acb'[x].hand = acb[x].hand
  BY <1>1, QsUnchanged, CountsUnchanged
<1> QED BY <1>1, <1>2, <1>3, QuietOne

LEMMA ChargesResolve ==
  ASSUME IInv, IInv', Accounts, NEW s \in Senders, Resolve(s)
  PROVE  Accounts'
<1>1. snd[s].pc = "resolve"
  BY DEF Resolve, Ready
<1>2. snd[s].to \in Actors
  BY <1>1, SendTo
<1>3. /\ UNCHANGED <<acb, blk>> /\ Others(s)
      /\ snd'[s].charge = snd[s].charge /\ snd'[s].send_to = snd[s].send_to
  BY <1>2, Parts, ResolveEffect
<1>4. QsSame /\ \A x \in Actors : CountsSame(x) /\ acb'[x].hand = acb[x].hand
  BY <1>3, QsUnchanged, CountsUnchanged
<1> QED BY <1>3, <1>4, QuietOne

LEMMA ChargesFault ==
  ASSUME IInv, IInv', Accounts, NEW s \in Senders, Fault(s)
  PROVE  Accounts'
<1>1. UNCHANGED <<acb, blk>> /\ Others(s) /\ SameSnd(s)
  BY Parts, FaultEffect
<1>2. QsSame /\ \A x \in Actors : CountsSame(x) /\ acb'[x].hand = acb[x].hand
  BY <1>1, QsUnchanged, CountsUnchanged
<1> QED BY <1>1, <1>2, QuietOne DEF SameSnd

LEMMA ChargesPushLook ==
  ASSUME IInv, IInv', Accounts, NEW s \in Senders, PushLook(s)
  PROVE  Accounts'
<1>1. /\ snd[s].pc = "push" /\ UNCHANGED <<acb, blk>> /\ Others(s)
      /\ Idled(s) \/ SameSnd(s)
  BY Parts, PushLookEffect
<1>2. snd[s].send_to = None /\ snd'[s].send_to = None
  BY <1>1, IdledSends DEF Idled, SameSnd
<1>3. QsSame /\ \A x \in Actors : CountsSame(x) /\ acb'[x].hand = acb[x].hand
  BY <1>1, QsUnchanged, CountsUnchanged
<1> QED BY <1>1, <1>2, <1>3, QuietOne

LEMMA ChargesGrow ==
  ASSUME IInv, IInv', Accounts, NEW s \in Senders, Grow(s)
  PROVE  Accounts'
<1>1. snd[s].pc = "grow"
  BY DEF Grow, Ready
<1>2. snd[s].c \in Blocks
  BY <1>1, Parts DEF SenderOK
<1>3. UNCHANGED acb /\ Others(s) /\ SameBlks /\ (Idled(s) \/ SameSnd(s))
  BY <1>2, Parts, GrowEffect
<1>4. snd[s].send_to = None /\ snd'[s].send_to = None
  BY <1>1, <1>3, IdledSends DEF Idled, SameSnd
<1>5. QsSame /\ \A x \in Actors : CountsSame(x) /\ acb'[x].hand = acb[x].hand
  BY <1>3, QsBlks, CountsUnchanged
<1> QED BY <1>3, <1>4, <1>5, QuietOne

LEMMA ChargesKillSender ==
  ASSUME IInv, IInv', Accounts, NEW s \in Senders, KillSender(s)
  PROVE  Accounts'
<1>1. /\ UNCHANGED <<acb, blk>> /\ Others(s)
      /\ snd'[s].charge = snd[s].charge /\ snd'[s].send_to = snd[s].send_to
  BY Parts, KillSenderEffect
<1>2. QsSame /\ \A x \in Actors : CountsSame(x) /\ acb'[x].hand = acb[x].hand
  BY <1>1, QsUnchanged, CountsUnchanged
<1> QED BY <1>1, <1>2, QuietOne

LEMMA ChargesEndTurn ==
  ASSUME IInv, IInv', Accounts, NEW a \in Actors, EndTurn(a)
  PROVE  Accounts'
<1>1. Types
  BY Parts
<1>2. /\ UNCHANGED <<blk, snd>> /\ Only(a) /\ acb'[a].hand = acb[a].hand
      /\ acb'[a].messages = acb[a].messages /\ acb'[a].bytes = acb[a].bytes
  BY <1>1, EndTurnEffect
<1>3. \A x \in Actors : x # a => acb'[x] = acb[x]
  BY <1>1 DEF Types, EndTurn
<1> QED BY <1>2, <1>3, QuietHome, CountsOnly, QsUnchanged

LEMMA ChargesKill ==
  ASSUME IInv, IInv', Accounts, NEW a \in Actors, Kill(a)
  PROVE  Accounts'
<1>1. Types
  BY Parts
<1>2. /\ UNCHANGED <<blk, snd>> /\ Only(a) /\ acb'[a].hand = acb[a].hand
      /\ acb'[a].messages = acb[a].messages /\ acb'[a].bytes = acb[a].bytes
  BY <1>1, KillEffect
<1>3. \A x \in Actors : x # a => acb'[x] = acb[x]
  BY <1>1 DEF Types, Kill
<1> QED BY <1>2, <1>3, QuietHome, CountsOnly, QsUnchanged

LEMMA ChargesClaim ==
  ASSUME IInv, IInv', Accounts, NEW a \in Actors, Claim(a)
  PROVE  Accounts'
<1>1. Types
  BY Parts
<1>2. /\ UNCHANGED <<blk, snd>> /\ Only(a) /\ acb'[a].hand = acb[a].hand
      /\ acb'[a].messages = acb[a].messages /\ acb'[a].bytes = acb[a].bytes
  BY <1>1, ClaimEffect
<1>3. \A x \in Actors : x # a => acb'[x] = acb[x]
  BY <1>1 DEF Types, Claim
<1> QED BY <1>2, <1>3, QuietHome, CountsOnly, QsUnchanged

LEMMA ChargesLimbo ==
  ASSUME IInv, IInv', Accounts, NEW a \in Actors, Limbo(a)
  PROVE  Accounts'
<1>1. Types /\ LivesOK
  BY Parts
<1>2. PICK b \in Blocks : b = acb[a].ch
  BY <1>1, BlockOf DEF Limbo
<1>3. /\ UNCHANGED snd /\ Only(a) /\ acb'[a].hand = acb[a].hand
      /\ acb'[a].messages = acb[a].messages /\ acb'[a].bytes = acb[a].bytes
      /\ \A c \in Blocks : c # b => blk'[c] = blk[c]
      /\ blk'[b].q = blk[b].q
  BY <1>1, <1>2, LimboEffect
<1>4. \A x \in Actors : x # a => acb'[x] = acb[x]
  BY <1>1 DEF Types, Limbo
<1>5. QsSame
  BY <1>3 DEF QsSame
<1> QED BY <1>3, <1>4, <1>5, QuietHome, CountsOnly

LEMMA ChargesClear ==
  ASSUME IInv, IInv', Accounts, NEW a \in Actors, Clear(a)
  PROVE  Accounts'
<1>1. Types
  BY Parts
<1>2. /\ UNCHANGED <<blk, snd>> /\ Only(a) /\ acb'[a].hand = acb[a].hand
      /\ acb'[a].messages = acb[a].messages /\ acb'[a].bytes = acb[a].bytes
  BY <1>1, ClearEffect
<1>3. \A x \in Actors : x # a => acb'[x] = acb[x]
  BY <1>1 DEF Types, Clear
<1> QED BY <1>2, <1>3, QuietHome, CountsOnly, QsUnchanged

\* The hart's turn and the spawner's steps that change no ring.
LEMMA ChargesTurn ==
  ASSUME IInv, IInv', Accounts, NEW h \in Harts, Turn(h)
  PROVE  Accounts'
<1>1. UNCHANGED <<acb, snd>> /\ \A b \in Blocks : blk'[b].q = blk[b].q
  BY Parts, TurnEffect
<1> QED BY <1>1, QuietHome, CountsUnchanged DEF QsSame

LEMMA ChargesTakeBlock ==
  ASSUME IInv, IInv', Accounts, NEW b \in Blocks, TakeBlock(b)
  PROVE  Accounts'
<1>1. /\ UNCHANGED <<acb, snd>> /\ \A c \in Blocks : c # b => blk'[c] = blk[c]
      /\ blk'[b].q = blk[b].q
  BY Parts, TakeBlockEffect
<1>2. QsSame
  BY <1>1 DEF QsSame
<1> QED BY <1>1, <1>2, QuietHome, CountsUnchanged

LEMMA ChargesRolledBack ==
  ASSUME IInv, IInv', Accounts, UNCHANGED <<acb, snd>>, RolledBack
  PROVE  Accounts'
<1>1. QsSame
  <2>1. CASE "channels" \notin Got
    BY <2>1, QsUnchanged DEF RolledBack
  <2>2. CASE "channels" \in Got
    BY <2>2 DEF RolledBack, QsSame
  <2> QED BY <2>1, <2>2
<1> QED BY <1>1, QuietHome, CountsUnchanged

LEMMA ChargesDeny ==
  ASSUME IInv, IInv', Accounts, Deny
  PROVE  Accounts'
<1>1. Types /\ SpawnerOK
  BY Parts
<1>2. sp.pc = "reserve"
  BY DEF Deny
<1>3. sp.cleanup
  BY <1>1, <1>2 DEF SpawnerOK
<1>4. "channels" \in Got => sp.ch \in Blocks
  BY <1>2, <1>3, RecordBlock
<1> QED BY <1>1, <1>4, DenyEffect, ChargesRolledBack

LEMMA ChargesReapSpawner ==
  ASSUME IInv, IInv', Accounts, ReapSpawner
  PROVE  Accounts'
<1>1. Types /\ SpawnerOK
  BY Parts
<1>2. sp.pc \in {"idle", "reserve"}
  BY DEF ReapSpawner
<1>3. sp.cleanup <=> sp.pc = "reserve"
  BY <1>1, <1>2 DEF SpawnerOK
<1>4. "channels" \in Got => sp.ch \in Blocks \/ ~sp.cleanup
  BY <1>3, RecordBlock
<1>5. /\ UNCHANGED <<acb, snd>>
      /\ sp.cleanup => RolledBack
      /\ ~sp.cleanup => UNCHANGED blk
  BY <1>1, <1>4, ReapSpawnerEffect
<1>6. CASE sp.cleanup
  BY <1>5, <1>6, ChargesRolledBack
<1>7. CASE ~sp.cleanup
  BY <1>5, <1>7, QuietHome, CountsUnchanged, QsUnchanged
<1> QED BY <1>6, <1>7

LEMMA ChargesSpOnly ==
  ASSUME IInv, IInv', Accounts, UNCHANGED <<acb, blk, snd>>
  PROVE  Accounts'
  BY QuietHome, CountsUnchanged, QsUnchanged

-----------------------------------------------------------------------------
\* Steps that reserve, cancel and publish.

\* what a reservation, a release and a drain do to the counts
LEMMA ChargeIs ==
  ASSUME NEW x \in Acb, NEW z \in Nat
  PROVE  /\ Charge(x, z).messages = x.messages + 1 /\ Charge(x, z).bytes = x.bytes + z
         /\ Charge(x, z).bounded = x.bounded /\ Charge(x, z).hand = x.hand
<1> DEFINE R == [x EXCEPT !.messages = x.messages + 1, !.bytes = x.bytes + z]
<1>1. /\ R.messages = x.messages + 1 /\ R.bytes = x.bytes + z
      /\ R.bounded = x.bounded /\ R.hand = x.hand
  BY DEF Acb
<1>2. Charge(x, z) = R
  BY DEF Charge
<1> HIDE DEF R
<1> QED BY <1>1, <1>2

\* a release
LEMMA ReleaseIs ==
  ASSUME NEW x \in Acb, NEW z \in Nat
  PROVE  /\ x.bounded => /\ Release(x, z).messages = x.messages - 1
                         /\ Release(x, z).bytes = x.bytes - z
         /\ ~x.bounded => Release(x, z) = x
         /\ Release(x, z).bounded = x.bounded /\ Release(x, z).hand = x.hand
<1> DEFINE R == [x EXCEPT !.messages = x.messages - 1, !.bytes = x.bytes - z]
<1>1. R.messages = x.messages - 1 /\ R.bytes = x.bytes - z
  BY DEF Acb
<1>2. Release(x, z) = IF x.bounded THEN R ELSE x
  BY DEF Release
<1>3. Release(x, z).bounded = x.bounded /\ Release(x, z).hand = x.hand
  BY ReleaseKeeps DEF Core
<1> HIDE DEF R
<1> QED BY <1>1, <1>2, <1>3

\* a drain: the sums of the model are totals
LEMMA ReleaseAllIs ==
  ASSUME NEW x \in Acb, NEW es, es \subseteq Entry, IsFiniteSet(es)
  PROVE  /\ x.bounded => /\ ReleaseAll(x, es).messages = x.messages - Cardinality(es)
                         /\ ReleaseAll(x, es).bytes = x.bytes - Total(Charges, es)
         /\ ~x.bounded => ReleaseAll(x, es) = x
         /\ ReleaseAll(x, es).bounded = x.bounded /\ ReleaseAll(x, es).hand = x.hand
<1> DEFINE R == [x EXCEPT !.messages = x.messages - Cardinality(es),
                          !.bytes = x.bytes - ChargeSum(es)]
<1>1. R.messages = x.messages - Cardinality(es) /\ R.bytes = x.bytes - ChargeSum(es)
  BY DEF Acb
<1>2. ReleaseAll(x, es) = IF x.bounded THEN R ELSE x
  BY DEF ReleaseAll, ChargeSum
<1>3. ReleaseAll(x, es).bounded = x.bounded /\ ReleaseAll(x, es).hand = x.hand
  BY ReleaseAllKeeps DEF Core
<1>4. ChargeSum(es) = Total(Charges, es)
  BY ChargeSumTotal
<1> HIDE DEF R
<1> QED BY <1>1, <1>2, <1>3, <1>4

\* The same counts, in a table of actors that is not yet the next one.
SameCounts(A) ==
  /\ A \in [Actors -> Acb]
  /\ \A x \in Actors : /\ A[x].messages = acb[x].messages /\ A[x].bytes = acb[x].bytes
                       /\ A[x].bounded = acb[x].bounded /\ A[x].hand = acb[x].hand

\* a lock word is no count
LEMMA ShlockCounts ==
  ASSUME Types, NEW a \in Actors, NEW v \in Senders \cup {None}
  PROVE  SameCounts([acb EXCEPT ![a].shlock = v])
<1>1. PICK x \in Acb : x = acb[a]
  BY DEF Types
<1> DEFINE R == [x EXCEPT !.shlock = v]
<1>2. /\ R \in Acb /\ R.messages = x.messages /\ R.bytes = x.bytes
      /\ R.bounded = x.bounded /\ R.hand = x.hand
  BY DEF Acb
<1>3. [acb EXCEPT ![a].shlock = v] = [acb EXCEPT ![a] = R]
  BY <1>1
<1> HIDE DEF R
<1>4. SameCounts([acb EXCEPT ![a] = R])
  BY <1>1, <1>2 DEF Types, SameCounts
<1> QED BY <1>3, <1>4

\* what SameCounts says of a step
LEMMA CountsNext ==
  ASSUME NEW A, SameCounts(A), acb' = A
  PROVE  \A x \in Actors : CountsSame(x) /\ acb'[x].hand = acb[x].hand
  BY DEF SameCounts, CountsSame

\* inbox_reserve checks both limits before it charges
LEMMA ChargesStart ==
  ASSUME IInv, IInv', Accounts, NEW s \in Senders, NEW a \in Actors, NEW kind \in Kinds,
         Start(s, a, kind)
  PROVE  Accounts'
<1>1. Types /\ Types' /\ SenderOK(s)
  BY Parts DEF IInv
<1>2. /\ snd[s].pc = "idle" /\ UNCHANGED <<blk, out, sp>> /\ Others(s)
      /\ snd'[s].send_to = IF acb[a].bounded THEN a ELSE None
      /\ snd'[s].charge = IF acb[a].bounded THEN Size[s] ELSE 0
  BY <1>1, StartEffect
<1>3. snd[s].send_to = None
  BY <1>2, IdledSends
<1>4. acb[a] \in Acb /\ Size[s] \in Nat
  BY <1>1, Const DEF Types
<1>5. CASE ~acb[a].bounded
  <2>1. acb' = acb
    BY <1>1, <1>5 DEF Start, Types
  <2> QED BY <1>2, <1>3, <1>5, <2>1, QuietOne, QsUnchanged, CountsUnchanged
<1>6. CASE acb[a].bounded
  <2>1. /\ acb' = [acb EXCEPT ![a] = Charge(acb[a], Size[s])]
        /\ acb[a].messages < MaxMessages /\ acb[a].bytes + Size[s] <= MaxBytes
    BY <1>6 DEF Start, Reservable
  <2>2. /\ acb'[a].messages = acb[a].messages + 1 /\ acb'[a].bytes = acb[a].bytes + Size[s]
        /\ acb'[a].bounded = acb[a].bounded /\ acb'[a].hand = acb[a].hand
    BY <1>1, <1>4, <2>1, ChargeIs DEF Types
  <2>3. \A x \in Actors : x # a => acb'[x] = acb[x]
    BY <1>1, <2>1 DEF Types
  <2>4. QsSame
    BY <1>2, QsUnchanged
  <2>5. ASSUME NEW x \in Actors PROVE Account(x)'
    <3>1. Account(x)
      BY DEF Accounts
    <3>2. CASE x # a
      <4>1. Reserved(x)' = Reserved(x) /\ OwesSame(x)
        BY <1>2, <1>3, <3>2, Const DEF Reserved, OwesSame, Others
      <4>2. CountsSame(x) /\ acb'[x].hand = acb[x].hand
        BY <2>3, <3>2 DEF CountsSame
      <4> QED BY <2>4, <3>1, <4>1, <4>2, AccountQuiet, QueuedSame, HoldingSame
    <3>3. CASE x = a
      <4>1. Books(Queued(a), Holding(a), Reserved(a)) /\ Reserved(a) \subseteq Senders
        BY <1>6, BooksOf DEF Books
      <4>2. s \notin Reserved(a) /\ Reserved(a)' = Reserved(a) \cup {s}
        BY <1>2, <1>3, <1>6, Const DEF Reserved, Others
      <4>3. \A t \in Reserved(a) : Owed(snd')[t] = Owed(snd)[t]
        BY <1>1, <1>2, <4>1, <4>2, OwedType DEF Others
      <4>4. Owed(snd')[s] = Size[s]
        BY <1>1, <1>2, <1>6, OwedType
      <4>5. Balance(a)
        BY <1>6, <3>1, <3>3 DEF Account
      <4>6. Bal(acb[a].messages + 1, acb[a].bytes + Owed(snd')[s], Queued(a), Holding(a),
                Reserved(a) \cup {s}, Owed(snd'))
        BY <1>1, <4>1, <4>2, <4>3, <4>5, OwedType, BalCharge DEF Balance
      <4>7. Queued(a)' = Queued(a) /\ Holding(a)' = Holding(a)
        BY <2>2, <2>4, QueuedSame, HoldingSame
      <4>8. Balance(a)'
        BY <2>2, <4>2, <4>4, <4>6, <4>7 DEF Balance
      <4>9. acb'[a].messages <= MaxMessages /\ acb'[a].bytes <= MaxBytes
        BY <1>4, <2>1, <2>2, AcbType, Const
      <4> QED BY <1>6, <2>2, <3>3, <4>8, <4>9 DEF Account
    <3> QED BY <3>2, <3>3
  <2> QED BY <2>5 DEF Accounts
<1> QED BY <1>5, <1>6

\* A reservation is given back: send_cancel, by a sender or by its reaper.
LEMMA ChargesCancel ==
  ASSUME IInv, IInv', Accounts, NEW s \in Senders, Others(s), QsSame, snd'[s].send_to = None,
         NEW A, SameCounts(A), acb' = Cancelled(s, A)
  PROVE  Accounts'
<1>1. Types /\ Types'
  BY Parts DEF IInv
<1>2. CASE snd[s].send_to = None
  <2>1. acb' = A
    BY <1>2 DEF Cancelled
  <2> QED BY <1>2, <2>1, QuietOne, CountsNext
<1>3. CASE snd[s].send_to # None
  <2>1. PICK a \in Actors : a = snd[s].send_to /\ acb[a].bounded
    BY <1>3, ReservedTo
  <2>2. snd[s].charge \in Nat /\ A[a] \in Acb
    BY <1>1, SndType DEF Types, SameCounts
  <2>3. acb' = [A EXCEPT ![a] = Release(A[a], snd[s].charge)]
    BY <1>3, <2>1 DEF Cancelled
  <2>4. acb'[a] = Release(A[a], snd[s].charge) /\ \A x \in Actors : x # a => acb'[x] = A[x]
    BY <2>3 DEF SameCounts
  <2>5. /\ A[a].messages = acb[a].messages /\ A[a].bytes = acb[a].bytes
        /\ A[a].bounded = acb[a].bounded /\ A[a].hand = acb[a].hand
    BY DEF SameCounts
  <2>6. /\ acb'[a].messages = acb[a].messages - 1
        /\ acb'[a].bytes = acb[a].bytes - snd[s].charge
        /\ acb'[a].bounded = acb[a].bounded /\ acb'[a].hand = acb[a].hand
    <3>1. PICK y \in Acb : y = A[a]
      BY <2>2
    <3>2. PICK z \in Nat : z = snd[s].charge
      BY <2>2
    <3>3. /\ Release(y, z).messages = y.messages - 1 /\ Release(y, z).bytes = y.bytes - z
          /\ Release(y, z).bounded = y.bounded /\ Release(y, z).hand = y.hand
      BY <2>1, <2>5, <3>1, ReleaseIs
    <3>4. acb'[a] = Release(y, z)
      BY <2>4, <3>1, <3>2
    <3> QED BY <2>5, <3>1, <3>2, <3>3, <3>4
  <2>7. ASSUME NEW x \in Actors PROVE Account(x)'
    <3>1. Account(x)
      BY DEF Accounts
    <3>2. CASE x # a
      <4>1. Reserved(x)' = Reserved(x) /\ OwesSame(x)
        BY <2>1, <3>2, Const DEF Reserved, OwesSame, Others
      <4>2. CountsSame(x) /\ acb'[x].hand = acb[x].hand
        BY <2>4, <3>2 DEF CountsSame, SameCounts
      <4> QED BY <3>1, <4>1, <4>2, AccountQuiet, QueuedSame, HoldingSame
    <3>3. CASE x = a
      <4>1. Books(Queued(a), Holding(a), Reserved(a)) /\ Reserved(a) \subseteq Senders
        BY <2>1, BooksOf DEF Books
      <4>2. s \in Reserved(a) /\ Reserved(a)' = Reserved(a) \ {s}
        BY <2>1, Const DEF Reserved, Others
      <4>3. \A t \in Reserved(a) \ {s} : Owed(snd')[t] = Owed(snd)[t]
        BY <1>1, <4>1, OwedType DEF Others
      <4>4. Owed(snd)[s] = snd[s].charge
        BY <1>1, OwedType
      <4>5. Balance(a)
        BY <2>1, <3>1, <3>3 DEF Account
      <4>6. Bal(acb[a].messages - 1, acb[a].bytes - Owed(snd)[s], Queued(a), Holding(a),
                Reserved(a) \ {s}, Owed(snd'))
        BY <1>1, <4>1, <4>2, <4>3, <4>5, OwedType, BalCancel DEF Balance
      <4>7. Queued(a)' = Queued(a) /\ Holding(a)' = Holding(a)
        BY <2>6, QueuedSame, HoldingSame
      <4>8. Balance(a)'
        BY <2>6, <4>2, <4>4, <4>6, <4>7 DEF Balance
      <4>9. acb[a].messages \in Int /\ acb[a].bytes \in Int
        BY <1>1, AcbType DEF Types
      <4>10. acb'[a].messages <= MaxMessages /\ acb'[a].bytes <= MaxBytes
        BY <2>2, <2>6, <3>1, <3>3, <4>9, Const DEF Account
      <4> QED BY <2>1, <2>6, <3>3, <4>8, <4>10 DEF Account
    <3> QED BY <3>2, <3>3
  <2> QED BY <2>7 DEF Accounts
<1> QED BY <1>2, <1>3

\* acb agrees with itself
LEMMA CountsSelf == ASSUME Types PROVE SameCounts(acb)
  BY DEF Types, SameCounts

\* a reaped sender
LEMMA ChargesReapSender ==
  ASSUME IInv, IInv', Accounts, NEW s \in Senders, ReapSender(s)
  PROVE  Accounts'
<1>1. Types
  BY Parts
<1>2. UNCHANGED blk /\ acb' = Cancelled(s, acb) /\ Others(s) /\ snd'[s].send_to = None
  BY <1>1, ReapSenderEffect
<1> QED BY <1>1, <1>2, ChargesCancel, CountsSelf, QsUnchanged

\* a target found dead under the lock
LEMMA ChargesLock ==
  ASSUME IInv, IInv', Accounts, NEW s \in Senders, Lock(s)
  PROVE  Accounts'
<1>1. Types
  BY Parts
<1>2. snd[s].pc = "lock"
  BY DEF Lock, Ready
<1>3. PICK a \in Actors : a = snd[s].to
  BY <1>2, SendTo
<1>4. /\ UNCHANGED blk /\ Others(s)
      /\ \/ Idled(s) /\ acb' = Cancelled(s, acb)
         \/ SameSnd(s) /\ acb' = [acb EXCEPT ![a].shlock = s]
  BY <1>1, <1>3, LockEffect
<1>5. CASE Idled(s) /\ acb' = Cancelled(s, acb)
  BY <1>1, <1>4, <1>5, ChargesCancel, CountsSelf, QsUnchanged DEF Idled
<1>6. CASE SameSnd(s) /\ acb' = [acb EXCEPT ![a].shlock = s]
  <2>1. \A x \in Actors : CountsSame(x) /\ acb'[x].hand = acb[x].hand
    BY <1>1, <1>6, ShlockCounts, CountsNext
  <2> QED BY <1>4, <1>6, <2>1, QuietOne, QsUnchanged DEF SameSnd
<1> QED BY <1>4, <1>5, <1>6

\* an entry is queued for its actor
LEMMA QueuedPut ==
  ASSUME NEW b \in Blocks, NEW e, Rings(b, blk[b].q \cup {e}), NEW x
  PROVE  /\ e.to # x => Queued(x)' = Queued(x)
         /\ e.to = x => Queued(x)' = Queued(x) \cup {e}
<1>1. \A f : f \in Queued(x)' <=> f \in Queued(x) \/ (f = e /\ e.to = x)
  BY QueuedHas, QueuedHasNext DEF Rings
<1> QED BY <1>1 DEF Queued

\* an entry without a charge
LEMMA ChargesWrite ==
  ASSUME IInv, IInv', Accounts, NEW s \in Senders, Write(s)
  PROVE  Accounts'
<1>1. Types /\ SenderOK(s)
  BY Parts
<1>2. snd[s].pc = "write"
  BY DEF Write, Ready
<1>3. PICK a \in Actors : a = snd[s].to /\ snd[s].m \in Messages
  BY <1>2, SendTo
<1>4. snd[s].c \in Blocks /\ ~acb[a].bounded
  BY <1>1, <1>2, <1>3 DEF SenderOK
<1>5. /\ UNCHANGED acb /\ Others(s) /\ Idled(s)
      /\ Rings(snd[s].c, blk[snd[s].c].q \cup {Mail(s)})
  BY <1>1, <1>3, <1>4, WriteEffect
<1>6. snd[s].send_to = None /\ snd'[s].send_to = None
  BY <1>2, <1>5, IdledSends DEF Idled
<1>7. Mail(s).to = a
  BY <1>3 DEF Mail
<1>8. SendsSame
  BY <1>5, <1>6, SendsOne
<1>9. ASSUME NEW x \in Actors PROVE Account(x)'
  <2>1. acb[x].bounded => Queued(x)' = Queued(x)
    BY <1>4, <1>5, <1>7, QueuedPut
  <2>2. CountsSame(x) /\ Holding(x)' = Holding(x)
    BY <1>5, CountsUnchanged, HoldingSame
  <2>3. Account(x)
    BY DEF Accounts
  <2> QED BY <1>8, <2>1, <2>2, <2>3, AccountQuiet, ReservedSame
<1> QED BY <1>9 DEF Accounts

\* the charge goes with the entry, or back
LEMMA ChargesPublish ==
  ASSUME IInv, IInv', Accounts, NEW s \in Senders, Publish(s)
  PROVE  Accounts'
<1>1. Types /\ Types' /\ SenderOK(s)
  BY Parts DEF IInv
<1>2. snd[s].pc = "publish"
  BY DEF Publish, Ready
<1>3. PICK a \in Actors : a = snd[s].to /\ snd[s].m \in Messages
  BY <1>2, SendTo
<1>4. snd[s].send_to = a /\ acb[a].bounded
  BY <1>1, <1>2, <1>3 DEF SenderOK
<1>5. PICK b \in Blocks : b = acb[a].ch
  BY <1>1, <1>3, AcbType DEF Publish, Types
<1>6. /\ Others(s) /\ Idled(s)
      /\ \/ /\ Rings(b, blk[b].q \cup {Mail(s)})
            /\ acb' = [acb EXCEPT ![a].shlock = None]
         \/ /\ UNCHANGED blk
            /\ acb' = Cancelled(s, [acb EXCEPT ![a].shlock = None])
  BY <1>1, <1>3, <1>4, <1>5, PublishEffect
<1>7. SameCounts([acb EXCEPT ![a].shlock = None])
  BY <1>1, ShlockCounts
<1>8. snd'[s].send_to = None
  BY <1>6 DEF Idled
<1>9. CASE UNCHANGED blk /\ acb' = Cancelled(s, [acb EXCEPT ![a].shlock = None])
  BY <1>6, <1>7, <1>8, <1>9, ChargesCancel, QsUnchanged
<1>10. CASE /\ Rings(b, blk[b].q \cup {Mail(s)})
            /\ acb' = [acb EXCEPT ![a].shlock = None]
  <2>1. \A x \in Actors : CountsSame(x) /\ acb'[x].hand = acb[x].hand
    BY <1>7, <1>10, CountsNext
  <2>2. PICK e \in Entry : e = Mail(s) /\ e.to = a /\ e.charge = snd[s].charge
    BY <1>1, <1>3, MailIs
  <2>3. ASSUME NEW x \in Actors PROVE Account(x)'
    <3>1. Account(x)
      BY DEF Accounts
    <3>2. CASE x # a
      <4>1. Reserved(x)' = Reserved(x) /\ OwesSame(x)
        BY <1>4, <1>6, <1>8, <3>2, Const DEF Reserved, OwesSame, Others
      <4>2. Queued(x)' = Queued(x)
        BY <1>10, <2>2, <3>2, QueuedPut
      <4> QED BY <2>1, <3>1, <4>1, <4>2, AccountQuiet, HoldingSame
    <3>3. CASE x = a
      <4>1. Books(Queued(a), Holding(a), Reserved(a)) /\ Reserved(a) \subseteq Senders
        BY <1>4, BooksOf DEF Books
      <4>2. s \in Reserved(a) /\ Reserved(a)' = Reserved(a) \ {s}
        BY <1>4, <1>6, <1>8, Const DEF Reserved, Others
      <4>3. \A t \in Reserved(a) \ {s} : Owed(snd')[t] = Owed(snd)[t]
        BY <1>1, <1>6, <4>1, OwedType DEF Others
      <4>4. e.charge = Owed(snd)[s] /\ e \notin Queued(a) \cup Holding(a)
        BY <1>1, <1>2, <2>2, OwedType, MailNew
      <4>5. Balance(a)
        BY <1>4, <3>1, <3>3 DEF Account
      <4>6. Bal(acb[a].messages, acb[a].bytes, Queued(a) \cup {e}, Holding(a),
                Reserved(a) \ {s}, Owed(snd'))
        BY <1>1, <4>1, <4>2, <4>3, <4>4, <4>5, OwedType, BalPut DEF Balance
      <4>7. Queued(a)' = Queued(a) \cup {e} /\ Holding(a)' = Holding(a)
        BY <1>10, <2>1, <2>2, QueuedPut, HoldingSame
      <4>8. Balance(a)'
        BY <2>1, <4>2, <4>6, <4>7 DEF Balance, CountsSame
      <4> QED BY <1>4, <2>1, <3>1, <3>3, <4>8 DEF Account, CountsSame
    <3> QED BY <3>2, <3>3
  <2> QED BY <2>3 DEF Accounts
<1> QED BY <1>6, <1>9, <1>10

-----------------------------------------------------------------------------
\* Steps that take and drain.

\* an entry leaves the queue of its actor
LEMMA QueuedTaken ==
  ASSUME IInv, NEW b \in Blocks, NEW e \in blk[b].q, Rings(b, blk[b].q \ {e}), NEW x
  PROVE  /\ e.to # x => Queued(x)' = Queued(x)
         /\ e.to = x => Queued(x)' = Queued(x) \ {e}
<1>1. \A c \in Blocks : e \in blk[c].q => c = b
  BY MailOnce
<1>2. \A c \in Blocks : \A f : f \in blk'[c].q <=> f \in blk[c].q /\ f # e
  BY <1>1 DEF Rings
<1>3. \A f : f \in Queued(x)' <=> f \in Queued(x) /\ f # e
  BY <1>2, QueuedHas, QueuedHasNext
<1>4. e \in Queued(x) => e.to = x
  BY QueuedHas
<1> QED BY <1>3, <1>4 DEF Queued

\* the charge stays while the entry is in the hand
LEMMA ChargesTake ==
  ASSUME IInv, IInv', Accounts, NEW a \in Actors, acb[a].ch # None, NEW e, Take(a, e)
  PROVE  Accounts'
<1>1. Types /\ Types' /\ LivesOK
  BY Parts DEF IInv
<1>2. PICK b \in Blocks : b = acb[a].ch
  BY <1>1, AcbType DEF Types
<1>3. /\ acb[a].var = "READY" /\ acb[a].hand = NoEntry /\ e \in blk[b].q /\ e \in Entry
      /\ UNCHANGED snd /\ Rings(b, blk[b].q \ {e}) /\ Only(a) /\ acb'[a].hand = e
      /\ acb'[a].messages = acb[a].messages /\ acb'[a].bytes = acb[a].bytes
  BY <1>1, <1>2, TakeEffect
<1>4. \A x \in Actors : x # a => acb'[x] = acb[x]
  BY <1>1 DEF Types, Take
<1>5. acb[a].life \in Lives
  BY <1>1, AcbType DEF Types
<1>6. LifeOK(a)
  BY <1>1 DEF LivesOK
<1>7. Holds(a, b)
  BY <1>2, <1>3, <1>5, <1>6 DEF Holds, LifeOK, Lives
<1>8. /\ acb[a].bounded => e.to = a
      /\ acb[e.to].bounded => e.to = a
  BY <1>3, <1>7, OwnMail
<1>9. SendsSame
  BY <1>3, SendsUnchanged
<1>10. ASSUME NEW x \in Actors PROVE Account(x)'
  <2>1. Account(x) /\ Reserved(x)' = Reserved(x) /\ OwesSame(x)
    BY <1>9, ReservedSame DEF Accounts
  <2>2. CountsSame(x)
    BY <1>3, <1>4 DEF CountsSame, Only
  <2>3. CASE x # a
    <3>1. acb[x].bounded => e.to # x
      BY <1>8, <2>3
    <3>2. acb[x].bounded => Queued(x)' = Queued(x)
      BY <1>3, <3>1, QueuedTaken
    <3>3. Holding(x)' = Holding(x)
      BY <1>4, <2>3, HoldingSame
    <3> QED BY <2>1, <2>2, <3>2, <3>3, AccountQuiet
  <2>4. CASE x = a
    <3>1. CASE acb[a].bounded
      <4>1. Holding(a) = {} /\ Holding(a)' = {e}
        <5>1. PICK m \in Messages : m = e.m
          BY <1>1, <1>3, EntryTo
        <5>2. e # NoEntry
          BY <5>1, NoHand
        <5> QED BY <1>3, <5>2 DEF Holding
      <4>2. e \in Queued(a) /\ Queued(a)' = Queued(a) \ {e}
        BY <1>3, <1>8, <3>1, QueuedHas, QueuedTaken
      <4>3. Books(Queued(a), {}, Reserved(a))
        BY <3>1, <4>1, BooksOf
      <4>4. Bal(acb[a].messages, acb[a].bytes, Queued(a), {}, Reserved(a), Owed(snd))
        BY <2>1, <2>4, <3>1, <4>1 DEF Account, Balance
      <4>5. Bal(acb[a].messages, acb[a].bytes, Queued(a) \ {e}, {e}, Reserved(a), Owed(snd))
        BY <1>1, <4>2, <4>3, <4>4, OwedType, BalTake
      <4>6. Balance(a)'
        BY <1>3, <2>1, <2>4, <4>1, <4>2, <4>5 DEF Balance
      <4> QED BY <2>1, <2>2, <2>4, <3>1, <4>6 DEF Account, CountsSame
    <3>2. CASE ~acb[a].bounded
      BY <2>1, <2>2, <2>4, <3>2 DEF Account, CountsSame
    <3> QED BY <3>1, <3>2
  <2> QED BY <2>3, <2>4
<1> QED BY <1>10 DEF Accounts

\* and is given back once
LEMMA ChargesTaken ==
  ASSUME IInv, IInv', Accounts, NEW a \in Actors, Taken(a)
  PROVE  Accounts'
<1>1. Types /\ Types'
  BY Parts DEF IInv
<1>2. /\ acb[a].hand \in Entry /\ acb[a].hand # NoEntry /\ UNCHANGED <<blk, snd>> /\ Only(a)
      /\ acb'[a].hand = NoEntry
      /\ acb'[a].messages = Release(acb[a], acb[a].hand.charge).messages
      /\ acb'[a].bytes = Release(acb[a], acb[a].hand.charge).bytes
  BY <1>1, TakenEffect
<1>3. \A x \in Actors : x # a => acb'[x] = acb[x]
  BY <1>1 DEF Types, Taken
<1>4. PICK e \in Entry : e = acb[a].hand
  BY <1>2
<1>5. PICK y \in Acb : y = acb[a]
  BY <1>1 DEF Types
<1>6. e.charge \in Nat
  BY DEF Entry
<1>7. /\ acb[a].bounded => /\ acb'[a].messages = acb[a].messages - 1
                           /\ acb'[a].bytes = acb[a].bytes - e.charge
      /\ ~acb[a].bounded => /\ acb'[a].messages = acb[a].messages
                            /\ acb'[a].bytes = acb[a].bytes
  BY <1>2, <1>4, <1>5, <1>6, ReleaseIs
<1>8. acb'[a].bounded = acb[a].bounded
  BY <1>2 DEF Only
<1>9. QsSame /\ SendsSame
  BY <1>2, QsUnchanged, SendsUnchanged
<1>10. ASSUME NEW x \in Actors PROVE Account(x)'
  <2>1. /\ Account(x) /\ Reserved(x)' = Reserved(x) /\ OwesSame(x) /\ Queued(x)' = Queued(x)
    BY <1>9, ReservedSame, QueuedSame DEF Accounts
  <2>2. CASE x # a
    <3>1. CountsSame(x) /\ Holding(x)' = Holding(x)
      BY <1>3, <2>2, HoldingSame DEF CountsSame
    <3> QED BY <2>1, <3>1, AccountQuiet
  <2>3. CASE x = a /\ ~acb[a].bounded
    BY <1>7, <1>8, <2>1, <2>3 DEF Account
  <2>4. CASE x = a /\ acb[a].bounded
    <3>1. Holding(a) = {e} /\ Holding(a)' = {}
      BY <1>2, <1>4 DEF Holding
    <3>2. e \notin Queued(a)
      BY <1>4, MailOnce, QueuedHas
    <3>3. Books(Queued(a), {e}, Reserved(a))
      BY <2>4, <3>1, BooksOf
    <3>4. Bal(acb[a].messages, acb[a].bytes, Queued(a), {e}, Reserved(a), Owed(snd))
      BY <2>1, <2>4, <3>1 DEF Account, Balance
    <3>5. Bal(acb[a].messages - 1, acb[a].bytes - e.charge, Queued(a), {}, Reserved(a),
            Owed(snd))
      BY <1>1, <3>2, <3>3, <3>4, OwedType, BalTaken
    <3>6. Balance(a)'
      BY <1>2, <1>7, <2>1, <2>4, <3>1, <3>5 DEF Balance
    <3>7. acb[a].messages \in Int /\ acb[a].bytes \in Int
      BY <1>1, AcbType DEF Types
    <3>8. acb'[a].messages <= MaxMessages /\ acb'[a].bytes <= MaxBytes
      BY <1>6, <1>7, <2>1, <2>4, <3>7, Const DEF Account
    <3> QED BY <1>8, <2>4, <3>6, <3>8 DEF Account
  <2> QED BY <2>2, <2>3, <2>4
<1> QED BY <1>10 DEF Accounts

\* the entries of a block go
LEMMA QueuedCleared ==
  ASSUME NEW b \in Blocks, blk'[b].q = {}, \A c \in Blocks : c # b => blk'[c].q = blk[c].q,
           NEW x,
         \A e \in blk[b].q : e.to # x
  PROVE  Queued(x)' = Queued(x)
<1>1. \A e : e \in Queued(x)' <=> e \in Queued(x)
  BY QueuedHas, QueuedHasNext
<1> QED BY <1>1 DEF Queued

\* the drain gives back the charges of what is queued
LEMMA ChargesDrain ==
  ASSUME IInv, IInv', Accounts, NEW a \in Actors, Drain(a)
  PROVE  Accounts'
<1>1. Types /\ Types' /\ LivesOK
  BY Parts DEF IInv
<1>2. PICK b \in Blocks : b = acb[a].ch
  BY <1>1, BlockOf DEF Drain
<1>3. /\ acb[a].life = "claimed" /\ UNCHANGED snd /\ Only(a) /\ acb'[a].hand = acb[a].hand
      /\ acb'[a].messages = ReleaseAll(acb[a], blk[b].q).messages
      /\ acb'[a].bytes = ReleaseAll(acb[a], blk[b].q).bytes
      /\ Rings(b, {})
  BY <1>1, <1>2, DrainEffect
<1>4. \A x \in Actors : x # a => acb'[x] = acb[x]
  BY <1>1 DEF Types, Drain
<1>5. Holds(a, b) /\ acb[a].hand = NoEntry
  BY <1>1, <1>2, <1>3 DEF Holds, LivesOK, LifeOK
<1>6. PICK es : es = blk[b].q /\ es \subseteq Entry /\ IsFiniteSet(es)
  BY <1>1, BlkType DEF Types
<1>7. PICK y \in Acb : y = acb[a]
  BY <1>1 DEF Types
<1>8. /\ acb[a].bounded => /\ acb'[a].messages = acb[a].messages - Cardinality(es)
                           /\ acb'[a].bytes = acb[a].bytes - Total(Charges, es)
      /\ ~acb[a].bounded => /\ acb'[a].messages = acb[a].messages
                            /\ acb'[a].bytes = acb[a].bytes
  BY <1>3, <1>6, <1>7, ReleaseAllIs
<1>9. acb'[a].bounded = acb[a].bounded
  BY <1>3 DEF Only
<1>10. SendsSame
  BY <1>3, SendsUnchanged
<1>11. blk'[b].q = {} /\ \A c \in Blocks : c # b => blk'[c].q = blk[c].q
  BY <1>3 DEF Rings
<1>12. ASSUME NEW x \in Actors PROVE Account(x)'
  <2>1. Account(x) /\ Reserved(x)' = Reserved(x) /\ OwesSame(x)
    BY <1>10, ReservedSame DEF Accounts
  <2>2. CASE x # a
    <3>1. CountsSame(x) /\ Holding(x)' = Holding(x)
      BY <1>4, <2>2, HoldingSame DEF CountsSame
    <3>2. ASSUME acb[x].bounded PROVE Queued(x)' = Queued(x)
      <4>1. \A e \in blk[b].q : e.to # x
        BY <1>5, <2>2, <3>2, OwnMail
      <4> QED BY <1>11, <4>1, QueuedCleared
    <3> QED BY <2>1, <3>1, <3>2, AccountQuiet
  <2>3. CASE x = a /\ ~acb[a].bounded
    BY <1>8, <1>9, <2>1, <2>3 DEF Account
  <2>4. CASE x = a /\ acb[a].bounded
    <3>1. Queued(a) = es
      BY <1>5, <1>6, <2>4, QueuedIs
    <3>2. Queued(a)' = {}
      <4>1. SUFFICES ASSUME NEW e \in Queued(a)' PROVE FALSE
        OBVIOUS
      <4>2. PICK c \in Blocks : e \in blk'[c].q /\ e.to = a
        BY <4>1, QueuedHasNext
      <4>3. c # b /\ e \in blk[c].q
        BY <1>11, <4>2
      <4>4. Holds(a, c)
        BY <2>4, <4>2, <4>3, MailAt
      <4> QED BY <1>5, <4>3, <4>4 DEF Holds
    <3>3. Holding(a) = {} /\ Holding(a)' = {}
      BY <1>3, <1>5 DEF Holding
    <3>4. Books(es, {}, Reserved(a))
      BY <2>4, <3>1, <3>3, BooksOf
    <3>5. Bal(acb[a].messages, acb[a].bytes, es, {}, Reserved(a), Owed(snd))
      BY <2>1, <2>4, <3>1, <3>3 DEF Account, Balance
    <3>6. Bal(acb[a].messages - Cardinality(es), acb[a].bytes - Total(Charges, es), {}, {},
              Reserved(a), Owed(snd))
      BY <1>1, <3>4, <3>5, OwedType, BalDrain
    <3>7. Balance(a)'
      BY <1>3, <1>8, <2>1, <2>4, <3>2, <3>3, <3>6 DEF Balance
    <3>8. acb[a].messages \in Int /\ acb[a].bytes \in Int
      BY <1>1, AcbType DEF Types
    <3>9. Cardinality(es) \in Nat /\ Total(Charges, es) \in Nat
      <4>1. Charges \in [Entry -> Nat]
        BY DEF Charges, Entry
      <4> QED BY <1>6, <4>1, FS_CardinalityType, TotalNat
    <3>10. acb'[a].messages <= MaxMessages /\ acb'[a].bytes <= MaxBytes
      BY <1>8, <2>1, <2>4, <3>8, <3>9, Const DEF Account
    <3> QED BY <1>9, <2>4, <3>7, <3>10 DEF Account
  <2> QED BY <2>2, <2>3, <2>4
<1> QED BY <1>12 DEF Accounts

\* chan_init finds no charged entries of another owner
LEMMA ChargesInitBlock ==
  ASSUME IInv, IInv', Accounts, InitBlock
  PROVE  Accounts'
<1>1. Types /\ Types' /\ SpawnerOK /\ BlocksOK
  BY Parts DEF IInv
<1>2. PICK b \in Blocks : b = sp.ch
  BY <1>1, InitBlockEffect
<1>3. /\ sp.pc = "init" /\ UNCHANGED snd /\ Cores
      /\ acb' = IF blk[b].owner = None THEN acb
                ELSE [acb EXCEPT ![blk[b].owner] = ReleaseAll(@, blk[b].q)]
      /\ \A c \in Blocks : c # b => blk'[c] = blk[c]
      /\ blk'[b].q = {}
  BY <1>1, <1>2, InitBlockEffect
<1>4. SpHolds(b)
  BY <1>1, <1>2, <1>3 DEF SpawnerOK, SpHolds
<1>5. \A a \in Actors : ~Holds(a, b)
  BY <1>1, <1>4 DEF BlocksOK, Kept2
<1>6. ASSUME NEW e \in blk[b].q PROVE ~acb[e.to].bounded
  <2>1. e.to \in Actors
    BY <1>1, EntryTo
  <2> QED BY <1>5, <2>1, MailAt
<1>7. blk[b].owner # None => blk[b].q = {}
  BY <1>1, <1>6 DEF BlocksOK, Kept6
<1>8. \A x \in Actors : CountsSame(x) /\ acb'[x].hand = acb[x].hand
  <2>1. CASE blk[b].owner = None
    BY <1>3, <2>1, CountsUnchanged
  <2>2. CASE blk[b].owner # None
    <3>1. PICK o \in Actors : o = blk[b].owner
      BY <1>1, <2>2, BlkType DEF Types
    <3>2. blk[b].q = {}
      BY <1>7, <2>2
    <3>3. acb' = [acb EXCEPT ![o] = ReleaseAll(acb[o], {})]
      BY <1>3, <2>2, <3>1, <3>2
    <3>4. PICK y \in Acb : y = acb[o]
      BY <1>1 DEF Types
    <3>5. Cardinality({}) = 0 /\ Total(Charges, {}) = 0 /\ IsFiniteSet({}) /\ {} \subseteq Entry
      BY FS_EmptySet, TotalPick
    <3>6. y.messages \in Int /\ y.bytes \in Int
      BY AcbType
    <3>7. /\ ReleaseAll(y, {}).messages = y.messages /\ ReleaseAll(y, {}).bytes = y.bytes
          /\ ReleaseAll(y, {}).bounded = y.bounded /\ ReleaseAll(y, {}).hand = y.hand
      BY <3>5, <3>6, ReleaseAllIs
    <3>8. acb'[o] = ReleaseAll(y, {}) /\ \A x \in Actors : x # o => acb'[x] = acb[x]
      BY <1>1, <3>3, <3>4 DEF Types
    <3> QED BY <3>4, <3>7, <3>8 DEF CountsSame
  <2> QED BY <2>1, <2>2
<1>9. ASSUME NEW x \in Actors PROVE Account(x)'
  <2>1. Account(x) /\ Reserved(x)' = Reserved(x) /\ OwesSame(x)
    BY <1>3, ReservedSame, SendsUnchanged DEF Accounts
  <2>2. ASSUME acb[x].bounded PROVE Queued(x)' = Queued(x)
    <3>1. \A e \in blk[b].q : e.to # x
      BY <1>6, <2>2
    <3> QED BY <1>3, <3>1, QueuedCleared
  <2> QED BY <1>8, <2>1, <2>2, AccountQuiet, HoldingSame
<1> QED BY <1>9 DEF Accounts

\* a new account is empty
LEMMA ChargesBuild ==
  ASSUME IInv, IInv', Accounts, NEW a \in Actors, Build(a)
  PROVE  Accounts'
<1>1. Types /\ LivesOK /\ SpawnerOK /\ BlocksOK
  BY Parts
<1>2. sp.pc = "reserve" /\ sp.n = 6
  BY <1>1, OrderIs, SpType DEF Build
<1>3. "channels" \in Got
  BY <1>1, <1>2, GotAll DEF Kept
<1>4. sp.cleanup /\ sp.ch # None
  BY <1>1, <1>2, <1>3 DEF SpawnerOK
<1>5. PICK b \in Blocks : b = sp.ch
  BY <1>1, <1>4, SpBlock
<1>6. /\ acb[a].var = "unborn" /\ UNCHANGED snd
      /\ \A c \in Actors : c # a => acb'[c] = acb[c]
      /\ acb'[a].hand = NoEntry /\ acb'[a].messages = 0 /\ acb'[a].bytes = 0
      /\ \A c \in Blocks : c # b => blk'[c] = blk[c]
      /\ blk'[b].q = blk[b].q
  BY <1>1, <1>5, BuildEffect
<1>7. QsSame /\ SendsSame
  BY <1>6, SendsUnchanged DEF QsSame
<1>8. ASSUME NEW x \in Actors PROVE Account(x)'
  <2>1. /\ Account(x) /\ Reserved(x)' = Reserved(x) /\ OwesSame(x) /\ Queued(x)' = Queued(x)
    BY <1>7, ReservedSame, QueuedSame DEF Accounts
  <2>2. CASE x # a
    <3>1. CountsSame(x) /\ Holding(x)' = Holding(x)
      BY <1>6, <2>2, HoldingSame DEF CountsSame
    <3> QED BY <2>1, <3>1, AccountQuiet
  <2>3. CASE x = a
    <3>1. Queued(a) = {}
      <4>1. SUFFICES ASSUME NEW e \in Queued(a) PROVE FALSE
        OBVIOUS
      <4>2. PICK c \in Blocks : e \in blk[c].q /\ e.to = a
        BY <4>1, QueuedHas
      <4> QED BY <1>1, <1>6, <4>2 DEF BlocksOK, Kept6
    <3>2. Reserved(a) = {}
      BY <1>6, ReservedTo, Const DEF Reserved
    <3>3. Holding(a)' = {}
      BY <1>6 DEF Holding
    <3>4. Balance(a)'
      BY <1>6, <2>1, <2>3, <3>1, <3>2, <3>3, BalNew DEF Balance
    <3> QED BY <1>6, <2>3, <3>4, Const DEF Account
  <2> QED BY <2>2, <2>3
<1> QED BY <1>8 DEF Accounts

-----------------------------------------------------------------------------
\* The accounts of every mailbox.

\* The inductive invariant with the accounts.
CInv == IInv /\ Accounts

\* no account is charged at first
LEMMA CInit ==
  ASSUME Init PROVE CInv
<1>1. IInv
  BY InitInv
<1>2. PICK bounded \in BOOLEAN, b \in Blocks :
    /\ acb \in [Actors -> Acb]
    /\ \A a \in Actors : a # First => acb[a] = Unborn
    /\ acb[First] = Born(b, bounded, SpawnItems(bounded))
    /\ \A c \in Blocks : blk[c].q = {}
    /\ \A s \in Senders : snd[s].send_to = None
  BY InitIs
<1>3. ASSUME NEW x \in Actors PROVE acb[x].messages = 0 /\ acb[x].bytes = 0
               /\ acb[x].hand = NoEntry
  <2>1. CASE x # First
    BY <1>2, <2>1 DEF Unborn
  <2>2. CASE x = First
    <3>1. PICK its : its = SpawnItems(bounded)
      OBVIOUS
    <3>2. acb[x] = Born(b, bounded, its)
      BY <1>2, <2>2, <3>1
    <3> QED BY <3>2 DEF Born, Unborn
  <2> QED BY <2>1, <2>2
<1>4. ASSUME NEW x \in Actors PROVE Account(x)
  <2>1. Queued(x) = {}
    BY <1>2, QueuedHas DEF Queued
  <2>2. Reserved(x) = {}
    BY <1>2, Const DEF Reserved
  <2>3. Holding(x) = {}
    BY <1>3 DEF Holding
  <2>4. Balance(x)
    BY <1>3, <2>1, <2>2, <2>3, BalNew DEF Balance
  <2> QED BY <1>3, <2>4, Const DEF Account
<1> QED BY <1>1, <1>4 DEF CInv, Accounts

\* a step of nobody
LEMMA CStill ==
  ASSUME IInv, IInv', Accounts, UNCHANGED vars PROVE Accounts'
  BY ChargesSpOnly DEF vars

\* every step keeps the accounts
LEMMA CStep ==
  ASSUME CInv, [Next]_vars PROVE CInv'
<1>1. IInv /\ Accounts
  BY DEF CInv
<1>2. IInv'
  BY <1>1, StepInv
<1>3. ASSUME UNCHANGED vars PROVE Accounts'
  BY <1>1, <1>2, <1>3, CStill
<1>4. ASSUME NEW s \in Senders, Send(s) \/ KillSender(s) \/ ReapSender(s) PROVE Accounts'
  BY <1>1, <1>2, <1>4, ChargesStart, ChargesRefused, ChargesCopy, ChargesPin, ChargesLock,
     ChargesPublish, ChargesCheck, ChargesResolve, ChargesFault,
     ChargesPushLook, ChargesWrite, ChargesGrow, ChargesKillSender, ChargesReapSender DEF Send
<1>5. ASSUME NEW a \in Actors, Receive(a) \/ Kill(a) \/ Reap(a) PROVE Accounts'
  <2>1. CASE \E e \in (IF acb[a].ch = None THEN {} ELSE blk[acb[a].ch].q) : Take(a, e)
    BY <1>1, <1>2, <2>1, ChargesTake
  <2> QED BY <1>1, <1>2, <1>5, <2>1, ChargesTaken, ChargesEndTurn, ChargesKill, ChargesClaim,
        ChargesDrain, ChargesLimbo, ChargesClear
          DEF Receive, Reap
<1>6. ASSUME Spawning PROVE Accounts'
  <2>1. CASE \E kind \in {"heap", "inbox"} : Admit(kind)
    BY <1>1, <1>2, <2>1, ChargesSpOnly DEF Admit
  <2>2. CASE Reserve
    BY <1>1, <1>2, <2>2, ChargesSpOnly DEF Reserve
  <2>3. CASE KillSpawner
    BY <1>1, <1>2, <2>3, ChargesSpOnly DEF KillSpawner
  <2> QED BY <1>1, <1>2, <1>6, <2>1, <2>2, <2>3, ChargesInitBlock, ChargesDeny,
        ChargesReapSpawner, ChargesTakeBlock, ChargesBuild
          DEF Spawning
<1>7. Accounts'
  <2>1. CASE Next
    BY <1>1, <1>2, <2>1, <1>4, <1>5, <1>6, ChargesTurn DEF Next
  <2>2. Next \/ UNCHANGED vars
    BY DEF vars
  <2> QED BY <1>3, <2>1, <2>2
<1> QED BY <1>2, <1>7 DEF CInv

\* In every state the counts of a bounded mailbox are those of what is queued, in the
\* receiver's hand and reserved by senders.
THEOREM AccountsInvariant == Spec => []CInv
<1>1. Init => CInv
  BY CInit
<1>2. CInv /\ [Next]_vars => CInv'
  BY CStep
<1> QED BY <1>1, <1>2, PTL DEF Spec

\* the balance, in the model's own sums
LEMMA Balanced ==
  ASSUME CInv PROVE ChargesBalance
<1>1. IInv /\ Accounts /\ Types
  BY Parts DEF CInv
<1>2. SUFFICES ASSUME NEW a \in Actors, acb[a].bounded
               PROVE  /\ acb[a].messages = Cardinality(Queued(a)) + Cardinality(Reserved(a))
                                             + Cardinality(Holding(a))
                      /\ acb[a].bytes = MapThenSumSet(LAMBDA e : e.charge,
                           Queued(a) \cup Holding(a))
                                          + MapThenSumSet(LAMBDA s : snd[s].charge, Reserved(a))
  BY DEF ChargesBalance
<1>3. Balance(a)
  BY <1>1, <1>2 DEF Accounts, Account
<1>4. Books(Queued(a), Holding(a), Reserved(a))
  BY <1>1, <1>2, BooksOf
<1>5. /\ IsFiniteSet(Reserved(a)) /\ Reserved(a) \subseteq Senders
      /\ IsFiniteSet(Queued(a) \cup Holding(a)) /\ Queued(a) \cup Holding(a) \subseteq Entry
  BY <1>1, <1>4, OwedType, BooksTypes DEF Books
<1>6. /\ ChargeSum(Queued(a) \cup Holding(a)) = Total(Charges, Queued(a) \cup Holding(a))
      /\ SenderSum(snd, Reserved(a)) = Total(Owed(snd), Reserved(a))
  BY <1>5, ChargeSumTotal, SenderSumTotal
<1>7. acb[a].bytes = ChargeSum(Queued(a) \cup Holding(a)) + SenderSum(snd, Reserved(a))
  BY <1>3, <1>6 DEF Balance, Bal
<1>8. acb[a].bytes = MapThenSumSet(LAMBDA e : e.charge, Queued(a) \cup Holding(a))
                       + MapThenSumSet(LAMBDA s : snd[s].charge, Reserved(a))
  BY <1>7 DEF ChargeSum, SenderSum
<1>9. acb[a].messages = Cardinality(Queued(a)) + Cardinality(Reserved(a))
                          + Cardinality(Holding(a))
  BY <1>3, <1>4 DEF Balance, Bal, Books
<1> QED BY <1>8, <1>9

\* the bounds of the counts follow from the balance
LEMMA Typed ==
  ASSUME CInv PROVE TypeOK
<1>1. IInv /\ Accounts /\ Types /\ OutOK /\ Places
  BY Parts DEF CInv
<1>2. ASSUME NEW a \in Actors PROVE acb[a].messages \in 0..MaxMessages
               /\ acb[a].bytes \in 0..MaxBytes
  <2>1. Account(a) /\ acb[a].messages \in Int /\ acb[a].bytes \in Int
    BY <1>1, AcbType DEF Accounts, Types
  <2>2. CASE ~acb[a].bounded
    BY <2>1, <2>2, Const DEF Account
  <2>3. CASE acb[a].bounded
    <3>1. Books(Queued(a), Holding(a), Reserved(a)) /\ Balance(a)
      BY <1>1, <2>1, <2>3, BooksOf DEF Account
    <3>2. /\ IsFiniteSet(Reserved(a)) /\ Reserved(a) \subseteq Senders
          /\ IsFiniteSet(Queued(a) \cup Holding(a)) /\ Queued(a) \cup Holding(a) \subseteq Entry
          /\ Cardinality(Queued(a)) \in Nat /\ Cardinality(Holding(a)) \in Nat
          /\ Cardinality(Reserved(a)) \in Nat
      BY <1>1, <3>1, OwedType, BooksTypes DEF Books
    <3>3. Charges \in [Entry -> Nat]
      BY DEF Charges, Entry
    <3>4. Total(Charges, Queued(a) \cup Holding(a)) \in Nat
            /\ Total(Owed(snd), Reserved(a)) \in Nat
      BY <1>1, <3>2, <3>3, OwedType, TotalNat
    <3> QED BY <2>1, <3>1, <3>2, <3>4, Const DEF Account, Balance, Bal
  <2> QED BY <2>2, <2>3
<1>3. ASSUME NEW a \in Actors
      PROVE  /\ acb[a].var \in {"unborn", "READY", "DEAD"} /\ acb[a].ch \in Blocks \cup {None}
             /\ acb[a].items \subseteq Items /\ acb[a].shlock \in Senders \cup {None}
             /\ acb[a].hand \in Entry \cup {NoEntry} /\ acb[a].rx \subseteq Messages
             /\ acb[a].life \in {"none", "built", "claimed", "drained", "limbo", "gone"}
  BY <1>1, AcbType DEF Types, Lives
<1>4. ASSUME NEW b \in Blocks
      PROVE  /\ blk[b].at \in {"list", "held", "limbo"} /\ blk[b].q \subseteq Entry
             /\ blk[b].owner \in Actors \cup {None} /\ blk[b].since \in [Harts -> 0..2]
  BY <1>1, BlkType DEF Types
<1>5. ASSUME NEW s \in Senders PROVE snd[s].pc \in Steps /\ snd[s].left \in 0..SendMax[s]
  <2>1. SenderOK(s)
    BY <1>1, Parts
  <2> QED BY <1>1, <2>1, SndType DEF Types, SenderOK
<1>6. rc \in [Messages -> {0, 1}]
  <2>1. \A m \in Messages : rc[m] \in {0, 1}
    BY <1>1 DEF Places, Place1
  <2> QED BY <1>1, <2>1 DEF Types
<1>7. out \in [Items -> Nat]
  <2>1. ASSUME NEW i \in Items PROVE out[i] \in Nat
    <3>1. out[i] = Cardinality(With(i)) + (IF Under(i) THEN 1 ELSE 0)
      BY <1>1 DEF OutOK
    <3>2. Cardinality(With(i)) \in Nat
      BY WithFinite
    <3> QED BY <3>1, <3>2
  <2> QED BY <1>1, <2>1 DEF Types
<1>8. sp.pc \in {"idle", "reserve", "init", "gone"}
  BY <1>1, SpType
<1> QED BY <1>2, <1>3, <1>4, <1>5, <1>6, <1>7, <1>8 DEF TypeOK

\* Types, and no count below zero or above its limit, for any number of actors,
\* senders, blocks and messages.
THEOREM TypeCorrect == Spec => []TypeOK
<1>1. CInv => TypeOK
  BY Typed
<1> QED BY <1>1, AccountsInvariant, PTL

\* inbox_messages and inbox_bytes are exactly what is queued, in hand or reserved: every
\* reservation is published or given back once, whoever is killed between, and a
\* producer under the lock never finds its target drained.
THEOREM ChargesKeptHolds == Spec => []ChargesKept
<1>1. CInv => ChargesKept
  BY Balanced, ProducerCovered DEF ChargesKept, CInv
<1> QED BY <1>1, AccountsInvariant, PTL
=============================================================================
