------------------------- MODULE ForwardOrderProofs -------------------------
(***************************************************************************)
(* Proof that ForwardBuffer sends no older message of an action after a    *)
(* newer one (NewestLast), however many batches overlap.                   *)
(*                                                                         *)
(* The first part is about sequences: W lists, for each sender that waits  *)
(* for the thread or the loop, what it has left, in the order they go on;  *)
(* V is what went out and what will, and P is what is pending.  A sender   *)
(* at its turn takes the head of its list out of P, puts the next of its   *)
(* list behind V and goes to the end of W.                                 *)
(*                                                                         *)
(* The second part finds W, V and P in the states of ForwardBuffer: what   *)
(* the senders of back and outbox have left, sent and then outbox, and     *)
(* pending.  Each action keeps them in order.                              *)
(***************************************************************************)
EXTENDS ForwardBufferProofs, FiniteSetTheorems, WellFoundedInduction

-----------------------------------------------------------------------------
(* Senders in line *)

\* Something has gone out twice among the first j of V.
Twice(V, j) == \E k, l \in 1..j : k < l /\ V[k] = V[l]

\* An older message follows a newer one of its action only behind a duplicate.
InOrder(act, V) ==
    \A i, j \in DOMAIN V :
        i < j /\ act[V[i]] = act[V[j]] /\ V[j] < V[i] => Twice(V, j - 1)

\* No message of V is newer than what is pending of its action.
NoneNewer(act, V, P) ==
    \A k \in DOMAIN V, q \in DOMAIN P : act[V[k]] = act[P[q]] => V[k] <= P[q]

\* Up to its p-th, no message behind the head of a list has gone out.
Clear(V, list, p) == \A r \in 2..p : \A k \in DOMAIN V : V[k] # list[r]

\* What the heads of the lists are the last of.
Heads(W, V) ==
    /\ Len(W) <= Len(V)
    /\ \A i \in DOMAIN W : W[i] # <<>> /\ V[Len(V) - Len(W) + i] = W[i][1]

OnePerAction(act, W) ==
    \A i \in DOMAIN W : \A p, r \in DOMAIN W[i] : act[W[i][p]] = act[W[i][r]] => p = r

\* What a sender will come to is the newest of its action.
Fresh(act, W, V) ==
    \A i \in DOMAIN W : \A p \in DOMAIN W[i] \ {1} :
        Clear(V, W[i], p - 1) =>
            \A k \in DOMAIN V : act[V[k]] = act[W[i][p]] => V[k] <= W[i][p]

\* It, or a newer one in its place, is pending ...
Covered(act, W, V, P) ==
    \A i \in DOMAIN W : \A p \in DOMAIN W[i] :
        Clear(V, W[i], p) => \E q \in DOMAIN P : act[P[q]] = act[W[i][p]]

\* ... in the order of the list.
SameOrder(act, W, V, P) ==
    \A i \in DOMAIN W : \A p, r \in DOMAIN W[i] :
        p < r /\ Clear(V, W[i], r - 1) =>
            \A q, s \in DOMAIN P : act[P[q]] = act[W[i][p]] /\ act[P[s]] = act[W[i][r]] => q < s

\* A list that has a newer one than another list's has it further back.
Behind(act, W, V) ==
    \A i, j \in DOMAIN W : \A p \in DOMAIN W[i] \ {1}, r \in DOMAIN W[j] :
        Clear(V, W[i], p - 1) /\ act[W[i][p]] = act[W[j][r]] /\ W[i][p] < W[j][r] =>
            p < r \/ (p = r /\ i < j)

\* No list has a newer message than what is pending of its action.
ListsPending(act, W, P) == \A i \in DOMAIN W : NoneNewer(act, W[i], P)

Aligned(act, W, V, P) ==
    /\ Heads(W, V) /\ OnePerAction(act, W) /\ Fresh(act, W, V)
    /\ Covered(act, W, V, P) /\ SameOrder(act, W, V, P) /\ Behind(act, W, V)

\* The senders keep the order: until something has gone out twice, they are
\* aligned.
Orderly(act, W, V, P) ==
    /\ InOrder(act, V) /\ NoneNewer(act, V, P) /\ ListsPending(act, W, P)
    /\ ~Twice(V, Len(V)) => Aligned(act, W, V, P)

-----------------------------------------------------------------------------
(* The senders of ForwardBuffer *)

By(sends) == [i \in DOMAIN sends |-> sends[i].by]
Carried(sends) == [i \in DOMAIN sends |-> sends[i].message]
Left(senders, batches) == [i \in DOMAIN senders |-> batches[senders[i]].left]

\* Senders the loop is to resume, then those that wait for the thread.
Queue == back \o By(outbox)
Lists == IF consumer = "direct" THEN <<>> ELSE Left(Queue, batch)
Line == sent \o Carried(outbox)

\* What the loop is to resume, and that messages are numbered.
Resumed ==
    /\ \A i \in DOMAIN back : batch[back[i]].at \in {"sent", "failed"}
    /\ \A i, j \in DOMAIN back : back[i] = back[j] => i = j
Past ==
    /\ \A k \in DOMAIN sent : sent[k] <= received
    /\ \A b \in Batches : \A p \in DOMAIN batch[b].left : batch[b].left[p] <= received

\* Without an interval, or after a reconnect, the consumer is the only sender.
Alone ==
    interval = 0 \/ consumer \in {"before", "direct"} =>
        \A m \in Messages : batch[m].at = "off" /\ timer[m] = Off
Before ==
    /\ consumer = "before" => Range(pending) \subseteq Range(batch[Consumer].left)
    /\ consumer = "direct" => pending = <<>>

Ordered ==
    /\ batch[Admin].at = "off" /\ Alone /\ Before
    /\ InOrder(action, sent) /\ NoneNewer(action, sent, pending)
    /\ working => Orderly(action, Lists, Line, pending)

OrderInv == FlushInv /\ Resumed /\ Past /\ (~lowered => Ordered)

-----------------------------------------------------------------------------
(* Sequences *)

\* A set of numbers up to N has a smallest one.
LEMMA Smallest ==
    ASSUME NEW N \in Nat, NEW T, T \subseteq 1..N, T # {}
    PROVE  \E x \in T : \A y \in T : x <= y
<1> DEFINE Below == {1..x : x \in T}
<1>1. IsWellFoundedOn(StrictSubsetOrdering(1..N), SUBSET (1..N))
  <2>1. IsFiniteSet(1..N)
    BY FS_Interval
  <2>2. FiniteSubsetsOf(1..N) = SUBSET (1..N)
    BY <2>1, FS_FiniteSubsetsOfFinite, Zenon
  <2> QED
    BY <2>2, FS_StrictSubsetOrderingWellFounded, Zenon
<1>2. Below \subseteq SUBSET (1..N)
  <2>1. ASSUME NEW x \in T PROVE 1..x \subseteq 1..N
    <3>1. x \in 1..N
      BY <2>1
    <3> QED
      BY <3>1
  <2> QED
    BY <2>1
<1>3. Below # {}
  OBVIOUS
<1>4. PICK B \in Below : \A C \in Below : <<C, B>> \notin StrictSubsetOrdering(1..N)
  <2> HIDE DEF Below
  <2> QED
    BY <1>1, <1>2, <1>3, WFMin, Zenon
<1>5. PICK x \in T : B = 1..x
  OBVIOUS
<1>6. ASSUME NEW y \in T, y < x PROVE FALSE
  <2>1. 1..y \in Below /\ 1..y \in SUBSET (1..N) /\ 1..x \in SUBSET (1..N)
    BY <1>2
  <2>2. x \in Nat /\ y \in Nat /\ 1 <= x
    OBVIOUS
  <2>3. 1..y \subseteq 1..x /\ x \notin 1..y /\ x \in 1..x
    BY <1>6, <2>2
  <2>4. <<1..y, 1..x>> \in StrictSubsetOrdering(1..N)
    BY <2>1, <2>3 DEF StrictSubsetOrdering
  <2> QED
    BY <2>1, <2>4, <1>4, <1>5
<1>7. \A y \in T : x <= y
  <2>1. \A y \in T : y \in Int
    OBVIOUS
  <2> QED
    BY <1>6, <2>1
<1> QED
  BY <1>7

\* Strictly increasing positions are not in front of their indexes.
LEMMA NotInFront ==
    ASSUME NEW N \in Nat, NEW at \in [1..N -> Nat \ {0}],
           \A i, j \in 1..N : i < j => at[i] < at[j]
    PROVE  \A i \in 1..N : i <= at[i]
<1> DEFINE T == {i \in 1..N : at[i] < i}
<1>1. SUFFICES ASSUME T # {} PROVE FALSE
  OBVIOUS
<1>2. PICK x \in T : \A y \in T : x <= y
  <2>1. T \subseteq 1..N
    OBVIOUS
  <2> HIDE DEF T
  <2> QED
    BY <1>1, <2>1, Smallest
<1>3. x \in 1..N /\ at[x] \in Nat \ {0} /\ at[x] < x
  BY <1>2
<1>4. x - 1 \in 1..N /\ x - 1 < x
  BY <1>3
<1>5. at[x - 1] < at[x] /\ at[x - 1] \in Nat
  BY <1>3, <1>4
<1>6. x - 1 \in T
  BY <1>3, <1>4, <1>5
<1> QED
  BY <1>2, <1>3, <1>6

LEMMA Numbers == \A m \in Messages : m \in Nat
BY BoundsAssumption DEF Messages

LEMMA DomainIs ==
    ASSUME NEW S, NEW s \in Seq(S)
    PROVE  /\ Len(s) \in Nat /\ DOMAIN s = 1..Len(s)
           /\ \A i \in DOMAIN s : i \in Nat \ {0} /\ s[i] \in S
BY LenProperties, ElementOfSeq

LEMMA ClearBefore ==
    ASSUME NEW V \in Seq(Messages), NEW x \in Messages, NEW list, NEW p,
           Clear(Append(V, x), list, p)
    PROVE  Clear(V, list, p) /\ \A r \in 2..p : list[r] # x
<1>1. /\ \A k \in DOMAIN V : k \in DOMAIN Append(V, x) /\ Append(V, x)[k] = V[k]
      /\ Len(V) + 1 \in DOMAIN Append(V, x) /\ Append(V, x)[Len(V) + 1] = x
  BY AppendIs
<1> QED
  BY <1>1 DEF Clear

LEMMA TwiceBefore ==
    ASSUME NEW V \in Seq(Messages), NEW x \in Messages
    PROVE  /\ \A j \in Nat : j <= Len(V) /\ Twice(V, j) => Twice(Append(V, x), j)
           /\ ~Twice(Append(V, x), Len(Append(V, x))) =>
                 ~Twice(V, Len(V)) /\ \A k \in DOMAIN V : V[k] # x
<1>0. Len(V) \in Nat /\ DOMAIN V = 1..Len(V) /\ Len(Append(V, x)) = Len(V) + 1
  BY DomainIs, AppendProperties
<1>1. /\ \A k \in 1..Len(V) : Append(V, x)[k] = V[k]
      /\ Append(V, x)[Len(V) + 1] = x
  BY <1>0, AppendIs
<1>2. ASSUME NEW j \in Nat, j <= Len(V), Twice(V, j) PROVE Twice(Append(V, x), j)
  <2>1. PICK k, l \in 1..j : k < l /\ V[k] = V[l]
    BY <1>2 DEF Twice
  <2>2. k \in 1..Len(V) /\ l \in 1..Len(V)
    BY <1>0, <1>2
  <2> QED
    BY <1>1, <2>1, <2>2 DEF Twice
<1>3. ASSUME Twice(V, Len(V)) PROVE Twice(Append(V, x), Len(Append(V, x)))
  <2>1. PICK k, l \in 1..Len(V) : k < l /\ V[k] = V[l]
    BY <1>3 DEF Twice
  <2>2. k \in 1..(Len(V) + 1) /\ l \in 1..(Len(V) + 1)
    BY <1>0
  <2> QED
    BY <1>0, <1>1, <2>1, <2>2 DEF Twice
<1>4. ASSUME NEW k \in DOMAIN V, V[k] = x PROVE Twice(Append(V, x), Len(Append(V, x)))
  <2>1. k \in 1..(Len(V) + 1) /\ Len(V) + 1 \in 1..(Len(V) + 1) /\ k < Len(V) + 1
    BY <1>0
  <2>2. Append(V, x)[k] = Append(V, x)[Len(V) + 1]
    BY <1>0, <1>1, <1>4
  <2> QED
    BY <1>0, <2>1, <2>2 DEF Twice
<1> QED
  BY <1>2, <1>3, <1>4

\* What is not older than what went out of its action keeps the order, and
\* behind a duplicate anything does.
LEMMA InOrderGrows ==
    ASSUME NEW act, NEW V \in Seq(Messages), NEW x \in Messages, InOrder(act, V),
           \/ Twice(V, Len(V))
           \/ \A k \in DOMAIN V : act[V[k]] = act[x] => V[k] <= x
    PROVE  InOrder(act, Append(V, x))
<1> DEFINE V1 == Append(V, x)
<1>0. /\ Len(V) \in Nat /\ DOMAIN V = 1..Len(V) /\ DOMAIN V1 = 1..(Len(V) + 1)
      /\ \A k \in 1..Len(V) : V1[k] = V[k] /\ V[k] \in Nat
      /\ V1[Len(V) + 1] = x /\ x \in Nat
  BY DomainIs, AppendIs, Numbers
<1>1. \A j \in Nat : j <= Len(V) /\ Twice(V, j) => Twice(V1, j)
  BY TwiceBefore
<1> HIDE DEF V1
<1>2. SUFFICES ASSUME NEW i \in DOMAIN V1, NEW j \in DOMAIN V1,
                      i < j, act[V1[i]] = act[V1[j]], V1[j] < V1[i]
               PROVE  Twice(V1, j - 1)
  BY DEF InOrder, V1
<1>3. CASE j \in DOMAIN V
  <2>1. i \in DOMAIN V /\ V1[i] = V[i] /\ V1[j] = V[j]
    BY <1>0, <1>2, <1>3
  <2>2. Twice(V, j - 1)
    BY <1>2, <1>3, <2>1 DEF InOrder
  <2>3. j - 1 \in Nat /\ j - 1 <= Len(V)
    BY <1>0, <1>3
  <2> QED
    BY <1>1, <2>2, <2>3
<1>4. CASE j \notin DOMAIN V
  <2>1. j = Len(V) + 1 /\ i \in DOMAIN V /\ V1[i] = V[i] /\ V1[j] = x /\ j - 1 = Len(V)
    BY <1>0, <1>2, <1>4
  <2>2. ~(V[i] <= x)
    BY <1>0, <1>2, <2>1
  <2>3. Twice(V, Len(V))
    BY <1>2, <2>1, <2>2
  <2> QED
    BY <1>0, <1>1, <2>1, <2>3
<1> QED
  BY <1>3, <1>4

LEMMA NoneNewerGrows ==
    ASSUME NEW act, NEW V \in Seq(Messages), NEW x \in Messages, NEW P,
           NoneNewer(act, V, P), \A q \in DOMAIN P : act[x] = act[P[q]] => x <= P[q]
    PROVE  NoneNewer(act, Append(V, x), P)
BY AppendIs DEF NoneNewer

-----------------------------------------------------------------------------
(* A batch begins with what is pending *)

\* The facts about the lists W and what goes behind them.
LEMMA ListsGrow ==
    ASSUME NEW S, NEW W \in Seq(S), NEW list \in S
    PROVE  /\ Len(Append(W, list)) = Len(W) + 1
           /\ DOMAIN Append(W, list) = DOMAIN W \cup {Len(W) + 1}
           /\ \A i \in DOMAIN W : Append(W, list)[i] = W[i] /\ i <= Len(W) /\ i \in Nat
           /\ Append(W, list)[Len(W) + 1] = list
           /\ Len(W) \in Nat
BY AppendIs, AppendProperties, DomainIs

\* Nothing that a batch under way will come to is at the front of P.
LEMMA FrontIsNotLeft ==
    ASSUME NEW act, NEW W \in Seq(Seq(Messages)), NEW V, NEW P \in Seq(Messages),
           Covered(act, W, V, P), SameOrder(act, W, V, P),
           NEW i \in DOMAIN W, NEW p \in DOMAIN W[i] \ {1}, Clear(V, W[i], p - 1),
           P # <<>>
    PROVE  act[W[i][p]] # act[P[1]]
<1>1. W[i] \in Seq(Messages) /\ DOMAIN W[i] = 1..Len(W[i]) /\ Len(W[i]) \in Nat
  BY DomainIs
<1>2. p - 1 \in DOMAIN W[i] /\ p - 1 < p
  BY <1>1
<1>3. PICK q \in DOMAIN P : act[P[q]] = act[W[i][p - 1]]
  BY <1>2 DEF Covered
<1>4. 1 \in DOMAIN P /\ q \in Nat /\ ~(q < 1)
  BY DomainIs, TailIs
<1>5. SUFFICES ASSUME act[P[1]] = act[W[i][p]] PROVE FALSE
  OBVIOUS
<1>6. q < 1
  BY <1>2, <1>3, <1>4, <1>5 DEF SameOrder
<1> QED
  BY <1>4, <1>6

\* Where a batch under way has a message, P has it no further in front.
LEMMA NoFurtherInFront ==
    ASSUME NEW act, NEW W \in Seq(Seq(Messages)), NEW V, NEW P \in Seq(Messages),
           Covered(act, W, V, P), SameOrder(act, W, V, P),
           NEW i \in DOMAIN W, NEW p \in DOMAIN W[i] \ {1}, Clear(V, W[i], p - 1),
           NEW q \in DOMAIN P, act[P[q]] = act[W[i][p]]
    PROVE  p <= q
<1>1. W[i] \in Seq(Messages) /\ DOMAIN W[i] = 1..Len(W[i]) /\ Len(W[i]) \in Nat
  BY DomainIs
<1>2. p \in Nat /\ p >= 2 /\ \A r \in 1..p : r \in DOMAIN W[i]
  BY <1>1
<1>3. \A r \in 1..(p - 1) : Clear(V, W[i], r)
  <2>1. \A r \in 1..(p - 1) : \A k \in 2..r : k \in 2..(p - 1)
    BY <1>2
  <2> QED
    BY <2>1 DEF Clear
<1>4. \A r \in 1..(p - 1) : \E s \in DOMAIN P : act[P[s]] = act[W[i][r]]
  <2>1. \A r \in 1..(p - 1) : r \in DOMAIN W[i]
    BY <1>2
  <2> QED
    BY <1>3, <2>1 DEF Covered
<1> DEFINE Place(r) == IF r = p THEN q
                       ELSE CHOOSE s \in DOMAIN P : act[P[s]] = act[W[i][r]]
           at == [r \in 1..p |-> Place(r)]
<1>5. ASSUME NEW r \in 1..p PROVE Place(r) \in DOMAIN P /\ act[P[Place(r)]] = act[W[i][r]]
  <2>1. CASE r = p
    BY <2>1
  <2>2. CASE r # p
    <3>1. r \in 1..(p - 1)
      BY <1>2, <2>2
    <3>2. Place(r) = CHOOSE s \in DOMAIN P : act[P[s]] = act[W[i][r]]
      BY <2>2
    <3> QED
      BY <1>4, <3>1, <3>2
  <2> QED
    BY <2>1, <2>2
<1>6. Place(p) = q
  OBVIOUS
<1> HIDE DEF Place
<1>7. at \in [1..p -> Nat \ {0}]
  BY <1>5, DomainIs
<1>8. ASSUME NEW r \in 1..p, NEW s \in 1..p, r < s PROVE at[r] < at[s]
  <2>1. s - 1 \in 1..(p - 1)
    BY <1>2, <1>8
  <2>2. Clear(V, W[i], s - 1) /\ r \in DOMAIN W[i] /\ s \in DOMAIN W[i]
    BY <1>2, <1>3, <2>1
  <2>3. /\ Place(r) \in DOMAIN P /\ act[P[Place(r)]] = act[W[i][r]]
        /\ Place(s) \in DOMAIN P /\ act[P[Place(s)]] = act[W[i][s]]
    BY <1>5
  <2>4. Place(r) < Place(s)
    BY <1>8, <2>2, <2>3 DEF SameOrder
  <2> QED
    BY <2>4
<1>9. \A r \in 1..p : r <= at[r]
  <2> HIDE DEF at
  <2> QED
    BY <1>2, <1>7, <1>8, NotInFront
<1> QED
  BY <1>2, <1>6, <1>9

LEMMA BeginAligned ==
    ASSUME NEW act, NEW W \in Seq(Seq(Messages)), NEW V \in Seq(Messages),
           NEW P \in Seq(Messages), P # <<>>,
           \A q, s \in DOMAIN P : act[P[q]] = act[P[s]] => q = s,
           NoneNewer(act, V, P), ListsPending(act, W, P), Aligned(act, W, V, P)
    PROVE  Aligned(act, Append(W, P), Append(V, P[1]), P)
<1> DEFINE n == Len(W) + 1
           W1 == Append(W, P)
           x == P[1]
           V1 == Append(V, x)
<1>1. /\ Len(W1) = n /\ DOMAIN W1 = DOMAIN W \cup {n} /\ n \in Nat
      /\ \A i \in DOMAIN W : W1[i] = W[i] /\ i < n /\ i \in Nat
      /\ W1[n] = P
  BY ListsGrow
<1>2. 1 \in DOMAIN P /\ x \in Messages /\ x \in Nat /\ \A q \in DOMAIN P : q \in Nat \ {0} /\ P[q] \in Nat
  BY TailIs, DomainIs, Numbers
<1>3. /\ Len(V1) = Len(V) + 1 /\ DOMAIN V1 = DOMAIN V \cup {Len(V) + 1} /\ Len(V) \in Nat
      /\ \A k \in DOMAIN V : V1[k] = V[k] /\ V[k] \in Nat
      /\ V1[Len(V) + 1] = x
  BY <1>2, AppendIs, AppendProperties, DomainIs, Numbers
<1>4. \A i \in DOMAIN W : W[i] \in Seq(Messages) /\ \A p \in DOMAIN W[i] : p \in Nat \ {0} /\ W[i][p] \in Nat
  BY DomainIs, Numbers
<1>5. \A list, p : Clear(V1, list, p) => Clear(V, list, p) /\ \A r \in 2..p : list[r] # x
  BY <1>2, ClearBefore
<1>6. \A i \in DOMAIN W : \A p \in DOMAIN W[i] \ {1} :
         Clear(V1, W[i], p - 1) => act[W[i][p]] # act[x]
  BY <1>5, FrontIsNotLeft DEF Aligned
<1> HIDE DEF n, W1, V1, x
<1>h. Heads(W1, V1)
  <2>1. Len(W1) <= Len(V1)
    BY <1>1, <1>3, DomainIs DEF Aligned, Heads, n
  <2>2. ASSUME NEW i \in DOMAIN W1 PROVE W1[i] # <<>> /\ V1[Len(V1) - Len(W1) + i] = W1[i][1]
    <3>1. CASE i \in DOMAIN W
      <4>1. Len(V1) - Len(W1) + i = Len(V) - Len(W) + i /\ Len(V) - Len(W) + i \in DOMAIN V
        <5>1. Len(W) \in Nat /\ i \in 1..Len(W) /\ Len(W) <= Len(V) /\ DOMAIN V = 1..Len(V)
          BY <3>1, DomainIs DEF Aligned, Heads
        <5> QED
          BY <1>1, <1>3, <5>1 DEF n
      <4>2. W[i] # <<>> /\ V[Len(V) - Len(W) + i] = W[i][1]
        BY <3>1 DEF Aligned, Heads
      <4> QED
        BY <1>1, <1>3, <3>1, <4>1, <4>2
    <3>2. CASE i = n
      BY <1>1, <1>3, <3>2 DEF x
    <3> QED
      BY <1>1, <2>2, <3>1, <3>2
  <2> QED
    BY <2>1, <2>2 DEF Heads
<1>o. OnePerAction(act, W1)
  BY <1>1 DEF Aligned, OnePerAction
<1>f. Fresh(act, W1, V1)
  <2>1. SUFFICES ASSUME NEW i \in DOMAIN W1, NEW p \in DOMAIN W1[i] \ {1},
                        Clear(V1, W1[i], p - 1),
                        NEW k \in DOMAIN V1, act[V1[k]] = act[W1[i][p]]
                 PROVE  V1[k] <= W1[i][p]
    BY DEF Fresh
  <2>2. CASE i \in DOMAIN W
    <3>1. W1[i] = W[i] /\ Clear(V, W[i], p - 1) /\ act[W[i][p]] # act[x]
      BY <1>1, <1>5, <1>6, <2>1, <2>2
    <3>2. k \in DOMAIN V /\ V1[k] = V[k]
      BY <1>3, <2>1, <3>1
    <3> QED
      BY <2>1, <2>2, <3>1, <3>2 DEF Aligned, Fresh
  <2>3. CASE i = n
    <3>1. W1[i] = P /\ p # 1
      BY <1>1, <2>3
    <3>2. act[P[p]] # act[x]
      BY <1>2, <2>1, <3>1 DEF x
    <3>3. k \in DOMAIN V /\ V1[k] = V[k]
      BY <1>3, <2>1, <3>1, <3>2
    <3> QED
      BY <2>1, <3>1, <3>3 DEF NoneNewer
  <2> QED
    BY <1>1, <2>2, <2>3
<1>c. Covered(act, W1, V1, P)
  <2>1. SUFFICES ASSUME NEW i \in DOMAIN W1, NEW p \in DOMAIN W1[i], Clear(V1, W1[i], p)
                 PROVE  \E q \in DOMAIN P : act[P[q]] = act[W1[i][p]]
    BY DEF Covered
  <2>2. CASE i \in DOMAIN W
    <3>1. W1[i] = W[i] /\ Clear(V, W[i], p)
      BY <1>1, <1>5, <2>1, <2>2
    <3> QED
      BY <2>1, <2>2, <3>1 DEF Aligned, Covered
  <2>3. CASE i = n
    BY <1>1, <2>1, <2>3
  <2> QED
    BY <1>1, <2>2, <2>3
<1>s. SameOrder(act, W1, V1, P)
  <2>1. SUFFICES ASSUME NEW i \in DOMAIN W1, NEW p \in DOMAIN W1[i], NEW r \in DOMAIN W1[i],
                        p < r, Clear(V1, W1[i], r - 1), NEW q \in DOMAIN P, NEW s \in DOMAIN P,
                        act[P[q]] = act[W1[i][p]], act[P[s]] = act[W1[i][r]]
                 PROVE  q < s
    BY DEF SameOrder
  <2>2. CASE i \in DOMAIN W
    <3>1. W1[i] = W[i] /\ Clear(V, W[i], r - 1)
      BY <1>1, <1>5, <2>1, <2>2
    <3> QED
      BY <2>1, <2>2, <3>1 DEF Aligned, SameOrder
  <2>3. CASE i = n
    <3>1. q = p /\ s = r
      BY <1>1, <2>1, <2>3
    <3> QED
      BY <2>1, <3>1
  <2> QED
    BY <1>1, <2>2, <2>3
<1>b. Behind(act, W1, V1)
  <2>1. SUFFICES ASSUME NEW i \in DOMAIN W1, NEW j \in DOMAIN W1,
                        NEW p \in DOMAIN W1[i] \ {1}, NEW r \in DOMAIN W1[j],
                        Clear(V1, W1[i], p - 1), act[W1[i][p]] = act[W1[j][r]],
                        W1[i][p] < W1[j][r]
                 PROVE  p < r \/ (p = r /\ i < j)
    BY DEF Behind
  <2>2. CASE i \in DOMAIN W /\ j \in DOMAIN W
    <3>1. W1[i] = W[i] /\ W1[j] = W[j] /\ Clear(V, W[i], p - 1)
      BY <1>1, <1>5, <2>1, <2>2
    <3> QED
      BY <2>1, <2>2, <3>1 DEF Aligned, Behind
  <2>3. CASE i \in DOMAIN W /\ j = n
    <3>1. W1[i] = W[i] /\ W1[j] = P /\ Clear(V, W[i], p - 1) /\ i < j
      BY <1>1, <1>5, <2>1, <2>3
    <3>2. p <= r
      BY <2>1, <2>3, <3>1, NoFurtherInFront DEF Aligned
    <3>3. p \in Nat /\ r \in Nat
      BY <1>2, <1>4, <2>1, <2>3, <3>1
    <3> QED
      BY <3>1, <3>2, <3>3
  <2>4. CASE i = n /\ j \in DOMAIN W
    <3>1. W1[i] = P /\ W1[j] = W[j]
      BY <1>1, <2>4
    <3>2. W[j][r] <= P[p]
      BY <2>1, <2>4, <3>1 DEF ListsPending, NoneNewer
    <3>3. W[j][r] \in Nat /\ P[p] \in Nat
      BY <1>2, <1>4, <2>1, <2>4, <3>1
    <3> QED
      BY <2>1, <3>1, <3>2, <3>3
  <2>5. CASE i = n /\ j = n
    <3>1. W1[i] = P /\ W1[j] = P /\ p = r
      BY <1>1, <2>1, <2>5
    <3> QED
      BY <1>2, <2>1, <3>1
  <2> QED
    BY <1>1, <2>2, <2>3, <2>4, <2>5
<1> QED
  BY <1>h, <1>o, <1>f, <1>c, <1>s, <1>b DEF Aligned, W1, V1, x

LEMMA BeginOrderly ==
    ASSUME NEW act, NEW W \in Seq(Seq(Messages)), NEW V \in Seq(Messages),
           NEW P \in Seq(Messages), P # <<>>,
           \A q, s \in DOMAIN P : act[P[q]] = act[P[s]] => q = s,
           Orderly(act, W, V, P)
    PROVE  Orderly(act, Append(W, P), Append(V, P[1]), P)
<1>0. 1 \in DOMAIN P /\ P[1] \in Messages /\ \A q \in DOMAIN P : P[q] \in Nat
  BY TailIs, DomainIs, Numbers
<1>1. InOrder(act, Append(V, P[1]))
  <2>1. \A k \in DOMAIN V : act[V[k]] = act[P[1]] => V[k] <= P[1]
    BY <1>0 DEF Orderly, NoneNewer
  <2> QED
    BY <1>0, <2>1, InOrderGrows DEF Orderly
<1>2. NoneNewer(act, Append(V, P[1]), P)
  <2>1. \A q \in DOMAIN P : act[P[1]] = act[P[q]] => P[1] <= P[q]
    BY <1>0
  <2> QED
    BY <1>0, <2>1, NoneNewerGrows DEF Orderly
<1>3. ListsPending(act, Append(W, P), P)
  <2>1. NoneNewer(act, P, P)
    BY <1>0 DEF NoneNewer
  <2>2. /\ DOMAIN Append(W, P) = DOMAIN W \cup {Len(W) + 1}
        /\ \A i \in DOMAIN W : Append(W, P)[i] = W[i]
        /\ Append(W, P)[Len(W) + 1] = P
    BY ListsGrow
  <2> QED
    BY <2>1, <2>2 DEF Orderly, ListsPending
<1>4. ASSUME ~Twice(Append(V, P[1]), Len(Append(V, P[1])))
      PROVE  Aligned(act, Append(W, P), Append(V, P[1]), P)
  <2>1. ~Twice(V, Len(V))
    BY <1>0, <1>4, TwiceBefore
  <2> QED
    BY <2>1, BeginAligned DEF Orderly
<1> QED
  BY <1>1, <1>2, <1>3, <1>4 DEF Orderly

-----------------------------------------------------------------------------
(* A batch goes on *)

\* P1 is P without h, in the same order.
Without(P, h, P1) == \E from \in [DOMAIN P1 -> DOMAIN P] :
    /\ \A q \in DOMAIN P1 : P1[q] = P[from[q]]
    /\ \A q, s \in DOMAIN P1 : from[q] < from[s] => q < s
    /\ \A r \in DOMAIN P : P[r] # h => \E q \in DOMAIN P1 : from[q] = r

LEMMA TakeWithout ==
    ASSUME NEW P \in Seq(Messages), NEW h,
           \A i, j \in DOMAIN P : action[P[i]] = action[P[j]] => i = j
    PROVE  Without(P, h, Take(P, h))
<1> DEFINE same == {i \in DOMAIN P : P[i] = h}
           left == Take(P, h)
<1>0. Len(P) \in Nat /\ DOMAIN P = 1..Len(P)
  BY DomainIs
<1>1. CASE same = {}
  <2>1. left = P
    BY <1>1 DEF Take
  <2> DEFINE from == [q \in DOMAIN P |-> q]
  <2>2. from \in [DOMAIN left -> DOMAIN P]
    BY <2>1
  <2>3. \A q \in DOMAIN left : left[q] = P[from[q]]
    BY <2>1
  <2>4. \A q, s \in DOMAIN left : from[q] < from[s] => q < s
    BY <2>1
  <2>5. \A r \in DOMAIN P : P[r] # h => \E q \in DOMAIN left : from[q] = r
    BY <2>1
  <2> HIDE DEF from, left
  <2>6. Without(P, h, left)
    BY <2>2, <2>3, <2>4, <2>5 DEF Without
  <2> QED
    BY <2>6 DEF left
<1>2. CASE same # {}
  <2> DEFINE k == CHOOSE i \in same : TRUE
  <2>1. k \in DOMAIN P /\ P[k] = h
    BY <1>2
  <2>2. left = RemoveAt(P, k)
    BY <1>2 DEF Take
  <2> HIDE DEF k, left
  <2>3. /\ left \in Seq(Messages) /\ Len(left) = Len(P) - 1
        /\ \A i \in DOMAIN left : left[i] = IF i < k THEN P[i] ELSE P[i + 1]
    BY <2>1, <2>2, RemoveAtIs
  <2>4. DOMAIN left = 1..(Len(P) - 1) /\ k \in 1..Len(P)
    BY <1>0, <2>1, <2>3, DomainIs
  <2> DEFINE from == [q \in DOMAIN left |-> IF q < k THEN q ELSE q + 1]
  <2>5. from \in [DOMAIN left -> DOMAIN P]
    BY <1>0, <2>4
  <2>6. \A q \in DOMAIN left : left[q] = P[from[q]]
    BY <2>3, <2>4
  <2>7. \A q, s \in DOMAIN left : from[q] < from[s] => q < s
    BY <2>4
  <2>8. ASSUME NEW r \in DOMAIN P, P[r] # h PROVE \E q \in DOMAIN left : from[q] = r
    <3>1. r # k /\ r \in 1..Len(P)
      BY <1>0, <2>1, <2>8
    <3>2. CASE r < k
      <4>1. r \in DOMAIN left /\ from[r] = r
        BY <1>0, <2>4, <3>1, <3>2
      <4> QED
        BY <4>1
    <3>3. CASE ~(r < k)
      <4>1. r - 1 \in DOMAIN left /\ from[r - 1] = r
        BY <1>0, <2>4, <3>1, <3>3
      <4> QED
        BY <4>1
    <3> QED
      BY <3>2, <3>3
  <2> HIDE DEF from
  <2>9. Without(P, h, left)
    BY <2>5, <2>6, <2>7, <2>8 DEF Without
  <2> QED
    BY <2>9 DEF left
<1> QED
  BY <1>1, <1>2

LEMMA WithoutIs ==
    ASSUME NEW act, NEW P, NEW h, NEW P1, Without(P, h, P1)
    PROVE  /\ \A V : NoneNewer(act, V, P) => NoneNewer(act, V, P1)
           /\ \A W : ListsPending(act, W, P) => ListsPending(act, W, P1)
<1>1. \A q \in DOMAIN P1 : \E r \in DOMAIN P : P1[q] = P[r]
  BY DEF Without
<1>2. ASSUME NEW V, NoneNewer(act, V, P) PROVE NoneNewer(act, V, P1)
  BY <1>1, <1>2 DEF NoneNewer
<1> QED
  BY <1>2 DEF ListsPending

\* The head that is taken out of P is not what another place of a list needs.
LEMMA HeadNotNeeded ==
    ASSUME NEW act, NEW W \in Seq(Seq(Messages)), NEW V \in Seq(Messages),
           NEW P \in Seq(Messages),
           InOrder(act, V), ~Twice(V, Len(V)), ListsPending(act, W, P), Aligned(act, W, V, P),
           NEW i \in DOMAIN W, NEW p \in DOMAIN W[i], i # 1 \/ p # 1, Clear(V, W[i], p)
    PROVE  \A q \in DOMAIN P : act[P[q]] = act[W[i][p]] => P[q] # W[1][1]
<1>0. SUFFICES ASSUME NEW q \in DOMAIN P, act[P[q]] = act[W[i][p]], P[q] = W[1][1]
               PROVE  FALSE
  OBVIOUS
<1>1. /\ Len(W) \in Nat /\ DOMAIN W = 1..Len(W) /\ i \in 1..Len(W) /\ 1 \in DOMAIN W
  BY DomainIs
<1>2. /\ W[i] \in Seq(Messages) /\ W[1] \in Seq(Messages) /\ W[i] # <<>> /\ W[1] # <<>>
  BY <1>1, DomainIs DEF Aligned, Heads
<1>3. /\ 1 \in DOMAIN W[i] /\ 1 \in DOMAIN W[1]
      /\ \A r \in DOMAIN W[i] : r \in Nat \ {0} /\ W[i][r] \in Nat
      /\ W[1][1] \in Nat
  <2>1. 1 \in DOMAIN W[i] /\ 1 \in DOMAIN W[1]
    BY <1>2, TailIs
  <2>2. \A r \in DOMAIN W[i] : r \in Nat \ {0} /\ W[i][r] \in Nat
    BY <1>2, DomainIs, Numbers
  <2>3. W[1][1] \in Messages
    BY <1>2, <2>1, DomainIs
  <2> QED
    BY <2>1, <2>2, <2>3, Numbers
<1> DEFINE k == Len(V) - Len(W) + 1
           l == Len(V) - Len(W) + i
<1>4. /\ Len(V) \in Nat /\ k \in 1..Len(V) /\ l \in 1..Len(V) /\ DOMAIN V = 1..Len(V)
      /\ V[k] = W[1][1] /\ V[l] = W[i][1]
  <2>1. Len(W) <= Len(V) /\ Len(V) \in Nat /\ DOMAIN V = 1..Len(V)
    BY DomainIs DEF Aligned, Heads
  <2>2. V[k] = W[1][1] /\ V[l] = W[i][1]
    BY <1>1 DEF Aligned, Heads
  <2> QED
    BY <1>1, <2>1, <2>2
<1>5. i # 1 => k < l
  BY <1>1, <1>4
<1> HIDE DEF k, l
<1>6. W[i][p] <= W[1][1]
  BY <1>0 DEF ListsPending, NoneNewer
<1>7. i # 1
  <2>1. SUFFICES ASSUME i = 1 PROVE FALSE
    OBVIOUS
  <2>2. p = 1
    BY <1>0, <1>3, <2>1 DEF Aligned, OnePerAction
  <2> QED
    BY <2>1, <2>2
<1>8. CASE p = 1
  <2>1. V[k] = V[l] \/ V[l] < V[k]
    BY <1>3, <1>4, <1>6, <1>8
  <2>2. CASE V[k] = V[l]
    BY <1>4, <1>5, <1>7, <2>2 DEF Twice
  <2>3. CASE V[l] < V[k]
    <3>1. act[V[k]] = act[V[l]]
      BY <1>0, <1>4, <1>8
    <3>2. Twice(V, l - 1)
      BY <1>4, <1>5, <1>7, <2>3, <3>1 DEF InOrder
    <3>3. \A j \in 1..(l - 1) : j \in 1..Len(V)
      BY <1>4
    <3> QED
      BY <3>2, <3>3 DEF Twice
  <2> QED
    BY <2>1, <2>2, <2>3
<1>9. CASE p # 1
  <2>1. p \in 2..p /\ \A r \in 2..(p - 1) : r \in 2..p
    BY <1>3, <1>9
  <2>2. W[i][p] # W[1][1]
    BY <1>4, <2>1 DEF Clear
  <2>3. W[i][p] < W[1][1]
    BY <1>3, <1>6, <2>2
  <2>4. Clear(V, W[i], p - 1)
    BY <2>1 DEF Clear
  <2>5. p < 1 \/ (p = 1 /\ i < 1)
    <3>1. /\ 1 \in DOMAIN W /\ p \in DOMAIN W[i] \ {1} /\ 1 \in DOMAIN W[1]
          /\ act[W[i][p]] = act[W[1][1]]
      BY <1>0, <1>1, <1>3, <1>9
    <3> QED
      BY <2>3, <2>4, <3>1 DEF Aligned, Behind
  <2> QED
    BY <1>3, <1>9, <2>5
<1> QED
  BY <1>8, <1>9

\* The lists W1 are lists of W, some without their heads, and in such an order
\* that places of W1 are ordered as they were.
Shifted(W, V, W1, V1, from, shift) ==
    /\ from \in [DOMAIN W1 -> DOMAIN W] /\ shift \in [DOMAIN W1 -> {0, 1}]
    /\ \A i \in DOMAIN W1 : \A p \in DOMAIN W1[i] :
          /\ p + shift[i] \in DOMAIN W[from[i]] /\ W1[i][p] = W[from[i]][p + shift[i]]
          /\ from[i] # 1 \/ p + shift[i] # 1
          /\ Clear(V1, W1[i], p) => Clear(V, W[from[i]], p + shift[i])
    /\ \A i, j \in DOMAIN W1 : \A p, r \in Nat :
          \/ p + shift[i] < r + shift[j]
          \/ p + shift[i] = r + shift[j] /\ from[i] < from[j]
          => p < r \/ (p = r /\ i < j)

LEMMA Shifts ==
    ASSUME NEW p \in Nat, NEW r \in Nat, NEW d \in {0, 1}
    PROVE  /\ p + d \in Nat /\ (p # 0 => p + d # 0)
           /\ (p + d = r + d => p = r) /\ (p < r => p + d < r + d)
OBVIOUS

LEMMA ShiftedKept ==
    ASSUME NEW act, NEW W \in Seq(Seq(Messages)), NEW V \in Seq(Messages),
           NEW P \in Seq(Messages), NEW P1 \in Seq(Messages), Without(P, W[1][1], P1),
           InOrder(act, V), ~Twice(V, Len(V)), ListsPending(act, W, P), Aligned(act, W, V, P),
           NEW V1, NEW W1 \in Seq(Seq(Messages)), NEW from, NEW shift,
           Shifted(W, V, W1, V1, from, shift)
    PROVE  /\ OnePerAction(act, W1) /\ Covered(act, W1, V1, P1)
           /\ SameOrder(act, W1, V1, P1) /\ Behind(act, W1, V1)
           /\ \A i \in DOMAIN W1 : \A p \in DOMAIN W1[i] \ {1} : Clear(V1, W1[i], p - 1) =>
                 \A k \in DOMAIN V : act[V[k]] = act[W1[i][p]] => V[k] <= W1[i][p]
<1> DEFINE From(i) == from[i]
           Of(i, p) == p + shift[i]
<1>1. /\ \A i \in DOMAIN W1 : From(i) \in DOMAIN W /\ shift[i] \in {0, 1}
      /\ \A i \in DOMAIN W1 : \A p \in DOMAIN W1[i] :
            /\ p \in Nat \ {0} /\ Of(i, p) \in Nat \ {0}
            /\ Of(i, p) \in DOMAIN W[From(i)]
            /\ W1[i][p] = W[From(i)][Of(i, p)]
  <2>1. from \in [DOMAIN W1 -> DOMAIN W] /\ shift \in [DOMAIN W1 -> {0, 1}]
    BY DEF Shifted
  <2>2. ASSUME NEW i \in DOMAIN W1, NEW p \in DOMAIN W1[i]
        PROVE  p \in Nat \ {0} /\ Of(i, p) \in Nat \ {0}
    <3>1. W1[i] \in Seq(Messages)
      BY DomainIs
    <3>2. p \in Nat \ {0} /\ shift[i] \in {0, 1}
      BY <2>1, <3>1, DomainIs
    <3>3. p + shift[i] \in Nat /\ p + shift[i] # 0
      BY <3>2, Shifts
    <3> QED
      BY <3>2, <3>3
  <2>3. \A i \in DOMAIN W1 : \A p \in DOMAIN W1[i] :
           Of(i, p) \in DOMAIN W[From(i)] /\ W1[i][p] = W[From(i)][Of(i, p)]
    BY DEF Shifted
  <2> QED
    BY <2>1, <2>2, <2>3
<1>2. \A i \in DOMAIN W1 : \A p \in DOMAIN W1[i] :
         Clear(V1, W1[i], p) => Clear(V, W[From(i)], Of(i, p))
  BY DEF Shifted
<1>3. \A i \in DOMAIN W1 : \A p \in DOMAIN W1[i] \ {1} :
         /\ Of(i, p) \in DOMAIN W[From(i)] \ {1}
         /\ Clear(V1, W1[i], p - 1) => Clear(V, W[From(i)], Of(i, p) - 1)
  <2>1. SUFFICES ASSUME NEW i \in DOMAIN W1, NEW p \in DOMAIN W1[i] \ {1}
                 PROVE  /\ Of(i, p) \in DOMAIN W[From(i)] \ {1}
                        /\ Clear(V1, W1[i], p - 1) => Clear(V, W[From(i)], Of(i, p) - 1)
    OBVIOUS
  <2>2. p - 1 \in DOMAIN W1[i]
    <3>1. W1[i] \in Seq(Messages) /\ DOMAIN W1[i] = 1..Len(W1[i]) /\ Len(W1[i]) \in Nat
      BY DomainIs
    <3> QED
      BY <3>1
  <2>3. Of(i, p - 1) = Of(i, p) - 1 /\ Of(i, p) # 1
    <3>1. p \in Nat \ {0, 1} /\ shift[i] \in {0, 1}
      BY <1>1
    <3> QED
      BY <3>1
  <2>4. Clear(V1, W1[i], p - 1) => Clear(V, W[From(i)], Of(i, p - 1))
    BY <1>2, <2>2
  <2>5. Of(i, p) \in DOMAIN W[From(i)]
    BY <1>1
  <2> HIDE DEF From, Of
  <2> QED
    BY <2>3, <2>4, <2>5
<1>4. ASSUME NEW i \in DOMAIN W1, NEW p \in DOMAIN W1[i], NEW r \in DOMAIN W1[i]
      PROVE  (Of(i, p) = Of(i, r) => p = r) /\ (p < r => Of(i, p) < Of(i, r))
  <2>1. p \in Nat /\ r \in Nat /\ shift[i] \in {0, 1}
    BY <1>1
  <2> QED
    BY <2>1, Shifts
<1>5. \A i, j \in DOMAIN W1 : \A p, r \in Nat :
          Of(i, p) < Of(j, r) \/ (Of(i, p) = Of(j, r) /\ From(i) < From(j)) => p < r \/ (p = r /\ i < j)
  BY DEF Shifted
<1>6. \A i \in DOMAIN W1 : \A p \in DOMAIN W1[i] : From(i) # 1 \/ Of(i, p) # 1
  BY DEF Shifted
<1> HIDE DEF From, Of
<1>o. OnePerAction(act, W1)
  <2>1. SUFFICES ASSUME NEW i \in DOMAIN W1, NEW p \in DOMAIN W1[i], NEW r \in DOMAIN W1[i],
                        act[W1[i][p]] = act[W1[i][r]]
                 PROVE  p = r
    BY DEF OnePerAction
  <2>2. Of(i, p) = Of(i, r)
    <3>1. /\ From(i) \in DOMAIN W /\ Of(i, p) \in DOMAIN W[From(i)]
          /\ Of(i, r) \in DOMAIN W[From(i)]
          /\ act[W[From(i)][Of(i, p)]] = act[W[From(i)][Of(i, r)]]
      BY <1>1, <2>1
    <3>2. OnePerAction(act, W)
      BY DEF Aligned
    <3> QED
      BY <3>1, <3>2 DEF OnePerAction
  <2> QED
    BY <1>4, <2>2
<1>c. Covered(act, W1, V1, P1)
  <2>1. SUFFICES ASSUME NEW i \in DOMAIN W1, NEW p \in DOMAIN W1[i], Clear(V1, W1[i], p)
                 PROVE  \E q \in DOMAIN P1 : act[P1[q]] = act[W1[i][p]]
    BY DEF Covered
  <2>2. Clear(V, W[From(i)], Of(i, p)) /\ (From(i) # 1 \/ Of(i, p) # 1)
    BY <1>2, <1>6, <2>1
  <2>3. PICK q \in DOMAIN P : act[P[q]] = act[W[From(i)][Of(i, p)]]
    <3>1. From(i) \in DOMAIN W /\ Of(i, p) \in DOMAIN W[From(i)] /\ Covered(act, W, V, P)
      BY <1>1 DEF Aligned
    <3> QED
      BY <2>2, <3>1 DEF Covered
  <2>4. P[q] # W[1][1]
    <3>1. From(i) \in DOMAIN W /\ Of(i, p) \in DOMAIN W[From(i)]
      BY <1>1
    <3> QED
      BY <2>2, <2>3, <3>1, HeadNotNeeded
  <2>5. \E s \in DOMAIN P1 : P1[s] = P[q]
    BY <2>4 DEF Without
  <2> QED
    BY <1>1, <2>3, <2>5
<1>s. SameOrder(act, W1, V1, P1)
  <2>1. SUFFICES ASSUME NEW i \in DOMAIN W1, NEW p \in DOMAIN W1[i], NEW r \in DOMAIN W1[i],
                        p < r, Clear(V1, W1[i], r - 1), NEW q \in DOMAIN P1, NEW s \in DOMAIN P1,
                        act[P1[q]] = act[W1[i][p]], act[P1[s]] = act[W1[i][r]]
                 PROVE  q < s
    BY DEF SameOrder
  <2>2. r # 1 /\ Of(i, p) < Of(i, r)
    BY <1>1, <1>4, <2>1
  <2>3. Clear(V, W[From(i)], Of(i, r) - 1)
    BY <1>3, <2>1, <2>2
  <2>4. PICK at \in [DOMAIN P1 -> DOMAIN P] :
           /\ \A t \in DOMAIN P1 : P1[t] = P[at[t]]
           /\ \A t, u \in DOMAIN P1 : at[t] < at[u] => t < u
    BY DEF Without
  <2>5. at[q] < at[s]
    <3>1. at[q] \in DOMAIN P /\ at[s] \in DOMAIN P
      BY <2>4
    <3>2. act[P[at[q]]] = act[W[From(i)][Of(i, p)]]
      BY <1>1, <2>1, <2>4
    <3>3. act[P[at[s]]] = act[W[From(i)][Of(i, r)]]
      BY <1>1, <2>1, <2>4
    <3>4. From(i) \in DOMAIN W /\ Of(i, p) \in DOMAIN W[From(i)] /\ Of(i, r) \in DOMAIN W[From(i)]
      BY <1>1
    <3> QED
      BY <2>2, <2>3, <3>1, <3>2, <3>3, <3>4 DEF Aligned, SameOrder
  <2> QED
    BY <2>4, <2>5
<1>b. Behind(act, W1, V1)
  <2>1. SUFFICES ASSUME NEW i \in DOMAIN W1, NEW j \in DOMAIN W1,
                        NEW p \in DOMAIN W1[i] \ {1}, NEW r \in DOMAIN W1[j],
                        Clear(V1, W1[i], p - 1), act[W1[i][p]] = act[W1[j][r]],
                        W1[i][p] < W1[j][r]
                 PROVE  p < r \/ (p = r /\ i < j)
    BY DEF Behind
  <2>2. \/ Of(i, p) < Of(j, r)
        \/ Of(i, p) = Of(j, r) /\ From(i) < From(j)
    <3>1. Clear(V, W[From(i)], Of(i, p) - 1) /\ Of(i, p) \in DOMAIN W[From(i)] \ {1}
      BY <1>3, <2>1
    <3>2. /\ From(i) \in DOMAIN W /\ From(j) \in DOMAIN W /\ Of(j, r) \in DOMAIN W[From(j)]
          /\ W1[i][p] = W[From(i)][Of(i, p)] /\ W1[j][r] = W[From(j)][Of(j, r)]
      BY <1>1
    <3> QED
      BY <2>1, <3>1, <3>2 DEF Aligned, Behind
  <2>3. p \in Nat /\ r \in Nat
    BY <1>1
  <2> QED
    BY <1>5, <2>2, <2>3
<1>f. ASSUME NEW i \in DOMAIN W1, NEW p \in DOMAIN W1[i] \ {1}, Clear(V1, W1[i], p - 1)
      PROVE  \A k \in DOMAIN V : act[V[k]] = act[W1[i][p]] => V[k] <= W1[i][p]
  <2>1. /\ Clear(V, W[From(i)], Of(i, p) - 1) /\ Of(i, p) \in DOMAIN W[From(i)] \ {1}
        /\ From(i) \in DOMAIN W /\ W1[i][p] = W[From(i)][Of(i, p)]
    BY <1>1, <1>3, <1>f
  <2> QED
    BY <2>1 DEF Aligned, Fresh
<1> QED
  BY <1>o, <1>c, <1>s, <1>b, <1>f

LEMMA ListsTail ==
    ASSUME NEW W \in Seq(Seq(Messages)), W # <<>>
    PROVE  /\ Tail(W) \in Seq(Seq(Messages)) /\ Len(W) \in Nat \ {0}
           /\ Len(Tail(W)) = Len(W) - 1 /\ DOMAIN Tail(W) = 1..(Len(W) - 1)
           /\ DOMAIN W = 1..Len(W) /\ 1 \in DOMAIN W /\ W[1] \in Seq(Messages)
           /\ \A i \in 1..(Len(W) - 1) : Tail(W)[i] = W[i + 1] /\ i + 1 \in DOMAIN W
<1>1. /\ Tail(W) \in Seq(Seq(Messages)) /\ Len(W) \in Nat \ {0}
      /\ Len(Tail(W)) = Len(W) - 1 /\ \A i \in 1..Len(Tail(W)) : Tail(W)[i] = W[i + 1]
  BY HeadTailProperties, EmptySeq, LenProperties
<1>2. DOMAIN W = 1..Len(W) /\ DOMAIN Tail(W) = 1..(Len(W) - 1)
  BY <1>1, DomainIs
<1>3. 1 \in DOMAIN W /\ W[1] \in Seq(Messages)
  BY <1>1, <1>2, DomainIs
<1> QED
  BY <1>1, <1>2, <1>3

\* The sender that goes on takes its head out of P and drops out.
LEMMA EndsAligned ==
    ASSUME NEW act, NEW W \in Seq(Seq(Messages)), W # <<>>, NEW V \in Seq(Messages),
           NEW P \in Seq(Messages), NEW P1 \in Seq(Messages), Without(P, W[1][1], P1),
           InOrder(act, V), ~Twice(V, Len(V)), ListsPending(act, W, P), Aligned(act, W, V, P)
    PROVE  Aligned(act, Tail(W), V, P1)
<1> DEFINE W1 == Tail(W)
           from == [i \in DOMAIN W1 |-> i + 1]
           shift == [i \in DOMAIN W1 |-> 0]
<1>1. /\ W1 \in Seq(Seq(Messages)) /\ Len(W) \in Nat \ {0}
      /\ Len(W1) = Len(W) - 1 /\ DOMAIN W1 = 1..(Len(W) - 1) /\ DOMAIN W = 1..Len(W)
      /\ \A i \in DOMAIN W1 : W1[i] = W[i + 1] /\ i + 1 \in DOMAIN W /\ i \in Nat \ {0}
  BY ListsTail
<1>2. Shifted(W, V, W1, V, from, shift)
  <2>1. from \in [DOMAIN W1 -> DOMAIN W] /\ shift \in [DOMAIN W1 -> {0, 1}]
    BY <1>1
  <2> HIDE DEF W1
  <2>2. ASSUME NEW i \in DOMAIN W1
        PROVE  /\ from[i] \in Nat /\ from[i] # 1 /\ shift[i] = 0 /\ W1[i] = W[from[i]]
               /\ \A j \in Nat : from[i] < j + 1 => i < j
               /\ \A p \in Nat : p + shift[i] = p
    <3>1. from[i] = i + 1 /\ shift[i] = 0
      OBVIOUS
    <3>2. i \in Nat \ {0} /\ W1[i] = W[i + 1]
      BY <1>1
    <3> HIDE DEF from, shift
    <3>3. i + 1 \in Nat /\ i + 1 # 1 /\ \A j \in Nat : i + 1 < j + 1 => i < j
      BY <3>2
    <3>4. \A p \in Nat : p + 0 = p
      OBVIOUS
    <3> QED
      BY <3>1, <3>2, <3>3, <3>4
  <2>3. \A j \in DOMAIN W1 : j \in Nat /\ from[j] = j + 1
    BY <1>1
  <2> HIDE DEF from, shift
  <2>4. ASSUME NEW i \in DOMAIN W1, NEW p \in DOMAIN W1[i]
        PROVE  /\ p + shift[i] \in DOMAIN W[from[i]] /\ W1[i][p] = W[from[i]][p + shift[i]]
               /\ from[i] # 1 \/ p + shift[i] # 1
               /\ Clear(V, W1[i], p) => Clear(V, W[from[i]], p + shift[i])
    <3>1. W1[i] \in Seq(Messages)
      BY <1>1, DomainIs
    <3>2. p + shift[i] = p /\ from[i] # 1 /\ W1[i] = W[from[i]]
      BY <2>2, <3>1, DomainIs
    <3> QED
      BY <3>2
  <2>5. ASSUME NEW i \in DOMAIN W1, NEW j \in DOMAIN W1, NEW p \in Nat, NEW r \in Nat,
               \/ p + shift[i] < r + shift[j]
               \/ p + shift[i] = r + shift[j] /\ from[i] < from[j]
        PROVE  p < r \/ (p = r /\ i < j)
    <3>1. p + shift[i] = p /\ r + shift[j] = r
      BY <2>2
    <3>2. from[i] < from[j] => i < j
      BY <2>2, <2>3
    <3> QED
      BY <2>5, <3>1, <3>2
  <2> QED
    BY <2>1, <2>4, <2>5 DEF Shifted
<1> HIDE DEF from, shift
<1>3. Heads(W1, V)
  <2>1. Len(W) <= Len(V) /\ Len(V) \in Nat
    BY DomainIs DEF Aligned, Heads
  <2>2. ASSUME NEW i \in DOMAIN W1 PROVE W1[i] # <<>> /\ V[Len(V) - Len(W1) + i] = W1[i][1]
    <3>1. Len(V) - Len(W1) + i = Len(V) - Len(W) + (i + 1)
      BY <1>1, <2>1
    <3>2. W[i + 1] # <<>> /\ V[Len(V) - Len(W) + (i + 1)] = W[i + 1][1]
      BY <1>1 DEF Aligned, Heads
    <3> QED
      BY <1>1, <3>1, <3>2
  <2> QED
    BY <1>1, <2>1, <2>2 DEF Heads
<1> HIDE DEF W1
<1>4. /\ OnePerAction(act, W1) /\ Covered(act, W1, V, P1)
      /\ SameOrder(act, W1, V, P1) /\ Behind(act, W1, V)
      /\ \A i \in DOMAIN W1 : \A p \in DOMAIN W1[i] \ {1} : Clear(V, W1[i], p - 1) =>
            \A k \in DOMAIN V : act[V[k]] = act[W1[i][p]] => V[k] <= W1[i][p]
  BY <1>1, <1>2, ShiftedKept
<1> QED
  BY <1>3, <1>4 DEF Aligned, Fresh, W1

LEMMA EndsOrderly ==
    ASSUME NEW act, NEW W \in Seq(Seq(Messages)), W # <<>>, NEW V \in Seq(Messages),
           NEW P \in Seq(Messages), NEW P1 \in Seq(Messages), Without(P, W[1][1], P1),
           Orderly(act, W, V, P)
    PROVE  Orderly(act, Tail(W), V, P1)
<1>1. InOrder(act, V) /\ NoneNewer(act, V, P1) /\ ListsPending(act, W, P1)
  BY WithoutIs DEF Orderly
<1>2. ListsPending(act, Tail(W), P1)
  <2>1. \A i \in DOMAIN Tail(W) : i + 1 \in DOMAIN W /\ Tail(W)[i] = W[i + 1]
    BY ListsTail
  <2> QED
    BY <1>1, <2>1 DEF ListsPending
<1>3. ASSUME ~Twice(V, Len(V)) PROVE Aligned(act, Tail(W), V, P1)
  BY <1>3, EndsAligned DEF Orderly
<1> QED
  BY <1>1, <1>2, <1>3 DEF Orderly

LEMMA ListsAppend ==
    ASSUME NEW T \in Seq(Seq(Messages)), NEW list \in Seq(Messages)
    PROVE  /\ Append(T, list) \in Seq(Seq(Messages)) /\ Len(Append(T, list)) = Len(T) + 1
           /\ DOMAIN Append(T, list) = DOMAIN T \cup {Len(T) + 1}
           /\ \A i \in DOMAIN T : Append(T, list)[i] = T[i]
           /\ Append(T, list)[Len(T) + 1] = list
BY AppendProperties, ListsGrow

LEMMA LineAppend ==
    ASSUME NEW V \in Seq(Messages), NEW x \in Messages
    PROVE  /\ Append(V, x) \in Seq(Messages) /\ Len(Append(V, x)) = Len(V) + 1
           /\ DOMAIN Append(V, x) = DOMAIN V \cup {Len(V) + 1}
           /\ \A k \in DOMAIN V : Append(V, x)[k] = V[k]
           /\ Append(V, x)[Len(V) + 1] = x
           /\ Len(V) \in Nat /\ DOMAIN V = 1..Len(V)
BY AppendIs, AppendProperties, DomainIs

LEMMA PlaceInLine ==
    ASSUME NEW a \in Nat, NEW n \in Nat, NEW i \in Nat, 1 <= i, i < n, n <= a
    PROVE  a + 1 - n + i = a - n + (i + 1) /\ a - n + (i + 1) \in 1..a
OBVIOUS

\* ... or goes to the end of the line with the next of its list.
LEMMA GoesOnAligned ==
    ASSUME NEW act, NEW W \in Seq(Seq(Messages)), W # <<>>, W[1] # <<>>, Tail(W[1]) # <<>>,
           NEW V \in Seq(Messages),
           NEW P \in Seq(Messages), NEW P1 \in Seq(Messages), Without(P, W[1][1], P1),
           InOrder(act, V), ListsPending(act, W, P), Aligned(act, W, V, P),
           ~Twice(Append(V, W[1][2]), Len(Append(V, W[1][2])))
    PROVE  Aligned(act, Append(Tail(W), Tail(W[1])), Append(V, W[1][2]), P1)
<1> DEFINE n == Len(W)
           x == W[1][2]
           V1 == Append(V, x)
           W1 == Append(Tail(W), Tail(W[1]))
           from == [i \in DOMAIN W1 |-> IF i < n THEN i + 1 ELSE 1]
           shift == [i \in DOMAIN W1 |-> IF i < n THEN 0 ELSE 1]
<1>1. /\ n \in Nat \ {0} /\ DOMAIN W = 1..n /\ 1 \in DOMAIN W /\ W[1] \in Seq(Messages)
      /\ Tail(W) \in Seq(Seq(Messages)) /\ Len(Tail(W)) = n - 1 /\ DOMAIN Tail(W) = 1..(n - 1)
      /\ \A i \in 1..(n - 1) : Tail(W)[i] = W[i + 1] /\ i + 1 \in DOMAIN W
  BY ListsTail
<1>2. /\ Tail(W[1]) \in Seq(Messages) /\ 1 \in DOMAIN Tail(W[1])
      /\ \A p \in DOMAIN Tail(W[1]) : p \in Nat \ {0} /\ p + 1 \in DOMAIN W[1] /\ Tail(W[1])[p] = W[1][p + 1]
  BY <1>1, TailIs
<1>3. 2 \in DOMAIN W[1] /\ x \in Messages /\ x \in Nat /\ x = Tail(W[1])[1]
  <2>1. 1 + 1 \in DOMAIN W[1] /\ Tail(W[1])[1] = W[1][1 + 1]
    BY <1>2
  <2>2. 2 \in DOMAIN W[1]
    BY <2>1
  <2> QED
    BY <1>1, <2>1, <2>2, DomainIs, Numbers
<1>4. /\ W1 \in Seq(Seq(Messages)) /\ Len(W1) = n /\ DOMAIN W1 = 1..n
      /\ \A i \in 1..(n - 1) : W1[i] = W[i + 1] /\ i + 1 \in DOMAIN W
      /\ W1[n] = Tail(W[1])
  <2>1. /\ W1 \in Seq(Seq(Messages)) /\ Len(W1) = (n - 1) + 1
        /\ DOMAIN W1 = DOMAIN Tail(W) \cup {(n - 1) + 1}
        /\ \A i \in DOMAIN Tail(W) : W1[i] = Tail(W)[i]
        /\ W1[(n - 1) + 1] = Tail(W[1])
    <3> DEFINE T == Tail(W)
               list == Tail(W[1])
    <3>1. T \in Seq(Seq(Messages)) /\ list \in Seq(Messages) /\ Len(T) = n - 1
      BY <1>1, <1>2
    <3> HIDE DEF T, list, n
    <3>2. /\ Append(T, list) \in Seq(Seq(Messages)) /\ Len(Append(T, list)) = Len(T) + 1
          /\ DOMAIN Append(T, list) = DOMAIN T \cup {Len(T) + 1}
          /\ \A i \in DOMAIN T : Append(T, list)[i] = T[i]
          /\ Append(T, list)[Len(T) + 1] = list
      BY <3>1, ListsAppend
    <3> QED
      BY <3>1, <3>2 DEF T, list
  <2>2. (n - 1) + 1 = n /\ 1..n = 1..(n - 1) \cup {n}
    BY <1>1
  <2> HIDE DEF W1, n
  <2>3. /\ Len(W1) = n /\ DOMAIN W1 = 1..n /\ W1[n] = Tail(W[1])
    BY <1>1, <2>1, <2>2
  <2>4. \A i \in 1..(n - 1) : W1[i] = W[i + 1] /\ i + 1 \in DOMAIN W
    BY <1>1, <2>1
  <2> QED
    BY <2>1, <2>3, <2>4
<1>5. /\ V1 \in Seq(Messages) /\ Len(V1) = Len(V) + 1 /\ Len(V) \in Nat
      /\ DOMAIN V1 = DOMAIN V \cup {Len(V) + 1} /\ DOMAIN V = 1..Len(V)
      /\ \A k \in DOMAIN V : V1[k] = V[k]
      /\ V1[Len(V) + 1] = x
  <2> HIDE DEF x
  <2>1. x \in Messages
    BY <1>3
  <2> QED
    BY <2>1, LineAppend
<1>6. ~Twice(V, Len(V)) /\ \A k \in DOMAIN V : V[k] # x
  BY <1>3, TwiceBefore
<1>7. \A list, p : Clear(V1, list, p) => Clear(V, list, p)
  BY <1>3, ClearBefore
<1>8. Shifted(W, V, W1, V1, from, shift)
  <2> HIDE DEF W1, V1, x, n
  <2>a. ASSUME NEW i \in DOMAIN W1
        PROVE  /\ i \in Nat \ {0} /\ (i < n \/ i = n)
               /\ i < n => i \in 1..(n - 1) /\ from[i] = i + 1 /\ \A p \in Nat : p + shift[i] = p
               /\ i = n => from[i] = 1 /\ \A p \in Nat : p + shift[i] = p + 1
               /\ shift[i] \in {0, 1}
    <3>1. i \in 1..n /\ n \in Nat
      BY <1>1, <1>4
    <3>2. from[i] = (IF i < n THEN i + 1 ELSE 1) /\ shift[i] = IF i < n THEN 0 ELSE 1
      OBVIOUS
    <3> HIDE DEF from, shift
    <3>3. /\ i \in Nat \ {0} /\ (i < n \/ i = n)
          /\ i < n => i \in 1..(n - 1)
          /\ i = n => ~(i < n)
      BY <3>1
    <3>4. \A p \in Nat : p + 0 = p
      OBVIOUS
    <3>5. CASE i < n
      <4>1. from[i] = i + 1 /\ shift[i] = 0 /\ ~(i = n)
        BY <3>2, <3>3, <3>5
      <4> QED
        BY <3>3, <3>4, <4>1
    <3>6. CASE ~(i < n)
      <4>1. from[i] = 1 /\ shift[i] = 1
        BY <3>2, <3>6
      <4> QED
        BY <3>3, <3>6, <4>1
    <3> QED
      BY <3>5, <3>6
  <2>2. \A i \in DOMAIN W1 :
           /\ i \in Nat \ {0} /\ (i < n \/ i = n)
           /\ i < n => i \in 1..(n - 1) /\ from[i] = i + 1 /\ \A p \in Nat : p + shift[i] = p
           /\ i = n => from[i] = 1 /\ \A p \in Nat : p + shift[i] = p + 1
           /\ shift[i] \in {0, 1}
    BY <2>a
  <2>1. from \in [DOMAIN W1 -> DOMAIN W] /\ shift \in [DOMAIN W1 -> {0, 1}]
    <3>1. \A i \in DOMAIN W1 : from[i] \in DOMAIN W
      <4>1. \A i \in 1..(n - 1) : i + 1 \in DOMAIN W
        BY <1>4
      <4> HIDE DEF from, shift
      <4> QED
        BY <1>1, <2>2, <4>1
    <3>2. \A i \in DOMAIN W1 : shift[i] \in {0, 1}
      <4> HIDE DEF from, shift
      <4> QED
        BY <2>2
    <3>3. DOMAIN from = DOMAIN W1 /\ DOMAIN shift = DOMAIN W1
      OBVIOUS
    <3>4. from = [i \in DOMAIN from |-> from[i]] /\ shift = [i \in DOMAIN shift |-> shift[i]]
      OBVIOUS
    <3> HIDE DEF from, shift
    <3> QED
      BY <3>1, <3>2, <3>3, <3>4
  <2> HIDE DEF from, shift
  <2>3. ASSUME NEW i \in DOMAIN W1, NEW p \in DOMAIN W1[i]
        PROVE  /\ p + shift[i] \in DOMAIN W[from[i]] /\ W1[i][p] = W[from[i]][p + shift[i]]
               /\ from[i] # 1 \/ p + shift[i] # 1
               /\ Clear(V1, W1[i], p) => Clear(V, W[from[i]], p + shift[i])
    <3>1. p \in Nat \ {0}
      <4>1. W1[i] \in Seq(Messages)
        BY <1>4, DomainIs
      <4> QED
        BY <4>1, DomainIs
    <3>2. CASE i < n
      <4>0. i \in Nat \ {0} /\ i \in 1..(n - 1) /\ from[i] = i + 1 /\ p + shift[i] = p
        BY <2>2, <3>1, <3>2
      <4>a. W1[i] = W[i + 1]
        BY <1>4, <4>0
      <4>c. from[i] # 1
        BY <4>0
      <4>1. p + shift[i] = p /\ from[i] # 1 /\ W1[i] = W[from[i]]
        BY <4>0, <4>a, <4>c
      <4> QED
        BY <1>7, <4>1
    <3>3. CASE i = n
      <4>a. p + shift[i] = p + 1 /\ from[i] = 1
        BY <2>2, <3>1, <3>3
      <4>b. p + 1 # 1
        BY <3>1
      <4>1. p + shift[i] = p + 1 /\ p + 1 # 1 /\ from[i] = 1 /\ W1[i] = Tail(W[1])
        BY <1>4, <3>3, <4>a, <4>b
      <4>2. ASSUME Clear(V1, W1[i], p) PROVE Clear(V, W[1], p + 1)
        <5>1. SUFFICES ASSUME NEW r \in 2..(p + 1), NEW k \in DOMAIN V PROVE V[k] # W[1][r]
          BY DEF Clear
        <5>2. CASE r = 2
          BY <1>6, <5>2 DEF x
        <5>3. CASE r # 2
          <6>1. r - 1 \in 2..p
            BY <3>1, <5>1, <5>3
          <6>2. r - 1 \in DOMAIN Tail(W[1]) /\ Tail(W[1])[r - 1] = W[1][r]
            <7>1. DOMAIN Tail(W[1]) = 1..Len(Tail(W[1])) /\ p <= Len(Tail(W[1])) /\ Len(Tail(W[1])) \in Nat
              <8>1. Tail(W[1]) \in Seq(Messages) /\ p \in DOMAIN Tail(W[1])
                BY <1>2, <4>1
              <8>2. DOMAIN Tail(W[1]) = 1..Len(Tail(W[1])) /\ Len(Tail(W[1])) \in Nat
                BY <8>1, DomainIs
              <8> QED
                BY <8>1, <8>2
            <7>2. r - 1 \in DOMAIN Tail(W[1])
              BY <3>1, <6>1, <7>1
            <7>3. (r - 1) + 1 = r
              BY <5>1
            <7> QED
              BY <1>2, <7>2, <7>3
          <6>3. Clear(V, Tail(W[1]), p)
            BY <1>7, <4>1, <4>2
          <6>4. V[k] # Tail(W[1])[r - 1]
            BY <6>1, <6>3 DEF Clear
          <6> QED
            BY <6>2, <6>4
        <5> QED
          BY <5>2, <5>3
      <4> QED
        BY <1>2, <4>1, <4>2
    <3> QED
      BY <2>2, <3>2, <3>3
  <2>4. ASSUME NEW i \in DOMAIN W1, NEW j \in DOMAIN W1, NEW p \in Nat, NEW r \in Nat,
               \/ p + shift[i] < r + shift[j]
               \/ p + shift[i] = r + shift[j] /\ from[i] < from[j]
        PROVE  p < r \/ (p = r /\ i < j)
    <3>0. n \in Nat
      BY <1>1
    <3>1. CASE i < n /\ j < n
      <4>1. p + shift[i] = p /\ r + shift[j] = r /\ from[i] = i + 1 /\ from[j] = j + 1
        BY <2>2, <3>1
      <4>2. i \in Nat /\ j \in Nat /\ (from[i] < from[j] => i < j)
        BY <2>2, <4>1
      <4> QED
        BY <2>4, <4>1, <4>2
    <3>2. CASE i < n /\ j = n
      <4>1. p + shift[i] = p /\ r + shift[j] = r + 1 /\ from[i] = i + 1 /\ from[j] = 1
        BY <2>2, <3>2
      <4>2. i \in Nat \ {0} /\ ~(from[i] < from[j]) /\ i < j
        BY <2>2, <3>2, <4>1
      <4>3. p < r + 1
        BY <2>4, <4>1, <4>2
      <4> QED
        BY <4>2, <4>3
    <3>3. CASE i = n /\ j < n
      <4>1. p + shift[i] = p + 1 /\ r + shift[j] = r
        BY <2>2, <3>3
      <4> QED
        BY <2>4, <4>1
    <3>4. CASE i = n /\ j = n
      <4>1. p + shift[i] = p + 1 /\ r + shift[j] = r + 1 /\ from[i] = 1 /\ from[j] = 1
        BY <2>2, <3>4
      <4> QED
        BY <2>4, <4>1
    <3> QED
      BY <2>2, <3>1, <3>2, <3>3, <3>4
  <2> QED
    BY <2>1, <2>3, <2>4 DEF Shifted
<1> HIDE DEF from, shift, W1, V1, n
<1>9. /\ OnePerAction(act, W1) /\ Covered(act, W1, V1, P1)
      /\ SameOrder(act, W1, V1, P1) /\ Behind(act, W1, V1)
      /\ \A i \in DOMAIN W1 : \A p \in DOMAIN W1[i] \ {1} : Clear(V1, W1[i], p - 1) =>
            \A k \in DOMAIN V : act[V[k]] = act[W1[i][p]] => V[k] <= W1[i][p]
  BY <1>4, <1>6, <1>8, ShiftedKept
<1>10. Heads(W1, V1)
  <2>1. Len(W) <= Len(V)
    BY DEF Aligned, Heads
  <2>2. ASSUME NEW i \in DOMAIN W1 PROVE W1[i] # <<>> /\ V1[Len(V1) - Len(W1) + i] = W1[i][1]
    <3>1. CASE i < n
      <4>0. i \in 1..n /\ n \in Nat /\ Len(W) = n /\ Len(W1) = n /\ Len(V1) = Len(V) + 1
            /\ Len(V) \in Nat /\ n <= Len(V) /\ DOMAIN V = 1..Len(V)
        BY <1>1, <1>4, <1>5, <2>1, <2>2 DEF n
      <4>a. i \in 1..(n - 1)
        BY <3>1, <4>0
      <4>b. ASSUME NEW a \in Nat, n <= a
            PROVE  a + 1 - n + i = a - n + (i + 1) /\ a - n + (i + 1) \in 1..a
        <5>1. i \in Nat /\ n \in Nat /\ 1 <= i /\ i < n
          BY <3>1, <4>0
        <5> QED
          BY <4>b, <5>1, PlaceInLine
      <4>1. i \in 1..(n - 1) /\ Len(V1) - Len(W1) + i = Len(V) - Len(W) + (i + 1)
            /\ Len(V) - Len(W) + (i + 1) \in DOMAIN V
        BY <4>0, <4>a, <4>b
      <4>2. W[i + 1] # <<>> /\ V[Len(V) - Len(W) + (i + 1)] = W[i + 1][1]
        BY <1>4, <4>1 DEF Aligned, Heads
      <4> QED
        BY <1>4, <1>5, <4>1, <4>2
    <3>2. CASE i = n
      <4>1. Len(V1) - Len(W1) + i = Len(V) + 1
        BY <1>1, <1>4, <1>5, <3>2
      <4> QED
        BY <1>3, <1>4, <1>5, <3>2, <4>1
    <3> QED
      BY <1>1, <1>4, <3>1, <3>2
  <2> QED
    BY <1>1, <1>4, <1>5, <2>1, <2>2 DEF Heads, n
<1>11. ASSUME NEW i \in DOMAIN W1, NEW p \in DOMAIN W1[i] \ {1}, Clear(V1, W1[i], p - 1),
              act[x] = act[W1[i][p]]
       PROVE  x <= W1[i][p]
  <2>1. W1[i] \in Seq(Messages)
    BY <1>4, DomainIs
  <2>2. p \in Nat \ {0, 1} /\ W1[i][p] \in Nat
    BY <2>1, DomainIs, Numbers
  <2>3. CASE i < n
    <3>a. i \in 1..n /\ n \in Nat
      BY <1>1, <1>4, <1>11
    <3>0. i \in 1..(n - 1) /\ i \in Nat
      BY <2>3, <3>a
    <3>1. i \in 1..(n - 1) /\ W1[i] = W[i + 1] /\ i + 1 \in DOMAIN W /\ ~(i + 1 < 1)
      <4>1. W1[i] = W[i + 1] /\ i + 1 \in DOMAIN W
        BY <1>4, <3>0
      <4>2. ~(i + 1 < 1)
        BY <3>0
      <4> QED
        BY <3>0, <4>1, <4>2
    <3>2. Clear(V, W[i + 1], p - 1)
      BY <1>7, <1>11, <3>1
    <3>3. ~(W[i + 1][p] < x)
      <4>1. SUFFICES ASSUME W[i + 1][p] < x PROVE FALSE
        OBVIOUS
      <4>2. p < 2 \/ (p = 2 /\ i + 1 < 1)
        BY <1>1, <1>3, <1>11, <3>1, <3>2, <4>1 DEF Aligned, Behind, x
      <4> QED
        BY <2>2, <3>1, <4>2
    <3>4. ~(W1[i][p] < x) /\ x \in Nat /\ W1[i][p] \in Nat
      BY <1>3, <2>2, <3>1, <3>3
    <3> QED
      BY <3>4
  <2>4. CASE i = n
    <3>1. p + 1 \in DOMAIN W[1] /\ W1[i][p] = W[1][p + 1]
      BY <1>2, <1>4, <2>4
    <3>2. p + 1 = 2
      <4>1. 1 \in DOMAIN W /\ 2 \in DOMAIN W[1] /\ x = W[1][2] /\ act[W[1][2]] = act[W[1][p + 1]]
        BY <1>1, <1>3, <1>11, <3>1 DEF x
      <4> QED
        BY <3>1, <4>1 DEF Aligned, OnePerAction
    <3> QED
      BY <2>2, <3>2
  <2> QED
    BY <1>1, <1>4, <2>3, <2>4
<1>12. Fresh(act, W1, V1)
  BY <1>5, <1>9, <1>11 DEF Fresh
<1> QED
  BY <1>9, <1>10, <1>12 DEF Aligned, W1, V1, x

LEMMA GoesOnOrderly ==
    ASSUME NEW act, NEW W \in Seq(Seq(Messages)), W # <<>>, W[1] # <<>>, Tail(W[1]) # <<>>,
           NEW V \in Seq(Messages),
           NEW P \in Seq(Messages), NEW P1 \in Seq(Messages), Without(P, W[1][1], P1),
           Orderly(act, W, V, P)
    PROVE  Orderly(act, Append(Tail(W), Tail(W[1])), Append(V, W[1][2]), P1)
<1> DEFINE x == W[1][2]
<1>1. 1 \in DOMAIN W /\ W[1] \in Seq(Messages) /\ Tail(W) \in Seq(Seq(Messages))
  BY ListsTail
<1>2. /\ Tail(W[1]) \in Seq(Messages) /\ 1 \in DOMAIN Tail(W[1])
      /\ \A p \in DOMAIN Tail(W[1]) : p + 1 \in DOMAIN W[1] /\ Tail(W[1])[p] = W[1][p + 1]
  BY <1>1, TailIs
<1>3. 2 \in DOMAIN W[1] /\ x \in Messages
  <2>1. 1 + 1 \in DOMAIN W[1] /\ Tail(W[1])[1] = W[1][1 + 1]
    BY <1>2
  <2>2. 2 \in DOMAIN W[1]
    BY <2>1
  <2> QED
    BY <1>1, <2>1, <2>2, DomainIs
<1>4. InOrder(act, V) /\ NoneNewer(act, V, P1) /\ ListsPending(act, W, P1)
  BY WithoutIs DEF Orderly
<1>5. InOrder(act, Append(V, x))
  <2>1. CASE Twice(V, Len(V))
    <3> HIDE DEF x
    <3> QED
      BY <1>3, <1>4, <2>1, InOrderGrows
  <2>2. CASE ~Twice(V, Len(V))
    <3>1. Fresh(act, W, V)
      BY <2>2 DEF Orderly, Aligned
    <3>2. Clear(V, W[1], 2 - 1) /\ 2 \in DOMAIN W[1] \ {1}
      BY <1>3 DEF Clear
    <3>3. \A k \in DOMAIN V : act[V[k]] = act[x] => V[k] <= x
      BY <1>1, <3>1, <3>2 DEF Fresh
    <3> HIDE DEF x
    <3> QED
      BY <1>3, <1>4, <3>3, InOrderGrows
  <2> QED
    BY <2>1, <2>2
<1>6. NoneNewer(act, Append(V, x), P1)
  <2>1. \A q \in DOMAIN P1 : act[x] = act[P1[q]] => x <= P1[q]
    BY <1>1, <1>3, <1>4 DEF ListsPending, NoneNewer
  <2> HIDE DEF x
  <2> QED
    BY <1>3, <1>4, <2>1, NoneNewerGrows
<1>7. ListsPending(act, Append(Tail(W), Tail(W[1])), P1)
  <2>1. NoneNewer(act, Tail(W[1]), P1)
    BY <1>1, <1>2, <1>4 DEF ListsPending, NoneNewer
  <2>2. \A i \in DOMAIN Tail(W) : NoneNewer(act, Tail(W)[i], P1)
    <3>1. \A i \in DOMAIN Tail(W) : i + 1 \in DOMAIN W /\ Tail(W)[i] = W[i + 1]
      BY ListsTail
    <3> QED
      BY <1>4, <3>1 DEF ListsPending
  <2> DEFINE T == Tail(W)
             list == Tail(W[1])
  <2>3. /\ DOMAIN Append(T, list) = DOMAIN T \cup {Len(T) + 1}
        /\ \A i \in DOMAIN T : Append(T, list)[i] = T[i]
        /\ Append(T, list)[Len(T) + 1] = list
    <3>1. T \in Seq(Seq(Messages)) /\ list \in Seq(Messages)
      BY <1>1, <1>2
    <3> HIDE DEF T, list
    <3> QED
      BY <3>1, ListsAppend
  <2>4. NoneNewer(act, list, P1) /\ \A i \in DOMAIN T : NoneNewer(act, T[i], P1)
    BY <2>1, <2>2
  <2> HIDE DEF T, list
  <2>5. ListsPending(act, Append(T, list), P1)
    BY <2>3, <2>4 DEF ListsPending
  <2> QED
    BY <2>5 DEF T, list
<1>8. ASSUME ~Twice(Append(V, x), Len(Append(V, x)))
      PROVE  Aligned(act, Append(Tail(W), Tail(W[1])), Append(V, x), P1)
  <2>1. ~Twice(V, Len(V))
    <3> HIDE DEF x
    <3> QED
      BY <1>3, <1>8, TwiceBefore
  <2>2. InOrder(act, V) /\ ListsPending(act, W, P) /\ Aligned(act, W, V, P)
    BY <2>1 DEF Orderly
  <2> QED
    BY <1>8, <2>2, GoesOnAligned
<1> QED
  BY <1>5, <1>6, <1>7, <1>8 DEF Orderly

-----------------------------------------------------------------------------
(* A message m arrives *)

\* P1 is P with m in its action's place, or behind, or not at all.
Grown(act, P, m, P1) ==
    /\ DOMAIN P \subseteq DOMAIN P1
    /\ \A q \in DOMAIN P : act[P1[q]] = act[P[q]] /\ P[q] <= P1[q]
    /\ \A q \in DOMAIN P1 \ DOMAIN P :
          P1[q] = m /\ \A r \in DOMAIN P : r < q /\ act[P[r]] # act[m]
    /\ \A q, s \in DOMAIN P1 \ DOMAIN P : q = s

LEMMA PutGrows ==
    ASSUME NEW P \in Seq(Messages), NEW m \in Messages, \A q \in DOMAIN P : P[q] <= m
    PROVE  Grown(action', P, m, Put(P, m))
<1> DEFINE same == {i \in DOMAIN P : action'[P[i]] = action'[m]}
           P1 == Put(P, m)
<1>0. \A q \in DOMAIN P : P[q] \in Nat
  BY DomainIs, Numbers
<1>1. CASE same = {}
  <2>1. P1 = Append(P, m) /\ \A r \in DOMAIN P : action'[P[r]] # action'[m]
    BY <1>1 DEF Put
  <2> HIDE DEF P1, same
  <2>2. /\ DOMAIN P1 = DOMAIN P \cup {Len(P) + 1} /\ \A q \in DOMAIN P : P1[q] = P[q]
        /\ P1[Len(P) + 1] = m /\ \A r \in DOMAIN P : r < Len(P) + 1
    BY <2>1, LineAppend
  <2>3. Grown(action', P, m, P1)
    BY <1>0, <2>1, <2>2 DEF Grown
  <2> QED
    BY <2>3 DEF P1
<1>2. CASE same # {}
  <2>1. P1 = [i \in DOMAIN P |-> IF i \in same THEN m ELSE P[i]]
    BY <1>2 DEF Put
  <2> HIDE DEF P1
  <2>2. DOMAIN P1 = DOMAIN P
    BY <2>1
  <2>3. \A q \in DOMAIN P : action'[P1[q]] = action'[P[q]] /\ P[q] <= P1[q]
    BY <1>0, <2>1
  <2>4. Grown(action', P, m, P1)
    BY <2>2, <2>3 DEF Grown
  <2> QED
    BY <2>4 DEF P1
<1> QED
  BY <1>1, <1>2

\* The senders' order is not touched by an arrival: what they have is older.
LEMMA GrownOrderly ==
    ASSUME NEW act, NEW act1, NEW N \in Nat, NEW m \in Nat, N < m,
           \A x \in Messages : x <= N => act1[x] = act[x],
           NEW W \in Seq(Seq(Messages)), \A i \in DOMAIN W : \A p \in DOMAIN W[i] : W[i][p] <= N,
           NEW V \in Seq(Messages), \A k \in DOMAIN V : V[k] <= N,
           NEW P \in Seq(Messages), \A q \in DOMAIN P : P[q] <= N,
           NEW P1 \in Seq(Messages), Grown(act1, P, m, P1),
           Orderly(act, W, V, P)
    PROVE  Orderly(act1, W, V, P1)
<1>1. \A k \in DOMAIN V : V[k] \in Nat /\ act1[V[k]] = act[V[k]] /\ V[k] <= N
  BY DomainIs, Numbers
<1>2. \A q \in DOMAIN P : P[q] \in Nat /\ act1[P[q]] = act[P[q]]
  BY DomainIs, Numbers
<1>3. \A i \in DOMAIN W : \A p \in DOMAIN W[i] :
         W[i][p] \in Nat /\ act1[W[i][p]] = act[W[i][p]] /\ W[i][p] <= N
  BY DomainIs, Numbers
<1>4. \A q \in DOMAIN P1 : P1[q] \in Nat
  BY DomainIs, Numbers
<1>5. \A q \in DOMAIN P : q \in DOMAIN P1 /\ act1[P1[q]] = act[P[q]] /\ P[q] <= P1[q]
  BY <1>2 DEF Grown
<1>6. \A q \in DOMAIN P1 \ DOMAIN P :
         P1[q] = m /\ \A r \in DOMAIN P : r < q /\ act[P[r]] # act1[P1[q]]
  BY <1>2 DEF Grown
<1>7. ASSUME NEW S, \A k \in DOMAIN S : S[k] \in Nat /\ act1[S[k]] = act[S[k]] /\ S[k] <= N,
             NoneNewer(act, S, P)
      PROVE  NoneNewer(act1, S, P1)
  <2>1. SUFFICES ASSUME NEW k \in DOMAIN S, NEW q \in DOMAIN P1, act1[S[k]] = act1[P1[q]]
                 PROVE  S[k] <= P1[q]
    BY DEF NoneNewer
  <2>2. CASE q \in DOMAIN P
    <3>1. act[S[k]] = act[P[q]] /\ P[q] <= P1[q]
      BY <1>5, <1>7, <2>1, <2>2
    <3>2. S[k] <= P[q]
      BY <1>7, <2>2, <3>1 DEF NoneNewer
    <3> QED
      BY <1>2, <1>4, <1>7, <2>2, <3>1, <3>2
  <2>3. CASE q \notin DOMAIN P
    <3>1. P1[q] = m
      BY <1>6, <2>3
    <3> QED
      BY <1>7, <3>1
  <2> QED
    BY <2>2, <2>3
<1>8. InOrder(act1, V)
  BY <1>1 DEF Orderly, InOrder
<1>9. NoneNewer(act1, V, P1)
  BY <1>1, <1>7 DEF Orderly
<1>10. ListsPending(act1, W, P1)
  <2>1. \A i \in DOMAIN W : NoneNewer(act1, W[i], P1)
    BY <1>3, <1>7 DEF Orderly, ListsPending
  <2> QED
    BY <2>1 DEF ListsPending
<1>11. ASSUME Aligned(act, W, V, P) PROVE Aligned(act1, W, V, P1)
  <2>1. Heads(W, V) /\ OnePerAction(act1, W) /\ Fresh(act1, W, V) /\ Behind(act1, W, V)
    <3>1. OnePerAction(act1, W)
      BY <1>3, <1>11 DEF Aligned, OnePerAction
    <3>2. Fresh(act1, W, V)
      BY <1>1, <1>3, <1>11 DEF Aligned, Fresh
    <3>3. Behind(act1, W, V)
      BY <1>3, <1>11 DEF Aligned, Behind
    <3> QED
      BY <1>11, <3>1, <3>2, <3>3 DEF Aligned
  <2>2. Covered(act1, W, V, P1)
    <3>1. SUFFICES ASSUME NEW i \in DOMAIN W, NEW p \in DOMAIN W[i], Clear(V, W[i], p)
                   PROVE  \E q \in DOMAIN P1 : act1[P1[q]] = act1[W[i][p]]
      BY DEF Covered
    <3>2. PICK q \in DOMAIN P : act[P[q]] = act[W[i][p]]
      BY <1>11, <3>1 DEF Aligned, Covered
    <3> QED
      BY <1>3, <1>5, <3>2
  <2>3. SameOrder(act1, W, V, P1)
    <3>1. SUFFICES ASSUME NEW i \in DOMAIN W, NEW p \in DOMAIN W[i], NEW r \in DOMAIN W[i],
                          p < r, Clear(V, W[i], r - 1), NEW q \in DOMAIN P1, NEW s \in DOMAIN P1,
                          act1[P1[q]] = act1[W[i][p]], act1[P1[s]] = act1[W[i][r]]
                   PROVE  q < s
      BY DEF SameOrder
    <3>2. act1[P1[q]] = act[W[i][p]] /\ act1[P1[s]] = act[W[i][r]]
      BY <1>3, <3>1
    <3>3. p \in Nat /\ r \in Nat
      <4>1. W[i] \in Seq(Messages)
        BY DomainIs
      <4> QED
        BY <4>1, DomainIs
    <3>4. q \in DOMAIN P
      <4>1. Clear(V, W[i], p)
        <5>1. \A t \in 2..p : t \in 2..(r - 1)
          BY <3>1, <3>3
        <5> QED
          BY <3>1, <5>1 DEF Clear
      <4>2. PICK t \in DOMAIN P : act[P[t]] = act[W[i][p]]
        BY <1>11, <4>1 DEF Aligned, Covered
      <4> QED
        BY <1>6, <3>2, <4>2
    <3>5. CASE s \in DOMAIN P
      <4>1. act[P[q]] = act[W[i][p]] /\ act[P[s]] = act[W[i][r]]
        BY <1>5, <3>2, <3>4, <3>5
      <4> QED
        BY <1>11, <3>1, <3>4, <3>5, <4>1 DEF Aligned, SameOrder
    <3>6. CASE s \notin DOMAIN P
      BY <1>6, <3>4, <3>6
    <3> QED
      BY <3>5, <3>6
  <2> QED
    BY <2>1, <2>2, <2>3 DEF Aligned
<1> QED
  BY <1>8, <1>9, <1>10, <1>11 DEF Orderly

-----------------------------------------------------------------------------
(* Queues *)

LEMMA JoinAppend ==
    ASSUME NEW S, NEW s \in Seq(S), NEW t \in Seq(S), NEW x \in S
    PROVE  s \o Append(t, x) = Append(s \o t, x)
<1>1. Append(t, x) = t \o <<x>> /\ <<x>> \in Seq(S) /\ s \o t \in Seq(S)
  BY AppendIsConcat, ConcatProperties
<1>2. Append(s \o t, x) = (s \o t) \o <<x>>
  BY <1>1, AppendIsConcat
<1>3. (s \o t) \o <<x>> = s \o (t \o <<x>>)
  BY <1>1, ConcatAssociative
<1> QED
  BY <1>1, <1>2, <1>3

LEMMA HeadAndTail ==
    ASSUME NEW S, NEW t \in Seq(S), t # <<>>
    PROVE  Head(t) \in S /\ Tail(t) \in Seq(S) /\ <<Head(t)>> \in Seq(S) /\ t = <<Head(t)>> \o Tail(t)
<1>1. /\ Head(t) \in S /\ Tail(t) \in Seq(S) /\ Head(t) = t[1] /\ Len(t) \in Nat \ {0}
      /\ Len(Tail(t)) = Len(t) - 1 /\ \A i \in 1..Len(Tail(t)) : Tail(t)[i] = t[i + 1]
  BY HeadTailProperties, LenProperties, EmptySeq
<1>2. <<Head(t)>> \in Seq(S) /\ Len(<<Head(t)>>) = 1 /\ <<Head(t)>>[1] = Head(t)
  BY <1>1
<1> DEFINE h == <<Head(t)>>
           u == h \o Tail(t)
<1> HIDE DEF h
<1>3. h \in Seq(S) /\ Len(h) = 1 /\ h[1] = Head(t)
  BY <1>2 DEF h
<1>4. /\ u \in Seq(S) /\ Len(u) = 1 + Len(Tail(t))
      /\ \A i \in 1..(1 + Len(Tail(t))) : u[i] = IF i <= 1 THEN h[i] ELSE Tail(t)[i - 1]
  <2>1. /\ u \in Seq(S) /\ Len(u) = Len(h) + Len(Tail(t))
        /\ \A i \in 1..(Len(h) + Len(Tail(t))) :
              u[i] = IF i <= Len(h) THEN h[i] ELSE Tail(t)[i - Len(h)]
    BY <1>1, <1>3, ConcatProperties
  <2> QED
    BY <1>3, <2>1
<1> HIDE DEF u
<1>5. Len(u) = Len(t)
  BY <1>1, <1>4
<1>6. ASSUME NEW i \in 1..Len(t) PROVE u[i] = t[i]
  <2>1. CASE i = 1
    BY <1>1, <1>3, <1>4, <1>5, <2>1
  <2>2. CASE i # 1
    <3>1. i - 1 \in 1..Len(Tail(t)) /\ (i - 1) + 1 = i /\ ~(i <= 1) /\ i \in 1..(1 + Len(Tail(t)))
      BY <1>1, <2>2
    <3>2. u[i] = Tail(t)[i - 1]
      BY <1>4, <3>1
    <3>3. Tail(t)[i - 1] = t[(i - 1) + 1]
      BY <1>1, <3>1
    <3> QED
      BY <3>1, <3>2, <3>3
  <2> QED
    BY <2>1, <2>2
<1>7. u = t
  BY <1>4, <1>5, <1>6, SeqEqual
<1> QED
  BY <1>1, <1>2, <1>7 DEF u, h

LEMMA JoinMoves ==
    ASSUME NEW S, NEW s \in Seq(S), NEW t \in Seq(S), t # <<>>
    PROVE  Append(s, Head(t)) \o Tail(t) = s \o t
<1>1. /\ Head(t) \in S /\ Tail(t) \in Seq(S) /\ <<Head(t)>> \in Seq(S)
      /\ t = <<Head(t)>> \o Tail(t)
  BY HeadAndTail
<1>2. Append(s, Head(t)) = s \o <<Head(t)>>
  BY <1>1, AppendIsConcat
<1>3. (s \o <<Head(t)>>) \o Tail(t) = s \o (<<Head(t)>> \o Tail(t))
  BY <1>1, ConcatAssociative
<1> QED
  BY <1>1, <1>2, <1>3

LEMMA JoinTail ==
    ASSUME NEW S, NEW s \in Seq(S), NEW t \in Seq(S), s # <<>>
    PROVE  Tail(s \o t) = Tail(s) \o t /\ s \o t # <<>> /\ (s \o t)[1] = Head(s)
<1>1. /\ Len(s) \in Nat \ {0} /\ Len(t) \in Nat /\ Tail(s) \in Seq(S) /\ Head(s) = s[1]
      /\ Len(Tail(s)) = Len(s) - 1 /\ \A i \in 1..Len(Tail(s)) : Tail(s)[i] = s[i + 1]
  BY HeadTailProperties, LenProperties, EmptySeq
<1> DEFINE u == s \o t
           v == Tail(s) \o t
<1>2. /\ u \in Seq(S) /\ Len(u) = Len(s) + Len(t)
      /\ \A i \in 1..(Len(s) + Len(t)) : u[i] = IF i <= Len(s) THEN s[i] ELSE t[i - Len(s)]
  BY ConcatProperties
<1>3. /\ v \in Seq(S) /\ Len(v) = Len(Tail(s)) + Len(t)
      /\ \A i \in 1..(Len(Tail(s)) + Len(t)) :
            v[i] = IF i <= Len(Tail(s)) THEN Tail(s)[i] ELSE t[i - Len(Tail(s))]
  BY <1>1, ConcatProperties
<1> HIDE DEF u, v
<1>4. u # <<>> /\ u[1] = Head(s)
  <2>1. Len(u) # 0 /\ 1 \in 1..(Len(s) + Len(t)) /\ 1 <= Len(s)
    BY <1>1, <1>2
  <2> QED
    BY <1>1, <1>2, <2>1, EmptySeq
<1>5. /\ Tail(u) \in Seq(S) /\ Len(Tail(u)) = Len(u) - 1
      /\ \A i \in 1..Len(Tail(u)) : Tail(u)[i] = u[i + 1]
  BY <1>2, <1>4, HeadTailProperties
<1>6. Len(Tail(u)) = Len(v)
  BY <1>1, <1>2, <1>3, <1>5
<1>7. ASSUME NEW i \in 1..Len(v) PROVE Tail(u)[i] = v[i]
  <2>1. /\ i \in 1..(Len(Tail(s)) + Len(t)) /\ i \in 1..Len(Tail(u))
        /\ i + 1 \in 1..(Len(s) + Len(t))
    BY <1>1, <1>3, <1>6
  <2>2. /\ v[i] = IF i <= Len(Tail(s)) THEN Tail(s)[i] ELSE t[i - Len(Tail(s))]
        /\ Tail(u)[i] = IF i + 1 <= Len(s) THEN s[i + 1] ELSE t[(i + 1) - Len(s)]
    BY <1>2, <1>3, <1>5, <2>1
  <2>3. CASE i <= Len(Tail(s))
    <3>1. i + 1 <= Len(s) /\ i \in 1..Len(Tail(s))
      BY <1>1, <2>1, <2>3
    <3> QED
      BY <1>1, <2>2, <2>3, <3>1
  <2>4. CASE ~(i <= Len(Tail(s)))
    <3>1. ~(i + 1 <= Len(s)) /\ (i + 1) - Len(s) = i - Len(Tail(s))
      BY <1>1, <2>1, <2>4
    <3> QED
      BY <2>2, <2>4, <3>1
  <2> QED
    BY <2>3, <2>4
<1>8. Tail(u) = v
  BY <1>3, <1>5, <1>6, <1>7, SeqEqual
<1> QED
  BY <1>4, <1>8 DEF u, v

\* The senders and the messages of what waits for the thread.
LEMMA SendsAre ==
    ASSUME NEW s \in Seq(Sends)
    PROVE  /\ By(s) \in Seq(Batches) /\ Len(By(s)) = Len(s)
           /\ Carried(s) \in Seq(Messages) /\ Len(Carried(s)) = Len(s)
           /\ \A i \in 1..Len(s) : By(s)[i] = s[i].by /\ Carried(s)[i] = s[i].message
<1>1. DOMAIN s = 1..Len(s) /\ Len(s) \in Nat /\ \A i \in 1..Len(s) : s[i] \in Sends
  BY DomainIs
<1>2. /\ By(s) = [i \in 1..Len(s) |-> s[i].by] /\ Carried(s) = [i \in 1..Len(s) |-> s[i].message]
      /\ \A i \in 1..Len(s) : s[i].by \in Batches /\ s[i].message \in Messages
  BY <1>1 DEF By, Carried, Sends
<1> QED
  BY <1>1, <1>2

LEMMA SendsAppend ==
    ASSUME NEW s \in Seq(Sends), NEW b \in Batches, NEW x \in Messages
    PROVE  LET more == Append(s, [by |-> b, message |-> x]) IN
           By(more) = Append(By(s), b) /\ Carried(more) = Append(Carried(s), x)
<1> DEFINE e == [by |-> b, message |-> x]
           more == Append(s, e)
           by == Append(By(s), b)
           carried == Append(Carried(s), x)
<1>0. e \in Sends /\ e.by = b /\ e.message = x
  BY DEF Sends
<1> HIDE DEF e
<1>1. /\ more \in Seq(Sends) /\ Len(more) = Len(s) + 1 /\ Len(s) \in Nat
      /\ \A i \in 1..Len(s) : more[i] = s[i]
      /\ more[Len(s) + 1] = e
  BY <1>0, AppendProperties, LenProperties
<1>2. /\ By(s) \in Seq(Batches) /\ Len(By(s)) = Len(s)
      /\ Carried(s) \in Seq(Messages) /\ Len(Carried(s)) = Len(s)
      /\ \A i \in 1..Len(s) : By(s)[i] = s[i].by /\ Carried(s)[i] = s[i].message
  BY SendsAre
<1>3. /\ by \in Seq(Batches) /\ Len(by) = Len(s) + 1
      /\ \A i \in 1..Len(s) : by[i] = By(s)[i]
      /\ by[Len(s) + 1] = b
  BY <1>2, AppendProperties
<1>4. /\ carried \in Seq(Messages) /\ Len(carried) = Len(s) + 1
      /\ \A i \in 1..Len(s) : carried[i] = Carried(s)[i]
      /\ carried[Len(s) + 1] = x
  BY <1>2, AppendProperties
<1> HIDE DEF more, by, carried
<1>5. /\ By(more) \in Seq(Batches) /\ Len(By(more)) = Len(s) + 1
      /\ Carried(more) \in Seq(Messages) /\ Len(Carried(more)) = Len(s) + 1
      /\ \A i \in 1..(Len(s) + 1) : By(more)[i] = more[i].by /\ Carried(more)[i] = more[i].message
  BY <1>1, SendsAre
<1>6. ASSUME NEW i \in 1..(Len(s) + 1) PROVE By(more)[i] = by[i] /\ Carried(more)[i] = carried[i]
  <2>1. CASE i \in 1..Len(s)
    BY <1>1, <1>2, <1>3, <1>4, <1>5, <2>1
  <2>2. CASE i = Len(s) + 1
    BY <1>0, <1>1, <1>3, <1>4, <1>5, <2>2
  <2> QED
    BY <1>1, <2>1, <2>2
<1>7. By(more) = by
  BY <1>3, <1>5, <1>6, SeqEqual
<1>8. Carried(more) = carried
  BY <1>4, <1>5, <1>6, SeqEqual
<1> QED
  BY <1>7, <1>8 DEF more, by, carried, e

LEMMA SendsTail ==
    ASSUME NEW s \in Seq(Sends), s # <<>>
    PROVE  /\ By(Tail(s)) = Tail(By(s)) /\ Head(By(s)) = Head(s).by /\ By(s) # <<>>
           /\ Carried(Tail(s)) = Tail(Carried(s)) /\ Head(Carried(s)) = Head(s).message
           /\ Carried(s) # <<>>
<1> DEFINE t == Tail(s)
           by == By(s)
           carried == Carried(s)
<1>1. /\ Len(s) \in Nat \ {0} /\ t \in Seq(Sends) /\ Head(s) = s[1]
      /\ Len(t) = Len(s) - 1 /\ \A i \in 1..Len(t) : t[i] = s[i + 1]
  BY HeadTailProperties, LenProperties, EmptySeq
<1>2. /\ by \in Seq(Batches) /\ Len(by) = Len(s)
      /\ carried \in Seq(Messages) /\ Len(carried) = Len(s)
      /\ \A i \in 1..Len(s) : by[i] = s[i].by /\ carried[i] = s[i].message
  BY SendsAre
<1> HIDE DEF t, by, carried
<1>3. by # <<>> /\ carried # <<>>
  BY <1>1, <1>2, EmptySeq
<1>4. /\ Tail(by) \in Seq(Batches) /\ Len(Tail(by)) = Len(s) - 1 /\ Head(by) = by[1]
      /\ \A i \in 1..Len(Tail(by)) : Tail(by)[i] = by[i + 1]
  BY <1>2, <1>3, HeadTailProperties
<1>5. /\ Tail(carried) \in Seq(Messages) /\ Len(Tail(carried)) = Len(s) - 1
      /\ Head(carried) = carried[1]
      /\ \A i \in 1..Len(Tail(carried)) : Tail(carried)[i] = carried[i + 1]
  BY <1>2, <1>3, HeadTailProperties
<1>6. /\ By(t) \in Seq(Batches) /\ Len(By(t)) = Len(t)
      /\ Carried(t) \in Seq(Messages) /\ Len(Carried(t)) = Len(t)
      /\ \A i \in 1..Len(t) : By(t)[i] = t[i].by /\ Carried(t)[i] = t[i].message
  BY <1>1, SendsAre
<1>7. ASSUME NEW i \in 1..Len(t) PROVE By(t)[i] = Tail(by)[i] /\ Carried(t)[i] = Tail(carried)[i]
  <2>1. i \in 1..Len(Tail(by)) /\ i \in 1..Len(Tail(carried)) /\ i + 1 \in 1..Len(s)
    BY <1>1, <1>4, <1>5
  <2>2. t[i] = s[i + 1]
    BY <1>1
  <2> QED
    BY <1>2, <1>4, <1>5, <1>6, <2>1, <2>2
<1>8. By(t) = Tail(by)
  BY <1>1, <1>4, <1>6, <1>7, SeqEqual
<1>9. Carried(t) = Tail(carried)
  BY <1>1, <1>5, <1>6, <1>7, SeqEqual
<1>10. 1 \in 1..Len(s)
  BY <1>1
<1>11. Head(by) = Head(s).by /\ Head(carried) = Head(s).message
  BY <1>1, <1>2, <1>4, <1>5, <1>10
<1> QED
  BY <1>3, <1>8, <1>9, <1>11 DEF t, by, carried

\* What the senders have left.
LEMMA LeftIs ==
    ASSUME NEW q \in Seq(Batches), NEW b \in [Batches -> Batching]
    PROVE  /\ Left(q, b) \in Seq(Seq(Messages)) /\ Len(Left(q, b)) = Len(q)
           /\ \A i \in 1..Len(q) : Left(q, b)[i] = b[q[i]].left
<1>1. DOMAIN q = 1..Len(q) /\ Len(q) \in Nat /\ \A i \in 1..Len(q) : q[i] \in Batches
  BY DomainIs
<1>2. /\ Left(q, b) = [i \in 1..Len(q) |-> b[q[i]].left]
      /\ \A i \in 1..Len(q) : b[q[i]].left \in Seq(Messages)
  BY <1>1 DEF Left, Batching
<1> QED
  BY <1>1, <1>2

LEMMA LeftKept ==
    ASSUME NEW q \in Seq(Batches), NEW b \in [Batches -> Batching], NEW c \in [Batches -> Batching],
           \A i \in 1..Len(q) : c[q[i]].left = b[q[i]].left
    PROVE  Left(q, c) = Left(q, b)
BY DomainIs DEF Left

LEMMA LeftAppend ==
    ASSUME NEW q \in Seq(Batches), NEW b \in [Batches -> Batching], NEW x \in Batches
    PROVE  Left(Append(q, x), b) = Append(Left(q, b), b[x].left)
<1> DEFINE q1 == Append(q, x)
           w == Left(q, b)
           w1 == Append(w, b[x].left)
<1>1. /\ q1 \in Seq(Batches) /\ Len(q1) = Len(q) + 1 /\ Len(q) \in Nat
      /\ \A i \in 1..Len(q) : q1[i] = q[i]
      /\ q1[Len(q) + 1] = x
  BY AppendProperties, LenProperties
<1>2. /\ w \in Seq(Seq(Messages)) /\ Len(w) = Len(q) /\ b[x].left \in Seq(Messages)
      /\ \A i \in 1..Len(q) : w[i] = b[q[i]].left
  BY LeftIs DEF Batching
<1> HIDE DEF w, q1
<1>3. /\ w1 \in Seq(Seq(Messages)) /\ Len(w1) = Len(q) + 1
      /\ \A i \in 1..Len(q) : w1[i] = w[i]
      /\ w1[Len(q) + 1] = b[x].left
  BY <1>2, AppendProperties
<1> HIDE DEF w1
<1>4. /\ Left(q1, b) \in Seq(Seq(Messages)) /\ Len(Left(q1, b)) = Len(q) + 1
      /\ \A i \in 1..(Len(q) + 1) : Left(q1, b)[i] = b[q1[i]].left
  BY <1>1, LeftIs
<1>5. ASSUME NEW i \in 1..(Len(q) + 1) PROVE Left(q1, b)[i] = w1[i]
  <2>0. Left(q1, b)[i] = b[q1[i]].left
    BY <1>4
  <2>1. CASE i \in 1..Len(q)
    <3>1. q1[i] = q[i] /\ w[i] = b[q[i]].left /\ w1[i] = w[i]
      BY <1>1, <1>2, <1>3, <2>1
    <3> QED
      BY <2>0, <3>1
  <2>2. CASE i = Len(q) + 1
    BY <1>1, <1>3, <2>0, <2>2
  <2> QED
    BY <1>1, <2>1, <2>2
<1>6. Left(q1, b) = w1
  BY <1>3, <1>4, <1>5, SeqEqual
<1> QED
  BY <1>6 DEF q1, w, w1

LEMMA LeftTail ==
    ASSUME NEW q \in Seq(Batches), NEW b \in [Batches -> Batching], q # <<>>
    PROVE  /\ Left(Tail(q), b) = Tail(Left(q, b)) /\ Left(q, b) # <<>>
           /\ Left(q, b)[1] = b[Head(q)].left
<1> DEFINE t == Tail(q)
           w == Left(q, b)
<1>1. /\ Len(q) \in Nat \ {0} /\ t \in Seq(Batches) /\ Head(q) = q[1]
      /\ Len(t) = Len(q) - 1 /\ \A i \in 1..Len(t) : t[i] = q[i + 1]
  BY HeadTailProperties, LenProperties, EmptySeq
<1>2. /\ w \in Seq(Seq(Messages)) /\ Len(w) = Len(q)
      /\ \A i \in 1..Len(q) : w[i] = b[q[i]].left
  BY LeftIs
<1> HIDE DEF t, w
<1>3. w # <<>> /\ 1 \in 1..Len(q)
  BY <1>1, <1>2, EmptySeq
<1>4. /\ Tail(w) \in Seq(Seq(Messages)) /\ Len(Tail(w)) = Len(q) - 1
      /\ \A i \in 1..Len(Tail(w)) : Tail(w)[i] = w[i + 1]
  BY <1>2, <1>3, HeadTailProperties
<1>5. /\ Left(t, b) \in Seq(Seq(Messages)) /\ Len(Left(t, b)) = Len(t)
      /\ \A i \in 1..Len(t) : Left(t, b)[i] = b[t[i]].left
  BY <1>1, LeftIs
<1>6. ASSUME NEW i \in 1..Len(t) PROVE Left(t, b)[i] = Tail(w)[i]
  <2>1. i \in 1..Len(Tail(w)) /\ i + 1 \in 1..Len(q)
    BY <1>1, <1>4
  <2>2. t[i] = q[i + 1]
    BY <1>1
  <2> QED
    BY <1>2, <1>4, <1>5, <2>1, <2>2
<1>7. Left(t, b) = Tail(w)
  BY <1>1, <1>4, <1>5, <1>6, SeqEqual
<1>8. w[1] = b[Head(q)].left
  BY <1>1, <1>2, <1>3
<1> QED
  BY <1>3, <1>7, <1>8 DEF t, w

\* What holds of the line holds of what has gone out.
LEMMA OfTheFront ==
    ASSUME NEW act, NEW s \in Seq(Messages), NEW t \in Seq(Messages), NEW P
    PROVE  /\ InOrder(act, s \o t) => InOrder(act, s)
           /\ NoneNewer(act, s \o t, P) => NoneNewer(act, s, P)
<1> DEFINE u == s \o t
<1>1. /\ Len(s) \in Nat /\ DOMAIN s = 1..Len(s) /\ DOMAIN s \subseteq DOMAIN u
      /\ \A k \in 1..Len(s) : u[k] = s[k]
  <2>1. /\ u \in Seq(Messages) /\ Len(u) = Len(s) + Len(t) /\ Len(s) \in Nat /\ Len(t) \in Nat
        /\ \A i \in 1..(Len(s) + Len(t)) : u[i] = IF i <= Len(s) THEN s[i] ELSE t[i - Len(s)]
    BY ConcatProperties, LenProperties
  <2>2. DOMAIN u = 1..(Len(s) + Len(t)) /\ DOMAIN s = 1..Len(s)
    BY <2>1, DomainIs
  <2> HIDE DEF u
  <2>3. \A k \in 1..Len(s) : k \in 1..(Len(s) + Len(t)) /\ k <= Len(s)
    BY <2>1
  <2> QED
    BY <2>1, <2>2, <2>3
<1> HIDE DEF u
<1>2. ASSUME InOrder(act, u) PROVE InOrder(act, s)
  <2>1. SUFFICES ASSUME NEW i \in DOMAIN s, NEW j \in DOMAIN s, i < j,
                        act[s[i]] = act[s[j]], s[j] < s[i]
                 PROVE  Twice(s, j - 1)
    BY DEF InOrder
  <2>2. Twice(u, j - 1)
    BY <1>1, <1>2, <2>1 DEF InOrder
  <2>3. \A k \in 1..(j - 1) : k \in 1..Len(s)
    BY <1>1, <2>1
  <2> QED
    BY <1>1, <2>2, <2>3 DEF Twice
<1>3. ASSUME NoneNewer(act, u, P) PROVE NoneNewer(act, s, P)
  BY <1>1, <1>3 DEF NoneNewer
<1> QED
  BY <1>2, <1>3 DEF u

\* Nobody is in line.
LEMMA NobodyOrderly ==
    ASSUME NEW act, NEW V \in Seq(Messages), NEW P, InOrder(act, V), NoneNewer(act, V, P)
    PROVE  Orderly(act, <<>>, V, P)
<1>1. DOMAIN <<>> = {} /\ Len(<<>>) = 0 /\ Len(V) \in Nat
  BY DomainIs
<1>2. Heads(<<>>, V)
  BY <1>1 DEF Heads
<1> QED
  BY <1>1, <1>2
  DEF Orderly, Aligned, OnePerAction, Fresh, Covered, SameOrder, Behind, ListsPending

\* The consumer's own message, the newest, goes out behind what was pending.
LEMMA DirectOrderly ==
    ASSUME NEW act, NEW V \in Seq(Messages), NEW x \in Messages, InOrder(act, V),
           \A k \in DOMAIN V : V[k] <= x
    PROVE  Orderly(act, <<>>, Append(V, x), <<>>)
<1>1. InOrder(act, Append(V, x)) /\ Append(V, x) \in Seq(Messages)
  BY InOrderGrows, AppendProperties
<1>2. NoneNewer(act, Append(V, x), <<>>)
  BY DEF NoneNewer
<1> QED
  BY <1>1, <1>2, NobodyOrderly

-----------------------------------------------------------------------------
(* The senders of a state *)

LEMMA TypesAre ==
    ASSUME BufferInv
    PROVE  /\ back \in Seq(Batches) /\ outbox \in Seq(Sends) /\ sent \in Seq(Messages)
           /\ pending \in Seq(Messages) /\ batch \in [Batches -> Batching]
           /\ By(outbox) \in Seq(Batches) /\ Carried(outbox) \in Seq(Messages)
           /\ received \in Nat
<1>1. /\ back \in Seq(Batches) /\ sent \in Seq(Messages) /\ pending \in Seq(Messages)
      /\ received \in 0..MaxMessages
  BY DEF BufferInv, TypeOK
<1>2. outbox \in Seq(Sends)
  BY DEF BufferInv, TypeOK, Sends
<1>3. batch \in [Batches -> Batching]
  BY DEF BufferInv, TypeOK, Batching
<1>4. received \in Nat
  BY <1>1, BoundsAssumption
<1> QED
  BY <1>1, <1>2, <1>3, <1>4, SendsAre

LEMMA QueueIs ==
    ASSUME BufferInv
    PROVE  /\ Queue \in Seq(Batches) /\ DOMAIN Queue = 1..Len(Queue) /\ Len(Queue) \in Nat
           /\ Lists \in Seq(Seq(Messages)) /\ Line \in Seq(Messages)
           /\ Left(Queue, batch) \in Seq(Seq(Messages))
<1>1. Queue \in Seq(Batches) /\ Line \in Seq(Messages)
  BY TypesAre, ConcatProperties DEF Queue, Line
<1>2. Left(Queue, batch) \in Seq(Seq(Messages))
  BY <1>1, TypesAre, LeftIs
<1>3. <<>> \in Seq(Seq(Messages))
  OBVIOUS
<1> QED
  BY <1>1, <1>2, <1>3, DomainIs DEF Lists

\* A place of the queue is one of the loop's or one of the thread's.
LEMMA QueuePlace ==
    ASSUME BufferInv, NEW i \in DOMAIN Queue
    PROVE  \/ i \in DOMAIN back /\ Queue[i] = back[i]
           \/ /\ i - Len(back) \in DOMAIN outbox /\ i \notin DOMAIN back /\ i \in Nat
              /\ Len(back) \in Nat /\ Queue[i] = outbox[i - Len(back)].by
<1> DEFINE n == Len(back)
           l == Len(outbox)
<1>1. /\ n \in Nat /\ l \in Nat /\ DOMAIN back = 1..n /\ DOMAIN outbox = 1..l
      /\ By(outbox) \in Seq(Batches) /\ Len(By(outbox)) = l /\ back \in Seq(Batches)
      /\ \A j \in 1..l : By(outbox)[j] = outbox[j].by
  BY TypesAre, SendsAre, DomainIs
<1>2. /\ Len(Queue) = n + Len(By(outbox)) /\ Queue \in Seq(Batches)
      /\ \A j \in 1..(n + Len(By(outbox))) :
            Queue[j] = IF j <= n THEN back[j] ELSE By(outbox)[j - n]
  BY <1>1, ConcatProperties DEF Queue
<1> HIDE DEF n, l
<1>3. DOMAIN Queue = 1..(n + l)
  BY <1>1, <1>2, DomainIs
<1>4. Queue[i] = IF i <= n THEN back[i] ELSE By(outbox)[i - n]
  BY <1>1, <1>2, <1>3
<1>5. i \in Nat /\ 1 <= i /\ i <= n + l
  BY <1>1, <1>3
<1>6. CASE i <= n
  BY <1>1, <1>4, <1>5, <1>6
<1>7. CASE ~(i <= n)
  <2>1. i - n \in 1..l /\ i \notin 1..n
    BY <1>1, <1>5, <1>7
  <2>2. Queue[i] = outbox[i - n].by
    BY <1>1, <1>4, <1>7, <2>1
  <2> QED
    BY <1>1, <1>5, <2>1, <2>2 DEF n
<1> QED
  BY <1>6, <1>7

LEMMA InQueue ==
    ASSUME BufferInv, Resumed
    PROVE  /\ \A i \in DOMAIN Queue : Queue[i] \in Batches \ {Admin} /\ batch[Queue[i]].at \in Handed
           /\ \A i, j \in DOMAIN Queue : Queue[i] = Queue[j] => i = j
<1>1. \A i \in DOMAIN back : back[i] \in Batches \ {Admin} /\ batch[back[i]].at \in {"sent", "failed"}
  <2>1. \A i \in DOMAIN back : back[i] \in Batches
    BY TypesAre, DomainIs
  <2> QED
    BY <2>1 DEF Resumed, BufferInv, Senders
<1>2. \A i \in DOMAIN outbox : outbox[i].by \in Batches \ {Admin} /\ batch[outbox[i].by].at = "sending"
  BY DEF BufferInv, Thread
<1>3. \A i, j \in DOMAIN back : back[i] = back[j] => i = j
  BY DEF Resumed
<1>4. \A i, j \in DOMAIN outbox : outbox[i].by = outbox[j].by => i = j
  BY DEF BufferInv, Thread
<1>5. ASSUME NEW i \in DOMAIN Queue
      PROVE  Queue[i] \in Batches \ {Admin} /\ batch[Queue[i]].at \in Handed
  BY <1>1, <1>2, QueuePlace DEF Handed
<1>6. ASSUME NEW i \in DOMAIN Queue, NEW j \in DOMAIN Queue, Queue[i] = Queue[j] PROVE i = j
  <2> DEFINE n == Len(back)
  <2>1. \/ i \in DOMAIN back /\ Queue[i] = back[i]
        \/ i - n \in DOMAIN outbox /\ i \in Nat /\ n \in Nat /\ Queue[i] = outbox[i - n].by
    BY QueuePlace
  <2>2. \/ j \in DOMAIN back /\ Queue[j] = back[j]
        \/ j - n \in DOMAIN outbox /\ j \in Nat /\ n \in Nat /\ Queue[j] = outbox[j - n].by
    BY QueuePlace
  <2> HIDE DEF n
  <2>3. CASE i \in DOMAIN back /\ Queue[i] = back[i] /\ j \in DOMAIN back /\ Queue[j] = back[j]
    BY <1>3, <1>6, <2>3
  <2>4. CASE /\ i - n \in DOMAIN outbox /\ i \in Nat /\ n \in Nat /\ Queue[i] = outbox[i - n].by
             /\ j - n \in DOMAIN outbox /\ j \in Nat /\ Queue[j] = outbox[j - n].by
    <3>1. i - n = j - n
      BY <1>4, <1>6, <2>4
    <3> QED
      BY <2>4, <3>1
  <2>5. CASE i \in DOMAIN back /\ Queue[i] = back[i] /\ j - n \in DOMAIN outbox /\ Queue[j] = outbox[j - n].by
    <3>1. batch[Queue[i]].at # "sending" /\ batch[Queue[j]].at = "sending"
      BY <1>1, <1>2, <2>5
    <3> QED
      BY <1>6, <3>1
  <2>6. CASE j \in DOMAIN back /\ Queue[j] = back[j] /\ i - n \in DOMAIN outbox /\ Queue[i] = outbox[i - n].by
    <3>1. batch[Queue[j]].at # "sending" /\ batch[Queue[i]].at = "sending"
      BY <1>1, <1>2, <2>6
    <3> QED
      BY <1>6, <3>1
  <2> QED
    BY <2>1, <2>2, <2>3, <2>4, <2>5, <2>6
<1> QED
  BY <1>5, <1>6

\* All senders but the consumer are off, and it too.
LEMMA QueueAlone ==
    ASSUME BufferInv, Resumed, \A m \in Messages : batch[m].at = "off", batch[Admin].at = "off"
    PROVE  /\ \A i \in DOMAIN Queue : Queue[i] = Consumer
           /\ batch[Consumer].at = "off" => back = <<>> /\ outbox = <<>>
<1>1. \A b \in Batches : b = Consumer \/ b = Admin \/ b \in Messages
  BY BoundsAssumption DEF Batches, Consumer, Admin, Messages
<1>2. \A i \in DOMAIN Queue : Queue[i] = Consumer
  BY <1>1, InQueue DEF Handed
<1>3. ASSUME batch[Consumer].at = "off" PROVE back = <<>> /\ outbox = <<>>
  <2>1. DOMAIN back = {}
    <3>1. \A i \in DOMAIN back : back[i] \in Batches
      BY TypesAre, DomainIs
    <3> QED
      BY <1>1, <1>3, <3>1 DEF Resumed
  <2>2. DOMAIN outbox = {}
    BY <1>1, <1>3 DEF BufferInv, Thread
  <2>3. Len(back) = 0 /\ Len(outbox) = 0
    <3>1. /\ DOMAIN back = 1..Len(back) /\ DOMAIN outbox = 1..Len(outbox)
          /\ Len(back) \in Nat /\ Len(outbox) \in Nat
      BY TypesAre, DomainIs
    <3> QED
      BY <2>1, <2>2, <3>1
  <2> QED
    BY <2>3, TypesAre, EmptySeq
<1> QED
  BY <1>2, <1>3

\* All that is in line has been received.
LEMMA LineReceived ==
    ASSUME BufferInv, Past
    PROVE  /\ \A k \in DOMAIN Line : Line[k] <= received
           /\ \A i \in DOMAIN Lists : \A p \in DOMAIN Lists[i] : Lists[i][p] <= received
<1>1. \A i \in DOMAIN outbox : outbox[i].message <= received
  <2>1. ASSUME NEW i \in DOMAIN outbox PROVE outbox[i].message <= received
    <3>1. PICK b \in Batches \ {Admin} : batch[b].at = "sending" /\ outbox[i].message = InHand(b)
      BY DEF BufferInv, Thread
    <3>2. CASE Direct(b)
      BY <3>1, <3>2, TypesAre DEF InHand
    <3>3. CASE ~Direct(b)
      <4>1. batch[b].left \in Seq(Messages) /\ batch[b].left # <<>>
        BY <3>1, <3>3, TypesAre DEF BufferInv, Senders, Handed, Batching
      <4>2. Head(batch[b].left) = batch[b].left[1] /\ 1 \in DOMAIN batch[b].left
        BY <4>1, TailIs
      <4> QED
        BY <3>1, <3>3, <4>2 DEF InHand, Past
    <3> QED
      BY <3>2, <3>3
  <2> QED
    BY <2>1
<1>2. Range(Line) = Range(sent) \cup Range(Carried(outbox))
  BY TypesAre, RangeConcatenation DEF Line
<1>3. \A k \in DOMAIN Line : Line[k] \in Range(Line)
  BY DEF Range
<1>4. \A x \in Range(sent) : x <= received
  BY DEF Range, Past
<1>5. \A x \in Range(Carried(outbox)) : x <= received
  BY <1>1 DEF Range, Carried
<1>6. ASSUME NEW i \in DOMAIN Lists PROVE \A p \in DOMAIN Lists[i] : Lists[i][p] <= received
  <2>1. CASE consumer = "direct"
    BY <1>6, <2>1 DEF Lists
  <2>2. CASE consumer # "direct"
    <3>1. i \in DOMAIN Queue /\ Lists[i] = batch[Queue[i]].left
      BY <1>6, <2>2 DEF Lists, Left
    <3>2. Queue[i] \in Batches
      BY <3>1, QueueIs, DomainIs
    <3> QED
      BY <3>1, <3>2 DEF Past
  <2> QED
    BY <2>1, <2>2
<1> QED
  BY <1>2, <1>3, <1>4, <1>5, <1>6

-----------------------------------------------------------------------------
(* Steps *)

\* What the steps keep: who is where, and who is in order.
Kept ==
    /\ Resumed /\ Past
    /\ ~lowered => /\ batch[Admin].at = "off"
                   /\ InOrder(action, sent) /\ NoneNewer(action, sent, pending)
                   /\ working => Orderly(action, Lists, Line, pending)

LEMMA KeptIs == OrderInv => BufferInv /\ FlushInv /\ Kept /\ (~lowered => Ordered)
BY DEF OrderInv, Kept, FlushInv, Ordered

\* Messages of the buffer, that a new message joins or not.
Buffered(act, m, messages) ==
    /\ received' \in {received, received + 1} /\ received < m
    /\ \A x \in Messages : x <= received => act[x] = action[x]
    /\ messages \in Seq(Messages) /\ Grown(act, pending, m, messages)
    /\ \A q \in DOMAIN messages : messages[q] <= received'
    /\ \A q, s \in DOMAIN messages : act[messages[q]] = act[messages[s]] => q = s

LEMMA BufferedKept ==
    ASSUME BufferInv, Kept, ~lowered, NEW act, NEW m \in Nat, NEW messages,
           Buffered(act, m, messages)
    PROVE  /\ InOrder(act, sent) /\ NoneNewer(act, sent, messages)
           /\ working => Orderly(act, Lists, Line, messages)
<1>1. /\ received \in Nat /\ sent \in Seq(Messages) /\ pending \in Seq(Messages)
      /\ Lists \in Seq(Seq(Messages)) /\ Line \in Seq(Messages)
      /\ messages \in Seq(Messages) /\ <<>> \in Seq(Seq(Messages))
  BY TypesAre, QueueIs DEF Buffered
<1>2. /\ received < m /\ \A x \in Messages : x <= received => act[x] = action[x]
      /\ Grown(act, pending, m, messages)
  BY DEF Buffered
<1>3. /\ \A q \in DOMAIN pending : pending[q] <= received
      /\ \A k \in DOMAIN sent : sent[k] <= received
      /\ \A k \in DOMAIN Line : Line[k] <= received
      /\ \A i \in DOMAIN Lists : \A p \in DOMAIN Lists[i] : Lists[i][p] <= received
  BY LineReceived DEF BufferInv, Senders, Kept, Past
<1>4. Orderly(act, <<>>, sent, messages)
  <2>1. Orderly(action, <<>>, sent, pending)
    BY <1>1, NobodyOrderly DEF Kept
  <2>2. \A i \in DOMAIN <<>> : \A p \in DOMAIN <<>>[i] : <<>>[i][p] <= received
    OBVIOUS
  <2> QED
    BY <1>1, <1>2, <1>3, <2>1, <2>2, GrownOrderly
<1>5. ASSUME working PROVE Orderly(act, Lists, Line, messages)
  <2>1. Orderly(action, Lists, Line, pending)
    BY <1>5 DEF Kept
  <2> HIDE DEF Lists, Line
  <2> QED
    BY <1>1, <1>2, <1>3, <2>1, GrownOrderly
<1> QED
  BY <1>4, <1>5 DEF Orderly

LEMMA LineGrows ==
    ASSUME BufferInv, NEW b \in Batches, NEW x \in Messages, UNCHANGED <<back, sent>>,
           outbox' = Append(outbox, [by |-> b, message |-> x])
    PROVE  Queue' = Append(Queue, b) /\ Line' = Append(Line, x)
<1>1. By(outbox') = Append(By(outbox), b) /\ Carried(outbox') = Append(Carried(outbox), x)
  BY TypesAre, SendsAppend
<1>2. back \o Append(By(outbox), b) = Append(back \o By(outbox), b)
  <2>1. back \in Seq(Batches) /\ By(outbox) \in Seq(Batches)
    BY TypesAre
  <2> QED
    BY <2>1, JoinAppend
<1>3. sent \o Append(Carried(outbox), x) = Append(sent \o Carried(outbox), x)
  <2>1. sent \in Seq(Messages) /\ Carried(outbox) \in Seq(Messages)
    BY TypesAre
  <2> QED
    BY <2>1, JoinAppend
<1>4. Queue' = back \o By(outbox') /\ Line' = sent \o Carried(outbox')
  BY DEF Queue, Line
<1> QED
  BY <1>1, <1>2, <1>3, <1>4 DEF Queue, Line

LEMMA ListsBegin ==
    ASSUME BufferInv, Resumed, batch' \in [Batches -> Batching],
           NEW b \in Batches, batch[b].at \notin Handed, Queue' = Append(Queue, b),
           \A c \in Batches : c # b => batch'[c] = batch[c],
           consumer # "direct", consumer' # "direct"
    PROVE  Lists' = Append(Lists, batch'[b].left)
<1>1. /\ Queue \in Seq(Batches) /\ DOMAIN Queue = 1..Len(Queue) /\ batch \in [Batches -> Batching]
  BY QueueIs, TypesAre
<1>2. Lists' = Left(Append(Queue, b), batch') /\ Lists = Left(Queue, batch)
  BY DEF Lists
<1>3. Left(Append(Queue, b), batch') = Append(Left(Queue, batch'), batch'[b].left)
  BY <1>1, LeftAppend
<1>4. \A i \in 1..Len(Queue) : batch'[Queue[i]].left = batch[Queue[i]].left
  BY <1>1, InQueue
<1>5. Left(Queue, batch') = Left(Queue, batch)
  BY <1>1, <1>4, LeftKept
<1> QED
  BY <1>2, <1>3, <1>5

\* Resumed' and Past' where the loop has the same to resume.
LEMMA PlacesKept ==
    ASSUME BufferInv, Resumed, Past, UNCHANGED <<back, sent>>,
           received' \in {received, received + 1},
           \A b \in Batches : batch[b].at \in {"sent", "failed"} => batch'[b].at = batch[b].at,
           \A b \in Batches : \/ batch'[b].left \in {batch[b].left, <<>>}
                              \/ \A p \in DOMAIN batch'[b].left : batch'[b].left[p] <= received'
    PROVE  Resumed' /\ Past'
<1>1. received \in Nat /\ \A i \in DOMAIN back : back[i] \in Batches
  BY TypesAre, DomainIs
<1>2. Resumed'
  BY <1>1 DEF Resumed
<1>3. \A k \in DOMAIN sent : sent[k] <= received'
  <2>1. \A k \in DOMAIN sent : sent[k] \in Nat
    BY TypesAre, DomainIs, Numbers
  <2> QED
    BY <1>1, <2>1 DEF Past
<1>4. ASSUME NEW b \in Batches PROVE \A p \in DOMAIN batch'[b].left : batch'[b].left[p] <= received'
  <2>1. CASE batch'[b].left = batch[b].left
    <3>1. batch[b].left \in Seq(Messages)
      BY TypesAre DEF Batching
    <3>2. \A p \in DOMAIN batch[b].left : batch[b].left[p] \in Nat /\ batch[b].left[p] <= received
      BY <3>1, DomainIs, Numbers DEF Past
    <3> QED
      BY <1>1, <2>1, <3>2
  <2>2. CASE batch'[b].left = <<>>
    BY <2>2
  <2> QED
    BY <2>1, <2>2
<1> QED
  BY <1>2, <1>3, <1>4 DEF Past

\* A sender begins a batch with what is pending.
LEMMA BeginKept ==
    ASSUME BufferInv, BufferInv', Kept, NEW b \in Batches, b # Admin, batch[b].at \notin Handed,
           NEW m \in Nat, Buffered(action', m, pending'), pending' # <<>>,
           UNCHANGED <<back, sent, working, lowered>>,
           outbox' = Append(outbox, [by |-> b, message |-> Head(pending')]),
           batch'[b].at = "sending" /\ batch'[b].left = pending',
           \A c \in Batches : c # b => batch'[c] = batch[c],
           consumer # "direct", consumer' # "direct"
    PROVE  Kept'
<1>0. pending' \in Seq(Messages) /\ batch' \in [Batches -> Batching]
  BY DEF BufferInv, TypeOK, Batching
<1>1. Head(pending') \in Messages /\ Head(pending') = pending'[1]
  BY <1>0, TailIs
<1>2. Resumed' /\ Past'
  BY PlacesKept DEF Kept, Buffered, Handed
<1>3. Queue' = Append(Queue, b) /\ Line' = Append(Line, Head(pending'))
  BY <1>1, LineGrows
<1>4. Lists' = Append(Lists, pending')
  BY <1>0, <1>3, ListsBegin DEF Kept
<1>5. ASSUME ~lowered
      PROVE  /\ InOrder(action', sent) /\ NoneNewer(action', sent, pending')
             /\ working => Orderly(action', Append(Lists, pending'), Append(Line, Head(pending')), pending')
  <2>1. /\ InOrder(action', sent) /\ NoneNewer(action', sent, pending')
        /\ working => Orderly(action', Lists, Line, pending')
    BY <1>5, BufferedKept
  <2>2. \A q, s \in DOMAIN pending' : action'[pending'[q]] = action'[pending'[s]] => q = s
    BY DEF Buffered
  <2>3. Lists \in Seq(Seq(Messages)) /\ Line \in Seq(Messages)
    BY QueueIs
  <2> HIDE DEF Lists, Line
  <2> QED
    BY <1>0, <1>1, <2>1, <2>2, <2>3, BeginOrderly
<1>6. batch'[Admin] = batch[Admin]
  BY Names
<1> QED
  BY <1>2, <1>3, <1>4, <1>5, <1>6 DEF Kept

\* The buffer as it was, whatever the action of a new message.
LEMMA SameBuffered ==
    ASSUME BufferInv, pending' = pending, received' \in {received, received + 1},
           \A x \in Messages : x <= received => action'[x] = action[x]
    PROVE  Buffered(action', received + 1, pending') /\ received + 1 \in Nat
<1>1. /\ received \in Nat /\ pending \in Seq(Messages)
      /\ \A q \in DOMAIN pending : /\ pending[q] \in Nat /\ pending[q] <= received
                                   /\ action'[pending[q]] = action[pending[q]]
  BY TypesAre, DomainIs, Numbers DEF BufferInv, Senders
<1>2. \A q, s \in DOMAIN pending : action'[pending[q]] = action'[pending[s]] => q = s
  BY <1>1 DEF BufferInv, TypeOK
<1>3. Grown(action', pending, received + 1, pending)
  BY <1>1 DEF Grown
<1>4. \A q \in DOMAIN pending : pending[q] <= received'
  BY <1>1
<1> QED
  BY <1>1, <1>2, <1>3, <1>4 DEF Buffered

\* The senders stay as they are; the buffer may grow.
LEMMA StillKept ==
    ASSUME BufferInv, BufferInv', Kept, NEW m \in Nat, Buffered(action', m, pending'),
           UNCHANGED <<back, outbox, sent, consumer, lowered>>, working' => working,
           \A b \in Batches : batch[b].at \in Handed =>
               batch'[b].at = batch[b].at /\ batch'[b].left = batch[b].left,
           \A b \in Batches : batch'[b].left \in {batch[b].left, <<>>},
           batch[Admin].at = "off" => batch'[Admin].at = "off"
    PROVE  Kept'
<1>0. Resumed /\ Past /\ batch' \in [Batches -> Batching]
  BY DEF Kept, BufferInv, TypeOK, Batching
<1>1. Resumed' /\ Past'
  BY <1>0, PlacesKept DEF Buffered, Handed
<1>2. Queue' = Queue /\ Line' = Line
  BY DEF Queue, Line
<1>3. Lists' = Lists
  <2>1. \A i \in 1..Len(Queue) : batch'[Queue[i]].left = batch[Queue[i]].left
    BY <1>0, QueueIs, InQueue
  <2>2. Left(Queue, batch') = Left(Queue, batch)
    BY <1>0, <2>1, QueueIs, TypesAre, LeftKept
  <2>3. Lists' = IF consumer = "direct" THEN <<>> ELSE Left(Queue, batch')
    BY <1>2 DEF Lists
  <2> QED
    BY <2>2, <2>3 DEF Lists
<1>4. ASSUME ~lowered
      PROVE  /\ InOrder(action', sent) /\ NoneNewer(action', sent, pending')
             /\ working => Orderly(action', Lists, Line, pending')
  BY <1>4, BufferedKept
<1> QED
  BY <1>1, <1>2, <1>3, <1>4 DEF Kept

\* New actions of messages to come leave the order of those received.
LEMMA OrderOfReceived ==
    ASSUME NEW act, NEW act1, NEW N, \A x \in Messages : x <= N => act1[x] = act[x],
           NEW V \in Seq(Messages), \A k \in DOMAIN V : V[k] <= N, InOrder(act, V)
    PROVE  InOrder(act1, V)
<1>1. \A k \in DOMAIN V : act1[V[k]] = act[V[k]]
  BY DomainIs
<1> QED
  BY <1>1 DEF InOrder

\* The consumer hands over its message when nothing is pending.
LEMMA DirectKept ==
    ASSUME BufferInv, Kept, Resumed', Past',
           received' \in {received, received + 1}, received' \in Messages,
           \A x \in Messages : x <= received => action'[x] = action[x],
           outbox' = Append(outbox, [by |-> Consumer, message |-> received']),
           consumer' = "direct", pending' = <<>>, UNCHANGED <<sent, working, lowered>>,
           batch[Admin].at = "off" => batch'[Admin].at = "off"
    PROVE  Kept'
<1>1. Line' = Append(Line, received')
  <2>1. Carried(outbox') = Append(Carried(outbox), received')
    BY TypesAre, SendsAppend, Names
  <2>2. sent \o Append(Carried(outbox), received') = Append(sent \o Carried(outbox), received')
    BY TypesAre, JoinAppend
  <2>3. Line' = sent \o Carried(outbox')
    BY DEF Line
  <2> QED
    BY <2>1, <2>2, <2>3 DEF Line
<1>2. Lists' = <<>>
  BY DEF Lists
<1>3. /\ Line \in Seq(Messages) /\ sent \in Seq(Messages) /\ received \in Nat
      /\ \A k \in DOMAIN Line : Line[k] <= received
      /\ \A k \in DOMAIN sent : sent[k] <= received
  BY QueueIs, TypesAre, LineReceived DEF Kept, Past
<1>4. ASSUME ~lowered
      PROVE  /\ InOrder(action', sent) /\ NoneNewer(action', sent, <<>>)
             /\ working => Orderly(action', <<>>, Append(Line, received'), <<>>)
  <2>1. InOrder(action', sent)
    BY <1>3, <1>4, OrderOfReceived DEF Kept
  <2>2. NoneNewer(action', sent, <<>>)
    BY DEF NoneNewer
  <2>3. ASSUME working PROVE Orderly(action', <<>>, Append(Line, received'), <<>>)
    <3>1. InOrder(action, Line)
      BY <1>4, <2>3 DEF Kept, Orderly
    <3> HIDE DEF Line
    <3>2. InOrder(action', Line)
      BY <1>3, <3>1, OrderOfReceived
    <3>3. \A k \in DOMAIN Line : Line[k] <= received'
      <4>1. \A k \in DOMAIN Line : Line[k] \in Nat
        BY <1>3, DomainIs, Numbers
      <4> QED
        BY <1>3, <4>1
    <3> QED
      BY <1>3, <3>2, <3>3, DirectOrderly
  <2> QED
    BY <2>1, <2>2, <2>3
<1> QED
  BY <1>1, <1>2, <1>4 DEF Kept

\* A message that arrives joins the buffer.
LEMMA JoinsBuffered ==
    ASSUME BufferInv, Arrived, pending' = Put(pending, received + 1)
    PROVE  Buffered(action', received + 1, pending')
<1>1. /\ received \in Nat /\ pending \in Seq(Messages) /\ received' = received + 1
      /\ received + 1 \in Messages
      /\ \A q \in DOMAIN pending : pending[q] \in Nat /\ pending[q] <= received
      /\ \A x \in Messages : x <= received => action'[x] = action[x]
  BY TypesAre, DomainIs, Numbers DEF BufferInv, Senders, Arrived
<1>2. \A q \in DOMAIN pending : action'[pending[q]] = action[pending[q]]
  BY <1>1, DomainIs
<1>3. \A q \in DOMAIN pending : pending[q] <= received + 1
  BY <1>1
<1>4. Grown(action', pending, received + 1, Put(pending, received + 1))
  BY <1>1, <1>3, PutGrows
<1>5. Grown(action', pending, received + 1, pending')
  BY <1>4
<1>6. /\ pending' \in Seq(Messages)
      /\ \A i, j \in DOMAIN pending' : action'[pending'[i]] = action'[pending'[j]] => i = j
      /\ \A i \in DOMAIN pending' : pending'[i] <= received'
  BY BufferedIs
<1>7. \A x \in Messages : x <= received => action'[x] = action[x]
  BY <1>1
<1> QED
  BY <1>1, <1>5, <1>6, <1>7 DEF Buffered

-----------------------------------------------------------------------------
(* Each action *)

\* Where no admin has turned the interval off, the consumer may be alone.
Settled == ~lowered => Alone /\ Before

LEMMA OrderIs ==
    ASSUME OrderInv
    PROVE  BufferInv /\ FlushInv /\ Kept /\ Settled /\ (~lowered => batch[Admin].at = "off")
BY KeptIs DEF Settled, Ordered, OrderInv

LEMMA ReceiveForwardsOrder ==
    ASSUME OrderInv, BufferInv', ReceiveForwards PROVE Kept' /\ Settled'
<1>0. /\ BufferInv /\ Kept /\ Settled /\ Arrived /\ Forward(received + 1, pending, Cancelled)
      /\ interval = 0 /\ consumer = "idle" /\ batch[Consumer].at = "off"
      /\ UNCHANGED <<back, listed, working, interval, pending, age, mishaps, sent, forgone,
                     lowered, stranded>>
  BY OrderIs, ArrivalIs DEF ReceiveForwards, Arrives, BufferInv, Senders
<1>1. /\ received' = received + 1 /\ received + 1 \in Messages /\ received \in Nat
      /\ \A x \in Messages : x <= received => action'[x] = action[x]
  BY <1>0, TypesAre DEF Arrived
<1>2. /\ Buffered(action', received + 1, pending') /\ received + 1 \in Nat
      /\ \A q \in DOMAIN pending : pending[q] <= received'
  <2>1. Buffered(action', received + 1, pending') /\ received + 1 \in Nat
    BY <1>0, <1>1, SameBuffered
  <2> QED
    BY <1>0, <2>1 DEF Buffered
<1>3. \A m \in Messages : timer[m] = Off => timer'[m] = Off
  BY <1>0 DEF BufferInv, TypeOK, Cancelled, Forward
<1>4. ASSUME \A c \in Batches : c # Consumer => batch'[c] = batch[c]
      PROVE  ~lowered => Alone'
  <2>1. \A m \in Messages : batch'[m] = batch[m]
    BY <1>4, Names
  <2> QED
    BY <1>0, <1>3, <2>1 DEF Settled, Alone
<1>5. CASE pending = <<>>
  <2>1. /\ consumer' = "direct"
        /\ batch' = [batch EXCEPT ![Consumer] = [at |-> "sending", left |-> <<>>, ago |-> 0]]
        /\ outbox' = Append(outbox, [by |-> Consumer, message |-> received'])
    BY <1>0, <1>1, <1>5 DEF Forward, SendDirect, NoBatch
  <2>2. /\ batch'[Consumer].left = <<>>
        /\ \A c \in Batches : c # Consumer => batch'[c] = batch[c]
    BY <1>0, <2>1, BatchIs, Names, EmptySeq
  <2>3. Resumed' /\ Past'
    BY <1>0, <1>1, <2>2, PlacesKept DEF Kept
  <2>4. Kept'
    BY <1>0, <1>1, <1>5, <2>1, <2>2, <2>3, Names, DirectKept
  <2>5. Before'
    BY <1>0, <1>5, <2>1 DEF Before
  <2> QED
    BY <1>0, <1>4, <2>2, <2>4, <2>5 DEF Settled
<1>6. CASE pending # <<>>
  <2>1. /\ consumer' = "before"
        /\ batch' = [batch EXCEPT ![Consumer] = [at |-> "sending", left |-> pending, ago |-> 0]]
        /\ outbox' = Append(outbox, [by |-> Consumer, message |-> Head(pending')])
    BY <1>0, <1>6 DEF Forward, Begin
  <2>2. /\ batch'[Consumer].at = "sending" /\ batch'[Consumer].left = pending'
        /\ \A c \in Batches : c # Consumer => batch'[c] = batch[c]
    BY <1>0, <2>1, BatchIs, Names, TypesAre
  <2>3. Kept'
    <3>1. Consumer \in Batches /\ Consumer # Admin /\ batch[Consumer].at \notin Handed
      BY <1>0, Names DEF Handed
    <3>2. pending' # <<>> /\ consumer # "direct" /\ consumer' # "direct"
      BY <1>0, <1>6, <2>1
    <3>3. UNCHANGED <<back, sent, working, lowered>>
      BY <1>0
    <3> QED
      BY <1>0, <1>2, <2>1, <2>2, <3>1, <3>2, <3>3, BeginKept
  <2>4. Before'
    BY <1>0, <2>1, <2>2 DEF Before
  <2> QED
    BY <1>0, <1>4, <2>2, <2>3, <2>4 DEF Settled
<1> QED
  BY <1>5, <1>6

LEMMA ReceiveFlushesOrder ==
    ASSUME OrderInv, BufferInv', ReceiveFlushes PROVE Kept' /\ Settled'
<1>0. /\ BufferInv /\ Kept /\ Arrived /\ pending' = Put(pending, received + 1)
      /\ interval > 0 /\ consumer = "idle" /\ batch[Consumer].at = "off"
      /\ Begin(Consumer, pending') /\ consumer' = "batch"
      /\ UNCHANGED <<back, listed, working, interval, age, timer, mishaps, sent, forgone,
                     lowered, stranded>>
  BY OrderIs, ArrivalIs DEF ReceiveFlushes, Arrives, BufferInv, Senders
<1>1. /\ Buffered(action', received + 1, pending') /\ received + 1 \in Nat
      /\ pending' \in Seq(Messages) /\ pending' # <<>>
  BY <1>0, JoinsBuffered, BufferedIs, TypesAre
<1>2. /\ batch' = [batch EXCEPT ![Consumer] = [at |-> "sending", left |-> pending', ago |-> 0]]
      /\ outbox' = Append(outbox, [by |-> Consumer, message |-> Head(pending')])
  BY <1>0 DEF Begin
<1>3. /\ batch'[Consumer].at = "sending" /\ batch'[Consumer].left = pending'
      /\ \A c \in Batches : c # Consumer => batch'[c] = batch[c]
  BY <1>0, <1>1, <1>2, BatchIs, Names
<1>4. Kept'
  <2>1. Consumer \in Batches /\ Consumer # Admin /\ batch[Consumer].at \notin Handed
    BY <1>0, Names DEF Handed
  <2>2. consumer # "direct" /\ consumer' # "direct" /\ UNCHANGED <<back, sent, working, lowered>>
    BY <1>0
  <2> QED
    BY <1>0, <1>1, <1>2, <1>3, <2>1, <2>2, BeginKept
<1>5. interval \in Nat
  BY <1>0, BoundsAssumption DEF BufferInv, TypeOK
<1> QED
  BY <1>0, <1>4, <1>5 DEF Settled, Alone, Before

LEMMA ReceiveBuffersOrder ==
    ASSUME OrderInv, BufferInv', ReceiveBuffers PROVE Kept' /\ Settled'
<1>0. /\ BufferInv /\ Kept /\ Arrived /\ pending' = Put(pending, received + 1)
      /\ interval > 0 /\ consumer = "idle"
      /\ UNCHANGED <<back, listed, working, interval, age, consumer, batch, outbox, pastVars>>
  BY OrderIs, ArrivalIs DEF ReceiveBuffers, Arrives
<1>1. Buffered(action', received + 1, pending') /\ received + 1 \in Nat
  BY <1>0, JoinsBuffered, TypesAre
<1>2. Kept'
  BY <1>0, <1>1, StillKept DEF pastVars
<1>3. interval \in Nat
  BY <1>0, BoundsAssumption DEF BufferInv, TypeOK
<1> QED
  BY <1>0, <1>2, <1>3 DEF Settled, Alone, Before, pastVars

LEMMA TimerOrder ==
    ASSUME OrderInv, BufferInv', NEW m \in Messages, TimerFires(m) PROVE Kept' /\ Settled'
<1>0. /\ BufferInv /\ Kept /\ Settled /\ timer[m] # Off /\ batch[m].at = "off" /\ m \in Batches
      /\ m # Consumer /\ m # Admin
      /\ batch' = [batch EXCEPT ![m] = [at |-> "task", left |-> <<>>, ago |-> 0]]
      /\ UNCHANGED <<back, sessionVars, consumerVars, outbox, pastVars>>
  <2>1. /\ BufferInv /\ Kept /\ Settled /\ m \in Batches /\ m # Consumer /\ m # Admin
        /\ batch' = [batch EXCEPT ![m] = [at |-> "task", left |-> <<>>, ago |-> 0]]
        /\ UNCHANGED <<back, sessionVars, consumerVars, outbox, pastVars>>
    <3>1. BufferInv /\ Kept /\ Settled
      BY OrderIs
    <3>2. m \in Batches /\ m # Consumer /\ m # Admin
      BY Names
    <3>3. [NoBatch EXCEPT !.at = "task"] = [at |-> "task", left |-> <<>>, ago |-> 0]
      BY DEF NoBatch
    <3> QED
      BY <3>1, <3>2, <3>3 DEF TimerFires
  <2>2. timer[m] # Off
    BY DEF TimerFires, Off
  <2>3. batch[m].at = "off"
    BY <2>1, <2>2 DEF BufferInv, Started
  <2> QED
    BY <2>1, <2>2, <2>3
<1>1. /\ batch'[m].at = "task" /\ batch'[m].left = <<>>
      /\ \A c \in Batches : c # m => batch'[c] = batch[c]
  BY <1>0, BatchIs, EmptySeq
<1>2. Buffered(action', received + 1, pending') /\ received + 1 \in Nat
  <2>1. /\ pending' = pending /\ received' \in {received, received + 1}
        /\ \A x \in Messages : x <= received => action'[x] = action[x]
    BY <1>0 DEF sessionVars, consumerVars
  <2> QED
    BY <1>0, <2>1, SameBuffered
<1>3. Kept'
  <2>1. /\ UNCHANGED <<back, outbox, sent, consumer, lowered>> /\ working' = working
    BY <1>0 DEF sessionVars, consumerVars, pastVars
  <2>2. \A b \in Batches : batch[b].at \in Handed =>
           batch'[b].at = batch[b].at /\ batch'[b].left = batch[b].left
    BY <1>0, <1>1 DEF Handed
  <2>3. \A b \in Batches : batch'[b].left \in {batch[b].left, <<>>}
    BY <1>1
  <2>4. batch'[Admin] = batch[Admin]
    BY <1>0, <1>1, Names
  <2> QED
    BY <1>0, <1>2, <2>1, <2>2, <2>3, <2>4, StillKept
<1>4. UNCHANGED <<interval, consumer, pending, lowered, batch[Consumer]>>
  BY <1>0, <1>1, Names DEF sessionVars, consumerVars, pastVars
<1>5. ~lowered => ~(interval = 0 \/ consumer \in {"before", "direct"})
  BY <1>0 DEF Settled, Alone
<1> QED
  BY <1>3, <1>4, <1>5 DEF Settled, Alone, Before

LEMMA TaskOrder ==
    ASSUME OrderInv, BufferInv', NEW m \in Messages, TaskBegins(m) PROVE Kept' /\ Settled'
<1>0. /\ BufferInv /\ Kept /\ Settled /\ batch[m].at = "task" /\ m \in Batches
      /\ m # Consumer /\ m # Admin
      /\ UNCHANGED <<back, listed, working, interval, pending, age, consumerVars, timer,
                     mishaps, sent, forgone, lowered, stranded>>
  BY OrderIs, Names DEF TaskBegins
<1>1. ~lowered => ~(interval = 0 \/ consumer \in {"before", "direct"})
  BY <1>0 DEF Settled, Alone
<1>2. Settled'
  BY <1>0, <1>1 DEF Settled, Alone, Before, consumerVars
<1>3. Buffered(action', received + 1, pending') /\ received + 1 \in Nat
  <2>1. /\ pending' = pending /\ received' \in {received, received + 1}
        /\ \A x \in Messages : x <= received => action'[x] = action[x]
    BY <1>0 DEF consumerVars
  <2> QED
    BY <1>0, <2>1, SameBuffered
<1>4. CASE pending = <<>>
  <2>1. /\ batch' = [batch EXCEPT ![m] = [at |-> "off", left |-> <<>>, ago |-> 0]]
        /\ outbox' = outbox
    BY <1>4 DEF TaskBegins, NoBatch
  <2>2. /\ batch'[m].left = <<>>
        /\ \A c \in Batches : c # m => batch'[c] = batch[c]
    BY <1>0, <2>1, BatchIs, EmptySeq
  <2>3. \A b \in Batches : batch[b].at \in Handed =>
           batch'[b].at = batch[b].at /\ batch'[b].left = batch[b].left
    BY <1>0, <2>2 DEF Handed
  <2>4. \A b \in Batches : batch'[b].left \in {batch[b].left, <<>>}
    BY <2>2
  <2>5. batch'[Admin] = batch[Admin]
    BY <1>0, <2>2, Names
  <2>6. UNCHANGED <<back, outbox, sent, consumer, lowered>> /\ working' = working
    BY <1>0, <2>1 DEF consumerVars
  <2>7. Kept'
    BY <1>0, <1>3, <2>3, <2>4, <2>5, <2>6, StillKept
  <2> QED
    BY <1>2, <2>7
<1>5. CASE pending # <<>>
  <2>1. /\ batch' = [batch EXCEPT ![m] = [at |-> "sending", left |-> pending, ago |-> 0]]
        /\ outbox' = Append(outbox, [by |-> m, message |-> Head(pending')])
    BY <1>0, <1>5 DEF TaskBegins, Begin
  <2>2. /\ batch'[m].at = "sending" /\ batch'[m].left = pending'
        /\ \A c \in Batches : c # m => batch'[c] = batch[c]
    BY <1>0, <2>1, BatchIs, TypesAre
  <2>3. CASE lowered
    <3>1. Resumed' /\ Past'
      BY <1>0, <1>3, <2>2, PlacesKept DEF Kept, Buffered
    <3> QED
      BY <1>0, <1>2, <2>3, <3>1 DEF Kept
  <2>4. CASE ~lowered
    <3>1. consumer # "direct" /\ consumer' # "direct" /\ UNCHANGED <<back, sent, working, lowered>>
      BY <1>0, <1>1, <2>4 DEF consumerVars
    <3>2. pending' # <<>> /\ batch[m].at \notin Handed
      BY <1>0, <1>5 DEF Handed
    <3>3. Kept'
      BY <1>0, <1>3, <2>1, <2>2, <3>1, <3>2, BeginKept
    <3> QED
      BY <1>2, <3>3
  <2> QED
    BY <2>3, <2>4
<1> QED
  BY <1>4, <1>5

LEMMA ThreadOrder ==
    ASSUME OrderInv, BufferInv', ThreadSends PROVE Kept' /\ Settled'
<1> DEFINE b == Head(outbox).by
           x == Head(outbox).message
<1>0. /\ BufferInv /\ Kept /\ Settled /\ outbox # <<>> /\ outbox' = Tail(outbox)
      /\ batch' = [batch EXCEPT ![b].at = IF working THEN "sent" ELSE "failed"]
      /\ sent' = (IF working THEN Append(sent, x) ELSE sent) /\ back' = Append(back, b)
      /\ UNCHANGED <<interval, working, pending, received, action, consumer, timer, lowered>>
  BY OrderIs DEF ThreadSends, sessionVars, consumerVars
<1>1. /\ b \in Batches /\ b # Admin /\ batch[b].at = "sending" /\ x \in Messages
      /\ outbox \in Seq(Sends) /\ back \in Seq(Batches) /\ batch \in [Batches -> Batching]
      /\ sent \in Seq(Messages) /\ By(outbox) \in Seq(Batches) /\ Carried(outbox) \in Seq(Messages)
  <2>1. Head(outbox) \in Sends /\ Head(outbox) = outbox[1] /\ 1 \in DOMAIN outbox
    BY <1>0, TypesAre, TailIs
  <2> QED
    BY <1>0, <2>1, TypesAre DEF BufferInv, Thread, Sends
<1>2. /\ By(outbox') = Tail(By(outbox)) /\ Head(By(outbox)) = b /\ By(outbox) # <<>>
      /\ Carried(outbox') = Tail(Carried(outbox)) /\ Head(Carried(outbox)) = x
      /\ Carried(outbox) # <<>>
  BY <1>0, <1>1, SendsTail
<1> HIDE DEF b, x
<1>3. /\ batch' \in [Batches -> Batching] /\ batch'[b].at \in {"sent", "failed"}
      /\ batch'[b].left = batch[b].left
      /\ \A c \in Batches : c # b => batch'[c] = batch[c]
  BY <1>0, <1>1, PlaceIs
<1>4. Queue' = Queue
  <2>1. Append(back, Head(By(outbox))) \o Tail(By(outbox)) = back \o By(outbox)
    BY <1>1, <1>2, JoinMoves
  <2>2. Queue' = back' \o By(outbox')
    BY DEF Queue
  <2> QED
    BY <1>0, <1>2, <2>1, <2>2 DEF Queue
<1>5. Lists' = Lists
  <2>1. ASSUME NEW i \in 1..Len(Queue) PROVE batch'[Queue[i]].left = batch[Queue[i]].left
    <3>1. Queue[i] \in Batches
      BY <1>0, QueueIs, DomainIs
    <3>2. \A c \in Batches : batch'[c].left = batch[c].left
      BY <1>3
    <3> QED
      BY <3>1, <3>2
  <2>2. Left(Queue, batch') = Left(Queue, batch)
    <3>1. /\ Queue \in Seq(Batches) /\ batch \in [Batches -> Batching]
          /\ batch' \in [Batches -> Batching]
      BY <1>0, <1>1, <1>3, QueueIs
    <3> QED
      BY <2>1, <3>1, LeftKept
  <2>3. Lists' = IF consumer = "direct" THEN <<>> ELSE Left(Queue, batch')
    BY <1>0, <1>4 DEF Lists
  <2> QED
    BY <2>2, <2>3 DEF Lists
<1>6. ASSUME working PROVE Line' = Line /\ sent' \o Carried(outbox') = Line
  <2>1. Append(sent, Head(Carried(outbox))) \o Tail(Carried(outbox)) = sent \o Carried(outbox)
    BY <1>1, <1>2, JoinMoves
  <2>2. Line' = sent' \o Carried(outbox')
    BY DEF Line
  <2> QED
    BY <1>0, <1>2, <1>6, <2>1, <2>2 DEF Line
<1>7. Resumed'
  <2>1. /\ DOMAIN back' = DOMAIN back \cup {Len(back) + 1} /\ back'[Len(back) + 1] = b
        /\ \A i \in DOMAIN back : back'[i] = back[i] /\ back[i] \in Batches
    BY <1>0, <1>1, AppendIs, DomainIs
  <2>2. \A i \in DOMAIN back : batch[back[i]].at \in {"sent", "failed"} /\ back[i] # b
    BY <1>0, <1>1 DEF Kept, Resumed
  <2>3. \A i, j \in DOMAIN back : back[i] = back[j] => i = j
    BY <1>0 DEF Kept, Resumed
  <2>4. \A i \in DOMAIN back' : batch'[back'[i]].at \in {"sent", "failed"}
    BY <1>3, <2>1, <2>2
  <2>5. \A i, j \in DOMAIN back' : back'[i] = back'[j] => i = j
    BY <2>1, <2>2, <2>3
  <2> QED
    BY <2>4, <2>5 DEF Resumed
<1>8. Past'
  <2>1. \A k \in DOMAIN sent : sent[k] <= received
    BY <1>0 DEF Kept, Past
  <2>2. x <= received
    <3>1. Range(Line) = Range(sent) \cup Range(Carried(outbox))
      BY <1>1, RangeConcatenation DEF Line
    <3>2. x \in Range(Carried(outbox))
      BY <1>1, <1>2, TailIs
    <3>3. \A k \in DOMAIN Line : Line[k] <= received
      BY <1>0, LineReceived DEF Kept
    <3>4. \A y \in Range(Line) : y <= received
      <4> HIDE DEF Line
      <4> QED
        BY <3>3 DEF Range
    <3> QED
      BY <3>1, <3>2, <3>4
  <2>3. \A k \in DOMAIN sent' : sent'[k] <= received
    BY <1>0, <1>1, <2>1, <2>2, AppendIs
  <2>4. \A c \in Batches : batch'[c].left = batch[c].left
    BY <1>3
  <2> QED
    BY <1>0, <2>3, <2>4 DEF Kept, Past
<1>9. ASSUME ~lowered
      PROVE  /\ InOrder(action, sent') /\ NoneNewer(action, sent', pending)
             /\ working => Orderly(action, Lists', Line', pending)
  <2>1. CASE ~working
    BY <1>0, <1>9, <2>1 DEF Kept
  <2>2. CASE working
    <3>1. Orderly(action, Lists, Line, pending)
      BY <1>0, <1>9, <2>2 DEF Kept
    <3>2. InOrder(action, sent' \o Carried(outbox')) /\ NoneNewer(action, sent' \o Carried(outbox'), pending)
      <4>1. InOrder(action, Line) /\ NoneNewer(action, Line, pending)
        BY <3>1 DEF Orderly
      <4>2. sent' \o Carried(outbox') = Line
        BY <1>6, <2>2
      <4> HIDE DEF Line
      <4> QED
        BY <4>1, <4>2
    <3>3. sent' \in Seq(Messages) /\ Carried(outbox') \in Seq(Messages)
      <4>1. sent' \in Seq(Messages)
        BY <1>0, <1>1, <2>2, AppendIs
      <4> QED
        BY <1>1, <1>2, <4>1, TailIs
    <3>4. InOrder(action, sent') /\ NoneNewer(action, sent', pending)
      BY <3>2, <3>3, OfTheFront
    <3> QED
      BY <1>5, <1>6, <2>2, <3>1, <3>4
  <2> QED
    BY <2>1, <2>2
<1>10. batch'[Admin] = batch[Admin]
  BY <1>1, <1>3, Names
<1>11. Kept'
  BY <1>0, <1>7, <1>8, <1>9, <1>10 DEF Kept
<1>12. Settled'
  <2>1. \A m \in Messages : batch[m].at = "off" => batch'[m].at = "off"
    BY <1>1, <1>3, Names
  <2>2. batch'[Consumer].left = batch[Consumer].left
    BY <1>3, Names
  <2> QED
    BY <1>0, <2>1, <2>2 DEF Settled, Alone, Before
<1> QED
  BY <1>11, <1>12

\* The loop resumes the first of the queue.
LEMMA QueueFront ==
    ASSUME BufferInv, Resumed, NEW b \in Batches, Resumes(b)
    PROVE  /\ back \in Seq(Batches) /\ back # <<>> /\ back' = Tail(back)
           /\ Queue # <<>> /\ Tail(Queue) = Tail(back) \o By(outbox)
           /\ Tail(Queue) \in Seq(Batches) /\ DOMAIN Tail(Queue) = 1..Len(Tail(Queue))
           /\ \A i \in 1..Len(Tail(Queue)) : Tail(Queue)[i] \in Batches \ {b}
           /\ Left(Queue, batch) # <<>> /\ Left(Queue, batch)[1] = batch[b].left
           /\ Left(Tail(Queue), batch) = Tail(Left(Queue, batch))
<1>1. back \in Seq(Batches) /\ back # <<>> /\ back' = Tail(back) /\ b = Head(back)
  BY TypesAre DEF Resumes
<1>2. /\ Queue # <<>> /\ Tail(Queue) = Tail(back) \o By(outbox) /\ Queue[1] = b
      /\ Queue \in Seq(Batches)
  BY <1>1, TypesAre, QueueIs, JoinTail DEF Queue
<1> HIDE DEF Queue
<1>3. /\ Tail(Queue) \in Seq(Batches) /\ Head(Queue) = b /\ 1 \in DOMAIN Queue
      /\ \A i \in DOMAIN Tail(Queue) :
            i \in Nat \ {0} /\ i + 1 \in DOMAIN Queue /\ Tail(Queue)[i] = Queue[i + 1]
  BY <1>2, TailIs
<1>4. DOMAIN Tail(Queue) = 1..Len(Tail(Queue))
  BY <1>3, DomainIs
<1>5. ASSUME NEW i \in DOMAIN Tail(Queue) PROVE Tail(Queue)[i] \in Batches \ {b}
  <2>1. i + 1 # 1 /\ i + 1 \in DOMAIN Queue /\ Tail(Queue)[i] = Queue[i + 1]
    BY <1>3
  <2>2. Queue[i + 1] # Queue[1]
    BY <1>3, <2>1, InQueue
  <2>3. Queue[i + 1] \in Batches
    BY <2>1, InQueue
  <2> QED
    BY <1>2, <2>1, <2>2, <2>3
<1>6. /\ Left(Tail(Queue), batch) = Tail(Left(Queue, batch)) /\ Left(Queue, batch) # <<>>
      /\ Left(Queue, batch)[1] = batch[b].left
  BY <1>2, <1>3, TypesAre, LeftTail
<1> QED
  BY <1>1, <1>2, <1>3, <1>4, <1>5, <1>6

LEMMA RestResumed ==
    ASSUME BufferInv, Resumed, NEW b \in Batches, Resumes(b),
           \A c \in Batches : c # b => batch'[c] = batch[c]
    PROVE  Resumed'
<1>1. /\ back \in Seq(Batches) /\ back # <<>> /\ back' = Tail(back) /\ b = Head(back)
  BY TypesAre DEF Resumes
<1>2. /\ back[1] = b /\ 1 \in DOMAIN back
      /\ \A i \in DOMAIN back' : i \in Nat \ {0} /\ i + 1 \in DOMAIN back /\ back'[i] = back[i + 1]
  BY <1>1, TailIs
<1>3. \A i \in DOMAIN back : back[i] \in Batches
  BY <1>1, DomainIs
<1>4. ASSUME NEW i \in DOMAIN back' PROVE batch'[back'[i]].at \in {"sent", "failed"}
  <2>1. i + 1 \in DOMAIN back /\ i + 1 # 1 /\ back'[i] = back[i + 1]
    BY <1>2
  <2>2. back[i + 1] # b
    BY <1>2, <2>1 DEF Resumed
  <2> QED
    BY <1>3, <2>1, <2>2 DEF Resumed
<1>5. ASSUME NEW i \in DOMAIN back', NEW j \in DOMAIN back', back'[i] = back'[j] PROVE i = j
  <2>1. i + 1 = j + 1
    BY <1>2, <1>5 DEF Resumed
  <2> QED
    BY <1>2, <2>1
<1> QED
  BY <1>4, <1>5 DEF Resumed

LEMMA OnlyConsumer ==
    ASSUME BufferInv, NEW b \in Batches, b # Admin, batch[b].at # "off",
           \A m \in Messages : batch[m].at = "off"
    PROVE  b = Consumer
BY BoundsAssumption DEF Batches, Consumer, Admin, Messages

\* What BatchGoesOn does to the one that goes on.
LEMMA GoesOnIs ==
    ASSUME BufferInv, NEW b \in Batches, BatchGoesOn(b)
    PROVE  LET left == batch[b].left IN
           /\ left \in Seq(Messages) /\ left # <<>> /\ Tail(left) \in Seq(Messages)
           /\ b # Admin /\ batch[b].at = "sent" /\ ~Direct(b) /\ Resumes(b)
           /\ pending' = Take(pending, left[1]) /\ pending' \in Seq(Messages)
           /\ Range(pending') = Range(pending) \ {left[1]}
           /\ UNCHANGED <<interval, working, received, action, timer, sent, lowered>>
           /\ batch' \in [Batches -> Batching]
           /\ \A c \in Batches : c # b => batch'[c] = batch[c]
           /\ batch'[b].left = Tail(left)
           /\ \/ /\ Tail(left) # <<>> /\ consumer' = consumer
                 /\ outbox' = Append(outbox, [by |-> b, message |-> left[2]])
              \/ /\ Tail(left) = <<>> /\ b = Consumer /\ consumer = "before"
                 /\ consumer' = "direct"
                 /\ outbox' = Append(outbox, [by |-> Consumer, message |-> received'])
              \/ /\ Tail(left) = <<>> /\ ~(b = Consumer /\ consumer = "before")
                 /\ consumer' \in {"idle", consumer} /\ outbox' = outbox
<1> DEFINE left == batch[b].left
<1>0. /\ Resumes(b) /\ batch[b].at = "sent" /\ ~Direct(b)
      /\ pending' = Take(pending, Head(left))
      /\ UNCHANGED <<interval, working, received, action, timer, sent, lowered>>
  BY DEF BatchGoesOn, Direct, pastVars
<1>1. /\ left \in Seq(Messages) /\ left # <<>> /\ Tail(left) \in Seq(Messages) /\ b # Admin
      /\ pending' \in Seq(Messages) /\ Range(pending') = Range(pending) \ {InHand(b)}
  BY <1>0, ResumedIs
<1>2. Head(left) = left[1] /\ InHand(b) = left[1]
  BY <1>0, <1>1, TailIs DEF InHand
<1>3. batch \in [Batches -> Batching]
  BY TypesAre
<1>4. CASE Tail(left) # <<>>
  <2>1. /\ batch' = [batch EXCEPT ![b].at = "sending", ![b].left = Tail(left)]
        /\ outbox' = Append(outbox, [by |-> b, message |-> Head(Tail(left))])
        /\ consumer' = consumer
    BY <1>4 DEF BatchGoesOn
  <2>2. Head(Tail(left)) = left[2]
    BY <1>1, <1>4, TailIs
  <2>3. /\ batch' \in [Batches -> Batching] /\ batch'[b].left = Tail(left)
        /\ \A c \in Batches : c # b => batch'[c] = batch[c]
    <3> HIDE DEF left
    <3> QED
      BY <1>1, <1>3, <2>1 DEF Batching
  <2> QED
    BY <1>0, <1>1, <1>2, <1>4, <2>1, <2>2, <2>3
<1>5. CASE Tail(left) = <<>> /\ b = Consumer /\ consumer = "before"
  <2>1. /\ batch' = [batch EXCEPT ![b] = [at |-> "sending", left |-> <<>>, ago |-> 0]]
        /\ consumer' = "direct"
        /\ outbox' = Append(outbox, [by |-> Consumer, message |-> received])
    BY <1>5 DEF BatchGoesOn, SendDirect, NoBatch
  <2>2. /\ batch' \in [Batches -> Batching] /\ batch'[b].left = <<>>
        /\ \A c \in Batches : c # b => batch'[c] = batch[c]
    BY <2>1, BatchIs, EmptySeq
  <2> QED
    BY <1>0, <1>1, <1>2, <1>5, <2>1, <2>2
<1>6. CASE Tail(left) = <<>> /\ ~(b = Consumer /\ consumer = "before")
  <2>1. /\ batch' = [batch EXCEPT ![b] = [at |-> "off", left |-> <<>>, ago |-> 0]]
        /\ consumer' = (IF b = Consumer THEN "idle" ELSE consumer)
        /\ outbox' = outbox
    BY <1>6 DEF BatchGoesOn, NoBatch
  <2>2. /\ batch' \in [Batches -> Batching] /\ batch'[b].left = <<>>
        /\ \A c \in Batches : c # b => batch'[c] = batch[c]
    BY <2>1, BatchIs, EmptySeq
  <2> QED
    BY <1>0, <1>1, <1>2, <1>6, <2>1, <2>2
<1> QED
  BY <1>4, <1>5, <1>6

LEMMA GoesOnOrder ==
    ASSUME OrderInv, BufferInv', NEW b \in Batches, BatchGoesOn(b) PROVE Kept' /\ Settled'
<1> DEFINE left == batch[b].left
<1>0. BufferInv /\ Kept /\ Settled /\ Resumed /\ Past /\ (~lowered => batch[Admin].at = "off")
  BY OrderIs DEF Kept
<1>1. /\ left \in Seq(Messages) /\ left # <<>> /\ Tail(left) \in Seq(Messages)
      /\ b # Admin /\ batch[b].at = "sent" /\ ~Direct(b) /\ Resumes(b)
      /\ pending' = Take(pending, left[1]) /\ pending' \in Seq(Messages)
      /\ Range(pending') = Range(pending) \ {left[1]}
      /\ UNCHANGED <<interval, working, received, action, timer, sent, lowered>>
      /\ batch' \in [Batches -> Batching]
      /\ \A c \in Batches : c # b => batch'[c] = batch[c]
      /\ batch'[b].left = Tail(left)
  BY <1>0, GoesOnIs
<1>2. \/ /\ Tail(left) # <<>> /\ consumer' = consumer
         /\ outbox' = Append(outbox, [by |-> b, message |-> left[2]])
      \/ /\ Tail(left) = <<>> /\ b = Consumer /\ consumer = "before"
         /\ consumer' = "direct"
         /\ outbox' = Append(outbox, [by |-> Consumer, message |-> received'])
      \/ /\ Tail(left) = <<>> /\ ~(b = Consumer /\ consumer = "before")
         /\ consumer' \in {"idle", consumer} /\ outbox' = outbox
  BY <1>0, GoesOnIs
<1>3. /\ Range(left) = {left[1]} \cup Range(Tail(left)) /\ 1 \in DOMAIN left
      /\ \A p \in DOMAIN Tail(left) : p + 1 \in DOMAIN left /\ Tail(left)[p] = left[p + 1]
  BY <1>1, TailIs
<1> HIDE DEF left
<1>4. Resumed'
  BY <1>0, <1>1, RestResumed
<1>5. Past'
  <2>1. \A p \in DOMAIN left : left[p] <= received
    BY <1>0 DEF Past, left
  <2>2. \A p \in DOMAIN Tail(left) : Tail(left)[p] <= received
    BY <1>3, <2>1
  <2>3. ASSUME NEW c \in Batches
        PROVE  \A p \in DOMAIN batch'[c].left : batch'[c].left[p] <= received
    <3>1. CASE c = b
      BY <1>1, <2>2, <3>1
    <3>2. CASE c # b
      BY <1>0, <1>1, <3>2 DEF Past
    <3> QED
      BY <3>1, <3>2
  <2> QED
    BY <1>0, <1>1, <2>3 DEF Past
<1>6. CASE lowered
  <2>1. lowered'
    BY <1>1, <1>6
  <2> QED
    BY <1>4, <1>5, <2>1 DEF Kept, Settled
<1>7. CASE ~lowered
  <2>0. Alone /\ Before /\ batch[Admin].at = "off" /\ batch'[Admin].at = "off" /\ ~lowered'
    BY <1>0, <1>1, <1>7, Names DEF Settled
  <2>1. ASSUME \A m \in Messages : batch[m].at = "off" PROVE b = Consumer
    BY <1>0, <1>1, <2>1, OnlyConsumer
  <2>2. consumer # "direct"
    BY <1>1, <2>0, <2>1 DEF Alone, Direct
  <2>3. Settled'
    <3>1. Alone'
      <4>1. SUFFICES ASSUME interval = 0 \/ consumer' \in {"before", "direct"}
                     PROVE  \A m \in Messages : batch'[m].at = "off" /\ timer[m] = Off
        BY <1>1 DEF Alone
      <4>2. interval = 0 \/ consumer \in {"before", "direct"}
        BY <1>2, <4>1
      <4>3. \A m \in Messages : batch[m].at = "off" /\ timer[m] = Off
        BY <2>0, <4>2 DEF Alone
      <4>4. b = Consumer
        BY <2>1, <4>3
      <4> QED
        BY <1>1, <4>3, <4>4, Names
    <3>2. ASSUME consumer' = "before" PROVE Range(pending') \subseteq Range(batch'[Consumer].left)
      <4>1. consumer = "before"
        BY <1>2, <3>2
      <4>2. b = Consumer /\ Range(pending) \subseteq Range(left)
        BY <2>0, <2>1, <4>1 DEF Alone, Before, left
      <4> QED
        BY <1>1, <1>3, <4>2
    <3>3. ASSUME consumer' = "direct" PROVE pending' = <<>>
      <4>1. consumer = "before" /\ b = Consumer /\ Tail(left) = <<>>
        BY <1>2, <2>2, <3>3
      <4>2. Range(pending) \subseteq Range(left)
        BY <2>0, <4>1 DEF Before, left
      <4>3. Range(pending') = {}
        <5>1. Range(Tail(left)) = {}
          BY <4>1 DEF Range
        <5> QED
          BY <1>1, <1>3, <4>2, <5>1
      <4>4. DOMAIN pending' = {}
        BY <4>3 DEF Range
      <4>5. Len(pending') = 0
        BY <1>1, <4>4, DomainIs
      <4> QED
        BY <1>1, <4>5, EmptySeq
    <3> QED
      BY <3>1, <3>2, <3>3 DEF Settled, Before
  <2>4. /\ Lists \in Seq(Seq(Messages)) /\ Line \in Seq(Messages) /\ pending \in Seq(Messages)
        /\ Lists # <<>> /\ Lists[1] = left /\ Left(Tail(Queue), batch) = Tail(Lists)
        /\ back' = Tail(back) /\ Tail(Queue) = Tail(back) \o By(outbox)
        /\ Tail(Queue) \in Seq(Batches) /\ Tail(back) \in Seq(Batches) /\ By(outbox) \in Seq(Batches)
        /\ \A i \in 1..Len(Tail(Queue)) : Tail(Queue)[i] \in Batches \ {b}
    <3>1. Lists = Left(Queue, batch)
      BY <2>2 DEF Lists
    <3>2. Tail(back) \in Seq(Batches)
      BY <1>0, <1>1, QueueFront, TailIs
    <3> QED
      BY <1>0, <1>1, <3>1, <3>2, QueueIs, TypesAre, QueueFront DEF left
  <2>5. Left(Tail(Queue), batch') = Tail(Lists)
    <3>1. \A i \in 1..Len(Tail(Queue)) : batch'[Tail(Queue)[i]].left = batch[Tail(Queue)[i]].left
      BY <1>1, <2>4
    <3>2. Left(Tail(Queue), batch') = Left(Tail(Queue), batch)
      BY <1>0, <1>1, <2>4, <3>1, TypesAre, LeftKept
    <3> QED
      BY <2>4, <3>2
  <2>6. Without(pending, Lists[1][1], pending')
    <3>1. \A i, j \in DOMAIN pending : action[pending[i]] = action[pending[j]] => i = j
      BY <1>0 DEF BufferInv, TypeOK
    <3>2. Without(pending, left[1], Take(pending, left[1]))
      BY <2>4, <3>1, TakeWithout
    <3> QED
      BY <1>1, <2>4, <3>2
  <2>7. InOrder(action, sent) /\ NoneNewer(action, sent, pending')
    BY <1>0, <1>7, <2>6, WithoutIs DEF Kept
  <2>8. ASSUME working PROVE Orderly(action, Lists, Line, pending)
    BY <1>0, <1>7, <2>8 DEF Kept
  <2>9. CASE Tail(left) = <<>> /\ b = Consumer /\ consumer = "before"
    <3>1. consumer' = "direct" /\ outbox' = Append(outbox, [by |-> Consumer, message |-> received'])
      BY <1>2, <2>9
    <3>2. pending' = <<>>
      BY <2>0, <2>3, <3>1 DEF Settled, Before
    <3>3. received' \in Messages /\ received' \in {received, received + 1}
      <4>1. received > 0 /\ received \in 0..MaxMessages
        BY <1>0, <2>9 DEF BufferInv, Senders, TypeOK
      <4> QED
        BY <1>1, <4>1, BoundsAssumption DEF Messages
    <3>4. Kept'
      BY <1>0, <1>1, <1>4, <1>5, <2>0, <3>1, <3>2, <3>3, DirectKept
    <3> QED
      BY <2>3, <3>4
  <2> DEFINE L == Lists
             V == Line
  <2>10. CASE Tail(left) # <<>>
    <3>1. /\ consumer' = consumer /\ outbox' = Append(outbox, [by |-> b, message |-> left[2]])
      BY <1>2, <2>10
    <3>2. left[2] \in Messages
      BY <1>1, <2>10, TailIs
    <3>3. By(outbox') = Append(By(outbox), b) /\ Carried(outbox') = Append(Carried(outbox), left[2])
      BY <1>0, <3>1, <3>2, TypesAre, SendsAppend
    <3>4. Queue' = Append(Tail(Queue), b)
      <4>1. Tail(back) \o Append(By(outbox), b) = Append(Tail(back) \o By(outbox), b)
        <5>1. Tail(back) \in Seq(Batches) /\ By(outbox) \in Seq(Batches)
          BY <2>4
        <5> QED
          BY <5>1, JoinAppend
      <4>2. Queue' = back' \o By(outbox')
        BY DEF Queue
      <4> QED
        BY <2>4, <3>3, <4>1, <4>2
    <3>5. Line' = Append(Line, left[2])
      <4>1. sent \o Append(Carried(outbox), left[2]) = Append(sent \o Carried(outbox), left[2])
        BY <1>0, <3>2, TypesAre, JoinAppend
      <4>2. Line' = sent \o Carried(outbox')
        BY <1>1 DEF Line
      <4> QED
        BY <3>3, <4>1, <4>2 DEF Line
    <3>6. Lists' = Append(Tail(Lists), Tail(left))
      <4>1. Lists' = Left(Append(Tail(Queue), b), batch')
        BY <2>2, <3>1, <3>4 DEF Lists
      <4>2. Left(Append(Tail(Queue), b), batch') = Append(Left(Tail(Queue), batch'), batch'[b].left)
        <5>1. Tail(Queue) \in Seq(Batches) /\ batch' \in [Batches -> Batching]
          BY <1>1, <2>4
        <5> QED
          BY <5>1, LeftAppend
      <4> QED
        BY <1>1, <2>5, <4>1, <4>2
    <3>7. ASSUME working
          PROVE  Orderly(action, Append(Tail(Lists), Tail(left)), Append(Line, left[2]), pending')
      <4>1. /\ L \in Seq(Seq(Messages)) /\ V \in Seq(Messages) /\ L # <<>> /\ L[1] = left
            /\ Without(pending, L[1][1], pending') /\ Orderly(action, L, V, pending)
        BY <2>4, <2>6, <2>8, <3>7
      <4> HIDE DEF L, V
      <4>2. L[1] # <<>> /\ Tail(L[1]) # <<>>
        BY <1>1, <2>10, <4>1
      <4>3. Orderly(action, Append(Tail(L), Tail(L[1])), Append(V, L[1][2]), pending')
        BY <1>1, <2>4, <4>1, <4>2, GoesOnOrderly
      <4> QED
        BY <4>1, <4>3 DEF L, V
    <3>8. Kept'
      BY <1>1, <1>4, <1>5, <2>0, <2>7, <3>5, <3>6, <3>7 DEF Kept
    <3> QED
      BY <2>3, <3>8
  <2>11. CASE Tail(left) = <<>> /\ ~(b = Consumer /\ consumer = "before")
    <3>1. consumer' \in {"idle", consumer} /\ outbox' = outbox
      BY <1>2, <2>11
    <3>2. Queue' = Tail(Queue) /\ Line' = Line
      BY <1>1, <2>4, <3>1 DEF Queue, Line
    <3>3. Lists' = Tail(Lists)
      <4>1. Lists' = Left(Tail(Queue), batch')
        BY <2>2, <3>1, <3>2 DEF Lists
      <4> QED
        BY <2>5, <4>1
    <3>4. ASSUME working PROVE Orderly(action, Tail(Lists), Line, pending')
      <4>1. /\ L \in Seq(Seq(Messages)) /\ V \in Seq(Messages) /\ L # <<>>
            /\ Without(pending, L[1][1], pending') /\ Orderly(action, L, V, pending)
        BY <2>4, <2>6, <2>8, <3>4
      <4> HIDE DEF L, V
      <4>2. Orderly(action, Tail(L), V, pending')
        BY <1>1, <2>4, <4>1, EndsOrderly
      <4> QED
        BY <4>2 DEF L, V
    <3>5. Kept'
      BY <1>1, <1>4, <1>5, <2>0, <2>7, <3>2, <3>3, <3>4 DEF Kept
    <3> QED
      BY <2>3, <3>5
  <2> QED
    BY <1>2, <2>9, <2>10, <2>11
<1> QED
  BY <1>6, <1>7

LEMMA NobodyIs ==
    /\ By(<<>>) = <<>> /\ Carried(<<>>) = <<>>
    /\ \A b \in [Batches -> Batching] : Left(<<>>, b) = <<>>
<1>1. <<>> \in Seq(Sends) /\ <<>> \in Seq(Batches) /\ Len(<<>>) = 0
  BY EmptySeq
<1>2. /\ By(<<>>) \in Seq(Batches) /\ Len(By(<<>>)) = 0
      /\ Carried(<<>>) \in Seq(Messages) /\ Len(Carried(<<>>)) = 0
  BY <1>1, SendsAre
<1>3. ASSUME NEW b \in [Batches -> Batching] PROVE Left(<<>>, b) = <<>>
  <2>1. Left(<<>>, b) \in Seq(Seq(Messages)) /\ Len(Left(<<>>, b)) = 0
    BY <1>1, LeftIs
  <2> QED
    BY <2>1, EmptySeq
<1> QED
  BY <1>2, <1>3, EmptySeq

\* Nobody is in line any more.
LEMMA NobodyKept ==
    ASSUME BufferInv', Past', back' = <<>>, outbox' = <<>>,
           ~lowered' => /\ batch'[Admin].at = "off"
                        /\ InOrder(action', sent') /\ NoneNewer(action', sent', pending')
    PROVE  Kept'
<1>1. sent' \in Seq(Messages) /\ batch' \in [Batches -> Batching]
  BY DEF BufferInv, TypeOK, Batching
<1>2. Line' = sent'
  <2>1. sent' \o <<>> = sent'
    BY <1>1, ConcatEmptySeq
  <2>2. Line' = sent' \o Carried(outbox')
    BY DEF Line
  <2> QED
    BY <2>1, <2>2, NobodyIs
<1>3. Lists' = <<>>
  <2>1. Queue' = <<>> \o By(outbox') /\ By(outbox') = <<>> /\ <<>> \o <<>> = <<>>
    BY NobodyIs, ConcatEmptySeq, EmptySeq DEF Queue
  <2>2. Lists' = IF consumer' = "direct" THEN <<>> ELSE Left(<<>>, batch')
    BY <2>1 DEF Lists
  <2> QED
    BY <1>1, <2>2, NobodyIs
<1>4. ~lowered' => Orderly(action', <<>>, sent', pending')
  BY <1>1, NobodyOrderly
<1>5. Resumed'
  BY DEF Resumed
<1> QED
  BY <1>2, <1>3, <1>4, <1>5 DEF Kept

\* The consumer was alone, and is done.
LEMMA DoneOrder ==
    ASSUME OrderInv, BufferInv', ConsumerDone PROVE Kept' /\ Settled'
<1>0. /\ BufferInv /\ Kept /\ Settled /\ Resumed /\ (~lowered => batch[Admin].at = "off")
      /\ Resumes(Consumer) /\ batch[Consumer].at = "sent" /\ Consumer \in Batches
      /\ consumer = "direct" /\ consumer' = "idle"
      /\ batch' = [batch EXCEPT ![Consumer] = [at |-> "off", left |-> <<>>, ago |-> 0]]
      /\ UNCHANGED <<interval, working, pending, received, action, timer, outbox, sent, lowered>>
  BY OrderIs, Names DEF ConsumerDone, NoBatch, sessionVars, pastVars, Kept
<1>1. /\ batch'[Consumer].left = <<>>
      /\ \A c \in Batches : c # Consumer => batch'[c] = batch[c]
  BY <1>0, BatchIs, EmptySeq
<1>2. Resumed'
  BY <1>0, <1>1, RestResumed
<1>3. Past'
  <2>1. \A b \in Batches : \A p \in DOMAIN batch'[b].left : batch'[b].left[p] <= received
    BY <1>0, <1>1 DEF Kept, Past
  <2> QED
    BY <1>0, <2>1 DEF Kept, Past
<1>4. CASE lowered
  BY <1>0, <1>2, <1>3, <1>4 DEF Kept, Settled
<1>5. CASE ~lowered
  <2>1. /\ \A m \in Messages : batch[m].at = "off" /\ timer[m] = Off
        /\ batch[Admin].at = "off" /\ pending = <<>>
    BY <1>0, <1>5 DEF Settled, Alone, Before
  <2>2. \A b \in Batches : b = Consumer \/ batch[b].at = "off"
    BY <2>1, BoundsAssumption DEF Batches, Consumer, Admin, Messages
  <2>3. outbox = <<>>
    <3>1. DOMAIN outbox = {}
      BY <1>0, <2>2 DEF BufferInv, Thread
    <3>2. Len(outbox) = 0
      BY <1>0, <3>1, TypesAre, DomainIs
    <3> QED
      BY <1>0, <3>2, TypesAre, EmptySeq
  <2>4. back' = <<>>
    <3>1. back \in Seq(Batches) /\ back # <<>> /\ back' = Tail(back) /\ Head(back) = Consumer
      BY <1>0, TypesAre DEF Resumes
    <3>2. /\ back[1] = Consumer /\ 1 \in DOMAIN back /\ back' \in Seq(Batches)
          /\ \A i \in DOMAIN back' : i \in Nat \ {0} /\ i + 1 \in DOMAIN back
      BY <3>1, TailIs
    <3>3. \A i \in DOMAIN back : back[i] = Consumer
      BY <1>0, <2>2, <3>1, DomainIs DEF Resumed
    <3>4. \A i \in DOMAIN back' : i + 1 = 1
      BY <1>0, <3>2, <3>3 DEF Resumed
    <3>5. DOMAIN back' = {}
      BY <3>2, <3>4
    <3>6. Len(back') = 0
      BY <3>2, <3>5, DomainIs
    <3> QED
      BY <3>2, <3>6, EmptySeq
  <2>5. batch'[Admin] = batch[Admin] /\ \A m \in Messages : batch'[m] = batch[m]
    BY <1>1, Names
  <2>6. Kept'
    BY <1>0, <1>3, <1>5, <2>3, <2>4, <2>5, NobodyKept DEF Kept
  <2> QED
    BY <1>0, <2>1, <2>5, <2>6 DEF Settled, Alone, Before
<1> QED
  BY <1>4, <1>5

LEMMA TaskFailsOrder ==
    ASSUME OrderInv, BufferInv', NEW m \in Messages, TaskFails(m) PROVE Kept' /\ Settled'
<1>0. /\ BufferInv /\ Kept /\ Settled /\ Resumes(m) /\ m \in Batches /\ m # Consumer /\ m # Admin
      /\ batch[m].at = "failed"
      /\ batch' = [batch EXCEPT ![m] = [at |-> "off", left |-> <<>>, ago |-> 0]]
      /\ UNCHANGED <<sessionVars, consumerVars, timer, outbox, pastVars>>
  BY OrderIs, Names DEF TaskFails, NoBatch
<1>1. /\ batch'[m].at = "off" /\ batch'[m].left = <<>>
      /\ \A c \in Batches : c # m => batch'[c] = batch[c]
  BY <1>0, BatchIs, EmptySeq
<1>2. ~working
  BY <1>0 DEF OrderInv, FlushInv, Timers
<1>3. UNCHANGED <<interval, working, pending, received, action, consumer, timer, sent, lowered>>
  BY <1>0 DEF sessionVars, consumerVars, pastVars
<1>4. Resumed'
  BY <1>0, <1>1, RestResumed DEF Kept
<1>5. Past'
  <2>1. \A b \in Batches : \A p \in DOMAIN batch'[b].left : batch'[b].left[p] <= received
    BY <1>0, <1>1 DEF Kept, Past
  <2> QED
    BY <1>0, <1>3, <2>1 DEF Kept, Past
<1>6. batch'[Admin] = batch[Admin] /\ batch'[Consumer] = batch[Consumer]
  BY <1>0, <1>1, Names
<1>7. Kept'
  BY <1>0, <1>2, <1>3, <1>4, <1>5, <1>6 DEF Kept
<1>8. \A x \in Messages : batch[x].at = "off" => batch'[x].at = "off"
  BY <1>0, <1>1, Names
<1> QED
  BY <1>0, <1>3, <1>6, <1>7, <1>8 DEF Settled, Alone, Before

LEMMA ForgottenOrder ==
    ASSUME OrderInv, BufferInv', Forgotten, UNCHANGED <<received, action, sent, lowered>>
    PROVE  Kept' /\ Settled'
<1>0. /\ BufferInv /\ Kept /\ consumer' = "idle" /\ batch' = [b \in Batches |-> NoBatch]
      /\ outbox' = <<>> /\ back' = <<>> /\ pending' = <<>>
      /\ timer' = [m \in Messages |-> Off]
  BY OrderIs DEF Forgotten
<1>1. \A b \in Batches : batch'[b].at = "off" /\ batch'[b].left = <<>>
  BY <1>0, ClearedIs
<1>2. Past'
  <2>1. \A b \in Batches : \A p \in DOMAIN batch'[b].left : batch'[b].left[p] <= received
    BY <1>1
  <2> QED
    BY <1>0, <2>1 DEF Kept, Past
<1>3. ~lowered => InOrder(action, sent) /\ NoneNewer(action, sent, <<>>)
  BY <1>0 DEF Kept, NoneNewer
<1>4. batch'[Admin].at = "off" /\ \A m \in Messages : batch'[m].at = "off"
  BY <1>1, Names
<1>5. Kept'
  BY <1>0, <1>2, <1>3, <1>4, NobodyKept
<1> QED
  BY <1>0, <1>4, <1>5 DEF Settled, Alone, Before

\* A tick, a connection that breaks, a sync.
LEMMA ElsewhereOrder ==
    ASSUME OrderInv, BufferInv',
           UNCHANGED <<back, outbox, sent, consumer, lowered, pending, received, action>>,
           working' => working, interval' = 0 => interval = 0,
           \A b \in Batches : batch'[b].at = batch[b].at /\ batch'[b].left = batch[b].left,
           \A m \in Messages : timer'[m] # Off <=> timer[m] # Off
    PROVE  Kept' /\ Settled'
<1>0. BufferInv /\ Kept /\ Settled
  BY OrderIs
<1>1. Buffered(action', received + 1, pending') /\ received + 1 \in Nat
  BY <1>0, SameBuffered
<1>2. batch'[Admin].at = batch[Admin].at
  BY Names
<1>3. Kept'
  BY <1>0, <1>1, <1>2, StillKept
<1>4. /\ \A m \in Messages : batch'[m].at = batch[m].at
      /\ batch'[Consumer].left = batch[Consumer].left
  BY Names
<1> QED
  BY <1>0, <1>3, <1>4 DEF Settled, Alone, Before

\* A new session: what was pending goes first, and nobody else is in line.
LEMMA ReconnectsOrder ==
    ASSUME OrderInv, BufferInv', Reconnects, consumer # "idle",
           UNCHANGED <<received, action, sent>>
    PROVE  Kept' /\ Settled'
<1> DEFINE first == IF pending = <<>> THEN received ELSE Head(pending)
<1>0. /\ BufferInv /\ Kept /\ timer' = [m \in Messages |-> Off] /\ back' = <<>>
      /\ UNCHANGED <<pending, lowered>>
  BY OrderIs DEF Reconnects
<1>1. /\ received \in Messages /\ pending \in Seq(Messages)
      /\ \A q \in DOMAIN pending : pending[q] <= received
      /\ \A q, s \in DOMAIN pending : action[pending[q]] = action[pending[s]] => q = s
      /\ sent \in Seq(Messages) /\ \A k \in DOMAIN sent : sent[k] <= received
  BY <1>0, BoundsAssumption DEF BufferInv, TypeOK, Senders, Messages, Kept, Past
<1>2. ~lowered => InOrder(action, sent) /\ NoneNewer(action, sent, pending)
  BY <1>0 DEF Kept
<1>3. CASE /\ outbox' = <<[by |-> Consumer, message |-> first]>>
           /\ consumer' = IF pending = <<>> THEN "direct" ELSE "before"
           /\ batch' = [b \in Batches |->
                           IF b = Consumer
                           THEN [at |-> "sending", left |-> pending, ago |-> 0]
                           ELSE NoBatch]
           /\ UNCHANGED stranded
  <2>1. /\ batch' \in [Batches -> Batching] /\ batch'[Consumer].left = pending
        /\ \A b \in Batches : b # Consumer => batch'[b].at = "off" /\ batch'[b].left = <<>>
    BY <1>1, <1>3, Names, EmptySeq DEF Batching, NoBatch
  <2>2. first \in Messages /\ (pending # <<>> => first = pending[1])
    BY <1>1, TailIs
  <2>3. outbox' = Append(<<>>, [by |-> Consumer, message |-> first])
    BY <1>3
  <2> HIDE DEF first
  <2>4. By(outbox') = Append(<<>>, Consumer) /\ Carried(outbox') = Append(<<>>, first)
    <3>1. <<>> \in Seq(Sends) /\ Consumer \in Batches
      BY Names, EmptySeq
    <3> QED
      BY <2>2, <2>3, <3>1, SendsAppend, NobodyIs
  <2>5. Line' = Append(sent, first)
    <3>1. sent \o Append(<<>>, first) = Append(sent \o <<>>, first) /\ sent \o <<>> = sent
      BY <1>1, <2>2, EmptySeq, JoinAppend, ConcatEmptySeq
    <3>2. Line' = sent \o Carried(outbox')
      BY <1>0 DEF Line
    <3> QED
      BY <2>4, <3>1, <3>2
  <2>6. pending # <<>> => Lists' = Append(<<>>, pending)
    <3>0. <<>> \in Seq(Batches) /\ Consumer \in Batches
      BY Names, EmptySeq
    <3>1. <<>> \o Append(<<>>, Consumer) = Append(<<>> \o <<>>, Consumer) /\ <<>> \o <<>> = <<>>
      BY <3>0, JoinAppend, ConcatEmptySeq
    <3>2. Queue' = Append(<<>>, Consumer)
      <4>1. Queue' = <<>> \o By(outbox')
        BY <1>0 DEF Queue
      <4> QED
        BY <2>4, <3>1, <4>1
    <3>3. Left(Append(<<>>, Consumer), batch') = Append(Left(<<>>, batch'), batch'[Consumer].left)
      BY <2>1, <3>0, LeftAppend
    <3>4. ASSUME pending # <<>> PROVE Lists' = Left(Append(<<>>, Consumer), batch')
      BY <1>3, <3>2, <3>4 DEF Lists
    <3> QED
      BY <2>1, <3>3, <3>4, NobodyIs
  <2>7. ASSUME ~lowered, pending # <<>> PROVE Orderly(action, Lists', Line', pending)
    <3>1. Orderly(action, <<>>, sent, pending)
      BY <1>1, <1>2, <2>7, NobodyOrderly
    <3>2. <<>> \in Seq(Seq(Messages))
      BY EmptySeq
    <3>3. Orderly(action, Append(<<>>, pending), Append(sent, pending[1]), pending)
      BY <1>1, <2>7, <3>1, <3>2, BeginOrderly
    <3> QED
      BY <2>2, <2>5, <2>6, <2>7, <3>3
  <2>8. ASSUME ~lowered, pending = <<>> PROVE Orderly(action, Lists', Line', pending)
    <3>1. first = received /\ Lists' = <<>>
      BY <1>3, <2>8 DEF first, Lists
    <3>2. Orderly(action, <<>>, Append(sent, received), <<>>)
      BY <1>1, <1>2, <2>8, DirectOrderly
    <3> QED
      BY <2>5, <2>8, <3>1, <3>2
  <2>9. Resumed' /\ Past'
    <3>1. \A b \in Batches : \A p \in DOMAIN batch'[b].left : batch'[b].left[p] <= received
      BY <1>1, <2>1
    <3> QED
      BY <1>0, <1>1, <3>1 DEF Resumed, Past
  <2>10. batch'[Admin].at = "off" /\ \A m \in Messages : batch'[m].at = "off"
    BY <2>1, Names
  <2>11. Kept'
    BY <1>0, <1>2, <2>7, <2>8, <2>9, <2>10 DEF Kept
  <2> QED
    BY <1>0, <1>3, <2>1, <2>10, <2>11 DEF Settled, Alone, Before
<1>4. CASE /\ outbox' = <<>> /\ consumer' = "idle"
           /\ batch' = [b \in Batches |-> NoBatch]
           /\ stranded' = TRUE
  <2>1. \A b \in Batches : batch'[b].at = "off" /\ batch'[b].left = <<>>
    BY <1>4, ClearedIs
  <2>2. Past'
    <3>1. \A b \in Batches : \A p \in DOMAIN batch'[b].left : batch'[b].left[p] <= received
      BY <2>1
    <3> QED
      BY <1>1, <3>1 DEF Past
  <2>3. batch'[Admin].at = "off" /\ \A m \in Messages : batch'[m].at = "off"
    BY <2>1, Names
  <2>4. Kept'
    BY <1>0, <1>2, <1>4, <2>2, <2>3, NobodyKept
  <2> QED
    BY <1>0, <1>4, <2>3, <2>4 DEF Settled, Alone, Before
<1> QED
  BY <1>3, <1>4 DEF Reconnects

LEMMA FailsOrder ==
    ASSUME OrderInv, BufferInv', ConsumerFails PROVE Kept' /\ Settled'
<1>1. /\ BufferInv /\ batch[Consumer].at = "failed" /\ UNCHANGED <<received, action, sent>>
      /\ (Reconnects \/ SessionGone)
  BY OrderIs DEF ConsumerFails
<1>2. consumer # "idle"
  BY <1>1 DEF BufferInv, Senders
<1>3. CASE Reconnects
  BY <1>1, <1>2, <1>3, ReconnectsOrder
<1>4. CASE SessionGone
  BY <1>1, <1>4, ForgottenOrder DEF SessionGone
<1> QED
  BY <1>1, <1>3, <1>4

\* From here on an admin has turned the interval off.
LEMMA AdminLowersOrder ==
    ASSUME OrderInv, BufferInv', AdminLowers PROVE Kept' /\ Settled'
<1>0. /\ BufferInv /\ Resumed /\ Past /\ lowered'
      /\ UNCHANGED <<back, sent, received>>
  BY OrderIs DEF AdminLowers, Kept, consumerVars
<1>1. /\ pending \in Seq(Messages) /\ batch[Admin].at \in {"off", "sending"}
      /\ \A q \in DOMAIN pending : pending[q] <= received
  BY <1>0, TypesAre DEF BufferInv, Senders
<1>2. CASE pending = <<>>
  <2>1. batch' = batch
    BY <1>2 DEF AdminLowers
  <2>2. Resumed' /\ Past'
    BY <1>0, <2>1, PlacesKept
  <2> QED
    BY <1>0, <2>2 DEF Kept, Settled
<1>3. CASE pending # <<>>
  <2>1. batch' = [batch EXCEPT ![Admin] = [at |-> "sending", left |-> pending, ago |-> 0]]
    BY <1>3 DEF AdminLowers
  <2>2. batch'[Admin].left = pending /\ \A c \in Batches : c # Admin => batch'[c] = batch[c]
    BY <1>0, <1>1, <2>1, BatchIs, Names
  <2>3. \A b \in Batches : batch[b].at \in {"sent", "failed"} => batch'[b].at = batch[b].at
    BY <1>1, <2>2
  <2>4. \A b \in Batches : \/ batch'[b].left \in {batch[b].left, <<>>}
                           \/ \A p \in DOMAIN batch'[b].left : batch'[b].left[p] <= received'
    BY <1>0, <1>1, <2>2
  <2>5. Resumed' /\ Past'
    BY <1>0, <2>3, <2>4, PlacesKept
  <2> QED
    BY <1>0, <2>5 DEF Kept, Settled
<1> QED
  BY <1>2, <1>3

LEMMA AdminSendsOrder ==
    ASSUME OrderInv, BufferInv', AdminSends PROVE Kept' /\ Settled'
<1> DEFINE left == batch[Admin].left
<1>0. /\ BufferInv /\ Resumed /\ Past /\ batch[Admin].at = "sending" /\ lowered /\ lowered'
      /\ UNCHANGED <<back, received>> /\ batch \in [Batches -> Batching] /\ Admin \in Batches
      /\ sent \in Seq(Messages) /\ back \in Seq(Batches)
  BY OrderIs, TypesAre, Names DEF AdminSends, Kept, consumerVars
<1>1. /\ left \in Seq(Messages) /\ left # <<>> /\ \A p \in DOMAIN left : left[p] <= received
  BY <1>0, Names DEF BufferInv, Senders, Handed, Direct, Batching, Past
<1>2. /\ sent' \in {sent, Append(sent, Head(left))}
      /\ \/ batch' = [batch EXCEPT ![Admin] = [@ EXCEPT !.left = Tail(left)]]
         \/ batch' = [batch EXCEPT ![Admin] = [at |-> "off", left |-> <<>>, ago |-> 0]]
  BY DEF AdminSends, NoBatch
<1> HIDE DEF left
<1>3. /\ Head(left) \in Messages /\ Head(left) <= received /\ Tail(left) \in Seq(Messages)
      /\ \A p \in DOMAIN Tail(left) : Tail(left)[p] <= received
  BY <1>1, TailIs
<1>4. /\ \A c \in Batches : c # Admin => batch'[c] = batch[c]
      /\ batch'[Admin].left \in {Tail(left), <<>>}
  <2>1. CASE batch' = [batch EXCEPT ![Admin] = [@ EXCEPT !.left = Tail(left)]]
    BY <1>0, <1>3, <2>1 DEF Batching
  <2>2. CASE batch' = [batch EXCEPT ![Admin] = [at |-> "off", left |-> <<>>, ago |-> 0]]
    BY <1>0, <2>2, BatchIs, EmptySeq
  <2> QED
    BY <1>2, <2>1, <2>2
<1>5. Resumed'
  <2>1. \A i \in DOMAIN back : back[i] \in Batches /\ back[i] # Admin
    BY <1>0, DomainIs DEF Resumed
  <2> QED
    BY <1>0, <1>4, <2>1 DEF Resumed
<1>6. Past'
  <2>1. \A k \in DOMAIN sent' : sent'[k] <= received
    <3>1. \A k \in DOMAIN sent : sent[k] <= received
      BY <1>0 DEF Past
    <3> QED
      <4>1. LET more == Append(sent, Head(left)) IN
               /\ DOMAIN more = DOMAIN sent \cup {Len(sent) + 1}
               /\ \A k \in DOMAIN sent : more[k] = sent[k]
               /\ more[Len(sent) + 1] = Head(left)
        BY <1>0, <1>3, AppendIs
      <4>2. \A k \in DOMAIN Append(sent, Head(left)) : Append(sent, Head(left))[k] <= received
        BY <1>3, <3>1, <4>1
      <4> QED
        BY <1>2, <3>1, <4>2
  <2>2. ASSUME NEW b \in Batches
        PROVE  \A p \in DOMAIN batch'[b].left : batch'[b].left[p] <= received
    <3>1. CASE b = Admin
      <4>1. batch'[b].left = Tail(left) \/ batch'[b].left = <<>>
        BY <1>4, <3>1
      <4> QED
        BY <1>3, <4>1
    <3>2. CASE b # Admin
      BY <1>0, <1>4, <3>2 DEF Past
    <3> QED
      BY <3>1, <3>2
  <2> QED
    BY <1>0, <2>1, <2>2 DEF Past
<1> QED
  BY <1>0, <1>5, <1>6 DEF Kept, Settled

LEMMA WorldOrder ==
    ASSUME OrderInv, BufferInv', World \/ Tick \/ UNCHANGED vars PROVE Kept' /\ Settled'
<1>0. BufferInv
  BY OrderIs
<1>1. CASE ConnectionBreaks \/ UNCHANGED vars
  BY <1>1, ElsewhereOrder DEF ConnectionBreaks, vars, sessionVars, consumerVars, pastVars
<1>2. CASE SessionRemoved
  <2>1. CASE consumer = "idle"
    <3>1. Forgotten /\ UNCHANGED <<received, action, sent, lowered>>
      BY <1>2, <2>1 DEF SessionRemoved, SessionGone
    <3> QED
      BY <3>1, ForgottenOrder
  <2>2. CASE consumer # "idle"
    BY <1>2, <2>2, ElsewhereOrder DEF SessionRemoved
  <2> QED
    BY <2>1, <2>2
<1>3. CASE SyncConnects
  <2>1. Forgotten /\ UNCHANGED <<received, action, sent, lowered>>
    BY <1>3 DEF SyncConnects
  <2> QED
    BY <2>1, ForgottenOrder
<1>4. CASE SyncSetsInterval
  <2>1. interval' # 0
    BY <1>4, BoundsAssumption DEF SyncSetsInterval
  <2> QED
    BY <1>4, <2>1, ElsewhereOrder DEF SyncSetsInterval, consumerVars, pastVars
<1>5. CASE AdminLowers
  BY <1>5, AdminLowersOrder
<1>6. CASE Tick
  BY <1>0, <1>6, TickIs, ElsewhereOrder DEF consumerVars
<1> QED
  BY <1>1, <1>2, <1>3, <1>4, <1>5, <1>6 DEF World

LEMMA OrderStep == ASSUME OrderInv, [Next]_vars PROVE OrderInv'
<1>1. FlushInv' /\ BufferInv'
  BY FlushStep DEF OrderInv, FlushInv
<1>2. Kept' /\ Settled'
  <2>1. CASE Receive
    BY <1>1, <2>1, ReceiveForwardsOrder, ReceiveFlushesOrder, ReceiveBuffersOrder DEF Receive
  <2>2. CASE \E m \in Messages : TimerFires(m) \/ TaskBegins(m) \/ TaskFails(m)
    BY <1>1, <2>2, TimerOrder, TaskOrder, TaskFailsOrder
  <2>3. CASE \E b \in Batches : BatchGoesOn(b)
    BY <1>1, <2>3, GoesOnOrder
  <2>4. CASE ConsumerDone
    BY <1>1, <2>4, DoneOrder
  <2>5. CASE ConsumerFails
    BY <1>1, <2>5, FailsOrder
  <2>6. CASE ThreadSends
    BY <1>1, <2>6, ThreadOrder
  <2>7. CASE AdminSends
    BY <1>1, <2>7, AdminSendsOrder
  <2>8. CASE World \/ Tick \/ UNCHANGED vars
    BY <1>1, <2>8, WorldOrder
  <2> QED
    BY <2>1, <2>2, <2>3, <2>4, <2>5, <2>6, <2>7, <2>8 DEF Next, Scheduled
<1> QED
  BY <1>1, <1>2 DEF Kept, Settled, Ordered, OrderInv

LEMMA OrderInit == ASSUME Init PROVE OrderInv
<1>1. BufferInv
  BY BufferInit
<1>2. FlushInv
  BY <1>1 DEF Init, FlushInv, Timers, BufferedHasFlush, NoBatch
<1>3. /\ \A b \in Batches : batch[b].at = "off" /\ batch[b].left = <<>>
      /\ back = <<>> /\ outbox = <<>> /\ sent = <<>> /\ pending = <<>> /\ consumer = "idle"
      /\ timer = [m \in Messages |-> Off]
  BY DEF Init, NoBatch
<1>4. Resumed /\ Past
  BY <1>3 DEF Resumed, Past
<1>5. Queue = <<>> /\ Line = <<>> /\ Left(<<>>, batch) = <<>>
  <2>1. <<>> \o <<>> = <<>>
    BY EmptySeq, ConcatEmptySeq
  <2> QED
    BY <1>1, <1>3, <2>1, NobodyIs, TypesAre DEF Queue, Line
<1>6. InOrder(action, <<>>) /\ NoneNewer(action, <<>>, <<>>)
  BY DEF InOrder, NoneNewer
<1>7. Orderly(action, Lists, Line, pending)
  <2>1. Orderly(action, <<>>, <<>>, <<>>)
    BY <1>6, EmptySeq, NobodyOrderly
  <2> QED
    BY <1>3, <1>5, <2>1 DEF Lists
<1>8. Alone /\ Before /\ batch[Admin].at = "off"
  BY <1>3, Names DEF Alone, Before
<1> QED
  BY <1>2, <1>3, <1>4, <1>6, <1>7, <1>8 DEF OrderInv, Ordered

\* However batches overlap, the remote does not get an older message of an
\* action after a newer one: but for an admin who turned the interval off, or
\* behind a payload that went out twice.
THEOREM NewestStaysLast == Spec => []NewestLast
<1>1. Init => OrderInv
  BY OrderInit
<1>2. OrderInv => NewestLast
  BY DEF OrderInv, Ordered, InOrder, Twice, NewestLast
<1> QED
  BY <1>1, <1>2, OrderStep, PTL DEF Spec
=============================================================================
