------------------------- MODULE ForwardBufferProofs -------------------------
(***************************************************************************)
(* Proofs about ForwardBuffer: its types, that the newest message of an    *)
(* action is not lost but with its session, and that what is pending has a *)
(* timer or a batch that will see it.                                      *)
(***************************************************************************)
EXTENDS ForwardBuffer, SequenceTheorems, TLAPS

Handed == {"sending", "sent", "failed"}

\* A batch holds messages of the buffer; the consumer's may be its own message.
Direct(b) == b = Consumer /\ consumer = "direct"
InHand(b) == IF Direct(b) THEN received ELSE Head(batch[b].left)

\* What each sender holds where it is, and what waits for the thread.
Senders ==
    /\ \A b \in Batches : batch[b].at \in Handed /\ ~Direct(b) => batch[b].left # <<>>
    /\ consumer = "direct" => batch[Consumer].left = <<>>
    /\ consumer = "idle" => batch[Consumer].at = "off"
    /\ consumer # "idle" => batch[Consumer].at \in Handed /\ received > 0
    /\ batch[Admin].at \in {"off", "sending"}
    /\ \A i \in DOMAIN pending : pending[i] <= received
\* A message starts one timer at most, and that one task.
Started ==
    \A m \in Messages : /\ timer[m] # Off => m <= received /\ batch[m].at = "off"
                        /\ batch[m].at # "off" => m <= received
Thread ==
    /\ \A i \in DOMAIN outbox : \E b \in Batches \ {Admin} :
          outbox[i].by = b /\ batch[b].at = "sending" /\ outbox[i].message = InHand(b)
    /\ \A i, j \in DOMAIN outbox : outbox[i].by = outbox[j].by => i = j

BufferInv == TypeOK /\ Senders /\ Started /\ Thread

\* What a sender has sent it may take out.
Delivered ==
    /\ \A b \in Batches : batch[b].at = "sent" => InHand(b) \in Range(sent)
    /\ consumer = "batch" => received \in Range(sent) \cup Range(pending)

LatestInv == BufferInv /\ Delivered /\ KeepsLatest

\* The handle's timer runs or has made its task; sends fail on a broken
\* connection only.
Timers ==
    /\ handle # NoTimer => timer[handle] # Off \/ batch[handle].at = "task"
    /\ \A b \in Batches : batch[b].at = "failed" => ~working

FlushInv == BufferInv /\ Timers /\ BufferedHasFlush

-----------------------------------------------------------------------------
(* The buffer: dictionaries in order *)

LEMMA RemoveAtIs ==
    ASSUME NEW S, NEW s \in Seq(S), NEW k \in DOMAIN s
    PROVE  /\ RemoveAt(s, k) \in Seq(S) /\ Len(RemoveAt(s, k)) = Len(s) - 1
           /\ \A i \in DOMAIN RemoveAt(s, k) :
                 RemoveAt(s, k)[i] = IF i < k THEN s[i] ELSE s[i + 1]
<1> DEFINE front == SubSeq(s, 1, k - 1)
           rest == SubSeq(s, k + 1, Len(s))
<1>1. k \in 1..Len(s) /\ Len(s) \in Nat
  BY LenProperties
<1>2. front \in Seq(S) /\ Len(front) = k - 1 /\ \A i \in 1..(k - 1) : front[i] = s[i]
  <2>1. \A i \in 1..(k - 1) : s[i] \in S
    BY <1>1, ElementOfSeq
  <2> QED
    BY <1>1, <2>1, SubSeqProperties
<1>3. rest \in Seq(S) /\ Len(rest) = Len(s) - k
      /\ \A i \in 1..(Len(s) - k) : rest[i] = s[i + k]
  <2>1. \A i \in (k + 1)..Len(s) : s[i] \in S
    BY <1>1, ElementOfSeq
  <2>2. Len(rest) = Len(s) - k /\ \A i \in 1..(Len(s) - k) : rest[i] = s[(k + 1) + i - 1]
    BY <1>1, <2>1, SubSeqProperties
  <2>3. rest \in Seq(S)
    BY <1>1, <2>1, SubSeqProperties
  <2> QED
    BY <1>1, <2>2, <2>3
<1>4. RemoveAt(s, k) = front \o rest
  BY DEF RemoveAt
<1> HIDE DEF front, rest
<1>5. Len(front \o rest) = Len(s) - 1 /\ front \o rest \in Seq(S)
  BY <1>1, <1>2, <1>3, ConcatProperties
<1>6. \A i \in 1..(Len(s) - 1) :
         (front \o rest)[i] = IF i <= k - 1 THEN front[i] ELSE rest[i - (k - 1)]
  BY <1>1, <1>2, <1>3, ConcatProperties
<1>7. ASSUME NEW i \in 1..(Len(s) - 1)
      PROVE (front \o rest)[i] = IF i < k THEN s[i] ELSE s[i + 1]
  <2>0. (front \o rest)[i] = IF i <= k - 1 THEN front[i] ELSE rest[i - (k - 1)]
    BY <1>6, <1>7
  <2>1. CASE i < k
    <3>1. i \in 1..(k - 1) /\ i <= k - 1
      BY <1>1, <1>7, <2>1
    <3> QED
      BY <1>2, <2>0, <2>1, <3>1
  <2>2. CASE ~(i < k)
    <3>1. i - (k - 1) \in 1..(Len(s) - k) /\ (i - (k - 1)) + k = i + 1 /\ ~(i <= k - 1)
      BY <1>1, <1>7, <2>2
    <3>2. rest[i - (k - 1)] = s[(i - (k - 1)) + k]
      BY <1>3, <3>1
    <3> QED
      BY <2>0, <2>2, <3>1, <3>2
  <2> QED
    BY <2>1, <2>2
<1> QED
  BY <1>1, <1>4, <1>5, <1>7, LenProperties

\* What Append and Tail do to what is waiting.
LEMMA AppendIs ==
    ASSUME NEW S, NEW s \in Seq(S), NEW x \in S
    PROVE  /\ Append(s, x) \in Seq(S) /\ Append(s, x) # <<>>
           /\ DOMAIN Append(s, x) = DOMAIN s \cup {Len(s) + 1}
           /\ \A i \in DOMAIN s : Append(s, x)[i] = s[i]
           /\ Append(s, x)[Len(s) + 1] = x
           /\ Len(s) + 1 \notin DOMAIN s
           /\ Range(Append(s, x)) = Range(s) \cup {x}
<1>1. /\ Append(s, x) \in Seq(S) /\ Append(s, x) # <<>>
      /\ DOMAIN Append(s, x) = DOMAIN s \cup {Len(s) + 1}
      /\ \A i \in DOMAIN s : Append(s, x)[i] = s[i]
      /\ Append(s, x)[Len(s) + 1] = x
      /\ Len(s) + 1 \notin DOMAIN s
  BY AppendProperties, LenProperties
<1> QED
  BY <1>1 DEF Range

LEMMA TailIs ==
    ASSUME NEW S, NEW s \in Seq(S), s # <<>>
    PROVE  /\ Head(s) \in S /\ Head(s) = s[1] /\ 1 \in DOMAIN s
           /\ Tail(s) \in Seq(S)
           /\ \A i \in DOMAIN Tail(s) : i \in Nat \ {0} /\ i + 1 \in DOMAIN s /\ Tail(s)[i] = s[i + 1]
           /\ \A i \in DOMAIN s : i \in Nat \ {0} /\ (i > 1 => i - 1 \in DOMAIN Tail(s))
           /\ Range(s) = {Head(s)} \cup Range(Tail(s))
<1>1. /\ Len(s) \in Nat \ {0} /\ DOMAIN s = 1..Len(s)
      /\ Head(s) \in S /\ Head(s) = s[1]
      /\ Tail(s) \in Seq(S) /\ Len(Tail(s)) = Len(s) - 1
      /\ \A i \in 1..Len(Tail(s)) : Tail(s)[i] = s[i + 1]
  BY HeadTailProperties, LenProperties, EmptySeq
<1>2. DOMAIN Tail(s) = 1..(Len(s) - 1)
  BY <1>1, LenProperties
<1>3. \A i \in DOMAIN s : i = 1 \/ (i - 1 \in DOMAIN Tail(s) /\ Tail(s)[i - 1] = s[i])
  BY <1>1, <1>2
<1>4. \A i \in DOMAIN Tail(s) : i + 1 \in DOMAIN s /\ Tail(s)[i] = s[i + 1]
  BY <1>1, <1>2
<1>5. 1 \in DOMAIN s
  BY <1>1
<1>6. Range(s) = {Head(s)} \cup Range(Tail(s))
  <2>1. ASSUME NEW x \in Range(s) PROVE x \in {Head(s)} \cup Range(Tail(s))
    <3>1. PICK i \in DOMAIN s : x = s[i]
      BY <2>1 DEF Range
    <3> QED
      BY <1>1, <1>3, <3>1 DEF Range
  <2>2. ASSUME NEW x \in Range(Tail(s)) PROVE x \in Range(s)
    BY <1>4, <2>2 DEF Range
  <2>3. Head(s) \in Range(s)
    BY <1>1, <1>5 DEF Range
  <2> QED
    BY <2>1, <2>2, <2>3
<1> QED
  BY <1>1, <1>2, <1>4, <1>6

LEMMA TakeIs ==
    ASSUME NEW messages \in Seq(Messages), NEW m,
           \A i, j \in DOMAIN messages : action[messages[i]] = action[messages[j]] => i = j
    PROVE  LET left == Take(messages, m) IN
           /\ left \in Seq(Messages)
           /\ \A i \in DOMAIN left : left[i] \in Range(messages)
           /\ \A i, j \in DOMAIN left : action[left[i]] = action[left[j]] => i = j
           /\ Range(left) = Range(messages) \ {m}
<1> DEFINE same == {i \in DOMAIN messages : messages[i] = m}
           left == Take(messages, m)
<1>1. /\ left \in Seq(Messages)
      /\ \A i \in DOMAIN left : left[i] \in Range(messages)
      /\ \A i, j \in DOMAIN left : action[left[i]] = action[left[j]] => i = j
      /\ Range(left) = Range(messages) \ {m}
  <2>1. CASE same = {}
    <3>1. left = messages
      BY <2>1 DEF Take
    <3>2. m \notin Range(messages)
      BY <2>1 DEF Range
    <3> QED
      BY <3>1, <3>2 DEF Range
  <2>2. CASE same # {}
    <3> DEFINE k == CHOOSE i \in same : TRUE
    <3>1. k \in DOMAIN messages /\ messages[k] = m
      BY <2>2
    <3>2. left = RemoveAt(messages, k)
      BY <2>2 DEF Take
    <3> HIDE DEF k, left
    <3>3. /\ left \in Seq(Messages) /\ Len(left) = Len(messages) - 1
          /\ \A i \in DOMAIN left : left[i] = IF i < k THEN messages[i] ELSE messages[i + 1]
      BY <3>1, <3>2, RemoveAtIs
    <3>4. /\ DOMAIN messages = 1..Len(messages) /\ DOMAIN left = 1..(Len(messages) - 1)
          /\ Len(messages) \in Nat /\ k \in 1..Len(messages)
      BY <3>1, <3>3, LenProperties
    <3> DEFINE From(i) == IF i < k THEN i ELSE i + 1
    <3>5. \A i \in DOMAIN left : /\ From(i) \in DOMAIN messages \ {k}
                                 /\ left[i] = messages[From(i)]
      BY <3>3, <3>4
    <3>6. \A i, j \in DOMAIN left : From(i) = From(j) => i = j
      BY <3>4
    <3>7. ASSUME NEW p \in DOMAIN messages, p # k
          PROVE  \E i \in DOMAIN left : From(i) = p
      <4>1. CASE p < k
        BY <3>4, <4>1
      <4>2. CASE ~(p < k)
        <5>1. p - 1 \in DOMAIN left /\ ~(p - 1 < k) /\ (p - 1) + 1 = p
          BY <3>4, <3>7, <4>2
        <5> QED
          BY <5>1
      <4> QED
        BY <4>1, <4>2
    <3> HIDE DEF From
    <3>8. \A i, j \in DOMAIN left : action[left[i]] = action[left[j]] => i = j
      BY <3>5, <3>6
    <3>9. ASSUME NEW x \in Range(left) PROVE x \in Range(messages) \ {m}
      <4>1. PICK i \in DOMAIN left : x = left[i]
        BY <3>9 DEF Range
      <4>2. From(i) \in DOMAIN messages /\ From(i) # k /\ x = messages[From(i)]
        BY <3>5, <4>1
      <4>3. x # m
        BY <3>1, <4>2
      <4> QED
        BY <4>2, <4>3 DEF Range
    <3>10. ASSUME NEW x \in Range(messages), x # m PROVE x \in Range(left)
      <4>1. PICK p \in DOMAIN messages : x = messages[p]
        BY <3>10 DEF Range
      <4>2. p # k
        BY <3>1, <3>10, <4>1
      <4>3. PICK i \in DOMAIN left : From(i) = p
        BY <3>7, <4>2
      <4> QED
        BY <3>5, <4>1, <4>3 DEF Range
    <3>11. \A i \in DOMAIN left : left[i] \in Range(messages)
      BY <3>5 DEF Range
    <3> QED
      BY <3>3, <3>8, <3>9, <3>10, <3>11
  <2> QED
    BY <2>1, <2>2
<1> QED
  BY <1>1

LEMMA PutIs ==
    ASSUME NEW messages \in Seq(Messages), NEW m \in Messages,
           \A i, j \in DOMAIN messages : action'[messages[i]] = action'[messages[j]] => i = j
    PROVE  LET now == Put(messages, m) IN
           /\ now \in Seq(Messages) /\ now # <<>>
           /\ \A i \in DOMAIN now : now[i] = m \/ now[i] \in Range(messages)
           /\ \A i, j \in DOMAIN now : action'[now[i]] = action'[now[j]] => i = j
           /\ m \in Range(now)
           /\ \A x \in Range(messages) : x \in Range(now) \/ action'[x] = action'[m]
<1> DEFINE same == {i \in DOMAIN messages : action'[messages[i]] = action'[m]}
           now == Put(messages, m)
<1>1. /\ now \in Seq(Messages) /\ now # <<>>
      /\ \A i \in DOMAIN now : now[i] = m \/ now[i] \in Range(messages)
      /\ \A i, j \in DOMAIN now : action'[now[i]] = action'[now[j]] => i = j
      /\ m \in Range(now)
      /\ \A x \in Range(messages) : x \in Range(now) \/ action'[x] = action'[m]
  <2>1. CASE same = {}
    <3>1. now = Append(messages, m)
      BY <2>1 DEF Put
    <3> HIDE DEF now
    <3>2. /\ now \in Seq(Messages) /\ now # <<>>
          /\ DOMAIN now = DOMAIN messages \cup {Len(messages) + 1}
          /\ \A i \in DOMAIN messages : now[i] = messages[i]
          /\ now[Len(messages) + 1] = m
          /\ Range(now) = Range(messages) \cup {m}
      BY <3>1, AppendIs
    <3>3. \A i \in DOMAIN messages : action'[messages[i]] # action'[m]
      BY <2>1
    <3>4. \A i, j \in DOMAIN now : action'[now[i]] = action'[now[j]] => i = j
      BY <3>2, <3>3
    <3>5. \A i \in DOMAIN now : now[i] = m \/ now[i] \in Range(messages)
      BY <3>2 DEF Range
    <3> QED
      BY <3>2, <3>4, <3>5
  <2>2. CASE same # {}
    <3>1. now = [i \in DOMAIN messages |-> IF i \in same THEN m ELSE messages[i]]
      BY <2>2 DEF Put
    <3>2. PICK k \in DOMAIN messages : action'[messages[k]] = action'[m]
      BY <2>2
    <3> HIDE DEF now
    <3>3. \A i \in DOMAIN messages : i = k \/ action'[messages[i]] # action'[m]
      BY <3>2
    <3>4. /\ DOMAIN now = DOMAIN messages /\ now[k] = m
          /\ \A i \in DOMAIN messages : i # k => now[i] = messages[i]
      BY <3>1, <3>2, <3>3
    <3>5. now \in Seq(Messages) /\ now # <<>>
      <4>1. DOMAIN messages = 1..Len(messages) /\ Len(messages) \in Nat
        BY LenProperties
      <4>2. \A i \in 1..Len(messages) : now[i] \in Messages
        BY <3>4, <4>1, ElementOfSeq
      <4>3. now = [i \in 1..Len(messages) |-> now[i]]
        BY <3>1, <4>1
      <4>4. now \in Seq(Messages)
        BY <4>1, <4>2, <4>3, IsASeq
      <4> QED
        BY <3>4, <4>4, EmptySeq
    <3>6. \A i, j \in DOMAIN now : action'[now[i]] = action'[now[j]] => i = j
      BY <3>2, <3>3, <3>4
    <3>7. \A i \in DOMAIN now : now[i] = m \/ now[i] \in Range(messages)
      BY <3>4 DEF Range
    <3>8. m \in Range(now)
      BY <3>4 DEF Range
    <3>9. ASSUME NEW x \in Range(messages) PROVE x \in Range(now) \/ action'[x] = action'[m]
      <4>1. PICK i \in DOMAIN messages : x = messages[i]
        BY <3>9 DEF Range
      <4>2. CASE i = k
        BY <3>2, <4>1, <4>2
      <4>3. CASE i # k
        BY <3>4, <4>1, <4>3 DEF Range
      <4> QED
        BY <4>2, <4>3
    <3> QED
      BY <3>5, <3>6, <3>7, <3>8, <3>9
  <2> QED
    BY <2>1, <2>2
<1> QED
  BY <1>1

-----------------------------------------------------------------------------
(* Types, and what each sender holds *)

Sends == [by : Batches, message : Messages]

LEMMA Names ==
    /\ Consumer \in Batches /\ Admin \in Batches /\ Consumer # Admin
    /\ Messages \subseteq Batches
    /\ \A m \in Messages : m # Consumer /\ m # Admin /\ m # NoTimer /\ m \in Nat
    /\ Off \notin Ages /\ 0 \in Ages /\ Interval \in Ages
BY BoundsAssumption DEF Consumer, Admin, Batches, Messages, NoTimer, Off, Ages

LEMMA InHandIs ==
    ASSUME BufferInv, NEW b \in Batches, batch[b].at \in Handed
    PROVE  InHand(b) \in Messages
<1> USE DEF BufferInv, TypeOK, Senders
<1>1. CASE Direct(b)
  <2>1. received > 0 /\ received \in 0..MaxMessages
    BY <1>1 DEF Direct
  <2> QED
    BY <1>1, <2>1, BoundsAssumption DEF InHand, Messages
<1>2. CASE ~Direct(b)
  <2>1. batch[b].left \in Seq(Messages) /\ batch[b].left # <<>>
    BY <1>2
  <2>2. Head(batch[b].left) \in Messages
    BY <2>1, TailIs
  <2> QED
    BY <1>2, <2>2 DEF InHand
<1> QED
  BY <1>1, <1>2

\* What waits for the thread is one send of each sender, when one hands over
\* its message, the thread takes the first, or nothing of the kind happens.
LEMMA OutboxGrows ==
    ASSUME BufferInv, NEW b \in Batches, b # Admin, NEW x \in Messages,
           batch[b].at # "sending",
           outbox' = Append(outbox, [by |-> b, message |-> x]),
           batch'[b].at = "sending", InHand(b)' = x,
           \A c \in Batches : c # b /\ batch[c].at = "sending" =>
               batch'[c].at = "sending" /\ (c # Admin => InHand(c)' = InHand(c))
    PROVE  Thread' /\ outbox' \in Seq(Sends)
<1> DEFINE send == [by |-> b, message |-> x]
<1>1. outbox \in Seq(Sends) /\ send \in Sends /\ send.by = b /\ send.message = x
  BY DEF BufferInv, TypeOK, Sends
<1>2. /\ outbox' \in Seq(Sends)
      /\ DOMAIN outbox' = DOMAIN outbox \cup {Len(outbox) + 1}
      /\ \A i \in DOMAIN outbox : outbox'[i] = outbox[i]
      /\ outbox'[Len(outbox) + 1] = send
  BY <1>1, AppendIs
<1>3. \A i \in DOMAIN outbox : \E c \in Batches \ {Admin} :
         outbox[i].by = c /\ batch[c].at = "sending" /\ outbox[i].message = InHand(c)
  BY DEF BufferInv, Thread
<1>4. \A i \in DOMAIN outbox : outbox[i].by # b
  BY <1>3
<1>5. ASSUME NEW i \in DOMAIN outbox'
      PROVE  \E c \in Batches \ {Admin} :
                /\ outbox'[i].by = c /\ batch'[c].at = "sending"
                /\ outbox'[i].message = InHand(c)'
  <2>1. CASE i \in DOMAIN outbox
    <3>1. PICK c \in Batches \ {Admin} :
             outbox[i].by = c /\ batch[c].at = "sending" /\ outbox[i].message = InHand(c)
      BY <1>3, <2>1
    <3>2. outbox'[i] = outbox[i] /\ c # b
      BY <1>2, <1>4, <2>1, <3>1
    <3>3. batch'[c].at = "sending" /\ InHand(c)' = InHand(c)
      BY <3>1, <3>2
    <3> QED
      BY <3>1, <3>2, <3>3
  <2>2. CASE i = Len(outbox) + 1
    BY <1>1, <1>2, <2>2
  <2> QED
    BY <1>2, <2>1, <2>2
<1>6. \A i, j \in DOMAIN outbox' : outbox'[i].by = outbox'[j].by => i = j
  BY <1>1, <1>2, <1>4 DEF BufferInv, Thread
<1>7. Thread'
  BY <1>5, <1>6 DEF Thread
<1> QED
  BY <1>2, <1>7

LEMMA OutboxKept ==
    ASSUME BufferInv, outbox' = outbox,
           \A c \in Batches : c # Admin /\ batch[c].at = "sending" =>
               batch'[c].at = "sending" /\ InHand(c)' = InHand(c)
    PROVE  Thread' /\ outbox' \in Seq(Sends)
<1>1. ASSUME NEW i \in DOMAIN outbox
      PROVE  \E c \in Batches \ {Admin} :
                /\ outbox[i].by = c /\ batch'[c].at = "sending"
                /\ outbox[i].message = InHand(c)'
  <2>1. PICK c \in Batches \ {Admin} :
           outbox[i].by = c /\ batch[c].at = "sending" /\ outbox[i].message = InHand(c)
    BY DEF BufferInv, Thread
  <2>2. batch'[c].at = "sending" /\ InHand(c)' = InHand(c)
    BY <2>1
  <2> QED
    BY <2>1, <2>2
<1>3. Thread'
  BY <1>1 DEF Thread, BufferInv
<1> QED
  BY <1>3 DEF BufferInv, TypeOK, Sends

LEMMA OutboxShrinks ==
    ASSUME BufferInv, outbox # <<>>, outbox' = Tail(outbox),
           \A c \in Batches : c # Admin /\ c # Head(outbox).by /\ batch[c].at = "sending" =>
               batch'[c].at = "sending" /\ InHand(c)' = InHand(c)
    PROVE  Thread' /\ outbox' \in Seq(Sends)
<1>1. outbox \in Seq(Sends)
  BY DEF BufferInv, TypeOK, Sends
<1>2. /\ outbox' \in Seq(Sends) /\ Head(outbox) = outbox[1] /\ 1 \in DOMAIN outbox
      /\ \A i \in DOMAIN outbox' : i \in Nat \ {0} /\ i + 1 \in DOMAIN outbox
                                   /\ outbox'[i] = outbox[i + 1]
  BY <1>1, TailIs
<1>3. ASSUME NEW i \in DOMAIN outbox'
      PROVE  \E c \in Batches \ {Admin} :
                /\ outbox'[i].by = c /\ batch'[c].at = "sending"
                /\ outbox'[i].message = InHand(c)'
  <2>1. i + 1 # 1 /\ i + 1 \in DOMAIN outbox /\ outbox'[i] = outbox[i + 1]
    BY <1>2
  <2>2. PICK c \in Batches \ {Admin} : /\ outbox[i + 1].by = c /\ batch[c].at = "sending"
                                       /\ outbox[i + 1].message = InHand(c)
    BY <2>1 DEF BufferInv, Thread
  <2>3. c # Head(outbox).by
    BY <1>2, <2>1, <2>2 DEF BufferInv, Thread
  <2>4. batch'[c].at = "sending" /\ InHand(c)' = InHand(c)
    BY <2>2, <2>3
  <2> QED
    BY <2>1, <2>2, <2>4
<1>4. \A i, j \in DOMAIN outbox' : outbox'[i].by = outbox'[j].by => i = j
  <2>1. \A i, j \in DOMAIN outbox : outbox[i].by = outbox[j].by => i = j
    BY DEF BufferInv, Thread
  <2>2. \A i, j \in DOMAIN outbox' : outbox'[i].by = outbox'[j].by => i + 1 = j + 1
    BY <1>2, <2>1
  <2> QED
    BY <1>2, <2>2
<1>5. Thread'
  BY <1>3, <1>4 DEF Thread
<1> QED
  BY <1>2, <1>5

\* What a message finds and brings.
Arrived ==
    /\ received \in Nat /\ received' = received + 1
    /\ received + 1 \in Messages /\ received' \in 0..MaxMessages
    /\ action' \in [Messages -> Actions]
    /\ \A m \in Messages : m <= received => action'[m] = action[m]
    /\ \A i \in DOMAIN pending : pending[i] \in Messages /\ pending[i] <= received
    /\ \A i, j \in DOMAIN pending : action'[pending[i]] = action'[pending[j]] => i = j
    /\ \A x \in {received + 1} \cup Range(pending) : x <= received'
    /\ consumer = "idle" /\ batch[Consumer].at = "off" /\ listed
    /\ retrying' = FALSE

LEMMA ArrivalIs ==
    ASSUME BufferInv, Arrives PROVE Arrived
<1> USE DEF BufferInv, TypeOK, Senders, Arrives
<1>1. received \in 0..MaxMessages /\ received < MaxMessages /\ received' = received + 1
  OBVIOUS
<1>2. received + 1 \in Messages /\ received' \in 0..MaxMessages /\ received \in Nat
  BY <1>1, BoundsAssumption DEF Messages
<1>3. PICK a \in Actions : action' = [action EXCEPT ![received + 1] = a]
  OBVIOUS
<1>4. action' \in [Messages -> Actions]
  BY <1>3
<1>5. \A m \in Messages : m <= received => action'[m] = action[m]
  BY <1>1, <1>2, <1>3 DEF Messages
<1>6. \A i \in DOMAIN pending : pending[i] \in Messages /\ pending[i] <= received
  BY ElementOfSeq, LenProperties
<1>7. \A i, j \in DOMAIN pending : action'[pending[i]] = action'[pending[j]] => i = j
  BY <1>5, <1>6
<1>8. \A x \in {received + 1} \cup Range(pending) : x <= received + 1
  BY <1>1, <1>6 DEF Range, Messages
<1> QED
  BY <1>1, <1>2, <1>4, <1>5, <1>6, <1>7, <1>8 DEF Arrived

Batching == [at : {"off", "task", "sending", "sent", "failed"}, left : Seq(Messages), ago : Ages]

\* A sender begins a batch with one message in hand, the others go on.
LEMMA BatchIs ==
    ASSUME BufferInv, NEW b \in Batches, NEW messages \in Seq(Messages),
           NEW place \in {"off", "task", "sending", "sent", "failed"},
           batch' = [batch EXCEPT ![b] = [at |-> place, left |-> messages, ago |-> 0]]
    PROVE  /\ batch' \in [Batches -> Batching]
           /\ batch'[b].at = place /\ batch'[b].left = messages
           /\ \A c \in Batches : c # b => batch'[c] = batch[c]
BY Names DEF BufferInv, TypeOK, Batching

LEMMA ForwardsKeepsInv ==
    ASSUME BufferInv, ReceiveForwards PROVE BufferInv'
<1>0. /\ Arrived /\ Forward(received + 1, pending, Cancelled) /\ interval = 0
      /\ UNCHANGED <<back, listed, working, interval, pending, age, mishaps, sent, forgone,
                     lowered, stranded>>
  BY ArrivalIs DEF ReceiveForwards
<1>t. /\ timer' \in [Messages -> Ages \cup {Off}] /\ handle' = NoTimer
      /\ \A m \in Messages : timer'[m] # Off => timer[m] # Off
  BY <1>0 DEF BufferInv, TypeOK, Cancelled, Forward, Begin, HandleAfter
<1>s. ASSUME \A c \in Batches : c # Consumer => batch'[c] = batch[c]
      PROVE  Started'
  BY <1>0, <1>s, <1>t, Names DEF BufferInv, Started, Arrived
<1>1. CASE pending = <<>>
  <2>1. /\ consumer' = "direct"
        /\ batch' = [batch EXCEPT ![Consumer] = [at |-> "sending", left |-> <<>>, ago |-> 0]]
        /\ outbox' = Append(outbox, [by |-> Consumer, message |-> received + 1])
    BY <1>0, <1>1 DEF Forward, SendDirect, NoBatch
  <2>2. /\ batch' \in [Batches -> Batching]
        /\ batch'[Consumer].at = "sending" /\ batch'[Consumer].left = <<>>
        /\ \A c \in Batches : c # Consumer => batch'[c] = batch[c]
    BY <2>1, BatchIs, Names, EmptySeq
  <2>3. InHand(Consumer)' = received + 1
    BY <1>0, <2>1 DEF InHand, Direct, Arrived
  <2>4. \A c \in Batches : c # Consumer => InHand(c)' = InHand(c)
    BY <2>2 DEF InHand, Direct
  <2>5. Thread' /\ outbox' \in Seq(Sends)
    BY <1>0, <2>1, <2>2, <2>3, <2>4, Names, OutboxGrows DEF Arrived
  <2>6. TypeOK'
    BY <1>0, <1>1, <1>t, <2>1, <2>2, <2>5 DEF BufferInv, TypeOK, Sends, Batching, Arrived
  <2>7. Senders'
    BY <1>0, <1>1, <2>1, <2>2, Names DEF BufferInv, Senders, Direct, Handed, Arrived
  <2> QED
    BY <1>s, <2>2, <2>5, <2>6, <2>7 DEF BufferInv
<1>2. CASE pending # <<>>
  <2>0. pending \in Seq(Messages)
    BY DEF BufferInv, TypeOK
  <2>1. /\ consumer' = "before"
        /\ batch' = [batch EXCEPT ![Consumer] = [at |-> "sending", left |-> pending, ago |-> 0]]
        /\ outbox' = Append(outbox, [by |-> Consumer, message |-> Head(pending)])
    BY <1>0, <1>2 DEF Forward, Begin
  <2>2. /\ batch' \in [Batches -> Batching]
        /\ batch'[Consumer].at = "sending" /\ batch'[Consumer].left = pending
        /\ \A c \in Batches : c # Consumer => batch'[c] = batch[c]
    BY <2>0, <2>1, BatchIs, Names
  <2>3. InHand(Consumer)' = Head(pending)
    BY <1>0, <2>1, <2>2 DEF InHand, Direct
  <2>4. \A c \in Batches : c # Consumer => InHand(c)' = InHand(c)
    BY <2>2 DEF InHand, Direct
  <2>5. Head(pending) \in Messages
    BY <1>2, <2>0, TailIs
  <2>6. Thread' /\ outbox' \in Seq(Sends)
    BY <1>0, <2>1, <2>2, <2>3, <2>4, <2>5, Names, OutboxGrows DEF Arrived
  <2>7. \A i, j \in DOMAIN pending' : action'[pending'[i]] = action'[pending'[j]] => i = j
    BY <1>0 DEF Arrived
  <2>8. TypeOK'
    BY <1>0, <1>t, <2>0, <2>1, <2>2, <2>6, <2>7 DEF BufferInv, TypeOK, Sends, Batching, Arrived
  <2>9. \A i \in DOMAIN pending' : pending'[i] <= received'
    BY <1>0 DEF Arrived, Range
  <2>10. Senders'
    BY <1>0, <1>2, <2>1, <2>2, <2>9, Names DEF BufferInv, Senders, Direct, Handed, Arrived
  <2> QED
    BY <1>s, <2>2, <2>6, <2>8, <2>10 DEF BufferInv
<1> QED
  BY <1>1, <1>2

LEMMA BufferedIs ==
    ASSUME BufferInv, Arrived, pending' = Put(pending, received + 1)
    PROVE  /\ pending' \in Seq(Messages) /\ pending' # <<>> /\ received' \in Range(pending')
           /\ \A i, j \in DOMAIN pending' : action'[pending'[i]] = action'[pending'[j]] => i = j
           /\ \A i \in DOMAIN pending' : pending'[i] <= received'
           /\ \A x \in Range(pending) : x \in Range(pending') \/ action'[x] = action'[received']
<1>1. pending \in Seq(Messages) /\ received' = received + 1
  BY DEF BufferInv, TypeOK, Arrived
<1>2. /\ pending' \in Seq(Messages) /\ pending' # <<>> /\ received' \in Range(pending')
      /\ \A i \in DOMAIN pending' : pending'[i] = received + 1 \/ pending'[i] \in Range(pending)
      /\ \A i, j \in DOMAIN pending' : action'[pending'[i]] = action'[pending'[j]] => i = j
      /\ \A x \in Range(pending) : x \in Range(pending') \/ action'[x] = action'[received']
  <2>1. /\ received + 1 \in Messages
        /\ \A i, j \in DOMAIN pending : action'[pending[i]] = action'[pending[j]] => i = j
    BY DEF Arrived
  <2> QED
    BY <1>1, <2>1, PutIs
<1>3. ASSUME NEW i \in DOMAIN pending' PROVE pending'[i] <= received'
  <2>1. \A x \in {received + 1} \cup Range(pending) : x <= received'
    BY DEF Arrived
  <2>2. pending'[i] \in {received + 1} \cup Range(pending)
    BY <1>2
  <2> QED
    BY <2>1, <2>2
<1> QED
  BY <1>2, <1>3

LEMMA FlushesKeepsInv ==
    ASSUME BufferInv, ReceiveFlushes PROVE BufferInv'
<1>0. /\ Arrived /\ pending' = Put(pending, received + 1) /\ Begin(Consumer, pending')
      /\ consumer' = "batch"
      /\ UNCHANGED <<back, listed, working, interval, age, timer, mishaps, sent, forgone,
                     lowered, stranded>>
  BY ArrivalIs DEF ReceiveFlushes
<1>1. /\ pending' \in Seq(Messages) /\ pending' # <<>>
      /\ \A i, j \in DOMAIN pending' : action'[pending'[i]] = action'[pending'[j]] => i = j
      /\ \A i \in DOMAIN pending' : pending'[i] <= received'
  BY <1>0, BufferedIs
<1>2. /\ handle' = NoTimer
      /\ batch' = [batch EXCEPT ![Consumer] = [at |-> "sending", left |-> pending', ago |-> 0]]
      /\ outbox' = Append(outbox, [by |-> Consumer, message |-> Head(pending')])
  BY <1>0 DEF Begin, HandleAfter
<1>3. /\ batch' \in [Batches -> Batching]
      /\ batch'[Consumer].at = "sending" /\ batch'[Consumer].left = pending'
      /\ \A c \in Batches : c # Consumer => batch'[c] = batch[c]
  BY <1>1, <1>2, BatchIs, Names
<1>4. InHand(Consumer)' = Head(pending')
  BY <1>0, <1>2, <1>3 DEF InHand, Direct
<1>5. \A c \in Batches : c # Consumer => InHand(c)' = InHand(c)
  BY <1>3 DEF InHand, Direct
<1>6. Head(pending') \in Messages
  BY <1>1, TailIs
<1>7. Thread' /\ outbox' \in Seq(Sends)
  BY <1>0, <1>2, <1>3, <1>4, <1>5, <1>6, Names, OutboxGrows DEF Arrived
<1>8. TypeOK'
  BY <1>0, <1>1, <1>2, <1>3, <1>7 DEF BufferInv, TypeOK, Sends, Batching, Arrived
<1>9. Senders'
  BY <1>0, <1>1, <1>2, <1>3, Names DEF BufferInv, Senders, Direct, Handed, Arrived
<1>10. Started'
  BY <1>0, <1>3, Names DEF BufferInv, Started, Arrived
<1> QED
  BY <1>7, <1>8, <1>9, <1>10 DEF BufferInv

LEMMA BuffersKeepsInv ==
    ASSUME BufferInv, ReceiveBuffers PROVE BufferInv'
<1>0. /\ Arrived /\ pending' = Put(pending, received + 1)
      /\ \/ handle' = received + 1 /\ timer' = [timer EXCEPT ![received + 1] = interval]
         \/ UNCHANGED <<handle, timer>>
      /\ UNCHANGED <<back, listed, working, interval, age, consumer, batch, outbox, pastVars>>
  BY ArrivalIs DEF ReceiveBuffers
<1>1. /\ pending' \in Seq(Messages)
      /\ \A i, j \in DOMAIN pending' : action'[pending'[i]] = action'[pending'[j]] => i = j
      /\ \A i \in DOMAIN pending' : pending'[i] <= received'
  BY <1>0, BufferedIs
<1>2. timer' \in [Messages -> Ages \cup {Off}] /\ handle' \in Messages \cup {NoTimer}
  <2>1. interval \in Ages /\ timer \in [Messages -> Ages \cup {Off}]
    BY Names DEF BufferInv, TypeOK
  <2> QED
    BY <1>0, <2>1 DEF BufferInv, TypeOK, Arrived
<1>3. \A c \in Batches : batch'[c] = batch[c] /\ (c # Consumer => InHand(c)' = InHand(c))
  BY <1>0 DEF InHand, Direct
<1>4. Thread' /\ outbox' \in Seq(Sends)
  <2>1. \A c \in Batches : batch[c].at = "sending" => c # Consumer
    BY <1>0 DEF Arrived
  <2> QED
    BY <1>0, <1>3, <2>1, OutboxKept
<1>5. TypeOK'
  BY <1>0, <1>1, <1>2 DEF BufferInv, TypeOK, pastVars, Arrived
<1>6. Senders'
  BY <1>0, <1>1, <1>3 DEF BufferInv, Senders, Direct, Handed, Arrived
<1>7. Started'
  BY <1>0, <1>3, Names DEF BufferInv, TypeOK, Started, Arrived
<1> QED
  BY <1>4, <1>5, <1>6, <1>7 DEF BufferInv

LEMMA TimerFiresKeepsInv ==
    ASSUME BufferInv, NEW m \in Messages, TimerFires(m) PROVE BufferInv'
<1>0. /\ timer[m] = 0 /\ timer' = [timer EXCEPT ![m] = Off]
      /\ batch' = [batch EXCEPT ![m] = [at |-> "task", left |-> <<>>, ago |-> 0]]
      /\ UNCHANGED <<back, sessionVars, consumerVars, outbox, pastVars>>
  <2>1. [NoBatch EXCEPT !.at = "task"] = [at |-> "task", left |-> <<>>, ago |-> 0]
    BY DEF NoBatch
  <2> QED
    BY <2>1 DEF TimerFires
<1>1. /\ batch' \in [Batches -> Batching]
      /\ batch'[m].at = "task" /\ batch'[m].left = <<>>
      /\ \A c \in Batches : c # m => batch'[c] = batch[c]
  BY <1>0, BatchIs, Names, EmptySeq
<1>2. m <= received /\ batch[m].at = "off"
  BY <1>0 DEF BufferInv, Started, Off
<1>3. Thread'
  <2>1. \A c \in Batches : c # m => InHand(c)' = InHand(c)
    BY <1>0, <1>1 DEF InHand, Direct, consumerVars
  <2> QED
    BY <1>0, <1>1, <1>2, <2>1, OutboxKept
<1>4. TypeOK'
  BY <1>0, <1>1, Names
  DEF BufferInv, TypeOK, Batching, sessionVars, consumerVars, pastVars
<1>5. Senders'
  BY <1>0, <1>1, Names DEF BufferInv, Senders, Direct, Handed, sessionVars, consumerVars
<1>6. Started'
  BY <1>0, <1>1, <1>2, Names DEF BufferInv, TypeOK, Started, consumerVars
<1> QED
  BY <1>3, <1>4, <1>5, <1>6 DEF BufferInv

LEMMA TaskBeginsKeepsInv ==
    ASSUME BufferInv, NEW m \in Messages, TaskBegins(m) PROVE BufferInv'
<1>0. /\ batch[m].at = "task" /\ pending' = pending /\ timer' = timer
      /\ UNCHANGED <<back, listed, working, interval, pending, age, consumerVars, timer,
                     mishaps, sent, forgone, lowered, stranded>>
  BY DEF TaskBegins
<1>h. handle' = NoTimer
  BY DEF TaskBegins, Begin, HandleAfter
<1>1. CASE pending = <<>>
  <2>1. /\ batch' = [batch EXCEPT ![m] = [at |-> "off", left |-> <<>>, ago |-> 0]]
        /\ outbox' = outbox
    BY <1>1 DEF TaskBegins, NoBatch
  <2>2. /\ batch' \in [Batches -> Batching]
        /\ batch'[m].at = "off" /\ batch'[m].left = <<>>
        /\ \A c \in Batches : c # m => batch'[c] = batch[c]
    BY <2>1, BatchIs, Names, EmptySeq
  <2>3. Thread'
    <3>1. \A c \in Batches : c # m => InHand(c)' = InHand(c)
      BY <1>0, <2>2 DEF InHand, Direct, consumerVars
    <3> QED
      BY <1>0, <2>1, <2>2, <3>1, OutboxKept
  <2>4. TypeOK'
    BY <1>0, <1>h, <2>1, <2>2, Names DEF BufferInv, TypeOK, Batching, consumerVars
  <2>5. Senders'
    BY <1>0, <2>2, Names DEF BufferInv, Senders, Direct, Handed, consumerVars
  <2>6. Started'
    BY <1>0, <2>2, Names DEF BufferInv, Started, consumerVars
  <2> QED
    BY <2>3, <2>4, <2>5, <2>6 DEF BufferInv
<1>2. CASE pending # <<>>
  <2>0. pending \in Seq(Messages)
    BY DEF BufferInv, TypeOK
  <2>1. /\ batch' = [batch EXCEPT ![m] = [at |-> "sending", left |-> pending, ago |-> 0]]
        /\ outbox' = Append(outbox, [by |-> m, message |-> Head(pending)])
    BY <1>2 DEF TaskBegins, Begin
  <2>2. /\ batch' \in [Batches -> Batching]
        /\ batch'[m].at = "sending" /\ batch'[m].left = pending
        /\ \A c \in Batches : c # m => batch'[c] = batch[c]
    BY <2>0, <2>1, BatchIs, Names
  <2>3. InHand(m)' = Head(pending)
    BY <1>0, <2>2, Names DEF InHand, Direct
  <2>4. \A c \in Batches : c # m => InHand(c)' = InHand(c)
    BY <1>0, <2>2 DEF InHand, Direct, consumerVars
  <2>5. Head(pending) \in Messages
    BY <1>2, <2>0, TailIs
  <2>6. Thread' /\ outbox' \in Seq(Sends)
    BY <1>0, <2>1, <2>2, <2>3, <2>4, <2>5, Names, OutboxGrows
  <2>7. TypeOK'
    BY <1>0, <1>h, <2>2, <2>6, Names DEF BufferInv, TypeOK, Batching, Sends, consumerVars
  <2>8. Senders'
    BY <1>0, <1>2, <2>2, Names DEF BufferInv, Senders, Direct, Handed, consumerVars
  <2>9. Started'
    BY <1>0, <2>2, Names DEF BufferInv, Started, consumerVars
  <2> QED
    BY <2>6, <2>7, <2>8, <2>9 DEF BufferInv
<1> QED
  BY <1>1, <1>2

\* A sender's place changes, and nothing else about its batch.
LEMMA PlaceIs ==
    ASSUME BufferInv, NEW b \in Batches,
           NEW place \in {"off", "task", "sending", "sent", "failed"},
           batch' = [batch EXCEPT ![b].at = place]
    PROVE  /\ batch' \in [Batches -> Batching]
           /\ batch'[b].at = place /\ batch'[b].left = batch[b].left
           /\ \A c \in Batches : c # b => batch'[c] = batch[c]
BY DEF BufferInv, TypeOK, Batching

LEMMA ThreadSendsKeepsInv ==
    ASSUME BufferInv, ThreadSends PROVE BufferInv'
<1>0. /\ outbox # <<>> /\ outbox' = Tail(outbox) /\ back' = Append(back, Head(outbox).by)
      /\ batch' = [batch EXCEPT ![Head(outbox).by].at = IF working THEN "sent" ELSE "failed"]
      /\ sent' = IF working THEN Append(sent, Head(outbox).message) ELSE sent
      /\ UNCHANGED <<sessionVars, consumerVars, timer, mishaps, forgone, lowered, stranded>>
  BY DEF ThreadSends
<1>1. Head(outbox) \in Sends /\ Head(outbox) = outbox[1] /\ 1 \in DOMAIN outbox
  BY <1>0, TailIs DEF BufferInv, TypeOK, Sends
<1>2. PICK b \in Batches \ {Admin} : /\ b = Head(outbox).by /\ batch[b].at = "sending"
                                     /\ Head(outbox).message = InHand(b)
  BY <1>1 DEF BufferInv, Thread
<1>3. PICK place \in {"sent", "failed"} : batch' = [batch EXCEPT ![b].at = place]
  BY <1>0, <1>2
<1>4. /\ batch' \in [Batches -> Batching]
      /\ batch'[b].at \in {"sent", "failed"} /\ batch'[b].left = batch[b].left
      /\ \A c \in Batches : c # b => batch'[c] = batch[c]
  BY <1>2, <1>3, PlaceIs
<1>5. Thread' /\ outbox' \in Seq(Sends)
  <2>1. \A c \in Batches : c # b => InHand(c)' = InHand(c)
    BY <1>0, <1>4 DEF InHand, Direct, consumerVars
  <2> QED
    BY <1>0, <1>2, <1>4, <2>1, OutboxShrinks
<1>6. sent' \in Seq(Messages) /\ back' \in Seq(Batches)
  <2>1. Head(outbox).message \in Messages /\ Head(outbox).by \in Batches
    BY <1>1 DEF Sends
  <2> QED
    BY <1>0, <2>1, AppendIs DEF BufferInv, TypeOK
<1>7. TypeOK'
  BY <1>0, <1>4, <1>5, <1>6
  DEF BufferInv, TypeOK, Batching, Sends, sessionVars, consumerVars
<1>8. Senders'
  BY <1>0, <1>2, <1>4, Names DEF BufferInv, Senders, Direct, Handed, sessionVars, consumerVars
<1>9. Started'
  BY <1>0, <1>2, <1>4, Names DEF BufferInv, Started, consumerVars
<1> QED
  BY <1>5, <1>7, <1>8, <1>9 DEF BufferInv

\* A sender whose send is over has a message of its batch to take out, and
\* others behind it or not.
LEMMA ResumedIs ==
    ASSUME BufferInv, NEW b \in Batches, Resumes(b), batch[b].at = "sent", ~Direct(b)
    PROVE  /\ back' \in Seq(Batches) /\ b # Admin
           /\ batch[b].left \in Seq(Messages) /\ batch[b].left # <<>>
           /\ Tail(batch[b].left) \in Seq(Messages)
           /\ LET left == Take(pending, Head(batch[b].left)) IN
              /\ left \in Seq(Messages)
              /\ \A i \in DOMAIN left : left[i] <= received
              /\ \A i, j \in DOMAIN left : action[left[i]] = action[left[j]] => i = j
              /\ Range(left) = Range(pending) \ {InHand(b)}
<1>1. back' \in Seq(Batches)
  BY TailIs DEF BufferInv, TypeOK, Resumes
<1>2. b # Admin /\ batch[b].left \in Seq(Messages) /\ batch[b].left # <<>>
  BY DEF BufferInv, TypeOK, Senders, Handed
<1>3. Tail(batch[b].left) \in Seq(Messages)
  BY <1>2, TailIs
<1> DEFINE left == Take(pending, Head(batch[b].left))
<1>4. /\ left \in Seq(Messages)
      /\ \A i \in DOMAIN left : left[i] \in Range(pending)
      /\ \A i, j \in DOMAIN left : action[left[i]] = action[left[j]] => i = j
      /\ Range(left) = Range(pending) \ {Head(batch[b].left)}
  BY TakeIs DEF BufferInv, TypeOK
<1>5. \A i \in DOMAIN left : left[i] <= received
  <2> HIDE DEF left
  <2> QED
    BY <1>4 DEF BufferInv, Senders, Range
<1>6. InHand(b) = Head(batch[b].left)
  BY DEF InHand
<1> QED
  BY <1>1, <1>2, <1>3, <1>4, <1>5, <1>6

LEMMA GoesOnKeepsInv ==
    ASSUME BufferInv, NEW b \in Batches, BatchGoesOn(b) PROVE BufferInv'
<1> DEFINE left == Tail(batch[b].left)
<1>0. /\ Resumes(b) /\ batch[b].at = "sent" /\ ~Direct(b)
      /\ pending' = Take(pending, Head(batch[b].left))
      /\ UNCHANGED <<listed, working, interval, handle, received, action, retrying, timer, pastVars>>
  BY DEF BatchGoesOn, Direct
<1>1. /\ back' \in Seq(Batches) /\ b # Admin
      /\ left \in Seq(Messages)
      /\ pending' \in Seq(Messages)
      /\ \A i \in DOMAIN pending' : pending'[i] <= received
      /\ \A i, j \in DOMAIN pending' : action[pending'[i]] = action[pending'[j]] => i = j
  BY <1>0, ResumedIs
<1>2. CASE left # <<>>
  <2>1. /\ batch' = [batch EXCEPT ![b].at = "sending", ![b].left = left]
        /\ outbox' = Append(outbox, [by |-> b, message |-> Head(left)])
        /\ UNCHANGED <<age, consumer>>
    BY <1>2 DEF BatchGoesOn
  <2> HIDE DEF left
  <2>2. /\ batch' \in [Batches -> Batching]
        /\ batch'[b].at = "sending" /\ batch'[b].left = left
        /\ \A c \in Batches : c # b => batch'[c] = batch[c]
    <3>1. batch \in [Batches -> Batching]
      BY DEF BufferInv, TypeOK, Batching
    <3> QED
      BY <1>1, <2>1, <3>1 DEF Batching
  <2>3. InHand(b)' = Head(left)
    BY <1>0, <2>1, <2>2 DEF InHand, Direct
  <2>4. \A c \in Batches : c # b => InHand(c)' = InHand(c)
    BY <1>0, <2>1, <2>2 DEF InHand, Direct
  <2>5. Head(left) \in Messages
    BY <1>1, <1>2, TailIs
  <2>6. Thread' /\ outbox' \in Seq(Sends)
    BY <1>0, <1>1, <2>1, <2>2, <2>3, <2>4, <2>5, OutboxGrows
  <2>7. TypeOK'
    BY <1>0, <1>1, <2>1, <2>2, <2>6 DEF BufferInv, TypeOK, Batching, Sends, pastVars
  <2>8. Senders'
    BY <1>0, <1>1, <1>2, <2>1, <2>2, Names DEF BufferInv, Senders, Direct, Handed
  <2>9. Started'
    BY <1>0, <2>2, Names DEF BufferInv, Started
  <2> QED
    BY <2>6, <2>7, <2>8, <2>9 DEF BufferInv
<1>3. CASE left = <<>> /\ b = Consumer /\ consumer = "before"
  <2>1. /\ age' = batch[b].ago
        /\ batch' = [batch EXCEPT ![b] = [at |-> "sending", left |-> <<>>, ago |-> 0]]
        /\ consumer' = "direct"
        /\ outbox' = Append(outbox, [by |-> Consumer, message |-> received])
    BY <1>3 DEF BatchGoesOn, SendDirect, NoBatch
  <2>2. /\ batch' \in [Batches -> Batching]
        /\ batch'[b].at = "sending" /\ batch'[b].left = <<>>
        /\ \A c \in Batches : c # b => batch'[c] = batch[c]
    BY <2>1, BatchIs, EmptySeq
  <2>3. InHand(b)' = received
    BY <1>0, <1>3, <2>1 DEF InHand, Direct
  <2>4. \A c \in Batches : c # b => InHand(c)' = InHand(c)
    BY <1>3, <2>2 DEF InHand, Direct
  <2>5. received \in Messages
    BY <1>3, BoundsAssumption DEF BufferInv, Senders, TypeOK, Messages
  <2>6. Thread' /\ outbox' \in Seq(Sends)
    BY <1>0, <1>1, <1>3, <2>1, <2>2, <2>3, <2>4, <2>5, OutboxGrows
  <2>7. age' \in Ages
    BY <2>1 DEF BufferInv, TypeOK
  <2>8. TypeOK'
    BY <1>0, <1>1, <2>1, <2>2, <2>6, <2>7 DEF BufferInv, TypeOK, Batching, Sends, pastVars
  <2>9. Senders'
    BY <1>0, <1>1, <1>3, <2>1, <2>2, <2>5, Names DEF BufferInv, Senders, Direct, Handed
  <2>10. Started'
    BY <1>0, <2>2, Names DEF BufferInv, Started
  <2> QED
    BY <2>6, <2>8, <2>9, <2>10 DEF BufferInv
<1>4. CASE left = <<>> /\ ~(b = Consumer /\ consumer = "before")
  <2>1. /\ age' = batch[b].ago
        /\ batch' = [batch EXCEPT ![b] = [at |-> "off", left |-> <<>>, ago |-> 0]]
        /\ consumer' = (IF b = Consumer THEN "idle" ELSE consumer)
        /\ outbox' = outbox
    BY <1>4 DEF BatchGoesOn, NoBatch
  <2>2. /\ batch' \in [Batches -> Batching]
        /\ batch'[b].at = "off" /\ batch'[b].left = <<>>
        /\ \A c \in Batches : c # b => batch'[c] = batch[c]
    BY <2>1, BatchIs, EmptySeq
  <2>3. \A c \in Batches : c # b => InHand(c)' = InHand(c)
    BY <1>0, <2>1, <2>2 DEF InHand, Direct
  <2>4. Thread' /\ outbox' \in Seq(Sends)
    BY <1>0, <2>1, <2>2, <2>3, OutboxKept
  <2>5. age' \in Ages /\ consumer' \in {"idle", "batch", "before", "direct"}
    BY <2>1 DEF BufferInv, TypeOK
  <2>6. TypeOK'
    BY <1>0, <1>1, <2>1, <2>2, <2>4, <2>5 DEF BufferInv, TypeOK, Batching, Sends, pastVars
  <2>7. Senders'
    BY <1>0, <1>1, <2>1, <2>2, Names DEF BufferInv, Senders, Direct, Handed
  <2>8. Started'
    BY <1>0, <2>2, Names DEF BufferInv, Started
  <2> QED
    BY <2>4, <2>6, <2>7, <2>8 DEF BufferInv
<1> QED
  BY <1>2, <1>3, <1>4

\* The consumer is done with its message, or a timer's task fails.
LEMMA EndsKeepInv ==
    ASSUME BufferInv, NEW b \in Batches, Resumes(b), batch[b].at \in {"sent", "failed"},
           batch' = [batch EXCEPT ![b] = NoBatch],
           consumer' = IF b = Consumer THEN "idle" ELSE consumer,
           UNCHANGED <<sessionVars, received, action, retrying, timer, outbox, pastVars>>
    PROVE  BufferInv'
<1>1. batch' = [batch EXCEPT ![b] = [at |-> "off", left |-> <<>>, ago |-> 0]]
  BY DEF NoBatch
<1>2. /\ batch' \in [Batches -> Batching]
      /\ batch'[b].at = "off" /\ batch'[b].left = <<>>
      /\ \A c \in Batches : c # b => batch'[c] = batch[c]
  BY <1>1, BatchIs, EmptySeq
<1>3. back' \in Seq(Batches)
  BY TailIs DEF BufferInv, TypeOK, Resumes
<1>4. \A c \in Batches : c # b => InHand(c)' = InHand(c)
  BY <1>2 DEF InHand, Direct
<1>5. Thread' /\ outbox' \in Seq(Sends)
  BY <1>2, <1>4, OutboxKept
<1>6. TypeOK'
  BY <1>2, <1>3, <1>5 DEF BufferInv, TypeOK, Batching, Sends, sessionVars, pastVars
<1>7. Senders'
  BY <1>2, Names DEF BufferInv, Senders, Direct, Handed, sessionVars
<1>8. Started'
  BY <1>2, Names DEF BufferInv, Started
<1> QED
  BY <1>5, <1>6, <1>7, <1>8 DEF BufferInv

\* Every batch is off but the consumer's, if that.
LEMMA ClearedIs ==
    ASSUME batch' = [b \in Batches |-> NoBatch]
    PROVE  /\ batch' \in [Batches -> Batching]
           /\ \A b \in Batches : batch'[b].at = "off" /\ batch'[b].left = <<>>
BY Names, EmptySeq DEF Batching, NoBatch

LEMMA ForgottenKeepsInv ==
    ASSUME BufferInv, Forgotten, UNCHANGED <<received, action, sent>>,
           listed' \in BOOLEAN, working' \in BOOLEAN,
           interval' \in {0, Interval}, age' \in Ages, retrying' \in BOOLEAN,
           mishaps' \in 0..MaxMishaps, lowered' \in BOOLEAN, stranded' \in BOOLEAN
    PROVE  BufferInv'
<1>1. /\ forgone' = forgone \cup 1..received
      /\ consumer' = "idle" /\ batch' = [b \in Batches |-> NoBatch]
      /\ outbox' = <<>> /\ back' = <<>> /\ pending' = <<>>
      /\ timer' = [m \in Messages |-> Off] /\ handle' = NoTimer
  BY DEF Forgotten
<1>2. /\ batch' \in [Batches -> Batching]
      /\ \A b \in Batches : batch'[b].at = "off" /\ batch'[b].left = <<>>
  BY <1>1, ClearedIs
<1>3. forgone' \subseteq Messages
  BY <1>1, BoundsAssumption DEF BufferInv, TypeOK, Messages
<1>4. TypeOK'
  BY <1>1, <1>2, <1>3, EmptySeq DEF BufferInv, TypeOK, Batching
<1>5. Senders'
  BY <1>1, <1>2, Names DEF Senders, Direct, Handed
<1>6. Started' /\ Thread'
  BY <1>1, <1>2, Names DEF Started, Thread
<1> QED
  BY <1>4, <1>5, <1>6 DEF BufferInv

LEMMA ReconnectsKeepsInv ==
    ASSUME BufferInv, Reconnects, consumer # "idle",
           UNCHANGED <<received, action, mishaps, sent>>
    PROVE  BufferInv'
<1>0. /\ listed' = TRUE /\ working' = TRUE /\ interval' = 0 /\ age' = Interval
      /\ handle' = NoTimer /\ timer' = [m \in Messages |-> Off]
      /\ retrying' = TRUE /\ back' = <<>>
      /\ UNCHANGED <<pending, forgone, lowered>>
  BY DEF Reconnects
<1>1. /\ received \in Messages /\ received \in Nat /\ received > 0
      /\ pending \in Seq(Messages) /\ \A i \in DOMAIN pending : pending[i] <= received
      /\ \A i, j \in DOMAIN pending : action[pending[i]] = action[pending[j]] => i = j
  BY BoundsAssumption DEF BufferInv, TypeOK, Senders, Messages
<1>s. ASSUME stranded' \in BOOLEAN, batch' \in [Batches -> Batching], outbox' \in Seq(Sends),
             consumer' \in {"idle", "batch", "before", "direct"}
      PROVE  TypeOK'
  BY <1>0, <1>1, <1>s, Names, EmptySeq DEF BufferInv, TypeOK, Batching, Sends
<1> DEFINE first == IF pending = <<>> THEN received ELSE Head(pending)
<1>2. CASE /\ outbox' = <<[by |-> Consumer, message |-> first]>>
           /\ consumer' = IF pending = <<>> THEN "direct" ELSE "before"
           /\ batch' = [b \in Batches |->
                           IF b = Consumer
                           THEN [at |-> "sending", left |-> pending, ago |-> 0]
                           ELSE NoBatch]
           /\ UNCHANGED stranded
  <2>1. /\ batch' \in [Batches -> Batching]
        /\ batch'[Consumer].at = "sending" /\ batch'[Consumer].left = pending
        /\ \A b \in Batches : b # Consumer => batch'[b].at = "off"
    BY <1>1, <1>2, Names, EmptySeq DEF Batching, NoBatch
  <2>2. first \in Messages
    BY <1>1, TailIs
  <2>3. InHand(Consumer)' = first
    BY <1>0, <1>2, <2>1 DEF InHand, Direct
  <2> DEFINE send == [by |-> Consumer, message |-> first]
  <2>4. send \in Sends /\ send.by = Consumer /\ send.message = first /\ outbox' = <<send>>
    BY <1>2, <2>2, Names DEF Sends
  <2> HIDE DEF send, first
  <2>5. outbox' \in Seq(Sends) /\ DOMAIN outbox' = {1} /\ outbox'[1] = send
    BY <2>4
  <2>6. Thread'
    <3>1. \A i \in DOMAIN outbox' : \E b \in Batches \ {Admin} :
             outbox'[i].by = b /\ batch'[b].at = "sending" /\ outbox'[i].message = InHand(b)'
      BY <2>1, <2>3, <2>4, <2>5, Names
    <3> QED
      BY <2>5, <3>1 DEF Thread
  <2>7. TypeOK'
    BY <1>s, <1>2, <2>1, <2>5 DEF BufferInv, TypeOK
  <2>8. Senders'
    BY <1>0, <1>1, <1>2, <2>1, Names DEF Senders, Direct, Handed
  <2>9. Started'
    BY <1>0, <2>1, Names DEF Started
  <2> QED
    BY <2>6, <2>7, <2>8, <2>9 DEF BufferInv
<1>3. CASE /\ outbox' = <<>> /\ consumer' = "idle"
           /\ batch' = [b \in Batches |-> NoBatch]
           /\ stranded' = TRUE
  <2>1. /\ batch' \in [Batches -> Batching]
        /\ \A b \in Batches : batch'[b].at = "off" /\ batch'[b].left = <<>>
    BY <1>3, ClearedIs
  <2>2. TypeOK'
    BY <1>s, <1>3, <2>1, EmptySeq
  <2>3. Senders'
    BY <1>0, <1>1, <1>3, <2>1, Names DEF Senders, Direct, Handed
  <2>4. Started' /\ Thread'
    BY <1>0, <1>3, <2>1, Names DEF Started, Thread
  <2> QED
    BY <2>2, <2>3, <2>4 DEF BufferInv
<1> QED
  BY <1>2, <1>3 DEF Reconnects

LEMMA ConsumerFailsKeepsInv ==
    ASSUME BufferInv, ConsumerFails PROVE BufferInv'
<1>1. /\ batch[Consumer].at = "failed" /\ UNCHANGED <<received, action, mishaps, sent>>
      /\ (Reconnects \/ (SessionGone /\ UNCHANGED retrying))
  BY DEF ConsumerFails
<1>2. CASE Reconnects
  BY <1>1, <1>2, ReconnectsKeepsInv DEF BufferInv, Senders
<1>3. CASE SessionGone /\ UNCHANGED retrying
  <2>1. Forgotten /\ listed' = FALSE /\ working' = FALSE
        /\ UNCHANGED <<interval, age, lowered, stranded>>
    BY <1>3 DEF SessionGone
  <2> QED
    BY <1>1, <1>3, <2>1, ForgottenKeepsInv DEF BufferInv, TypeOK
<1> QED
  BY <1>1, <1>2, <1>3

\* Nothing that the senders are about changes.
LEMMA ElsewhereKeepsInv ==
    ASSUME BufferInv,
           UNCHANGED <<pending, handle, consumerVars, timer, batch, outbox, back, sent, forgone>>,
           listed' \in BOOLEAN, working' \in BOOLEAN, interval' \in {0, Interval}, age' \in Ages,
           mishaps' \in 0..MaxMishaps, lowered' \in BOOLEAN, stranded' \in BOOLEAN
    PROVE  BufferInv'
<1>1. TypeOK'
  BY DEF BufferInv, TypeOK, consumerVars
<1>2. Senders'
  BY DEF BufferInv, Senders, Direct, consumerVars
<1>3. Started'
  BY DEF BufferInv, Started, consumerVars
<1>4. Thread'
  BY DEF BufferInv, Thread, InHand, Direct, consumerVars
<1> QED
  BY <1>1, <1>2, <1>3, <1>4 DEF BufferInv

LEMMA MishapIs ==
    ASSUME BufferInv, Mishap PROVE mishaps' \in 0..MaxMishaps
BY BoundsAssumption DEF BufferInv, TypeOK, Mishap

LEMMA SessionsKeepInv ==
    ASSUME BufferInv, ConnectionBreaks \/ SessionRemoved \/ SyncConnects \/ SyncSetsInterval
    PROVE  BufferInv'
<1> USE DEF BufferInv, TypeOK
<1>1. CASE ConnectionBreaks
  BY <1>1, MishapIs, ElsewhereKeepsInv DEF ConnectionBreaks
<1>2. CASE SessionRemoved
  <2>1. CASE consumer = "idle"
    BY <1>2, <2>1, MishapIs, ForgottenKeepsInv DEF SessionRemoved, SessionGone
  <2>2. CASE consumer # "idle"
    BY <1>2, <2>2, MishapIs, ElsewhereKeepsInv DEF SessionRemoved, consumerVars
  <2> QED
    BY <2>1, <2>2
<1>3. CASE SyncConnects
  <2>1. interval' \in {0, Interval}
    BY <1>3 DEF SyncConnects
  <2> QED
    BY <1>3, <2>1, Names, ForgottenKeepsInv DEF SyncConnects
<1>4. CASE SyncSetsInterval
  BY <1>4, ElsewhereKeepsInv DEF SyncSetsInterval, pastVars
<1> QED
  BY <1>1, <1>2, <1>3, <1>4

LEMMA AdminLowersKeepsInv ==
    ASSUME BufferInv, AdminLowers PROVE BufferInv'
<1>0. /\ interval' = 0 /\ timer' = Cancelled /\ handle' = NoTimer /\ lowered' = TRUE
      /\ batch' = IF pending = <<>> THEN batch
                  ELSE [batch EXCEPT ![Admin] = [at |-> "sending", left |-> pending, ago |-> 0]]
      /\ age' = IF pending = <<>> THEN 0 ELSE age
      /\ UNCHANGED <<back, listed, working, pending, consumerVars, outbox, sent, forgone,
                     stranded>>
      /\ mishaps' \in 0..MaxMishaps
  BY MishapIs DEF AdminLowers
<1>1. /\ timer' \in [Messages -> Ages \cup {Off}] /\ age' \in Ages
      /\ \A m \in Messages : timer'[m] # Off => timer[m] # Off
  BY <1>0, Names DEF BufferInv, TypeOK, Cancelled
<1>2. /\ batch' \in [Batches -> Batching]
      /\ \A c \in Batches : c # Admin => batch'[c] = batch[c]
      /\ batch'[Admin].at \in {"off", "sending"}
      /\ batch'[Admin].at = "sending" => batch'[Admin].left # <<>>
  <2>1. CASE pending = <<>>
    BY <1>0, <2>1, Names DEF BufferInv, TypeOK, Batching, Senders, Handed, Direct
  <2>2. CASE pending # <<>>
    <3>1. pending \in Seq(Messages)
      BY DEF BufferInv, TypeOK
    <3>2. batch' = [batch EXCEPT ![Admin] = [at |-> "sending", left |-> pending, ago |-> 0]]
      BY <1>0, <2>2
    <3> QED
      BY <2>2, <3>1, <3>2, BatchIs, Names
  <2> QED
    BY <2>1, <2>2
<1>3. Thread'
  <2>1. \A c \in Batches : c # Admin => InHand(c)' = InHand(c)
    BY <1>0, <1>2 DEF InHand, Direct, consumerVars
  <2> QED
    BY <1>0, <1>2, <2>1, OutboxKept
<1>4. TypeOK'
  BY <1>0, <1>1, <1>2 DEF BufferInv, TypeOK, Batching, consumerVars
<1>5. Senders'
  BY <1>0, <1>2, Names DEF BufferInv, Senders, Direct, Handed, consumerVars
<1>6. Started'
  BY <1>0, <1>1, <1>2, Names DEF BufferInv, Started, consumerVars
<1> QED
  BY <1>3, <1>4, <1>5, <1>6 DEF BufferInv

LEMMA AdminSendsKeepsInv ==
    ASSUME BufferInv, AdminSends PROVE BufferInv'
<1> DEFINE left == batch[Admin].left
<1>0. /\ batch[Admin].at = "sending"
      /\ UNCHANGED <<back, listed, working, interval, handle, consumerVars, timer, outbox,
                     mishaps, forgone, lowered, stranded>>
  BY DEF AdminSends
<1>1. /\ left \in Seq(Messages) /\ left # <<>>
      /\ Head(left) \in Messages /\ Tail(left) \in Seq(Messages)
  <2>1. left \in Seq(Messages) /\ left # <<>>
    BY <1>0, Names DEF BufferInv, TypeOK, Senders, Handed, Direct
  <2> HIDE DEF left
  <2> QED
    BY <2>1, TailIs
<1>2. /\ batch' \in [Batches -> Batching]
      /\ \A c \in Batches : c # Admin => batch'[c] = batch[c]
      /\ batch'[Admin].at \in {"off", "sending"}
      /\ batch'[Admin].at = "sending" => batch'[Admin].left # <<>>
  <2>1. CASE working /\ Tail(left) # <<>>
    <3>1. batch' = [batch EXCEPT ![Admin] = [@ EXCEPT !.left = Tail(left)]]
      BY <2>1 DEF AdminSends
    <3>2. batch \in [Batches -> Batching] /\ Admin \in Batches
      BY Names DEF BufferInv, TypeOK, Batching
    <3> HIDE DEF left
    <3> QED
      BY <1>0, <1>1, <2>1, <3>1, <3>2 DEF Batching
  <2>2. CASE ~(working /\ Tail(left) # <<>>)
    <3>1. batch' = [batch EXCEPT ![Admin] = [at |-> "off", left |-> <<>>, ago |-> 0]]
      BY <2>2 DEF AdminSends, NoBatch
    <3> QED
      BY <3>1, BatchIs, Names, EmptySeq
  <2> QED
    BY <2>1, <2>2
<1>3. /\ sent' \in Seq(Messages) /\ pending' \in Seq(Messages) /\ age' \in Ages
      /\ \A i \in DOMAIN pending' : pending'[i] <= received
      /\ \A i, j \in DOMAIN pending' : action[pending'[i]] = action[pending'[j]] => i = j
  <2>1. CASE working
    <3>1. sent' = Append(sent, Head(left)) /\ pending' = Take(pending, Head(left))
          /\ (age' = batch[Admin].ago \/ age' = age)
      BY <2>1 DEF AdminSends
    <3> HIDE DEF left
    <3>2. sent' \in Seq(Messages)
      BY <1>1, <3>1, AppendIs DEF BufferInv, TypeOK
    <3>3. /\ pending' \in Seq(Messages)
          /\ \A i \in DOMAIN pending' : pending'[i] \in Range(pending)
          /\ \A i, j \in DOMAIN pending' : action[pending'[i]] = action[pending'[j]] => i = j
      BY <3>1, TakeIs DEF BufferInv, TypeOK
    <3>4. \A x \in Range(pending) : x <= received
      BY DEF BufferInv, Senders, Range
    <3>5. age' \in Ages
      BY <3>1, Names DEF BufferInv, TypeOK
    <3> QED
      BY <3>2, <3>3, <3>4, <3>5
  <2>2. CASE ~working
    <3>1. UNCHANGED <<sent, pending, age>>
      BY <2>2 DEF AdminSends
    <3> QED
      BY <3>1 DEF BufferInv, TypeOK, Senders
  <2> QED
    BY <2>1, <2>2
<1>4. Thread'
  <2>1. \A c \in Batches : c # Admin => InHand(c)' = InHand(c)
    BY <1>0, <1>2 DEF InHand, Direct, consumerVars
  <2> QED
    BY <1>0, <1>2, <2>1, OutboxKept
<1>5. TypeOK'
  BY <1>0, <1>2, <1>3 DEF BufferInv, TypeOK, Batching, consumerVars
<1>6. Senders'
  BY <1>0, <1>2, <1>3, Names DEF BufferInv, Senders, Direct, Handed, consumerVars
<1>7. Started'
  BY <1>0, <1>2, Names DEF BufferInv, Started, consumerVars
<1> QED
  BY <1>4, <1>5, <1>6, <1>7 DEF BufferInv

\* Time changes the age of a batch only, and starts and ends no timer.
LEMMA TickIs ==
    ASSUME BufferInv, Tick
    PROVE  /\ age' \in Ages
           /\ timer' \in [Messages -> Ages \cup {Off}]
           /\ \A m \in Messages : timer'[m] # Off <=> timer[m] # Off
           /\ batch' \in [Batches -> Batching]
           /\ \A b \in Batches : batch'[b].at = batch[b].at /\ batch'[b].left = batch[b].left
           /\ UNCHANGED <<back, listed, working, interval, pending, handle, consumerVars, outbox,
                          mishaps, sent, forgone, lowered, stranded>>
<1>1. \A ticks \in Ages : Older(ticks) \in Ages
  BY BoundsAssumption DEF Older, Ages
<1>2. age' \in Ages
  BY <1>1 DEF Tick, BufferInv, TypeOK
<1>3. /\ timer' \in [Messages -> Ages \cup {Off}]
      /\ \A m \in Messages : timer'[m] # Off <=> timer[m] # Off
  <2>1. timer' = [m \in Messages |-> IF timer[m] > 0 THEN timer[m] - 1 ELSE timer[m]]
    BY DEF Tick
  <2>2. \A m \in Messages : timer[m] \in Ages \cup {Off}
    BY DEF BufferInv, TypeOK
  <2>3. \A t \in Ages \cup {Off} : LET next == IF t > 0 THEN t - 1 ELSE t IN
           next \in Ages \cup {Off} /\ (next # Off <=> t # Off)
    BY BoundsAssumption DEF Ages, Off
  <2> QED
    BY <2>1, <2>2, <2>3
<1>4. /\ batch' \in [Batches -> Batching]
      /\ \A b \in Batches : batch'[b].at = batch[b].at /\ batch'[b].left = batch[b].left
  <2>1. batch' = [b \in Batches |-> IF batch[b].at = "off" THEN batch[b]
                                    ELSE [batch[b] EXCEPT !.ago = Older(@)]]
    BY DEF Tick
  <2>2. \A b \in Batches : batch[b] \in Batching
    BY DEF BufferInv, TypeOK, Batching
  <2>3. \A r \in Batching : LET next == [r EXCEPT !.ago = Older(@)] IN
           next \in Batching /\ next.at = r.at /\ next.left = r.left
    BY <1>1 DEF Batching
  <2> QED
    BY <2>1, <2>2, <2>3
<1> QED
  BY <1>2, <1>3, <1>4 DEF Tick

LEMMA TickKeepsInv ==
    ASSUME BufferInv, Tick PROVE BufferInv'
<1>0. /\ age' \in Ages
      /\ timer' \in [Messages -> Ages \cup {Off}]
      /\ \A m \in Messages : timer'[m] # Off <=> timer[m] # Off
      /\ batch' \in [Batches -> Batching]
      /\ \A b \in Batches : batch'[b].at = batch[b].at /\ batch'[b].left = batch[b].left
      /\ UNCHANGED <<back, listed, working, interval, pending, handle, consumerVars, outbox,
                     mishaps, sent, forgone, lowered, stranded>>
  BY TickIs
<1>1. Thread'
  <2>1. \A c \in Batches : InHand(c)' = InHand(c)
    BY <1>0 DEF InHand, Direct, consumerVars
  <2> QED
    BY <1>0, <2>1, OutboxKept
<1>2. TypeOK'
  BY <1>0 DEF BufferInv, TypeOK, Batching, consumerVars
<1>3. Senders'
  BY <1>0, Names DEF BufferInv, Senders, Direct, Handed, consumerVars
<1>4. Started'
  BY <1>0, Names DEF BufferInv, Started, consumerVars
<1> QED
  BY <1>1, <1>2, <1>3, <1>4 DEF BufferInv

LEMMA BufferInit == ASSUME Init PROVE BufferInv
<1>1. action \in [Messages -> Actions]
  BY BoundsAssumption DEF Init
<1>2. /\ batch \in [Batches -> Batching]
      /\ \A b \in Batches : batch[b].at = "off" /\ batch[b].left = <<>>
  BY EmptySeq, Names DEF Init, Batching, NoBatch
<1>3. TypeOK
  <2>1. /\ interval \in {0, Interval} /\ age \in Ages /\ received \in 0..MaxMessages
        /\ mishaps \in 0..MaxMishaps /\ timer \in [Messages -> Ages \cup {Off}]
    BY BoundsAssumption, Names DEF Init
  <2>2. /\ pending \in Seq(Messages) /\ outbox \in Seq(Sends) /\ back \in Seq(Batches)
        /\ sent \in Seq(Messages) /\ DOMAIN pending = {}
    BY EmptySeq DEF Init
  <2> QED
    BY <1>1, <1>2, <2>1, <2>2 DEF Init, TypeOK, Batching, Sends
<1>4. Senders
  BY <1>2, Names DEF Init, Senders, Handed, Direct
<1>5. Started /\ Thread
  BY <1>2, Names DEF Init, Started, Thread
<1> QED
  BY <1>3, <1>4, <1>5 DEF BufferInv

LEMMA BufferStep == ASSUME BufferInv, [Next]_vars PROVE BufferInv'
<1>1. CASE Receive
  BY <1>1, ForwardsKeepsInv, FlushesKeepsInv, BuffersKeepsInv DEF Receive
<1>2. ASSUME NEW m \in Messages, TimerFires(m) \/ TaskBegins(m) PROVE BufferInv'
  BY <1>2, TimerFiresKeepsInv, TaskBeginsKeepsInv
<1>3. ASSUME NEW m \in Messages, TaskFails(m) PROVE BufferInv'
  <2>1. m \in Batches /\ m # Consumer
    BY Names
  <2> QED
    BY <1>3, <2>1, EndsKeepInv DEF TaskFails, consumerVars
<1>4. CASE ConsumerDone
  BY <1>4, EndsKeepInv, Names DEF ConsumerDone
<1>5. CASE \E b \in Batches : BatchGoesOn(b)
  BY <1>5, GoesOnKeepsInv
<1>6. CASE ConsumerFails
  BY <1>6, ConsumerFailsKeepsInv
<1>7. CASE ThreadSends
  BY <1>7, ThreadSendsKeepsInv
<1>8. CASE AdminSends
  BY <1>8, AdminSendsKeepsInv
<1>9. CASE World
  BY <1>9, SessionsKeepInv, AdminLowersKeepsInv DEF World
<1>10. CASE Tick
  BY <1>10, TickKeepsInv
<1>11. CASE UNCHANGED vars
  BY <1>11, ElsewhereKeepsInv
  DEF vars, sessionVars, consumerVars, pastVars, BufferInv, TypeOK
<1> QED
  BY <1>1, <1>2, <1>3, <1>4, <1>5, <1>6, <1>7, <1>8, <1>9, <1>10, <1>11 DEF Next, Scheduled

\* Every variable of the buffer keeps its type.
THEOREM BufferTypes == Spec => []TypeOK
<1>1. BufferInv => TypeOK
  BY DEF BufferInv
<1> QED
  BY <1>1, BufferInit, BufferStep, PTL DEF Spec

-----------------------------------------------------------------------------
(* The newest message of an action *)

\* n stands for m: it is m or a newer message of m's action, and not lost.
Stands(n, m) ==
    /\ action[n] = action[m]
    /\ \/ n \in Range(sent) \cup Range(pending)
       \/ n = received /\ consumer # "idle"
       \/ stranded

\* No message arrives, nothing that was sent or is pending gets lost, and the
\* consumer does not leave its message behind.
LEMMA LatestCarried ==
    ASSUME LatestInv, UNCHANGED <<received, action>>, forgone \subseteq forgone',
           Range(sent) \cup Range(pending) \subseteq Range(sent') \cup Range(pending'),
           stranded => stranded',
           consumer # "idle" /\ consumer' = "idle" =>
               received \in Range(sent') \cup Range(pending') \/ stranded'
    PROVE  KeepsLatest'
<1>1. SUFFICES ASSUME NEW m \in (1..received) \ forgone'
               PROVE  \E n \in m..received : Stands(n, m)'
  BY DEF KeepsLatest, Stands
<1>2. m \in (1..received) \ forgone
  BY <1>1
<1>3. PICK n \in m..received : Stands(n, m)
  BY <1>2 DEF LatestInv, KeepsLatest, Stands
<1>4. Stands(n, m)'
  BY <1>3 DEF Stands
<1> QED
  BY <1>3, <1>4

\* What was sent before stays sent, and no sender's send is over but those were.
LEMMA DeliveredCarried ==
    ASSUME LatestInv, received' = received, Range(sent) \subseteq Range(sent'),
           \A b \in Batches : batch'[b].at = "sent" =>
               \/ batch[b].at = "sent" /\ InHand(b)' = InHand(b)
               \/ InHand(b)' \in Range(sent'),
           consumer' = "batch" => consumer = "batch",
           Range(sent) \cup Range(pending) \subseteq Range(sent') \cup Range(pending')
    PROVE  Delivered'
<1>1. ASSUME NEW b \in Batches, batch'[b].at = "sent" PROVE InHand(b)' \in Range(sent')
  BY <1>1 DEF LatestInv, Delivered
<1>2. ASSUME consumer' = "batch" PROVE received' \in Range(sent') \cup Range(pending')
  BY <1>2 DEF LatestInv, Delivered
<1> QED
  BY <1>1, <1>2 DEF Delivered

\* A message arrives: it takes the place of what is pending of its action.
LEMMA LatestAtArrival ==
    ASSUME LatestInv, Arrived, UNCHANGED <<sent, forgone, stranded>>,
           \A x \in Range(pending) : x \in Range(pending') \/ action'[x] = action'[received'],
           consumer' # "idle" \/ received' \in Range(pending')
    PROVE  KeepsLatest'
<1>0. received \in Nat /\ received' = received + 1 /\ received' \in 0..MaxMessages
  BY DEF Arrived
<1>1. SUFFICES ASSUME NEW m \in (1..received') \ forgone
               PROVE  \E n \in m..received' : Stands(n, m)'
  BY DEF KeepsLatest, Stands
<1>2. CASE m = received'
  <2>1. m \in m..received' /\ Stands(m, m)'
    BY <1>0, <1>2 DEF Stands
  <2> QED
    BY <2>1
<1>3. CASE m # received'
  <2>1. m \in 1..received /\ m \in Messages
    BY <1>0, <1>3, BoundsAssumption DEF Messages
  <2>2. PICK n \in m..received : Stands(n, m)
    BY <1>1, <2>1 DEF LatestInv, KeepsLatest, Stands
  <2>3. n \in Messages /\ n <= received /\ m <= received /\ n \in m..received'
        /\ received' \in m..received'
    BY <1>0, <2>1, <2>2, BoundsAssumption DEF Messages
  <2>4. action'[n] = action'[m]
    BY <2>1, <2>2, <2>3 DEF Arrived, Stands
  <2>5. CASE stranded \/ n \in Range(sent) \/ n \in Range(pending')
    <3>1. Stands(n, m)'
      BY <2>4, <2>5 DEF Stands
    <3> QED
      BY <2>3, <3>1
  <2>6. CASE n \in Range(pending) /\ n \notin Range(pending')
    <3>1. action'[received'] = action'[m]
      BY <2>4, <2>6
    <3>2. \A n2 \in m..received' : n2 = received' => Stands(n2, m)'
      BY <3>1 DEF Stands
    <3> QED
      BY <2>3, <3>2
  <2> QED
    BY <2>2, <2>5, <2>6 DEF Stands, Arrived
<1> QED
  BY <1>2, <1>3

LEMMA ReceiveLatest ==
    ASSUME LatestInv, Receive PROVE Delivered' /\ KeepsLatest'
<1>0. BufferInv
  BY DEF LatestInv
<1>1. Arrived /\ UNCHANGED <<sent, forgone, stranded>>
  BY <1>0, ArrivalIs
  DEF Receive, ReceiveForwards, ReceiveFlushes, ReceiveBuffers, pastVars
<1>2. /\ \A b \in Batches : b # Consumer => batch'[b] = batch[b]
      /\ batch'[Consumer].at # "sent"
  <2>1. CASE \E r : r.at = "sending" /\ batch' = [batch EXCEPT ![Consumer] = r]
    BY <1>0, <2>1, Names DEF BufferInv, TypeOK
  <2>2. CASE batch' = batch
    BY <1>1, <2>2 DEF Arrived
  <2>3. CASE ReceiveForwards
    <3>1. CASE pending = <<>>
      <4> DEFINE r == [NoBatch EXCEPT !.at = "sending"]
      <4>1. r.at = "sending" /\ batch' = [batch EXCEPT ![Consumer] = r]
        BY <2>3, <3>1 DEF ReceiveForwards, Forward, NoBatch
      <4> QED
        BY <2>1, <4>1
    <3>2. CASE pending # <<>>
      BY <2>1, <2>3, <3>2 DEF ReceiveForwards, Forward, Begin
    <3> QED
      BY <3>1, <3>2
  <2>4. CASE ReceiveFlushes
    BY <2>1, <2>4 DEF ReceiveFlushes, Begin
  <2>5. CASE ReceiveBuffers
    BY <2>2, <2>5 DEF ReceiveBuffers
  <2> QED
    BY <2>3, <2>4, <2>5 DEF Receive
<1>3. /\ \A x \in Range(pending) : x \in Range(pending') \/ action'[x] = action'[received']
      /\ consumer' = "batch" => received' \in Range(pending')
      /\ consumer' # "idle" \/ received' \in Range(pending')
  <2>1. CASE ReceiveForwards
    BY <2>1 DEF ReceiveForwards, Forward, SendDirect
  <2>2. CASE ReceiveFlushes
    BY <1>0, <1>1, <2>2, BufferedIs DEF ReceiveFlushes
  <2>3. CASE ReceiveBuffers
    BY <1>0, <1>1, <2>3, BufferedIs DEF ReceiveBuffers
  <2> QED
    BY <2>1, <2>2, <2>3 DEF Receive
<1>4. KeepsLatest'
  BY <1>1, <1>3, LatestAtArrival
<1>5. \A b \in Batches : batch'[b].at = "sent" => InHand(b)' \in Range(sent')
  <2>1. ASSUME NEW b \in Batches, batch'[b].at = "sent" PROVE InHand(b)' \in Range(sent')
    <3>1. b # Consumer /\ batch'[b] = batch[b]
      BY <1>2, <2>1
    <3>2. InHand(b)' = InHand(b) /\ batch[b].at = "sent"
      BY <2>1, <3>1 DEF InHand, Direct
    <3> QED
      BY <1>1, <3>2 DEF LatestInv, Delivered
  <2> QED
    BY <2>1
<1>6. Delivered'
  BY <1>3, <1>5 DEF Delivered
<1> QED
  BY <1>4, <1>6

LEMMA TimerLatest ==
    ASSUME LatestInv, NEW m \in Messages, TimerFires(m) \/ TaskBegins(m)
    PROVE  Delivered' /\ KeepsLatest'
<1>0. BufferInv
  BY DEF LatestInv
<1>1. UNCHANGED <<consumerVars, pending, sent, forgone, stranded>>
  BY DEF TimerFires, TaskBegins, sessionVars, pastVars
<1>2. /\ \A b \in Batches : b # m => batch'[b] = batch[b]
      /\ batch'[m].at # "sent"
  <2>1. \E new : batch' = [batch EXCEPT ![m] = new] /\ new.at # "sent"
    <3>1. CASE TimerFires(m)
      <4>1. batch' = [batch EXCEPT ![m] = [NoBatch EXCEPT !.at = "task"]]
        BY <3>1 DEF TimerFires
      <4>2. [NoBatch EXCEPT !.at = "task"].at # "sent"
        BY DEF NoBatch
      <4> QED
        BY <4>1, <4>2, Zenon
    <3>2. CASE TaskBegins(m)
      BY <3>2 DEF TaskBegins, Begin, NoBatch
    <3> QED
      BY <3>1, <3>2
  <2>2. batch \in [Batches -> Batching] /\ m \in Batches
    BY <1>0, Names DEF BufferInv, TypeOK, Batching
  <2> QED
    BY <2>1, <2>2
<1>3. \A b \in Batches : b # m => InHand(b)' = InHand(b)
  BY <1>1, <1>2 DEF InHand, Direct, consumerVars
<1>4. Delivered'
  BY <1>1, <1>2, <1>3, DeliveredCarried DEF consumerVars
<1> QED
  BY <1>1, <1>4, LatestCarried DEF consumerVars

LEMMA ThreadLatest ==
    ASSUME LatestInv, ThreadSends PROVE Delivered' /\ KeepsLatest'
<1>0. BufferInv
  BY DEF LatestInv
<1>1. /\ outbox # <<>>
      /\ batch' = [batch EXCEPT ![Head(outbox).by].at = IF working THEN "sent" ELSE "failed"]
      /\ sent' = IF working THEN Append(sent, Head(outbox).message) ELSE sent
      /\ UNCHANGED <<sessionVars, consumerVars, forgone, stranded>>
  BY DEF ThreadSends
<1>2. Head(outbox) \in Sends /\ Head(outbox) = outbox[1] /\ 1 \in DOMAIN outbox
  BY <1>0, <1>1, TailIs DEF BufferInv, TypeOK, Sends
<1>3. PICK b \in Batches \ {Admin} : b = Head(outbox).by /\ Head(outbox).message = InHand(b)
  BY <1>0, <1>2 DEF BufferInv, Thread
<1>4. /\ \A c \in Batches : c # b => batch'[c] = batch[c]
      /\ batch'[b].left = batch[b].left
      /\ batch'[b].at = "sent" => working
  BY <1>0, <1>1, <1>3 DEF BufferInv, TypeOK
<1>5. \A c \in Batches : InHand(c)' = InHand(c)
  BY <1>1, <1>4 DEF InHand, Direct, consumerVars
<1>6. Range(sent) \subseteq Range(sent') /\ (working => InHand(b) \in Range(sent'))
  <2>1. Head(outbox).message \in Messages /\ sent \in Seq(Messages)
    BY <1>0, <1>2 DEF Sends, BufferInv, TypeOK
  <2>2. CASE working
    <3>1. sent' = Append(sent, Head(outbox).message)
      BY <1>1, <2>2
    <3>2. Range(sent') = Range(sent) \cup {Head(outbox).message}
      BY <2>1, <3>1, AppendIs
    <3> QED
      BY <1>3, <3>2
  <2> QED
    BY <1>1, <2>2
<1>7. Delivered'
  BY <1>1, <1>4, <1>5, <1>6, DeliveredCarried DEF sessionVars, consumerVars
<1> QED
  BY <1>1, <1>6, <1>7, LatestCarried DEF sessionVars, consumerVars

LEMMA GoesOnLatest ==
    ASSUME LatestInv, NEW b \in Batches, BatchGoesOn(b) PROVE Delivered' /\ KeepsLatest'
<1>0. BufferInv
  BY DEF LatestInv
<1>1. /\ Resumes(b) /\ batch[b].at = "sent" /\ ~Direct(b)
      /\ pending' = Take(pending, Head(batch[b].left))
      /\ UNCHANGED <<received, action, sent, forgone, stranded>>
      /\ consumer' \in {"idle", "direct", consumer}
      /\ consumer' # consumer => b = Consumer
      /\ consumer' = "idle" /\ consumer # "idle" => consumer \notin {"before", "direct"}
  BY DEF BatchGoesOn, Direct, SendDirect, pastVars
<1>2. Range(pending') = Range(pending) \ {InHand(b)}
  BY <1>0, <1>1, ResumedIs
<1>3. InHand(b) \in Range(sent)
  BY <1>1 DEF LatestInv, Delivered
<1>4. /\ \A c \in Batches : c # b => batch'[c] = batch[c]
      /\ batch'[b].at # "sent"
  BY <1>0 DEF BatchGoesOn, BufferInv, TypeOK, NoBatch
<1>5. \A c \in Batches : c # b => InHand(c)' = InHand(c)
  BY <1>1, <1>4 DEF InHand, Direct
<1>6. Delivered'
  BY <1>1, <1>2, <1>3, <1>4, <1>5, DeliveredCarried
<1>7. consumer # "idle" /\ consumer' = "idle" => received \in Range(sent') \cup Range(pending')
  <2>1. consumer \in {"idle", "batch", "before", "direct"}
    BY <1>0 DEF BufferInv, TypeOK
  <2> QED
    BY <1>1, <1>2, <1>3, <2>1 DEF LatestInv, Delivered
<1> QED
  BY <1>1, <1>2, <1>3, <1>6, <1>7, LatestCarried

LEMMA EndsLatest ==
    ASSUME LatestInv, NEW b \in Batches, batch' = [batch EXCEPT ![b] = NoBatch],
           consumer' = IF b = Consumer THEN "idle" ELSE consumer,
           b = Consumer => consumer = "direct" /\ batch[b].at = "sent",
           UNCHANGED <<pending, received, action, sent, forgone, stranded>>
    PROVE  Delivered' /\ KeepsLatest'
<1>1. /\ \A c \in Batches : c # b => batch'[c] = batch[c]
      /\ batch'[b].at = "off"
  BY DEF LatestInv, BufferInv, TypeOK, NoBatch
<1>2. \A c \in Batches : c # b => InHand(c)' = InHand(c)
  BY <1>1 DEF InHand, Direct
<1>3. Delivered'
  BY <1>1, <1>2, DeliveredCarried
<1>4. b = Consumer => received \in Range(sent)
  BY DEF LatestInv, Delivered, InHand, Direct
<1> QED
  BY <1>3, <1>4, LatestCarried

LEMMA ForgottenLatest ==
    ASSUME LatestInv, Forgotten, UNCHANGED <<received, action, sent, stranded>>
    PROVE  Delivered' /\ KeepsLatest'
<1>1. consumer' = "idle" /\ \A b \in Batches : batch'[b].at = "off"
  BY DEF Forgotten, NoBatch
<1>2. 1..received \subseteq forgone'
  BY DEF Forgotten
<1> QED
  BY <1>1, <1>2 DEF Delivered, KeepsLatest

LEMMA FailsLatest ==
    ASSUME LatestInv, ConsumerFails PROVE Delivered' /\ KeepsLatest'
<1>0. UNCHANGED <<received, action, sent>>
  BY DEF ConsumerFails
<1>1. CASE Reconnects
  <2>1. /\ UNCHANGED <<pending, forgone>>
        /\ consumer' = "idle" => stranded'
        /\ stranded => stranded'
        /\ consumer' # "batch"
        /\ \A b \in Batches : batch'[b].at # "sent"
    BY <1>1 DEF Reconnects, NoBatch
  <2>2. Delivered'
    BY <2>1 DEF Delivered
  <2> QED
    BY <1>0, <2>1, <2>2, LatestCarried
<1>2. CASE SessionGone /\ UNCHANGED retrying
  BY <1>0, <1>2, ForgottenLatest DEF SessionGone
<1> QED
  BY <1>1, <1>2 DEF ConsumerFails

LEMMA AdminLatest ==
    ASSUME LatestInv, AdminLowers \/ AdminSends PROVE Delivered' /\ KeepsLatest'
<1>0. BufferInv /\ BufferInv' /\ sent \in Seq(Messages)
  BY AdminLowersKeepsInv, AdminSendsKeepsInv DEF LatestInv, BufferInv, TypeOK
<1>1. UNCHANGED <<consumerVars, forgone, stranded>>
  BY DEF AdminLowers, AdminSends
<1>2. \A b \in Batches : b # Admin => batch'[b] = batch[b]
  BY <1>0, Names DEF AdminLowers, AdminSends, BufferInv, TypeOK
<1>3. batch'[Admin].at # "sent"
  BY <1>0 DEF BufferInv, Senders
<1>4. \A b \in Batches : b # Admin => InHand(b)' = InHand(b)
  BY <1>1, <1>2 DEF InHand, Direct, consumerVars
<1>5. /\ Range(sent) \subseteq Range(sent')
      /\ Range(sent) \cup Range(pending) \subseteq Range(sent') \cup Range(pending')
  <2>1. CASE AdminSends /\ working
    <3> DEFINE m == Head(batch[Admin].left)
    <3>1. sent' = Append(sent, m) /\ pending' = Take(pending, m)
      BY <2>1 DEF AdminSends
    <3>2. m \in Messages
      <4>1. batch[Admin].left \in Seq(Messages) /\ batch[Admin].left # <<>>
        BY <1>0, <2>1, Names DEF AdminSends, BufferInv, TypeOK, Senders, Handed, Direct
      <4> QED
        BY <4>1, TailIs
    <3> HIDE DEF m
    <3>3. Range(sent') = Range(sent) \cup {m}
      BY <1>0, <3>1, <3>2, AppendIs
    <3>4. Range(pending') = Range(pending) \ {m}
      BY <1>0, <3>1, TakeIs DEF BufferInv, TypeOK
    <3> QED
      BY <3>3, <3>4
  <2>2. CASE AdminSends /\ ~working
    BY <2>2 DEF AdminSends
  <2>3. CASE AdminLowers
    BY <2>3 DEF AdminLowers
  <2> QED
    BY <2>1, <2>2, <2>3
<1>6. Delivered'
  BY <1>1, <1>2, <1>3, <1>4, <1>5, DeliveredCarried DEF consumerVars
<1> QED
  BY <1>1, <1>5, <1>6, LatestCarried DEF consumerVars

\* A step that leaves the messages and the senders where they are.
LEMMA ElsewhereLatest ==
    ASSUME LatestInv, UNCHANGED <<consumerVars, pending, sent, forgone, stranded>>,
           \A b \in Batches : batch'[b].at = batch[b].at /\ batch'[b].left = batch[b].left
    PROVE  Delivered' /\ KeepsLatest'
<1>1. \A b \in Batches : InHand(b)' = InHand(b)
  BY DEF InHand, Direct, consumerVars
<1>2. Delivered'
  BY <1>1, DeliveredCarried DEF consumerVars
<1> QED
  BY <1>2, LatestCarried DEF consumerVars

LEMMA WorldLatest ==
    ASSUME LatestInv, World \/ Tick \/ UNCHANGED vars PROVE Delivered' /\ KeepsLatest'
<1>1. CASE ConnectionBreaks \/ SyncSetsInterval \/ UNCHANGED vars
  BY <1>1, ElsewhereLatest
  DEF ConnectionBreaks, SyncSetsInterval, vars, sessionVars, pastVars
<1>2. CASE SessionRemoved
  <2>1. CASE consumer = "idle"
    BY <1>2, <2>1, ForgottenLatest DEF SessionRemoved, SessionGone
  <2>2. CASE consumer # "idle"
    BY <1>2, <2>2, ElsewhereLatest DEF SessionRemoved, consumerVars
  <2> QED
    BY <2>1, <2>2
<1>3. CASE SyncConnects
  BY <1>3, ForgottenLatest DEF SyncConnects
<1>4. CASE AdminLowers
  BY <1>4, AdminLatest
<1>5. CASE Tick
  BY <1>5, TickIs, ElsewhereLatest DEF LatestInv
<1> QED
  BY <1>1, <1>2, <1>3, <1>4, <1>5 DEF World

LEMMA LatestStep == ASSUME LatestInv, [Next]_vars PROVE LatestInv'
<1>1. BufferInv'
  BY BufferStep DEF LatestInv
<1>2. Delivered' /\ KeepsLatest'
  <2>1. CASE Receive
    BY <2>1, ReceiveLatest
  <2>2. CASE \E m \in Messages : TimerFires(m) \/ TaskBegins(m)
    BY <2>2, TimerLatest
  <2>3. ASSUME NEW m \in Messages, TaskFails(m) PROVE Delivered' /\ KeepsLatest'
    <3>1. m \in Batches /\ m # Consumer
      BY Names
    <3> QED
      BY <2>3, <3>1, EndsLatest DEF TaskFails, sessionVars, consumerVars, pastVars
  <2>4. CASE ConsumerDone
    BY <2>4, EndsLatest, Names DEF ConsumerDone, sessionVars, pastVars
  <2>5. CASE \E b \in Batches : BatchGoesOn(b)
    BY <2>5, GoesOnLatest
  <2>6. CASE ConsumerFails
    BY <2>6, FailsLatest
  <2>7. CASE ThreadSends
    BY <2>7, ThreadLatest
  <2>8. CASE AdminSends
    BY <2>8, AdminLatest
  <2>9. CASE World \/ Tick \/ UNCHANGED vars
    BY <2>9, WorldLatest
  <2> QED
    BY <2>1, <2>2, <2>3, <2>4, <2>5, <2>6, <2>7, <2>8, <2>9 DEF Next, Scheduled
<1> QED
  BY <1>1, <1>2 DEF LatestInv

\* The newest message of an action is not lost but with its session: it was
\* sent, is pending, or is in the consumer's hands.
THEOREM LatestIsKept == Spec => []KeepsLatest
<1>1. Init => LatestInv
  <2>1. ASSUME Init PROVE LatestInv
    <3>1. BufferInv
      BY <2>1, BufferInit
    <3>2. Delivered
      BY <2>1 DEF Init, Delivered, NoBatch
    <3>3. KeepsLatest
      BY <2>1 DEF Init, KeepsLatest
    <3> QED
      BY <3>1, <3>2, <3>3 DEF LatestInv
  <2> QED
    BY <2>1
<1>2. LatestInv => KeepsLatest
  BY DEF LatestInv
<1> QED
  BY <1>1, <1>2, LatestStep, PTL DEF Spec

-----------------------------------------------------------------------------
(* What is pending will be seen *)

Due == \E m \in Messages : timer[m] # Off \/ batch[m].at = "task"
Seen == \A m \in Range(pending) : \E b \in Batches : m \in Range(batch[b].left)

\* The timers run on, tasks wait on, and batches hold what is still pending.
LEMMA FlushCarried ==
    ASSUME FlushInv, handle' \in {handle, NoTimer},
           \A m \in Messages : timer[m] # Off => timer'[m] # Off,
           \A m \in Messages : batch[m].at = "task" => batch'[m].at = "task",
           \A b \in Batches : batch'[b].at = "failed" => batch[b].at = "failed" \/ ~working',
           working' => working, stranded => stranded',
           pending' # <<>> => pending # <<>>, Seen => Seen'
    PROVE  Timers' /\ BufferedHasFlush'
<1>1. handle \in Messages \cup {NoTimer}
  BY DEF FlushInv, BufferInv, TypeOK
<1>2. Timers'
  BY <1>1 DEF FlushInv, Timers
<1>3. Due => Due'
  BY DEF Due
<1>4. pending # <<>> /\ working /\ ~stranded => Due \/ Seen
  BY DEF FlushInv, BufferedHasFlush, Due, Seen
<1>5. pending' # <<>> /\ working' /\ ~stranded' => Due' \/ Seen'
  BY <1>3, <1>4
<1> QED
  BY <1>2, <1>5 DEF BufferedHasFlush, Due, Seen

\* A batch begins: it holds all that is pending, and the handle is forgotten.
LEMMA FlushBegun ==
    ASSUME FlushInv, NEW b \in Batches, handle' = NoTimer,
           \A c \in Batches : c # b => batch'[c] = batch[c],
           batch'[b].at # "failed", working' = working,
           pending' = <<>> \/ batch'[b].left = pending'
    PROVE  Timers' /\ BufferedHasFlush'
<1>1. Timers'
  BY DEF FlushInv, Timers
<1>2. CASE pending' = <<>>
  BY <1>1, <1>2 DEF BufferedHasFlush
<1>3. CASE batch'[b].left = pending'
  <2>1. \A m \in Range(pending') : m \in Range(batch'[b].left)
    BY <1>3
  <2> QED
    BY <1>1, <2>1 DEF BufferedHasFlush
<1> QED
  BY <1>2, <1>3

LEMMA ReceiveFlush ==
    ASSUME FlushInv, Receive PROVE Timers' /\ BufferedHasFlush'
<1>0. BufferInv /\ batch \in [Batches -> Batching]
  BY DEF FlushInv, BufferInv, TypeOK, Batching
<1>1. CASE ReceiveForwards /\ pending = <<>>
  <2> DEFINE r == [NoBatch EXCEPT !.at = "sending"]
  <2>1. /\ handle' = NoTimer /\ batch' = [batch EXCEPT ![Consumer] = r]
        /\ r.at = "sending" /\ working' = working /\ pending' = <<>>
    BY <1>1 DEF ReceiveForwards, Forward, NoBatch
  <2> HIDE DEF r
  <2>2. batch'[Consumer].at # "failed" /\ \A c \in Batches : c # Consumer => batch'[c] = batch[c]
    BY <1>0, <2>1, Names
  <2> QED
    BY <2>1, <2>2, Names, FlushBegun
<1>2. ASSUME handle' = NoTimer, working' = working,
             batch' = [batch EXCEPT ![Consumer] = [at |-> "sending", left |-> pending', ago |-> 0]]
      PROVE  Timers' /\ BufferedHasFlush'
  <2>1. /\ batch'[Consumer].at # "failed" /\ batch'[Consumer].left = pending'
        /\ \A c \in Batches : c # Consumer => batch'[c] = batch[c]
    BY <1>0, <1>2, Names
  <2> QED
    BY <1>2, <2>1, Names, FlushBegun
<1>3. CASE ReceiveForwards /\ pending # <<>>
  <2>1. handle' = NoTimer /\ working' = working
        /\ batch' = [batch EXCEPT ![Consumer] = [at |-> "sending", left |-> pending', ago |-> 0]]
    BY <1>3 DEF ReceiveForwards, Forward, Begin, HandleAfter
  <2> QED
    BY <1>2, <2>1
<1>4. CASE ReceiveFlushes
  BY <1>2, <1>4 DEF ReceiveFlushes, Begin, HandleAfter
<1>5. CASE ReceiveBuffers
  <2>1. /\ UNCHANGED <<batch, working>> /\ received + 1 \in Messages /\ interval > 0
        /\ IF handle = NoTimer
           THEN handle' = received + 1 /\ timer' = [timer EXCEPT ![received + 1] = interval]
           ELSE UNCHANGED <<handle, timer>>
    BY <1>0, <1>5, ArrivalIs DEF ReceiveBuffers, Arrived
  <2>2. handle' \in Messages /\ (timer'[handle'] # Off \/ batch'[handle'].at = "task")
    <3>1. CASE handle = NoTimer
      <4>1. timer'[received + 1] = interval
        BY <1>0, <2>1, <3>1 DEF BufferInv, TypeOK
      <4>2. interval # Off
        BY <2>1 DEF Off
      <4> QED
        BY <2>1, <3>1, <4>1, <4>2
    <3>2. CASE handle # NoTimer
      BY <2>1, <3>2 DEF FlushInv, Timers, BufferInv, TypeOK
    <3> QED
      BY <3>1, <3>2
  <2>3. Timers'
    BY <2>1, <2>2 DEF FlushInv, Timers
  <2> QED
    BY <2>2, <2>3 DEF BufferedHasFlush
<1> QED
  BY <1>1, <1>3, <1>4, <1>5 DEF Receive

LEMMA TimerFlush ==
    ASSUME FlushInv, NEW m \in Messages, TimerFires(m) \/ TaskBegins(m)
    PROVE  Timers' /\ BufferedHasFlush'
<1>0. batch \in [Batches -> Batching] /\ m \in Batches /\ handle \in Messages \cup {NoTimer}
      /\ timer \in [Messages -> Ages \cup {Off}]
  BY Names DEF FlushInv, BufferInv, TypeOK, Batching
<1>1. CASE TimerFires(m)
  <2> DEFINE r == [NoBatch EXCEPT !.at = "task"]
  <2>1. /\ batch' = [batch EXCEPT ![m] = r] /\ r.at = "task"
        /\ timer' = [timer EXCEPT ![m] = Off] /\ UNCHANGED <<handle, working>>
    BY <1>1 DEF TimerFires, sessionVars, NoBatch
  <2> HIDE DEF r
  <2>2. /\ batch'[m].at = "task" /\ \A c \in Batches : c # m => batch'[c] = batch[c]
        /\ \A n \in Messages : n # m => timer'[n] = timer[n]
    BY <1>0, <2>1
  <2>3. Timers'
    BY <1>0, <2>1, <2>2, Names DEF FlushInv, Timers
  <2> QED
    BY <2>2, <2>3 DEF BufferedHasFlush
<1>2. CASE TaskBegins(m) /\ pending = <<>>
  <2>1. /\ handle' = NoTimer /\ UNCHANGED <<working, pending>>
        /\ batch' = [batch EXCEPT ![m] = [at |-> "off", left |-> <<>>, ago |-> 0]]
    BY <1>2 DEF TaskBegins, HandleAfter, NoBatch
  <2>2. batch'[m].at # "failed" /\ \A c \in Batches : c # m => batch'[c] = batch[c]
    BY <1>0, <2>1
  <2> QED
    BY <1>0, <1>2, <2>1, <2>2, FlushBegun
<1>3. CASE TaskBegins(m) /\ pending # <<>>
  <2>1. /\ handle' = NoTimer /\ UNCHANGED <<working, pending>>
        /\ batch' = [batch EXCEPT ![m] = [at |-> "sending", left |-> pending, ago |-> 0]]
    BY <1>3 DEF TaskBegins, Begin, HandleAfter
  <2>2. batch'[m].at # "failed" /\ batch'[m].left = pending
        /\ \A c \in Batches : c # m => batch'[c] = batch[c]
    BY <1>0, <2>1
  <2> QED
    BY <1>0, <2>1, <2>2, FlushBegun
<1> QED
  BY <1>1, <1>2, <1>3

LEMMA ThreadFlush ==
    ASSUME FlushInv, ThreadSends PROVE Timers' /\ BufferedHasFlush'
<1>0. BufferInv /\ batch \in [Batches -> Batching]
  BY DEF FlushInv, BufferInv, TypeOK, Batching
<1>1. /\ outbox # <<>>
      /\ batch' = [batch EXCEPT ![Head(outbox).by].at = IF working THEN "sent" ELSE "failed"]
      /\ UNCHANGED <<sessionVars, timer, stranded>>
  BY DEF ThreadSends
<1>2. Head(outbox) = outbox[1] /\ 1 \in DOMAIN outbox
  BY <1>0, <1>1, TailIs DEF BufferInv, TypeOK
<1>3. PICK b \in Batches \ {Admin} : b = Head(outbox).by /\ batch[b].at = "sending"
  BY <1>0, <1>2 DEF BufferInv, Thread
<1>4. /\ \A c \in Batches : c # b => batch'[c] = batch[c]
      /\ batch'[b].left = batch[b].left
      /\ batch'[b].at = "failed" => ~working
  BY <1>0, <1>1, <1>3 DEF Batching
<1>5. Seen => Seen'
  BY <1>1, <1>4 DEF Seen, sessionVars
<1> QED
  BY <1>1, <1>3, <1>4, <1>5, Names, FlushCarried DEF sessionVars

\* A sender takes out what it has sent and goes on with what is behind it.
LEMMA SeenBehind ==
    ASSUME Seen, NEW b \in Batches, batch[b].left \in Seq(Messages), batch[b].left # <<>>,
           Range(pending') = Range(pending) \ {Head(batch[b].left)},
           \A c \in Batches : c # b => batch'[c] = batch[c],
           Tail(batch[b].left) # <<>> => batch'[b].left = Tail(batch[b].left)
    PROVE  Seen'
<1>1. /\ Range(batch[b].left) = {Head(batch[b].left)} \cup Range(Tail(batch[b].left))
      /\ Tail(batch[b].left) \in Seq(Messages)
  BY TailIs
<1>2. Tail(batch[b].left) = <<>> => Range(Tail(batch[b].left)) = {}
  BY EmptySeq DEF Range
<1>3. ASSUME NEW m \in Range(pending')
      PROVE  \E c \in Batches : m \in Range(batch'[c].left)
  <2>1. PICK c \in Batches : m \in Range(batch[c].left)
    BY <1>3 DEF Seen
  <2>2. CASE c = b
    BY <1>1, <1>2, <1>3, <2>1, <2>2
  <2>3. CASE c # b
    BY <2>1, <2>3
  <2> QED
    BY <2>2, <2>3
<1> QED
  BY <1>3 DEF Seen

LEMMA GoesOnFlush ==
    ASSUME FlushInv, NEW b \in Batches, BatchGoesOn(b) PROVE Timers' /\ BufferedHasFlush'
<1>0. BufferInv /\ batch \in [Batches -> Batching]
  BY DEF FlushInv, BufferInv, TypeOK, Batching
<1>1. /\ Resumes(b) /\ batch[b].at = "sent" /\ ~Direct(b)
      /\ pending' = Take(pending, Head(batch[b].left))
      /\ UNCHANGED <<working, handle, timer, stranded>>
  BY DEF BatchGoesOn, Direct, pastVars
<1>2. /\ batch[b].left \in Seq(Messages) /\ batch[b].left # <<>>
      /\ Range(pending') = Range(pending) \ {Head(batch[b].left)}
      /\ pending' \in Seq(Messages)
  BY <1>0, <1>1, ResumedIs DEF InHand
<1>3. /\ \A c \in Batches : c # b => batch'[c] = batch[c]
      /\ batch'[b].at \in {"off", "sending"}
      /\ Tail(batch[b].left) # <<>> => batch'[b].left = Tail(batch[b].left)
  <2>1. CASE Tail(batch[b].left) # <<>>
    <3>1. batch' = [batch EXCEPT ![b].at = "sending", ![b].left = Tail(batch[b].left)]
      BY <2>1 DEF BatchGoesOn
    <3> QED
      BY <1>0, <3>1 DEF Batching
  <2>2. CASE Tail(batch[b].left) = <<>>
    <3>1. \/ b = Consumer /\ batch' = [batch EXCEPT ![b] = [NoBatch EXCEPT !.at = "sending"]]
          \/ batch' = [batch EXCEPT ![b] = NoBatch]
      BY <2>2 DEF BatchGoesOn
    <3> QED
      BY <1>0, <2>2, <3>1 DEF NoBatch
  <2> QED
    BY <2>1, <2>2
<1>4. Seen => Seen'
  BY <1>2, <1>3, SeenBehind
<1>5. pending' # <<>> => pending # <<>>
  <2>1. CASE pending = <<>>
    <3>1. Range(pending) = {}
      BY <2>1 DEF Range
    <3> QED
      BY <1>1, <2>1 DEF Take
  <2> QED
    BY <2>1
<1> QED
  BY <1>1, <1>3, <1>4, <1>5, Names, FlushCarried

LEMMA FailsFlush ==
    ASSUME FlushInv, ConsumerFails PROVE Timers' /\ BufferedHasFlush'
<1>1. CASE SessionGone
  BY <1>1 DEF SessionGone, Forgotten, Timers, BufferedHasFlush, NoBatch
<1>2. CASE Reconnects
  <2>1. handle' = NoTimer /\ pending' = pending
    BY <1>2 DEF Reconnects
  <2>2. Timers'
    BY <1>2, <2>1 DEF Reconnects, Timers, NoBatch
  <2>3. stranded' \/ batch'[Consumer].left = pending'
    BY <1>2, Names DEF Reconnects
  <2>4. BufferedHasFlush'
    BY <2>3, Names DEF BufferedHasFlush
  <2> QED
    BY <2>2, <2>4
<1> QED
  BY <1>1, <1>2 DEF ConsumerFails

LEMMA AdminFlush ==
    ASSUME FlushInv, AdminLowers \/ AdminSends PROVE Timers' /\ BufferedHasFlush'
<1>0. /\ BufferInv /\ batch \in [Batches -> Batching] /\ Admin \in Batches
      /\ \A m \in Messages : m # Admin /\ m \in Batches
  BY Names DEF FlushInv, BufferInv, TypeOK, Batching
<1>1. CASE AdminLowers
  <2>1. /\ handle' = NoTimer /\ UNCHANGED <<working, pending>>
        /\ batch' = IF pending = <<>> THEN batch
                    ELSE [batch EXCEPT ![Admin] = [at |-> "sending", left |-> pending, ago |-> 0]]
    BY <1>1 DEF AdminLowers
  <2>2. /\ \A c \in Batches : c # Admin => batch'[c] = batch[c]
        /\ batch'[Admin].at # "failed"
        /\ pending' = <<>> \/ batch'[Admin].left = pending'
    <3>1. CASE pending = <<>>
      BY <1>0, <2>1, <3>1 DEF BufferInv, Senders
    <3>2. CASE pending # <<>>
      BY <1>0, <2>1, <3>2
    <3> QED
      BY <3>1, <3>2
  <2> QED
    BY <1>0, <2>1, <2>2, FlushBegun
<1>2. CASE AdminSends /\ working
  <2>1. /\ batch[Admin].left \in Seq(Messages) /\ batch[Admin].left # <<>>
    BY <1>0, <1>2, Names DEF AdminSends, BufferInv, TypeOK, Senders, Handed, Direct
  <2>2. /\ pending' = Take(pending, Head(batch[Admin].left))
        /\ UNCHANGED <<working, handle, timer, stranded>>
    BY <1>2 DEF AdminSends
  <2>3. Range(pending') = Range(pending) \ {Head(batch[Admin].left)}
    BY <1>0, <2>2, TakeIs DEF BufferInv, TypeOK
  <2>4. /\ \A c \in Batches : c # Admin => batch'[c] = batch[c]
        /\ batch'[Admin].at \in {"off", "sending"}
        /\ Tail(batch[Admin].left) # <<>> => batch'[Admin].left = Tail(batch[Admin].left)
    <3> DEFINE left == Tail(batch[Admin].left)
    <3>1. batch' = [batch EXCEPT ![Admin] = IF left = <<>> THEN NoBatch
                                            ELSE [@ EXCEPT !.left = left]]
          /\ batch[Admin].at = "sending"
      BY <1>2 DEF AdminSends
    <3> HIDE DEF left
    <3>2. /\ \A c \in Batches : c # Admin => batch'[c] = batch[c]
          /\ batch'[Admin].at \in {"off", "sending"}
          /\ left # <<>> => batch'[Admin].left = left
      <4>1. CASE left = <<>>
        BY <1>0, <3>1, <4>1 DEF NoBatch
      <4>2. CASE left # <<>>
        <5>1. batch' = [batch EXCEPT ![Admin] = [batch[Admin] EXCEPT !.left = left]]
          BY <3>1, <4>2
        <5>2. batch'[Admin] = [batch[Admin] EXCEPT !.left = left] /\ batch[Admin] \in Batching
          BY <1>0, <5>1
        <5> QED
          BY <1>0, <3>1, <5>1, <5>2 DEF Batching
      <4> QED
        BY <4>1, <4>2
    <3> QED
      BY <3>2 DEF left
  <2>5. Seen => Seen'
    BY <1>0, <2>1, <2>3, <2>4, SeenBehind
  <2>6. pending' # <<>> => pending # <<>>
    BY <2>2 DEF Take
  <2> QED
    BY <1>0, <2>2, <2>4, <2>5, <2>6, FlushCarried
<1>3. CASE AdminSends /\ ~working
  <2>1. UNCHANGED <<handle, timer, working>>
        /\ batch' = [batch EXCEPT ![Admin] = [at |-> "off", left |-> <<>>, ago |-> 0]]
    BY <1>3 DEF AdminSends, NoBatch
  <2>2. /\ \A c \in Batches : c # Admin => batch'[c] = batch[c]
        /\ batch'[Admin].at = "off"
    BY <1>0, <2>1
  <2>3. handle \in Messages \cup {NoTimer}
    BY <1>0 DEF BufferInv, TypeOK
  <2>4. Timers'
    BY <1>0, <2>1, <2>2, <2>3 DEF FlushInv, Timers
  <2> QED
    BY <1>3, <2>1, <2>4 DEF BufferedHasFlush
<1> QED
  BY <1>1, <1>2, <1>3

\* The session breaks or changes, or a sender with nothing left ends.
LEMMA ElsewhereFlush ==
    ASSUME FlushInv, UNCHANGED <<pending, handle, stranded>>, working' => working,
           \A m \in Messages : timer[m] # Off => timer'[m] # Off,
           \A b \in Batches : batch[b].at \in {"task", "failed"} \/ batch'[b].at \in {"task", "failed"}
               => batch'[b].at = batch[b].at,
           \A b \in Batches : batch'[b].left = batch[b].left
    PROVE  Timers' /\ BufferedHasFlush'
<1>1. Seen => Seen'
  BY DEF Seen
<1> QED
  BY <1>1, Names, FlushCarried

LEMMA DoneFlush ==
    ASSUME FlushInv, ConsumerDone PROVE Timers' /\ BufferedHasFlush'
<1>1. /\ batch[Consumer].at = "sent" /\ batch[Consumer].left = <<>>
      /\ batch' = [batch EXCEPT ![Consumer] = [at |-> "off", left |-> <<>>, ago |-> 0]]
      /\ UNCHANGED <<pending, handle, stranded, working, timer>>
  BY DEF ConsumerDone, FlushInv, BufferInv, Senders, sessionVars, pastVars, NoBatch
<1>2. /\ \A c \in Batches : c # Consumer => batch'[c] = batch[c]
      /\ batch'[Consumer].at = "off" /\ batch'[Consumer].left = <<>>
  BY <1>1, Names DEF FlushInv, BufferInv, TypeOK
<1> QED
  BY <1>1, <1>2, ElsewhereFlush

LEMMA TaskFailsFlush ==
    ASSUME FlushInv, NEW m \in Messages, TaskFails(m) PROVE Timers' /\ BufferedHasFlush'
<1>1. /\ batch[m].at = "failed" /\ m \in Batches
      /\ batch' = [batch EXCEPT ![m] = [at |-> "off", left |-> <<>>, ago |-> 0]]
      /\ UNCHANGED <<handle, working, timer>>
  BY Names DEF TaskFails, sessionVars, NoBatch
<1>2. /\ \A c \in Batches : c # m => batch'[c] = batch[c]
      /\ batch'[m].at = "off"
  BY <1>1 DEF FlushInv, BufferInv, TypeOK
<1>3. ~working' /\ handle \in Messages \cup {NoTimer}
  BY <1>1 DEF FlushInv, Timers, BufferInv, TypeOK
<1>4. Timers'
  BY <1>1, <1>2, <1>3, Names DEF FlushInv, Timers
<1> QED
  BY <1>3, <1>4 DEF BufferedHasFlush

LEMMA WorldFlush ==
    ASSUME FlushInv, World \/ Tick \/ UNCHANGED vars PROVE Timers' /\ BufferedHasFlush'
<1>1. CASE ConnectionBreaks \/ SyncSetsInterval \/ UNCHANGED vars
  BY <1>1, ElsewhereFlush
  DEF ConnectionBreaks, SyncSetsInterval, vars, sessionVars, pastVars
<1>2. CASE SessionRemoved
  <2>1. CASE consumer = "idle"
    BY <1>2, <2>1 DEF SessionRemoved, SessionGone, Forgotten, Timers, BufferedHasFlush, NoBatch
  <2>2. CASE consumer # "idle"
    BY <1>2, <2>2, ElsewhereFlush DEF SessionRemoved
  <2> QED
    BY <2>1, <2>2
<1>3. CASE SyncConnects
  BY <1>3 DEF SyncConnects, Forgotten, Timers, BufferedHasFlush, NoBatch
<1>4. CASE AdminLowers
  BY <1>4, AdminFlush
<1>5. CASE Tick
  BY <1>5, TickIs, ElsewhereFlush DEF FlushInv
<1> QED
  BY <1>1, <1>2, <1>3, <1>4, <1>5 DEF World

LEMMA FlushStep == ASSUME FlushInv, [Next]_vars PROVE FlushInv'
<1>1. BufferInv'
  BY BufferStep DEF FlushInv
<1>2. Timers' /\ BufferedHasFlush'
  <2>1. CASE Receive
    BY <2>1, ReceiveFlush
  <2>2. CASE \E m \in Messages : TimerFires(m) \/ TaskBegins(m) \/ TaskFails(m)
    BY <2>2, TimerFlush, TaskFailsFlush
  <2>3. CASE ConsumerDone
    BY <2>3, DoneFlush
  <2>4. CASE \E b \in Batches : BatchGoesOn(b)
    BY <2>4, GoesOnFlush
  <2>5. CASE ConsumerFails
    BY <2>5, FailsFlush
  <2>6. CASE ThreadSends
    BY <2>6, ThreadFlush
  <2>7. CASE AdminSends
    BY <2>7, AdminFlush
  <2>8. CASE World \/ Tick \/ UNCHANGED vars
    BY <2>8, WorldFlush
  <2> QED
    BY <2>1, <2>2, <2>3, <2>4, <2>5, <2>6, <2>7, <2>8 DEF Next, Scheduled
<1> QED
  BY <1>1, <1>2 DEF FlushInv

\* What is pending on a working session has a timer or a batch that will see
\* it, whatever handles were forgotten and whatever batches failed.
THEOREM PendingIsSeen == Spec => []BufferedHasFlush
<1>1. Init => FlushInv
  <2>1. ASSUME Init PROVE FlushInv
    <3>1. BufferInv
      BY <2>1, BufferInit
    <3>2. Timers /\ BufferedHasFlush
      BY <2>1 DEF Init, Timers, BufferedHasFlush, NoBatch
    <3> QED
      BY <3>1, <3>2 DEF FlushInv
  <2> QED
    BY <2>1
<1>2. FlushInv => BufferedHasFlush
  BY DEF FlushInv
<1> QED
  BY <1>1, <1>2, FlushStep, PTL DEF Spec
=============================================================================
