--------------------- MODULE TransactionRequestsProofs ---------------------
(***************************************************************************)
(* Proofs about TransactionRequests, for any chargers, consumers, requests *)
(* and transactions: the two indexes always agree with the table they are  *)
(* kept beside, so that lookups through them overlook nothing; a request   *)
(* is completed by the end of its own transaction alone; and a request the *)
(* charger refused stays refused.                                          *)
(***************************************************************************)
EXTENDS TransactionRequests, TLAPS

-----------------------------------------------------------------------------
(* The store *)

StoreTypes ==
    /\ tracked \subseteq Requests
    /\ entry \in [Requests -> Entries \cup {NoEntry}]
    /\ \A r \in tracked : entry[r] # NoEntry
    /\ byConnector \in [Chargers \X Slots -> SUBSET Requests]
    /\ byTransaction \in [Txs -> SUBSET Requests]

LEMMA NoEntryNone == NoEntry \notin Entries
  <1> SUFFICES NoEntry.status \notin {"requested", "accepted", "rejected", "started", "completed"}
    BY DEF Entries
  <1> QED
    BY DEF NoEntry

LEMMA RegisterAgrees ==
  ASSUME StoreTypes, IndexesAgree, NEW r \in Requests, r \notin tracked,
         NEW e \in Entries, Register(r, e)
  PROVE  StoreTypes' /\ IndexesAgree'
  <1>1. e.charger \in Chargers /\ e.slot \in Slots /\ e.tx \in AnyTx
    BY DEF Entries
  <1>2. entry'[r] = e /\ \A q \in Requests : q # r => entry'[q] = entry[q]
    BY DEF Register, StoreTypes
  <1>3. StoreTypes'
    <2>1. tracked' \subseteq Requests /\ entry' \in [Requests -> Entries \cup {NoEntry}]
      BY DEF Register, StoreTypes
    <2>2. \A q \in tracked' : entry'[q] # NoEntry
      BY <1>2, NoEntryNone DEF Register, StoreTypes
    <2>3. byConnector' \in [Chargers \X Slots -> SUBSET Requests]
      BY DEF Register, StoreTypes
    <2>4. byTransaction' \in [Txs -> SUBSET Requests]
      BY DEF Register, StoreTypes
    <2> QED
      BY <2>1, <2>2, <2>3, <2>4 DEF StoreTypes
  <1>4. \A c \in Chargers, s \in Slots :
           byConnector'[<<c, s>>] = {q \in tracked' : entry'[q].charger = c /\ entry'[q].slot = s}
    BY <1>1, <1>2 DEF Register, StoreTypes, IndexesAgree
  <1>5. \A t \in Txs : byTransaction'[t] = {q \in tracked' : entry'[q].tx = t}
    BY <1>1, <1>2, ConstantsAssumption DEF Register, StoreTypes, IndexesAgree, AnyTx
  <1> QED
    BY <1>3, <1>4, <1>5 DEF IndexesAgree

LEMMA UpdateAgrees ==
  ASSUME StoreTypes, IndexesAgree, NEW rs, NEW tx \in AnyTx,
         NEW status \in {"requested", "accepted", "rejected", "started", "completed"},
         Update(rs, tx, status)
  PROVE  StoreTypes' /\ IndexesAgree'
  <1> DEFINE now == rs \cap tracked
  <1>0. NoEntry \notin Entries
    BY NoEntryNone
  <1>1. \A q \in tracked :
           /\ entry'[q] \in Entries
           /\ entry'[q].charger = entry[q].charger /\ entry'[q].slot = entry[q].slot
           /\ entry'[q].tx = IF q \in now /\ tx # NoTx THEN tx ELSE entry[q].tx
    <2> SUFFICES ASSUME NEW q \in tracked
                 PROVE  /\ entry'[q] \in Entries
                        /\ entry'[q].charger = entry[q].charger /\ entry'[q].slot = entry[q].slot
                        /\ entry'[q].tx = IF q \in now /\ tx # NoTx THEN tx ELSE entry[q].tx
      OBVIOUS
    <2>1. q \in Requests /\ entry[q] \in Entries
      BY DEF StoreTypes
    <2>2. entry'[q] = IF q \in now THEN Rebound(entry[q], tx, status) ELSE entry[q]
      BY <2>1 DEF Update
    <2>3. CASE q \in now
      BY <2>1, <2>2, <2>3 DEF Rebound, Entries, AnyTx
    <2>4. CASE q \notin now
      BY <2>1, <2>2, <2>4
    <2> QED
      BY <2>3, <2>4
  <1>2. tracked' = tracked /\ byConnector' = byConnector
    BY DEF Update
  <1>3. byTransaction' \in [Txs -> SUBSET Requests]
    BY DEF Update, StoreTypes, Leaving
  <1>4. entry' \in [Requests -> Entries \cup {NoEntry}]
    <2>1. entry' = [q \in Requests |-> IF q \in now THEN Rebound(entry[q], tx, status)
                                        ELSE entry[q]]
      BY DEF Update
    <2>2. \A q \in Requests : q \notin now => entry'[q] = entry[q]
      BY <2>1
    <2> QED
      BY <1>1, <2>1, <2>2 DEF StoreTypes
  <1>5. StoreTypes'
    BY <1>0, <1>1, <1>2, <1>3, <1>4 DEF StoreTypes
  <1>6. \A c \in Chargers, s \in Slots :
           byConnector'[<<c, s>>] = {q \in tracked' : entry'[q].charger = c /\ entry'[q].slot = s}
    BY <1>1, <1>2 DEF IndexesAgree
  <1>7. \A t \in Txs : byTransaction'[t] = {q \in tracked' : entry'[q].tx = t}
    <2>1. CASE tx = NoTx
      <3>1. byTransaction' = byTransaction
        BY <2>1 DEF Update
      <3> QED
        BY <1>1, <1>2, <2>1, <3>1 DEF IndexesAgree
    <2>2. CASE tx # NoTx
      <3> SUFFICES ASSUME NEW t \in Txs
                   PROVE  byTransaction'[t] = {q \in tracked' : entry'[q].tx = t}
        OBVIOUS
      <3>1. byTransaction'[t] = IF t = tx THEN byTransaction[t] \cup now
                                ELSE byTransaction[t] \ now
        BY <2>2 DEF Update, Leaving
      <3> QED
        BY <1>1, <1>2, <2>2, <3>1 DEF IndexesAgree
    <2> QED
      BY <2>1, <2>2
  <1> QED
    BY <1>5, <1>6, <1>7 DEF IndexesAgree

LEMMA ClearAgrees ==
  ASSUME StoreTypes, IndexesAgree, NEW c \in Chargers, Clear(c)
  PROVE  StoreTypes' /\ IndexesAgree'
  <1>1. StoreTypes'
    BY DEF Clear, StoreTypes
  <1>2. IndexesAgree'
    BY DEF Clear, StoreTypes, IndexesAgree
  <1> QED
    BY <1>1, <1>2

\* The code's lookups overlook nothing once the indexes agree.
LEMMA AgreeingFindAll ==
  ASSUME StoreTypes, IndexesAgree
  PROVE  FindsAll
  <1> SUFFICES ASSUME NEW c \in Chargers, NEW s \in Slots, NEW t \in AnyTx, NEW r \in tracked,
                      entry[r].charger = c,
                      s # All => entry[r].slot = s,
                      t # NoTx => entry[r].tx = t
               PROVE  r \in Candidates(c, s, t)
    BY DEF FindsAll
  <1>1. CASE t # NoTx
    BY <1>1 DEF Candidates, IndexesAgree, AnyTx
  <1>2. CASE t = NoTx /\ s # All
    BY <1>2 DEF Candidates, IndexesAgree
  <1>3. CASE t = NoTx /\ s = All
    BY <1>3 DEF Candidates
  <1> QED
    BY <1>1, <1>2, <1>3

-----------------------------------------------------------------------------
(* The inductive invariant *)

OtherTypes ==
    /\ called \subseteq Requests
    /\ operator \in [Requests -> [at : {"new", "sent", "called", "done"},
                                  entry : Entries \cup {NoEntry}]]
    /\ \A r \in Requests : operator[r].at # "new" => operator[r].entry # NoEntry
    /\ inbox \in [Consumers -> Seq(Messages)]
    /\ deciding \in [Consumers -> BOOLEAN]
    /\ found \in [Consumers -> SUBSET Requests]
    /\ socket \in [Chargers -> Consumers \cup {NoConsumer}]
    /\ asked \subseteq Requests
    /\ running \in [Chargers \X Connectors -> AnyTx]
    /\ used \subseteq Chargers \X Txs
    /\ refused \subseteq Requests /\ over \subseteq Chargers \X Txs

\* A request is filed by its operator's last step and by no other; a consumer
\* that decides about an event has it still at the head of its inbox.
Order ==
    /\ \A r \in Requests : operator[r].at # "done" => r \notin tracked
    /\ \A n \in Consumers : deciding[n] => inbox[n] # <<>>

RequestsInv == StoreTypes /\ IndexesAgree /\ OtherTypes /\ Order

LEMMA TypesSplit == TypeOK <=> StoreTypes /\ OtherTypes
  BY DEF TypeOK, StoreTypes, OtherTypes

LEMMA InitInv == Init => RequestsInv
  <1> SUFFICES ASSUME Init PROVE RequestsInv
    OBVIOUS
  <1>1. StoreTypes /\ IndexesAgree
    BY DEF Init, StoreTypes, IndexesAgree
  <1>2. OtherTypes
    BY DEF Init, OtherTypes, AnyTx
  <1>3. Order
    BY DEF Init, Order
  <1> QED
    BY <1>1, <1>2, <1>3 DEF RequestsInv

LEMMA StoreKept ==
  ASSUME StoreTypes, IndexesAgree, UNCHANGED storeVars
  PROVE  StoreTypes' /\ IndexesAgree'
  BY DEF StoreTypes, IndexesAgree, storeVars, indexVars

\* The message at the head of an inbox.
LEMMA HeadMessage ==
  ASSUME OtherTypes, NEW n \in Consumers, inbox[n] # <<>>
  PROVE  /\ Head(inbox[n]) \in Messages
         /\ Head(inbox[n]).tx \in AnyTx
         /\ Head(inbox[n]).kind \in {"started", "ended"} => Head(inbox[n]).tx \in Txs
         /\ Tail(inbox[n]) \in Seq(Messages)
  <1>1. Head(inbox[n]) \in Messages /\ Tail(inbox[n]) \in Seq(Messages)
    BY DEF OtherTypes
  <1>2. \A m \in Messages : /\ m.tx \in AnyTx
                            /\ m.kind \in {"started", "ended"} => m.tx \in Txs
    <2> SUFFICES ASSUME NEW m \in Messages
                 PROVE  m.tx \in AnyTx /\ (m.kind \in {"started", "ended"} => m.tx \in Txs)
      OBVIOUS
    <2>1. CASE m \in Answers
      BY <2>1 DEF Answers
    <2>2. CASE m \in Events
      BY <2>2 DEF Events, AnyTx
    <2>3. CASE m = Closing
      BY <2>3 DEF Closing, AnyTx
    <2> QED
      BY <2>1, <2>2, <2>3 DEF Messages
  <1> QED
    BY <1>1, <1>2

LEMMA DoneTypes ==
  ASSUME OtherTypes, Order, NEW n \in Consumers, inbox[n] # <<>>, Done(n)
  PROVE  /\ inbox' \in [Consumers -> Seq(Messages)]
         /\ deciding' \in [Consumers -> BOOLEAN]
         /\ found' \in [Consumers -> SUBSET Requests]
         /\ \A k \in Consumers : deciding'[k] => inbox'[k] # <<>>
  <1>1. Tail(inbox[n]) \in Seq(Messages)
    BY HeadMessage
  <1>2. inbox' \in [Consumers -> Seq(Messages)]
    BY <1>1 DEF Done, OtherTypes
  <1>3. deciding' \in [Consumers -> BOOLEAN] /\ found' \in [Consumers -> SUBSET Requests]
    BY DEF Done, OtherTypes
  <1>4. \A k \in Consumers : deciding'[k] => k # n /\ deciding[k]
    BY DEF Done, OtherTypes
  <1>5. \A k \in Consumers : k # n => inbox'[k] = inbox[k]
    BY DEF Done, OtherTypes
  <1> QED
    BY <1>2, <1>3, <1>4, <1>5 DEF Order

-----------------------------------------------------------------------------
(* The operators' steps *)

LEMMA SendsInv ==
  ASSUME RequestsInv, NEW r \in Requests, NEW action \in {"start", "stop"},
         NEW c \in Chargers, NEW s \in Slots, NEW t \in AnyTx,
         OperatorSends(r, action, c, s, t)
  PROVE  RequestsInv'
  <1> DEFINE e == [action |-> action, charger |-> c, slot |-> s, tx |-> t, status |-> "requested"]
  <1>1. e \in Entries
    BY DEF Entries
  <1>2. operator' = [operator EXCEPT ![r] = [at |-> "sent", entry |-> e]]
    BY DEF OperatorSends
  <1>3. StoreTypes' /\ IndexesAgree'
    BY StoreKept DEF RequestsInv, OperatorSends, storeVars
  <1>4. operator' \in [Requests -> [at : {"new", "sent", "called", "done"},
                                    entry : Entries \cup {NoEntry}]]
    BY <1>1, <1>2 DEF RequestsInv, OtherTypes
  <1>5. operator'[r] = [at |-> "sent", entry |-> e]
        /\ \A q \in Requests : q # r => operator'[q] = operator[q]
    BY <1>2 DEF RequestsInv, OtherTypes
  <1>6. \A q \in Requests : operator'[q].at # "new" => operator'[q].entry # NoEntry
    <2>1. operator'[r].entry # NoEntry
      BY <1>1, <1>5, NoEntryNone
    <2>2. \A q \in Requests : operator[q].at # "new" => operator[q].entry # NoEntry
      BY DEF RequestsInv, OtherTypes
    <2> QED
      BY <1>5, <2>1, <2>2
  <1>7. asked' \subseteq Requests
    BY DEF OperatorSends, RequestsInv, OtherTypes
  <1>u. UNCHANGED <<called, inbox, deciding, found, socket, running, used, refused, over>>
    BY DEF OperatorSends, consumerVars, pastVars
  <1>8. OtherTypes'
    BY <1>4, <1>6, <1>7, <1>u DEF RequestsInv, OtherTypes
  <1>9. Order'
    <2>1. operator[r].at = "new"
      BY DEF OperatorSends
    <2>2. tracked' = tracked /\ inbox' = inbox /\ deciding' = deciding
      BY DEF OperatorSends, storeVars, consumerVars
    <2> QED
      BY <1>5, <2>1, <2>2 DEF RequestsInv, Order
  <1> QED
    BY <1>3, <1>8, <1>9 DEF RequestsInv

LEMMA RegistersCallInv ==
  ASSUME RequestsInv, NEW r \in Requests, OperatorRegistersCall(r)
  PROVE  RequestsInv'
  <1>1. operator' = [operator EXCEPT ![r].at = "called"] /\ operator[r].at = "sent"
    BY DEF OperatorRegistersCall
  <1>2. StoreTypes' /\ IndexesAgree'
    BY StoreKept DEF RequestsInv, OperatorRegistersCall, storeVars
  <1>3. operator' \in [Requests -> [at : {"new", "sent", "called", "done"},
                                    entry : Entries \cup {NoEntry}]]
        /\ \A q \in Requests : operator'[q].at # "new" => operator'[q].entry # NoEntry
    BY <1>1 DEF RequestsInv, OtherTypes
  <1>4. OtherTypes'
    BY <1>3 DEF RequestsInv, OtherTypes, OperatorRegistersCall, consumerVars, chargerVars, pastVars
  <1>5. Order'
    <2>1. tracked' = tracked /\ inbox' = inbox /\ deciding' = deciding
      BY DEF OperatorRegistersCall, storeVars, consumerVars
    <2>2. \A q \in Requests : operator'[q].at # "done" => operator[q].at # "done"
      BY <1>1 DEF RequestsInv, OtherTypes
    <2> QED
      BY <2>1, <2>2 DEF RequestsInv, Order
  <1> QED
    BY <1>2, <1>4, <1>5 DEF RequestsInv

LEMMA RegistersInv ==
  ASSUME RequestsInv, NEW r \in Requests, OperatorRegisters(r)
  PROVE  RequestsInv'
  <1>1. operator' = [operator EXCEPT ![r].at = "done"] /\ operator[r].at = "called"
    BY DEF OperatorRegisters
  <1>2. operator[r].entry \in Entries /\ r \notin tracked
    BY <1>1 DEF RequestsInv, OtherTypes, Order
  <1>3. StoreTypes' /\ IndexesAgree'
    BY <1>2, RegisterAgrees DEF RequestsInv, OperatorRegisters
  <1>4. operator' \in [Requests -> [at : {"new", "sent", "called", "done"},
                                    entry : Entries \cup {NoEntry}]]
        /\ \A q \in Requests : operator'[q].at # "new" => operator'[q].entry # NoEntry
    BY <1>1 DEF RequestsInv, OtherTypes
  <1>5. OtherTypes'
    BY <1>4 DEF RequestsInv, OtherTypes, OperatorRegisters, consumerVars, chargerVars, pastVars
  <1>6. Order'
    <2>1. tracked' = tracked \cup {r} /\ inbox' = inbox /\ deciding' = deciding
      BY DEF OperatorRegisters, Register, consumerVars
    <2>2. \A q \in Requests : operator'[q].at # "done" => q # r /\ operator[q].at # "done"
      BY <1>1 DEF RequestsInv, OtherTypes
    <2> QED
      BY <2>1, <2>2 DEF RequestsInv, Order
  <1> QED
    BY <1>3, <1>5, <1>6 DEF RequestsInv

-----------------------------------------------------------------------------
(* The consumers' steps *)

LEMMA HandleAnswerInv ==
  ASSUME RequestsInv, NEW n \in Consumers, HandleAnswer(n)
  PROVE  RequestsInv'
  <1> DEFINE m == Head(inbox[n])
  <1>1. inbox[n] # <<>> /\ Done(n)
    BY DEF HandleAnswer, Takes
  <1>2. m.tx \in AnyTx
    BY <1>1, HeadMessage DEF RequestsInv
  <1>3. Outcome(m) \in {"requested", "accepted", "rejected", "started", "completed"}
    BY DEF Outcome
  <1>4. StoreTypes' /\ IndexesAgree' /\ tracked' = tracked
    <2>1. CASE m.request \in called
      <3>1. Update({m.request}, m.tx, Outcome(m))
        BY <2>1 DEF HandleAnswer
      <3> HIDE DEF m
      <3>2. StoreTypes' /\ IndexesAgree'
        BY <1>2, <1>3, <3>1, UpdateAgrees DEF RequestsInv
      <3> QED
        BY <3>1, <3>2 DEF Update
    <2>2. CASE m.request \notin called
      <3>1. UNCHANGED storeVars
        BY <2>2 DEF HandleAnswer
      <3> QED
        BY <3>1, StoreKept DEF RequestsInv, storeVars
    <2> QED
      BY <2>1, <2>2
  <1>5. called' \subseteq Requests /\ refused' \subseteq Requests
    BY DEF HandleAnswer, RequestsInv, StoreTypes, OtherTypes
  <1>6. UNCHANGED <<operator, chargerVars, over>>
    BY DEF HandleAnswer
  <1>7. OtherTypes' /\ Order'
    BY <1>1, <1>4, <1>5, <1>6, DoneTypes DEF RequestsInv, OtherTypes, Order, chargerVars
  <1> QED
    BY <1>4, <1>7 DEF RequestsInv

LEMMA HandleStartedInv ==
  ASSUME RequestsInv, NEW n \in Consumers, HandleStarted(n)
  PROVE  RequestsInv'
  <1>1. StoreTypes' /\ IndexesAgree'
    BY StoreKept DEF RequestsInv, HandleStarted
  <1>2. inbox[n] # <<>>
    BY DEF HandleStarted, Takes
  <1>3. Find(Charger[n], Head(inbox[n]).slot, NoTx, "start", StartStatuses(n)) \subseteq Requests
    BY DEF Find, Match, RequestsInv, StoreTypes
  <1>4. found' \in [Consumers -> SUBSET Requests] /\ deciding' \in [Consumers -> BOOLEAN]
        /\ \A k \in Consumers : deciding'[k] => k = n \/ deciding[k]
    BY <1>3 DEF HandleStarted, RequestsInv, OtherTypes
  <1>5. OtherTypes'
    BY <1>4 DEF RequestsInv, OtherTypes, HandleStarted, chargerVars, pastVars
  <1>6. Order'
    BY <1>2, <1>4 DEF RequestsInv, Order, HandleStarted, storeVars
  <1> QED
    BY <1>1, <1>5, <1>6 DEF RequestsInv

LEMMA DecideInv ==
  ASSUME RequestsInv, NEW n \in Consumers, Decide(n)
  PROVE  RequestsInv'
  <1> DEFINE m == Head(inbox[n])
  <1>1. inbox[n] # <<>> /\ Done(n)
    BY DEF Decide, RequestsInv, Order
  <1>2. m.tx \in AnyTx
    BY <1>1, HeadMessage DEF RequestsInv
  <1>3. StoreTypes' /\ IndexesAgree' /\ tracked' = tracked
    <2>1. CASE Update(found[n], m.tx, "started")
      <3> HIDE DEF m
      <3>1. StoreTypes' /\ IndexesAgree'
        BY <1>2, <2>1, UpdateAgrees DEF RequestsInv
      <3> QED
        BY <2>1, <3>1 DEF Update
    <2>2. CASE UNCHANGED storeVars
      BY <2>2, StoreKept DEF RequestsInv, storeVars
    <2> QED
      BY <2>1, <2>2 DEF Decide
  <1>4. UNCHANGED <<called, operator, chargerVars, pastVars>>
    BY DEF Decide
  <1>5. OtherTypes' /\ Order'
    BY <1>1, <1>3, <1>4, DoneTypes DEF RequestsInv, OtherTypes, Order, chargerVars, pastVars
  <1> QED
    BY <1>3, <1>5 DEF RequestsInv

LEMMA HandleEndedInv ==
  ASSUME RequestsInv, NEW n \in Consumers, HandleEnded(n)
  PROVE  RequestsInv'
  <1> DEFINE m == Head(inbox[n])
  <1>1. inbox[n] # <<>> /\ Done(n)
    BY DEF HandleEnded, Takes
  <1>2. m.tx \in Txs
    BY <1>1, HeadMessage DEF RequestsInv, HandleEnded, Takes
  <1>3. PICK rs : Update(rs, m.tx, "completed")
    BY DEF HandleEnded
  <1>4. StoreTypes' /\ IndexesAgree' /\ tracked' = tracked
    <2> HIDE DEF m
    <2>1. StoreTypes' /\ IndexesAgree'
      BY <1>2, <1>3, UpdateAgrees DEF RequestsInv, AnyTx
    <2> QED
      BY <1>3, <2>1 DEF Update
  <1>5. over' \subseteq Chargers \X Txs
    BY <1>2, ConstantsAssumption DEF HandleEnded, RequestsInv, OtherTypes
  <1>6. UNCHANGED <<called, operator, chargerVars, refused>>
    BY DEF HandleEnded
  <1>7. OtherTypes' /\ Order'
    BY <1>1, <1>4, <1>5, <1>6, DoneTypes DEF RequestsInv, OtherTypes, Order, chargerVars
  <1> QED
    BY <1>4, <1>7 DEF RequestsInv

LEMMA HandleClosedInv ==
  ASSUME RequestsInv, NEW n \in Consumers, HandleClosed(n)
  PROVE  RequestsInv'
  <1>1. inbox[n] # <<>> /\ Done(n)
    BY DEF HandleClosed, Takes
  <1>2. StoreTypes' /\ IndexesAgree'
    BY ClearAgrees, ConstantsAssumption DEF HandleClosed, RequestsInv
  <1>3. tracked' \subseteq tracked /\ called' \subseteq Requests
    BY DEF HandleClosed, Clear, RequestsInv, OtherTypes
  <1>4. UNCHANGED <<operator, chargerVars, pastVars>>
    BY DEF HandleClosed
  <1>5. OtherTypes' /\ Order'
    BY <1>1, <1>3, <1>4, DoneTypes DEF RequestsInv, OtherTypes, Order, chargerVars, pastVars
  <1> QED
    BY <1>2, <1>5 DEF RequestsInv

-----------------------------------------------------------------------------
(* The chargers' steps *)

LEMMA AppendNotEmpty ==
  ASSUME NEW q \in Seq(Messages), NEW m
  PROVE  Append(q, m) # <<>>
  <1>1. Len(Append(q, m)) = Len(q) + 1 /\ Len(q) \in Nat
    OBVIOUS
  <1>2. Len(Append(q, m)) # 0
    BY <1>1
  <1>3. Len(<<>>) = 0
    OBVIOUS
  <1> QED
    BY <1>2, <1>3

LEMMA SaysInv ==
  ASSUME RequestsInv, NEW n \in Consumers, NEW m \in Messages, Says(n, m),
         asked' \subseteq asked, running' \in [Chargers \X Connectors -> AnyTx],
         used' \subseteq Chargers \X Txs
  PROVE  RequestsInv'
  <1>1. inbox' \in [Consumers -> Seq(Messages)]
    BY DEF Says, RequestsInv, OtherTypes
  <1>2. \A k \in Consumers : inbox[k] # <<>> => inbox'[k] # <<>>
    <2> SUFFICES ASSUME NEW k \in Consumers, inbox[k] # <<>> PROVE inbox'[k] # <<>>
      OBVIOUS
    <2>1. inbox'[k] = inbox[k] \/ inbox'[k] = Append(inbox[k], m)
      BY DEF Says, RequestsInv, OtherTypes
    <2> QED
      BY <2>1, AppendNotEmpty DEF RequestsInv, OtherTypes
  <1>3. UNCHANGED <<storeVars, called, operator, deciding, found, socket, pastVars>>
    BY DEF Says
  <1>4. StoreTypes' /\ IndexesAgree'
    BY <1>3, StoreKept DEF RequestsInv
  <1>5. OtherTypes'
    BY <1>1, <1>3 DEF RequestsInv, OtherTypes, pastVars
  <1>6. Order'
    BY <1>2, <1>3 DEF RequestsInv, Order, storeVars
  <1> QED
    BY <1>4, <1>5, <1>6 DEF RequestsInv

LEMMA AnswerInv ==
  ASSUME RequestsInv, NEW n \in Consumers, NEW r \in Requests, NEW accepted \in BOOLEAN,
         NEW t \in AnyTx, Answer(n, r, accepted, t)
  PROVE  RequestsInv'
  <1> DEFINE m == [kind |-> "answer", request |-> r, slot |-> All, tx |-> t,
                   accepted |-> accepted]
  <1>1. m \in Messages
    BY DEF Messages, Answers
  <1>2. Says(n, m) /\ asked' \subseteq asked /\ UNCHANGED <<running, used>>
    BY DEF Answer
  <1> HIDE DEF m
  <1> QED
    BY <1>1, <1>2, SaysInv DEF RequestsInv, OtherTypes

LEMMA EventMessage ==
  ASSUME NEW kind \in {"started", "ended"}, NEW c \in Connectors, NEW t \in Txs
  PROVE  Event(kind, c, t) \in Messages
  BY DEF Event, Messages, Events

LEMMA StartInv ==
  ASSUME RequestsInv, NEW n \in Consumers, NEW c \in Connectors, NEW t \in Txs, Start(n, c, t)
  PROVE  RequestsInv'
  <1>1. running' \in [Chargers \X Connectors -> AnyTx] /\ used' \subseteq Chargers \X Txs
    BY ConstantsAssumption DEF Start, RequestsInv, OtherTypes, AnyTx
  <1>2. Says(n, Event("started", c, t)) /\ asked' = asked
    BY DEF Start
  <1>3. Event("started", c, t) \in Messages
    BY EventMessage
  <1> QED
    BY <1>1, <1>2, <1>3, SaysInv

LEMMA EndInv ==
  ASSUME RequestsInv, NEW n \in Consumers, NEW c \in Connectors, End(n, c)
  PROVE  RequestsInv'
  <1> DEFINE t == running[<<Charger[n], c>>]
  <1>1. t \in Txs
    BY ConstantsAssumption DEF End, RequestsInv, OtherTypes, AnyTx
  <1>2. running' \in [Chargers \X Connectors -> AnyTx] /\ used' = used /\ asked' = asked
    BY DEF End, RequestsInv, OtherTypes, AnyTx
  <1>3. Says(n, Event("ended", c, t))
    BY DEF End
  <1>4. Event("ended", c, t) \in Messages
    BY <1>1, EventMessage
  <1> QED
    BY <1>2, <1>3, <1>4, SaysInv DEF RequestsInv, OtherTypes

LEMMA LeaveInv ==
  ASSUME RequestsInv, NEW n \in Consumers, Leave(n)
  PROVE  RequestsInv'
  <1>1. Closing \in Messages
    BY DEF Messages
  <1>2. inbox' \in [Consumers -> Seq(Messages)]
        /\ \A k \in Consumers : inbox[k] # <<>> => inbox'[k] # <<>>
    <2>1. inbox' \in [Consumers -> Seq(Messages)]
      BY <1>1 DEF Leave, RequestsInv, OtherTypes
    <2> SUFFICES ASSUME NEW k \in Consumers, inbox[k] # <<>> PROVE inbox'[k] # <<>>
      BY <2>1
    <2>2. inbox'[k] = inbox[k] \/ inbox'[k] = Append(inbox[k], Closing)
      BY DEF Leave, RequestsInv, OtherTypes
    <2> QED
      BY <2>2, AppendNotEmpty DEF RequestsInv, OtherTypes
  <1>3. UNCHANGED <<storeVars, called, operator, deciding, found, running, used, pastVars>>
    BY DEF Leave
  <1>4. StoreTypes' /\ IndexesAgree'
    BY <1>3, StoreKept DEF RequestsInv
  <1>5. socket' \in [Chargers -> Consumers \cup {NoConsumer}] /\ asked' \subseteq Requests
    BY DEF Leave, RequestsInv, OtherTypes
  <1>6. OtherTypes'
    BY <1>2, <1>3, <1>5 DEF RequestsInv, OtherTypes, pastVars
  <1>7. Order'
    BY <1>2, <1>3 DEF RequestsInv, Order, storeVars
  <1> QED
    BY <1>4, <1>6, <1>7 DEF RequestsInv

LEMMA ConnectInv ==
  ASSUME RequestsInv, NEW n \in Consumers, Connect(n)
  PROVE  RequestsInv'
  <1>1. UNCHANGED <<storeVars, called, operator, consumerVars, asked, running, used, pastVars>>
    BY DEF Connect
  <1>2. StoreTypes' /\ IndexesAgree'
    BY <1>1, StoreKept DEF RequestsInv
  <1>3. socket' \in [Chargers -> Consumers \cup {NoConsumer}]
    BY DEF Connect, RequestsInv, OtherTypes
  <1>4. OtherTypes'
    BY <1>1, <1>3 DEF RequestsInv, OtherTypes, consumerVars, pastVars
  <1>5. Order'
    BY <1>1 DEF RequestsInv, Order, consumerVars, storeVars
  <1> QED
    BY <1>2, <1>4, <1>5 DEF RequestsInv

-----------------------------------------------------------------------------
(* Every step *)

LEMMA StepInv == RequestsInv /\ [Next]_vars => RequestsInv'
  <1> SUFFICES ASSUME RequestsInv, [Next]_vars PROVE RequestsInv'
    OBVIOUS
  <1>1. ASSUME NEW r \in Requests, OperatorStep(r) PROVE RequestsInv'
    BY <1>1, SendsInv, RegistersCallInv, RegistersInv DEF OperatorStep
  <1>2. ASSUME NEW n \in Consumers, ConsumerStep(n) PROVE RequestsInv'
    BY <1>2, HandleAnswerInv, HandleStartedInv, DecideInv, HandleEndedInv, HandleClosedInv
       DEF ConsumerStep
  <1>3. ASSUME NEW n \in Consumers, ChargerStep(n) PROVE RequestsInv'
    BY <1>3, ConnectInv, LeaveInv, AnswerInv, StartInv, EndInv DEF ChargerStep
  <1>4. CASE UNCHANGED vars
    <2>1. StoreTypes' /\ IndexesAgree'
      BY <1>4, StoreKept DEF RequestsInv, vars
    <2>2. OtherTypes'
      BY <1>4 DEF RequestsInv, OtherTypes, vars, consumerVars, chargerVars, pastVars
    <2>3. Order'
      BY <1>4 DEF RequestsInv, Order, vars, storeVars, consumerVars
    <2> QED
      BY <2>1, <2>2, <2>3 DEF RequestsInv
  <1> QED
    BY <1>1, <1>2, <1>3, <1>4 DEF Next

LEMMA Invariant == Spec => []RequestsInv
  BY InitInv, StepInv, PTL DEF Spec

\* Every variable keeps its type.
THEOREM RequestTypes == Spec => []TypeOK
  <1>1. RequestsInv => TypeOK
    BY TypesSplit DEF RequestsInv
  <1> QED
    BY Invariant, <1>1, PTL

\* The indexes of the transaction requests agree with the table, in whatever
\* order operators and consumers register, rebind, complete and clear them.
THEOREM IndexesAlwaysAgree == Spec => []IndexesAgree
  <1>1. RequestsInv => IndexesAgree
    BY DEF RequestsInv
  <1> QED
    BY Invariant, <1>1, PTL

\* A lookup through the indexes overlooks no request of the table.
THEOREM LookupsFindAll == Spec => []FindsAll
  <1>1. RequestsInv => FindsAll
    BY AgreeingFindAll DEF RequestsInv
  <1> QED
    BY Invariant, <1>1, PTL

-----------------------------------------------------------------------------
(* Completion *)

Completes ==
    \A r \in tracked : entry[r].status # "completed" /\ entry'[r].status = "completed" =>
        /\ entry'[r].tx = entry[r].tx
        /\ <<entry[r].charger, entry[r].tx>> \in over'

\* An update with another status completes nothing.
LEMMA OtherUpdates ==
  ASSUME StoreTypes, NEW rs, NEW tx, NEW status, status # "completed", Update(rs, tx, status)
  PROVE  Completes
  <1> SUFFICES ASSUME NEW r \in tracked, entry[r].status # "completed"
               PROVE  entry'[r].status # "completed"
    BY DEF Completes
  <1>1. entry'[r] = IF r \in rs \cap tracked THEN Rebound(entry[r], tx, status) ELSE entry[r]
    BY DEF Update, StoreTypes
  <1> QED
    BY <1>1 DEF Rebound

\* The end of a transaction completes requests that were bound to it.
LEMMA EndCompletes ==
  ASSUME RequestsInv, NEW n \in Consumers, HandleEnded(n)
  PROVE  Completes
  <1> DEFINE m == Head(inbox[n])
             starts == Find(Charger[n], m.slot, m.tx, "start", {"started", "accepted", "requested"})
             stops == Find(Charger[n], m.slot, m.tx, "stop", {"accepted", "requested"})
  <1>1. m.tx \in Txs
    BY HeadMessage DEF RequestsInv, HandleEnded, Takes
  <1>2. Update(starts \cup stops, m.tx, "completed") /\ over' = over \cup {<<Charger[n], m.tx>>}
    BY DEF HandleEnded
  <1>3. \A r \in starts \cup stops : entry[r].charger = Charger[n] /\ entry[r].tx = m.tx
    BY <1>1, ConstantsAssumption DEF Find, Match
  <1> HIDE DEF m, starts, stops
  <1> SUFFICES ASSUME NEW r \in tracked, entry[r].status # "completed",
                      entry'[r].status = "completed"
               PROVE  /\ entry'[r].tx = entry[r].tx
                      /\ <<entry[r].charger, entry[r].tx>> \in over'
    BY DEF Completes
  <1>4. entry'[r] = IF r \in (starts \cup stops) \cap tracked
                    THEN Rebound(entry[r], m.tx, "completed") ELSE entry[r]
    BY <1>2 DEF Update, RequestsInv, StoreTypes
  <1>5. r \in starts \cup stops /\ entry'[r] = Rebound(entry[r], m.tx, "completed")
    BY <1>4
  <1> QED
    BY <1>1, <1>2, <1>3, <1>5, ConstantsAssumption DEF Rebound

LEMMA StepCompletes == RequestsInv /\ [Next]_vars => Completes
  <1> SUFFICES ASSUME RequestsInv, [Next]_vars PROVE Completes
    OBVIOUS
  <1>1. ASSUME entry' = entry PROVE Completes
    BY <1>1 DEF Completes
  <1>2. ASSUME NEW r \in Requests, OperatorStep(r) PROVE Completes
    <2>1. CASE OperatorRegisters(r)
      <3>1. r \notin tracked
        BY <2>1 DEF OperatorRegisters, RequestsInv, Order
      <3>2. \A q \in tracked : entry'[q] = entry[q]
        BY <2>1, <3>1 DEF OperatorRegisters, Register, RequestsInv, StoreTypes
      <3> QED
        BY <3>2 DEF Completes
    <2>2. CASE ~OperatorRegisters(r)
      <3>1. entry' = entry
        BY <1>2, <2>2 DEF OperatorStep, OperatorSends, OperatorRegistersCall, storeVars
      <3> QED
        BY <1>1, <3>1
    <2> QED
      BY <2>1, <2>2
  <1>3. ASSUME NEW n \in Consumers, ConsumerStep(n) PROVE Completes
    <2>1. CASE HandleAnswer(n)
      <3>1. Update({Head(inbox[n]).request}, Head(inbox[n]).tx, Outcome(Head(inbox[n])))
            \/ entry' = entry
        BY <2>1 DEF HandleAnswer, storeVars
      <3>2. Outcome(Head(inbox[n])) # "completed"
        BY DEF Outcome
      <3> QED
        BY <1>1, <3>1, <3>2, OtherUpdates DEF RequestsInv
    <2>2. CASE HandleStarted(n)
      BY <1>1, <2>2 DEF HandleStarted, storeVars
    <2>3. CASE Decide(n)
      <3>1. Update(found[n], Head(inbox[n]).tx, "started") \/ entry' = entry
        BY <2>3 DEF Decide, storeVars
      <3> QED
        BY <1>1, <3>1, OtherUpdates DEF RequestsInv
    <2>4. CASE HandleEnded(n)
      BY <2>4, EndCompletes
    <2>5. CASE HandleClosed(n)
      BY <1>1, <2>5 DEF HandleClosed, Clear
    <2> QED
      BY <1>3, <2>1, <2>2, <2>3, <2>4, <2>5 DEF ConsumerStep
  <1>4. ASSUME NEW n \in Consumers, ChargerStep(n) PROVE Completes
    <2>1. entry' = entry
      BY <1>4 DEF ChargerStep, Connect, Leave, Answer, Start, End, Says, storeVars
    <2> QED
      BY <1>1, <2>1
  <1>5. CASE UNCHANGED vars
    BY <1>1, <1>5 DEF vars, storeVars
  <1> QED
    BY <1>2, <1>3, <1>4, <1>5 DEF Next

\* A remote start or stop is completed by the end of the transaction it was
\* bound to, on its own charger, and by nothing else.
THEOREM CompletionIsOwn == Spec => CompletedByOwnEnd
  <1>1. RequestsInv /\ [Next]_vars => [Completes]_vars
    BY StepCompletes
  <1> QED
    BY Invariant, <1>1, PTL DEF Spec, CompletedByOwnEnd, Completes

-----------------------------------------------------------------------------
(* Rejections *)

Solo(c) == \A n, k \in Consumers : Charger[n] = c /\ Charger[k] = c => n = k

\* A message about a request is read by a consumer of the request's charger.
Own(n, m) ==
    m.kind = "answer" =>
        operator[m.request].at # "new" /\ operator[m.request].entry.charger = Charger[n]

OwnInbox(n) == \A i \in 1..Len(inbox[n]) : Own(n, inbox[n][i])

\* A refused request has had its one answer, and what a lone consumer found is
\* not refused while it decides: its charger's other messages wait behind.
RejectionInv ==
    /\ \A r \in tracked \cap refused :
          entry[r].status # "rejected" => ~Solo(entry[r].charger)
    /\ \A r \in tracked : entry[r].charger = operator[r].entry.charger
    /\ \A r \in refused : operator[r].at = "done" /\ r \notin called
    /\ \A r \in asked : operator[r].at # "new"
    /\ \A n \in Consumers : OwnInbox(n)
    /\ \A n \in Consumers : ~deciding[n] => found[n] = {}
    /\ \A n \in Consumers : \A r \in found[n] :
          /\ operator[r].at = "done" /\ operator[r].entry.charger = Charger[n]
          /\ r \in refused => ~Solo(Charger[n])

LEMMA AnswerRequest ==
  ASSUME NEW m \in Messages, m.kind = "answer"
  PROVE  m.request \in Requests
  <1>1. CASE m \in Answers
    BY <1>1 DEF Answers
  <1>2. CASE m \in Events
    BY <1>2 DEF Events
  <1>3. CASE m = Closing
    BY <1>3 DEF Closing
  <1> QED
    BY <1>1, <1>2, <1>3 DEF Messages

\* The messages left in a consumer's inbox are its own as they were.
LEMMA OwnAfterDone ==
  ASSUME RequestsInv, RejectionInv, NEW n \in Consumers, inbox[n] # <<>>, Done(n),
         operator' = operator
  PROVE  \A k \in Consumers : OwnInbox(k)'
  <1> SUFFICES ASSUME NEW k \in Consumers, NEW i \in 1..Len(inbox'[k])
               PROVE  Own(k, inbox'[k][i])
    BY DEF OwnInbox, Own
  <1>1. inbox[k] \in Seq(Messages)
    BY DEF RequestsInv, OtherTypes
  <1>2. CASE k = n
    <2>1. inbox'[k] = Tail(inbox[n])
      BY <1>2 DEF Done, RequestsInv, OtherTypes
    <2>2. i + 1 \in 1..Len(inbox[n]) /\ inbox'[k][i] = inbox[n][i + 1]
      BY <1>1, <1>2, <2>1
    <2> QED
      BY <1>2, <2>2 DEF RejectionInv, OwnInbox
  <1>3. CASE k # n
    BY <1>3 DEF Done, RequestsInv, OtherTypes, RejectionInv, OwnInbox
  <1> QED
    BY <1>2, <1>3

\* Only the operator's first step changes what a request is about, and until
\* then nobody else has heard of the request.
LEMMA OperatorRejection ==
  ASSUME RequestsInv, RejectionInv, NEW r \in Requests, OperatorStep(r)
  PROVE  RejectionInv'
  <1>1. /\ UNCHANGED <<inbox, deciding, found, refused>>
        /\ \A q \in Requests : q # r => operator'[q] = operator[q]
        /\ operator[r].at # "done" /\ operator'[r].at # "new"
        /\ operator[r].at # "new" => operator'[r].entry = operator[r].entry
        /\ asked' \subseteq asked \cup {r}
    BY DEF OperatorStep, OperatorSends, OperatorRegistersCall, OperatorRegisters,
           consumerVars, chargerVars, pastVars, RequestsInv, OtherTypes
  <1>2. r \notin refused /\ r \notin tracked /\ \A n \in Consumers : r \notin found[n]
    BY <1>1 DEF RejectionInv, RequestsInv, Order
  <1>3. \A q \in called' : q \in called \/ q = r
    BY DEF OperatorStep, OperatorSends, OperatorRegistersCall, OperatorRegisters
  <1>4. \A q \in tracked' : \/ q \in tracked /\ entry'[q] = entry[q]
                            \/ q = r /\ entry'[r] = operator'[r].entry
    <2>1. CASE OperatorRegisters(r)
      BY <1>2, <2>1 DEF OperatorRegisters, Register, RequestsInv, StoreTypes, OtherTypes
    <2>2. CASE ~OperatorRegisters(r)
      BY <2>2 DEF OperatorStep, OperatorSends, OperatorRegistersCall, storeVars
    <2> QED
      BY <2>1, <2>2
  <1>5. ASSUME NEW n \in Consumers PROVE OwnInbox(n)'
    <2>1. ASSUME NEW m \in Messages, Own(n, m) PROVE Own(n, m)'
      <3>1. CASE m.kind = "answer"
        BY <1>1, <2>1, <3>1, AnswerRequest DEF Own
      <3>2. CASE m.kind # "answer"
        BY <3>2 DEF Own
      <3> QED
        BY <3>1, <3>2
    <2>2. \A i \in 1..Len(inbox[n]) : inbox[n][i] \in Messages /\ Own(n, inbox[n][i])
      BY DEF RejectionInv, RequestsInv, OtherTypes, OwnInbox
    <2> HIDE DEF Own
    <2> QED
      BY <1>1, <2>1, <2>2 DEF OwnInbox
  <1>6. tracked \subseteq Requests /\ refused \subseteq Requests /\ asked \subseteq Requests
        /\ \A n \in Consumers : found[n] \subseteq Requests
    BY DEF RequestsInv, StoreTypes, OtherTypes
  <1>7. \A q \in tracked' \cap refused' : entry'[q].status # "rejected" => ~Solo(entry'[q].charger)
    BY <1>1, <1>2, <1>4 DEF RejectionInv
  <1>8. \A q \in tracked' : entry'[q].charger = operator'[q].entry.charger
    BY <1>1, <1>2, <1>4, <1>6 DEF RejectionInv
  <1>9. \A q \in refused' : operator'[q].at = "done" /\ q \notin called'
    BY <1>1, <1>2, <1>3, <1>6 DEF RejectionInv
  <1>10. \A q \in asked' : operator'[q].at # "new"
    BY <1>1, <1>6 DEF RejectionInv
  <1>11. \A n \in Consumers : \A q \in found'[n] :
            /\ operator'[q].at = "done" /\ operator'[q].entry.charger = Charger[n]
            /\ q \in refused' => ~Solo(Charger[n])
    BY <1>1, <1>2, <1>6 DEF RejectionInv
  <1>12. \A n \in Consumers : ~deciding'[n] => found'[n] = {}
    BY <1>1 DEF RejectionInv
  <1> QED
    BY <1>5, <1>7, <1>8, <1>9, <1>10, <1>11, <1>12 DEF RejectionInv, Solo

\* An update leaves every request its charger, and gives those it is about the
\* new status.
LEMMA UpdateOutcome ==
  ASSUME RequestsInv, NEW rs, NEW tx, NEW status, Update(rs, tx, status)
  PROVE  /\ tracked' = tracked
         /\ \A r \in tracked : /\ entry'[r].charger = entry[r].charger
                               /\ r \in rs => entry'[r].status = status
                               /\ r \notin rs => entry'[r] = entry[r]
  BY DEF Update, Rebound, RequestsInv, StoreTypes

LEMMA HandleAnswerRejection ==
  ASSUME RequestsInv, RejectionInv, NEW n \in Consumers, HandleAnswer(n)
  PROVE  RejectionInv'
  <1> DEFINE m == Head(inbox[n])
  <1>1. inbox[n] # <<>> /\ Done(n) /\ ~deciding[n] /\ m.kind = "answer"
    BY DEF HandleAnswer, Takes
  <1>2. UNCHANGED <<operator, asked>>
    BY DEF HandleAnswer, chargerVars
  <1>3. m \in Messages /\ m.request \in Requests
    BY <1>1, HeadMessage, AnswerRequest DEF RequestsInv
  <1>4. operator[m.request].entry.charger = Charger[n]
    <2>1. 1 \in 1..Len(inbox[n]) /\ m = inbox[n][1]
      BY <1>1 DEF RequestsInv, OtherTypes
    <2> QED
      BY <1>1, <2>1 DEF RejectionInv, Own, OwnInbox
  <1>5. \A k \in Consumers : OwnInbox(k)'
    BY <1>1, <1>2, OwnAfterDone
  <1>6. found' = [found EXCEPT ![n] = {}] /\ deciding' = [deciding EXCEPT ![n] = FALSE]
    BY <1>1 DEF Done
  <1>7. found[n] = {} /\ found' = found /\ \A k \in Consumers : ~deciding'[k] => found'[k] = {}
    BY <1>1, <1>6 DEF RejectionInv, RequestsInv, OtherTypes
  <1> HIDE DEF m
  <1>8. CASE m.request \in called
    <2>1. /\ called' = called \ {m.request}
          /\ Update({m.request}, m.tx, Outcome(m))
          /\ refused' = IF m.accepted THEN refused ELSE refused \cup (tracked \cap {m.request})
      BY <1>8 DEF HandleAnswer, m
    <2>2. /\ tracked' = tracked
          /\ \A r \in tracked : /\ entry'[r].charger = entry[r].charger
                                /\ r = m.request => entry'[r].status = Outcome(m)
                                /\ r # m.request => entry'[r] = entry[r]
      BY <2>1, UpdateOutcome
    <2>3. m.request \notin refused
      BY <1>8 DEF RejectionInv
    <2>4. m.request \in refused' => ~m.accepted /\ m.request \in tracked
      BY <2>1, <2>3
    <2>5. \A r \in tracked' \cap refused' :
             entry'[r].status # "rejected" => ~Solo(entry'[r].charger)
      BY <2>1, <2>2, <2>3, <2>4 DEF RejectionInv, Outcome
    <2>6. \A r \in refused' : operator'[r].at = "done" /\ r \notin called'
      BY <1>2, <2>1, <2>4 DEF RejectionInv, RequestsInv, Order, StoreTypes
    <2>7. ASSUME NEW k \in Consumers, NEW r \in found[k], r \in refused'
          PROVE  ~Solo(Charger[k])
      <3>1. CASE r \in refused
        BY <3>1 DEF RejectionInv
      <3>2. CASE r = m.request
        <4>1. k # n
          BY <1>7
        <4>2. Charger[k] = Charger[n]
          BY <1>4, <3>2 DEF RejectionInv
        <4> QED
          BY <4>1, <4>2 DEF Solo
      <3> QED
        BY <2>1, <2>7, <3>1, <3>2
    <2> QED
      BY <1>2, <1>5, <1>7, <2>2, <2>5, <2>6, <2>7 DEF RejectionInv, Solo
  <1>9. CASE m.request \notin called
    <2>1. UNCHANGED <<tracked, entry, called, refused>>
      BY <1>9 DEF HandleAnswer, m, storeVars
    <2> QED
      BY <1>2, <1>5, <1>7, <2>1 DEF RejectionInv, Solo
  <1> QED
    BY <1>8, <1>9

LEMMA HandleStartedRejection ==
  ASSUME RequestsInv, RejectionInv, NEW n \in Consumers, HandleStarted(n)
  PROVE  RejectionInv'
  <1> DEFINE fs == Find(Charger[n], Head(inbox[n]).slot, NoTx, "start", StartStatuses(n))
  <1>1. /\ UNCHANGED <<tracked, entry, called, operator, inbox, asked, refused>>
        /\ deciding' = [deciding EXCEPT ![n] = TRUE]
        /\ found' = [found EXCEPT ![n] = fs]
    BY DEF HandleStarted, storeVars, chargerVars, pastVars
  <1>2. \A r \in fs : /\ r \in tracked /\ entry[r].charger = Charger[n]
                      /\ entry[r].status # "rejected"
    BY DEF Find, Match, StartStatuses
  <1> HIDE DEF fs
  <1>3. \A r \in fs : /\ operator[r].at = "done" /\ operator[r].entry.charger = Charger[n]
                      /\ r \in refused => ~Solo(Charger[n])
    BY <1>2 DEF RejectionInv, RequestsInv, Order, StoreTypes
  <1>4. \A k \in Consumers : \A r \in found'[k] :
            /\ operator'[r].at = "done" /\ operator'[r].entry.charger = Charger[k]
            /\ r \in refused' => ~Solo(Charger[k])
    BY <1>1, <1>3 DEF RejectionInv, RequestsInv, OtherTypes
  <1>5. \A k \in Consumers : ~deciding'[k] => found'[k] = {}
    BY <1>1 DEF RejectionInv, RequestsInv, OtherTypes
  <1> QED
    BY <1>1, <1>4, <1>5 DEF RejectionInv, Solo, OwnInbox, Own

\* An event's update reaches no refused request of a charger with one consumer.
LEMMA EventRejection ==
  ASSUME RequestsInv, RejectionInv, NEW n \in Consumers, inbox[n] # <<>>, Done(n),
         NEW rs, NEW tx, NEW status, UNCHANGED storeVars \/ Update(rs, tx, status),
         \A r \in rs \cap tracked \cap refused : ~Solo(entry[r].charger),
         UNCHANGED <<called, operator, asked, refused>>
  PROVE  RejectionInv'
  <1>1. \A k \in Consumers : OwnInbox(k)'
    BY OwnAfterDone
  <1>2. \A k \in Consumers : (~deciding'[k] => found'[k] = {}) /\ found'[k] \subseteq found[k]
    BY DEF Done, RejectionInv, RequestsInv, OtherTypes
  <1>3. /\ tracked' = tracked
        /\ \A r \in tracked : entry'[r].charger = entry[r].charger
        /\ \A r \in tracked \ rs : entry'[r] = entry[r]
    BY UpdateOutcome DEF storeVars
  <1>4. \A r \in tracked' \cap refused' :
           entry'[r].status # "rejected" => ~Solo(entry'[r].charger)
    BY <1>3 DEF RejectionInv
  <1> QED
    BY <1>1, <1>2, <1>3, <1>4 DEF RejectionInv, Solo

LEMMA ConsumerRejection ==
  ASSUME RequestsInv, RejectionInv, NEW n \in Consumers, ConsumerStep(n)
  PROVE  RejectionInv'
  <1>1. CASE Decide(n)
    <2>1. inbox[n] # <<>> /\ Done(n)
      BY <1>1 DEF Decide, RequestsInv, Order
    <2>2. \A r \in found[n] \cap tracked \cap refused : ~Solo(entry[r].charger)
      BY DEF RejectionInv
    <2>3. UNCHANGED storeVars \/ Update(found[n], Head(inbox[n]).tx, "started")
      BY <1>1 DEF Decide
    <2>4. UNCHANGED <<called, operator, asked, refused>>
      BY <1>1 DEF Decide, chargerVars, pastVars
    <2> QED
      BY <2>1, <2>2, <2>3, <2>4, EventRejection
  <1>2. CASE HandleEnded(n)
    <2> DEFINE m == Head(inbox[n])
               starts == Find(Charger[n], m.slot, m.tx, "start",
                              {"started", "accepted", "requested"})
               stops == Find(Charger[n], m.slot, m.tx, "stop", {"accepted", "requested"})
    <2>1. inbox[n] # <<>> /\ Done(n)
      BY <1>2 DEF HandleEnded, Takes
    <2>2. \A r \in starts \cup stops : r \in tracked /\ entry[r].status # "rejected"
      BY DEF Find, Match
    <2>3. Update(starts \cup stops, m.tx, "completed")
      BY <1>2 DEF HandleEnded
    <2> HIDE DEF m, starts, stops
    <2>4. \A r \in (starts \cup stops) \cap tracked \cap refused : ~Solo(entry[r].charger)
      BY <2>2 DEF RejectionInv
    <2>5. UNCHANGED <<called, operator, asked, refused>>
      BY <1>2 DEF HandleEnded, chargerVars
    <2> QED
      BY <2>1, <2>3, <2>4, <2>5, EventRejection
  <1>3. CASE HandleClosed(n)
    <2>1. inbox[n] # <<>> /\ Done(n) /\ UNCHANGED <<operator, asked, refused>>
      BY <1>3 DEF HandleClosed, Takes, chargerVars, pastVars
    <2>2. \A k \in Consumers : OwnInbox(k)'
      BY <2>1, OwnAfterDone
    <2>3. \A k \in Consumers : (~deciding'[k] => found'[k] = {}) /\ found'[k] \subseteq found[k]
      BY <2>1 DEF Done, RejectionInv, RequestsInv, OtherTypes
    <2>4. tracked' \subseteq tracked /\ entry' = entry /\ called' \subseteq called
      BY <1>3 DEF HandleClosed, Clear
    <2> QED
      BY <2>1, <2>2, <2>3, <2>4 DEF RejectionInv, Solo
  <1> QED
    BY <1>1, <1>2, <1>3, HandleAnswerRejection, HandleStartedRejection DEF ConsumerStep

LEMMA ChargerRejection ==
  ASSUME RequestsInv, RejectionInv, NEW n \in Consumers, ChargerStep(n)
  PROVE  RejectionInv'
  <1>1. /\ UNCHANGED <<tracked, entry, called, operator, deciding, found, refused>>
        /\ asked' \subseteq asked
    BY DEF ChargerStep, Connect, Leave, Answer, Start, End, Says, storeVars, consumerVars,
           pastVars
  <1>2. inbox' = inbox \/ \E m : Own(n, m) /\ inbox' = [inbox EXCEPT ![n] = Append(@, m)]
    <2>1. CASE Connect(n)
      BY <2>1 DEF Connect, consumerVars
    <2>2. CASE Leave(n)
      <3>1. Own(n, Closing)
        BY DEF Own, Closing
      <3> QED
        BY <2>2, <3>1 DEF Leave
    <2>3. ASSUME NEW r \in Requests, NEW accepted \in BOOLEAN, NEW t \in AnyTx,
                 Answer(n, r, accepted, t)
          PROVE  \E m : Own(n, m) /\ inbox' = [inbox EXCEPT ![n] = Append(@, m)]
      <3> DEFINE m == [kind |-> "answer", request |-> r, slot |-> All, tx |-> t,
                       accepted |-> accepted]
      <3>1. Own(n, m)
        BY <2>3 DEF Answer, Own, RejectionInv
      <3>2. inbox' = [inbox EXCEPT ![n] = Append(@, m)]
        BY <2>3 DEF Answer, Says
      <3> QED
        BY <3>1, <3>2
    <2>4. ASSUME NEW c \in Connectors, (\E t \in Txs : Start(n, c, t)) \/ End(n, c)
          PROVE  \E m : Own(n, m) /\ inbox' = [inbox EXCEPT ![n] = Append(@, m)]
      <3>1. \A kind \in {"started", "ended"} : \A t : Own(n, Event(kind, c, t))
        BY DEF Own, Event
      <3> QED
        BY <2>4, <3>1 DEF Start, End, Says
    <2> QED
      BY <2>1, <2>2, <2>3, <2>4 DEF ChargerStep
  <1>3. ASSUME NEW k \in Consumers, NEW i \in 1..Len(inbox'[k]) PROVE Own(k, inbox'[k][i])
    <2>1. inbox[k] \in Seq(Messages)
      BY DEF RequestsInv, OtherTypes
    <2>2. CASE inbox'[k] = inbox[k]
      BY <1>3, <2>2 DEF RejectionInv, OwnInbox
    <2>3. ASSUME NEW m, Own(n, m), k = n, inbox'[k] = Append(inbox[k], m)
          PROVE  Own(k, inbox'[k][i])
      <3>1. i \in 1..Len(inbox[k]) \/ inbox'[k][i] = m
        BY <1>3, <2>1, <2>3
      <3>2. i \in 1..Len(inbox[k]) => inbox'[k][i] = inbox[k][i]
        BY <2>1, <2>3
      <3> QED
        BY <2>3, <3>1, <3>2 DEF RejectionInv, OwnInbox
    <2> QED
      BY <1>2, <2>2, <2>3 DEF RequestsInv, OtherTypes
  <1>4. \A k \in Consumers : OwnInbox(k)'
    BY <1>1, <1>3 DEF Own, OwnInbox
  <1> QED
    BY <1>1, <1>4 DEF RejectionInv, Solo

\* A request the charger refused is never started or completed, as long as one
\* consumer handles the charger's messages: however many requests, chargers and
\* transactions there are, and whichever events a refusal crosses.
THEOREM RejectionsStay == Spec => []RejectedStays
  <1>1. Init => RejectionInv
    BY DEF Init, RejectionInv, OwnInbox
  <1>2. RequestsInv /\ RejectionInv /\ [Next]_vars => RejectionInv'
    <2>1. SUFFICES ASSUME RequestsInv, RejectionInv, [Next]_vars PROVE RejectionInv'
      OBVIOUS
    <2>2. CASE UNCHANGED vars
      <3>1. UNCHANGED <<tracked, entry, called, operator, inbox, deciding, found, asked,
                        refused>>
        BY <2>2 DEF vars, storeVars, consumerVars, chargerVars, pastVars
      <3>2. \A n \in Consumers : OwnInbox(n)' <=> OwnInbox(n)
        BY <3>1 DEF OwnInbox, Own
      <3> QED
        BY <2>1, <3>1, <3>2 DEF RejectionInv, Solo
    <2> QED
      BY <2>1, <2>2, OperatorRejection, ConsumerRejection, ChargerRejection DEF Next
  <1>3. RejectionInv => RejectedStays
    BY DEF RejectionInv, RejectedStays, Solo
  <1> QED
    BY Invariant, <1>1, <1>2, <1>3, PTL DEF Spec
=============================================================================
