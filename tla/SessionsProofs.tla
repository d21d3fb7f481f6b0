--------------------------- MODULE SessionsProofs ---------------------------
(***************************************************************************)
(* Proofs about Sessions.  For any numbers of consumers, connectors and    *)
(* transactions: type correctness, that a consumer is filed nowhere but    *)
(* under its own key, and that one without another beside it can be found  *)
(* and picks the transactions up that MeterValues name.  For one session   *)
(* of a charger with one connector: that its transactions keep their ids,  *)
(* stay the active ones while they run, and have their stops answered.     *)
(***************************************************************************)
EXTENDS Sessions, TLAPS

-----------------------------------------------------------------------------
(* Type correctness *)

\* What a consumer that handles a call relies on.
Working ==
    \A n \in Consumers :
        /\ step[n] # "idle" => state[n] \in {"open", "shut"}
        /\ state[n] \in {"new", "accepting"} => key[n] = "pending"
        /\ call[n].action \in {"Meter", "Stop"} => call[n].tx \in Txs
        /\ step[n] = "lookup" => call[n].action \in {"Meter", "Stop"}
        /\ step[n] \in {"storing", "identifying", "saving"} => hand[n] \in Txs

LEMMA TypeInit == Init => TypeOK
  BY ConstantsAssumption DEF Init, TypeOK, Keys, Slots, NoCall, Requests, Actions

LEMMA ClosedType ==
  ASSUME TypeOK, NEW other
  PROVE  Closed(other) \in [Consumers -> {"new", "accepting", "open", "shut", "gone", "dead"}]
  BY DEF TypeOK, Closed

LEMMA ReassignType ==
  ASSUME NEW old \in Keys, NEW new \in Keys, NEW S, NEW none \in S,
         NEW mapping \in [Keys -> S]
  PROVE  Reassign(old, new, mapping, none) \in [Keys -> S]
  BY DEF Reassign

LEMMA FileUnderType ==
  ASSUME TypeOK, NEW n \in Consumers, NEW slot \in Slots, FileUnder(n, slot)
  PROVE  /\ connections' \in [Keys -> Consumers \cup {NoConsumer}]
         /\ transactions' \in [Keys -> Txs \cup {NoTx}]
         /\ key' \in [Consumers -> Keys]
  <1>1. key[n] \in Keys /\ slot \in Keys
    BY DEF TypeOK, Keys
  <1>2. Reassign(key[n], slot, connections, NoConsumer)
          \in [Keys -> Consumers \cup {NoConsumer}]
    BY <1>1, ReassignType DEF TypeOK
  <1>3. Reassign(key[n], slot, transactions, NoTx) \in [Keys -> Txs \cup {NoTx}]
    BY <1>1, ReassignType DEF TypeOK
  <1>4. key' \in [Consumers -> Keys]
    BY <1>1 DEF TypeOK, FileUnder, Keys, Slots
  <1> QED
    BY <1>1, <1>2, <1>3, <1>4 DEF FileUnder

LEMMA TypeConnection ==
  ASSUME TypeOK, NEW n \in Consumers, ConnectionStep(n)
  PROVE  TypeOK'
  <1>1. CASE Connect(n)
    BY <1>1, ClosedType DEF Connect, TypeOK, handlingVars, rowVars, storeVars
  <1>2. CASE Accept(n)
    BY <1>2 DEF Accept, TypeOK, handlingVars, rowVars, chargerVars, runVars, Keys
  <1>3. CASE Reject(n)
    BY <1>3 DEF Reject, Hangup, TypeOK, handlingVars, rowVars, storeVars
  <1>4. CASE Drop(n)
    BY <1>4 DEF Drop, Hangup, TypeOK, handlingVars, rowVars, storeVars, runVars
  <1>5. CASE Disconnect(n)
    BY <1>5 DEF Disconnect, Hangup, TypeOK, handlingVars, rowVars, runVars
  <1> QED
    BY <1>1, <1>2, <1>3, <1>4, <1>5 DEF ConnectionStep

LEMMA TypeAssign ==
  ASSUME TypeOK, NEW n \in Consumers, Assign(n) \/ Move(n) \/ Name(n)
  PROVE  TypeOK'
  <1>1. call[n].slot \in Slots
    BY DEF TypeOK, Requests
  <1>2. CASE Assign(n)
    <2>1. CASE key[n] = call[n].slot
      BY <1>2, <2>1 DEF Assign, TypeOK, storeVars, rowVars, chargerVars, runVars
    <2>2. CASE key[n] # call[n].slot /\ connections[call[n].slot] \notin {NoConsumer, n}
      BY <1>2, <2>2, ClosedType DEF Assign, TypeOK, storeVars, rowVars, chargerVars, runVars
    <2>3. CASE key[n] # call[n].slot /\ connections[call[n].slot] \in {NoConsumer, n}
      <3>1. FileUnder(n, call[n].slot) /\ UNCHANGED state
        BY <1>2, <2>3 DEF Assign
      <3> QED
        BY <1>1, <1>2, <3>1, FileUnderType
        DEF Assign, FileUnder, TypeOK, rowVars, chargerVars, runVars
    <2> QED
      BY <2>1, <2>2, <2>3
  <1>3. CASE Move(n)
    BY <1>1, <1>3, FileUnderType DEF Move, FileUnder, TypeOK, rowVars, chargerVars, runVars
  <1>4. CASE Name(n)
    BY <1>1, <1>4 DEF Name, TypeOK, Keys, storeVars, rowVars, chargerVars, runVars
  <1> QED
    BY <1>2, <1>3, <1>4

LEMMA TypeTransaction ==
  ASSUME TypeOK, Working, NEW n \in Consumers,
         \/ Acknowledge(n) \/ BecomeAvailable(n) \/ StartReject(n) \/ Store(n)
         \/ \E t \in Txs : StartCreate(n, t)
  PROVE  TypeOK'
  <1>1. call[n].slot \in Slots
    BY DEF TypeOK, Requests
  <1>2. CASE Acknowledge(n)
    BY <1>2 DEF Acknowledge, Goto, TypeOK, storeVars, rowVars, chargerVars, runVars
  <1>3. CASE BecomeAvailable(n)
    BY <1>3 DEF BecomeAvailable, Goto, TypeOK, rowVars, chargerVars, runVars
  <1>4. CASE StartReject(n)
    BY <1>4 DEF StartReject, Goto, TypeOK, storeVars, rowVars, chargerVars, runVars
  <1>5. CASE Store(n)
    BY <1>5 DEF Store, Goto, TypeOK, rowVars, chargerVars, runVars
  <1>6. CASE \E t \in Txs : StartCreate(n, t)
    BY <1>1, <1>6 DEF StartCreate, Goto, Hold, TypeOK, storeVars, chargerVars, runVars
  <1> QED
    BY <1>2, <1>3, <1>4, <1>5, <1>6

LEMMA TypeLookup ==
  ASSUME TypeOK, Working, NEW n \in Consumers,
         \/ MeterRead(n) \/ StopTake(n) \/ LookupFinds(n) \/ CreatePlaceholder(n)
         \/ CreateRaises(n)
  PROVE  TypeOK'
  <1>1. call[n].slot \in Slots /\ call[n].tx \in Txs \cup {NoTx}
    BY DEF TypeOK, Requests
  <1>2. CASE MeterRead(n)
    BY <1>1, <1>2 DEF MeterRead, Goto, Hold, TypeOK, storeVars, rowVars, chargerVars, runVars
  <1>3. CASE StopTake(n)
    BY <1>3 DEF StopTake, Goto, Hold, TypeOK, rowVars, chargerVars, runVars
  <1>4. CASE LookupFinds(n)
    BY <1>1, <1>4 DEF LookupFinds, Goto, Hold, TypeOK, storeVars, rowVars, chargerVars, runVars
  <1>5. CASE CreatePlaceholder(n)
    BY <1>1, <1>5 DEF CreatePlaceholder, Goto, Hold, TypeOK, storeVars, chargerVars, runVars
  <1>6. CASE CreateRaises(n)
    BY <1>6 DEF CreateRaises, Goto, Hangup, TypeOK, storeVars, rowVars, runVars
  <1> QED
    BY <1>2, <1>3, <1>4, <1>5, <1>6

LEMMA TypeReply ==
  ASSUME TypeOK, Working, NEW n \in Consumers, Identify(n) \/ StopSave(n) \/ Reply(n)
  PROVE  TypeOK'
  <1>1. call[n].tx \in Txs \cup {NoTx}
    BY DEF TypeOK, Requests
  <1>2. CASE Identify(n)
    BY <1>1, <1>2 DEF Identify, Goto, TypeOK, storeVars, chargerVars, runVars
  <1>3. CASE StopSave(n)
    BY <1>3 DEF StopSave, Goto, TypeOK, Working, storeVars, chargerVars, runVars
  <1>4. CASE Reply(n)
    <2>1. NoCall \in Requests
      BY DEF NoCall, Requests, Actions, Slots
    <2>2. running' \in [Connectors -> Txs \cup {NoTx}]
      BY <1>4 DEF Reply, TypeOK
    <2>3. ending' \subseteq Connectors
      BY <1>4 DEF Reply, TypeOK
    <2> QED
      BY <1>4, <2>1, <2>2, <2>3 DEF Reply, Goto, Hold, TypeOK, storeVars, rowVars, runVars
  <1> QED
    BY <1>2, <1>3, <1>4

LEMMA TypeCharger ==
  ASSUME TypeOK,
         \/ \E n \in Consumers, r \in Requests : Send(n, r)
         \/ \E c \in Connectors, t \in Txs : StartOffline(c, t)
         \/ \E c \in Connectors : Unplug(c)
         \/ Leave
         \/ Restart
  PROVE  TypeOK'
  <1>1. CASE \E n \in Consumers, r \in Requests : Send(n, r)
    BY <1>1 DEF Send, TypeOK, storeVars, rowVars, chargerVars, runVars
  <1>2. CASE \E c \in Connectors, t \in Txs : StartOffline(c, t)
    BY <1>2 DEF StartOffline, TypeOK, storeVars, handlingVars, rowVars, runVars
  <1>3. CASE \E c \in Connectors : Unplug(c)
    BY <1>3 DEF Unplug, TypeOK, storeVars, handlingVars, rowVars, runVars
  <1>4. CASE Leave
    BY <1>4 DEF Leave, TypeOK, storeVars, handlingVars, rowVars, runVars
  <1>5. CASE Restart
    <2>1. NoCall \in Requests
      BY DEF NoCall, Requests, Actions, Slots
    <2> QED
      BY <1>5, <2>1, ConstantsAssumption DEF Restart, TypeOK, rowVars
  <1> QED
    BY <1>1, <1>2, <1>3, <1>4, <1>5

-----------------------------------------------------------------------------
(* A consumer at work has what its handler relies on *)

LEMMA WorkingInit == Init => Working
  BY DEF Init, Working, NoCall

LEMMA WorkingConnection ==
  ASSUME TypeOK, Working, NEW n \in Consumers, ConnectionStep(n)
  PROVE  Working'
  <1>1. CASE Connect(n)
    BY <1>1 DEF Connect, Closed, TypeOK, Working, handlingVars
  <1>2. CASE Accept(n)
    BY <1>2 DEF Accept, TypeOK, Working, handlingVars
  <1>3. CASE Reject(n)
    BY <1>3 DEF Reject, TypeOK, Working, handlingVars
  <1>4. CASE Drop(n)
    BY <1>4 DEF Drop, TypeOK, Working, handlingVars
  <1>5. CASE Disconnect(n)
    BY <1>5 DEF Disconnect, TypeOK, Working, handlingVars
  <1> QED
    BY <1>1, <1>2, <1>3, <1>4, <1>5 DEF ConnectionStep

LEMMA WorkingAssign ==
  ASSUME TypeOK, Working, NEW n \in Consumers, Assign(n) \/ Move(n) \/ Name(n)
  PROVE  Working'
  <1> DEFINE slot == call[n].slot
  <1>a. ASSUME FileUnder(n, slot), state[n] \in {"open", "shut"},
               UNCHANGED <<state, call, hand>>
        PROVE  Working'
    BY <1>a DEF FileUnder, TypeOK, Working
  <1>b. step[n] # "idle" => state[n] \in {"open", "shut"}
    BY DEF Working
  <1>1. CASE Assign(n)
    <2>1. step[n] = "queued" /\ UNCHANGED <<call, hand>>
      BY <1>1 DEF Assign
    <2>2. CASE key[n] = slot
      BY <1>1, <2>1, <2>2, <1>b DEF Assign, TypeOK, Working
    <2>3. CASE key[n] # slot /\ connections[slot] \notin {NoConsumer, n}
      <3>1. /\ state' = Closed(connections[slot])
            /\ step' = [step EXCEPT ![n] = "moving"]
            /\ UNCHANGED key
        BY <1>1, <2>3 DEF Assign
      <3>2. \A m \in Consumers : state'[m] = state[m]
                                  \/ (state[m] = "open" /\ state'[m] = "shut")
        BY <3>1 DEF Closed
      <3> QED
        BY <2>1, <1>b, <3>1, <3>2 DEF TypeOK, Working
    <2>4. CASE key[n] # slot /\ connections[slot] \in {NoConsumer, n}
      <3>1. FileUnder(n, slot) /\ UNCHANGED state
        BY <1>1, <2>4 DEF Assign
      <3> QED
        BY <2>1, <1>b, <3>1, <1>a
    <2> QED
      BY <2>2, <2>3, <2>4
  <1>2. CASE Move(n)
    BY <1>2, <1>a, <1>b DEF Move
  <1>3. CASE Name(n)
    BY <1>3 DEF Name, TypeOK, Working
  <1> QED
    BY <1>1, <1>2, <1>3

LEMMA WorkingHandler ==
  ASSUME TypeOK, Working, NEW n \in Consumers,
         \/ Acknowledge(n) \/ BecomeAvailable(n) \/ StartReject(n) \/ Store(n)
         \/ MeterRead(n) \/ StopTake(n) \/ LookupFinds(n) \/ CreatePlaceholder(n)
         \/ CreateRaises(n) \/ Identify(n) \/ StopSave(n) \/ Reply(n)
         \/ \E t \in Txs : StartCreate(n, t)
  PROVE  Working'
  <1>1. CASE Acknowledge(n)
    BY <1>1 DEF Acknowledge, Goto, TypeOK, Working
  <1>2. CASE BecomeAvailable(n)
    BY <1>2 DEF BecomeAvailable, Handles, Goto, TypeOK, Working
  <1>3. CASE StartReject(n)
    BY <1>3 DEF StartReject, Handles, Goto, TypeOK, Working
  <1>4. CASE Store(n)
    BY <1>4 DEF Store, Goto, TypeOK, Working
  <1>5. CASE MeterRead(n)
    BY <1>5 DEF MeterRead, Handles, Goto, Hold, TypeOK, Working
  <1>6. CASE StopTake(n)
    BY <1>6 DEF StopTake, Handles, Goto, Hold, TypeOK, Working
  <1>7. CASE LookupFinds(n)
    BY <1>7 DEF LookupFinds, Goto, Hold, TypeOK, Working
  <1>8. CASE CreatePlaceholder(n)
    BY <1>8 DEF CreatePlaceholder, Goto, Hold, TypeOK, Working
  <1>9. CASE CreateRaises(n)
    BY <1>9 DEF CreateRaises, Goto, TypeOK, Working
  <1>10. CASE Identify(n)
    BY <1>10 DEF Identify, Goto, TypeOK, Working
  <1>11. CASE StopSave(n)
    BY <1>11 DEF StopSave, Goto, TypeOK, Working
  <1>12. CASE Reply(n)
    BY <1>12 DEF Reply, Goto, Hold, NoCall, TypeOK, Working
  <1>13. CASE \E t \in Txs : StartCreate(n, t)
    BY <1>13 DEF StartCreate, Handles, Goto, Hold, TypeOK, Working
  <1> QED
    BY <1>1, <1>2, <1>3, <1>4, <1>5, <1>6, <1>7, <1>8, <1>9, <1>10, <1>11, <1>12, <1>13

LEMMA WorkingCharger ==
  ASSUME TypeOK, Working,
         \/ \E n \in Consumers, r \in Requests : Send(n, r)
         \/ \E c \in Connectors, t \in Txs : StartOffline(c, t)
         \/ \E c \in Connectors : Unplug(c)
         \/ Leave
         \/ Restart
  PROVE  Working'
  <1>1. CASE \E n \in Consumers, r \in Requests : Send(n, r)
    <2>1. PICK n \in Consumers, r \in Requests : Send(n, r)
      BY <1>1
    <2>2. r.action \in {"Meter", "Stop"} => r.tx \in Txs
      BY <2>1, ConstantsAssumption DEF Send, MaySend, TypeOK
    <2> QED
      BY <2>1, <2>2 DEF Send, TypeOK, Working
  <1>2. CASE \E c \in Connectors, t \in Txs : StartOffline(c, t)
    BY <1>2 DEF StartOffline, Working, handlingVars
  <1>3. CASE \E c \in Connectors : Unplug(c)
    BY <1>3 DEF Unplug, Working, handlingVars
  <1>4. CASE Leave
    BY <1>4 DEF Leave, Working, handlingVars
  <1>5. CASE Restart
    BY <1>5 DEF Restart, NoCall, TypeOK, Working
  <1> QED
    BY <1>1, <1>2, <1>3, <1>4, <1>5

LEMMA TypeNext == TypeOK /\ Working /\ [Next]_vars => TypeOK' /\ Working'
  <1> SUFFICES ASSUME TypeOK, Working, [Next]_vars
               PROVE  TypeOK' /\ Working'
    OBVIOUS
  <1>1. CASE \E n \in Consumers : ConnectionStep(n)
    BY <1>1, TypeConnection, WorkingConnection
  <1>2. CASE \E n \in Consumers : CallStep(n)
    BY <1>2, TypeAssign, TypeTransaction, TypeLookup, TypeReply,
       WorkingAssign, WorkingHandler DEF CallStep
  <1>3. CASE \E n \in Consumers, t \in Txs : StartCreate(n, t)
    BY <1>3, TypeTransaction, WorkingHandler
  <1>4. CASE \/ \E n \in Consumers, r \in Requests : Send(n, r)
             \/ \E c \in Connectors, t \in Txs : StartOffline(c, t)
             \/ \E c \in Connectors : Unplug(c)
             \/ Leave
             \/ Restart
    BY <1>4, TypeCharger, WorkingCharger
  <1>5. CASE UNCHANGED vars
    BY <1>5 DEF vars, storeVars, handlingVars, rowVars, chargerVars, runVars, TypeOK, Working
  <1> QED
    BY <1>1, <1>2, <1>3, <1>4, <1>5 DEF Next

\* Every state of the sessions is well typed.
THEOREM SessionTypes == Spec => []TypeOK
  <1>1. Init => TypeOK /\ Working
    BY TypeInit, WorkingInit
  <1>2. TypeOK /\ Working /\ [Next]_vars => (TypeOK /\ Working)'
    BY TypeNext
  <1> QED
    BY <1>1, <1>2, PTL DEF Spec

-----------------------------------------------------------------------------
(* A consumer is filed under its own key *)

Inv == TypeOK /\ Working /\ ListedAtOwnKey

\* What every entry satisfies.
Filed(k, n) ==
    /\ state[n] \in {"open", "shut", "dead"}
    /\ k = IF step[n] = "naming" THEN call[n].slot ELSE key[n]

LEMMA ListedIsFiled ==
  ListedAtOwnKey <=> \A k \in Keys, n \in Consumers : connections[k] = n => Filed(k, n)
  BY DEF ListedAtOwnKey, Filed

\* A step that adds no entry and takes no entry's reason away.
LEMMA ListedKept ==
  ASSUME Inv,
         \A k \in Keys, m \in Consumers :
             connections'[k] = m => connections[k] = m /\ (Filed(k, m) => Filed(k, m)')
  PROVE  ListedAtOwnKey'
  BY DEF Inv, ListedAtOwnKey, Filed

LEMMA ListedInit == Init => ListedAtOwnKey
  BY ConstantsAssumption DEF Init, ListedAtOwnKey

LEMMA ListedConnection ==
  ASSUME Inv, NEW n \in Consumers, ConnectionStep(n)
  PROVE  ListedAtOwnKey'
  <1> USE DEF Inv
  <1>1. CASE Connect(n)
    BY <1>1 DEF Connect, Closed, TypeOK, ListedAtOwnKey, storeVars, handlingVars
  <1>2. CASE Accept(n)
    <2>1. key[n] = "pending"
      BY <1>2 DEF Accept, Working
    <2>2. step[n] # "naming"
      BY <1>2 DEF Accept, Working
    <2> SUFFICES ASSUME NEW k \in Keys, NEW m \in Consumers, connections'[k] = m
                 PROVE  Filed(k, m)'
      BY DEF ListedAtOwnKey, Filed
    <2>3. CASE m = n
      <3>1. k = "pending"
        BY <1>2, <2>3 DEF Accept, TypeOK, ListedAtOwnKey
      <3> QED
        BY <1>2, <2>1, <2>2, <2>3, <3>1 DEF Accept, Filed, TypeOK, handlingVars
    <2>4. CASE m # n
      <3>1. connections[k] = m
        BY <1>2, <2>4 DEF Accept, TypeOK
      <3>2. Filed(k, m)
        BY <3>1, ListedIsFiled
      <3> QED
        BY <1>2, <2>4, <3>2 DEF Accept, Filed, TypeOK, handlingVars
    <2> QED
      BY <2>3, <2>4
  <1>3. CASE Reject(n)
    BY <1>3 DEF Reject, TypeOK, ListedAtOwnKey, storeVars, handlingVars
  <1>4. CASE Drop(n)
    BY <1>4 DEF Drop, TypeOK, ListedAtOwnKey, storeVars, handlingVars
  <1>5. CASE Disconnect(n)
    BY <1>5, ConstantsAssumption DEF Disconnect, TypeOK, ListedAtOwnKey, handlingVars
  <1> QED
    BY <1>1, <1>2, <1>3, <1>4, <1>5 DEF ConnectionStep

\* Whoever moves, another consumer's entries stay where they were or go.
LEMMA FileUnderEntries ==
  ASSUME TypeOK, NEW n \in Consumers, NEW slot \in Slots, FileUnder(n, slot),
         NEW k \in Keys
  PROVE  /\ connections'[slot] = n
         /\ k \notin {slot, key[n]} => connections'[k] = connections[k]
         /\ k = key[n] /\ k # slot => connections'[k] = NoConsumer
  BY DEF FileUnder, Reassign, TypeOK, Keys

LEMMA ListedFileUnder ==
  ASSUME Inv, NEW n \in Consumers, step[n] \in {"queued", "moving"},
         FileUnder(n, call[n].slot), UNCHANGED <<state, call>>
  PROVE  ListedAtOwnKey'
  <1> USE DEF Inv
  <1> DEFINE slot == call[n].slot
  <1>1. slot \in Slots /\ slot \in Keys
    BY DEF TypeOK, Requests, Keys
  <1>2. state[n] \in {"open", "shut"}
    BY DEF Working
  <1> SUFFICES ASSUME NEW k \in Keys, NEW m \in Consumers, connections'[k] = m
               PROVE  Filed(k, m)'
    BY DEF ListedAtOwnKey, Filed
  <1>3. CASE m = n
    <2>1. k = slot
      BY <1>1, <1>3, FileUnderEntries, ConstantsAssumption DEF ListedAtOwnKey
    <2> QED
      BY <1>1, <1>2, <1>3, <2>1 DEF FileUnder, Filed, TypeOK
  <1>4. CASE m # n
    <2>1. connections[k] = m
      BY <1>1, <1>4, FileUnderEntries, ConstantsAssumption
    <2>2. Filed(k, m)
      BY <2>1, ListedIsFiled
    <2> QED
      BY <1>4, <2>2 DEF FileUnder, Filed, TypeOK
  <1> QED
    BY <1>3, <1>4

LEMMA ListedAssign ==
  ASSUME Inv, NEW n \in Consumers, Assign(n) \/ Move(n) \/ Name(n)
  PROVE  ListedAtOwnKey'
  <1> USE DEF Inv
  <1>1. CASE Assign(n)
    <2>1. step[n] = "queued" /\ UNCHANGED call
      BY <1>1 DEF Assign
    <2>2. CASE key[n] = call[n].slot
      <3>1. UNCHANGED <<connections, state, key>> /\ step' = [step EXCEPT ![n] = "handling"]
        BY <1>1, <2>2 DEF Assign, storeVars
      <3> QED
        BY <2>1, <3>1, ListedKept DEF Filed, TypeOK
    <2>3. CASE key[n] # call[n].slot /\ connections[call[n].slot] \notin {NoConsumer, n}
      <3>1. /\ state' = Closed(connections[call[n].slot])
            /\ step' = [step EXCEPT ![n] = "moving"]
            /\ UNCHANGED <<connections, key>>
        BY <1>1, <2>3 DEF Assign, storeVars
      <3> QED
        BY <2>1, <3>1, ListedKept DEF Closed, Filed, TypeOK
    <2>4. CASE key[n] # call[n].slot /\ connections[call[n].slot] \in {NoConsumer, n}
      BY <1>1, <2>1, <2>4, ListedFileUnder DEF Assign
    <2> QED
      BY <2>2, <2>3, <2>4
  <1>2. CASE Move(n)
    BY <1>2, ListedFileUnder DEF Move
  <1>3. CASE Name(n)
    <2>1. /\ step[n] = "naming" /\ step' = [step EXCEPT ![n] = "handling"]
          /\ key' = [key EXCEPT ![n] = call[n].slot]
          /\ UNCHANGED <<connections, state, call>>
      BY <1>3 DEF Name, storeVars
    <2> QED
      BY <2>1, ListedKept DEF Filed, TypeOK
  <1> QED
    BY <1>1, <1>2, <1>3

\* A handler leaves the registry alone.
LEMMA ListedHandler ==
  ASSUME Inv, NEW n \in Consumers,
         \/ Acknowledge(n) \/ BecomeAvailable(n) \/ StartReject(n) \/ Store(n)
         \/ MeterRead(n) \/ StopTake(n) \/ LookupFinds(n) \/ CreatePlaceholder(n)
         \/ CreateRaises(n) \/ Identify(n) \/ StopSave(n) \/ Reply(n)
         \/ \E t \in Txs : StartCreate(n, t)
  PROVE  ListedAtOwnKey'
  <1> USE DEF Inv
  <1>1. UNCHANGED <<connections, key>>
    BY DEF Acknowledge, BecomeAvailable, StartReject, Store, MeterRead, StopTake, LookupFinds,
       CreatePlaceholder, CreateRaises, Identify, StopSave, Reply, StartCreate, storeVars
  <1>2. step[n] # "naming"
    BY DEF Acknowledge, BecomeAvailable, StartReject, Store, MeterRead, StopTake, LookupFinds,
       CreatePlaceholder, CreateRaises, Identify, StopSave, Reply, StartCreate, Handles
  <1>3. \A m \in Consumers \ {n} : UNCHANGED <<step[m], call[m]>>
    BY DEF Acknowledge, BecomeAvailable, StartReject, Store, MeterRead, StopTake, LookupFinds,
       CreatePlaceholder, CreateRaises, Identify, StopSave, Reply, StartCreate, Goto, TypeOK
  <1>4. \A m \in Consumers : state'[m] = state[m] \/ state'[m] = "dead"
    BY DEF Acknowledge, BecomeAvailable, StartReject, Store, MeterRead, StopTake, LookupFinds,
       CreatePlaceholder, CreateRaises, Identify, StopSave, Reply, StartCreate, TypeOK
  <1>5. step'[n] # "naming"
    BY DEF Acknowledge, BecomeAvailable, StartReject, Store, MeterRead, StopTake, LookupFinds,
       CreatePlaceholder, CreateRaises, Identify, StopSave, Reply, StartCreate, Goto, TypeOK
  <1> QED
    BY <1>1, <1>2, <1>3, <1>4, <1>5, ListedKept DEF Filed

LEMMA ListedCharger ==
  ASSUME Inv,
         \/ \E n \in Consumers, r \in Requests : Send(n, r)
         \/ \E c \in Connectors, t \in Txs : StartOffline(c, t)
         \/ \E c \in Connectors : Unplug(c)
         \/ Leave
         \/ Restart
  PROVE  ListedAtOwnKey'
  <1> USE DEF Inv
  <1>1. CASE \E n \in Consumers, r \in Requests : Send(n, r)
    BY <1>1, ListedKept DEF Send, Filed, TypeOK, storeVars
  <1>2. CASE \E c \in Connectors, t \in Txs : StartOffline(c, t)
    BY <1>2 DEF StartOffline, ListedAtOwnKey, storeVars, handlingVars
  <1>3. CASE \E c \in Connectors : Unplug(c)
    BY <1>3 DEF Unplug, ListedAtOwnKey, storeVars, handlingVars
  <1>4. CASE Leave
    BY <1>4 DEF Leave, ListedAtOwnKey, storeVars, handlingVars
  <1>5. CASE Restart
    BY <1>5, ConstantsAssumption DEF Restart, ListedAtOwnKey
  <1> QED
    BY <1>1, <1>2, <1>3, <1>4, <1>5

LEMMA InvNext == Inv /\ [Next]_vars => Inv'
  <1> SUFFICES ASSUME Inv, [Next]_vars
               PROVE  ListedAtOwnKey'
    BY TypeNext DEF Inv
  <1>1. CASE \E n \in Consumers : ConnectionStep(n)
    BY <1>1, ListedConnection
  <1>2. CASE \E n \in Consumers : CallStep(n)
    BY <1>2, ListedAssign, ListedHandler DEF CallStep
  <1>3. CASE \E n \in Consumers, t \in Txs : StartCreate(n, t)
    BY <1>3, ListedHandler
  <1>4. CASE \/ \E n \in Consumers, r \in Requests : Send(n, r)
             \/ \E c \in Connectors, t \in Txs : StartOffline(c, t)
             \/ \E c \in Connectors : Unplug(c)
             \/ Leave
             \/ Restart
    BY <1>4, ListedCharger
  <1>5. CASE UNCHANGED vars
    BY <1>5 DEF vars, storeVars, handlingVars, Inv, ListedAtOwnKey
  <1> QED
    BY <1>1, <1>2, <1>3, <1>4, <1>5 DEF Next

LEMMA InvInit == Init => Inv
  BY TypeInit, WorkingInit, ListedInit DEF Inv

\* However many consumers of a charger overlap and in whatever order their
\* awaits end, no entry outlives or misplaces its consumer.
THEOREM OwnKeys == Spec => []ListedAtOwnKey
  <1>1. Inv => ListedAtOwnKey
    BY DEF Inv
  <1> QED
    BY <1>1, InvInit, InvNext, PTL DEF Spec

-----------------------------------------------------------------------------
(* A consumer without another beside it can be found *)

HomeKey(n) == IF step[n] = "naming" THEN call[n].slot ELSE key[n]

Undisturbed ==
    \A n \in alone :
        /\ \A m \in Consumers \ {n} : ~Alive(m)
        /\ state[n] = "open" => connections[HomeKey(n)] = n

\* Only the consumer that is alone can be at work.
LEMMA AtWorkAlone ==
  ASSUME Inv, Undisturbed, NEW n \in Consumers, NEW a \in alone,
         Alive(n) \/ step[n] # "idle"
  PROVE  a = n
  BY DEF Inv, TypeOK, Working, Undisturbed, Alive

\* A step of the consumer that is alone which wakes nobody else and keeps its
\* entry.
LEMMA UndisturbedKept ==
  ASSUME Inv, Undisturbed, alone' \subseteq alone,
         \A m \in Consumers : Alive(m)' => Alive(m),
         \A a \in alone : state'[a] = "open" => connections'[HomeKey(a)'] = a
  PROVE  Undisturbed'
  BY DEF Undisturbed, Inv, TypeOK

LEMMA UndisturbedConnection ==
  ASSUME Inv, Undisturbed, NEW n \in Consumers, ConnectionStep(n)
  PROVE  Undisturbed'
  <1> USE DEF Inv
  <1>1. CASE Connect(n)
    <2>1. CASE \E m \in Consumers : Alive(m)
      BY <1>1, <2>1 DEF Connect, Undisturbed
    <2>2. CASE ~ \E m \in Consumers : Alive(m)
      <3>1. alone' = {n} /\ state'[n] = "accepting"
        BY <1>1, <2>2 DEF Connect, Closed, TypeOK
      <3>2. \A m \in Consumers \ {n} : state'[m] = state[m]
        BY <1>1, <2>2 DEF Connect, Closed, Alive, TypeOK
      <3> QED
        BY <2>2, <3>1, <3>2 DEF Undisturbed, Alive
    <2> QED
      BY <2>1, <2>2
  <1>2. CASE Accept(n)
    <2>1. Alive(n) /\ key[n] = "pending" /\ step[n] = "idle"
      BY <1>2 DEF Accept, Alive, Working
    <2>2. /\ state' = [state EXCEPT ![n] = "open"]
          /\ connections' = [connections EXCEPT !["pending"] = n]
          /\ UNCHANGED <<key, step, call, alone>>
      BY <1>2 DEF Accept, handlingVars, runVars
    <2>3. \A m \in Consumers : Alive(m)' => Alive(m)
      BY <2>1, <2>2 DEF Alive, TypeOK
    <2>4. connections'[HomeKey(n)'] = n
      BY <2>1, <2>2 DEF HomeKey, TypeOK, Keys
    <2>5. \A a \in alone : a = n
      BY <2>1, AtWorkAlone
    <2> QED
      BY <2>2, <2>3, <2>4, <2>5, UndisturbedKept
  <1>3. CASE Reject(n)
    BY <1>3 DEF Reject, Undisturbed
  <1>4. CASE Drop(n)
    <2>1. /\ Alive(n) /\ state' = [state EXCEPT ![n] = "shut"] /\ UNCHANGED alone
      BY <1>4 DEF Drop, Alive, runVars
    <2>2. \A a \in alone : a = n
      BY <2>1, AtWorkAlone
    <2> QED
      BY <2>1, <2>2, UndisturbedKept DEF Alive, TypeOK
  <1>5. CASE Disconnect(n)
    <2>1. /\ Alive(n) /\ state' = [state EXCEPT ![n] = "gone"] /\ UNCHANGED alone
      BY <1>5 DEF Disconnect, Alive, runVars
    <2>2. \A a \in alone : a = n
      BY <2>1, AtWorkAlone
    <2> QED
      BY <2>1, <2>2, UndisturbedKept DEF Alive, TypeOK
  <1> QED
    BY <1>1, <1>2, <1>3, <1>4, <1>5 DEF ConnectionStep

LEMMA UndisturbedAssign ==
  ASSUME Inv, Undisturbed, NEW n \in Consumers, Assign(n) \/ Move(n) \/ Name(n)
  PROVE  Undisturbed'
  <1> USE DEF Inv
  <1> DEFINE slot == call[n].slot
  <1>1. step[n] \in {"queued", "moving", "naming"} /\ UNCHANGED <<call, alone>>
    BY DEF Assign, Move, Name, runVars
  <1>2. Alive(n) /\ \A a \in alone : a = n
    BY <1>1, AtWorkAlone DEF Working, Alive
  <1>3. \A m \in Consumers : Alive(m)' => Alive(m)
    BY DEF Assign, Move, Name, Closed, Alive, TypeOK
  <1>4. slot \in Slots
    BY DEF TypeOK, Requests
  <1>5. state'[n] = "open" /\ n \in alone => connections'[HomeKey(n)'] = n
    <2> SUFFICES ASSUME n \in alone, state'[n] = "open"
                 PROVE  connections'[HomeKey(n)'] = n
      OBVIOUS
    <2>1. CASE FileUnder(n, slot)
      <3>1. connections'[slot] = n
        BY <1>4, <2>1, FileUnderEntries DEF Keys
      <3>2. HomeKey(n)' = slot
        BY <1>1, <2>1 DEF FileUnder, HomeKey, TypeOK
      <3> QED
        BY <3>1, <3>2
    <2>2. CASE /\ step[n] = "queued" /\ step'[n] \in {"handling", "moving"}
               /\ UNCHANGED <<connections, key>>
      <3>1. state[n] = "open"
        BY <1>2 DEF Assign, Move, Name, Closed, TypeOK
      <3> QED
        BY <2>2, <3>1 DEF Undisturbed, HomeKey
    <2>3. CASE Name(n)
      BY <2>3 DEF Name, Undisturbed, HomeKey, TypeOK, storeVars
    <2>4. CASE Assign(n)
      <3>1. CASE key[n] = slot
        BY <2>2, <2>4, <3>1 DEF Assign, TypeOK, storeVars
      <3>2. CASE key[n] # slot /\ connections[slot] \notin {NoConsumer, n}
        BY <2>2, <2>4, <3>2 DEF Assign, TypeOK, storeVars
      <3>3. CASE key[n] # slot /\ connections[slot] \in {NoConsumer, n}
        BY <2>1, <2>4, <3>3 DEF Assign
      <3> QED
        BY <3>1, <3>2, <3>3
    <2> QED
      BY <2>1, <2>3, <2>4 DEF Move
  <1> QED
    BY <1>1, <1>2, <1>3, <1>5, UndisturbedKept

LEMMA UndisturbedHandler ==
  ASSUME Inv, Undisturbed, NEW n \in Consumers,
         \/ Acknowledge(n) \/ BecomeAvailable(n) \/ StartReject(n) \/ Store(n)
         \/ MeterRead(n) \/ StopTake(n) \/ LookupFinds(n) \/ CreatePlaceholder(n)
         \/ CreateRaises(n) \/ Identify(n) \/ StopSave(n) \/ Reply(n)
         \/ \E t \in Txs : StartCreate(n, t)
  PROVE  Undisturbed'
  <1> USE DEF Inv
  <1>1. UNCHANGED <<connections, key, alone>>
    BY DEF Acknowledge, BecomeAvailable, StartReject, Store, MeterRead, StopTake, LookupFinds,
       CreatePlaceholder, CreateRaises, Identify, StopSave, Reply, StartCreate, storeVars, runVars
  <1>2. step[n] \notin {"idle", "naming"} /\ step'[n] # "naming"
    BY DEF Acknowledge, BecomeAvailable, StartReject, Store, MeterRead, StopTake, LookupFinds,
       CreatePlaceholder, CreateRaises, Identify, StopSave, Reply, StartCreate, Handles, Goto,
       TypeOK
  <1>3. \A m \in Consumers : state'[m] = state[m] \/ state'[m] = "dead"
    BY DEF Acknowledge, BecomeAvailable, StartReject, Store, MeterRead, StopTake, LookupFinds,
       CreatePlaceholder, CreateRaises, Identify, StopSave, Reply, StartCreate, TypeOK
  <1>4. \A a \in alone : a = n
    BY <1>2, AtWorkAlone
  <1> QED
    BY <1>1, <1>2, <1>3, <1>4, UndisturbedKept DEF Undisturbed, Alive, HomeKey

LEMMA UndisturbedCharger ==
  ASSUME Inv, Undisturbed,
         \/ \E n \in Consumers, r \in Requests : Send(n, r)
         \/ \E c \in Connectors, t \in Txs : StartOffline(c, t)
         \/ \E c \in Connectors : Unplug(c)
         \/ Leave
         \/ Restart
  PROVE  Undisturbed'
  <1> USE DEF Inv
  <1>1. CASE \E n \in Consumers, r \in Requests : Send(n, r)
    BY <1>1 DEF Send, Undisturbed, HomeKey, Alive, TypeOK, storeVars, runVars
  <1>2. CASE \E c \in Connectors, t \in Txs : StartOffline(c, t)
    BY <1>2 DEF StartOffline, Undisturbed, HomeKey, Alive, storeVars, handlingVars, runVars
  <1>3. CASE \E c \in Connectors : Unplug(c)
    BY <1>3 DEF Unplug, Undisturbed, HomeKey, Alive, storeVars, handlingVars, runVars
  <1>4. CASE Leave
    BY <1>4 DEF Leave, Undisturbed, HomeKey, Alive, storeVars, handlingVars, runVars
  <1>5. CASE Restart
    BY <1>5 DEF Restart, Undisturbed
  <1> QED
    BY <1>1, <1>2, <1>3, <1>4, <1>5

LEMMA UndisturbedNext == Inv /\ Undisturbed /\ [Next]_vars => Undisturbed'
  <1> SUFFICES ASSUME Inv, Undisturbed, [Next]_vars
               PROVE  Undisturbed'
    OBVIOUS
  <1>1. CASE \E n \in Consumers : ConnectionStep(n)
    BY <1>1, UndisturbedConnection
  <1>2. CASE \E n \in Consumers : CallStep(n)
    BY <1>2, UndisturbedAssign, UndisturbedHandler DEF CallStep
  <1>3. CASE \E n \in Consumers, t \in Txs : StartCreate(n, t)
    BY <1>3, UndisturbedHandler
  <1>4. CASE \/ \E n \in Consumers, r \in Requests : Send(n, r)
             \/ \E c \in Connectors, t \in Txs : StartOffline(c, t)
             \/ \E c \in Connectors : Unplug(c)
             \/ Leave
             \/ Restart
    BY <1>4, UndisturbedCharger
  <1>5. CASE UNCHANGED vars
    BY <1>5 DEF vars, storeVars, handlingVars, runVars, Undisturbed, HomeKey, Alive
  <1> QED
    BY <1>1, <1>2, <1>3, <1>4, <1>5 DEF Next

\* A charger that reconnects only after its previous consumer is done with can
\* always be found, whatever calls it makes and whatever dead entries there are.
THEOREM FoundAlone == Spec => []ReachableAlone
  <1>1. Init => Undisturbed
    BY DEF Init, Undisturbed
  <1>2. Inv /\ Undisturbed => ReachableAlone
    <2> SUFFICES ASSUME Inv, Undisturbed, NEW n \in alone, state[n] = "open"
                 PROVE  \E k \in Keys : connections[k] = n
      BY DEF ReachableAlone
    <2>1. HomeKey(n) \in Keys
      BY DEF Inv, TypeOK, HomeKey, Requests, Keys
    <2> QED
      BY <2>1 DEF Undisturbed
  <1> QED
    BY <1>1, <1>2, InvInit, InvNext, UndisturbedNext, PTL DEF Spec
-----------------------------------------------------------------------------
(* Whose row a running transaction has *)

\* A charger runs a transaction on one connector only.
RunsOnce ==
    \A c, d \in Connectors : running[c] = running[d] /\ running[c] # NoTx => c = d

\* The server gave it an id of a row; until its end is due, the row is the
\* connector's or there is none yet.
KnownRows ==
    \A c \in Connectors : running[c] # NoTx =>
        /\ running[c] \notin ForeignTxs => owner[running[c]] # "none"
        /\ c \notin ending => owner[running[c]] \in {"none", c}

\* A call in hand that names a running transaction is of its connector, or it
\* is its end and that is due.
NamesRunning(n) ==
    /\ call[n].tx # NoTx /\ call[n].tx \notin ForeignTxs => owner[call[n].tx] # "none"
    /\ \A c \in Connectors : call[n].tx # NoTx /\ running[c] = call[n].tx =>
           \/ call[n].action = "Meter" /\ call[n].slot = c
           \/ call[n].action = "Stop" /\ c \in ending

\* The row a StartTransaction in hand created, whose id nobody else knows.
Created(n, t) == step[n] # "idle" /\ call[n].action = "Start" /\ hand[n] = t /\ t # NoTx

KnownToNone(n, t) ==
    /\ t \notin ForeignTxs /\ owner[t] = call[n].slot
    /\ \A c \in Connectors : running[c] # t
    /\ \A m \in Consumers : step[m] # "idle" => call[m].tx # t
    /\ \A m \in Consumers : Created(m, t) => m = n

RowsInv ==
    /\ RunsOnce /\ KnownRows
    /\ \A n \in Consumers : step[n] # "idle" => NamesRunning(n)
    /\ \A n \in Consumers, t \in Txs : Created(n, t) => KnownToNone(n, t)
    /\ \A n \in Consumers : step[n] = "idle" /\ state[n] # "dead" => hand[n] = NoTx

LEMMA RowsInit == Init => RowsInv
  BY DEF Init, RowsInv, RunsOnce, KnownRows, Created

\* A step that creates no row, names no transaction and starts none.
LEMMA RowsKept ==
  ASSUME Inv, RowsInv, UNCHANGED <<owner, running, call>>, ending \subseteq ending',
         \A n \in Consumers : step'[n] # "idle" => step[n] # "idle",
         \A n \in Consumers : step[n] # "idle" /\ step'[n] = "idle" => state'[n] = "dead",
         \A n \in Consumers : state[n] = "dead" => state'[n] = "dead",
         \A n \in Consumers : hand'[n] = hand[n]
              \/ (step'[n] # "idle" /\ call[n].action \in {"Meter", "Stop"})
  PROVE  RowsInv'
  <1>1. \A n \in Consumers, t \in Txs : Created(n, t)' => Created(n, t)
    BY DEF Created
  <1>2. RunsOnce'
    BY DEF RowsInv, RunsOnce
  <1>3. KnownRows'
    BY DEF RowsInv, KnownRows
  <1>4. \A n \in Consumers : step'[n] # "idle" => NamesRunning(n)'
    BY DEF RowsInv, NamesRunning
  <1>5. \A n \in Consumers, t \in Txs : Created(n, t)' => KnownToNone(n, t)'
    BY <1>1 DEF RowsInv, KnownToNone
  <1>6. \A n \in Consumers : step'[n] = "idle" /\ state'[n] # "dead" => hand'[n] = NoTx
    BY DEF RowsInv
  <1> QED
    BY <1>2, <1>3, <1>4, <1>5, <1>6 DEF RowsInv

LEMMA RowsConnection ==
  ASSUME Inv, RowsInv, NEW n \in Consumers, ConnectionStep(n)
  PROVE  RowsInv'
  <1>1. UNCHANGED <<owner, running, ending, call, hand, step>>
    BY DEF ConnectionStep, Connect, Accept, Reject, Drop, Disconnect, handlingVars, rowVars,
       chargerVars
  <1>2. \A m \in Consumers : state[m] = "dead" => state'[m] = "dead"
    BY DEF ConnectionStep, Connect, Accept, Reject, Drop, Disconnect, Closed, Inv, TypeOK
  <1> QED
    BY <1>1, <1>2, RowsKept

LEMMA RowsAssign ==
  ASSUME Inv, RowsInv, NEW n \in Consumers, Assign(n) \/ Move(n) \/ Name(n)
  PROVE  RowsInv'
  <1>1. UNCHANGED <<owner, running, ending, call, hand>>
    BY DEF Assign, Move, Name, rowVars, chargerVars
  <1>2. \A m \in Consumers : state[m] = "dead" => state'[m] = "dead"
    BY DEF Assign, Move, Name, Closed, Inv, TypeOK
  <1>3. step[n] # "idle" /\ \A m \in Consumers : step'[m] = step[m] \/ (m = n /\ step'[m] # "idle")
    BY DEF Assign, Move, Name, FileUnder, Inv, TypeOK
  <1> QED
    BY <1>1, <1>2, <1>3, RowsKept

\* The stretches of a handler that create no row and answer nothing.
LEMMA RowsHandler ==
  ASSUME Inv, RowsInv, NEW n \in Consumers,
         \/ Acknowledge(n) \/ BecomeAvailable(n) \/ StartReject(n) \/ Store(n)
         \/ MeterRead(n) \/ StopTake(n) \/ LookupFinds(n)
         \/ CreateRaises(n) \/ Identify(n) \/ StopSave(n)
  PROVE  RowsInv'
  <1>1. UNCHANGED <<owner, running, ending, call>>
    BY DEF Acknowledge, BecomeAvailable, StartReject, Store, MeterRead, StopTake, LookupFinds,
       CreateRaises, Identify, StopSave, rowVars, chargerVars
  <1>2. step[n] # "idle" /\ (step'[n] # "idle" \/ state'[n] = "dead")
    BY DEF Acknowledge, BecomeAvailable, StartReject, Store, MeterRead, StopTake, LookupFinds,
       CreateRaises, Identify, StopSave, Handles, Goto, Inv, TypeOK
  <1>3. \A m \in Consumers : /\ m # n => step'[m] = step[m] /\ hand'[m] = hand[m]
                             /\ state'[m] = state[m] \/ state'[m] = "dead"
    BY DEF Acknowledge, BecomeAvailable, StartReject, Store, MeterRead, StopTake, LookupFinds,
       CreateRaises, Identify, StopSave, Goto, Hold, Inv, TypeOK
  <1>4. hand'[n] = hand[n] \/ (step'[n] # "idle" /\ call[n].action \in {"Meter", "Stop"})
    <2>1. CASE MeterRead(n) \/ StopTake(n)
      BY <2>1 DEF MeterRead, StopTake, Handles, Goto, Inv, TypeOK
    <2>2. CASE LookupFinds(n)
      BY <2>2 DEF LookupFinds, Goto, Inv, TypeOK, Working
    <2> QED
      BY <2>1, <2>2 DEF Acknowledge, BecomeAvailable, StartReject, Store, CreateRaises, Identify,
         StopSave
  <1> QED
    BY <1>1, <1>2, <1>3, <1>4, RowsKept
LEMMA RowsStartCreate ==
  ASSUME Inv, RowsInv, NEW n \in Consumers, NEW t \in Txs, StartCreate(n, t)
  PROVE  RowsInv'
  <1>1. /\ step[n] = "handling" /\ call[n].action = "Start"
        /\ t \notin ForeignTxs /\ owner[t] = "none"
        /\ owner' = [owner EXCEPT ![t] = call[n].slot]
        /\ hand' = [hand EXCEPT ![n] = t] /\ step' = [step EXCEPT ![n] = "storing"]
        /\ UNCHANGED <<running, ending, call, state>>
    BY DEF StartCreate, Handles, Hold, Goto, chargerVars
  <1>2. /\ call[n].slot \in Slots /\ call[n].slot # "none" /\ t # NoTx
        /\ owner \in [Txs -> Slots \cup {"none"}] /\ hand \in [Consumers -> Txs \cup {NoTx}]
        /\ step'[n] = "storing" /\ \A m \in Consumers \ {n} : step'[m] = step[m]
        /\ owner'[t] = call[n].slot
    BY <1>1, ConstantsAssumption DEF Inv, TypeOK, Requests, Slots
  <1>3. \A u \in Txs : u # t => owner'[u] = owner[u]
    BY <1>1, <1>2
  <1>4. \A c \in Connectors : running[c] # t
    BY <1>1, <1>2 DEF RowsInv, KnownRows
  <1>5. \A m \in Consumers : step'[m] # "idle" => call[m].tx # t
    BY <1>1, <1>2 DEF RowsInv, NamesRunning
  <1>6. \A c \in Connectors : running[c] \in Txs \cup {NoTx}
    BY DEF Inv, TypeOK
  <1>7. \A m \in Consumers : call[m].tx \in Txs \cup {NoTx}
    BY DEF Inv, TypeOK, Requests
  <1>8. RunsOnce' /\ KnownRows'
    BY <1>1, <1>3, <1>4, <1>6 DEF RowsInv, RunsOnce, KnownRows
  <1>9. \A m \in Consumers : step'[m] # "idle" => step[m] # "idle"
    BY <1>1, <1>2
  <1>10. \A m \in Consumers : step'[m] # "idle" => NamesRunning(m)'
    BY <1>1, <1>3, <1>5, <1>7, <1>9 DEF RowsInv, NamesRunning
  <1>11. \A m \in Consumers, u \in Txs : Created(m, u) => u # t
    BY <1>1, <1>2, ConstantsAssumption DEF RowsInv, KnownToNone, Inv, TypeOK, Requests, Slots
  <1>12. \A m \in Consumers, u \in Txs : Created(m, u)' =>
            (m = n /\ u = t) \/ (m # n /\ Created(m, u))
    BY <1>1, <1>2 DEF Created
  <1>13. ASSUME NEW m \in Consumers, NEW u \in Txs, Created(m, u)'
         PROVE  KnownToNone(m, u)'
    <2>1. CASE m = n /\ u = t
      BY <1>1, <1>2, <1>4, <1>5, <1>11, <1>12, <2>1 DEF KnownToNone
    <2>2. CASE m # n /\ Created(m, u)
      <3>1. KnownToNone(m, u) /\ u # t
        BY <1>11, <2>2 DEF RowsInv
      <3> QED
        BY <1>1, <1>3, <1>9, <1>12, <3>1 DEF KnownToNone
    <2> QED
      BY <1>12, <1>13, <2>1, <2>2
  <1>14. \A m \in Consumers : step'[m] = "idle" /\ state'[m] # "dead" => hand'[m] = NoTx
    BY <1>1, <1>2 DEF RowsInv
  <1> QED
    BY <1>8, <1>10, <1>13, <1>14 DEF RowsInv

\* The row of a MeterValues hangs on the connector that runs it, that of a
\* StopTransaction on the charger, when the end is due.
LEMMA RowsPlaceholder ==
  ASSUME Inv, RowsInv, NEW n \in Consumers, CreatePlaceholder(n)
  PROVE  RowsInv'
  <1> DEFINE t == call[n].tx
  <1>1. /\ step[n] = "lookup" /\ call[n].action \in {"Meter", "Stop"}
        /\ owner[t] = "none"
        /\ owner' = [owner EXCEPT ![t] = call[n].slot]
        /\ hand' = [hand EXCEPT ![n] = t]
        /\ step' = [step EXCEPT ![n] = IF call[n].action = "Meter" THEN "storing"
                                                                   ELSE "identifying"]
        /\ UNCHANGED <<running, ending, call, state>>
    BY DEF CreatePlaceholder, Hold, Goto, chargerVars, Inv, Working
  <1>2. t \in Txs
    BY <1>1 DEF Inv, Working
  <1>3. /\ call[n].slot \in Slots /\ call[n].slot # "none" /\ t # NoTx
        /\ owner'[t] = call[n].slot /\ \A u \in Txs : u # t => owner'[u] = owner[u]
        /\ step'[n] # "idle" /\ \A m \in Consumers \ {n} : step'[m] = step[m] /\ hand'[m] = hand[m]
    BY <1>1, <1>2, ConstantsAssumption DEF Inv, TypeOK, Requests, Slots
  <1>4. NamesRunning(n)
    BY <1>1 DEF RowsInv
  <1>5. \A c \in Connectors : running[c] = t => c \in ending \/ owner'[t] = c
    BY <1>3, <1>4 DEF NamesRunning
  <1>6. \A c \in Connectors : running[c] \in Txs \cup {NoTx}
    BY DEF Inv, TypeOK
  <1>7. \A m \in Consumers : call[m].tx \in Txs \cup {NoTx}
    BY DEF Inv, TypeOK, Requests
  <1>8. RunsOnce' /\ KnownRows'
    <2>1. RunsOnce'
      BY <1>1 DEF RowsInv, RunsOnce
    <2>2. KnownRows'
      BY <1>1, <1>3, <1>5, <1>6 DEF RowsInv, KnownRows
    <2> QED
      BY <2>1, <2>2
  <1>9. \A m \in Consumers : step'[m] # "idle" => step[m] # "idle"
    BY <1>1, <1>3
  <1>10. \A m \in Consumers : step'[m] # "idle" => NamesRunning(m)'
    BY <1>1, <1>3, <1>7, <1>9 DEF RowsInv, NamesRunning
  <1>11. \A m \in Consumers, u \in Txs : Created(m, u)' => Created(m, u) /\ m # n
    BY <1>1, <1>3 DEF Created
  <1>12. \A m \in Consumers, u \in Txs : Created(m, u) => u # t
    BY <1>1, <1>2 DEF RowsInv, KnownToNone
  <1>13. \A m \in Consumers, u \in Txs : Created(m, u)' => KnownToNone(m, u)'
    BY <1>1, <1>3, <1>9, <1>11, <1>12 DEF RowsInv, KnownToNone
  <1>14. \A m \in Consumers : step'[m] = "idle" /\ state'[m] # "dead" => hand'[m] = NoTx
    BY <1>1, <1>3 DEF RowsInv
  <1> QED
    BY <1>8, <1>10, <1>13, <1>14 DEF RowsInv

\* The reply gives the charger the id of the row just created, or tells it that
\* a transaction has ended.
LEMMA RowsReply ==
  ASSUME Inv, RowsInv, NEW n \in Consumers, Reply(n)
  PROVE  RowsInv'
  <1> DEFINE t == hand[n]
  <1>1. /\ step[n] = "replying" /\ step' = [step EXCEPT ![n] = "idle"]
        /\ call' = [call EXCEPT ![n] = NoCall] /\ hand' = [hand EXCEPT ![n] = NoTx]
        /\ UNCHANGED <<owner, state>>
    BY DEF Reply, Goto, Hold, rowVars
  <1>2. /\ step'[n] = "idle" /\ hand'[n] = NoTx
        /\ \A m \in Consumers \ {n} :
              step'[m] = step[m] /\ hand'[m] = hand[m] /\ call'[m] = call[m]
    BY <1>1 DEF Inv, TypeOK
  <1>3. ending' \subseteq ending /\ \A c \in ending : c \in ending' \/ running'[c] = NoTx
    BY DEF Reply, Inv, TypeOK
  <1>4. \A c \in Connectors :
           \/ running'[c] \in {running[c], NoTx}
           \/ call[n].action = "Start" /\ call[n].slot = c /\ running'[c] = t
    BY DEF Reply, Inv, TypeOK
  <1>5. t \in Txs \cup {NoTx}
    BY DEF Inv, TypeOK
  <1>6. \A c \in Connectors : running'[c] # NoTx =>
           \/ running'[c] = running[c]
           \/ Created(n, t) /\ call[n].slot = c /\ running'[c] = t /\ t \in Txs
    BY <1>1, <1>4, <1>5 DEF Created
  <1>7. t \in Txs /\ Created(n, t) => KnownToNone(n, t)
    BY DEF RowsInv
  <1>8. RunsOnce'
    BY <1>6, <1>7 DEF RowsInv, RunsOnce, KnownToNone
  <1>9. KnownRows'
    <2> SUFFICES ASSUME NEW c \in Connectors, running'[c] # NoTx
                 PROVE  /\ running'[c] \notin ForeignTxs => owner[running'[c]] # "none"
                        /\ c \notin ending' => owner[running'[c]] \in {"none", c}
      BY <1>1 DEF KnownRows
    <2>1. CASE running'[c] = running[c]
      BY <1>3, <2>1 DEF RowsInv, KnownRows
    <2>2. CASE Created(n, t) /\ call[n].slot = c /\ running'[c] = t /\ t \in Txs
      BY <1>7, <2>2, ConstantsAssumption DEF KnownToNone
    <2> QED
      BY <1>6, <2>1, <2>2
  <1>10. \A m \in Consumers : step'[m] # "idle" => step[m] # "idle" /\ m # n
    BY <1>2
  <1>11. ASSUME NEW m \in Consumers, step'[m] # "idle"
         PROVE  NamesRunning(m)'
    <2>1. NamesRunning(m) /\ m # n /\ call'[m] = call[m] /\ step[m] # "idle"
      BY <1>2, <1>10, <1>11 DEF RowsInv
    <2>2. \A c \in Connectors : running'[c] = call[m].tx /\ call[m].tx # NoTx
                                  => running[c] = call[m].tx /\ (c \in ending => c \in ending')
      BY <1>3, <1>6, <1>7, <2>1 DEF KnownToNone
    <2> QED
      BY <1>1, <2>1, <2>2 DEF NamesRunning
  <1>12. \A m \in Consumers, u \in Txs : Created(m, u)' => Created(m, u) /\ m # n
    BY <1>2, <1>10 DEF Created
  <1>13. ASSUME NEW m \in Consumers, NEW u \in Txs, Created(m, u)'
         PROVE  KnownToNone(m, u)'
    <2>1. KnownToNone(m, u) /\ m # n /\ u # NoTx
      BY <1>12, <1>13 DEF RowsInv, Created
    <2>2. Created(n, t) => u # t
      BY <1>12, <1>13, <2>1 DEF KnownToNone
    <2>3. \A c \in Connectors : running'[c] # u
      BY <1>6, <2>1, <2>2 DEF KnownToNone
    <2>4. \A p \in Consumers : step'[p] # "idle" => call'[p].tx # u
      BY <1>2, <1>10, <2>1 DEF KnownToNone
    <2>5. \A p \in Consumers : Created(p, u)' => p = m
      BY <1>12, <2>1 DEF KnownToNone
    <2>6. owner'[u] = call'[m].slot /\ u \notin ForeignTxs
      BY <1>1, <1>2, <2>1 DEF KnownToNone
    <2> QED
      BY <2>3, <2>4, <2>5, <2>6 DEF KnownToNone
  <1>14. \A m \in Consumers : step'[m] = "idle" /\ state'[m] # "dead" => hand'[m] = NoTx
    BY <1>1, <1>2 DEF RowsInv
  <1> QED
    BY <1>8, <1>9, <1>11, <1>13, <1>14 DEF RowsInv
LEMMA RowsSend ==
  ASSUME Inv, RowsInv, NEW n \in Consumers, NEW r \in Requests, Send(n, r)
  PROVE  RowsInv'
  <1>1. /\ state[n] = "open" /\ step[n] = "idle" /\ MaySend(r)
        /\ step' = [step EXCEPT ![n] = "queued"] /\ call' = [call EXCEPT ![n] = r]
        /\ UNCHANGED <<owner, running, ending, hand, state>>
    BY DEF Send, rowVars, chargerVars
  <1>2. /\ step'[n] = "queued" /\ call'[n] = r /\ hand[n] = NoTx
        /\ \A m \in Consumers \ {n} : step'[m] = step[m] /\ call'[m] = call[m]
    BY <1>1 DEF Inv, TypeOK, RowsInv
  <1>3. ending \subseteq Connectors
    BY DEF Inv, TypeOK
  <1>4. RunsOnce' /\ KnownRows'
    BY <1>1 DEF RowsInv, RunsOnce, KnownRows
  <1>5. r.tx # NoTx => /\ r.action \in {"Meter", "Stop"}
                       /\ \E c \in Connectors : /\ running[c] = r.tx
                                                /\ r.action = "Meter" => r.slot = c
                                                /\ r.action = "Stop" => c \in ending
    BY <1>1, <1>3 DEF MaySend
  <1>6. NamesRunning(n)'
    BY <1>1, <1>2, <1>5 DEF NamesRunning, RowsInv, RunsOnce, KnownRows
  <1>7. \A m \in Consumers : step'[m] # "idle" => NamesRunning(m)'
    BY <1>1, <1>2, <1>6 DEF NamesRunning, RowsInv
  <1>8. \A m \in Consumers, u \in Txs : Created(m, u)' => Created(m, u) /\ m # n
    BY <1>1, <1>2 DEF Created
  <1>9. \A u \in Txs : (\A c \in Connectors : running[c] # u) => r.tx # u
    BY <1>5, ConstantsAssumption
  <1>10. \A m \in Consumers, u \in Txs : Created(m, u)' => KnownToNone(m, u)'
    BY <1>1, <1>2, <1>8, <1>9 DEF KnownToNone, RowsInv
  <1>11. \A m \in Consumers : step'[m] = "idle" /\ state'[m] # "dead" => hand'[m] = NoTx
    BY <1>1, <1>2 DEF RowsInv
  <1> QED
    BY <1>4, <1>7, <1>10, <1>11 DEF RowsInv

LEMMA RowsOffline ==
  ASSUME Inv, RowsInv, NEW c \in Connectors, NEW t \in Txs, StartOffline(c, t)
  PROVE  RowsInv'
  <1>1. /\ t \in ForeignTxs /\ owner[t] = "none"
        /\ \A d \in Connectors : running[d] # t
        /\ \A n \in Consumers : step[n] # "idle" => call[n].action # "Start" /\ call[n].tx # t
        /\ running' = [running EXCEPT ![c] = t]
        /\ UNCHANGED <<owner, ending, step, call, hand, state>>
    BY DEF StartOffline, rowVars, handlingVars
  <1>2. running'[c] = t /\ \A d \in Connectors : d # c => running'[d] = running[d]
    BY <1>1 DEF Inv, TypeOK
  <1>3. RunsOnce' /\ KnownRows'
    BY <1>1, <1>2 DEF RowsInv, RunsOnce, KnownRows
  <1>4. \A m \in Consumers : step'[m] # "idle" => NamesRunning(m)'
    BY <1>1, <1>2 DEF RowsInv, NamesRunning
  <1>5. \A m \in Consumers, u \in Txs : ~Created(m, u)'
    BY <1>1 DEF Created
  <1>6. \A m \in Consumers : step'[m] = "idle" /\ state'[m] # "dead" => hand'[m] = NoTx
    BY <1>1 DEF RowsInv
  <1> QED
    BY <1>3, <1>4, <1>5, <1>6 DEF RowsInv

LEMMA RowsNext == Inv /\ RowsInv /\ [Next]_vars => RowsInv'
  <1> SUFFICES ASSUME Inv, RowsInv, [Next]_vars
               PROVE  RowsInv'
    OBVIOUS
  <1>1. CASE \E n \in Consumers : ConnectionStep(n)
    BY <1>1, RowsConnection
  <1>2. CASE \E n \in Consumers : CallStep(n)
    BY <1>2, RowsAssign, RowsHandler, RowsPlaceholder, RowsReply DEF CallStep
  <1>3. CASE \E n \in Consumers, t \in Txs : StartCreate(n, t)
    BY <1>3, RowsStartCreate
  <1>4. CASE \E n \in Consumers, r \in Requests : Send(n, r)
    BY <1>4, RowsSend
  <1>5. CASE \E c \in Connectors, t \in Txs : StartOffline(c, t)
    BY <1>5, RowsOffline
  <1>6. CASE \E c \in Connectors : Unplug(c)
    BY <1>6, RowsKept DEF Unplug, handlingVars, rowVars
  <1>7. CASE Leave
    BY <1>7, RowsKept DEF Leave, handlingVars, rowVars
  <1>8. CASE Restart
    BY <1>8 DEF Restart, rowVars, RowsInv, RunsOnce, KnownRows, Created, Inv, TypeOK
  <1>9. CASE UNCHANGED vars
    BY <1>9, RowsKept DEF vars, handlingVars, rowVars, chargerVars
  <1> QED
    BY <1>1, <1>2, <1>3, <1>4, <1>5, <1>6, <1>7, <1>8, <1>9 DEF Next

-----------------------------------------------------------------------------
(* MeterValues of a consumer without another beside it *)

\* Where the handling of a MeterValues is: no row of another slot stands in its
\* way, and from the moment it has the row, that row is the active one.
MeterStage(n) ==
    /\ owner[call[n].tx] \in {"none", call[n].slot}
    /\ step[n] # "saving"
    /\ step[n] = "storing" => hand[n] = call[n].tx
    /\ step[n] \in {"identifying", "replying"} => transactions[key[n]] = call[n].tx

Metered ==
    \A n \in alone :
        /\ state[n] = "dead" => call[n].action = "Stop"
        /\ step[n] # "idle" /\ call[n].action = "Meter" => MeterStage(n)

\* A step that leaves the stages of the consumer that is alone as they are.
LEMMA MeteredKept ==
  ASSUME Inv, Metered, alone' \subseteq alone, UNCHANGED <<transactions, step, call, hand, owner>>,
         \A n \in alone : (state'[n] = "dead" => state[n] = "dead") /\ key'[n] = key[n]
  PROVE  Metered'
  BY DEF Metered, MeterStage

LEMMA MeteredConnection ==
  ASSUME Inv, Undisturbed, Metered, NEW n \in Consumers, ConnectionStep(n)
  PROVE  Metered'
  <1> USE DEF Inv
  <1>1. CASE Connect(n)
    <2>1. alone' \subseteq {n} /\ UNCHANGED <<step, call>>
      BY <1>1 DEF Connect, handlingVars
    <2>2. step[n] = "idle" /\ state'[n] # "dead"
      BY <1>1 DEF Connect, Working, TypeOK, Closed
    <2> QED
      BY <2>1, <2>2 DEF Metered
  <1>2. CASE Accept(n)
    BY <1>2, MeteredKept DEF Accept, TypeOK, handlingVars, rowVars, runVars
  <1>3. CASE Reject(n)
    BY <1>3 DEF Reject, Metered
  <1>4. CASE Drop(n)
    BY <1>4, MeteredKept DEF Drop, TypeOK, handlingVars, rowVars, runVars, storeVars
  <1>5. CASE Disconnect(n)
    BY <1>5, MeteredKept DEF Disconnect, TypeOK, handlingVars, rowVars, runVars
  <1> QED
    BY <1>1, <1>2, <1>3, <1>4, <1>5 DEF ConnectionStep

\* Until its handler runs, a call has no stage that could be lost.
LEMMA MeteredAssign ==
  ASSUME Inv, Undisturbed, Metered, NEW n \in Consumers, Assign(n) \/ Move(n) \/ Name(n)
  PROVE  Metered'
  <1> USE DEF Inv
  <1>1. /\ step[n] \in {"queued", "moving", "naming"}
        /\ step'[n] \in {"moving", "naming", "handling"}
        /\ UNCHANGED <<call, hand, owner, alone>>
    BY DEF Assign, Move, Name, FileUnder, TypeOK, rowVars, runVars
  <1>2. \A a \in alone : a = n
    BY <1>1, AtWorkAlone
  <1>3. state'[n] # "dead"
    BY <1>1 DEF Assign, Move, Name, Closed, Working, TypeOK
  <1> QED
    BY <1>1, <1>2, <1>3 DEF Metered, MeterStage

LEMMA MeteredHandler ==
  ASSUME Inv, RowsInv, Undisturbed, Metered, NEW n \in Consumers,
         \/ Acknowledge(n) \/ BecomeAvailable(n) \/ StartReject(n) \/ Store(n)
         \/ MeterRead(n) \/ StopTake(n) \/ LookupFinds(n) \/ CreatePlaceholder(n)
         \/ CreateRaises(n) \/ Identify(n) \/ StopSave(n) \/ Reply(n)
         \/ \E t \in Txs : StartCreate(n, t)
  PROVE  Metered'
  <1> USE DEF Inv
  <1>1. step[n] # "idle" /\ UNCHANGED <<key, alone>>
    BY DEF Acknowledge, BecomeAvailable, StartReject, Store, MeterRead, StopTake, LookupFinds,
       CreatePlaceholder, CreateRaises, Identify, StopSave, Reply, StartCreate, Handles, runVars
  <1>2. \A a \in alone : a = n
    BY <1>1, AtWorkAlone
  <1>3. CASE alone = {}
    BY <1>1, <1>3 DEF Metered
  <1>4. CASE n \in alone
    <2>1. /\ call[n].action = "Meter" => MeterStage(n)
          /\ state[n] \in {"open", "shut"}
      BY <1>1, <1>4 DEF Metered, Working
    <2> SUFFICES /\ state'[n] = "dead" => call'[n].action = "Stop"
                 /\ step'[n] # "idle" /\ call'[n].action = "Meter" => MeterStage(n)'
      BY <1>1, <1>2 DEF Metered
    <2>2. CASE Acknowledge(n) \/ BecomeAvailable(n) \/ StartReject(n) \/ StopTake(n)
               \/ \E t \in Txs : StartCreate(n, t)
      <3>1. UNCHANGED <<state, call>> /\ call[n].action # "Meter"
        BY <2>2 DEF Acknowledge, BecomeAvailable, StartReject, StopTake, StartCreate, Handles
      <3> QED
        BY <2>1, <3>1
    <2>3. CASE Store(n)
      <3>1. key[n] \in Keys
        BY DEF TypeOK
      <3> QED
        BY <2>1, <2>3, <3>1 DEF Store, Goto, TypeOK, MeterStage, rowVars
    <2>4. CASE MeterRead(n)
      BY <2>1, <2>4 DEF MeterRead, Handles, Goto, Hold, TypeOK, MeterStage, rowVars, storeVars
    <2>5. CASE LookupFinds(n)
      BY <2>1, <2>5 DEF LookupFinds, Goto, Hold, TypeOK, MeterStage, rowVars, storeVars
    <2>6. CASE CreatePlaceholder(n)
      BY <2>1, <2>6 DEF CreatePlaceholder, Goto, Hold, TypeOK, Working, MeterStage, storeVars
    <2>7. CASE CreateRaises(n)
      BY <2>1, <2>7 DEF CreateRaises, Goto, TypeOK, Working, MeterStage
    <2>8. CASE Identify(n)
      BY <2>1, <2>8 DEF Identify, Goto, TypeOK, MeterStage, storeVars
    <2>9. CASE StopSave(n)
      BY <2>1, <2>9 DEF StopSave, Goto, TypeOK, MeterStage, storeVars
    <2>10. CASE Reply(n)
      BY <2>1, <2>10 DEF Reply, Goto, TypeOK
    <2> QED
      BY <2>2, <2>3, <2>4, <2>5, <2>6, <2>7, <2>8, <2>9, <2>10
  <1> QED
    BY <1>2, <1>3, <1>4

\* A connector's MeterValues names what it runs, before the end is due.
LEMMA MeteredSend ==
  ASSUME Inv, RowsInv, Metered, NEW n \in Consumers, NEW r \in Requests, Send(n, r)
  PROVE  Metered'
  <1>1. /\ state[n] = "open" /\ MaySend(r)
        /\ step' = [step EXCEPT ![n] = "queued"] /\ call' = [call EXCEPT ![n] = r]
        /\ UNCHANGED <<owner, transactions, key, hand, state, alone>>
    BY DEF Send, rowVars, storeVars, runVars
  <1>2. /\ step'[n] = "queued" /\ call'[n] = r
        /\ \A m \in Consumers \ {n} : step'[m] = step[m] /\ call'[m] = call[m]
        /\ alone \subseteq Consumers
    BY <1>1 DEF Inv, TypeOK
  <1>3. r.action = "Meter" => owner[r.tx] \in {"none", r.slot}
    BY <1>1 DEF MaySend, RowsInv, KnownRows
  <1> QED
    BY <1>1, <1>2, <1>3 DEF Metered, MeterStage

LEMMA MeteredNext == Inv /\ RowsInv /\ Undisturbed /\ Metered /\ [Next]_vars => Metered'
  <1> SUFFICES ASSUME Inv, RowsInv, Undisturbed, Metered, [Next]_vars
               PROVE  Metered'
    OBVIOUS
  <1>1. CASE \E n \in Consumers : ConnectionStep(n)
    BY <1>1, MeteredConnection
  <1>2. CASE \E n \in Consumers : CallStep(n)
    BY <1>2, MeteredAssign, MeteredHandler DEF CallStep
  <1>3. CASE \E n \in Consumers, t \in Txs : StartCreate(n, t)
    BY <1>3, MeteredHandler
  <1>4. CASE \E n \in Consumers, r \in Requests : Send(n, r)
    BY <1>4, MeteredSend
  <1>5. CASE \E c \in Connectors, t \in Txs : StartOffline(c, t)
    BY <1>5, MeteredKept DEF StartOffline, storeVars, handlingVars, rowVars, runVars
  <1>6. CASE \E c \in Connectors : Unplug(c)
    BY <1>6, MeteredKept DEF Unplug, storeVars, handlingVars, rowVars, runVars
  <1>7. CASE Leave
    BY <1>7, MeteredKept DEF Leave, storeVars, handlingVars, rowVars, runVars
  <1>8. CASE Restart
    BY <1>8 DEF Restart, Metered
  <1>9. CASE UNCHANGED vars
    BY <1>9, MeteredKept DEF vars, storeVars, handlingVars, rowVars, runVars
  <1> QED
    BY <1>1, <1>2, <1>3, <1>4, <1>5, <1>6, <1>7, <1>8, <1>9 DEF Next

\* MeterValues of a charger whose previous consumer is done with never raise,
\* and leave the transaction they name active, whatever sessions, offline
\* starts and unanswered calls came before.
THEOREM MetersResume == Spec => []MeterResumes
  <1>1. Init => Undisturbed /\ Metered
    BY DEF Init, Undisturbed, Metered
  <1>2. Inv /\ Metered => MeterResumes
    <2> SUFFICES ASSUME Metered
                 PROVE  MeterResumes
      OBVIOUS
    <2> QED
      BY DEF Metered, MeterStage, MeterResumes
  <1> QED
    BY <1>1, <1>2, InvInit, InvNext, RowsInit, RowsNext, UndisturbedNext, MeteredNext, PTL
    DEF Spec
-----------------------------------------------------------------------------
(* One session of a charger with one connector *)

\* The active transaction of a consumer's key.
Cached(n) == transactions[HomeKey(n)]

\* What a call in hand knows. The transaction it names runs; the cached one, if
\* there is one, is that; the end is stored only by the StopTransaction.
InCall(n, c) ==
    /\ n \in alone /\ step[n] # "moving"
    /\ step[n] \in {"queued", "naming", "handling", "lookup"} => hand[n] = NoTx
    /\ step[n] = "storing" => call[n].action \in {"Start", "Meter"}
    /\ step[n] = "identifying" => call[n].action \in {"Meter", "Stop"} /\ hand[n] = call[n].tx
    /\ step[n] = "saving" => call[n].action = "Stop" /\ hand[n] = call[n].tx
    /\ call[n].action \notin {"Start", "Meter", "Stop"} => hand[n] = NoTx
    /\ call[n].action = "Start" =>
          /\ call[n].slot = c /\ running[c] = NoTx /\ hand[n] \notin stopped
          /\ Cached(n) = IF step[n] = "replying" THEN hand[n] ELSE NoTx
    /\ call[n].action \in {"Meter", "Stop"} => running[c] = call[n].tx
    /\ call[n].action = "Available" => running[c] = NoTx \/ owner[running[c]] = "none"
    /\ call[n].action = "Stop" =>
          /\ step[n] = "lookup" => owner[call[n].tx] = "none"
          /\ step[n] \notin {"queued", "naming", "handling"} => Cached(n) = NoTx
    /\ call[n].action # "Start" => Cached(n) \in {NoTx, running[c]}
    /\ running[c] \in stopped <=> call[n].action = "Stop" /\ step[n] = "replying"

\* Nothing is cached elsewhere, and what runs is cached from its row on.
SessionInv(n, c) ==
    /\ \A k \in Keys : k # HomeKey(n) => transactions[k] = NoTx
    /\ state[n] = "new" => Cached(n) = NoTx /\ stopped = {}
    /\ state[n] # "dead"
    /\ sock = n => state[n] \in {"accepting", "open"}
    /\ state[n] \in {"accepting", "open"} => n \in alone
    /\ \A t \in stopped \cup {Cached(n), hand[n]} : t # NoTx => owner[t] # "none"
    /\ sock = n /\ step[n] = "idle" => Cached(n) \in {NoTx, running[c]} /\ running[c] \notin stopped
    /\ step[n] # "idle" => InCall(n, c)
    /\ /\ restarts = 0 \/ state[n] # "gone"
       /\ running[c] # NoTx /\ owner[running[c]] # "none" /\ running[c] \notin stopped
       => running[c] \in {Cached(n), hand[n]}
    /\ StableIdentifier

Single(n, c) ==
    /\ Consumers = {n} /\ Connectors = {c}
    /\ Inv /\ RowsInv /\ Metered
    /\ SessionInv(n, c)

\* Another connector's or consumer's key is no concern here.
LEMMA SingleTypes ==
  ASSUME NEW n, NEW c, Single(n, c)
  PROVE  /\ n \in Consumers /\ c \in Connectors
         /\ HomeKey(n) \in Keys /\ key[n] \in Keys /\ call[n].slot \in Slots
         /\ running[c] \in Txs \cup {NoTx} /\ hand[n] \in Txs \cup {NoTx}
         /\ call[n].tx \in Txs \cup {NoTx}
         /\ NoTx \notin Txs /\ stopped \subseteq Txs
         /\ sock \in {n, NoConsumer} /\ NoConsumer # n
  BY ConstantsAssumption DEF Single, Inv, TypeOK, HomeKey, Requests, Keys

LEMMA SingleInit ==
  ASSUME NEW n, NEW c, Consumers = {n}, Connectors = {c}, Init
  PROVE  SessionInv(n, c)
  <1>1. \A k \in Keys : transactions[k] = NoTx
    BY DEF Init
  <1>2. HomeKey(n) \in Keys
    BY DEF Init, HomeKey, Keys
  <1> QED
    BY <1>1, <1>2, ConstantsAssumption DEF Init, SessionInv, Cached, StableIdentifier

LEMMA SingleConnection ==
  ASSUME NEW n, NEW c, Single(n, c), ConnectionStep(n)
  PROVE  SessionInv(n, c)'
  <1>t. n \in Consumers /\ sock \in {n, NoConsumer} /\ NoConsumer # n /\ NoTx \notin Txs
    BY SingleTypes
  <1>1. UNCHANGED <<transactions, key, step, call, hand, owner, stopped, ocppId, running, restarts>>
    BY DEF ConnectionStep, Connect, Accept, Reject, Drop, Disconnect, handlingVars, rowVars,
       chargerVars, storeVars, runVars
  <1>2. Cached(n)' = Cached(n) /\ HomeKey(n)' = HomeKey(n)
    BY <1>1 DEF Cached, HomeKey
  <1>3. step[n] # "idle" => state[n] \in {"open", "shut"}
    BY <1>t DEF Single, Inv, Working
  <1>4. state'[n] \in {"accepting", "open", "shut", "gone"}
    BY <1>t DEF ConnectionStep, Connect, Accept, Reject, Drop, Disconnect, Closed, Single, Inv,
       TypeOK
  <1>5. sock' = n => state'[n] \in {"accepting", "open"}
    BY <1>t DEF ConnectionStep, Connect, Accept, Reject, Drop, Disconnect, Closed, Hangup, Single,
       Inv, TypeOK, SessionInv, chargerVars
  <1>6. step[n] # "idle" => alone' = alone
    BY <1>3 DEF ConnectionStep, Connect, Accept, Reject, Drop, Disconnect, runVars
  <1>7. step[n] # "idle" => InCall(n, c)'
    BY <1>1, <1>2, <1>6 DEF InCall, Single, SessionInv
  <1>8. sock' = n /\ step[n] = "idle" => Cached(n) \in {NoTx, running[c]} /\ running[c] \notin stopped
    <2>1. CASE sock = n
      BY <2>1 DEF Single, SessionInv
    <2>2. CASE sock # n /\ sock' = n
      <3>1. state[n] = "new"
        BY <2>2 DEF ConnectionStep, Connect, Accept, Reject, Drop, Disconnect, Hangup, chargerVars
      <3> QED
        BY <3>1 DEF Single, SessionInv
    <2> QED
      BY <2>1, <2>2
  <1>9. state'[n] = "new" => state[n] = "new"
    BY <1>4
  <1>10. restarts = 0 \/ state'[n] # "gone" => restarts = 0 \/ state[n] # "gone"
    BY <1>t DEF ConnectionStep, Connect, Accept, Reject, Drop, Disconnect
  <1>11. state'[n] \in {"accepting", "open"} => n \in alone'
    <2>1. CASE Connect(n)
      <3>1. ~ \E m \in Consumers : Alive(m)
        BY <2>1 DEF Connect, Alive, Single
      <3> QED
        BY <2>1, <3>1 DEF Connect
    <2>2. CASE Accept(n)
      BY <2>2 DEF Accept, runVars, Single, SessionInv
    <2>3. CASE Reject(n) \/ Drop(n) \/ Disconnect(n)
      BY <1>t, <2>3 DEF Reject, Drop, Disconnect, Single, Inv, TypeOK
    <2> QED
      BY <2>1, <2>2, <2>3 DEF ConnectionStep
  <1> QED
    BY <1>1, <1>2, <1>4, <1>5, <1>7, <1>8, <1>9, <1>10, <1>11 DEF Single, SessionInv, StableIdentifier

\* The cached transaction moves along with the consumer.
LEMMA SingleAssign ==
  ASSUME NEW n, NEW c, Single(n, c), Assign(n) \/ Move(n) \/ Name(n)
  PROVE  SessionInv(n, c)'
  <1> DEFINE slot == call[n].slot
  <1>t. /\ n \in Consumers /\ HomeKey(n) \in Keys /\ key[n] \in Keys /\ slot \in Slots
        /\ slot \in Keys
    BY SingleTypes DEF Keys
  <1>1. /\ step[n] \in {"queued", "naming"}
        /\ UNCHANGED <<call, hand, owner, ocppId, stopped, sock, running, restarts, alone>>
    BY DEF Assign, Move, Name, Single, SessionInv, InCall, rowVars, chargerVars, runVars
  <1>2. state' = state
    <2>1. \A k \in Keys : connections[k] \in {NoConsumer, n}
      BY DEF Single, Inv, TypeOK
    <2> QED
      BY <1>t, <1>1, <2>1 DEF Assign, Move, Name
  <1>3. step'[n] \in {"naming", "handling"}
    BY <1>t, <1>1, <1>2 DEF Assign, Move, Name, FileUnder, Single, Inv, TypeOK
  <1>4. /\ Cached(n)' = Cached(n)
        /\ \A k \in Keys : k # HomeKey(n)' => transactions'[k] = NoTx
    <2>1. CASE FileUnder(n, slot) /\ key[n] # slot /\ step[n] = "queued"
      <3>1. HomeKey(n) = key[n] /\ HomeKey(n)' = slot
        BY <1>t, <1>1, <2>1 DEF HomeKey, FileUnder, Single, Inv, TypeOK
      <3>2. transactions \in [Keys -> Txs \cup {NoTx}]
        BY DEF Single, Inv, TypeOK
      <3>3. \A k \in Keys : k # key[n] => transactions[k] = NoTx
        BY <3>1 DEF Single, SessionInv
      <3>4. transactions' = Reassign(key[n], slot, transactions, NoTx)
        BY <2>1 DEF FileUnder
      <3>5. transactions'[slot] = transactions[key[n]]
        BY <1>t, <2>1, <3>2, <3>3, <3>4 DEF Reassign
      <3>6. \A k \in Keys : k # slot => transactions'[k] = NoTx
        BY <1>t, <2>1, <3>2, <3>3, <3>4 DEF Reassign
      <3> QED
        BY <3>1, <3>5, <3>6 DEF Cached
    <2>2. CASE transactions' = transactions /\ HomeKey(n)' = HomeKey(n)
      BY <2>2 DEF Cached, Single, SessionInv
    <2>3. CASE Name(n)
      BY <1>t, <2>2, <2>3 DEF Name, HomeKey, storeVars, Single, Inv, TypeOK
    <2>4. CASE Assign(n) /\ key[n] = slot
      BY <1>t, <1>1, <2>2, <2>4 DEF Assign, HomeKey, storeVars, Single, Inv, TypeOK
    <2>5. CASE Assign(n) /\ key[n] # slot
      BY <1>1, <1>3, <2>1, <2>5 DEF Assign, Single, Inv, TypeOK
    <2> QED
      BY <1>1, <2>3, <2>4, <2>5 DEF Move
  <1>5. InCall(n, c)'
    BY <1>1, <1>3, <1>4 DEF InCall, Single, SessionInv
  <1> QED
    BY <1>1, <1>2, <1>3, <1>4, <1>5 DEF Single, SessionInv, StableIdentifier

\* What a handler leaves alone.
LEMMA SingleStay ==
  ASSUME NEW n, NEW c, Single(n, c), step[n] # "idle", step'[n] # "naming",
         step[n] # "naming", UNCHANGED <<key, state, sock, running, restarts, alone>>,
         \A k \in Keys : k # key[n] => transactions'[k] = transactions[k],
         \A t \in stopped' \cup {Cached(n)', hand'[n]} : t # NoTx => owner'[t] # "none",
         step'[n] # "idle" => InCall(n, c)',
         sock = n /\ step'[n] = "idle" => Cached(n)' \in {NoTx, running[c]}
                                          /\ running[c] \notin stopped',
         running[c] # NoTx /\ owner'[running[c]] # "none" /\ running[c] \notin stopped'
            => running[c] \in {Cached(n)', hand'[n]} \/ (restarts # 0 /\ state[n] = "gone"),
         StableIdentifier'
  PROVE  SessionInv(n, c)'
  <1>1. HomeKey(n)' = key[n] /\ HomeKey(n) = key[n]
    BY DEF HomeKey
  <1>2. state[n] # "new" /\ n \in Consumers
    BY DEF Single, Inv, Working
  <1> QED
    BY <1>1, <1>2 DEF Single, SessionInv

LEMMA SingleSimple ==
  ASSUME NEW n, NEW c, Single(n, c),
         Acknowledge(n) \/ BecomeAvailable(n) \/ StartReject(n) \/ Store(n)
  PROVE  SessionInv(n, c)'
  <1>t. /\ n \in Consumers /\ key[n] \in Keys /\ HomeKey(n) \in Keys /\ hand[n] \in Txs \cup {NoTx}
        /\ running[c] \in Txs \cup {NoTx} /\ NoTx \notin Txs /\ stopped \subseteq Txs
    BY SingleTypes
  <1>1. /\ step[n] \in {"handling", "storing"}
        /\ UNCHANGED <<key, state, call, hand, owner, ocppId, stopped, sock, running, restarts, alone>>
    BY DEF Acknowledge, BecomeAvailable, StartReject, Store, Handles, rowVars, chargerVars, runVars
  <1>2. step'[n] \in {"replying", "identifying"}
    BY <1>t DEF Acknowledge, BecomeAvailable, StartReject, Store, Goto, Single, Inv, TypeOK
  <1>3. HomeKey(n)' = key[n] /\ HomeKey(n) = key[n]
    BY <1>1, <1>2 DEF HomeKey
  <1>4. \A k \in Keys : k # key[n] => transactions'[k] = transactions[k]
    BY <1>t DEF Acknowledge, BecomeAvailable, StartReject, Store, storeVars, Single, Inv, TypeOK
  <1>5. InCall(n, c)
    BY <1>1 DEF Single, SessionInv
  <1>6. InCall(n, c)'
    <2>1. CASE Acknowledge(n)
      <3>1. Cached(n)' = Cached(n) /\ step'[n] = "replying" /\ step[n] = "handling"
               /\ call[n].action \notin {"Start", "Meter", "Stop"}
        BY <1>t, <1>3, <2>1 DEF Acknowledge, Goto, storeVars, Cached, Single, Inv, TypeOK
      <3> QED
        BY <1>1, <1>5, <3>1 DEF InCall
    <2>2. CASE BecomeAvailable(n)
      <3>1. Cached(n)' = NoTx /\ step'[n] = "replying" /\ call[n].action = "Available"
        BY <1>t, <1>3, <2>2 DEF BecomeAvailable, Handles, Goto, Cached, Single, Inv, TypeOK
      <3> QED
        BY <1>1, <1>5, <3>1 DEF InCall
    <2>3. CASE StartReject(n)
      <3>1. Cached(n)' = Cached(n) /\ step'[n] = "replying" /\ call[n].action = "Start"
            /\ step[n] = "handling"
        BY <1>t, <1>3, <2>3 DEF StartReject, Handles, Goto, storeVars, Cached, Single, Inv, TypeOK
      <3> QED
        BY <1>1, <1>5, <3>1 DEF InCall
    <2>4. CASE Store(n)
      <3>1. /\ Cached(n)' = hand[n] /\ step[n] = "storing"
            /\ step'[n] = IF call[n].action = "Meter" THEN "identifying" ELSE "replying"
        BY <1>t, <1>3, <2>4 DEF Store, Goto, Cached, Single, Inv, TypeOK
      <3>2. call[n].action = "Meter" => hand[n] = call[n].tx
        BY <1>1, <1>5, <3>1 DEF InCall, Single, Metered, MeterStage
      <3> QED
        BY <1>1, <1>5, <3>1, <3>2 DEF InCall
    <2> QED
      BY <2>1, <2>2, <2>3, <2>4
  <1>7. running[c] # NoTx /\ owner[running[c]] # "none" /\ running[c] \notin stopped
           => running[c] \in {Cached(n)', hand[n]}
    <2>1. running[c] # NoTx /\ owner[running[c]] # "none" /\ running[c] \notin stopped
             => running[c] \in {Cached(n), hand[n]}
      <3>1. state[n] # "gone"
        BY <1>t, <1>1 DEF Single, Inv, Working
      <3> QED
        BY <3>1 DEF Single, SessionInv
    <2>2. CASE Acknowledge(n) \/ StartReject(n)
      BY <1>3, <2>1, <2>2 DEF Acknowledge, StartReject, storeVars, Cached
    <2>3. CASE BecomeAvailable(n)
      BY <1>5, <2>3 DEF BecomeAvailable, Handles, InCall
    <2>4. CASE Store(n)
      <3>1. step[n] = "storing"
        BY <2>4 DEF Store
      <3>2. call[n].action = "Start" \/ (call[n].action = "Meter" /\ hand[n] = call[n].tx)
        BY <1>1, <1>5, <3>1 DEF InCall, Single, Metered, MeterStage
      <3> QED
        BY <1>5, <3>2 DEF InCall
    <2> QED
      BY <2>2, <2>3, <2>4
  <1>8. \A t \in stopped \cup {Cached(n)', hand[n]} : t # NoTx => owner[t] # "none"
    <2>1. Cached(n)' \in {Cached(n), NoTx, hand[n]}
      BY <1>t, <1>3 DEF Acknowledge, BecomeAvailable, StartReject, Store, storeVars, Cached,
         Single, Inv, TypeOK
    <2> QED
      BY <2>1 DEF Single, SessionInv
  <1>9. StableIdentifier'
    BY <1>1 DEF Single, SessionInv, StableIdentifier
  <1> QED
    BY <1>1, <1>2, <1>4, <1>6, <1>7, <1>8, <1>9, SingleStay

\* The row a MeterValues or StopTransaction finds or makes is that of the
\* transaction it names.
LEMMA SingleRead ==
  ASSUME NEW n, NEW c, Single(n, c),
         MeterRead(n) \/ StopTake(n) \/ LookupFinds(n) \/ CreatePlaceholder(n)
  PROVE  SessionInv(n, c)'
  <1>t. /\ n \in Consumers /\ key[n] \in Keys /\ HomeKey(n) \in Keys /\ hand[n] \in Txs \cup {NoTx}
        /\ running[c] \in Txs \cup {NoTx} /\ NoTx \notin Txs /\ stopped \subseteq Txs
        /\ call[n].slot \in Slots /\ "none" \notin Slots
    BY SingleTypes, ConstantsAssumption DEF Slots
  <1>1. /\ step[n] \in {"handling", "lookup"} /\ call[n].action \in {"Meter", "Stop"}
        /\ UNCHANGED <<key, state, call, stopped, sock, running, restarts, alone>>
    BY <1>t DEF MeterRead, StopTake, LookupFinds, CreatePlaceholder, Handles, storeVars, rowVars,
       chargerVars, runVars, Single, Inv, Working
  <1>2. call[n].tx \in Txs
    BY <1>t, <1>1 DEF Single, Inv, Working
  <1>3. InCall(n, c) /\ hand[n] = NoTx /\ running[c] = call[n].tx /\ call[n].tx \notin stopped
    BY <1>1 DEF Single, SessionInv, InCall
  <1>4. Cached(n) = transactions[key[n]] /\ Cached(n) \in {NoTx, call[n].tx}
    BY <1>1, <1>3 DEF InCall, Cached, HomeKey
  <1>5. step'[n] \in {"lookup", "storing", "identifying"}
    BY <1>t DEF MeterRead, StopTake, LookupFinds, CreatePlaceholder, Goto, Single, Inv, TypeOK
  <1>6. HomeKey(n)' = key[n]
    BY <1>1, <1>5 DEF HomeKey
  <1>7. owner[call[n].tx] # "none" => Cached(n) = call[n].tx
    <2>1. state[n] # "gone"
      BY <1>t, <1>1 DEF Single, Inv, Working
    <2> QED
      BY <1>2, <1>3, <1>t, <2>1 DEF Single, SessionInv
  <1>8. /\ \A t \in stopped : owner[t] # "none" /\ t # call[n].tx
        /\ Cached(n) # NoTx => owner[Cached(n)] # "none"
    BY <1>t, <1>3 DEF Single, SessionInv
  <1>9. StableIdentifier
    BY DEF Single, SessionInv
  <1>10. CASE MeterRead(n)
    <2>1. /\ UNCHANGED <<transactions, owner, ocppId>> /\ call[n].action = "Meter"
          /\ IF Cached(n) = call[n].tx
             THEN hand'[n] = call[n].tx /\ step'[n] = "identifying"
             ELSE hand'[n] = NoTx /\ step'[n] = "lookup"
      BY <1>t, <1>3, <1>4, <1>10 DEF MeterRead, Handles, Hold, Goto, storeVars, rowVars, Single,
         Inv, TypeOK
    <2>2. Cached(n)' = Cached(n)
      BY <1>4, <1>6, <1>1, <2>1 DEF Cached
    <2>3. InCall(n, c)'
      BY <1>1, <1>3, <1>4, <2>1, <2>2 DEF InCall
    <2> QED
      BY <1>1, <1>3, <1>5, <1>7, <1>8, <1>9, <2>1, <2>2, <2>3, SingleStay DEF StableIdentifier
  <1>11. CASE StopTake(n)
    <2>1. /\ UNCHANGED <<owner, ocppId>> /\ call[n].action = "Stop"
          /\ transactions' = [transactions EXCEPT ![key[n]] = NoTx]
          /\ hand'[n] = Cached(n)
          /\ step'[n] = IF Cached(n) = NoTx THEN "lookup" ELSE "identifying"
      BY <1>t, <1>4, <1>11 DEF StopTake, Handles, Hold, Goto, rowVars, Single, Inv, TypeOK
    <2>2. Cached(n)' = NoTx /\ \A k \in Keys : k # key[n] => transactions'[k] = transactions[k]
      BY <1>t, <1>1, <1>6, <2>1 DEF Cached, Single, Inv, TypeOK
    <2>3. InCall(n, c)'
      BY <1>t, <1>1, <1>2, <1>3, <1>4, <1>7, <2>1, <2>2 DEF InCall
    <2> QED
      BY <1>1, <1>3, <1>5, <1>7, <1>8, <1>9, <2>1, <2>2, <2>3, SingleStay DEF StableIdentifier
  <1>12. CASE LookupFinds(n)
    <2>1. /\ UNCHANGED <<transactions, owner, ocppId>> /\ step[n] = "lookup"
          /\ owner[call[n].tx] # "none"
          /\ hand'[n] = call[n].tx
          /\ step'[n] = IF call[n].action = "Meter" THEN "storing" ELSE "identifying"
      BY <1>t, <1>12 DEF LookupFinds, Hold, Goto, storeVars, rowVars, Single, Inv, TypeOK
    <2>2. Cached(n)' = Cached(n)
      BY <1>4, <1>6, <1>1, <2>1 DEF Cached
    <2>3. InCall(n, c)'
      BY <1>1, <1>3, <1>4, <2>1, <2>2 DEF InCall
    <2> QED
      BY <1>1, <1>3, <1>5, <1>7, <1>8, <1>9, <2>1, <2>2, <2>3, SingleStay DEF StableIdentifier
  <1>13. CASE CreatePlaceholder(n)
    <2>1. /\ UNCHANGED transactions /\ step[n] = "lookup"
          /\ owner' = [owner EXCEPT ![call[n].tx] = call[n].slot]
          /\ \A t \in Txs : ocppId'[t] \in {ocppId[t], t}
          /\ hand'[n] = call[n].tx
          /\ step'[n] = IF call[n].action = "Meter" THEN "storing" ELSE "identifying"
      BY <1>t, <1>13 DEF CreatePlaceholder, Hold, Goto, storeVars, Single, Inv, TypeOK
    <2>2. Cached(n)' = Cached(n)
      BY <1>4, <1>6, <1>1, <2>1 DEF Cached
    <2>3. InCall(n, c)'
      BY <1>1, <1>3, <1>4, <2>1, <2>2 DEF InCall
    <2>4. \A t \in stopped' \cup {Cached(n)', hand'[n]} : t # NoTx => owner'[t] # "none"
      BY <1>t, <1>1, <1>2, <1>4, <1>8, <2>1, <2>2 DEF Single, Inv, TypeOK
    <2>5. StableIdentifier'
      BY <1>9, <2>1 DEF StableIdentifier
    <2> QED
      BY <1>1, <1>3, <1>5, <2>1, <2>2, <2>3, <2>4, <2>5, SingleStay
  <1> QED
    BY <1>10, <1>11, <1>12, <1>13

\* A StopTransaction names and stores the transaction it was sent for.
LEMMA SingleWrite ==
  ASSUME NEW n, NEW c, Single(n, c), Identify(n) \/ StopSave(n)
  PROVE  SessionInv(n, c)'
  <1>t. /\ n \in Consumers /\ key[n] \in Keys
        /\ running[c] \in Txs \cup {NoTx} /\ NoTx \notin Txs /\ stopped \subseteq Txs
    BY SingleTypes
  <1>1. /\ step[n] \in {"identifying", "saving"}
        /\ UNCHANGED <<transactions, key, state, call, hand, owner, sock, running, restarts, alone>>
    BY DEF Identify, StopSave, storeVars, chargerVars, runVars
  <1>2. /\ InCall(n, c) /\ call[n].action \in {"Meter", "Stop"}
        /\ hand[n] = call[n].tx /\ running[c] = call[n].tx
    BY <1>1 DEF Single, SessionInv, InCall
  <1>3. hand[n] \in Txs
    BY <1>t, <1>1 DEF Single, Inv, Working
  <1>4. \A t \in stopped \cup {Cached(n), hand[n]} : t # NoTx => owner[t] # "none"
    BY DEF Single, SessionInv
  <1>5. step'[n] \in {"saving", "replying"}
    BY <1>t DEF Identify, StopSave, Goto, Single, Inv, TypeOK
  <1>6. HomeKey(n)' = key[n] /\ Cached(n)' = Cached(n)
    BY <1>1, <1>5 DEF HomeKey, Cached
  <1>7. StableIdentifier
    BY DEF Single, SessionInv
  <1>8. CASE Identify(n)
    <2>1. /\ stopped' = stopped /\ \A t \in Txs : ocppId'[t] \in {ocppId[t], t}
          /\ step'[n] = IF call[n].action = "Stop" THEN "saving" ELSE "replying"
      BY <1>t, <1>2, <1>8 DEF Identify, Goto, Single, Inv, TypeOK
    <2>2. StableIdentifier'
      BY <1>7, <2>1 DEF StableIdentifier
    <2>3. InCall(n, c)'
      BY <1>1, <1>2, <1>6, <2>1 DEF InCall
    <2> QED
      BY <1>1, <1>2, <1>4, <1>5, <1>6, <2>1, <2>2, <2>3, SingleStay
  <1>9. CASE StopSave(n)
    <2>1. stopped' = stopped \cup {hand[n]} /\ ocppId' = ocppId /\ step'[n] = "replying"
      BY <1>t, <1>9 DEF StopSave, Goto, Single, Inv, TypeOK
    <2>2. StableIdentifier'
      BY <1>7, <2>1 DEF StableIdentifier
    <2>3. call[n].action = "Stop"
      BY <1>2, <1>9 DEF StopSave, InCall
    <2>4. InCall(n, c)'
      BY <1>1, <1>2, <1>6, <2>1, <2>3 DEF InCall
    <2> QED
      BY <1>1, <1>2, <1>4, <1>5, <1>6, <2>1, <2>2, <2>4, SingleStay
  <1> QED
    BY <1>8, <1>9

LEMMA SingleStartCreate ==
  ASSUME NEW n, NEW c, Single(n, c), NEW t \in Txs, StartCreate(n, t)
  PROVE  SessionInv(n, c)'
  <1>t. /\ n \in Consumers /\ key[n] \in Keys /\ HomeKey(n) \in Keys /\ call[n].slot \in Slots
        /\ running[c] \in Txs \cup {NoTx} /\ NoTx \notin Txs /\ stopped \subseteq Txs
        /\ "none" \notin Slots
    BY SingleTypes, ConstantsAssumption DEF Slots
  <1>1. /\ step[n] = "handling" /\ call[n].action = "Start" /\ owner[t] = "none"
        /\ UNCHANGED <<transactions, key, state, call, stopped, sock, running, restarts, alone>>
    BY DEF StartCreate, Handles, storeVars, chargerVars, runVars
  <1>2. /\ owner'[t] # "none" /\ \A u \in Txs : u # t => owner'[u] = owner[u]
        /\ \A u \in Txs : ocppId'[u] \in {ocppId[u], u}
        /\ hand'[n] = t /\ step'[n] = "storing"
    BY <1>t DEF StartCreate, Hold, Goto, Single, Inv, TypeOK
  <1>3. InCall(n, c) /\ running[c] = NoTx /\ Cached(n) = NoTx
    BY <1>1 DEF Single, SessionInv, InCall
  <1>4. HomeKey(n)' = key[n] /\ Cached(n)' = Cached(n)
    BY <1>1, <1>2 DEF HomeKey, Cached
  <1>5. t \notin stopped /\ \A u \in stopped : owner[u] # "none"
    BY <1>t, <1>1 DEF Single, SessionInv
  <1>6. \A u \in stopped' \cup {Cached(n)', hand'[n]} : u # NoTx => owner'[u] # "none"
    BY <1>t, <1>1, <1>2, <1>3, <1>4, <1>5
  <1>7. InCall(n, c)'
    BY <1>1, <1>2, <1>3, <1>4, <1>5 DEF InCall
  <1>8. StableIdentifier'
    BY <1>2 DEF Single, SessionInv, StableIdentifier
  <1> QED
    BY <1>1, <1>2, <1>3, <1>6, <1>7, <1>8, SingleStay

\* Neither a MeterValues nor a StopTransaction meets a row of another slot.
LEMMA SingleNeverRaises ==
  ASSUME NEW n, NEW c, Single(n, c)
  PROVE  ~CreateRaises(n)
  <1> SUFFICES ASSUME CreateRaises(n)
               PROVE  FALSE
    OBVIOUS
  <1>1. /\ step[n] = "lookup" /\ call[n].action \in {"Meter", "Stop"}
        /\ owner[call[n].tx] \notin {"none", call[n].slot}
    BY SingleTypes DEF CreateRaises, Single, Inv, Working
  <1>2. InCall(n, c)
    BY <1>1 DEF Single, SessionInv
  <1>3. call[n].action = "Meter" => MeterStage(n)
    BY <1>1, <1>2 DEF InCall, Single, Metered
  <1> QED
    BY <1>1, <1>2, <1>3 DEF InCall, MeterStage

\* Only a charger that heard the reply goes on calling.
LEMMA SingleReply ==
  ASSUME NEW n, NEW c, Single(n, c), Reply(n)
  PROVE  SessionInv(n, c)'
  <1>t. /\ n \in Consumers /\ c \in Connectors /\ HomeKey(n) \in Keys /\ hand[n] \in Txs \cup {NoTx}
        /\ running[c] \in Txs \cup {NoTx} /\ NoTx \notin Txs /\ stopped \subseteq Txs
    BY SingleTypes
  <1>1. /\ step[n] = "replying" /\ step'[n] = "idle" /\ hand'[n] = NoTx
        /\ UNCHANGED <<transactions, key, state, owner, ocppId, stopped, sock, restarts, alone>>
    BY <1>t DEF Reply, Goto, Hold, storeVars, rowVars, runVars, Single, Inv, TypeOK
  <1>2. InCall(n, c) /\ state[n] \in {"open", "shut"}
    BY <1>t, <1>1 DEF Single, SessionInv, Inv, Working
  <1>3. HomeKey(n)' = HomeKey(n) /\ Cached(n)' = Cached(n)
    BY <1>1 DEF HomeKey, Cached
  <1>4. /\ running[c] # NoTx /\ owner[running[c]] # "none" /\ running[c] \notin stopped
             => running[c] \in {Cached(n), hand[n]}
        /\ \A t \in stopped \cup {Cached(n), hand[n]} : t # NoTx => owner[t] # "none"
        /\ \A k \in Keys : k # HomeKey(n) => transactions[k] = NoTx
        /\ sock = n => state[n] = "open"
        /\ StableIdentifier
    BY <1>2 DEF Single, SessionInv
  <1>5. sock # n => running'[c] = running[c]
    BY <1>t DEF Reply, Single, Inv, TypeOK
  <1>6. sock = n /\ call[n].action = "Start" => running'[c] = hand[n]
    BY <1>t, <1>2, <1>4 DEF Reply, InCall, Single, Inv, TypeOK
  <1>7. call[n].action = "Stop" => c \in ending
    <2>1. call[n].action = "Stop" => call[n].tx \in Txs /\ NamesRunning(n)
      BY <1>t, <1>1, <1>2 DEF Single, RowsInv, Inv, Working
    <2> QED
      BY <1>t, <1>2, <2>1 DEF InCall, NamesRunning
  <1>8. sock = n /\ call[n].action = "Stop" => running'[c] = NoTx
    BY <1>t, <1>2, <1>4, <1>7 DEF Reply, InCall, Single, Inv, TypeOK
  <1>9. call[n].action \notin {"Start", "Stop"} => running'[c] = running[c]
    BY <1>t DEF Reply, Single, Inv, TypeOK
  <1>10. call[n].action = "Meter" => Cached(n) = running[c]
    <2>1. call[n].action = "Meter" => transactions[key[n]] = call[n].tx
      BY <1>1, <1>2 DEF InCall, Single, Metered, MeterStage
    <2>2. HomeKey(n) = key[n]
      BY <1>1 DEF HomeKey
    <2> QED
      BY <1>2, <2>1, <2>2 DEF InCall, Cached
  <1>11. sock = n => Cached(n) \in {NoTx, running'[c]} /\ running'[c] \notin stopped
    BY <1>t, <1>1, <1>2, <1>6, <1>8, <1>9 DEF InCall
  <1>12. running'[c] # NoTx /\ owner[running'[c]] # "none" /\ running'[c] \notin stopped
             => running'[c] = Cached(n)
    <2>1. CASE sock = n /\ call[n].action \in {"Start", "Stop"}
      BY <1>1, <1>2, <1>6, <1>8, <2>1 DEF InCall
    <2>2. CASE running'[c] = running[c]
      BY <1>1, <1>2, <1>4, <1>10, <2>2 DEF InCall
    <2> QED
      BY <1>5, <1>9, <2>1, <2>2
  <1> QED
    BY <1>1, <1>2, <1>3, <1>4, <1>11, <1>12 DEF Single, SessionInv, StableIdentifier
LEMMA SingleSend ==
  ASSUME NEW n, NEW c, Single(n, c), NEW r \in Requests, Send(n, r)
  PROVE  SessionInv(n, c)'
  <1>t. /\ n \in Consumers /\ running[c] \in Txs \cup {NoTx} /\ NoTx \notin Txs
        /\ stopped \subseteq Txs
    BY SingleTypes
  <1>1. /\ sock = n /\ state[n] = "open" /\ step[n] = "idle" /\ MaySend(r)
        /\ UNCHANGED <<transactions, key, hand, state, owner, ocppId, stopped, sock, running,
                       ending, restarts, alone>>
    BY DEF Send, storeVars, rowVars, chargerVars, runVars
  <1>2. call'[n] = r /\ step'[n] = "queued"
    BY <1>t DEF Send, Single, Inv, TypeOK
  <1>3. hand[n] = NoTx
    BY <1>t, <1>1 DEF Single, RowsInv
  <1>4. HomeKey(n)' = HomeKey(n) /\ Cached(n)' = Cached(n)
    BY <1>1, <1>2 DEF HomeKey, Cached
  <1>5. Cached(n) \in {NoTx, running[c]} /\ running[c] \notin stopped /\ n \in alone
    BY <1>1 DEF Single, SessionInv
  <1>6. /\ r.action = "Start" => r.slot = c /\ running[c] = NoTx
        /\ r.action \in {"Meter", "Stop"} => running[c] = r.tx
        /\ r.action = "Available" => running[c] = NoTx
    BY <1>1 DEF MaySend, Single, Inv, TypeOK
  <1>7. InCall(n, c)'
    BY <1>t, <1>1, <1>2, <1>3, <1>4, <1>5, <1>6 DEF InCall
  <1> QED
    BY <1>1, <1>2, <1>4, <1>7 DEF Single, SessionInv, StableIdentifier

LEMMA SingleOffline ==
  ASSUME NEW n, NEW c, Single(n, c), NEW t \in Txs, StartOffline(c, t)
  PROVE  SessionInv(n, c)'
  <1>t. n \in Consumers /\ NoTx \notin Txs /\ stopped \subseteq Txs
    BY SingleTypes
  <1>1. /\ running[c] = NoTx /\ owner[t] = "none"
        /\ step[n] # "idle" => call[n].action # "Start" /\ call[n].tx # t
        /\ UNCHANGED <<transactions, key, hand, state, step, call, owner, ocppId, stopped, sock,
                       restarts, alone>>
    BY <1>t DEF StartOffline, storeVars, handlingVars, rowVars, runVars
  <1>2. running'[c] = t
    BY DEF StartOffline, Single, Inv, TypeOK
  <1>3. HomeKey(n)' = HomeKey(n) /\ Cached(n)' = Cached(n)
    BY <1>1 DEF HomeKey, Cached
  <1>4. t \notin stopped
    BY <1>t, <1>1 DEF Single, SessionInv
  <1>5. step[n] # "idle" => InCall(n, c) /\ call[n].action \notin {"Meter", "Stop", "Start"}
    BY <1>t, <1>1 DEF Single, SessionInv, InCall, Inv, Working
  <1>6. step[n] # "idle" => InCall(n, c)'
    BY <1>1, <1>2, <1>3, <1>4, <1>5 DEF InCall
  <1> QED
    BY <1>1, <1>2, <1>3, <1>4, <1>6 DEF Single, SessionInv, StableIdentifier

\* A charger that gives up the connection makes no other; a session that the
\* restart ended makes no call.
LEMMA SingleCharger ==
  ASSUME NEW n, NEW c, Single(n, c), Unplug(c) \/ Leave \/ Restart \/ UNCHANGED vars
  PROVE  SessionInv(n, c)'
  <1>t. /\ n \in Consumers /\ sock \in {n, NoConsumer} /\ NoConsumer # n /\ key[n] \in Keys
        /\ NoTx \notin Txs /\ HomeKey(n) \in Keys
    BY SingleTypes
  <1>1. CASE Unplug(c) \/ Leave \/ UNCHANGED vars
    <2>1. /\ UNCHANGED <<transactions, key, hand, state, step, call, owner, ocppId, stopped,
                         running, restarts, alone>>
          /\ sock' = n => sock = n
      BY <1>t, <1>1 DEF Unplug, Leave, vars, storeVars, handlingVars, rowVars, chargerVars, runVars
    <2>2. HomeKey(n)' = HomeKey(n) /\ Cached(n)' = Cached(n)
      BY <2>1 DEF HomeKey, Cached
    <2>3. step[n] # "idle" => InCall(n, c)'
      BY <2>1, <2>2 DEF InCall, Single, SessionInv
    <2> QED
      BY <2>1, <2>2, <2>3 DEF Single, SessionInv, StableIdentifier
  <1>2. CASE Restart
    <2>1. /\ \A k \in Keys : transactions'[k] = NoTx
          /\ state'[n] = IF state[n] = "new" THEN "new" ELSE "gone"
          /\ step'[n] = "idle" /\ hand'[n] = NoTx /\ sock' = NoConsumer
          /\ restarts' # 0 /\ UNCHANGED <<key, owner, ocppId, stopped, running>>
      BY <1>t, <1>2, ConstantsAssumption DEF Restart, rowVars, Single, Inv, TypeOK
    <2>2. HomeKey(n)' \in Keys /\ Cached(n)' = NoTx
      BY <1>t, <2>1 DEF HomeKey, Cached
    <2>3. state[n] = "new" => /\ hand[n] = NoTx /\ Cached(n) = NoTx /\ stopped = {}
                              /\ running[c] # NoTx => owner[running[c]] = "none"
      <3>1. state[n] = "new" => hand[n] = NoTx
        BY <1>t DEF Single, RowsInv, Inv, Working
      <3> QED
        BY <3>1 DEF Single, SessionInv
    <2> QED
      BY <1>t, <2>1, <2>2, <2>3 DEF Single, SessionInv, StableIdentifier
  <1> QED
    BY <1>1, <1>2

LEMMA SingleNext ==
  ASSUME NEW n, NEW c, Consumers = {n}, Connectors = {c}
  PROVE  Inv /\ RowsInv /\ Metered /\ SessionInv(n, c) /\ [Next]_vars => SessionInv(n, c)'
  <1> SUFFICES ASSUME Single(n, c), [Next]_vars
               PROVE  SessionInv(n, c)'
    BY DEF Single
  <1>1. CASE ConnectionStep(n)
    BY <1>1, SingleConnection
  <1>2. CASE CallStep(n)
    BY <1>2, SingleAssign, SingleSimple, SingleRead, SingleNeverRaises, SingleWrite, SingleReply
    DEF CallStep
  <1>3. CASE \E t \in Txs : StartCreate(n, t)
    BY <1>3, SingleStartCreate
  <1>4. CASE \E r \in Requests : Send(n, r)
    BY <1>4, SingleSend
  <1>5. CASE \E t \in Txs : StartOffline(c, t)
    BY <1>5, SingleOffline
  <1>6. CASE Unplug(c) \/ Leave \/ Restart \/ UNCHANGED vars
    BY <1>6, SingleCharger
  <1> QED
    BY <1>1, <1>2, <1>3, <1>4, <1>5, <1>6 DEF Next

\* What the theorems about one session are about.
OneSession(n, c) == Consumers = {n} /\ Connectors = {c}

LEMMA SessionAlways ==
  ASSUME NEW n, NEW c, OneSession(n, c)
  PROVE  Spec => [](Inv /\ SessionInv(n, c))
  <1> USE DEF OneSession
  <1>1. Init => Undisturbed /\ Metered
    BY DEF Init, Undisturbed, Metered
  <1>2. Init => SessionInv(n, c)
    BY SingleInit
  <1>3. Inv /\ RowsInv /\ Metered /\ SessionInv(n, c) /\ [Next]_vars => SessionInv(n, c)'
    BY SingleNext
  <1> QED
    BY <1>1, <1>2, <1>3, InvInit, InvNext, RowsInit, RowsNext, UndisturbedNext, MeteredNext, PTL
    DEF Spec

\* In one session of a charger with one connector, however many transactions it
\* makes and whatever order its calls and offline starts come in, no call
\* renames another transaction.
THEOREM IdentifiersStay ==
  ASSUME NEW n, NEW c, OneSession(n, c)
  PROVE  Spec => []StableIdentifier
  <1>1. SessionInv(n, c) => StableIdentifier
    BY DEF SessionInv
  <1> QED
    BY <1>1, SessionAlways, PTL

\* In such a session every StopTransaction is answered.
THEOREM StopsAreAnswered ==
  ASSUME NEW n, NEW c, OneSession(n, c)
  PROVE  Spec => []StopAnswered
  <1>1. SessionInv(n, c) => StopAnswered
    BY DEF SessionInv, StopAnswered, OneSession
  <1> QED
    BY <1>1, SessionAlways, PTL

\* And, the process living on, the running transaction stays the active one of
\* its consumer's key until its StopTransaction.
THEOREM RunningIsKept ==
  ASSUME NEW n, NEW c, OneSession(n, c), MaxRestarts = 0
  PROVE  Spec => []KeepsRunning
  <1>1. Inv /\ SessionInv(n, c) => KeepsRunning
    <2> SUFFICES ASSUME Inv, SessionInv(n, c)
                 PROVE  KeepsRunning
      OBVIOUS
    <2>1. restarts = 0
      BY DEF Inv, TypeOK
    <2> QED
      BY <2>1 DEF SessionInv, KeepsRunning, OneSession, Cached, HomeKey
  <1> QED
    BY <1>1, SessionAlways, PTL
=============================================================================
