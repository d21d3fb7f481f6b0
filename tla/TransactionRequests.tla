------------------------ MODULE TransactionRequests ------------------------
(***************************************************************************)
(* Remote starts and stops of transactions (OCPP 2.x), and their match     *)
(* with the transactions the chargers report.                              *)
(*                                                                         *)
(* apps/ocpp/store/transactions.py files each request under its charger's  *)
(* connector and under its transaction, in two indexes beside the table    *)
(* itself.  Operators register requests after they have sent them; the     *)
(* charger's consumers update them when it answers, find them when it      *)
(* starts a transaction (deciding about them some awaits later), mark them *)
(* when it ends one, and clear them when its socket closes - also when a   *)
(* new consumer of the charger is at work already.                         *)
(***************************************************************************)
EXTENDS Naturals, Sequences

CONSTANTS
    Requests,   \* message ids of RequestStartTransaction, RequestStopTransaction
    NoRequest,
    Chargers,
    Connectors,
    Txs,        \* transaction ids, each charger's own: they may coincide
    NoTx,
    Consumers,  \* websocket consumers: one per connection of a charger
    NoConsumer,
    Charger,    \* of each consumer
    MaxInbox    \* messages of a charger waiting in a consumer

ASSUME ConstantsAssumption ==
    /\ NoTx \notin Txs /\ NoRequest \notin Requests /\ "all" \notin Connectors
    /\ NoConsumer \notin Consumers
    /\ Charger \in [Consumers -> Chargers]
    /\ MaxInbox \in Nat

All == "all"   \* connector_slug of no connector
Slots == Connectors \cup {All}
AnyTx == Txs \cup {NoTx}
Entries == [action : {"start", "stop"}, charger : Chargers, slot : Slots, tx : AnyTx,
            status : {"requested", "accepted", "rejected", "started", "completed"}]
NoEntry == [status |-> "none"]
Answers == [kind : {"answer"}, request : Requests, slot : {All}, tx : AnyTx, accepted : BOOLEAN]
Events == [kind : {"started", "ended"}, request : {NoRequest}, slot : Connectors, tx : Txs,
           accepted : {TRUE}]
Closing == [kind |-> "closed", request |-> NoRequest, slot |-> All, tx |-> NoTx,
            accepted |-> TRUE]
Messages == Answers \cup Events \cup {Closing}

VARIABLES
    \* the store
    tracked, entry,  \* transaction_requests: its keys, and their values
    byConnector,     \* _transaction_requests_by_connector
    byTransaction,   \* _transaction_requests_by_transaction
    called,          \* pending_calls
    \* operators
    operator,        \* how far each request's view got
    \* the consumers
    inbox,           \* messages of the charger a consumer has not handled
    deciding,        \* it handles a Started event
    found,           \* requests it found for that
    \* the chargers
    socket,          \* the consumer a charger talks to
    asked,           \* requests a charger has not answered
    running,         \* the transaction on each connector of a charger
    used,            \* transaction ids a charger has used
    \* history
    refused,         \* requests marked as rejected
    over             \* charger and transaction of each Ended event handled

indexVars == <<byConnector, byTransaction>>
storeVars == <<tracked, entry, indexVars>>
consumerVars == <<inbox, deciding, found>>
chargerVars == <<socket, asked, running, used>>
pastVars == <<refused, over>>
vars == <<storeVars, called, operator, consumerVars, chargerVars, pastVars>>

-----------------------------------------------------------------------------
(* store/transactions.py *)

\* Mutant: the transaction is not looked at.
MatchAnyTx(r, charger, slot, tx, action, statuses) ==
    /\ r \in tracked
    /\ entry[r].charger = charger
    /\ slot # All => entry[r].slot = slot
    /\ entry[r].action = action /\ entry[r].status \in statuses
\* The filter of find_transaction_requests and mark_transaction_requests.
Match(r, charger, slot, tx, action, statuses) ==
    /\ r \in tracked
    /\ entry[r].charger = charger
    /\ slot # All => entry[r].slot = slot
    /\ tx # NoTx => entry[r].tx = tx
    /\ entry[r].action = action /\ entry[r].status \in statuses

\* Mutant: every request has a connector.
CandidatesOfConnector(charger, slot, tx) ==
    byConnector[<<charger, slot>>] \cup (IF tx = NoTx THEN {} ELSE byTransaction[tx])
\* What the indexes offer to the filter.
Candidates(charger, slot, tx) ==
    byConnector[<<charger, slot>>] \cup (IF tx = NoTx THEN {} ELSE byTransaction[tx])
                               \cup (IF slot = All /\ tx = NoTx THEN tracked ELSE {})

Find(charger, slot, tx, action, statuses) ==
    {r \in Candidates(charger, slot, tx) : Match(r, charger, slot, tx, action, statuses)}

\* register_transaction_request
Register(r, e) ==
    /\ tracked' = tracked \cup {r}
    /\ entry' = [entry EXCEPT ![r] = e]
    /\ byConnector' = [byConnector EXCEPT ![<<e.charger, e.slot>>] = @ \cup {r}]
    /\ byTransaction' = IF e.tx = NoTx THEN byTransaction
                        ELSE [byTransaction EXCEPT ![e.tx] = @ \cup {r}]

\* Mutant: requests stay filed under their old transaction.
Keeping(rs, t) == byTransaction[t]
\* Requests under another transaction than t leave its bucket.
Leaving(rs, t) == byTransaction[t] \ rs

\* _update_transaction_request_locked, for all of rs under one lock or one by
\* one.  No caller moves a request to another connector.
Rebound(e, tx, status) ==
    [action |-> e.action, charger |-> e.charger, slot |-> e.slot,
     tx |-> IF tx = NoTx THEN e.tx ELSE tx, status |-> status]
Update(rs, tx, status) ==
    LET now == rs \cap tracked IN
    /\ entry' = [r \in Requests |->
                    IF r \in now THEN Rebound(entry[r], tx, status) ELSE entry[r]]
    /\ byTransaction' =
           IF tx = NoTx THEN byTransaction
           ELSE [t \in Txs |-> IF t = tx THEN byTransaction[t] \cup now
                               ELSE Leaving(now, t)]
    /\ UNCHANGED <<tracked, byConnector>>

\* The part of clear_pending_calls on these tables.
Clear(charger) ==
    LET stale == {r \in tracked : entry[r].charger = charger} IN
    /\ tracked' = tracked \ stale
    /\ byConnector' = [k \in DOMAIN byConnector |-> byConnector[k] \ stale]
    /\ byTransaction' = [t \in Txs |-> byTransaction[t] \ stale]
    /\ UNCHANGED entry

-----------------------------------------------------------------------------
(* Operators: views/actions/core.py *)

\* The view sends the request through the consumer it found, which may have
\* closed, and only then files it: with no connector a start is filed under All.
OperatorSends(r, action, charger, slot, tx) ==
    /\ operator[r].at = "new"
    /\ action = "start" <=> tx = NoTx
    /\ LET e == [action |-> action, charger |-> charger, slot |-> slot, tx |-> tx,
                 status |-> "requested"] IN
       operator' = [operator EXCEPT ![r] = [at |-> "sent", entry |-> e]]
    /\ asked' = IF socket[charger] = NoConsumer THEN asked ELSE asked \cup {r}
    /\ UNCHANGED <<storeVars, called, consumerVars, socket, running, used, pastVars>>

OperatorRegistersCall(r) ==
    /\ operator[r].at = "sent"
    /\ operator' = [operator EXCEPT ![r].at = "called"]
    /\ called' = called \cup {r}
    /\ UNCHANGED <<storeVars, consumerVars, chargerVars, pastVars>>

OperatorRegisters(r) ==
    /\ operator[r].at = "called"
    /\ operator' = [operator EXCEPT ![r].at = "done"]
    /\ Register(r, operator[r].entry)
    /\ UNCHANGED <<called, consumerVars, chargerVars, pastVars>>

-----------------------------------------------------------------------------
(* The charger's consumers *)

Takes(n, kind) ==
    /\ ~deciding[n]
    /\ inbox[n] # <<>> /\ Head(inbox[n]).kind = kind

Done(n) ==
    /\ inbox' = [inbox EXCEPT ![n] = Tail(@)]
    /\ deciding' = [deciding EXCEPT ![n] = FALSE]
    /\ found' = [found EXCEPT ![n] = {}]

\* Mutant: the status as the charger wrote it.
RawOutcome(m) == IF m.accepted THEN "Accepted" ELSE "Rejected"
Outcome(m) == IF m.accepted THEN "accepted" ELSE "rejected"

\* handle_request_start_transaction_result, ..._stop_..., and their errors: if
\* the call is pending.  A request registered only later is not updated.
HandleAnswer(n) ==
    /\ Takes(n, "answer")
    /\ LET m == Head(inbox[n]) IN
       IF m.request \in called
       THEN /\ called' = called \ {m.request}
            /\ Update({m.request}, m.tx, Outcome(m))
            /\ refused' = IF m.accepted THEN refused ELSE refused \cup (tracked \cap {m.request})
       ELSE UNCHANGED <<storeVars, called, refused>>
    /\ Done(n)
    /\ UNCHANGED <<operator, chargerVars, over>>

\* Mutant: whatever came of the request.
OpenStatuses(n) == {"requested", "accepted", "rejected"}
\* What a Started event looks for.
StartStatuses(n) == {"requested", "accepted"}

HandleStarted(n) ==
    /\ Takes(n, "started")
    /\ found' = [found EXCEPT ![n] =
          Find(Charger[n], Head(inbox[n]).slot, NoTx, "start", StartStatuses(n))]
    /\ deciding' = [deciding EXCEPT ![n] = TRUE]
    /\ UNCHANGED <<storeVars, called, operator, inbox, chargerVars, pastVars>>

\* Authorized, whatever is left of what was found belongs to the transaction.
Decide(n) ==
    /\ deciding[n]
    /\ \/ Update(found[n], Head(inbox[n]).tx, "started")
       \/ UNCHANGED storeVars
    /\ Done(n)
    /\ UNCHANGED <<called, operator, chargerVars, pastVars>>

\* mark_transaction_requests, for starts and for stops of the transaction.
HandleEnded(n) ==
    /\ Takes(n, "ended")
    /\ LET m == Head(inbox[n])
           starts == Find(Charger[n], m.slot, m.tx, "start", {"started", "accepted", "requested"})
           stops == Find(Charger[n], m.slot, m.tx, "stop", {"accepted", "requested"})
       IN /\ Update(starts \cup stops, m.tx, "completed")
          /\ over' = over \cup {<<Charger[n], m.tx>>}
    /\ Done(n)
    /\ UNCHANGED <<called, operator, chargerVars, refused>>

\* disconnect(), after the messages that came before: it also clears what was
\* registered since the charger reconnected.
HandleClosed(n) ==
    /\ Takes(n, "closed")
    /\ Clear(Charger[n])
    /\ called' = {r \in called : operator[r].entry.charger # Charger[n]}
    /\ Done(n)
    /\ UNCHANGED <<operator, chargerVars, pastVars>>

-----------------------------------------------------------------------------
(* The chargers *)

Says(n, m) ==
    /\ socket[Charger[n]] = n
    /\ Len(inbox[n]) < MaxInbox
    /\ inbox' = [inbox EXCEPT ![n] = Append(@, m)]
    /\ UNCHANGED <<storeVars, called, operator, deciding, found, socket, pastVars>>

\* An accepted start may name the transaction it led to.
Answer(n, r, accepted, tx) ==
    /\ r \in asked /\ operator[r].entry.charger = Charger[n]
    /\ IF operator[r].entry.action = "stop" THEN tx = operator[r].entry.tx
       ELSE \/ tx = NoTx
            \/ accepted /\ \E c \in Connectors : running[<<Charger[n], c>>] = tx
    /\ asked' = asked \ {r}
    /\ Says(n, [kind |-> "answer", request |-> r, slot |-> All, tx |-> tx,
                accepted |-> accepted])
    /\ UNCHANGED <<running, used>>

Event(kind, c, t) ==
    [kind |-> kind, request |-> NoRequest, slot |-> c, tx |-> t, accepted |-> TRUE]

Start(n, c, t) ==
    /\ running[<<Charger[n], c>>] = NoTx /\ <<Charger[n], t>> \notin used
    /\ running' = [running EXCEPT ![<<Charger[n], c>>] = t]
    /\ used' = used \cup {<<Charger[n], t>>}
    /\ Says(n, Event("started", c, t))
    /\ UNCHANGED asked

End(n, c) ==
    LET t == running[<<Charger[n], c>>] IN
    /\ t # NoTx
    /\ running' = [running EXCEPT ![<<Charger[n], c>>] = NoTx]
    /\ Says(n, Event("ended", c, t))
    /\ UNCHANGED <<asked, used>>

\* The socket breaks; what the consumer received it still handles.
Leave(n) ==
    /\ socket[Charger[n]] = n
    /\ socket' = [socket EXCEPT ![Charger[n]] = NoConsumer]
    /\ asked' = {q \in asked : operator[q].entry.charger # Charger[n]}
    /\ inbox' = [inbox EXCEPT ![n] = Append(@, Closing)]
    /\ UNCHANGED <<storeVars, called, operator, deciding, found, running, used, pastVars>>

Fresh(n) == inbox[n] = <<>> /\ socket[Charger[n]] = NoConsumer

Connect(n) ==
    /\ Fresh(n)
    /\ socket' = [socket EXCEPT ![Charger[n]] = n]
    /\ UNCHANGED <<storeVars, called, operator, consumerVars, asked, running, used, pastVars>>

-----------------------------------------------------------------------------
Init ==
    /\ tracked = {}
    /\ entry = [r \in Requests |-> NoEntry]
    /\ byConnector = [k \in Chargers \X Slots |-> {}]
    /\ byTransaction = [t \in Txs |-> {}]
    /\ called = {}
    /\ operator = [r \in Requests |-> [at |-> "new", entry |-> NoEntry]]
    /\ inbox = [n \in Consumers |-> <<>>]
    /\ deciding = [n \in Consumers |-> FALSE]
    /\ found = [n \in Consumers |-> {}]
    /\ socket = [c \in Chargers |-> NoConsumer]
    /\ asked = {} /\ used = {}
    /\ running = [k \in Chargers \X Connectors |-> NoTx]
    /\ refused = {} /\ over = {}

OperatorStep(r) ==
    \/ \E action \in {"start", "stop"}, c \in Chargers, s \in Slots, t \in AnyTx :
          OperatorSends(r, action, c, s, t)
    \/ OperatorRegistersCall(r) \/ OperatorRegisters(r)

ConsumerStep(n) ==
    \/ HandleAnswer(n) \/ HandleStarted(n) \/ Decide(n)
    \/ HandleEnded(n) \/ HandleClosed(n)

ChargerStep(n) ==
    \/ Connect(n) \/ Leave(n)
    \/ \E r \in Requests, accepted \in BOOLEAN, t \in AnyTx : Answer(n, r, accepted, t)
    \/ \E c \in Connectors : (\E t \in Txs : Start(n, c, t)) \/ End(n, c)

Next ==
    \/ \E r \in Requests : OperatorStep(r)
    \/ \E n \in Consumers : ConsumerStep(n) \/ ChargerStep(n)

Spec == Init /\ [][Next]_vars

-----------------------------------------------------------------------------
(* Properties *)

TypeOK ==
    /\ tracked \subseteq Requests
    /\ entry \in [Requests -> Entries \cup {NoEntry}]
    /\ \A r \in tracked : entry[r] # NoEntry
    /\ byConnector \in [Chargers \X Slots -> SUBSET Requests]
    /\ byTransaction \in [Txs -> SUBSET Requests]
    /\ called \subseteq Requests
    /\ operator \in [Requests -> [at : {"new", "sent", "called", "done"},
                                  entry : Entries \cup {NoEntry}]]
    /\ \A r \in Requests : operator[r].at # "new" => operator[r].entry # NoEntry
    /\ inbox \in [Consumers -> Seq(Messages)]
    /\ deciding \in [Consumers -> BOOLEAN]
    /\ found \in [Consumers -> SUBSET Requests]
    /\ socket \in [Chargers -> Consumers \cup {NoConsumer}]
    /\ asked \subseteq Requests
    /\ running \in [Chargers \X Connectors -> AnyTx]
    /\ used \subseteq Chargers \X Txs
    /\ refused \subseteq Requests /\ over \subseteq Chargers \X Txs

\* A request is filed exactly where its entry says, whatever order requests
\* are registered, rebound to a transaction, completed and cleared in.
IndexesAgree ==
    /\ \A c \in Chargers, s \in Slots :
          byConnector[<<c, s>>] = {r \in tracked : entry[r].charger = c /\ entry[r].slot = s}
    /\ \A t \in Txs : byTransaction[t] = {r \in tracked : entry[r].tx = t}

\* find_transaction_requests and mark_transaction_requests overlook no request
\* that a scan of the whole table would find, whatever the filters: the indexes
\* offer all that pass.
FindsAll ==
    \A c \in Chargers, s \in Slots, t \in AnyTx : \A r \in tracked :
        /\ entry[r].charger = c
        /\ s # All => entry[r].slot = s
        /\ t # NoTx => entry[r].tx = t
        => r \in Candidates(c, s, t)

\* A request is only completed by the end of the transaction it was bound to,
\* on its own charger: not by that of another transaction on the connector, nor
\* by the same id on another charger.
CompletedByOwnEnd ==
    [][\A r \in tracked : entry[r].status # "completed" /\ entry'[r].status = "completed" =>
          /\ entry'[r].tx = entry[r].tx
          /\ <<entry[r].charger, entry[r].tx>> \in over']_vars

\* A rejection is final: no Started or Ended event turns a request the charger
\* refused into a started or completed one, as long as one consumer handles the
\* charger's messages: a second one may decide about a start the first found open.
RejectedStays ==
    \A r \in tracked \cap refused :
        entry[r].status # "rejected" =>
            \E n, k \in Consumers :
               n # k /\ Charger[n] = entry[r].charger /\ Charger[k] = entry[r].charger
=============================================================================
