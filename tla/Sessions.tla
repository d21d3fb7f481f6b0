------------------------------ MODULE Sessions ------------------------------
(***************************************************************************)
(* The websocket sessions of one charge point, and its transactions.       *)
(*                                                                         *)
(* The store files a consumer and its active transaction under a key made  *)
(* of the serial and a slot: "pending" until the first call, a connector,  *)
(* or "all" for the charger as a whole. Every CALL re-files the consumer   *)
(* under the connector it mentions (_assign_connector) before its handler  *)
(* runs; the handlers read and write the transaction under that key and    *)
(* rows of the database, awaiting in between. A charger that reconnects    *)
(* has several consumers at once, each handling its own queue.             *)
(*                                                                         *)
(* One action is one stretch of a coroutine between two awaits at which    *)
(* another consumer of the charger may run. The handlers are those of OCPP *)
(* 1.6 (StartTransaction, MeterValues, StopTransaction, StatusNotification *)
(* and, for all calls without a connector, Heartbeat).                     *)
(***************************************************************************)
EXTENDS Naturals, FiniteSets

CONSTANTS
    Consumers,     \* websocket consumers: one per connection attempt
    NoConsumer,
    Connectors,    \* connector ids of the charger
    Txs,           \* primary keys of transaction rows
    ForeignTxs,    \* ids the charger made up while offline
    NoTx,
    MaxRestarts    \* process restarts in a run

ASSUME ConstantsAssumption ==
    /\ NoConsumer \notin Consumers /\ NoTx \notin Txs
    /\ ForeignTxs \subseteq Txs
    /\ Connectors \cap {"all", "pending", "none"} = {}
    /\ MaxRestarts \in Nat

Slots == Connectors \cup {"all"}         \* identity_key
Keys == Slots \cup {"pending"}           \* and pending_key

VARIABLES
    \* the store
    connections,   \* the consumer filed under a key
    transactions,  \* the active transaction filed under a key
    \* the consumers
    state,         \* of the socket and its consumer
    key,           \* self.store_key
    step,          \* where the handling of a call is
    call,          \* the CALL in hand
    hand,          \* the handler's tx_obj
    \* the database
    owner,         \* the slot of the row's charger, "none" when there is no row
    ocppId,        \* the row's ocpp_transaction_id
    stopped,       \* rows with a stop_time
    \* the charger
    sock,          \* the connection it uses
    running,       \* the transaction id it uses on a connector
    ending,        \* connectors whose StopTransaction is due
    \* the run
    restarts,
    alone          \* history: a consumer that never had another beside it

storeVars == <<connections, transactions>>
handlingVars == <<step, call, hand>>
rowVars == <<owner, ocppId, stopped>>
chargerVars == <<sock, running, ending>>
runVars == <<restarts, alone>>
vars == <<storeVars, state, key, handlingVars, rowVars, chargerVars, runVars>>

Actions == {"Heartbeat", "Status", "Available", "Start", "Meter", "Stop"}
Requests == [action : Actions, slot : Slots, tx : Txs \cup {NoTx}]
NoCall == [action |-> "Heartbeat", slot |-> "all", tx |-> NoTx]

Init ==
    /\ connections = [k \in Keys |-> NoConsumer]
    /\ transactions = [k \in Keys |-> NoTx]
    /\ state = [n \in Consumers |-> "new"]
    /\ key = [n \in Consumers |-> "pending"]
    /\ step = [n \in Consumers |-> "idle"]
    /\ call = [n \in Consumers |-> NoCall]
    /\ hand = [n \in Consumers |-> NoTx]
    /\ owner = [t \in Txs |-> "none"]
    /\ ocppId = [t \in Txs |-> NoTx]
    /\ stopped = {}
    /\ sock = NoConsumer
    /\ running = [c \in Connectors |-> NoTx]
    /\ ending = {}
    /\ restarts = 0 /\ alone = {}

-----------------------------------------------------------------------------
(* The charger *)

\* What a charger sends that waits for each reply: at most one transaction at
\* a time on a connector, its meter values, its end, and Available once the
\* end was acknowledged.
MaySend(r) ==
    LET tx == running[r.slot] IN
    \/ r.action = "Heartbeat" /\ r.slot = "all" /\ r.tx = NoTx
    \/ /\ r.slot \in Connectors
       /\ \/ r.action = "Status" /\ r.tx = NoTx
          \/ r.action \in {"Available", "Start"} /\ tx = NoTx /\ r.tx = NoTx
          \/ r.action = "Meter" /\ tx # NoTx /\ r.tx = tx /\ r.slot \notin ending
    \/ /\ r.action = "Stop" /\ r.slot = "all"
       /\ \E c \in ending : running[c] # NoTx /\ r.tx = running[c]

Send(n, r) ==
    /\ sock = n /\ state[n] = "open" /\ step[n] = "idle"
    /\ MaySend(r)
    /\ step' = [step EXCEPT ![n] = "queued"]
    /\ call' = [call EXCEPT ![n] = r]
    /\ UNCHANGED <<storeVars, state, key, hand, rowVars, chargerVars, runVars>>

\* Offline, or its StartTransaction refused, a charger may charge under an id
\* of its own: a new one, that no row has and no call in flight names.
StartOffline(c, t) ==
    /\ running[c] = NoTx
    /\ t \in ForeignTxs /\ owner[t] = "none"
    /\ \A d \in Connectors : running[d] # t
    /\ \A n \in Consumers : step[n] # "idle" => call[n].action # "Start" /\ call[n].tx # t
    /\ running' = [running EXCEPT ![c] = t]
    /\ UNCHANGED <<storeVars, state, key, handlingVars, rowVars, sock, ending, runVars>>

Unplug(c) ==
    /\ running[c] # NoTx /\ c \notin ending
    /\ ending' = ending \cup {c}
    /\ UNCHANGED <<storeVars, state, key, handlingVars, rowVars, sock, running, runVars>>

\* The charger gives its connection up; the server may not know for a while.
Leave ==
    /\ sock # NoConsumer
    /\ sock' = NoConsumer
    /\ UNCHANGED <<storeVars, state, key, handlingVars, rowVars, running, ending, runVars>>

-----------------------------------------------------------------------------
(* Connections *)

Alive(n) == state[n] \in {"accepting", "open", "shut"}

\* await other.close(): its socket closes, its queue is still worked off.
Closed(other) ==
    [m \in Consumers |-> IF m = other /\ state[m] = "open" THEN "shut" ELSE state[m]]

Hangup(n) == sock' = IF sock = n THEN NoConsumer ELSE sock

\* connect() and _accept_connection up to the close of the consumer filed as
\* pending.
Connect(n) ==
    /\ state[n] = "new" /\ sock = NoConsumer
    /\ sock' = n
    /\ state' = [Closed(connections["pending"]) EXCEPT ![n] = "accepting"]
    /\ alone' = IF \E m \in Consumers : Alive(m) THEN {} ELSE {n}
    /\ UNCHANGED <<storeVars, key, handlingVars, rowVars, running, ending, restarts>>

\* Mutant: only a reconnecting consumer is filed.
AcceptReplacing(n) ==
    /\ state[n] = "accepting"
    /\ state' = [state EXCEPT ![n] = "open"]
    /\ connections' = IF connections["pending"] = NoConsumer THEN connections
                      ELSE [connections EXCEPT !["pending"] = n]
    /\ UNCHANGED <<transactions, key, handlingVars, rowVars, chargerVars, runVars>>

Accept(n) ==
    /\ state[n] = "accepting"
    /\ state' = [state EXCEPT ![n] = "open"]
    /\ connections' = [connections EXCEPT !["pending"] = n]
    /\ UNCHANGED <<transactions, key, handlingVars, rowVars, chargerVars, runVars>>

\* Credentials or the feature gate refuse a consumer at once, the rate limit
\* after it closed the one it would have replaced; disconnect() runs either way.
Reject(n) ==
    /\ state[n] = "accepting" \/ (state[n] = "new" /\ sock = NoConsumer)
    /\ state' = [state EXCEPT ![n] = "shut"]
    /\ Hangup(n)
    /\ alone' = {}
    /\ UNCHANGED <<storeVars, key, handlingVars, rowVars, running, ending, restarts>>

Drop(n) ==
    /\ state[n] = "open"
    /\ state' = [state EXCEPT ![n] = "shut"]
    /\ Hangup(n)
    /\ UNCHANGED <<storeVars, key, handlingVars, rowVars, running, ending, runVars>>

\* disconnect(): the entries under the consumer's key and under pending go,
\* whoever they name; the transaction stays.
Disconnect(n) ==
    /\ state[n] = "shut" /\ step[n] = "idle"
    /\ state' = [state EXCEPT ![n] = "gone"]
    /\ Hangup(n)
    /\ connections' = [connections EXCEPT ![key[n]] = NoConsumer,
                                          !["pending"] = NoConsumer]
    /\ UNCHANGED <<transactions, key, handlingVars, rowVars, running, ending, runVars>>

\* The process restarts: sockets and the store are lost, rows are not.
Restart ==
    /\ restarts < MaxRestarts
    /\ restarts' = restarts + 1
    /\ connections' = [k \in Keys |-> NoConsumer]
    /\ transactions' = [k \in Keys |-> NoTx]
    /\ state' = [n \in Consumers |-> IF state[n] = "new" THEN "new" ELSE "gone"]
    /\ step' = [n \in Consumers |-> "idle"]
    /\ call' = [n \in Consumers |-> NoCall]
    /\ hand' = [n \in Consumers |-> NoTx]
    /\ sock' = NoConsumer /\ alone' = {}
    /\ UNCHANGED <<key, rowVars, running, ending>>

-----------------------------------------------------------------------------
(* A call: the consumer is filed under the slot it mentions *)

\* Mutant: the entry is copied, not moved.
ReassignCopies(old, new, mapping, none) ==
    IF mapping[old] = none THEN mapping ELSE [mapping EXCEPT ![new] = mapping[old]]

\* reassign_identity, for one mapping: an entry under the old key replaces the
\* one under the new key.
Reassign(old, new, mapping, none) ==
    IF mapping[old] = none THEN mapping
    ELSE [mapping EXCEPT ![new] = mapping[old], ![old] = none]

\* Mutant: the active transaction is not moved along.
FileConnection(n, slot) ==
    /\ connections' = [Reassign(key[n], slot, connections, NoConsumer) EXCEPT ![slot] = n]
    /\ UNCHANGED transactions
    /\ step' = [step EXCEPT ![n] = IF slot = "all" THEN "handling" ELSE "naming"]
    /\ key' = IF slot = "all" THEN [key EXCEPT ![n] = "all"] ELSE key

\* The rest of _assign_connector; for a connector the names are looked up
\* before store_key changes.
FileUnder(n, slot) ==
    /\ connections' = [Reassign(key[n], slot, connections, NoConsumer) EXCEPT ![slot] = n]
    /\ transactions' = Reassign(key[n], slot, transactions, NoTx)
    /\ step' = [step EXCEPT ![n] = IF slot = "all" THEN "handling" ELSE "naming"]
    /\ key' = IF slot = "all" THEN [key EXCEPT ![n] = "all"] ELSE key

\* _assign_connector: a consumer filed under the new key is closed first, which
\* is an await.
Assign(n) ==
    LET slot == call[n].slot
        rival == connections[slot]
    IN
    /\ step[n] = "queued"
    /\ \/ /\ key[n] = slot
          /\ step' = [step EXCEPT ![n] = "handling"]
          /\ UNCHANGED <<storeVars, state, key>>
       \/ /\ key[n] # slot /\ rival \notin {NoConsumer, n}
          /\ state' = Closed(rival)
          /\ step' = [step EXCEPT ![n] = "moving"]
          /\ UNCHANGED <<storeVars, key>>
       \/ /\ key[n] # slot /\ rival \in {NoConsumer, n}
          /\ FileUnder(n, slot)
          /\ UNCHANGED state
    /\ UNCHANGED <<call, hand, rowVars, chargerVars, runVars>>

Move(n) ==
    /\ step[n] = "moving"
    /\ FileUnder(n, call[n].slot)
    /\ UNCHANGED <<state, call, hand, rowVars, chargerVars, runVars>>

Name(n) ==
    /\ step[n] = "naming"
    /\ step' = [step EXCEPT ![n] = "handling"]
    /\ key' = [key EXCEPT ![n] = call[n].slot]
    /\ UNCHANGED <<storeVars, state, call, hand, rowVars, chargerVars, runVars>>

-----------------------------------------------------------------------------
(* The handlers *)

Handles(n, action) == step[n] = "handling" /\ call[n].action = action

Goto(n, where) == step' = [step EXCEPT ![n] = where]

Hold(n, t) == hand' = [hand EXCEPT ![n] = t]

\* Calls that touch no transaction.
Acknowledge(n) ==
    /\ step[n] = "handling" /\ call[n].action \in {"Heartbeat", "Status"}
    /\ Goto(n, "replying")
    /\ UNCHANGED <<storeVars, state, key, call, hand, rowVars, chargerVars, runVars>>

\* StatusNotification, status Available: the cached transaction is dropped.
BecomeAvailable(n) ==
    /\ Handles(n, "Available")
    /\ transactions' = [transactions EXCEPT ![key[n]] = NoTx]
    /\ Goto(n, "replying")
    /\ UNCHANGED <<connections, state, key, call, hand, rowVars, chargerVars, runVars>>

\* StartTransaction, accepted: the row is created and given its own key as id.
StartCreate(n, t) ==
    /\ Handles(n, "Start")
    /\ t \in Txs \ ForeignTxs /\ owner[t] = "none"
    /\ owner' = [owner EXCEPT ![t] = call[n].slot]
    /\ ocppId' = [ocppId EXCEPT ![t] = t]
    /\ Hold(n, t)
    /\ Goto(n, "storing")
    /\ UNCHANGED <<storeVars, state, key, call, stopped, chargerVars, runVars>>

\* StartTransaction, refused: a row marked rejected, which no call will name.
StartReject(n) ==
    /\ Handles(n, "Start")
    /\ Goto(n, "replying")
    /\ UNCHANGED <<storeVars, state, key, call, hand, rowVars, chargerVars, runVars>>

\* The active transaction of the consumer's key is set.
Store(n) ==
    /\ step[n] = "storing"
    /\ transactions' = [transactions EXCEPT ![key[n]] = hand[n]]
    /\ Goto(n, IF call[n].action = "Meter" THEN "identifying" ELSE "replying")
    /\ UNCHANGED <<connections, state, key, call, hand, rowVars, chargerVars, runVars>>

\* Mutant: any cached transaction serves.
MeterTrusts(n) ==
    /\ Handles(n, "Meter")
    /\ IF transactions[key[n]] # NoTx
       THEN Hold(n, transactions[key[n]]) /\ Goto(n, "identifying")
       ELSE UNCHANGED hand /\ Goto(n, "lookup")
    /\ UNCHANGED <<storeVars, state, key, call, rowVars, chargerVars, runVars>>

\* MeterValues: the cached transaction serves if it is the one named.
MeterRead(n) ==
    /\ Handles(n, "Meter")
    /\ IF transactions[key[n]] = call[n].tx
       THEN Hold(n, call[n].tx) /\ Goto(n, "identifying")
       ELSE UNCHANGED hand /\ Goto(n, "lookup")
    /\ UNCHANGED <<storeVars, state, key, call, rowVars, chargerVars, runVars>>

\* Mutant: whatever transaction is cached is closed and left in the cache.
StopPeek(n) ==
    /\ Handles(n, "Stop")
    /\ Hold(n, transactions[key[n]])
    /\ Goto(n, IF transactions[key[n]] = NoTx THEN "lookup" ELSE "identifying")
    /\ UNCHANGED <<storeVars, state, key, call, rowVars, chargerVars, runVars>>

\* Mutant: an uncached transaction is not looked up.
StopAnyway(n) ==
    /\ Handles(n, "Stop")
    /\ transactions' = [transactions EXCEPT ![key[n]] = NoTx]
    /\ Hold(n, transactions[key[n]])
    /\ Goto(n, "identifying")
    /\ UNCHANGED <<connections, state, key, call, rowVars, chargerVars, runVars>>

\* StopTransaction: the cached transaction is popped, whichever it is.
StopTake(n) ==
    /\ Handles(n, "Stop")
    /\ transactions' = [transactions EXCEPT ![key[n]] = NoTx]
    /\ Hold(n, transactions[key[n]])
    /\ Goto(n, IF transactions[key[n]] = NoTx THEN "lookup" ELSE "identifying")
    /\ UNCHANGED <<connections, state, key, call, rowVars, chargerVars, runVars>>

\* filter(pk=..., charger=self.charger): the row, if the charger it hangs on is
\* the one the call was assigned to.
LookupFinds(n) ==
    /\ step[n] = "lookup"
    /\ owner[call[n].tx] = call[n].slot
    /\ Hold(n, call[n].tx)
    /\ Goto(n, IF call[n].action = "Meter" THEN "storing" ELSE "identifying")
    /\ UNCHANGED <<storeVars, state, key, call, rowVars, chargerVars, runVars>>

\* create(pk=...): a placeholder for an id nobody knows; MeterValues names it at
\* once, StopTransaction in its next step.
CreatePlaceholder(n) ==
    /\ step[n] = "lookup"
    /\ owner[call[n].tx] = "none"
    /\ owner' = [owner EXCEPT ![call[n].tx] = call[n].slot]
    /\ ocppId' = IF call[n].action = "Meter"
                 THEN [ocppId EXCEPT ![call[n].tx] = call[n].tx] ELSE ocppId
    /\ Hold(n, call[n].tx)
    /\ Goto(n, IF call[n].action = "Meter" THEN "storing" ELSE "identifying")
    /\ UNCHANGED <<storeVars, state, key, call, stopped, chargerVars, runVars>>

\* create(pk=...) for a row of another slot: IntegrityError. The consumer ends
\* without its disconnect().
CreateRaises(n) ==
    /\ step[n] = "lookup"
    /\ owner[call[n].tx] \notin {"none", call[n].slot}
    /\ state' = [state EXCEPT ![n] = "dead"]
    /\ Goto(n, "idle")
    /\ Hangup(n)
    /\ UNCHANGED <<storeVars, key, call, hand, rowVars, running, ending, runVars>>

\* _ensure_ocpp_transaction_identifier, with the id the call names.
Identify(n) ==
    /\ step[n] = "identifying"
    /\ ocppId' = [ocppId EXCEPT ![hand[n]] = call[n].tx]
    /\ Goto(n, IF call[n].action = "Stop" THEN "saving" ELSE "replying")
    /\ UNCHANGED <<storeVars, state, key, call, hand, owner, stopped, chargerVars, runVars>>

StopSave(n) ==
    /\ step[n] = "saving"
    /\ stopped' = stopped \cup {hand[n]}
    /\ Goto(n, "replying")
    /\ UNCHANGED <<storeVars, state, key, call, hand, owner, ocppId, chargerVars, runVars>>

\* The reply reaches a charger that still uses the connection: a start gives it
\* the row's key, a stop ends its transaction.
Reply(n) ==
    LET r == call[n]
        heard == sock = n /\ state[n] = "open"
        done == {c \in ending : heard /\ r.action = "Stop" /\ running[c] = r.tx}
    IN
    /\ step[n] = "replying"
    /\ Goto(n, "idle")
    /\ call' = [call EXCEPT ![n] = NoCall]
    /\ Hold(n, NoTx)
    /\ ending' = ending \ done
    /\ running' = [c \in Connectors |->
                     CASE c \in done -> NoTx
                       [] heard /\ r.action = "Start" /\ r.slot = c -> hand[n]
                       [] OTHER -> running[c]]
    /\ UNCHANGED <<storeVars, state, key, rowVars, sock, runVars>>

-----------------------------------------------------------------------------
(* Specification *)

ConnectionStep(n) ==
    Connect(n) \/ Accept(n) \/ Reject(n) \/ Drop(n) \/ Disconnect(n)

CallStep(n) ==
    \/ Assign(n) \/ Move(n) \/ Name(n)
    \/ Acknowledge(n) \/ BecomeAvailable(n)
    \/ StartReject(n) \/ Store(n)
    \/ MeterRead(n) \/ StopTake(n)
    \/ LookupFinds(n) \/ CreatePlaceholder(n) \/ CreateRaises(n)
    \/ Identify(n) \/ StopSave(n) \/ Reply(n)

Next ==
    \/ \E n \in Consumers : ConnectionStep(n) \/ CallStep(n)
    \/ \E n \in Consumers, r \in Requests : Send(n, r)
    \/ \E n \in Consumers, t \in Txs : StartCreate(n, t)
    \/ \E c \in Connectors, t \in Txs : StartOffline(c, t)
    \/ \E c \in Connectors : Unplug(c)
    \/ Leave
    \/ Restart

Spec == Init /\ [][Next]_vars

-----------------------------------------------------------------------------
(* Properties *)

\* The store, the consumers, the rows and the charger hold values of their
\* types.
TypeOK ==
    /\ connections \in [Keys -> Consumers \cup {NoConsumer}]
    /\ transactions \in [Keys -> Txs \cup {NoTx}]
    /\ state \in [Consumers -> {"new", "accepting", "open", "shut", "gone", "dead"}]
    /\ key \in [Consumers -> Keys]
    /\ step \in [Consumers -> {"idle", "queued", "moving", "naming", "handling", "lookup",
                               "storing", "identifying", "saving", "replying"}]
    /\ call \in [Consumers -> Requests]
    /\ hand \in [Consumers -> Txs \cup {NoTx}]
    /\ owner \in [Txs -> Slots \cup {"none"}]
    /\ ocppId \in [Txs -> Txs \cup {NoTx}]
    /\ stopped \subseteq Txs
    /\ sock \in Consumers \cup {NoConsumer}
    /\ running \in [Connectors -> Txs \cup {NoTx}]
    /\ ending \subseteq Connectors
    /\ restarts \in 0..MaxRestarts
    /\ alone \subseteq Consumers

\* A consumer is filed under its own store_key (once _assign_connector has
\* moved it, under the key it is about to take) and under no other: so the
\* disconnect() of a consumer leaves no entry of that consumer behind, however
\* often it moved and whoever moved beside it.
ListedAtOwnKey ==
    \A k \in Keys, n \in Consumers : connections[k] = n =>
        /\ state[n] \in {"open", "shut", "dead"}
        /\ k = IF step[n] = "naming" THEN call[n].slot ELSE key[n]

\* An open consumer that never had another one of its charger beside it can be
\* found by get_connection: reassign_identity moves its entry along.
ReachableAlone ==
    \A n \in alone : state[n] = "open" => \E k \in Keys : connections[k] = n

\* MeterValues of a consumer without another beside it are answered and leave
\* the transaction they name active under its key, so that a rebuilt session
\* (after a reconnect, a raise or a restart) goes on with the right row.
MeterResumes ==
    \A n \in alone :
        /\ step[n] = "replying" /\ call[n].action = "Meter" =>
              transactions[key[n]] = call[n].tx
        /\ state[n] = "dead" => call[n].action = "Stop"

\* A row's OCPP id, once given, is the id the charger knows it by: a
\* StopTransaction or MeterValues never renames another transaction.
StableIdentifier == \A t \in Txs : ocppId[t] \in {NoTx, t}

\* A transaction the charger runs and the database knows is the active one of
\* a consumer's key, whatever keys the consumer goes through, until the
\* StopTransaction takes it.
KeepsRunning ==
    \A c \in Connectors :
        LET t == running[c] IN
        t # NoTx /\ owner[t] # "none" /\ t \notin stopped =>
            \E n \in Consumers :
                \/ transactions[key[n]] = t
                \/ step[n] = "naming" /\ transactions[call[n].slot] = t
                \/ hand[n] = t

\* A StopTransaction is answered: its handler does not end the consumer.
StopAnswered ==
    \A n \in Consumers : ~(state[n] = "dead" /\ call[n].action = "Stop")
=============================================================================
