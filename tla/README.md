# Arthexis Constellation: TLA+ models of the charging core

Arthexis Constellation is a Django suite for electric vehicle charging. Its core
is `src/apps/ocpp`, a CSMS: the server to which charge points hold websockets and
talk OCPP (JSON arrays `[2, id, action, payload]` for a CALL, `[3, id, payload]`
for a result, `[4, id, ...]` for an error). This directory models that core,
checks the models with TLC on small instances, and proves what matters most with
TLAPS for instances of any size.

## 1. Inventory

State that outlives one function call, who changes it, and what is hard about it.

| Component | State | Operations | Who else touches it | Hard behaviour |
|---|---|---|---|---|
| Pending calls (`store/pending_calls.py`, `store/scheduler.py`, `consumers/base/dispatch.py`) | metadata, Events, results, timer handles by message id; Redis keys | register, pop, record, wait, schedule timeout, clear, restore | view and admin threads, the forwarder's listener thread, the event loop, the scheduler thread | reply before registration, reply against timeout, disconnect under a waiting caller, restart, stale mirror |
| Websocket sessions (`consumers/connection.py`, `consumers/base/connection_flow.py`, `store/__init__.py`) | `connections`, `transactions` by identity key; each consumer's `store_key` | connect, accept, refuse, replace, disconnect, `_assign_connector`, `reassign_identity` | every consumer of the same charger; all views through `get_connection` | old and new consumer of a charger at once, awaits between registry updates |
| Transaction handlers (`consumers/base/legacy_transactions.py`, `consumers/csms/consumer.py`, `consumers/csms/handlers/availability.py`) | cached active transaction, `Transaction` rows | Start-, StopTransaction, MeterValues, Available, TransactionEvent | disconnect, simulators, admin | transaction found after a reconnect or a restart, one connector's transaction taken for another's |
| Transaction requests (`store/transactions.py`) | requests, index by connector, index by transaction | register, update, find, mark, clear | operators' views, the calls' result handlers, TransactionEvent, disconnect | three dictionaries that must agree; what was found is used some awaits later |
| Forwarder (`forwarder/__init__.py`, `consumers/csms/transport.py`) | sessions to remote CSMSs, pending ids, buffered messages, flush timers | sync, connect, keepalive, listen, forward, buffer, flush, prune | listener thread per session, keepalive thread, consumers, reply tasks, timers, an admin's thread | a session replaced while its threads still use it, batches that overlap, a flush that fails |
| NetMessages (`nodes/services/propagation.py`, `nodes/models/net_message.py`, `nodes/services/transport.py`, `nodes/tasks.py`) | the message row, `propagated_to`, `complete`, queue entries per peer | broadcast, resend, receive, propagate, push, queue, pull, poll | every node's request threads and polling task | timeouts of pushes that arrive after all, peers named before they are told, several propagations at one node |
| Operator actions (`views/actions`) | none of their own | forty actions: send, register, wait, report | pending calls | verdicts that do not match what happened |
| Reservations (`models/cp_reservation.py`, `views/actions/reservations.py`) | reservation rows | reserve, cancel, confirm | result handlers | confirmation overwritten by the request that caused it |
| Session logs and lock (`store/logs.py`) | buffers, one lock file | start, add, end | all consumers, the auto-upgrade | one lock for all chargers |
| Connection limit, upgrade, nodes, RFID, screens, shop, release, simulators, sites | rows, lock files, services | management commands, tasks, views | mostly independent of each other | see `PROJECT.json` |

How they interact. A view finds a charger's consumer in `connections`, sends a
CALL through it and registers the message id with the pending calls; the
consumer of that charger reads the reply in the event loop, pops the id, runs the
action's result handler and records the outcome, which wakes the view's thread.
The forwarder's listener does the same for a remote CSMS without waiting.
In the other direction, every CALL of the charger first re-files its consumer,
and the transaction cached with it, under the connector it mentions, and then
runs a handler. When a consumer disconnects it drops its registry entries and all
pending calls and transaction requests of the charger; when one connects it
restores calls from Redis. Messages of the charger also go to a remote CSMS
through a forwarding session, at once or in batches, and what the remote asks goes
back the same way. NetMessages share nothing with the rest: nodes of an
installation pass them on over HTTP.

What makes them correct:

* pending calls: a call is answered at most once and only by its own charger; a
  caller is told at most one thing and is never left blocked; what is listed as
  pending is outstanding; calls survive a restart if Redis is configured;
* sessions: an entry is always its own consumer's, so it goes when that consumer
  does; a connected charger can be found;
* transactions: the active transaction follows its consumer, is found again by a
  rebuilt session, keeps its identifier, and is ended by its own stop;
* transaction requests: indexes and requests agree; a request is completed by the
  end of its own transaction;
* forwarder: a command of the remote is answered at most once, over the session it
  came by; a remote gets the newest message of each action last, as long as no
  payload went out twice and no admin turned the interval off; what waits in the
  buffer has a timer, a batch or a task, and is sent in the end;
* NetMessages: every node gets the message, none is sent back a copy it passed on,
  and `complete` means told.

`PROJECT.json` lists every component and, under "hazards", each hazard at the
line where it bites with the properties that would show it.

## 2. Plan

Order, most important first. All of 1 to 5 is done.

1. **PendingCalls**, with the abstract **CallPromise** it implements.
2. **Sessions**, for OCPP 1.6.
3. **TransactionRequests**: the tables with the views, handlers and disconnects
   that use them.
4. **ForwardedCalls** with the abstract **RelayPromise** it implements, and
   **ForwardBuffer**: the two directions of the forwarder. They share the table of
   sessions, which is spelled out in ForwardedCalls; in ForwardBuffer it is reduced
   to whether there is a session and whether its connection works.
5. **NetMessages**.
6. Left: the rows and the cached transaction of OCPP 2.x TransactionEvent, which
   assigns the consumer twice (to the EVSE and to its connector) and finds rows by
   `ocpp_transaction_id`; reservations.

Theorems left: none. All invariants and step properties of the passing runs are
proved; liveness is out of the prover's reach.

## 3. Modules

### PendingCalls

One action is one stretch of code in which no other thread or coroutine runs: the
code under `_pending_call_lock`, the part after it, one Redis round trip.

| Model | Code |
|---|---|
| `pending`, `noticed` | keys of `pending_calls`; `timeout_notice_sent` in their metadata |
| `event`, `made`, `isSet`, `held` | `_pending_call_events`; Events are numbered per call, `held` is the one a caller blocks on |
| `results`, `handles` | `_pending_call_results`, `_pending_call_handles` |
| `timer`, `cancelling` | the scheduler loop's timers and its queue of cancellations |
| `meta`, `saved` | the Redis keys `ocpp:pending:<id>`, `ocpp:pending-result:<id>` |
| `pc`, `told` | the caller's thread; what it reported |
| `step`, `job` | a consumer inside `receive`, between its awaits |
| `rstep`, `rcall`, `rtodo` | `restore_pending_calls`, which holds the loop through its Redis reads |
| `link`, `closing`, `inbox` | the charger's current socket, consumers whose `disconnect()` is still due, unread replies |

Caller actions: `Send`, `Register`, `MirrorCall`, `ScheduleTimeout`,
`StoreHandle`, `AbandonHandle`, `StartWait`, `Collect`, `WaitExpires`,
`LookUpSaved`, `SkipWait` (callers that do not wait) and `ForwardSend`,
`ForwardRollback`, `ForwardUnmirror` (the listener, which registers first).
Consumer actions: `TakeReply`, `Resolve`, `Record`, `WakeCaller`, `SaveResult`,
`DispatchRaises`. Connections: `AcceptConnection`, `RejectConnection`,
`StartRestore`, `RestoreRead`, `RestoreRegister`, `RestoreMirror`,
`RestoreEnds`, `Disconnect`, `LateDisconnect`. Scheduler: `ArmTimer`, `FireTimer`,
`CancelTimer`. World: `ChargerReplies`, `KeyExpires`, `Crash`.

A synchronous stretch of the event loop excludes every other coroutine
(`LoopFree`), never another thread. The result handlers themselves are one await
(`dispatching`) that may raise. Payloads are left out; a reply is a call id and
its kind. `FireTimer` is the part of `_notify` under the lock; its log entry, written
after, is output. `RestoreRegister` is both the look at `pending_calls` and the
registration after it, two acquisitions of the lock: the call is a stopped process's, and
nobody but a restore registers it.

**CallPromise** is what a caller may rely on: a call is open at most once, is
answered only while open, and its caller is told once, the recorded answer or that
there was none. `Promise` maps a call to "open" when it is listed or a consumer
has it in hand.

### Sessions

One charger, its consumers (one per connection attempt) and its transactions.

| Model | Code |
|---|---|
| `connections`, `transactions` | `store.connections`, `store.transactions`, restricted to this charger's keys: `pending`, `all`, one per connector |
| `key` | `self.store_key` |
| `state` | new, accepting (between the close of the old consumer and its own entry), open, shut (socket closed, `disconnect()` due), gone, dead (ended by an exception, without `disconnect()`) |
| `step`, `call`, `hand` | where the handler is between two awaits, the CALL, its `tx_obj` |
| `owner` | the Charger row (connector or aggregate) a `Transaction` row hangs on |
| `ocppId`, `stopped` | `ocpp_transaction_id`, `stop_time` |
| `sock`, `running`, `ending` | the charger: its connection, its transactions, the stops it owes |

`Assign`, `Move`, `Name` are `_assign_connector` between its awaits, with
`reassign_identity` inside (`Reassign`, `FileUnder`). `StartCreate`, `Store`,
`StartReject` are StartTransaction; `MeterRead`, `LookupFinds`,
`CreatePlaceholder`, `CreateRaises`, `Store`, `Identify` are MeterValues;
`StopTake`, the lookup, `Identify`, `StopSave` are StopTransaction;
`BecomeAvailable` is the cached transaction's end on Available. `Reply` tells a
charger that still listens. `Restart` loses the store and keeps the rows.

The charger is assumed to keep to OCPP 1.6: one outstanding CALL, one transaction per
connector, Available only after its stop was acknowledged, one connection at a time as
it sees it (the server may hold several). It may charge offline under ids it made up,
which are new: no row has them and no call names them. A Heartbeat stands for every call
without a connector id, Authorize and BootNotification included: `_handle_call_message`
assigns the consumer to "all" before any of them. The handlers assign once more, to the
same connector, which changes nothing and has no action. `CreatePlaceholder` and
`CreateRaises` are the lookup that finds nothing and the `create` after it. That another
consumer of the charger creates the row in between, so that `create` raises, is left out:
the properties that speak of rows speak of consumers without another beside them.

### TransactionRequests

Remote starts and stops of OCPP 2.x. `tracked` and `entry` are
`transaction_requests`, `byConnector` and `byTransaction` its two indexes, `called`
the part of `pending_calls` the answers need. `operator` is how far a view got:
`OperatorSends`, `OperatorRegistersCall`, `OperatorRegisters` are separate, as other
threads run between them. A consumer works through its `inbox`: `HandleAnswer`,
`HandleStarted`, then (after its awaits) `Decide`, `HandleEnded`, `HandleClosed`,
which is `disconnect()` and comes last, perhaps when a newer consumer of the charger
is at work. `Register`, `Update`, `Find` and `Clear` are the store's functions.
Chargers keep to one transaction per connector and use an id once; ids of two
chargers may coincide. `All` is the slug of no connector: a start sent without an
EVSE is filed there. No caller moves a request to another connector, so `Update`
has no such parameter. A Started event without an EVSE, which finds all open starts of its
charger, is left out. `HandleClosed` clears the calls and then the requests under two
locks; only a view's registration can come between, and it may as well come before or
after both.

### ForwardedCalls

Commands of a remote CSMS to one charger.

| Model | Code |
|---|---|
| `current` | `Forwarder._sessions[charger_pk]` |
| `made`, `connected`, `broken` | session objects, their `connection.connected`, sockets that fail |
| `ids` | `pending_call_ids` |
| `listener`, `got` | where each session's thread is in `_listen_forwarding_session`, the command it read |
| `syncing`, `sender`, `keeper`, `task` | threads in `sync_forwarded_charge_points`, the consumer forwarding a message, keepalive, the tasks that forward replies |
| `senderSession`, `keeper`, `via` | the session object each of them once looked up |
| `registered` | forwarded commands in `pending_calls` |
| `asked`, `given`, `answers` | what the remote did and was sent; the variables of RelayPromise |

The point of the model is that every thread goes on with the session object it
looked up, while `RemoveCurrent` and `Install` act on whatever is current.
**RelayPromise**: a command reaches the charger at most once and is answered at most
once over the session it came by, with the reply if the charger got it and with an
error only if it never will. No answer is allowed: connections break, and an id is
noted after the send (`ListenNotes`), so that a fast reply finds none.
`NotedRepliesForwarded` says that this, a replaced session and a refused task are
the only ways to lose one.

### ForwardBuffer

Messages of one charger to a remote CSMS with `forwarding_frequency_hz` set.
`pending` is `pending_cp_messages` (one payload per action, in dict order), `age` the
ticks since `last_cp_flush_at`, `handle` the `_cp_flush_handle`, `timer` the timers of
the event loop, `batch` each sender of batches between its awaits. `outbox` and `back`
are the queues of `sync_to_async`'s one thread and of the event loop, both FIFO.
`Receive...` is `_send_or_buffer_cp_payload`, `TimerFires` and `TaskBegins` the
scheduled flush, `BatchGoesOn` the loop of `_flush_buffered_forward_messages`,
`Reconnects` the retry after a failed send, `AdminLowers` and `AdminSends` the flush
of a sync that finds the interval turned off.

Abstractions:

* batches and timers of a session that was replaced are dropped, since they can only
  fail on its closed connection;
* a sync connects only while the consumer is idle;
* a send that fails on a connection that stays usable is not modelled, so
  `BufferedHasFlush` and `Forwarded` say nothing of the payload such a flush would leave
  behind;
* the session a retry opens has no interval until a sync gives it one; that a sync does so
  before the retry's first send (`tests/test_transport_forwarding.py:275`) is left out, its
  payload then being buffered with a timer like any other;
* a retry that stops because the policy changed meanwhile is marked `stranded`.

What the code does and no property excludes: payloads of overlapping
batches go out twice, and batches come more often than the interval, as each
forgets the handle of a timer that still runs (the help text of
`models/cp_forwarder.py:165` says "Forward message batches at this frequency.").

### NetMessages

One message and all nodes. `has`, `sentTo`, `complete`, `queue` are each node's
database: the row, its `propagated_to`, its `complete`, its `PendingNetMessage`s.
Workers are request threads and, as `Pollers`, the task `poll_upstream`; `at`, `carry`,
`todo`, `target` and `tries` are where one is in `propagate` or `poll_upstream`. The
code runs in autocommit, so what `propagate` writes is written statement by statement:
each `propagated_to.add` (`Note`, `Told`), `clear_queue_for_node` (`Succeeds`), and of
`queue_for_node` the `get_or_create` (`GetOrCreate`) and the save (`SaveEntry`). `holding`
says whose entry, created or read, is still there. A pull may delete an entry before it
is saved: `save(update_fields=...)` then raises, nobody catches it, and the propagation
breaks off (`BreaksOff`); the peers it did not push to have been named in `seen`, and
`forsaken`, a history variable, keeps them. `net` holds requests on their way; one whose
sender gave up stays there and is handled late (`GivesUp`). `path` in a payload is
history: the nodes it passed.

One action each, where nothing in between can matter: marking an expired message complete
and deleting its entries (`BeginExpired`, `QueueExpired`; an
expired message is outside every property but NoLoops and the types); the row's creation
and its recipient fields at a receiver. The trim that follows a save concerns the other
messages in that peer's queue; what it does to this one, when others are saved, is
`QueueDrops`.

`target_limit` is not part of the payload, so it binds the origin only; receivers
use 6. Filters are the constant `Eligible`. `is_stale` covers expired messages, so the
`is_expired` branch of the pull never runs and has no action.
`mishaps` counts what the protocol does not make up for: a request to a peer that is
not downstream or a poll's answer lost, an upgrade at the receiver, a restart, an
entry that goes stale or is trimmed, the message's expiry. `NoneForgotten` and
`EveryoneHears` are about runs without them; pushes that time out, arrive late,
arrive twice or fail to a peer downstream are no mishaps, and neither is a propagation
that breaks off. There the properties name what the code loses: a peer in `forsaken`
may be told by nobody, and with it those who would have heard from it. No comment or
document of the repository promises otherwise, so that this is no finding. `CompleteWhenTold` is about
unfiltered messages, since `propagated_to.count()` also counts peers outside a filter.

### MC modules

Each names model values and the small networks, owners and symmetries of its
component's runs.

## 4. Runs

| Run | What it asks | Answer |
|---|---|---|
| PendingMemory | an operator's and a forwarded call to one charger at once, two chargers, stray, duplicate and late replies, two connects, failing sends, no Redis | listed calls are outstanding, no wake-up is lost, answers are the charger's own, a timeout notice is decided on for an unanswered call only, CallPromise is kept |
| PendingRestart | an operator's call with Redis, two chargers, three connects and a restart | calls of the stopped process are pending once the charger is back; no answer, live, restored or read from the mirror, is one that came by the other charger's socket |
| PendingLive | fair threads, Redis failing at any command | every caller returns |
| SessionReconnect | two overlapping consumers, a restart, one transaction of the server's and one of the charger's | entries stay at their consumer's own key; a consumer that had no other beside it can be found; MeterValues resumes the right transaction |
| SessionSingle | one connection, one connector, three transactions | identifiers stay, running transactions stay active, every stop is answered |
| ForwardedCalls | a command, a session and the one that replaces it, every thread | RelayPromise is kept; replies noted in time are forwarded |
| ForwardBuffer | four messages of two actions, two ticks between batches, one mishap | newest last, nothing lost but with its session, what is pending has a timer or a batch, and goes out |
| TransactionRequests | two requests, two chargers, two transactions, one consumer, two messages waiting | table and indexes agree, lookups overlook nothing, completion by the own transaction only, rejections are final |
| NetMessages | four nodes, two pushes at the origin, one of them to a peer that can only poll, two addresses, one resend or mishap | no copy returns, nobody is forgotten but those a broken-off propagation left out, complete means told, every node hears |
| DocReconnect | the manual: replies "can be reconciled even after reconnects" | violated: the replaced consumer's `disconnect()` clears the charger's calls |
| DocStop | the manual: StopTransaction responds with Accepted | violated after a reconnect: `create(pk=...)` of a row that exists under the connector's Charger raises |
| DocSession | the identifier is "stable" | violated with two connectors: a stop takes, renames and ends the other connector's transaction |

The last three are expected violations, listed under "findings".

**Properties that need their premises.** `StableIdentifier`, `KeepsRunning` and
`StopAnswered` hold for one connection and one connector only; with more, the code
breaks them, as DocStop and DocSession show. `ReachableAlone` is limited to consumers
that never had another beside them, because `disconnect()` pops entries without looking
whose they are, so a late disconnect makes the successor unreachable.
`PendingOutstanding` and `KeepsPromise` are checked and proved without Redis: with Redis
the metadata is mirrored after the lock is released, so a call answered in between
leaves a key that a later restore lists as pending. A reply read between a view's send
and its registration is dropped, and the operator is told that the charger "did not
receive a response" (`views/actions/common.py:187`); the models have this behaviour, and
CallPromise allows it. `RejectedStays` holds while one consumer handles a charger's
messages; with two, a rejection may overtake or be overtaken by a Started event.
`NewestLast` exempts sessions whose interval an admin turned off, because that flush
runs in a thread beside the consumer's, and remotes to which a payload went out twice: a
batch that forgets the handle of a timer lets a second timer start, so three batches may
overlap, and the third may be overtaken.

**Bounds.** `MaxReplies` 2: one reply and a duplicate, or a result and an error.
`MaxConnects` 2 or 3: a connection, the one that replaces it, and one refused or
arriving during a restore. `MaxCrashes`/`MaxRestarts` 1: the store keeps nothing
over a restart, so a second one starts from the same rows and keys; without Redis a
restart only ends everything, so PendingMemory has none. Two calls, one of an
operator and one forwarded, share their charger's disconnect and differ in who takes
a registration back. In Sessions a consumer stands for one connection attempt, so the
number of consumers bounds reconnects: two give an old one and its successor; what
they do to each other holds for any number by proof (OwnKeys, FoundAlone). One
connector beside "all" and "pending" makes three keys, enough for two moves of two
consumers to cross; more connectors are in DocSession. Transaction rows are never
reused, so `Txs` bounds starts.

ForwardedCalls: a session and its replacement are enough for every thread to hold
the wrong one, and commands share nothing but sessions. ForwardBuffer: `MaxMessages`
4 of two actions fill a batch of two while another is under way, and `Interval` 2
leaves a tick between messages; one mishap breaks, removes or reconfigures the
session, and what follows a second one follows the first. The overtaking after a
duplicate needs six messages and `Interval` 1; that instance was run once, without
mishaps, on 0.9 million states. TransactionRequests: two
requests meet in one bucket of either index, or lie in two; `MaxInbox` 2 lets an
answer wait behind an event; consumers of one charger beside each other by the proofs. NetMessages: the origin has three peers and selects two, so that one is
left for later and one is still to be pushed to while the other is queued; its third
peer hears from the second, or from both at once after a resend; a second worker at the
origin makes two propagations at one node. `MaxEvents` 1 is one resend or one mishap, and
what follows a second one follows the first (0.47 million states); the proofs hold for
any number. PendingRestart: with two chargers a reply may come by the other one's
socket before, during and after a restore (2.6 million states).

Runs stop when the bounds are used up, hence CHECK_DEADLOCK FALSE in all of them but
ForwardBuffer, where time goes on; that nobody waits for ever is the question of the
liveness properties.

**Fairness.** PendingLive: a thread that was started goes on
(`wait_for_pending_call` has a timeout, so it always may), the scheduler loop
runs, and the event loop finishes what it began. ForwardBuffer: the event loop, the
thread of `sync_to_async` and an admin's thread run what is due (`Scheduled`), and time
passes (`Tick`). NetMessages: as long as some worker can go on, one does:
waiting requests are accepted, the periodic poll comes round, and a push without an
answer is given up after its timeout of a second. That is weaker than fairness to each
worker, and enough: what workers do ends, as `NoLoops` says. Nothing is assumed of chargers, remotes,
connections, operators or new calls.

## 5. Proofs

The seven modules `...Proofs` hold for every set of calls, chargers, consumers,
connectors, transactions, sessions, commands, requests, messages, nodes and workers and
every bound, from the assumption each module makes of its constants. What a theorem
needs beyond that is a hypothesis of it, named: `~UseRedis` or `~RedisFaults` (no
Redis, or one that answers), `OneSession(n, c)` (one connection, one connector) and
`MaxRestarts = 0`. These are the premises of the runs that check the same properties.

* **TypeCorrect** (`TypeOK` of PendingCalls). Strengthened by: a consumer that is
  not idle has a call in hand. Without it `Record` could write to no call.
* **OutstandingInMemory** (`PendingOutstanding`, without Redis). `OnceInv` adds
  that a call registers once and before any answer, that no two consumers hold the
  same call, and that no restore is under way. The invariant alone is not inductive: a
  register of an answered call, or a second pop of a held one, would break it.
* **StoreKeepsPromise** (`KeepsPromise`, without Redis): initial states map to
  initial states and each step to one of CallPromise or a stutter. `ToldInv` adds
  that callers at work have been told nothing, that a stored result is the recorded
  outcome, and that the mirror holds none.
* **OwnAnswers** (`AnswersAreOwn`, with and without Redis). `OwnInv` follows the
  answer through inbox, consumer, results and mirror, and needs `SameCharger`, the
  check of `_handle_call_result` that the popped metadata names this charger.
* **NoticesAreJustified** (`NoticesJustified`, without Redis), about the flag
  `timeout_notice_sent`, which `_notify` sets under the lock: what it is set for is
  listed, and by `OnceInv` what is listed was not answered and is in no consumer's hand.
  Nothing is said of the log entry: `_notify` writes it after it released the lock,
  when the call may have been answered.
* **WakeupsAreNotLost** (`NoLostWakeup`, without Redis). `OnCurrentEvent` says that a
  blocked caller holds the call's current Event as long as the call is listed or in a
  consumer's hand. It is what `Record` reads under the lock and sets after it; that
  nobody makes another Event in between needs `OnceInv`.
* **CallsAreRestored** (`RestoredAfterCrash`, Redis without faults). `RestoreInv` says
  where a key of a stopped process's call can be while its charger is connected: pending,
  still to be read or registered by the running restore, or answered by a reply whose
  consumer is about to delete it.
* **SessionTypes** (`TypeOK` of Sessions). `Working` says what `hand` and `call`
  are at each step; without it `Identify` could name no row.
* **OwnKeys** (`ListedAtOwnKey`): inductive with the two above, for any number of
  overlapping consumers. The crossing moves of two consumers are the hard case.
* **FoundAlone** (`ReachableAlone`). `Undisturbed` adds that beside a lone
  consumer no other one is accepting, open, shut or inside a call, and that its
  entry is where it is filed.
* **MetersResume** (`MeterResumes`, any number of consumers and connectors). `RowsInv`
  says whose row a running transaction has and who knows its id: a connector's own or
  none yet, and the id of a row just created only the consumer that created it.
  `MeterStage` says what each step of MeterValues has found; without it a placeholder
  could be stored for a transaction whose row is another connector's.
* **IdentifiersStay, StopsAreAnswered, RunningIsKept** (`StableIdentifier`,
  `StopAnswered`, `KeepsRunning`; one connection, one connector, the last one without
  restarts). `SessionInv` relates the charger's running transaction, the cached one and
  the one in hand; `InCall` says the same at each step of a handler.
* **RelayTypes, RelayPromiseKept, NotedForwarded** (ForwardedCalls). `RelayInv` ties
  four places a command can be: unread, in a listener's hand, noted as an id, or in
  a task about to send; each excludes the others and an answer (`HeldInv`, `IdsInv`,
  `TaskInv`, `AskedInv`). The promise alone is not inductive: an id that waits in the
  wrong session, or beside a listener that may still answer with an error, would
  break it. Each step then maps to a step of RelayPromise or a stutter.
* **RequestTypes, IndexesAlwaysAgree, LookupsFindAll, CompletionIsOwn**
  (TransactionRequests). `RegisterAgrees`, `UpdateAgrees` and the lemma on `Clear` show
  each function of the store to keep tables and indexes in agreement. That a
  registered request is new needs that operators register once. FindsAll follows from
  the agreement, and an update binds a completed request only to the transaction it
  had, because the filter asked for it.
* **RejectionsStay** (`RejectedStays`). `RejectionInv`: a refused request was registered
  and its call popped, the messages of an inbox and the requests found before the awaits
  of a Started event are of the consumer's own charger, and what such an event holds is
  not refused while that charger has no other consumer.
* **BufferTypes, LatestIsKept, PendingIsSeen** (`TypeOK`, `KeepsLatest`,
  `BufferedHasFlush` of ForwardBuffer). `BufferInv` adds to the types what each sender
  holds where it is (`Senders`), that a message starts one timer at most (`Started`), and
  that the thread works for senders that wait for it, once each (`Thread`). `Delivered`:
  what a batch takes out of the buffer was sent. `Timers`: a handle names a timer that
  runs or has just made its task, which the check for a handle alone does not give, and
  sends fail on a broken connection only.
* **NewestStaysLast** (`NewestLast` of ForwardBuffer, in ForwardOrderProofs), for any
  number of overlapping batches. The hard case is a batch that holds a payload while
  others overlap with it: each sends the list it began with and takes a payload out of the
  buffer only after it went, so another batch may send it too, or a newer one may
  replace it meanwhile. The first part is about sequences: what each sender in line has
  left, what went out or will, and what is pending. As long as nothing went out twice they are `Aligned`: what a sender will come
  to is the newest of its action (`Fresh`), it or a newer one is pending in the order of
  the list (`Covered`, `SameOrder`), and a list that has a newer message than another
  list has it further back (`Behind`). Each turn of a sender and each new message keeps
  this; positions are argued by a least counterexample, from the well-foundedness of the
  strict subsets of a finite set. The second part finds these sequences in the states
  (`Queue`, `Lists`, `Line`). Without an interval or after a reconnect the consumer is
  the only sender and sends what is pending first (`Alone`, `Before`).
* **MessageTypes, NothingReturns, CompleteIsTold, NobodyForgotten** (NetMessages), by
  one invariant, `MessageInv`. `Tokens`: at most one request or worker is to answer
  a pushing worker, and only while it waits; otherwise a late answer would count for
  another push. `Paths`: what a worker carries names every node it passed, and the
  node noted them before it selects. `KeptSoFar`: without mishaps, the peers named to
  others are reached, forsaken or still in the naming worker's hands, what a worker
  pushes is safe to lose, and a request on its way is backed by its sender (`Backed`). The
  hard case is the end of `queue_for_node`: whether a worker saved the entry or lost it,
  the peer has the message, has an entry, or is polling it at that moment (`Entered`,
  `Carried`), so that only peers still to be pushed to can be left out.

Only model-checked: liveness (PendingCalls' CallersReturn, ForwardBuffer's Forwarded,
NetMessages' EveryoneHears), which is out of TLAPS's reach.

## 6. Not modelled

Within the modelled parts: triggered follow-ups and monitoring report requests that
`clear_pending_calls` also removes; credentials, subprotocol choice and rate limits
other than as a refusal; log names and buffers moved along by `reassign_identity`; the
consumption broadcast task; the rows of OCPP 2.x transactions; the forwarder's choice
of chargers and addresses, its feature switch, running state and watermarks; a
NetMessage's signatures, attachments, display and purge, and the setting that turns
propagation off; more than one server process (the store is per process, and only
Redis is shared).

Left out altogether: the limit of connections per IP, which nothing but tests calls;
reservations, rows of one status each; the session lock, whose only reader is the
upgrade, a pipeline of shell commands run by one task at a time. Components outside
`src/apps/ocpp` and `src/apps/nodes` are listed in `PROJECT.json` with their reason:
hardware access, rendering, CRUD inside one database transaction, or scripts around
external tools. They are by far most of the repository's lines; what is modelled is
its concurrent core, and a model of a form or a page would state nothing that could
be wrong.
