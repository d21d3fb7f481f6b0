---------------------------- MODULE PendingCalls ----------------------------
(***************************************************************************)
(* Calls the CSMS sends to a charge point and waits on.                    *)
(*                                                                         *)
(* Four kinds of threads share the dictionaries of                         *)
(* apps/ocpp/store/pending_calls.py:                                       *)
(*   - callers: a view or an admin action sends a call, registers it, may  *)
(*     schedule a timeout notice and waits on a threading.Event; the       *)
(*     forwarder's listener registers first, sends, and never waits;       *)
(*   - the event loop: one consumer per charger takes replies, dispatches  *)
(*     them (suspending at awaits) and records the outcome; it also clears *)
(*     calls on disconnect and restores them from Redis on connect;        *)
(*   - the scheduler thread arms, fires and cancels timeout timers;        *)
(*   - Redis, a mirror that outlives the process.                          *)
(* One action is one stretch of code between two points where another      *)
(* thread, or another coroutine of the loop, may run.                      *)
(***************************************************************************)
EXTENDS Naturals, FiniteSets

CONSTANTS
    Calls,         \* message ids (uuid4: never used twice by a caller)
    NoCall,        \* not a message id
    Chargers,      \* charger serials
    Owner,         \* the charger each call is addressed to
    ForwardCalls,  \* calls relayed by the forwarder's listener thread
    UseRedis,      \* OCPP_STATE_REDIS_URL is set
    RedisFaults,   \* a Redis command may raise RedisError
    MaxReplies,    \* replies a charger sends per call
    MaxConnects,   \* connection attempts in a run
    MaxCrashes     \* process restarts in a run

ASSUME ConstantsAssumption ==
    /\ NoCall \notin Calls
    /\ Owner \in [Calls -> Chargers]
    /\ ForwardCalls \subseteq Calls
    /\ UseRedis \in BOOLEAN /\ RedisFaults \in BOOLEAN
    /\ MaxReplies \in Nat /\ MaxConnects \in Nat /\ MaxCrashes \in Nat

VARIABLES
    \* callers
    pc,         \* where the caller of each call is
    told,       \* what the caller was given
    held,       \* the Event a waiting caller blocks on (0: none)
    \* the store's dictionaries
    pending,    \* keys of pending_calls
    noticed,    \* calls whose metadata says timeout_notice_sent
    event,      \* _pending_call_events: an Event's number, 0 when absent
    results,    \* _pending_call_results: an outcome, "none" when absent
    handles,    \* keys of _pending_call_handles
    made,       \* Events created so far for a call (the next one's number)
    isSet,      \* the Events that have been set
    \* the scheduler thread
    timer,      \* the TimerHandle of each call
    cancelling, \* calls with a handle.cancel queued on the scheduler loop
    \* Redis
    meta,       \* calls with an ocpp:pending:<id> key
    saved,      \* ocpp:pending-result:<id>, "none" when absent
    \* the event loop
    step, job,  \* each charger's consumer: where it is, the reply in hand
    rstep, rcall, rtodo,  \* restore_pending_calls: where it is, call, calls left
    \* connections and messages
    link,       \* each charger's current websocket
    closing,    \* consumers whose disconnect() is still to run
    inbox,      \* replies the consumer has not read
    delivered,  \* calls that reached their charger
    replies,    \* replies sent for each call
    connects, crashes,
    \* history, read by no action's guard
    outcome,    \* the last outcome recorded for a call
    answers,    \* how many times an outcome was recorded
    own         \* kinds of reply each call's own charger sent

callerVars == <<pc, told, held>>
memoryVars == <<pending, noticed, event, results, handles, made, isSet>>
timerVars  == <<timer, cancelling>>
redisVars  == <<meta, saved>>
handlerVars == <<step, job>>
restoreVars == <<rstep, rcall, rtodo>>
linkVars   == <<link, closing, connects, crashes>>
messageVars == <<inbox, delivered, replies>>
historyVars == <<outcome, answers, own>>
loopVars == <<handlerVars, restoreVars>>
worldVars == <<linkVars, messageVars, historyVars>>
vars == <<callerVars, memoryVars, timerVars, redisVars, loopVars, worldVars>>

Kinds == {"result", "error"}          \* CALLRESULT (3), CALLERROR (4)
Outcomes == Kinds \cup {"none"}
Replies == [call : Calls, kind : Kinds]
Jobs == [call : Calls \cup {NoCall}, kind : Outcomes, event : Nat]
NoJob == [call |-> NoCall, kind |-> "none", event |-> 0]

-----------------------------------------------------------------------------
(* Helpers of the store *)

\* What a Redis write leaves behind: an error is swallowed, so the old value.
RedisWrite(old, new) ==
    IF UseRedis THEN {new} \cup (IF RedisFaults THEN {old} ELSE {}) ELSE {old}

\* A Redis read that raises is treated as a missing key.
RedisSees(key, keys) == UseRedis /\ key \in keys
RedisMisses(key, keys) == RedisSees(key, keys) => RedisFaults

\* The keys of S a series of deletes may really remove.
RedisRemovable(S) ==
    IF ~UseRedis THEN {{}} ELSE IF RedisFaults THEN SUBSET S ELSE {S}

\* _clear_pending_redis: the metadata goes first, then the result, and an
\* error at either leaves the rest.
ClearPendingRedis(S) ==
    \E gone \in RedisRemovable(S) :
      \E both \in RedisRemovable(gone) :
        /\ meta' = meta \ gone
        /\ saved' = [m \in Calls |-> IF m \in both THEN "none" ELSE saved[m]]

\* Every path that pops handles queues handle.cancel on the scheduler loop.
DropHandles(S) ==
    /\ handles' = handles \ S
    /\ cancelling' = cancelling \cup (handles \cap S)

\* register_pending_call, the part under _pending_call_lock.
RegisterInMemory(m) ==
    /\ pending' = pending \cup {m}
    /\ noticed' = noticed \ {m}
    /\ made' = [made EXCEPT ![m] = @ + 1]
    /\ event' = [event EXCEPT ![m] = made[m] + 1]
    /\ results' = [results EXCEPT ![m] = "none"]
    /\ DropHandles({m})

\* Mutant: the metadata is read but left in place.
PeekInMemory(m) == DropHandles({m}) /\ UNCHANGED <<pending, noticed>>

\* pop_pending_call, the part under the lock.
PopInMemory(m) ==
    /\ pending' = pending \ {m}
    /\ noticed' = noticed \ {m}
    /\ DropHandles({m})

\* clear_pending_calls(c): calls are found by the charger in their metadata.
ClearPendingCalls(c) ==
    LET gone == {m \in pending : Owner[m] = c}
    IN  /\ pending' = pending \ gone
        /\ noticed' = noticed \ gone
        /\ event' = [m \in Calls |-> IF m \in gone THEN 0 ELSE event[m]]
        /\ results' = [m \in Calls |-> IF m \in gone THEN "none" ELSE results[m]]
        /\ DropHandles(gone)
        /\ ClearPendingRedis(gone)
        /\ UNCHANGED <<made, isSet>>

\* The loop is between two synchronous stretches: every handler is idle or
\* suspended at an await, and no restore is running.
LoopFree == rstep = "off" /\ \A c \in Chargers : step[c] \in {"idle", "dispatching"}

-----------------------------------------------------------------------------
(* Callers *)

Goto(m, from, to) == pc[m] = from /\ pc' = [pc EXCEPT ![m] = to]

IsLive(m) == pc[m] \notin {"idle", "done", "dead"}

\* A view or an admin action: async_to_sync(ws.send)(msg) comes first.
Send(m) ==
    /\ m \notin ForwardCalls
    /\ Goto(m, "idle", "sent")
    /\ link[Owner[m]] # "down"
    /\ delivered' = delivered \cup {m}
    /\ UNCHANGED <<told, held, memoryVars, timerVars, redisVars, loopVars,
                   linkVars, inbox, replies, historyVars>>

Register(m) ==
    /\ Goto(m, IF m \in ForwardCalls THEN "idle" ELSE "sent", "mirroring")
    /\ m \in ForwardCalls => link[Owner[m]] # "down"
    /\ RegisterInMemory(m)
    /\ UNCHANGED <<told, held, isSet, timer, redisVars, loopVars, worldVars>>

\* register_pending_call, after the lock: the metadata is written to Redis.
MirrorCall(m) ==
    /\ Goto(m, "mirroring", "registered")
    /\ meta' \in RedisWrite(meta, meta \cup {m})
    /\ UNCHANGED <<told, held, memoryVars, timerVars, saved, loopVars,
                   worldVars>>

\* The forwarder's listener sends after registering; nobody waits.
ForwardSend(m) ==
    /\ m \in ForwardCalls
    /\ Goto(m, "registered", "done")
    /\ link[Owner[m]] # "down"
    /\ delivered' = delivered \cup {m}
    /\ UNCHANGED <<told, held, memoryVars, timerVars, redisVars, loopVars,
                   linkVars, inbox, replies, historyVars>>

\* The send raised: the listener takes the registration back.
ForwardRollback(m) ==
    /\ m \in ForwardCalls
    /\ Goto(m, "registered", "undoing")
    /\ PopInMemory(m)
    /\ UNCHANGED <<told, held, event, results, made, isSet, timer, redisVars,
                   loopVars, worldVars>>

ForwardUnmirror(m) ==
    /\ Goto(m, "undoing", "done")
    /\ ClearPendingRedis({m})
    /\ UNCHANGED <<told, held, memoryVars, timerVars, loopVars, worldVars>>

\* schedule_call_timeout hands _schedule_timer to the scheduler loop.
ScheduleTimeout(m) ==
    /\ m \notin ForwardCalls
    /\ Goto(m, "registered", "scheduling")
    /\ timer' = [timer EXCEPT ![m] = "queued"]
    /\ UNCHANGED <<told, held, memoryVars, cancelling, redisVars, loopVars,
                   worldVars>>

\* future.result returned the handle; it is stored whatever became of the call.
StoreHandle(m) ==
    /\ Goto(m, "scheduling", "ready")
    /\ timer[m] # "queued"
    /\ handles' = handles \cup {m}
    /\ UNCHANGED <<told, held, pending, noticed, event, results, made, isSet,
                   timerVars, redisVars, loopVars, worldVars>>

\* future.result timed out: the timer may still be armed, nobody keeps it.
AbandonHandle(m) ==
    /\ Goto(m, "scheduling", "ready")
    /\ timer[m] = "queued"
    /\ UNCHANGED <<told, held, memoryVars, timerVars, redisVars, loopVars,
                   worldVars>>

\* Node endpoints and some admin actions do not wait for the outcome.
SkipWait(m) ==
    /\ m \notin ForwardCalls
    /\ pc[m] \in {"registered", "ready"}
    /\ pc' = [pc EXCEPT ![m] = "done"]
    /\ UNCHANGED <<told, held, memoryVars, timerVars, redisVars, loopVars,
                   worldVars>>

\* Mutant: a missing result is passed on as it is.
TellRaw(m, answer) ==
    /\ pc' = [pc EXCEPT ![m] = "done"]
    /\ told' = [told EXCEPT ![m] = answer]
    /\ held' = [held EXCEPT ![m] = 0]

Tell(m, answer) ==
    /\ pc' = [pc EXCEPT ![m] = "done"]
    /\ told' = [told EXCEPT ![m] = IF answer = "none" THEN "noReply" ELSE answer]
    /\ held' = [held EXCEPT ![m] = 0]

\* wait_for_pending_call, the first lock: a result that is already there is
\* taken; otherwise the caller keeps a reference to the call's Event.
StartWait(m) ==
    /\ m \notin ForwardCalls
    /\ pc[m] \in {"registered", "ready"}
    /\ IF results[m] # "none"
       THEN /\ Tell(m, results[m])
            /\ results' = [results EXCEPT ![m] = "none"]
       ELSE /\ pc' = [pc EXCEPT ![m] = IF event[m] = 0 THEN "lookup" ELSE "waiting"]
            /\ held' = [held EXCEPT ![m] = event[m]]
            /\ UNCHANGED <<told, results>>
    /\ UNCHANGED <<pending, noticed, event, handles, made, isSet, timerVars,
                   redisVars, loopVars, worldVars>>

Woken(m) == held[m] \in isSet[m]

\* The Event was set: whatever result is there is taken, with the call's
\* current Event, which need not be the one waited on.
Collect(m) ==
    /\ pc[m] = "waiting"
    /\ Woken(m)
    /\ Tell(m, results[m])
    /\ results' = [results EXCEPT ![m] = "none"]
    /\ event' = [event EXCEPT ![m] = 0]
    /\ UNCHANGED <<pending, noticed, handles, made, isSet, timerVars,
                   redisVars, loopVars, worldVars>>

\* Mutant: the wait gives up only on a call the store still lists.
WaitExpiresIfListed(m) ==
    /\ Goto(m, "waiting", "lookup")
    /\ ~Woken(m) /\ m \in pending
    /\ UNCHANGED <<told, held, memoryVars, timerVars, redisVars, loopVars,
                   worldVars>>

WaitExpires(m) ==
    /\ Goto(m, "waiting", "lookup")
    /\ ~Woken(m)
    /\ UNCHANGED <<told, held, memoryVars, timerVars, redisVars, loopVars,
                   worldVars>>

\* No Event, or the wait timed out: a result cached in Redis is the last resort.
LookUpSaved(m) ==
    /\ pc[m] = "lookup"
    /\ \/ /\ UseRedis /\ saved[m] # "none"
          /\ Tell(m, saved[m])
          /\ ClearPendingRedis({m})
       \/ /\ UseRedis /\ saved[m] # "none" => RedisFaults
          /\ Tell(m, "none")
          /\ UNCHANGED redisVars
    /\ UNCHANGED <<memoryVars, timerVars, loopVars, worldVars>>

-----------------------------------------------------------------------------
(* The scheduler thread *)

ArmTimer(m) ==
    /\ timer[m] = "queued"
    /\ timer' = [timer EXCEPT ![m] = "armed"]
    /\ UNCHANGED <<callerVars, memoryVars, cancelling, redisVars, loopVars,
                   worldVars>>

\* Mutant: only the flag is looked at.
NoticeNotSent(m) == m \notin noticed

\* A call that is no longer pending, or was noticed, gets no notice.
NoticeDue(m) == m \in pending /\ m \notin noticed

\* _notify, the part under the lock, which decides on the notice.  Its log entry
\* is written after the lock, when the call may be answered already: output, on
\* which nothing in the store depends, and left out.
FireTimer(m) ==
    /\ timer[m] = "armed"
    /\ timer' = [timer EXCEPT ![m] = "ended"]
    /\ handles' = handles \ {m}
    /\ noticed' = IF NoticeDue(m) THEN noticed \cup {m} ELSE noticed
    /\ UNCHANGED <<callerVars, pending, event, results, made, isSet,
                   cancelling, redisVars, loopVars, worldVars>>

CancelTimer(m) ==
    /\ m \in cancelling
    /\ cancelling' = cancelling \ {m}
    /\ timer' = [timer EXCEPT ![m] = "ended"]
    /\ UNCHANGED <<callerVars, memoryVars, redisVars, loopVars, worldVars>>

-----------------------------------------------------------------------------
(* The consumer: replies *)

\* The charger of a delivered call answers it, and may answer again; a reply
\* may also reach the server over another charger's socket.
ChargerReplies(c, m, kind) ==
    /\ link[c] # "down"
    /\ m \in delivered
    /\ replies[m] < MaxReplies
    /\ replies' = [replies EXCEPT ![m] = @ + 1]
    /\ inbox' = [inbox EXCEPT ![c] = @ \cup {[call |-> m, kind |-> kind]}]
    /\ own' = IF Owner[m] = c THEN [own EXCEPT ![m] = @ \cup {kind}] ELSE own
    /\ UNCHANGED <<callerVars, memoryVars, timerVars, redisVars, loopVars,
                   linkVars, delivered, outcome, answers>>

\* receive -> _handle_call_result/_handle_call_error -> pop_pending_call, the
\* part under the lock.
TakeReply(c, r) ==
    /\ LoopFree /\ step[c] = "idle"
    /\ link[c] = "up" /\ r \in inbox[c]
    /\ inbox' = [inbox EXCEPT ![c] = @ \ {r}]
    /\ step' = [step EXCEPT ![c] = IF r.call \in pending THEN "hit" ELSE "miss"]
    /\ job' = [job EXCEPT ![c] = [call |-> r.call, kind |-> r.kind, event |-> 0]]
    /\ PopInMemory(r.call)
    /\ UNCHANGED <<callerVars, event, results, made, isSet, timer, redisVars,
                   restoreVars, linkVars, delivered, replies, historyVars>>

\* Mutant: any charger's reply will do.
AnyCharger(c, m) == TRUE

\* Mutant: metadata found in Redis only is taken for the consumer's own.
MirrorTrusted(c, m) == step[c] = "miss" \/ Owner[m] = c

\* The metadata's charger_id against the consumer's.
SameCharger(c, m) == Owner[m] = c

\* pop_pending_call's Redis part, then the guards before the dispatch: no
\* metadata, or metadata of another charger, drops the reply (and the call).
Resolve(c) ==
    LET m == job[c].call IN
    /\ step[c] \in {"hit", "miss"}
    /\ \E found \in BOOLEAN :
         /\ found => step[c] = "hit" \/ RedisSees(m, meta)
         /\ ~found => step[c] = "miss" /\ RedisMisses(m, meta)
         /\ IF found /\ SameCharger(c, m)
            THEN /\ step' = [step EXCEPT ![c] = "dispatching"]
                 /\ UNCHANGED job
            ELSE /\ step' = [step EXCEPT ![c] = "idle"]
                 /\ job' = [job EXCEPT ![c] = NoJob]
    /\ ClearPendingRedis({m})
    /\ UNCHANGED <<callerVars, memoryVars, timerVars, restoreVars, worldVars>>

\* The action's handler ends in record_pending_call_result, under the lock:
\* the result is stored and the Event taken out, to be set after the lock.
Record(c) ==
    LET m == job[c].call IN
    /\ LoopFree /\ step[c] = "dispatching"
    /\ step' = [step EXCEPT ![c] = "recorded"]
    /\ job' = [job EXCEPT ![c] = [call |-> m, kind |-> @.kind, event |-> event[m]]]
    /\ results' = [results EXCEPT ![m] = job[c].kind]
    /\ event' = [event EXCEPT ![m] = 0]
    /\ DropHandles({m})
    /\ outcome' = [outcome EXCEPT ![m] = job[c].kind]
    /\ answers' = [answers EXCEPT ![m] = @ + 1]
    /\ UNCHANGED <<callerVars, pending, noticed, made, isSet, timer, redisVars,
                   restoreVars, linkVars, messageVars, own>>

\* Mutant: the Event is looked up again after the lock was released.
WakeCurrent(c) ==
    LET m == job[c].call IN
    /\ step[c] = "recorded"
    /\ step' = [step EXCEPT ![c] = "woke"]
    /\ isSet' = [isSet EXCEPT ![m] = @ \cup ({event[m]} \ {0})]
    /\ UNCHANGED <<callerVars, pending, noticed, event, results, handles, made,
                   timerVars, redisVars, job, restoreVars, worldVars>>

\* event.set(), if there was an Event.
WakeCaller(c) ==
    LET m == job[c].call IN
    /\ step[c] = "recorded"
    /\ step' = [step EXCEPT ![c] = "woke"]
    /\ isSet' = [isSet EXCEPT ![m] = @ \cup ({job[c].event} \ {0})]
    /\ UNCHANGED <<callerVars, pending, noticed, event, results, handles, made,
                   timerVars, redisVars, job, restoreVars, worldVars>>

SaveResult(c) ==
    LET m == job[c].call IN
    /\ step[c] = "woke"
    /\ step' = [step EXCEPT ![c] = "idle"]
    /\ job' = [job EXCEPT ![c] = NoJob]
    /\ saved' \in RedisWrite(saved, [saved EXCEPT ![m] = job[c].kind])
    /\ UNCHANGED <<callerVars, memoryVars, timerVars, meta, restoreVars,
                   worldVars>>

\* An exception in a handler ends the consumer without its disconnect():
\* the socket is gone, the store keeps what it had.
DispatchRaises(c) ==
    /\ LoopFree /\ step[c] = "dispatching"
    /\ step' = [step EXCEPT ![c] = "idle"]
    /\ job' = [job EXCEPT ![c] = NoJob]
    /\ \/ /\ link' = [link EXCEPT ![c] = "down"]
          /\ inbox' = [inbox EXCEPT ![c] = {}]
          /\ UNCHANGED closing
       \/ /\ closing[c] > 0     \* a replaced consumer was still dispatching
          /\ closing' = [closing EXCEPT ![c] = @ - 1]
          /\ UNCHANGED <<link, inbox>>
    /\ UNCHANGED <<callerVars, memoryVars, timerVars, redisVars, restoreVars,
                   connects, crashes, delivered, replies, historyVars>>

-----------------------------------------------------------------------------
(* The consumer: connections *)

\* connect() up to _accept_connection. The consumer this one replaces closes,
\* now or when this one's first CALL takes over its key (module Sessions); the
\* replies it has not read are lost and its disconnect() is still to run.
AcceptConnection(c) ==
    /\ LoopFree
    /\ connects < MaxConnects
    /\ connects' = connects + 1
    /\ closing' = [closing EXCEPT ![c] = @ + IF link[c] = "down" THEN 0 ELSE 1]
    /\ link' = [link EXCEPT ![c] = "accepted"]
    /\ inbox' = [inbox EXCEPT ![c] = {}]
    /\ UNCHANGED <<callerVars, memoryVars, timerVars, redisVars, loopVars,
                   crashes, delivered, replies, historyVars>>

\* A connection refused after its serial was read (credentials, feature gates,
\* rate limit) runs disconnect() with the charger's id all the same.
RejectConnection(c) ==
    /\ LoopFree
    /\ connects < MaxConnects
    /\ connects' = connects + 1
    /\ closing' = [closing EXCEPT ![c] = @ + 1]
    /\ UNCHANGED <<callerVars, memoryVars, timerVars, redisVars, loopVars,
                   link, crashes, messageVars, historyVars>>

\* Mutant: a serial with capitals, lowered on one side only, matches no key.
MatchesNothing(c) == {}

\* The keys restore_pending_calls(c) takes: the charger's, whatever their case.
Restorable(c) == {m \in Calls : Owner[m] = c}

\* connect() goes on: restore_pending_calls scans the metadata keys.
StartRestore(c) ==
    /\ LoopFree
    /\ link[c] = "accepted"
    /\ link' = [link EXCEPT ![c] = "up"]
    /\ IF UseRedis
       THEN /\ rstep' = "scan"
            /\ rtodo' = Restorable(c)
       ELSE UNCHANGED <<rstep, rtodo>>
    /\ UNCHANGED <<callerVars, memoryVars, timerVars, redisVars, handlerVars,
                   rcall, closing, connects, crashes, messageVars, historyVars>>

RestoreRead(m) ==
    /\ rstep = "scan" /\ m \in rtodo
    /\ rtodo' = rtodo \ {m}
    /\ IF m \in meta
       THEN rstep' = "read" /\ rcall' = m
       ELSE UNCHANGED <<rstep, rcall>>
    /\ UNCHANGED <<callerVars, memoryVars, timerVars, redisVars, handlerVars,
                   worldVars>>

\* Under the lock: a call that is pending here is left alone; any other is
\* registered again, as a new call would be.
AlreadyPending(m) == m \in pending

RestoreRegister(m) ==
    /\ rstep = "read" /\ rcall = m
    /\ IF AlreadyPending(m)
       THEN /\ rstep' = "scan" /\ rcall' = NoCall
            /\ UNCHANGED <<memoryVars, cancelling>>
       ELSE /\ rstep' = "mirror"
            /\ RegisterInMemory(m)
            /\ UNCHANGED <<rcall, isSet>>
    /\ UNCHANGED <<callerVars, timer, redisVars, handlerVars, rtodo, worldVars>>

RestoreMirror(m) ==
    /\ rstep = "mirror" /\ rcall = m
    /\ rstep' = "scan" /\ rcall' = NoCall
    /\ meta' \in RedisWrite(meta, meta \cup {m})
    /\ UNCHANGED <<callerVars, memoryVars, timerVars, saved, handlerVars,
                   rtodo, worldVars>>

\* The scan is over, or a RedisError ended it early.
RestoreEnds ==
    /\ rstep = "scan"
    /\ rtodo = {} \/ RedisFaults
    /\ rstep' = "off" /\ rtodo' = {}
    /\ UNCHANGED <<callerVars, memoryVars, timerVars, redisVars, handlerVars,
                   rcall, worldVars>>

\* The socket closes and disconnect() runs: replies not read are lost.
Disconnect(c) ==
    /\ LoopFree /\ step[c] = "idle"
    /\ link[c] = "up"
    /\ link' = [link EXCEPT ![c] = "down"]
    /\ inbox' = [inbox EXCEPT ![c] = {}]
    /\ ClearPendingCalls(c)
    /\ UNCHANGED <<callerVars, timer, loopVars, closing, connects, crashes,
                   delivered, replies, historyVars>>

\* disconnect() of a consumer that was replaced or refused clears the calls of
\* its charger, whatever connection they went out on.
LateDisconnect(c) ==
    /\ LoopFree
    /\ closing[c] > 0
    /\ closing' = [closing EXCEPT ![c] = @ - 1]
    /\ ClearPendingCalls(c)
    /\ UNCHANGED <<callerVars, timer, loopVars, link, connects, crashes,
                   messageVars, historyVars>>

-----------------------------------------------------------------------------
(* The process and Redis *)

\* The process stops: threads, dictionaries, timers and sockets are gone.
Crash ==
    /\ crashes < MaxCrashes
    /\ crashes' = crashes + 1
    /\ pc' = [m \in Calls |-> IF IsLive(m) THEN "dead" ELSE pc[m]]
    /\ held' = [m \in Calls |-> 0]
    /\ pending' = {} /\ noticed' = {} /\ handles' = {} /\ cancelling' = {}
    /\ event' = [m \in Calls |-> 0]
    /\ results' = [m \in Calls |-> "none"]
    /\ timer' = [m \in Calls |-> IF timer[m] = "off" THEN "off" ELSE "ended"]
    /\ step' = [c \in Chargers |-> "idle"]
    /\ job' = [c \in Chargers |-> NoJob]
    /\ rstep' = "off" /\ rcall' = NoCall /\ rtodo' = {}
    /\ link' = [c \in Chargers |-> "down"]
    /\ closing' = [c \in Chargers |-> 0]
    /\ inbox' = [c \in Chargers |-> {}]
    /\ UNCHANGED <<told, made, isSet, redisVars, connects, delivered, replies,
                   historyVars>>

\* OCPP_PENDING_CALL_TTL is half an hour: keys outlive any wait, not a call
\* that nobody waits for.
KeyExpires(m) ==
    /\ ~IsLive(m)
    /\ \/ m \in meta /\ meta' = meta \ {m} /\ UNCHANGED saved
       \/ saved[m] # "none" /\ saved' = [saved EXCEPT ![m] = "none"] /\ UNCHANGED meta
    /\ UNCHANGED <<callerVars, memoryVars, timerVars, loopVars, worldVars>>

-----------------------------------------------------------------------------
(* Specification *)

Init ==
    /\ pc = [m \in Calls |-> "idle"]
    /\ told = [m \in Calls |-> "nothing"]
    /\ held = [m \in Calls |-> 0]
    /\ pending = {} /\ noticed = {} /\ handles = {}
    /\ event = [m \in Calls |-> 0]
    /\ results = [m \in Calls |-> "none"]
    /\ made = [m \in Calls |-> 0]
    /\ isSet = [m \in Calls |-> {}]
    /\ timer = [m \in Calls |-> "off"] /\ cancelling = {}
    /\ meta = {} /\ saved = [m \in Calls |-> "none"]
    /\ step = [c \in Chargers |-> "idle"] /\ job = [c \in Chargers |-> NoJob]
    /\ rstep = "off" /\ rcall = NoCall /\ rtodo = {}
    /\ link = [c \in Chargers |-> "down"] /\ closing = [c \in Chargers |-> 0]
    /\ connects = 0 /\ crashes = 0
    /\ inbox = [c \in Chargers |-> {}] /\ delivered = {}
    /\ replies = [m \in Calls |-> 0]
    /\ outcome = [m \in Calls |-> "none"] /\ answers = [m \in Calls |-> 0]
    /\ own = [m \in Calls |-> {}]

CallerStep(m) ==
    \/ Send(m) \/ Register(m) \/ MirrorCall(m)
    \/ ForwardSend(m) \/ ForwardRollback(m) \/ ForwardUnmirror(m)
    \/ ScheduleTimeout(m) \/ StoreHandle(m) \/ AbandonHandle(m)
    \/ SkipWait(m) \/ StartWait(m) \/ Collect(m) \/ WaitExpires(m) \/ LookUpSaved(m)

TimerStep(m) == ArmTimer(m) \/ FireTimer(m) \/ CancelTimer(m)

RestoreStep(m) == RestoreRead(m) \/ RestoreRegister(m) \/ RestoreMirror(m)

HandlerStep(c) ==
    Resolve(c) \/ Record(c) \/ WakeCaller(c) \/ SaveResult(c) \/ DispatchRaises(c)

ConnectionStep(c) ==
    \/ AcceptConnection(c) \/ RejectConnection(c) \/ StartRestore(c)
    \/ Disconnect(c) \/ LateDisconnect(c)

Next ==
    \/ \E m \in Calls : CallerStep(m)
    \/ \E m \in Calls : TimerStep(m)
    \/ \E m \in Calls : RestoreStep(m)
    \/ \E m \in Calls : KeyExpires(m)
    \/ RestoreEnds
    \/ \E c \in Chargers, m \in Calls, kind \in Kinds : ChargerReplies(c, m, kind)
    \/ \E c \in Chargers : \E r \in inbox[c] : TakeReply(c, r)
    \/ \E c \in Chargers : HandlerStep(c)
    \/ \E c \in Chargers : ConnectionStep(c)
    \/ Crash

Spec == Init /\ [][Next]_vars

\* Threads that were started run on: a caller's own steps and timeouts, the
\* scheduler loop, and the synchronous stretches of the event loop. Chargers
\* need not answer, connect or stay, and no process need start a call.
Fairness ==
    /\ \A m \in Calls : WF_vars(IsLive(m) /\ CallerStep(m))
    /\ \A m \in Calls : WF_vars(TimerStep(m)) /\ WF_vars(RestoreStep(m))
    /\ \A c \in Chargers : WF_vars(HandlerStep(c)) /\ WF_vars(StartRestore(c))
    /\ WF_vars(RestoreEnds)

FairSpec == Spec /\ Fairness

-----------------------------------------------------------------------------
(* Properties *)

CallerStates == {"idle", "sent", "mirroring", "registered", "undoing",
                 "scheduling", "ready", "waiting", "lookup", "done", "dead"}
HandlerStates == {"idle", "hit", "miss", "dispatching", "recorded", "woke"}

\* The dictionaries, the mirror, the threads and the sockets hold values of
\* their types.
TypeOK ==
    /\ pc \in [Calls -> CallerStates]
    /\ told \in [Calls -> Kinds \cup {"nothing", "noReply"}]
    /\ held \in [Calls -> Nat]
    /\ pending \subseteq Calls /\ noticed \subseteq Calls
    /\ event \in [Calls -> Nat] /\ made \in [Calls -> Nat]
    /\ isSet \in [Calls -> SUBSET Nat]
    /\ results \in [Calls -> Outcomes]
    /\ handles \subseteq Calls /\ cancelling \subseteq Calls
    /\ timer \in [Calls -> {"off", "queued", "armed", "ended"}]
    /\ meta \subseteq Calls /\ saved \in [Calls -> Outcomes]
    /\ step \in [Chargers -> HandlerStates] /\ job \in [Chargers -> Jobs]
    /\ rstep \in {"off", "scan", "read", "mirror"}
    /\ rcall \in Calls \cup {NoCall} /\ rtodo \subseteq Calls
    /\ link \in [Chargers -> {"down", "accepted", "up"}]
    /\ closing \in [Chargers -> Nat]
    /\ connects \in 0..MaxConnects /\ crashes \in 0..MaxCrashes
    /\ inbox \in [Chargers -> SUBSET Replies]
    /\ delivered \subseteq Calls /\ replies \in [Calls -> 0..MaxReplies]
    /\ outcome \in [Calls -> Outcomes] /\ answers \in [Calls -> Nat]
    /\ own \in [Calls -> SUBSET Kinds]

\* A consumer has taken the call out of pending_calls and not recorded it yet.
Holds(c, m) == step[c] \in {"hit", "dispatching"} /\ job[c].call = m
InHand(m) == \E c \in Chargers : Holds(c, m)

\* What pending_calls lists is outstanding: no outcome was recorded for it and
\* no consumer has it in hand. register_pending_call speaks of "an outstanding
\* CSMS call"; a duplicate reply, a late register or a restore could break it.
PendingOutstanding ==
    \A m \in pending : answers[m] = 0 /\ ~InHand(m)

\* A caller blocked on an Event while its result sits in the store is awake, or
\* a consumer is between its lock and event.set() with that very Event: result
\* and Event change hands under one lock (record_, wait_for_pending_call).
NoLostWakeup ==
    \A m \in Calls : pc[m] = "waiting" /\ results[m] # "none" =>
        \/ Woken(m)
        \/ \E c \in Chargers : step[c] = "recorded" /\ job[c].call = m
                                /\ job[c].event = held[m]

\* Whatever a caller is given, and whatever is kept for it in memory or Redis,
\* is a reply its own charger sent: never one of another charger's socket.
AnswersAreOwn ==
    \A m \in Calls :
        /\ told[m] \in Kinds => told[m] \in own[m]
        /\ results[m] # "none" => results[m] \in own[m]
        /\ saved[m] # "none" => saved[m] \in own[m]

\* A timeout notice is decided on, under the lock, only for a call that nobody has
\* answered and no consumer has in hand, although the timer runs on another thread
\* and its cancellation is only queued.  (The log entry is written after the lock
\* and so may still come after an answer.)
NoticesJustified ==
    [][\A m \in noticed' \ noticed : answers[m] = 0 /\ ~InHand(m)]_vars

\* A call of a process that stopped, still listed by the mirror, is pending as
\* soon as its charger has reconnected and the restore is over (as long as no
\* Redis command fails).
RestoredAfterCrash ==
    \A m \in meta :
        pc[m] = "dead" /\ link[Owner[m]] = "up" /\ LoopFree => m \in pending

\* What the manual says of reconnects (docs/development/ocpp-user-manual.md):
\* metadata is mirrored "so responses can be reconciled even after reconnects".
\* A delivered, unanswered call is pending whenever its charger is connected.
ReconciledAfterReconnect ==
    \A m \in delivered :
        link[Owner[m]] = "up" /\ LoopFree /\ pc[m] \in {"ready", "waiting"}
        /\ answers[m] = 0 /\ ~InHand(m) => m \in pending

\* Every caller comes back: an Event dropped by a disconnect, a lost reply or a
\* crash cannot leave a thread blocked for good.
CallersReturn ==
    \A m \in Calls : IsLive(m) ~> ~IsLive(m)

\* The promise of CallPromise, kept by the store when it has no Redis mirror.
Phase == [m \in Calls |-> IF m \in pending \/ InHand(m) THEN "open"
                          ELSE IF made[m] = 0 THEN "new" ELSE "closed"]
Promise == INSTANCE CallPromise WITH phase <- Phase
KeepsPromise == Promise!Spec
=============================================================================
