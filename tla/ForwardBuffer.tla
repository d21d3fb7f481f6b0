---------------------------- MODULE ForwardBuffer ----------------------------
(***************************************************************************)
(* A charger's messages on their way to a remote CSMS, one batch every     *)
(* Interval ticks (apps/ocpp/consumers/csms/transport.py).                 *)
(*                                                                         *)
(* The forwarding session keeps the newest payload of each OCPP action in  *)
(* pending_cp_messages.  Batches are sent by the consumer itself, by tasks *)
(* started by timers, and by an admin's thread that turns the interval off;*)
(* each sends one payload at a time, through the one thread of             *)
(* sync_to_async except for the admin's, and others run in between.        *)
(*                                                                         *)
(* The session is that of one charger.  When it is replaced, the batches   *)
(* and timers of the old one can only fail, on a closed connection, and    *)
(* are dropped here.  Time is kept relative: what is older than Interval   *)
(* ticks is as good as infinitely old.                                     *)
(***************************************************************************)
EXTENDS Integers, Sequences, SequencesExt

CONSTANTS
    Actions,      \* OCPP actions of messages that are forwarded
    Interval,     \* forwarding_interval_seconds configured, in ticks
    MaxMessages,  \* messages of the charger
    MaxMishaps    \* broken connections, removals and changes of the settings

ASSUME BoundsAssumption ==
    /\ Actions # {}
    /\ Interval \in Nat \ {0}
    /\ MaxMessages \in Nat /\ MaxMishaps \in Nat

Messages == 1..MaxMessages
Consumer == 0                  \* the batch the consumer itself sends
Admin == MaxMessages + 1       \* the batch of the admin's thread
Batches == 0..(MaxMessages + 1) \* the others: of the timer a message started
NoTimer == 0
Ages == 0..Interval

VARIABLES
    \* the session
    listed,    \* it is in Forwarder._sessions
    working,   \* its connection works
    interval,  \* forwarding_interval_seconds
    pending,   \* pending_cp_messages in dict order: one message per action
    age,       \* ticks since last_cp_flush_at
    handle,    \* _cp_flush_handle: the timer a message started
    \* the consumer and the timers
    received,  \* messages so far, numbered
    action,    \* the action of each
    consumer,  \* "idle", or what it awaits: "batch", "before" a direct send, "direct"
    retrying,  \* it has reconnected for its message
    timer,     \* ticks left of the timer each message started
    batch,     \* of each sender of batches: where it is, what is left, its age
    outbox,    \* sends waiting for the one thread of sync_to_async
    back,      \* senders whose send is over, in the order the loop resumes them
    \* bounds and history
    mishaps,   \* so far
    sent,      \* messages that went out
    forgone,   \* messages given up with a session
    lowered,   \* the interval was turned off by an admin
    stranded   \* a retry stopped before it sent what it had preserved

sessionVars == <<listed, working, interval, pending, age, handle>>
consumerVars == <<received, action, consumer, retrying>>
pastVars == <<mishaps, sent, forgone, lowered, stranded>>
vars == <<sessionVars, consumerVars, timer, batch, outbox, back, pastVars>>

Off == -1
NoBatch == [at |-> "off", left |-> <<>>, ago |-> 0]

-----------------------------------------------------------------------------
(* Parts of the handlers *)

\* Mutant: the action is not looked up.
PutTwice(messages, m) == Append(messages, m)
\* pending_cp_messages[action] = payload: an action keeps its place.
Put(messages, m) ==
    LET same == {i \in DOMAIN messages : action'[messages[i]] = action'[m]} IN
    IF same = {} THEN Append(messages, m)
    ELSE [i \in DOMAIN messages |-> IF i \in same THEN m ELSE messages[i]]

\* Mutant: whatever the action has by now is taken out.
TakeAny(messages, m) ==
    LET same == {i \in DOMAIN messages : action[messages[i]] = action[m]} IN
    IF same = {} THEN messages ELSE RemoveAt(messages, CHOOSE i \in same : TRUE)
\* The payload is taken out unless a newer one replaced it.
Take(messages, m) ==
    LET same == {i \in DOMAIN messages : messages[i] = m} IN
    IF same = {} THEN messages ELSE RemoveAt(messages, CHOOSE i \in same : TRUE)

\* Mutant: the handle stays.
HandleKept(b) == handle
\* A batch clears the handle without cancelling its timer.
HandleAfter(b) == NoTimer

\* _flush_buffered_forward_messages up to its first send: b takes what is
\* pending.  ago is the age of the "now" it was called with.
Begin(b, messages) ==
    /\ handle' = HandleAfter(b)
    /\ batch' = [batch EXCEPT ![b] = [at |-> "sending", left |-> messages, ago |-> 0]]
    /\ outbox' = Append(outbox, [by |-> b, message |-> Head(messages)])

Cancelled == IF handle = NoTimer THEN timer ELSE [timer EXCEPT ![handle] = Off]

\* The consumer hands its message to the thread.
SendDirect(m) ==
    /\ consumer' = "direct"
    /\ outbox' = Append(outbox, [by |-> Consumer, message |-> m])

-----------------------------------------------------------------------------
(* _send_or_buffer_cp_payload *)

\* A message arrives; get_session finds a session.
Arrives ==
    /\ consumer = "idle" /\ listed
    /\ received < MaxMessages
    /\ received' = received + 1
    /\ \E a \in Actions : action' = [action EXCEPT ![received + 1] = a]
    /\ retrying' = FALSE

\* Mutant: the message does not wait for what is pending.
ForwardAtOnce(m, messages, timers) ==
    /\ SendDirect(m)
    /\ timer' = timers
    /\ batch' = [batch EXCEPT ![Consumer] = [NoBatch EXCEPT !.at = "sending"]]
    /\ UNCHANGED handle
\* No interval: what is pending goes first.
Forward(m, messages, timers) ==
    IF messages = <<>>
    THEN /\ SendDirect(m)
         /\ handle' = NoTimer
         /\ timer' = timers
         /\ batch' = [batch EXCEPT ![Consumer] = [NoBatch EXCEPT !.at = "sending"]]
    ELSE /\ Begin(Consumer, messages)
         /\ consumer' = "before"
         /\ timer' = timers

ReceiveForwards ==
    /\ Arrives
    /\ interval = 0
    /\ Forward(received + 1, pending, Cancelled)
    /\ UNCHANGED <<back, listed, working, interval, pending, age, mishaps, sent, forgone,
                   lowered, stranded>>

ReceiveFlushes ==
    /\ Arrives
    /\ interval > 0 /\ age >= interval
    /\ pending' = Put(pending, received + 1)
    /\ Begin(Consumer, pending')
    /\ consumer' = "batch"
    /\ UNCHANGED <<back, listed, working, interval, age, timer, mishaps, sent, forgone,
                   lowered, stranded>>

\* _schedule_cp_flush: one timer, as far as the handle knows.
ReceiveBuffers ==
    /\ Arrives
    /\ interval > 0 /\ age < interval
    /\ pending' = Put(pending, received + 1)
    /\ IF handle = NoTimer
       THEN /\ handle' = received + 1
            /\ timer' = [timer EXCEPT ![received + 1] = interval]
       ELSE UNCHANGED <<handle, timer>>
    /\ UNCHANGED <<back, listed, working, interval, age, consumer, batch, outbox, pastVars>>

\* _run_scheduled_flush makes a task, which may have to wait for its turn.
TimerFires(m) ==
    /\ timer[m] = 0
    /\ timer' = [timer EXCEPT ![m] = Off]
    /\ batch' = [batch EXCEPT ![m] = [NoBatch EXCEPT !.at = "task"]]
    /\ UNCHANGED <<back, sessionVars, consumerVars, outbox, pastVars>>

TaskBegins(m) ==
    /\ batch[m].at = "task"
    /\ IF pending = <<>>
       THEN /\ handle' = HandleAfter(m)
            /\ batch' = [batch EXCEPT ![m] = NoBatch]
            /\ UNCHANGED outbox
       ELSE Begin(m, pending)
    /\ UNCHANGED <<back, listed, working, interval, pending, age, consumerVars, timer,
                   mishaps, sent, forgone, lowered, stranded>>

-----------------------------------------------------------------------------
(* Sends *)

\* The thread runs connection.send.
ThreadSends ==
    /\ outbox # <<>>
    /\ LET b == Head(outbox).by IN
       batch' = [batch EXCEPT ![b].at = IF working THEN "sent" ELSE "failed"]
    /\ sent' = IF working THEN Append(sent, Head(outbox).message) ELSE sent
    /\ outbox' = Tail(outbox)
    /\ back' = Append(back, Head(outbox).by)
    /\ UNCHANGED <<sessionVars, consumerVars, timer, mishaps, forgone, lowered,
                   stranded>>

\* The loop resumes the tasks in the order their sends ended.
Resumes(b) == back # <<>> /\ b = Head(back) /\ back' = Tail(back)

\* After a send of a batch: the next, or the end of the batch, which sets
\* last_cp_flush_at.  The consumer goes on to its own message.
BatchGoesOn(b) ==
    /\ Resumes(b) /\ batch[b].at = "sent"
    /\ b = Consumer => consumer # "direct"
    /\ pending' = Take(pending, Head(batch[b].left))
    /\ LET left == Tail(batch[b].left) IN
       IF left # <<>>
       THEN /\ batch' = [batch EXCEPT ![b].at = "sending", ![b].left = left]
            /\ outbox' = Append(outbox, [by |-> b, message |-> Head(left)])
            /\ UNCHANGED <<age, consumer>>
       ELSE /\ age' = batch[b].ago
            /\ IF b = Consumer /\ consumer = "before"
               THEN /\ batch' = [batch EXCEPT ![b] = [NoBatch EXCEPT !.at = "sending"]]
                    /\ SendDirect(received)
               ELSE /\ batch' = [batch EXCEPT ![b] = NoBatch]
                    /\ consumer' = IF b = Consumer THEN "idle" ELSE consumer
                    /\ UNCHANGED outbox
    /\ UNCHANGED <<listed, working, interval, handle, received, action, retrying,
                   timer, pastVars>>

ConsumerDone ==
    /\ Resumes(Consumer) /\ batch[Consumer].at = "sent"
    /\ consumer = "direct"
    /\ consumer' = "idle"
    /\ batch' = [batch EXCEPT ![Consumer] = NoBatch]
    /\ UNCHANGED <<sessionVars, received, action, retrying, timer, outbox, pastVars>>

\* A timer's task logs the failure; what it did not send stays pending, and no
\* timer is started for it.
TaskFails(m) ==
    /\ Resumes(m) /\ batch[m].at = "failed"
    /\ batch' = [batch EXCEPT ![m] = NoBatch]
    /\ UNCHANGED <<sessionVars, consumerVars, timer, outbox, pastVars>>

-----------------------------------------------------------------------------
(* Sessions *)

\* Everything on the session is forgotten.
Forgotten ==
    /\ forgone' = forgone \cup 1..received
    /\ consumer' = "idle"
    /\ batch' = [b \in Batches |-> NoBatch]
    /\ outbox' = <<>> /\ back' = <<>> /\ pending' = <<>>
    /\ timer' = [m \in Messages |-> Off]
    /\ handle' = NoTimer

SessionGone ==
    /\ listed' = FALSE /\ working' = FALSE
    /\ Forgotten
    /\ UNCHANGED <<interval, age, lowered, stranded>>

\* A new session has no interval until the next sync; what was pending on the
\* old one goes before the message.
Reconnects ==
    /\ ~retrying
    /\ listed' = TRUE /\ working' = TRUE
    /\ interval' = 0 /\ age' = Interval
    /\ handle' = NoTimer
    /\ timer' = [m \in Messages |-> Off]
    /\ retrying' = TRUE
    /\ back' = <<>>
    /\ UNCHANGED <<pending, forgone, lowered>>
    /\ LET first == IF pending = <<>> THEN received ELSE Head(pending) IN
       \/ /\ outbox' = <<[by |-> Consumer, message |-> first]>>
          /\ consumer' = IF pending = <<>> THEN "direct" ELSE "before"
          /\ batch' = [b \in Batches |->
                          IF b = Consumer
                          THEN [at |-> "sending", left |-> pending, ago |-> 0]
                          ELSE NoBatch]
          /\ UNCHANGED stranded
       \/ \* the action is not to be forwarded any more
          /\ outbox' = <<>> /\ consumer' = "idle"
          /\ batch' = [b \in Batches |-> NoBatch]
          /\ stranded' = TRUE
 
ConsumerFails ==
    /\ back # <<>> /\ Head(back) = Consumer
    /\ batch[Consumer].at = "failed"
    /\ \/ Reconnects
       \/ SessionGone /\ UNCHANGED retrying
    /\ UNCHANGED <<received, action, mishaps, sent>>

Mishap == mishaps < MaxMishaps /\ mishaps' = mishaps + 1

ConnectionBreaks ==
    /\ Mishap
    /\ working /\ working' = FALSE
    /\ UNCHANGED <<back, listed, interval, pending, age, handle, consumerVars, timer, batch,
                   outbox, sent, forgone, lowered, stranded>>

\* keepalive_sessions or a sync removes and closes the session.  A consumer in
\* the middle of a send has the object still, and fails.
SessionRemoved ==
    /\ Mishap
    /\ listed
    /\ IF consumer = "idle"
       THEN SessionGone
       ELSE /\ listed' = FALSE /\ working' = FALSE
            /\ UNCHANGED <<interval, pending, age, handle, consumer, timer, batch, outbox,
                           back, forgone, lowered, stranded>>
    /\ UNCHANGED <<received, action, retrying, sent>>

\* sync_forwarded_charge_points connects, with the configured interval.  What a
\* consumer left pending on a session that was removed before it was done stays
\* there.
SyncConnects ==
    /\ ~listed /\ consumer = "idle"
    /\ listed' = TRUE /\ working' = TRUE
    /\ interval' = (IF lowered THEN 0 ELSE Interval) /\ age' = Interval
    /\ Forgotten
    /\ UNCHANGED <<received, action, retrying, mishaps, sent, lowered, stranded>>

\* The next sync gives a session that reconnected the configured interval.
SyncSetsInterval ==
    /\ listed /\ interval = 0 /\ ~lowered
    /\ interval' = Interval
    /\ UNCHANGED <<back, listed, working, pending, age, handle, consumerVars, timer, batch,
                   outbox, pastVars>>

\* An admin turns the interval off: the timer of the handle is cancelled and
\* what is pending is sent, all in the admin's own thread.
AdminLowers ==
    /\ Mishap
    /\ listed /\ interval > 0
    /\ interval' = 0
    /\ timer' = Cancelled /\ handle' = NoTimer
    /\ batch' = IF pending = <<>> THEN batch
                ELSE [batch EXCEPT ![Admin] = [at |-> "sending", left |-> pending, ago |-> 0]]
    /\ age' = IF pending = <<>> THEN 0 ELSE age
    /\ lowered' = TRUE
    /\ UNCHANGED <<back, listed, working, pending, consumerVars, outbox, sent, forgone,
                   stranded>>

\* _flush_pending_cp_messages: one payload; a failure is logged.
AdminSends ==
    /\ batch[Admin].at = "sending"
    /\ LET left == batch[Admin].left IN
       IF working
       THEN /\ sent' = Append(sent, Head(left))
            /\ pending' = Take(pending, Head(left))
            /\ batch' = [batch EXCEPT ![Admin] = IF Tail(left) = <<>> THEN NoBatch
                                                 ELSE [@ EXCEPT !.left = Tail(left)]]
            /\ age' = IF Tail(left) = <<>> THEN batch[Admin].ago ELSE age
       ELSE /\ batch' = [batch EXCEPT ![Admin] = NoBatch]
            /\ UNCHANGED <<sent, pending, age>>
    /\ UNCHANGED <<back, listed, working, interval, handle, consumerVars, timer, outbox,
                   mishaps, forgone, lowered, stranded>>

-----------------------------------------------------------------------------
Older(ticks) == IF ticks < Interval THEN ticks + 1 ELSE ticks

Tick ==
    /\ age' = Older(age)
    /\ timer' = [m \in Messages |-> IF timer[m] > 0 THEN timer[m] - 1 ELSE timer[m]]
    /\ batch' = [b \in Batches |->
                    IF batch[b].at = "off" THEN batch[b]
                    ELSE [batch[b] EXCEPT !.ago = Older(@)]]
    /\ UNCHANGED <<back, listed, working, interval, pending, handle, consumerVars, outbox,
                   mishaps, sent, forgone, lowered, stranded>>

Init ==
    /\ listed = TRUE /\ working = TRUE
    /\ interval = Interval /\ age = Interval
    /\ pending = <<>> /\ handle = NoTimer
    /\ received = 0
    /\ action \in [Messages -> {CHOOSE a \in Actions : TRUE}]
    /\ consumer = "idle" /\ retrying = FALSE
    /\ timer = [m \in Messages |-> Off]
    /\ batch = [b \in Batches |-> NoBatch]
    /\ outbox = <<>> /\ back = <<>>
    /\ mishaps = 0 /\ sent = <<>> /\ forgone = {}
    /\ lowered = FALSE /\ stranded = FALSE

Receive == ReceiveForwards \/ ReceiveFlushes \/ ReceiveBuffers

Scheduled ==
    \/ \E m \in Messages : TimerFires(m) \/ TaskBegins(m) \/ TaskFails(m)
    \/ \E b \in Batches : BatchGoesOn(b)
    \/ ConsumerDone \/ ConsumerFails \/ ThreadSends \/ AdminSends

World ==
    ConnectionBreaks \/ SessionRemoved \/ SyncConnects \/ SyncSetsInterval \/ AdminLowers

Next == Receive \/ Scheduled \/ World \/ Tick

Spec == Init /\ [][Next]_vars

\* The event loop, the thread of sync_to_async and the admin's thread run what
\* is due, and time passes.
FairSpec == Spec /\ WF_vars(Scheduled) /\ WF_vars(Tick)

-----------------------------------------------------------------------------
(* Properties *)

TypeOK ==
    /\ listed \in BOOLEAN /\ working \in BOOLEAN
    /\ interval \in {0, Interval} /\ age \in Ages
    /\ pending \in Seq(Messages)
    /\ \A i, j \in DOMAIN pending : action[pending[i]] = action[pending[j]] => i = j
    /\ handle \in Messages \cup {NoTimer}
    /\ received \in 0..MaxMessages /\ action \in [Messages -> Actions]
    /\ consumer \in {"idle", "batch", "before", "direct"} /\ retrying \in BOOLEAN
    /\ timer \in [Messages -> Ages \cup {Off}]
    /\ batch \in [Batches -> [at : {"off", "task", "sending", "sent", "failed"},
                              left : Seq(Messages), ago : Ages]]
    /\ outbox \in Seq([by : Batches, message : Messages]) /\ back \in Seq(Batches)
    /\ mishaps \in 0..MaxMishaps
    /\ sent \in Seq(Messages) /\ forgone \subseteq Messages
    /\ lowered \in BOOLEAN /\ stranded \in BOOLEAN

\* However batches overlap, the remote does not get an older message of an
\* action after a newer one, unless an admin turned the interval off (that
\* flush runs in a thread of its own, beside the consumer's sends), or a payload
\* has gone out twice: then three batches overlap, since a batch that forgets
\* the handle lets a second timer start, and the last one's old copy can follow
\* what the others sent.
NewestLast ==
    \/ lowered
    \/ \A i, j \in DOMAIN sent :
          i < j /\ action[sent[i]] = action[sent[j]] /\ sent[j] < sent[i] =>
             \E k, l \in 1..(j - 1) : k < l /\ sent[k] = sent[l]

\* A message is only given up for a newer one of its action or with its
\* session: it was sent, is pending, or is in the consumer's hands.
KeepsLatest ==
    \A m \in (1..received) \ forgone : \E n \in m..received :
        /\ action[n] = action[m]
        /\ \/ n \in Range(sent) \cup Range(pending)
           \/ n = received /\ consumer # "idle"
           \/ stranded

\* What is pending on a working session has a timer or a batch that will see
\* it, though every batch forgets the handle and every failed one gives up.
BufferedHasFlush ==
    pending # <<>> /\ working /\ ~stranded =>
        \/ \E m \in Messages : timer[m] # Off \/ batch[m].at = "task"
        \/ \A m \in Range(pending) : \E b \in Batches : m \in Range(batch[b].left)

\* A message goes out, or a newer one of its action does, even if no further
\* message arrives: unless the connection breaks, or the session is given up.
Forwarded ==
    \A m \in Messages :
        received >= m ~> \/ \E n \in Range(sent) : n >= m /\ action[n] = action[m]
                         \/ m \in forgone \/ stranded \/ ~working
=============================================================================
