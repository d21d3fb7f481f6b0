--------------------------- MODULE ForwardedCalls ---------------------------
(***************************************************************************)
(* Commands a remote CSMS sends to one of our chargers through a           *)
(* forwarding session, and the replies on their way back                   *)
(* (apps/ocpp/forwarder, apps/ocpp/consumers/csms/transport.py).           *)
(*                                                                         *)
(* For one charger there is at most one session in Forwarder._sessions,    *)
(* but several threads replace and remove it:                              *)
(*   - syncing threads (a connecting charger's, an admin request's);       *)
(*   - the consumer, when forwarding one of the charger's messages fails;  *)
(*   - the keepalive thread and the tasks that forward replies;            *)
(*   - each session's own listener thread, when its connection breaks.     *)
(* A thread works on the session object it once looked up, which need not  *)
(* be the current one any more.  One action is one stretch between two     *)
(* points where another thread or coroutine may run.                       *)
(***************************************************************************)
EXTENDS Sequences

CONSTANTS
    Sessions,   \* ForwardingSession objects, each made at most once
    NoSession,  \* not a session
    Commands,   \* message ids the remote chooses, each used once
    NoCommand,  \* not a command
    Syncers     \* threads in sync_forwarded_charge_points

ASSUME ConstantsAssumption ==
    /\ NoSession \notin Sessions
    /\ NoCommand \notin Commands

VARIABLES
    \* the forwarder's table and its session objects
    current,    \* _sessions[charger_pk]
    made,       \* sessions created so far
    connected,  \* sessions whose connection.connected is true
    broken,     \* sessions whose socket fails, noticed or not
    ids,        \* pending_call_ids of each session
    \* threads
    listener,   \* where each session's listener is
    got,        \* the command a listener has read
    syncing,    \* where each syncing thread is
    sender, senderSession,  \* the consumer forwarding a message, its session
    keeper,     \* the session the keepalive thread looks at
    task, via,  \* the reply of each command: where it is, the session taken
    \* the store and the charger
    registered, \* forwarded commands in pending_calls
    charger,    \* the charger's websocket: "up" or "down"
    clearing,   \* a disconnect() of the charger's consumer is due
    atCharger,  \* commands the charger has not answered
    replies,    \* replies the consumer has not read
    \* the remote
    asked,      \* the session each command was sent over
    unread,     \* commands no listener has read
    \* history, read by no action's guard
    given,      \* commands the charger received
    answers,    \* what the remote was sent for each command
    inTime      \* commands whose id was in its session when the reply was read

tableVars == <<current, made, connected, broken>>
threadVars == <<syncing, sender, senderSession, keeper>>
listenVars == <<listener, got>>
taskVars == <<task, via>>
chargerVars == <<charger, clearing, atCharger, replies>>
remoteVars == <<asked, unread>>
vars == <<tableVars, threadVars, listenVars, taskVars, chargerVars, remoteVars,
          ids, registered, given, answers, inTime>>

Maybe == Sessions \cup {NoSession}
Working(s) == s \in connected \ broken

-----------------------------------------------------------------------------
(* The table *)

\* remove_session: whatever session is current is popped and closed.
RemoveCurrent ==
    /\ current' = NoSession
    /\ connected' = connected \ {current}
    /\ UNCHANGED <<made, broken>>

\* connect_forwarding_session: the new session replaces the current one, which
\* is not closed, and gets a listener.
Install(s) ==
    /\ s \notin made
    /\ current' = s
    /\ made' = made \cup {s}
    /\ connected' = connected \cup {s}
    /\ listener' = [listener EXCEPT ![s] = "check"]
    /\ UNCHANGED <<broken, got>>

-----------------------------------------------------------------------------
(* sync_forwarded_charge_points, for this charger *)

\* The charger is not forwarded any more, or back to this node.
SyncPrune(y) ==
    /\ syncing[y] = "idle"
    /\ RemoveCurrent
    /\ UNCHANGED <<threadVars, listenVars, taskVars, chargerVars, remoteVars,
                   ids, registered, given, answers, inTime>>

\* A connected session to the right node is kept; one to another node is
\* replaced without being removed.
SyncLook(y) ==
    /\ syncing[y] = "idle"
    /\ \E next \in {"connect"} \cup
                   IF current = NoSession \/ current \in connected THEN {} ELSE {"drop"} :
          syncing' = [syncing EXCEPT ![y] = next]
    /\ UNCHANGED <<tableVars, sender, senderSession, keeper, listenVars, taskVars,
                   chargerVars, remoteVars, ids, registered, given, answers, inTime>>

SyncDrop(y) ==
    /\ syncing[y] = "drop"
    /\ RemoveCurrent
    /\ syncing' = [syncing EXCEPT ![y] = "connect"]
    /\ UNCHANGED <<sender, senderSession, keeper, listenVars, taskVars, chargerVars,
                   remoteVars, ids, registered, given, answers, inTime>>

SyncConnect(y) ==
    /\ syncing[y] = "connect"
    /\ \/ \E s \in Sessions : Install(s)
       \/ UNCHANGED <<tableVars, listenVars>>     \* every URL failed
    /\ syncing' = [syncing EXCEPT ![y] = "idle"]
    /\ UNCHANGED <<sender, senderSession, keeper, taskVars, chargerVars, remoteVars,
                   ids, registered, given, answers, inTime>>

-----------------------------------------------------------------------------
(* The consumer forwarding a message of the charger, and keepalive *)

SendLook ==
    /\ sender = "idle"
    /\ current \in connected
    /\ sender' = "send"
    /\ senderSession' = current
    /\ UNCHANGED <<tableVars, syncing, keeper, listenVars, taskVars, chargerVars,
                   remoteVars, ids, registered, given, answers, inTime>>

\* The message goes out on the session looked up before, even if it was replaced.
SendWorks ==
    /\ sender \in {"send", "resend"}
    /\ Working(senderSession)
    /\ sender' = "idle"
    /\ senderSession' = NoSession
    /\ UNCHANGED <<tableVars, syncing, keeper, listenVars, taskVars, chargerVars,
                   remoteVars, ids, registered, given, answers, inTime>>

\* A failed send removes the current session; the first time, one reconnects.
SendFails ==
    /\ sender \in {"send", "resend"}
    /\ ~Working(senderSession)
    /\ RemoveCurrent
    /\ sender' = IF sender = "send" THEN "connect" ELSE "idle"
    /\ senderSession' = NoSession
    /\ UNCHANGED <<syncing, keeper, listenVars, taskVars, chargerVars, remoteVars,
                   ids, registered, given, answers, inTime>>

Reconnect ==
    /\ sender = "connect"
    /\ \/ \E s \in Sessions :
             Install(s) /\ sender' = "resend" /\ senderSession' = s
       \/ /\ sender' = "idle"
          /\ UNCHANGED <<tableVars, listenVars, senderSession>>
    /\ UNCHANGED <<syncing, keeper, taskVars, chargerVars, remoteVars, ids,
                   registered, given, answers, inTime>>

KeepLook ==
    /\ keeper = NoSession
    /\ current # NoSession
    /\ keeper' = current
    /\ UNCHANGED <<tableVars, syncing, sender, senderSession, listenVars, taskVars,
                   chargerVars, remoteVars, ids, registered, given, answers, inTime>>

\* A session of the snapshot that is closed, or cannot be pinged, costs the
\* charger its current session, which may be a newer one.
KeepCheck ==
    /\ keeper # NoSession
    /\ IF Working(keeper) THEN UNCHANGED tableVars ELSE RemoveCurrent
    /\ keeper' = NoSession
    /\ UNCHANGED <<syncing, sender, senderSession, listenVars, taskVars, chargerVars,
                   remoteVars, ids, registered, given, answers, inTime>>

-----------------------------------------------------------------------------
(* _listen_forwarding_session *)

ListenGoto(s, where) == listener' = [listener EXCEPT ![s] = where]

\* The thread ends when its session is not the current one or not connected.
MayListen(s) == current = s /\ s \in connected

ListenCheck(s) ==
    /\ listener[s] = "check"
    /\ ListenGoto(s, IF MayListen(s) THEN "recv" ELSE "done")
    /\ UNCHANGED <<tableVars, threadVars, got, taskVars, chargerVars, remoteVars,
                   ids, registered, given, answers, inTime>>

ListenRead(s) ==
    /\ listener[s] = "recv"
    /\ Working(s)
    /\ \E m \in unread :
          /\ asked[m] = s
          /\ unread' = unread \ {m}
          /\ got' = [got EXCEPT ![s] = m]
    /\ ListenGoto(s, "judge")
    /\ UNCHANGED <<tableVars, threadVars, taskVars, chargerVars, asked, ids,
                   registered, given, answers, inTime>>

ListenTimeout(s) ==
    /\ listener[s] = "recv"
    /\ Working(s)
    /\ ListenGoto(s, "check")
    /\ UNCHANGED <<tableVars, threadVars, got, taskVars, chargerVars, remoteVars,
                   ids, registered, given, answers, inTime>>

\* recv raises; the library may have marked the connection closed by then.
ListenBreaks(s) ==
    /\ listener[s] = "recv"
    /\ ~Working(s)
    /\ connected' \in {connected, connected \ {s}}
    /\ ListenGoto(s, "fails")
    /\ UNCHANGED <<current, made, broken, threadVars, got, taskVars, chargerVars,
                   remoteVars, ids, registered, given, answers, inTime>>

\* The session is dropped from the table only if it is still its own.
ListenDrops(s) ==
    /\ listener[s] = "fails"
    /\ current' = IF current = s THEN NoSession ELSE current
    /\ connected' = connected \ {s}
    /\ ListenGoto(s, "done")
    /\ UNCHANGED <<made, broken, threadVars, got, taskVars, chargerVars, remoteVars,
                   ids, registered, given, answers, inTime>>

\* The policy forbids the command, or the charger is not connected.
ListenRefuses(s) ==
    /\ listener[s] = "judge"
    /\ ListenGoto(s, "refuse")
    /\ UNCHANGED <<tableVars, threadVars, got, taskVars, chargerVars, remoteVars,
                   ids, registered, given, answers, inTime>>

\* The charger's row is gone: the command is passed over in silence.
ListenIgnores(s) ==
    /\ listener[s] = "judge"
    /\ got' = [got EXCEPT ![s] = NoCommand]
    /\ ListenGoto(s, "check")
    /\ UNCHANGED <<tableVars, threadVars, taskVars, chargerVars, remoteVars,
                   ids, registered, given, answers, inTime>>

ListenRegisters(s) ==
    /\ listener[s] = "judge"
    /\ charger = "up"
    /\ registered' = registered \cup {got[s]}
    /\ ListenGoto(s, "send")
    /\ UNCHANGED <<tableVars, threadVars, got, taskVars, chargerVars, remoteVars,
                   ids, given, answers, inTime>>

ListenSends(s) ==
    /\ listener[s] = "send"
    /\ atCharger' = atCharger \cup {got[s]}
    /\ given' = given \cup {got[s]}
    /\ ListenGoto(s, "note")
    /\ UNCHANGED <<tableVars, threadVars, got, taskVars, charger, clearing, replies,
                   remoteVars, ids, registered, answers, inTime>>

\* The websocket found before is gone: the send raises and the call is taken
\* back, or the server drops the frame in silence.
ListenRollsBack(s) ==
    /\ listener[s] = "gone"
    /\ registered' = registered \ {got[s]}
    /\ ListenGoto(s, "refuse")
    /\ UNCHANGED <<tableVars, threadVars, got, taskVars, chargerVars, remoteVars,
                   ids, given, answers, inTime>>

ListenLoses(s) ==
    /\ listener[s] = "gone"
    /\ ListenGoto(s, "note")
    /\ UNCHANGED <<tableVars, threadVars, got, taskVars, chargerVars, remoteVars,
                   ids, registered, given, answers, inTime>>

\* Mutant: the session is looked up again.
AnswerOverCurrent(s, m, kind) ==
    answers' = IF Working(s)
               THEN [answers EXCEPT ![m] = Append(@, [kind |-> kind, via |-> current])]
               ELSE answers
\* What the remote is sent; a socket that fails swallows it.
AnswerOver(s, m, kind) ==
    answers' = IF Working(s)
               THEN [answers EXCEPT ![m] = Append(@, [kind |-> kind, via |-> s])]
               ELSE answers

\* The error to the remote; a failure to send it is only logged.
ListenAnswersError(s) ==
    /\ listener[s] = "refuse"
    /\ AnswerOver(s, got[s], "error")
    /\ got' = [got EXCEPT ![s] = NoCommand]
    /\ ListenGoto(s, "check")
    /\ UNCHANGED <<tableVars, threadVars, taskVars, chargerVars, remoteVars, ids,
                   registered, given, inTime>>

\* pending_call_ids gets the id after the send.
ListenNotes(s) ==
    /\ listener[s] = "note"
    /\ ids' = [ids EXCEPT ![s] = @ \cup {got[s]}]
    /\ got' = [got EXCEPT ![s] = NoCommand]
    /\ ListenGoto(s, "check")
    /\ UNCHANGED <<tableVars, threadVars, taskVars, chargerVars, remoteVars,
                   registered, given, answers, inTime>>

-----------------------------------------------------------------------------
(* The consumer and the tasks that forward replies *)

\* _handle_call_result and _handle_call_error: no pending call, no reply.
ConsumerTakes(m) ==
    /\ m \in replies
    /\ replies' = replies \ {m}
    /\ registered' = registered \ {m}
    /\ task' = [task EXCEPT ![m] = IF m \in registered THEN "handling" ELSE @]
    /\ inTime' = IF m \in ids[asked[m]] THEN inTime \cup {m} ELSE inTime
    /\ UNCHANGED <<tableVars, threadVars, listenVars, via, charger, clearing,
                   atCharger, remoteVars, ids, given, answers>>

\* _dispatch_forward_reply, after the action's handler.
CreateTask(m) ==
    /\ task[m] = "handling"
    /\ task' = [task EXCEPT ![m] = "queued"]
    /\ UNCHANGED <<tableVars, threadVars, listenVars, via, chargerVars, remoteVars,
                   ids, registered, given, answers, inTime>>

\* The handler raises, or 32 other replies are being forwarded: no task is made.
DropReply(m) ==
    /\ task[m] = "handling"
    /\ task' = [task EXCEPT ![m] = "dropped"]
    /\ UNCHANGED <<tableVars, threadVars, listenVars, via, chargerVars, remoteVars,
                   ids, registered, given, answers, inTime>>

\* Mutant: any connected session will do.
BelongsToAny(m, s) == s \in connected
\* Mutant: the call must still be pending.
BelongsToCall(m, s) == s \in connected /\ m \in ids[s] /\ m \in registered
\* _forward_charge_point_reply_legacy up to its first await after get_session:
\* the reply belongs to the current session, if that one sent the command.
BelongsTo(m, s) == s \in connected /\ m \in ids[s]

TaskTakesId(m) ==
    /\ task[m] = "queued"
    /\ BelongsTo(m, current)
    /\ ids' = [ids EXCEPT ![current] = @ \ {m}]
    /\ via' = [via EXCEPT ![m] = current]
    /\ task' = [task EXCEPT ![m] = "sending"]
    /\ UNCHANGED <<tableVars, threadVars, listenVars, chargerVars, remoteVars,
                   registered, given, answers, inTime>>

TaskFindsNoId(m) ==
    /\ task[m] = "queued"
    /\ ~BelongsTo(m, current)
    /\ task' = [task EXCEPT ![m] = "over"]
    /\ UNCHANGED <<tableVars, threadVars, listenVars, via, chargerVars, remoteVars,
                   ids, registered, given, answers, inTime>>

\* A failed send removes whatever session is current by then.
TaskSends(m) ==
    /\ task[m] = "sending"
    /\ AnswerOver(via[m], m, "reply")
    /\ IF Working(via[m]) THEN UNCHANGED tableVars ELSE RemoveCurrent
    /\ task' = [task EXCEPT ![m] = "over"]
    /\ UNCHANGED <<threadVars, listenVars, via, chargerVars, remoteVars, ids,
                   registered, given, inTime>>

-----------------------------------------------------------------------------
(* The remote, the charger and the network *)

RemoteAsks(m, s) ==
    /\ asked[m] = NoSession
    /\ s \in made /\ Working(s)
    /\ asked' = [asked EXCEPT ![m] = s]
    /\ unread' = unread \cup {m}
    /\ UNCHANGED <<tableVars, threadVars, listenVars, taskVars, chargerVars, ids,
                   registered, given, answers, inTime>>

SocketBreaks(s) ==
    /\ Working(s)
    /\ broken' = broken \cup {s}
    /\ UNCHANGED <<current, made, connected, threadVars, listenVars, taskVars,
                   chargerVars, remoteVars, ids, registered, given, answers, inTime>>

ChargerReplies(m) ==
    /\ m \in atCharger
    /\ atCharger' = atCharger \ {m}
    /\ replies' = replies \cup {m}
    /\ UNCHANGED <<tableVars, threadVars, listenVars, taskVars, charger, clearing,
                   remoteVars, ids, registered, given, answers, inTime>>

\* What was on its way to or from the charger is lost.
ChargerLeaves ==
    /\ charger = "up"
    /\ charger' = "down" /\ clearing' = TRUE
    /\ atCharger' = {} /\ replies' = {}
    /\ listener' = [s \in Sessions |-> IF listener[s] = "send" THEN "gone" ELSE listener[s]]
    /\ UNCHANGED <<tableVars, threadVars, got, taskVars, remoteVars, ids,
                   registered, given, answers, inTime>>

ChargerReturns ==
    /\ charger = "down"
    /\ charger' = "up"
    /\ UNCHANGED <<tableVars, threadVars, listenVars, taskVars, clearing, atCharger,
                   replies, remoteVars, ids, registered, given, answers, inTime>>

\* disconnect() of the charger's consumer clears its pending calls, late perhaps.
ClearPending ==
    /\ clearing
    /\ clearing' = FALSE
    /\ registered' = {}
    /\ UNCHANGED <<tableVars, threadVars, listenVars, taskVars, charger, atCharger,
                   replies, remoteVars, ids, given, answers, inTime>>

-----------------------------------------------------------------------------
Init ==
    /\ current = NoSession
    /\ made = {} /\ connected = {} /\ broken = {}
    /\ ids = [s \in Sessions |-> {}]
    /\ listener = [s \in Sessions |-> "none"]
    /\ got = [s \in Sessions |-> NoCommand]
    /\ syncing = [y \in Syncers |-> "idle"]
    /\ sender = "idle" /\ senderSession = NoSession
    /\ keeper = NoSession
    /\ task = [m \in Commands |-> "none"]
    /\ via = [m \in Commands |-> NoSession]
    /\ registered = {}
    /\ charger = "up" /\ clearing = FALSE
    /\ atCharger = {} /\ replies = {}
    /\ asked = [m \in Commands |-> NoSession]
    /\ unread = {} /\ given = {} /\ inTime = {}
    /\ answers = [m \in Commands |-> <<>>]

ListenerStep(s) ==
    \/ ListenCheck(s) \/ ListenRead(s) \/ ListenTimeout(s)
    \/ ListenBreaks(s) \/ ListenDrops(s)
    \/ ListenRefuses(s) \/ ListenIgnores(s) \/ ListenRegisters(s)
    \/ ListenSends(s) \/ ListenRollsBack(s) \/ ListenLoses(s)
    \/ ListenAnswersError(s) \/ ListenNotes(s)

ReplyStep(m) ==
    \/ ConsumerTakes(m) \/ CreateTask(m) \/ DropReply(m)
    \/ TaskTakesId(m) \/ TaskFindsNoId(m) \/ TaskSends(m)

SyncStep(y) == SyncPrune(y) \/ SyncLook(y) \/ SyncDrop(y) \/ SyncConnect(y)

ThreadStep ==
    SendLook \/ SendWorks \/ SendFails \/ Reconnect \/ KeepLook \/ KeepCheck

WorldStep ==
    \/ \E m \in Commands, s \in Sessions : RemoteAsks(m, s)
    \/ \E s \in Sessions : SocketBreaks(s)
    \/ \E m \in Commands : ChargerReplies(m)
    \/ ChargerLeaves \/ ChargerReturns \/ ClearPending

Next ==
    \/ \E s \in Sessions : ListenerStep(s)
    \/ \E m \in Commands : ReplyStep(m)
    \/ \E y \in Syncers : SyncStep(y)
    \/ ThreadStep
    \/ WorldStep

Spec == Init /\ [][Next]_vars

-----------------------------------------------------------------------------
(* Properties *)

TypeOK ==
    /\ current \in Maybe
    /\ made \subseteq Sessions /\ connected \subseteq made /\ broken \subseteq made
    /\ ids \in [Sessions -> SUBSET Commands]
    /\ listener \in [Sessions -> {"none", "check", "recv", "fails", "judge", "send", "gone",
                                  "note", "refuse", "done"}]
    /\ got \in [Sessions -> Commands \cup {NoCommand}]
    /\ syncing \in [Syncers -> {"idle", "drop", "connect"}]
    /\ sender \in {"idle", "send", "connect", "resend"}
    /\ senderSession \in Maybe /\ keeper \in Maybe
    /\ task \in [Commands -> {"none", "handling", "queued", "sending", "over", "dropped"}]
    /\ via \in [Commands -> Maybe]
    /\ registered \subseteq Commands
    /\ charger \in {"up", "down"} /\ clearing \in BOOLEAN
    /\ atCharger \subseteq Commands /\ replies \subseteq Commands
    /\ asked \in [Commands -> Maybe]
    /\ unread \subseteq Commands /\ given \subseteq Commands /\ inTime \subseteq Commands
    /\ answers \in [Commands -> Seq([kind : {"reply", "error"}, via : Sessions])]

\* A command of the remote reaches the charger once and is answered once, over
\* the session it came by: with the reply if the charger got it, and with an
\* error only if it never will, however sessions are replaced meanwhile.
Promise == INSTANCE RelayPromise
KeepsRelayPromise == Promise!Spec

\* pending_call_ids.add comes after the send; a reply read before it finds no
\* id.  But a reply whose id was noted when it was read is forwarded, as long
\* as its session stays current and a task was made for it.
NotedRepliesForwarded ==
    \A m \in inTime :
        task[m] = "over" /\ asked[m] = current /\ Working(current)
            => answers[m] # <<>>
=============================================================================
