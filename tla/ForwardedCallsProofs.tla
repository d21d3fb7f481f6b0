------------------------ MODULE ForwardedCallsProofs ------------------------
(***************************************************************************)
(* Proofs about ForwardedCalls, for any numbers of sessions, commands and  *)
(* syncing threads: type correctness, the promise to the remote, and that  *)
(* replies noted in time are forwarded.                                    *)
(***************************************************************************)
EXTENDS ForwardedCalls, TLAPS

-----------------------------------------------------------------------------
(* The inductive invariant *)

Busy == {"judge", "send", "gone", "note", "refuse"}

\* A listener at work holds a command of its own session that nobody else has,
\* and until it has sent it the charger does not know it.
HeldInv ==
    \A s \in Sessions :
        /\ listener[s] \in Busy <=> got[s] # NoCommand
        /\ got[s] # NoCommand => /\ asked[got[s]] = s
                                 /\ got[s] \notin unread
                                 /\ answers[got[s]] = <<>>
        /\ listener[s] \in Busy \ {"note"} => got[s] \notin given
        /\ s \notin made => listener[s] = "none"

\* An id waits in the session the command came by, and only for an answer.
IdsInv ==
    \A s \in Sessions : \A m \in ids[s] :
        /\ asked[m] = s
        /\ got[s] # m
        /\ m \notin unread
        /\ answers[m] = <<>>

\* A task about to send took the id away from the session it came by.
TaskInv ==
    \A m \in Commands :
        task[m] = "sending" => /\ via[m] = asked[m] /\ asked[m] # NoSession
                               /\ answers[m] = <<>>
                               /\ m \notin ids[asked[m]]
                               /\ got[asked[m]] # m
                               /\ m \notin unread

AskedInv ==
    \A m \in Commands :
        /\ asked[m] = NoSession => m \notin given /\ answers[m] = <<>>
        /\ m \in unread => asked[m] # NoSession /\ m \notin given /\ answers[m] = <<>>
        /\ m \notin given => /\ m \notin atCharger /\ m \notin replies
                             /\ m \notin inTime /\ task[m] = "none"

RelayInv == TypeOK /\ HeldInv /\ IdsInv /\ TaskInv /\ AskedInv

LEMMA InitRelay == Init => RelayInv
  <1> SUFFICES ASSUME Init PROVE RelayInv
    OBVIOUS
  <1>1. answers \in [Commands -> Seq([kind : {"reply", "error"}, via : Sessions])]
    BY DEF Init
  <1>2. TypeOK
    BY <1>1, ConstantsAssumption DEF Init, TypeOK, Maybe
  <1>3. HeldInv /\ IdsInv /\ TaskInv /\ AskedInv
    BY ConstantsAssumption DEF Init, HeldInv, IdsInv, TaskInv, AskedInv, Busy
  <1> QED
    BY <1>2, <1>3 DEF RelayInv

\* Steps on the table alone.
LEMMA TableStep ==
  ASSUME RelayInv,
         \/ RemoveCurrent /\ UNCHANGED listenVars
         \/ \E s \in Sessions : Install(s)
         \/ UNCHANGED <<tableVars, listenVars>>,
         UNCHANGED <<taskVars, chargerVars, remoteVars, ids, registered, given,
                     answers, inTime>>,
         syncing' \in [Syncers -> {"idle", "drop", "connect"}],
         sender' \in {"idle", "send", "connect", "resend"},
         senderSession' \in Maybe, keeper' \in Maybe
  PROVE  RelayInv'
  <1>1. TypeOK'
    <2>1. CASE RemoveCurrent /\ UNCHANGED listenVars
      BY <2>1 DEF RelayInv, RemoveCurrent, TypeOK, Maybe, listenVars, taskVars,
                  chargerVars, remoteVars
    <2>2. CASE \E s \in Sessions : Install(s)
      BY <2>2 DEF RelayInv, Install, TypeOK, Maybe, listenVars, taskVars,
                  chargerVars, remoteVars
    <2>3. CASE UNCHANGED <<tableVars, listenVars>>
      BY <2>3 DEF RelayInv, TypeOK, Maybe, tableVars, listenVars, taskVars,
                  chargerVars, remoteVars
    <2> QED
      BY <2>1, <2>2, <2>3
  <1>2. HeldInv'
    <2>1. CASE UNCHANGED <<made, listenVars>>
      BY <2>1 DEF RelayInv, HeldInv, listenVars, remoteVars
    <2>2. CASE \E s \in Sessions : Install(s)
      BY <2>2 DEF RelayInv, TypeOK, HeldInv, Install, Busy, remoteVars
    <2> QED
      BY <2>1, <2>2 DEF RemoveCurrent, tableVars, listenVars
  <1>3. IdsInv'
    BY DEF RelayInv, TypeOK, IdsInv, Install, listenVars, remoteVars
  <1>4. TaskInv'
    BY DEF RelayInv, TypeOK, TaskInv, Install, listenVars, taskVars, remoteVars
  <1>5. AskedInv'
    BY DEF RelayInv, AskedInv, chargerVars, remoteVars, taskVars
  <1> QED
    BY <1>1, <1>2, <1>3, <1>4, <1>5 DEF RelayInv

LEMMA SyncRelay ==
  ASSUME RelayInv, NEW y \in Syncers, SyncStep(y)
  PROVE  RelayInv'
  <1>1. CASE SyncPrune(y)
    BY <1>1, TableStep DEF SyncPrune, threadVars, RelayInv, TypeOK
  <1>2. CASE SyncLook(y)
    BY <1>2, TableStep DEF SyncLook, RelayInv, TypeOK
  <1>3. CASE SyncDrop(y)
    BY <1>3, TableStep DEF SyncDrop, RelayInv, TypeOK
  <1>4. CASE SyncConnect(y)
    BY <1>4, TableStep DEF SyncConnect, RelayInv, TypeOK
  <1> QED
    BY <1>1, <1>2, <1>3, <1>4 DEF SyncStep

LEMMA ThreadRelay ==
  ASSUME RelayInv, ThreadStep
  PROVE  RelayInv'
  <1>1. CASE SendLook
    BY <1>1, TableStep DEF SendLook, RelayInv, TypeOK, Maybe
  <1>2. CASE SendWorks
    BY <1>2, TableStep DEF SendWorks, RelayInv, TypeOK, Maybe
  <1>3. CASE SendFails
    BY <1>3, TableStep DEF SendFails, RelayInv, TypeOK, Maybe
  <1>4. CASE Reconnect
    BY <1>4, TableStep DEF Reconnect, RelayInv, TypeOK, Maybe
  <1>5. CASE KeepLook
    BY <1>5, TableStep DEF KeepLook, RelayInv, TypeOK, Maybe
  <1>6. CASE KeepCheck
    BY <1>6, TableStep DEF KeepCheck, RelayInv, TypeOK, Maybe
  <1> QED
    BY <1>1, <1>2, <1>3, <1>4, <1>5, <1>6 DEF ThreadStep

LEMMA ListenerRelay ==
  ASSUME RelayInv, NEW s \in Sessions, ListenerStep(s)
  PROVE  RelayInv'
  <1> USE DEF RelayInv, ListenGoto, Working, RemoveCurrent, tableVars, threadVars, listenVars, taskVars, chargerVars, remoteVars
  <1>1. CASE ListenCheck(s)
    <2>1. TypeOK'
      BY <1>1 DEF ListenCheck, MayListen, TypeOK, Maybe
    <2>2. HeldInv'
      BY <1>1 DEF ListenCheck, MayListen, TypeOK, HeldInv, IdsInv, TaskInv, AskedInv, Busy
    <2>3. IdsInv' /\ TaskInv' /\ AskedInv'
      BY <1>1 DEF ListenCheck, MayListen, TypeOK, HeldInv, IdsInv, TaskInv, AskedInv, Busy
    <2> QED
      BY <2>1, <2>2, <2>3
  <1>2. CASE ListenRead(s)
    <2>1. TypeOK'
      BY <1>2 DEF ListenRead, TypeOK, Maybe
    <2>2. HeldInv'
      BY <1>2, ConstantsAssumption DEF ListenRead, TypeOK, HeldInv, IdsInv, TaskInv, AskedInv, Busy
    <2>3. IdsInv' /\ TaskInv' /\ AskedInv'
      BY <1>2, ConstantsAssumption DEF ListenRead, TypeOK, HeldInv, IdsInv, TaskInv, AskedInv, Busy
    <2> QED
      BY <2>1, <2>2, <2>3
  <1>3. CASE ListenTimeout(s)
    <2>1. TypeOK'
      BY <1>3 DEF ListenTimeout, TypeOK, Maybe
    <2>2. HeldInv'
      BY <1>3 DEF ListenTimeout, TypeOK, HeldInv, IdsInv, TaskInv, AskedInv, Busy
    <2>3. IdsInv' /\ TaskInv' /\ AskedInv'
      BY <1>3 DEF ListenTimeout, TypeOK, HeldInv, IdsInv, TaskInv, AskedInv, Busy
    <2> QED
      BY <2>1, <2>2, <2>3
  <1>4. CASE ListenBreaks(s)
    <2>1. TypeOK'
      BY <1>4 DEF ListenBreaks, TypeOK, Maybe
    <2>2. HeldInv'
      BY <1>4 DEF ListenBreaks, TypeOK, HeldInv, IdsInv, TaskInv, AskedInv, Busy
    <2>3. IdsInv' /\ TaskInv' /\ AskedInv'
      BY <1>4 DEF ListenBreaks, TypeOK, HeldInv, IdsInv, TaskInv, AskedInv, Busy
    <2> QED
      BY <2>1, <2>2, <2>3
  <1>13. CASE ListenDrops(s)
    <2>1. TypeOK'
      BY <1>13 DEF ListenDrops, TypeOK, Maybe
    <2>2. HeldInv'
      BY <1>13 DEF ListenDrops, TypeOK, HeldInv, IdsInv, TaskInv, AskedInv, Busy
    <2>3. IdsInv' /\ TaskInv' /\ AskedInv'
      BY <1>13 DEF ListenDrops, TypeOK, HeldInv, IdsInv, TaskInv, AskedInv, Busy
    <2> QED
      BY <2>1, <2>2, <2>3
  <1>5. CASE ListenRefuses(s)
    <2>1. TypeOK'
      BY <1>5 DEF ListenRefuses, TypeOK, Maybe
    <2>2. HeldInv'
      BY <1>5 DEF ListenRefuses, TypeOK, HeldInv, IdsInv, TaskInv, AskedInv, Busy
    <2>3. IdsInv' /\ TaskInv' /\ AskedInv'
      BY <1>5 DEF ListenRefuses, TypeOK, HeldInv, IdsInv, TaskInv, AskedInv, Busy
    <2> QED
      BY <2>1, <2>2, <2>3
  <1>6. CASE ListenIgnores(s)
    <2>1. TypeOK'
      BY <1>6 DEF ListenIgnores, TypeOK, Maybe
    <2>2. HeldInv'
      BY <1>6, ConstantsAssumption DEF ListenIgnores, TypeOK, HeldInv, IdsInv, TaskInv, AskedInv, Busy
    <2>3. IdsInv' /\ TaskInv' /\ AskedInv'
      BY <1>6, ConstantsAssumption DEF ListenIgnores, TypeOK, HeldInv, IdsInv, TaskInv, AskedInv, Busy
    <2> QED
      BY <2>1, <2>2, <2>3
  <1>7. CASE ListenRegisters(s)
    <2>1. TypeOK'
      BY <1>7 DEF ListenRegisters, TypeOK, Maybe, HeldInv, Busy
    <2>2. HeldInv'
      BY <1>7 DEF ListenRegisters, TypeOK, HeldInv, IdsInv, TaskInv, AskedInv, Busy
    <2>3. IdsInv' /\ TaskInv' /\ AskedInv'
      BY <1>7 DEF ListenRegisters, TypeOK, HeldInv, IdsInv, TaskInv, AskedInv, Busy
    <2> QED
      BY <2>1, <2>2, <2>3
  <1>8. CASE ListenSends(s)
    <2>1. TypeOK'
      BY <1>8 DEF ListenSends, TypeOK, Maybe, HeldInv, Busy
    <2>2. HeldInv'
      BY <1>8 DEF ListenSends, TypeOK, HeldInv, IdsInv, TaskInv, AskedInv, Busy
    <2>3. IdsInv'
      BY <1>8 DEF ListenSends, TypeOK, IdsInv
    <2>4. TaskInv'
      BY <1>8 DEF ListenSends, TypeOK, TaskInv
    <2>5. AskedInv'
      BY <1>8, ConstantsAssumption DEF ListenSends, TypeOK, HeldInv, AskedInv, Busy
    <2> QED
      BY <2>1, <2>2, <2>3, <2>4, <2>5
  <1>9. CASE ListenRollsBack(s)
    <2>1. TypeOK'
      BY <1>9 DEF ListenRollsBack, TypeOK, Maybe
    <2>2. HeldInv'
      BY <1>9 DEF ListenRollsBack, TypeOK, HeldInv, IdsInv, TaskInv, AskedInv, Busy
    <2>3. IdsInv' /\ TaskInv' /\ AskedInv'
      BY <1>9 DEF ListenRollsBack, TypeOK, HeldInv, IdsInv, TaskInv, AskedInv, Busy
    <2> QED
      BY <2>1, <2>2, <2>3
  <1>10. CASE ListenLoses(s)
    <2>1. TypeOK'
      BY <1>10 DEF ListenLoses, TypeOK, Maybe
    <2>2. HeldInv'
      BY <1>10 DEF ListenLoses, TypeOK, HeldInv, IdsInv, TaskInv, AskedInv, Busy
    <2>3. IdsInv' /\ TaskInv' /\ AskedInv'
      BY <1>10 DEF ListenLoses, TypeOK, HeldInv, IdsInv, TaskInv, AskedInv, Busy
    <2> QED
      BY <2>1, <2>2, <2>3
  <1>11. CASE ListenAnswersError(s)
    <2>1. TypeOK'
      BY <1>11 DEF ListenAnswersError, AnswerOver, TypeOK, Maybe, HeldInv, Busy
    <2>2. HeldInv'
      BY <1>11, ConstantsAssumption DEF ListenAnswersError, AnswerOver, TypeOK, HeldInv, IdsInv, TaskInv, AskedInv, Busy
    <2>3. IdsInv' /\ TaskInv' /\ AskedInv'
      BY <1>11, ConstantsAssumption DEF ListenAnswersError, AnswerOver, TypeOK, HeldInv, IdsInv, TaskInv, AskedInv, Busy
    <2> QED
      BY <2>1, <2>2, <2>3
  <1>12. CASE ListenNotes(s)
    <2>1. TypeOK'
      BY <1>12 DEF ListenNotes, TypeOK, Maybe, HeldInv, Busy
    <2>2. HeldInv'
      BY <1>12, ConstantsAssumption DEF ListenNotes, TypeOK, HeldInv, IdsInv, TaskInv, AskedInv, Busy
    <2>3. IdsInv' /\ TaskInv' /\ AskedInv'
      BY <1>12, ConstantsAssumption DEF ListenNotes, TypeOK, HeldInv, IdsInv, TaskInv, AskedInv, Busy
    <2> QED
      BY <2>1, <2>2, <2>3
  <1> QED
    BY <1>1, <1>2, <1>3, <1>4, <1>5, <1>6, <1>7, <1>8, <1>9, <1>10, <1>11, <1>12, <1>13
    DEF ListenerStep

LEMMA ReplyRelay ==
  ASSUME RelayInv, NEW m \in Commands, ReplyStep(m)
  PROVE  RelayInv'
  <1> USE DEF RelayInv, ListenGoto, Working, RemoveCurrent, tableVars, threadVars, listenVars, taskVars, chargerVars, remoteVars
  <1>1. CASE ConsumerTakes(m)
    <2>1. TypeOK'
      BY <1>1 DEF ConsumerTakes, TypeOK, Maybe
    <2>2. HeldInv'
      BY <1>1 DEF ConsumerTakes, TypeOK, HeldInv, IdsInv, TaskInv, AskedInv, Busy
    <2>3. IdsInv' /\ TaskInv' /\ AskedInv'
      BY <1>1 DEF ConsumerTakes, TypeOK, HeldInv, IdsInv, TaskInv, AskedInv, Busy
    <2> QED
      BY <2>1, <2>2, <2>3
  <1>2. CASE CreateTask(m)
    <2>1. TypeOK'
      BY <1>2 DEF CreateTask, TypeOK, Maybe
    <2>2. HeldInv'
      BY <1>2 DEF CreateTask, TypeOK, HeldInv, IdsInv, TaskInv, AskedInv, Busy
    <2>3. IdsInv' /\ TaskInv' /\ AskedInv'
      BY <1>2 DEF CreateTask, TypeOK, HeldInv, IdsInv, TaskInv, AskedInv, Busy
    <2> QED
      BY <2>1, <2>2, <2>3
  <1>3. CASE DropReply(m)
    <2>1. TypeOK'
      BY <1>3 DEF DropReply, TypeOK, Maybe
    <2>2. HeldInv'
      BY <1>3 DEF DropReply, TypeOK, HeldInv, IdsInv, TaskInv, AskedInv, Busy
    <2>3. IdsInv' /\ TaskInv' /\ AskedInv'
      BY <1>3 DEF DropReply, TypeOK, HeldInv, IdsInv, TaskInv, AskedInv, Busy
    <2> QED
      BY <2>1, <2>2, <2>3
  <1>4. CASE TaskTakesId(m)
    <2>1. TypeOK'
      BY <1>4 DEF TaskTakesId, BelongsTo, TypeOK, Maybe
    <2>2. HeldInv'
      BY <1>4, ConstantsAssumption DEF TaskTakesId, BelongsTo, TypeOK, HeldInv, IdsInv, TaskInv, AskedInv, Busy
    <2>3. IdsInv' /\ TaskInv' /\ AskedInv'
      BY <1>4, ConstantsAssumption DEF TaskTakesId, BelongsTo, TypeOK, HeldInv, IdsInv, TaskInv, AskedInv, Busy
    <2> QED
      BY <2>1, <2>2, <2>3
  <1>5. CASE TaskFindsNoId(m)
    <2>1. TypeOK'
      BY <1>5 DEF TaskFindsNoId, TypeOK, Maybe
    <2>2. HeldInv'
      BY <1>5 DEF TaskFindsNoId, TypeOK, HeldInv, IdsInv, TaskInv, AskedInv, Busy
    <2>3. IdsInv' /\ TaskInv' /\ AskedInv'
      BY <1>5 DEF TaskFindsNoId, TypeOK, HeldInv, IdsInv, TaskInv, AskedInv, Busy
    <2> QED
      BY <2>1, <2>2, <2>3
  <1>6. CASE TaskSends(m)
    <2>0. via[m] \in Sessions
      BY <1>6 DEF TaskSends, TypeOK, Maybe, TaskInv
    <2>1. TypeOK'
      <3>1. answers' \in [Commands -> Seq([kind : {"reply", "error"}, via : Sessions])]
        <4> DEFINE A == [kind : {"reply", "error"}, via : Sessions]
                   a == [kind |-> "reply", via |-> via[m]]
        <4>1. a \in A /\ answers[m] \in Seq(A)
          BY <2>0 DEF TypeOK
        <4>2. Append(answers[m], a) \in Seq(A)
          BY <4>1
        <4>3. answers' = answers \/ answers' = [answers EXCEPT ![m] = Append(answers[m], a)]
          BY <1>6 DEF TaskSends, AnswerOver
        <4> HIDE DEF A, a
        <4>4. answers \in [Commands -> Seq(A)]
          BY DEF TypeOK, A
        <4>5. answers' \in [Commands -> Seq(A)]
          BY <4>2, <4>3, <4>4
        <4> QED
          BY <4>5 DEF A
      <3> QED
        BY <1>6, <3>1 DEF TaskSends, TypeOK, Maybe
    <2>2. HeldInv'
      BY <1>6, ConstantsAssumption DEF TaskSends, AnswerOver, TypeOK, HeldInv, IdsInv, TaskInv, AskedInv, Busy
    <2>3. IdsInv' /\ TaskInv' /\ AskedInv'
      BY <1>6, ConstantsAssumption DEF TaskSends, AnswerOver, TypeOK, HeldInv, IdsInv, TaskInv, AskedInv, Busy
    <2> QED
      BY <2>1, <2>2, <2>3
  <1> QED
    BY <1>1, <1>2, <1>3, <1>4, <1>5, <1>6 DEF ReplyStep

LEMMA WorldRelay ==
  ASSUME RelayInv, WorldStep
  PROVE  RelayInv'
  <1> USE DEF RelayInv, Working, tableVars, threadVars, listenVars, taskVars, chargerVars, remoteVars
  <1>1. CASE \E m \in Commands, s \in Sessions : RemoteAsks(m, s)
    <2>1. TypeOK'
      <3>1. asked' \in [Commands -> Maybe]
        BY <1>1 DEF RemoteAsks, TypeOK, Maybe
      <3>2. unread' \subseteq Commands
        BY <1>1 DEF RemoteAsks, TypeOK
      <3> QED
        BY <1>1, <3>1, <3>2 DEF RemoteAsks, TypeOK
    <2>2. HeldInv'
      BY <1>1, ConstantsAssumption DEF RemoteAsks, TypeOK, HeldInv, AskedInv, Busy
    <2>3. IdsInv'
      BY <1>1, ConstantsAssumption DEF RemoteAsks, TypeOK, IdsInv, AskedInv
    <2>4. TaskInv'
      BY <1>1 DEF RemoteAsks, TypeOK, TaskInv, AskedInv
    <2>5. AskedInv'
      BY <1>1, ConstantsAssumption DEF RemoteAsks, TypeOK, AskedInv
    <2> QED
      BY <2>1, <2>2, <2>3, <2>4, <2>5
  <1>2. CASE \E s \in Sessions : SocketBreaks(s)
    <2>1. TypeOK'
      BY <1>2 DEF SocketBreaks, TypeOK, Maybe
    <2>2. HeldInv'
      BY <1>2 DEF SocketBreaks, TypeOK, HeldInv, AskedInv, Busy
    <2>3. IdsInv'
      BY <1>2 DEF SocketBreaks, TypeOK, IdsInv, AskedInv
    <2>4. TaskInv'
      BY <1>2 DEF SocketBreaks, TypeOK, TaskInv, AskedInv
    <2>5. AskedInv'
      BY <1>2 DEF SocketBreaks, TypeOK, AskedInv
    <2> QED
      BY <2>1, <2>2, <2>3, <2>4, <2>5
  <1>3. CASE \E m \in Commands : ChargerReplies(m)
    <2>1. TypeOK'
      BY <1>3 DEF ChargerReplies, TypeOK, Maybe
    <2>2. HeldInv'
      BY <1>3 DEF ChargerReplies, TypeOK, HeldInv, AskedInv, Busy
    <2>3. IdsInv'
      BY <1>3 DEF ChargerReplies, TypeOK, IdsInv, AskedInv
    <2>4. TaskInv'
      BY <1>3 DEF ChargerReplies, TypeOK, TaskInv, AskedInv
    <2>5. AskedInv'
      BY <1>3 DEF ChargerReplies, TypeOK, AskedInv
    <2> QED
      BY <2>1, <2>2, <2>3, <2>4, <2>5
  <1>4. CASE ChargerLeaves
    <2>1. TypeOK'
      BY <1>4 DEF ChargerLeaves, TypeOK, Maybe
    <2>2. HeldInv'
      BY <1>4 DEF ChargerLeaves, TypeOK, HeldInv, AskedInv, Busy
    <2>3. IdsInv'
      BY <1>4 DEF ChargerLeaves, TypeOK, IdsInv, AskedInv
    <2>4. TaskInv'
      BY <1>4 DEF ChargerLeaves, TypeOK, TaskInv, AskedInv
    <2>5. AskedInv'
      BY <1>4 DEF ChargerLeaves, TypeOK, AskedInv
    <2> QED
      BY <2>1, <2>2, <2>3, <2>4, <2>5
  <1>5. CASE ChargerReturns
    <2>1. TypeOK'
      BY <1>5 DEF ChargerReturns, TypeOK, Maybe
    <2>2. HeldInv'
      BY <1>5 DEF ChargerReturns, TypeOK, HeldInv, AskedInv, Busy
    <2>3. IdsInv'
      BY <1>5 DEF ChargerReturns, TypeOK, IdsInv, AskedInv
    <2>4. TaskInv'
      BY <1>5 DEF ChargerReturns, TypeOK, TaskInv, AskedInv
    <2>5. AskedInv'
      BY <1>5 DEF ChargerReturns, TypeOK, AskedInv
    <2> QED
      BY <2>1, <2>2, <2>3, <2>4, <2>5
  <1>6. CASE ClearPending
    <2>1. TypeOK'
      BY <1>6 DEF ClearPending, TypeOK, Maybe
    <2>2. HeldInv'
      BY <1>6 DEF ClearPending, TypeOK, HeldInv, AskedInv, Busy
    <2>3. IdsInv'
      BY <1>6 DEF ClearPending, TypeOK, IdsInv, AskedInv
    <2>4. TaskInv'
      BY <1>6 DEF ClearPending, TypeOK, TaskInv, AskedInv
    <2>5. AskedInv'
      BY <1>6 DEF ClearPending, TypeOK, AskedInv
    <2> QED
      BY <2>1, <2>2, <2>3, <2>4, <2>5
  <1> QED
    BY <1>1, <1>2, <1>3, <1>4, <1>5, <1>6 DEF WorldStep

LEMMA StutterRelay ==
  ASSUME RelayInv, UNCHANGED vars
  PROVE  RelayInv'
  <1> USE DEF RelayInv, vars, tableVars, threadVars, listenVars, taskVars, chargerVars, remoteVars
  <1>1. TypeOK'
    BY DEF TypeOK
  <1>2. HeldInv' /\ IdsInv'
    BY DEF HeldInv, IdsInv
  <1>3. TaskInv' /\ AskedInv'
    BY DEF TaskInv, AskedInv
  <1> QED
    BY <1>1, <1>2, <1>3

LEMMA Relay == Spec => []RelayInv
  <1>1. RelayInv /\ [Next]_vars => RelayInv'
    BY SyncRelay, ThreadRelay, ListenerRelay, ReplyRelay, WorldRelay, StutterRelay DEF Next
  <1> QED
    BY InitRelay, <1>1, PTL DEF Spec

\* Every variable keeps to its type.
THEOREM RelayTypes == Spec => []TypeOK
  <1>1. RelayInv => TypeOK
    BY DEF RelayInv
  <1> QED
    BY Relay, <1>1, PTL

-----------------------------------------------------------------------------
(* The promise to the remote *)

\* What the promise speaks of.
promised == <<asked, given, answers>>

LEMMA InitPromise == Init => Promise!Init
  BY DEF Init, Promise!Init

\* An answer sent or swallowed is one the promise allows.
LEMMA AnswerIsPromised ==
  ASSUME NEW s \in Sessions, NEW m \in Commands, NEW kind,
         AnswerOver(s, m, kind), UNCHANGED <<asked, given>>,
         asked[m] = s, answers[m] = <<>>,
         kind = IF m \in given THEN "reply" ELSE "error"
  PROVE  [Promise!Next]_promised
  <1>1. CASE Working(s)
    <2>1. answers' = [answers EXCEPT ![m] = <<[kind |-> kind, via |-> s]>>]
      BY <1>1 DEF AnswerOver
    <2>2. Promise!Answer(m)
      BY <2>1, ConstantsAssumption DEF Promise!Answer
    <2> QED
      BY <2>2 DEF Promise!Next
  <1>2. CASE ~Working(s)
    BY <1>2 DEF AnswerOver, promised
  <1> QED
    BY <1>1, <1>2

LEMMA ListenerKeepsPromise ==
  ASSUME RelayInv, NEW s \in Sessions, ListenerStep(s)
  PROVE  [Promise!Next]_promised
  <1>1. CASE ListenSends(s)
    <2>1. got[s] \in Commands /\ asked[got[s]] = s /\ answers[got[s]] = <<>> /\ got[s] \notin given
      BY <1>1 DEF ListenSends, RelayInv, TypeOK, HeldInv, Busy
    <2>2. Promise!Give(got[s])
      BY <1>1, <2>1, ConstantsAssumption DEF ListenSends, Promise!Give, remoteVars
    <2> QED
      BY <2>1, <2>2 DEF Promise!Next
  <1>2. CASE ListenAnswersError(s)
    <2>1. got[s] \in Commands /\ asked[got[s]] = s /\ answers[got[s]] = <<>> /\ got[s] \notin given
      BY <1>2 DEF ListenAnswersError, RelayInv, TypeOK, HeldInv, Busy
    <2>2. AnswerOver(s, got[s], "error") /\ UNCHANGED <<asked, given>>
      BY <1>2 DEF ListenAnswersError, remoteVars
    <2> QED
      BY <2>1, <2>2, AnswerIsPromised
  <1>3. CASE ~ListenSends(s) /\ ~ListenAnswersError(s)
    BY <1>3 DEF ListenerStep, ListenCheck, ListenRead, ListenTimeout, ListenBreaks,
                ListenDrops, ListenRefuses, ListenIgnores, ListenRegisters, ListenRollsBack,
                ListenLoses, ListenNotes, remoteVars, promised
  <1> QED
    BY <1>1, <1>2, <1>3

\* A reply is handled, so the charger got the command.
LEMMA ReplyKeepsPromise ==
  ASSUME RelayInv, NEW m \in Commands, ReplyStep(m)
  PROVE  [Promise!Next]_promised
  <1>1. CASE TaskSends(m)
    <2>1. /\ via[m] = asked[m] /\ asked[m] \in Sessions
          /\ answers[m] = <<>> /\ m \in given
      BY <1>1 DEF TaskSends, RelayInv, TypeOK, Maybe, TaskInv, AskedInv
    <2>2. AnswerOver(asked[m], m, "reply") /\ UNCHANGED <<asked, given>>
      BY <1>1, <2>1 DEF TaskSends, remoteVars
    <2> QED
      BY <2>1, <2>2, AnswerIsPromised
  <1>2. CASE ~TaskSends(m)
    BY <1>2 DEF ReplyStep, ConsumerTakes, CreateTask, DropReply, TaskTakesId,
                TaskFindsNoId, remoteVars, promised
  <1> QED
    BY <1>1, <1>2

LEMMA ThreadsKeepPromise ==
  ASSUME RelayInv, ThreadStep \/ \E y \in Syncers : SyncStep(y)
  PROVE  UNCHANGED promised
  BY DEF ThreadStep, SyncStep, SyncPrune, SyncLook, SyncDrop, SyncConnect, SendLook,
         SendWorks, SendFails, Reconnect, KeepLook, KeepCheck, remoteVars, promised

LEMMA WorldKeepsPromise ==
  ASSUME RelayInv, WorldStep
  PROVE  [Promise!Next]_promised
  <1>1. CASE \E m \in Commands, s \in Sessions : RemoteAsks(m, s)
    <2>1. PICK m \in Commands, s \in Sessions : RemoteAsks(m, s)
      BY <1>1
    <2>2. Promise!Ask(m, s)
      BY <2>1 DEF RemoteAsks, Promise!Ask
    <2> QED
      BY <2>2 DEF Promise!Next
  <1>2. CASE ~\E m \in Commands, s \in Sessions : RemoteAsks(m, s)
    BY <1>2 DEF WorldStep, SocketBreaks, ChargerReplies, ChargerLeaves, ChargerReturns,
                ClearPending, remoteVars, promised
  <1> QED
    BY <1>1, <1>2

\* A command of the remote reaches the charger at most once and is answered at
\* most once, by the session it came by, with the reply exactly if the charger
\* got it: whatever threads replace, remove or break the charger's sessions.
THEOREM RelayPromiseKept == Spec => KeepsRelayPromise
  <1>1. RelayInv /\ [Next]_vars => [Promise!Next]_promised
    <2> SUFFICES ASSUME RelayInv, [Next]_vars PROVE [Promise!Next]_promised
      OBVIOUS
    <2>1. CASE UNCHANGED vars
      BY <2>1 DEF vars, remoteVars, promised
    <2>2. CASE Next
      BY <2>2, ListenerKeepsPromise, ReplyKeepsPromise, ThreadsKeepPromise,
         WorldKeepsPromise DEF Next
    <2> QED
      BY <2>1, <2>2
  <1>2. RelayInv /\ [Next]_vars => [Promise!Next]_Promise!vars
    BY <1>1 DEF promised, Promise!vars
  <1> QED
    BY InitPromise, Relay, <1>2, PTL DEF Spec, KeepsRelayPromise, Promise!Spec

-----------------------------------------------------------------------------
(* Replies noted in time *)

\* A charger's reply is read once, and until its task takes the id nothing else
\* does.  A replaced session never comes back: sessions are made once.
NotedInv ==
    /\ \A m \in Commands :
          /\ asked[m] # NoSession => asked[m] \in made
          /\ m \in atCharger \cup replies => task[m] = "none" /\ m \notin inTime
          /\ m \in atCharger => m \notin replies
          /\ m \in inTime /\ task[m] \in {"handling", "queued"} => m \in ids[asked[m]]
    /\ NotedRepliesForwarded

LEMMA InitNoted == Init => NotedInv
  BY DEF Init, NotedInv, NotedRepliesForwarded

\* Steps that only replace, remove or break sessions: the current session can
\* become one that no command came by, and a session never works again.
LEMMA TableNoted ==
  ASSUME RelayInv, NotedInv,
         \/ UNCHANGED <<current, made>> /\ connected' \subseteq connected /\ broken \subseteq broken'
         \/ \E s \in Sessions : /\ s \notin made /\ current' = s /\ made' = made \cup {s}
         \/ current' = NoSession /\ connected' \subseteq connected /\ UNCHANGED made,
         NoSession \notin connected',
         UNCHANGED <<asked, atCharger, replies, task, inTime, answers>>,
         \A m \in Commands : asked[m] # NoSession /\ m \in ids[asked[m]] => m \in ids'[asked[m]]
  PROVE  NotedInv'
  BY ConstantsAssumption
  DEF RelayInv, AskedInv, TypeOK, Maybe, NotedInv, NotedRepliesForwarded, Working

LEMMA ThreadsNoted ==
  ASSUME RelayInv, NotedInv, RelayInv', ThreadStep \/ \E y \in Syncers : SyncStep(y)
  PROVE  NotedInv'
  <1>1. NoSession \notin connected'
    BY ConstantsAssumption DEF RelayInv, TypeOK
  <1>2. UNCHANGED <<asked, atCharger, replies, task, inTime, answers, ids>>
    BY DEF ThreadStep, SyncStep, SyncPrune, SyncLook, SyncDrop, SyncConnect, SendLook,
           SendWorks, SendFails, Reconnect, KeepLook, KeepCheck, remoteVars, taskVars,
           chargerVars
  <1>3. \/ RemoveCurrent
        \/ \E s \in Sessions : Install(s)
        \/ UNCHANGED tableVars
    BY DEF ThreadStep, SyncStep, SyncPrune, SyncLook, SyncDrop, SyncConnect, SendLook,
           SendWorks, SendFails, Reconnect, KeepLook, KeepCheck
  <1> QED
    BY <1>1, <1>2, <1>3, TableNoted DEF RemoveCurrent, Install, tableVars

LEMMA ListenerNoted ==
  ASSUME RelayInv, NotedInv, RelayInv', NEW s \in Sessions, ListenerStep(s)
  PROVE  NotedInv'
  <1> USE DEF tableVars, remoteVars, taskVars, chargerVars
  <1>1. NoSession \notin connected'
    BY ConstantsAssumption DEF RelayInv, TypeOK
  <1>2. CASE ListenSends(s)
    <2>1. got[s] \in Commands /\ got[s] \notin given
      BY <1>2 DEF ListenSends, RelayInv, TypeOK, HeldInv, Busy
    <2>2. got[s] \notin atCharger /\ got[s] \notin replies /\ got[s] \notin inTime
          /\ task[got[s]] = "none"
      BY <2>1 DEF RelayInv, AskedInv
    <2> QED
      BY <1>2, <2>1, <2>2 DEF ListenSends, NotedInv, NotedRepliesForwarded, Working
  <1>3. CASE ListenAnswersError(s)
    <2>1. got[s] \in Commands /\ got[s] \notin given
      BY <1>3 DEF ListenAnswersError, RelayInv, TypeOK, HeldInv, Busy
    <2>2. got[s] \notin inTime
      BY <2>1 DEF RelayInv, AskedInv
    <2>3. \A m \in inTime : answers'[m] = answers[m]
      BY <1>3, <2>2 DEF ListenAnswersError, AnswerOver, RelayInv, TypeOK
    <2> QED
      BY <1>3, <2>3 DEF ListenAnswersError, NotedInv, NotedRepliesForwarded, Working,
                        RelayInv, TypeOK
  <1>4. CASE ~ListenSends(s) /\ ~ListenAnswersError(s)
    <2>1. \A m \in Commands :
             asked[m] # NoSession /\ m \in ids[asked[m]] => m \in ids'[asked[m]]
      <3>1. CASE ListenNotes(s)
        BY <3>1 DEF ListenNotes, RelayInv, TypeOK, Maybe
      <3>2. CASE ~ListenNotes(s)
        BY <1>4, <3>2 DEF ListenerStep, ListenCheck, ListenRead, ListenTimeout,
                  ListenBreaks, ListenDrops, ListenRefuses, ListenIgnores, ListenRegisters,
                  ListenRollsBack, ListenLoses
      <3> QED
        BY <3>1, <3>2
    <2>2. UNCHANGED <<asked, atCharger, replies, task, inTime, answers>>
      BY <1>4 DEF ListenerStep, ListenCheck, ListenRead, ListenTimeout, ListenBreaks,
                  ListenDrops, ListenRefuses, ListenIgnores, ListenRegisters, ListenRollsBack,
                  ListenLoses, ListenNotes
    <2>3. CASE ListenBreaks(s) \/ ListenDrops(s)
      BY <1>1, <2>1, <2>2, <2>3, TableNoted DEF ListenBreaks, ListenDrops
    <2>4. CASE ~ListenBreaks(s) /\ ~ListenDrops(s)
      <3>1. UNCHANGED <<current, made, connected, broken>>
        BY <1>4, <2>4 DEF ListenerStep, ListenCheck, ListenRead, ListenTimeout,
                  ListenRefuses, ListenIgnores, ListenRegisters, ListenRollsBack,
                  ListenLoses, ListenNotes
      <3> QED
        BY <1>1, <2>1, <2>2, <3>1, TableNoted
    <2> QED
      BY <2>3, <2>4
  <1> QED
    BY <1>2, <1>3, <1>4

LEMMA ReplyNoted ==
  ASSUME RelayInv, NotedInv, RelayInv', NEW m \in Commands, ReplyStep(m)
  PROVE  NotedInv'
  <1> USE DEF tableVars, remoteVars, taskVars, chargerVars, NotedInv, NotedRepliesForwarded,
              Working, RelayInv, TypeOK, Maybe
  <1>1. CASE ConsumerTakes(m)
    BY <1>1 DEF ConsumerTakes
  <1>2. CASE CreateTask(m)
    BY <1>2 DEF CreateTask
  <1>3. CASE DropReply(m)
    BY <1>3 DEF DropReply
  <1>4. CASE TaskTakesId(m)
    <2>1. asked[m] = current /\ current \in Sessions
      BY <1>4, ConstantsAssumption DEF TaskTakesId, BelongsTo, IdsInv
    <2>2. \A n \in Commands : n # m /\ n \in ids[asked[n]] => n \in ids'[asked[n]]
      BY <1>4 DEF TaskTakesId
    <2> QED
      BY <1>4, <2>1, <2>2 DEF TaskTakesId
  <1>5. CASE TaskFindsNoId(m)
    BY <1>5 DEF TaskFindsNoId, BelongsTo
  <1>6. CASE TaskSends(m)
    <2>1. via[m] = asked[m] /\ asked[m] \in Sessions /\ answers[m] = <<>>
      BY <1>6 DEF TaskSends, TaskInv
    <2>2. CASE Working(via[m])
      <3>1. answers'[m] # <<>>
        BY <1>6, <2>1, <2>2 DEF TaskSends, AnswerOver
      <3>2. \A n \in Commands : n # m => answers'[n] = answers[n]
        BY <1>6, <2>2 DEF TaskSends, AnswerOver
      <3> QED
        BY <1>6, <2>2, <3>1, <3>2 DEF TaskSends
    <2>3. CASE ~Working(via[m])
      BY <1>6, <2>1, <2>3, ConstantsAssumption DEF TaskSends, AnswerOver, RemoveCurrent
    <2> QED
      BY <2>2, <2>3
  <1> QED
    BY <1>1, <1>2, <1>3, <1>4, <1>5, <1>6 DEF ReplyStep

LEMMA WorldNoted ==
  ASSUME RelayInv, NotedInv, RelayInv', WorldStep
  PROVE  NotedInv'
  <1> USE DEF tableVars, remoteVars, taskVars, chargerVars, NotedInv, NotedRepliesForwarded,
              Working, RelayInv, TypeOK, Maybe
  <1>1. CASE \E m \in Commands, s \in Sessions : RemoteAsks(m, s)
    <2>1. PICK m \in Commands, s \in Sessions : RemoteAsks(m, s)
      BY <1>1
    <2>2. m \notin atCharger /\ m \notin replies /\ m \notin inTime /\ task[m] = "none"
      BY <2>1 DEF RemoteAsks, AskedInv
    <2> QED
      BY <2>1, <2>2 DEF RemoteAsks
  <1>2. CASE \E s \in Sessions : SocketBreaks(s)
    BY <1>2 DEF SocketBreaks
  <1>3. CASE \E m \in Commands : ChargerReplies(m)
    BY <1>3 DEF ChargerReplies
  <1>4. CASE ChargerLeaves
    BY <1>4 DEF ChargerLeaves
  <1>5. CASE ChargerReturns
    BY <1>5 DEF ChargerReturns
  <1>6. CASE ClearPending
    BY <1>6 DEF ClearPending
  <1> QED
    BY <1>1, <1>2, <1>3, <1>4, <1>5, <1>6 DEF WorldStep

\* A reply whose id the listener had noted when the reply was read is sent to
\* the remote if a task was made for it and its session is still the current,
\* working one when the task is over; losing the race against
\* pending_call_ids.add is the only way to lose it there.
THEOREM NotedForwarded == Spec => []NotedRepliesForwarded
  <1>1. RelayInv /\ NotedInv /\ RelayInv' /\ [Next]_vars => NotedInv'
    <2> SUFFICES ASSUME RelayInv, NotedInv, RelayInv', [Next]_vars PROVE NotedInv'
      OBVIOUS
    <2>1. CASE UNCHANGED vars
      BY <2>1 DEF vars, tableVars, remoteVars, taskVars, chargerVars, NotedInv,
                  NotedRepliesForwarded, Working
    <2>2. CASE Next
      BY <2>2, ThreadsNoted, ListenerNoted, ReplyNoted, WorldNoted DEF Next
    <2> QED
      BY <2>1, <2>2
  <1>2. NotedInv => NotedRepliesForwarded
    BY DEF NotedInv
  <1> QED
    BY InitNoted, Relay, <1>1, <1>2, PTL DEF Spec
=============================================================================
