-------------------------- MODULE PendingCallsProofs --------------------------
(***************************************************************************)
(* Theorems about PendingCalls, for every set of calls and chargers.       *)
(***************************************************************************)
EXTENDS PendingCalls, TLAPS

USE DEF callerVars, memoryVars, timerVars, redisVars, handlerVars, restoreVars,
        linkVars, messageVars, historyVars, loopVars, worldVars

\* Deleting keys leaves the mirror well typed and adds nothing to it.
LEMMA ClearShrinks ==
    ASSUME NEW S \in SUBSET Calls, meta \subseteq Calls,
           saved \in [Calls -> Outcomes], ClearPendingRedis(S)
    PROVE  /\ meta' \subseteq meta
           /\ saved' \in [Calls -> Outcomes]
           /\ \A m \in Calls : saved'[m] # "none" => saved'[m] = saved[m]
  <1>1. PICK gone \in RedisRemovable(S) :
          \E both \in RedisRemovable(gone) :
            /\ meta' = meta \ gone
            /\ saved' = [m \in Calls |-> IF m \in both THEN "none" ELSE saved[m]]
        BY DEF ClearPendingRedis
  <1>2. PICK both \in RedisRemovable(gone) :
            /\ meta' = meta \ gone
            /\ saved' = [m \in Calls |-> IF m \in both THEN "none" ELSE saved[m]]
        BY <1>1
  <1> QED BY <1>2 DEF Outcomes

\* A write leaves the old value or the new one.
LEMMA WriteIsOldOrNew ==
    ASSUME NEW old, NEW new, NEW x \in RedisWrite(old, new)
    PROVE  x = old \/ x = new
  BY DEF RedisWrite

-----------------------------------------------------------------------------
(* Type correctness *)

LEMMA InitTypeOK == ASSUME ConstantsAssumption, Init PROVE TypeOK
  BY DEF ConstantsAssumption, Init, TypeOK, Kinds, Outcomes, Jobs, NoJob,
         CallerStates, HandlerStates, Replies

LEMMA CallerTypeOK ==
    ASSUME ConstantsAssumption, TypeOK, NEW m \in Calls, CallerStep(m)
    PROVE  TypeOK'
  <1> USE DEF TypeOK, CallerStates
  <1>1. CASE Send(m) BY <1>1 DEF Send, Goto
  <1>2. CASE Register(m)
        BY <1>2 DEF Register, Goto, RegisterInMemory, DropHandles, Outcomes
  <1>3. CASE MirrorCall(m)
    <2>1. meta' \subseteq Calls BY <1>3, WriteIsOldOrNew DEF MirrorCall
    <2> QED BY <1>3, <2>1 DEF MirrorCall, Goto
  <1>4. CASE ForwardSend(m) BY <1>4 DEF ForwardSend, Goto
  <1>5. CASE ForwardRollback(m)
        BY <1>5 DEF ForwardRollback, Goto, PopInMemory, DropHandles
  <1>6. CASE ForwardUnmirror(m)
    <2>1. meta' \subseteq Calls /\ saved' \in [Calls -> Outcomes]
          BY <1>6, ClearShrinks DEF ForwardUnmirror
    <2> QED BY <1>6, <2>1 DEF ForwardUnmirror, Goto
  <1>7. CASE ScheduleTimeout(m) BY <1>7 DEF ScheduleTimeout, Goto
  <1>8. CASE StoreHandle(m) BY <1>8 DEF StoreHandle, Goto
  <1>9. CASE AbandonHandle(m) BY <1>9 DEF AbandonHandle, Goto
  <1>10. CASE SkipWait(m) BY <1>10 DEF SkipWait
  <1>11. CASE StartWait(m)
    <2>1. CASE results[m] # "none"
      <3>1. results[m] \in Kinds BY <2>1 DEF Outcomes
      <3>2. /\ pc' = [pc EXCEPT ![m] = "done"]
            /\ told' = [told EXCEPT ![m] = results[m]]
            /\ held' = [held EXCEPT ![m] = 0]
            /\ results' = [results EXCEPT ![m] = "none"]
            BY <1>11, <2>1 DEF StartWait, Tell
      <3>3. results' \in [Calls -> Outcomes] BY <3>2 DEF Outcomes
      <3> QED BY <1>11, <3>1, <3>2, <3>3 DEF StartWait
    <2>2. CASE results[m] = "none"
      <3>1. /\ pc' = [pc EXCEPT ![m] = IF event[m] = 0 THEN "lookup" ELSE "waiting"]
            /\ held' = [held EXCEPT ![m] = event[m]]
            /\ UNCHANGED <<told, results>>
            BY <1>11, <2>2 DEF StartWait
      <3>2. pc' \in [Calls -> CallerStates] /\ held' \in [Calls -> Nat] BY <3>1
      <3> QED BY <1>11, <3>1, <3>2 DEF StartWait
    <2> QED BY <2>1, <2>2
  <1>12. CASE Collect(m) BY <1>12 DEF Collect, Tell, Outcomes
  <1>13. CASE WaitExpires(m) BY <1>13 DEF WaitExpires, Goto
  <1>14. CASE LookUpSaved(m)
    <2>1. meta' \subseteq Calls /\ saved' \in [Calls -> Outcomes]
          BY <1>14, ClearShrinks DEF LookUpSaved
    <2>2. /\ pc' = [pc EXCEPT ![m] = "done"]
          /\ told' \in [Calls -> Kinds \cup {"nothing", "noReply"}]
          /\ held' = [held EXCEPT ![m] = 0]
          BY <1>14 DEF LookUpSaved, Tell, Outcomes
    <2> QED BY <1>14, <2>1, <2>2 DEF LookUpSaved
  <1> QED BY <1>1, <1>2, <1>3, <1>4, <1>5, <1>6, <1>7, <1>8, <1>9, <1>10, <1>11,
             <1>12, <1>13, <1>14 DEF CallerStep

LEMMA TimerTypeOK ==
    ASSUME ConstantsAssumption, TypeOK, NEW m \in Calls, TimerStep(m)
    PROVE  TypeOK'
  <1>1. CASE ArmTimer(m) BY <1>1 DEF TypeOK, ArmTimer
  <1>2. CASE FireTimer(m) BY <1>2 DEF TypeOK, FireTimer, NoticeDue
  <1>3. CASE CancelTimer(m) BY <1>3 DEF TypeOK, CancelTimer
  <1> QED BY <1>1, <1>2, <1>3 DEF TimerStep

LEMMA RestoreTypeOK ==
    ASSUME ConstantsAssumption, TypeOK, NEW m \in Calls, RestoreStep(m)
    PROVE  TypeOK'
  <1>1. CASE RestoreRead(m) BY <1>1 DEF TypeOK, RestoreRead
  <1>2. CASE RestoreRegister(m)
    <2>1. CASE AlreadyPending(m)
      BY <1>2, <2>1 DEF TypeOK, RestoreRegister
    <2>2. CASE ~AlreadyPending(m)
      <3>1. /\ rstep' = "mirror" /\ RegisterInMemory(m)
            /\ UNCHANGED <<rcall, isSet, timer, callerVars, redisVars, handlerVars, rtodo>>
            /\ UNCHANGED worldVars
        BY <1>2, <2>2 DEF RestoreRegister
      <3> QED BY <3>1 DEF TypeOK, RegisterInMemory, DropHandles, Outcomes
    <2> QED BY <2>1, <2>2
  <1>3. CASE RestoreMirror(m)
    <2>1. meta' \subseteq Calls BY <1>3, WriteIsOldOrNew DEF RestoreMirror, TypeOK
    <2> QED BY <1>3, <2>1 DEF TypeOK, RestoreMirror
  <1> QED BY <1>1, <1>2, <1>3 DEF RestoreStep

\* A consumer that is not idle has a call and a reply in hand.
HasJob(c) == step[c] # "idle" => job[c].call \in Calls /\ job[c].kind \in Kinds

LEMMA HandlerTypeOK ==
    ASSUME ConstantsAssumption, TypeOK, NEW c \in Chargers, HasJob(c), HandlerStep(c)
    PROVE  TypeOK'
  <1> DEFINE m == job[c].call
  <1> USE DEF TypeOK, HandlerStates
  <1>0. step[c] # "idle" /\ m \in Calls /\ job[c].kind \in Kinds
        BY DEF HandlerStep, Resolve, Record, WakeCaller, SaveResult, DispatchRaises, HasJob
  <1>n. NoJob \in Jobs BY DEF NoJob, Jobs, Outcomes
  <1> HIDE DEF m
  <1>1. CASE Resolve(c)
    <2>1. meta' \subseteq Calls /\ saved' \in [Calls -> Outcomes]
          BY <1>0, <1>1, ClearShrinks DEF Resolve, m
    <2>2. /\ step' \in [Chargers -> HandlerStates]
          /\ job' \in [Chargers -> Jobs]
          BY <1>1, <1>n DEF Resolve
    <2> QED BY <1>1, <2>1, <2>2 DEF Resolve
  <1>2. CASE Record(c)
    <2>1. job' \in [Chargers -> Jobs]
          BY <1>0, <1>2 DEF Record, Jobs, Outcomes, m
    <2> QED BY <1>0, <1>2, <2>1 DEF Record, DropHandles, Outcomes, m
  <1>3. CASE WakeCaller(c)
    <2>1. job[c].event \in Nat BY DEF Jobs
    <2> QED BY <1>3, <2>1 DEF WakeCaller
  <1>4. CASE SaveResult(c)
    <2>1. saved' \in [Calls -> Outcomes]
      <3>1. saved' = saved \/ saved' = [saved EXCEPT ![m] = job[c].kind]
            BY <1>4, WriteIsOldOrNew DEF SaveResult, m
      <3>2. saved \in [Calls -> Outcomes] /\ job[c].kind \in Outcomes
            BY <1>0 DEF Outcomes
      <3> QED BY <1>0, <3>1, <3>2
    <2> QED BY <1>4, <1>n, <2>1 DEF SaveResult
  <1>5. CASE DispatchRaises(c) BY <1>5, <1>n DEF DispatchRaises
  <1>6. \/ Resolve(c) \/ Record(c) \/ WakeCaller(c) \/ SaveResult(c) \/ DispatchRaises(c)
        BY DEF HandlerStep
  <1> QED BY <1>1, <1>2, <1>3, <1>4, <1>5, <1>6, Zenon

LEMMA ClearTypeOK ==
    ASSUME ConstantsAssumption, TypeOK, NEW c \in Chargers, ClearPendingCalls(c)
    PROVE  /\ pending' \subseteq Calls /\ noticed' \subseteq Calls
           /\ event' \in [Calls -> Nat] /\ made' \in [Calls -> Nat]
           /\ isSet' \in [Calls -> SUBSET Nat]
           /\ results' \in [Calls -> Outcomes]
           /\ handles' \subseteq Calls /\ cancelling' \subseteq Calls
           /\ meta' \subseteq Calls /\ saved' \in [Calls -> Outcomes]
  <1> DEFINE gone == {m \in pending : Owner[m] = c}
  <1>1. gone \in SUBSET Calls BY DEF TypeOK
  <1>2. ClearPendingRedis(gone) BY DEF ClearPendingCalls
  <1>3. meta' \subseteq Calls /\ saved' \in [Calls -> Outcomes]
        BY <1>1, <1>2, ClearShrinks DEF TypeOK
  <1> QED BY <1>3 DEF ClearPendingCalls, DropHandles, TypeOK, Outcomes

LEMMA ConnectionTypeOK ==
    ASSUME ConstantsAssumption, TypeOK, NEW c \in Chargers, ConnectionStep(c)
    PROVE  TypeOK'
  <1> USE DEF TypeOK
  <1>1. CASE AcceptConnection(c) BY <1>1 DEF AcceptConnection, ConstantsAssumption
  <1>2. CASE RejectConnection(c) BY <1>2 DEF RejectConnection, ConstantsAssumption
  <1>3. CASE StartRestore(c) BY <1>3 DEF StartRestore, Restorable
  <1>4. CASE Disconnect(c) BY <1>4, ClearTypeOK DEF Disconnect
  <1>5. CASE LateDisconnect(c) BY <1>5, ClearTypeOK DEF LateDisconnect
  <1> QED BY <1>1, <1>2, <1>3, <1>4, <1>5 DEF ConnectionStep

LEMMA ChargerTypeOK ==
    ASSUME ConstantsAssumption, TypeOK, NEW c \in Chargers, NEW m \in Calls,
           NEW kind \in Kinds, ChargerReplies(c, m, kind)
    PROVE  TypeOK'
  BY DEF TypeOK, ChargerReplies, Replies, ConstantsAssumption

LEMMA TakeTypeOK ==
    ASSUME ConstantsAssumption, TypeOK, NEW c \in Chargers, NEW r \in inbox[c],
           TakeReply(c, r)
    PROVE  TypeOK'
  BY DEF TypeOK, TakeReply, HandlerStates, PopInMemory, DropHandles, Outcomes,
         Kinds, Jobs, Replies

LEMMA ProcessTypeOK ==
    ASSUME ConstantsAssumption, TypeOK
    PROVE  /\ Crash => TypeOK'
           /\ RestoreEnds => TypeOK'
           /\ \A m \in Calls : KeyExpires(m) => TypeOK'
  <1>1. ASSUME Crash PROVE TypeOK'
        BY <1>1 DEF TypeOK, Crash, CallerStates, HandlerStates, Jobs, NoJob, Outcomes,
                    ConstantsAssumption, IsLive
  <1>2. ASSUME RestoreEnds PROVE TypeOK' BY <1>2 DEF TypeOK, RestoreEnds
  <1>3. ASSUME NEW m \in Calls, KeyExpires(m) PROVE TypeOK'
        BY <1>3 DEF TypeOK, KeyExpires, Outcomes
  <1> QED BY <1>1, <1>2, <1>3

\* What a consumer has in hand changes with its own steps only.
TypeInv == TypeOK /\ \A c \in Chargers : HasJob(c)

LEMMA HasJobStep ==
    ASSUME ConstantsAssumption, TypeInv, [Next]_vars, NEW d \in Chargers
    PROVE  HasJob(d)'
  <1> USE DEF TypeInv, TypeOK, HasJob
  <1>1. ASSUME NEW m \in Calls, CallerStep(m) PROVE HasJob(d)'
        BY <1>1 DEF CallerStep, Send, Register, MirrorCall, ForwardSend, ForwardRollback,
               ForwardUnmirror, ScheduleTimeout, StoreHandle, AbandonHandle, SkipWait,
               StartWait, Collect, WaitExpires, LookUpSaved
  <1>2. ASSUME NEW m \in Calls, TimerStep(m) \/ RestoreStep(m) \/ KeyExpires(m)
        PROVE  HasJob(d)'
        BY <1>2 DEF TimerStep, ArmTimer, FireTimer, CancelTimer, RestoreStep, RestoreRead,
               RestoreRegister, RestoreMirror, KeyExpires
  <1>3. CASE RestoreEnds BY <1>3 DEF RestoreEnds
  <1>4. ASSUME NEW c \in Chargers, NEW m \in Calls, NEW kind \in Kinds,
               ChargerReplies(c, m, kind)
        PROVE  HasJob(d)'
        BY <1>4 DEF ChargerReplies
  <1>5. ASSUME NEW c \in Chargers, NEW r \in inbox[c], TakeReply(c, r) PROVE HasJob(d)'
        BY <1>5 DEF TakeReply, Replies
  <1>6. ASSUME NEW c \in Chargers, HandlerStep(c) PROVE HasJob(d)'
    <2>1. CASE Resolve(c) BY <2>1 DEF Resolve
    <2>2. CASE Record(c) BY <2>2 DEF Record
    <2>3. CASE WakeCaller(c) BY <2>3 DEF WakeCaller
    <2>4. CASE SaveResult(c) BY <2>4 DEF SaveResult
    <2>5. CASE DispatchRaises(c) BY <2>5 DEF DispatchRaises
    <2> QED BY <1>6, <2>1, <2>2, <2>3, <2>4, <2>5 DEF HandlerStep
  <1>7. ASSUME NEW c \in Chargers, ConnectionStep(c) PROVE HasJob(d)'
        BY <1>7 DEF ConnectionStep, AcceptConnection, RejectConnection, StartRestore,
               Disconnect, LateDisconnect
  <1>8. CASE Crash BY <1>8 DEF Crash
  <1>9. CASE UNCHANGED vars BY <1>9 DEF vars
  <1> QED BY <1>1, <1>2, <1>3, <1>4, <1>5, <1>6, <1>7, <1>8, <1>9 DEF Next

LEMMA TypeStep ==
    ASSUME ConstantsAssumption, TypeInv, [Next]_vars PROVE TypeInv'
  <1>1. \A c \in Chargers : HasJob(c)' BY HasJobStep
  <1>2. TypeOK'
    <2>1. CASE \E m \in Calls : CallerStep(m) BY <2>1, CallerTypeOK DEF TypeInv
    <2>2. CASE \E m \in Calls : TimerStep(m) BY <2>2, TimerTypeOK DEF TypeInv
    <2>3. CASE \E m \in Calls : RestoreStep(m) BY <2>3, RestoreTypeOK DEF TypeInv
    <2>4. CASE RestoreEnds \/ Crash \/ \E m \in Calls : KeyExpires(m)
          BY <2>4, ProcessTypeOK DEF TypeInv
    <2>5. CASE \E c \in Chargers, m \in Calls, kind \in Kinds : ChargerReplies(c, m, kind)
          BY <2>5, ChargerTypeOK DEF TypeInv
    <2>6. CASE \E c \in Chargers : \E r \in inbox[c] : TakeReply(c, r)
          BY <2>6, TakeTypeOK DEF TypeInv
    <2>7. CASE \E c \in Chargers : HandlerStep(c) BY <2>7, HandlerTypeOK DEF TypeInv
    <2>8. CASE \E c \in Chargers : ConnectionStep(c) BY <2>8, ConnectionTypeOK DEF TypeInv
    <2>9. CASE UNCHANGED vars BY <2>9 DEF vars, TypeInv, TypeOK
    <2> QED BY <2>1, <2>2, <2>3, <2>4, <2>5, <2>6, <2>7, <2>8, <2>9 DEF Next
  <1> QED BY <1>1, <1>2 DEF TypeInv

\* Every dictionary, mirror, thread and socket keeps a value of its type, for
\* any set of calls and chargers, with or without Redis and its faults.
THEOREM TypeCorrect == Spec => []TypeOK
  <1>1. Init => TypeInv
    <2>1. SUFFICES ASSUME Init PROVE TypeInv OBVIOUS
    <2> QED BY <2>1, InitTypeOK, ConstantsAssumption DEF TypeInv, HasJob, Init
  <1>2. TypeInv /\ [Next]_vars => TypeInv' BY TypeStep, ConstantsAssumption
  <1>3. TypeInv => TypeOK BY DEF TypeInv
  <1> QED BY <1>1, <1>2, <1>3, PTL DEF Spec

-----------------------------------------------------------------------------
(* Without a Redis mirror *)

\* Nothing is ever registered again: a call is registered once, by its caller,
\* and is then pending, in the hand of one consumer, or closed for good.
OnceInv ==
    /\ rstep = "off"
    /\ \A m \in Calls : pc[m] \in {"idle", "sent"} => made[m] = 0
    /\ \A m \in Calls : made[m] = 0 => m \notin pending /\ ~InHand(m) /\ answers[m] = 0
    /\ \A m \in Calls : m \in pending \/ InHand(m) => answers[m] = 0
    /\ \A m \in Calls : m \in pending => ~InHand(m)
    /\ \A m \in Calls, c, d \in Chargers : Holds(c, m) /\ Holds(d, m) => c = d

LEMMA OnceCaller ==
    ASSUME TypeInv, OnceInv, NEW m \in Calls, CallerStep(m) PROVE OnceInv'
  <1> USE DEF TypeInv, TypeOK, OnceInv, InHand, Holds
  <1>1. CASE Send(m) BY <1>1 DEF Send, Goto
  <1>2. CASE Register(m)
        BY <1>2 DEF Register, Goto, RegisterInMemory
  <1>3. CASE ForwardRollback(m) BY <1>3 DEF ForwardRollback, Goto, PopInMemory
  <1>4. CASE \/ MirrorCall(m) \/ ForwardSend(m) \/ ForwardUnmirror(m)
             \/ ScheduleTimeout(m) \/ StoreHandle(m) \/ AbandonHandle(m)
             \/ SkipWait(m) \/ WaitExpires(m)
        BY <1>4 DEF MirrorCall, ForwardSend, ForwardUnmirror, ScheduleTimeout,
                    StoreHandle, AbandonHandle, SkipWait, WaitExpires, Goto
  <1>5. CASE StartWait(m) \/ Collect(m) \/ LookUpSaved(m)
        BY <1>5 DEF StartWait, Collect, LookUpSaved, Tell
  <1> QED BY <1>1, <1>2, <1>3, <1>4, <1>5 DEF CallerStep

LEMMA OnceHandler ==
    ASSUME ~UseRedis, TypeInv, OnceInv, NEW c \in Chargers,
           HandlerStep(c) \/ \E r \in inbox[c] : TakeReply(c, r)
    PROVE  OnceInv'
  <1> USE DEF TypeInv, TypeOK, OnceInv, InHand, Holds, HasJob
  <1>1. CASE Resolve(c)
    <2>1. \/ /\ step[c] = "hit" /\ step' = [step EXCEPT ![c] = "dispatching"]
             /\ UNCHANGED job
          \/ /\ step' = [step EXCEPT ![c] = "idle"]
             /\ job' = [job EXCEPT ![c] = NoJob]
          BY <1>1 DEF Resolve, RedisSees
    <2>2. /\ \A d \in Chargers, m \in Calls : Holds(d, m)' => Holds(d, m)
          BY <2>1
    <2>3. UNCHANGED <<pc, pending, made, answers, rstep>> BY <1>1 DEF Resolve
    <2> HIDE DEF Holds, TypeOK, HasJob
    <2> QED BY <2>2, <2>3
  <1>2. CASE Record(c) BY <1>2 DEF Record
  <1>3. CASE WakeCaller(c) BY <1>3 DEF WakeCaller
  <1>4. CASE SaveResult(c) BY <1>4 DEF SaveResult
  <1>5. CASE DispatchRaises(c) BY <1>5 DEF DispatchRaises
  <1>6. ASSUME NEW r \in inbox[c], TakeReply(c, r) PROVE OnceInv'
        BY <1>6 DEF TakeReply, PopInMemory, Replies
  <1> QED BY <1>1, <1>2, <1>3, <1>4, <1>5, <1>6 DEF HandlerStep

LEMMA OnceOther ==
    ASSUME ConstantsAssumption, ~UseRedis, TypeInv, OnceInv
    PROVE  /\ \A m \in Calls : TimerStep(m) => OnceInv'
           /\ \A m \in Calls : RestoreStep(m) \/ RestoreEnds => OnceInv'
           /\ \A m \in Calls : KeyExpires(m) => OnceInv'
           /\ \A c \in Chargers, m \in Calls, kind \in Kinds :
                 ChargerReplies(c, m, kind) => OnceInv'
           /\ \A c \in Chargers : ConnectionStep(c) => OnceInv'
           /\ Crash => OnceInv'
           /\ UNCHANGED vars => OnceInv'
  <1> USE DEF TypeInv, TypeOK, OnceInv, InHand, Holds
  <1>1. \A m \in Calls : TimerStep(m) => OnceInv'
        BY DEF TimerStep, ArmTimer, FireTimer, CancelTimer
  <1>2. \A m \in Calls : RestoreStep(m) \/ RestoreEnds => OnceInv'
        BY DEF RestoreStep, RestoreRead, RestoreRegister, RestoreMirror, RestoreEnds
  <1>3. \A m \in Calls : KeyExpires(m) => OnceInv' BY DEF KeyExpires
  <1>4. \A c \in Chargers, m \in Calls, kind \in Kinds :
           ChargerReplies(c, m, kind) => OnceInv'
        BY DEF ChargerReplies
  <1>5. ASSUME NEW c \in Chargers, ConnectionStep(c) PROVE OnceInv'
    <2>1. CASE AcceptConnection(c) BY <2>1 DEF AcceptConnection
    <2>2. CASE RejectConnection(c) BY <2>2 DEF RejectConnection
    <2>3. CASE StartRestore(c) BY <2>3 DEF StartRestore
    <2>4. CASE Disconnect(c) BY <2>4 DEF Disconnect, ClearPendingCalls
    <2>5. CASE LateDisconnect(c) BY <2>5 DEF LateDisconnect, ClearPendingCalls
    <2> QED BY <1>5, <2>1, <2>2, <2>3, <2>4, <2>5 DEF ConnectionStep
  <1>6. Crash => OnceInv' BY DEF Crash, IsLive, NoJob
  <1>7. UNCHANGED vars => OnceInv' BY DEF vars
  <1> QED BY <1>1, <1>2, <1>3, <1>4, <1>5, <1>6, <1>7

LEMMA OnceStep ==
    ASSUME ConstantsAssumption, ~UseRedis, TypeInv, OnceInv, [Next]_vars
    PROVE  OnceInv'
  <1>1. ASSUME NEW m \in Calls, CallerStep(m) PROVE OnceInv' BY <1>1, OnceCaller
  <1>2. ASSUME NEW c \in Chargers, HandlerStep(c) \/ \E r \in inbox[c] : TakeReply(c, r)
        PROVE  OnceInv'
        BY <1>2, OnceHandler
  <1>3. RestoreEnds => OnceInv' BY DEF RestoreEnds, OnceInv
  <1> QED BY <1>1, <1>2, <1>3, OnceOther DEF Next

\* Without Redis what pending_calls lists is outstanding, whatever replies are
\* duplicated, late or strayed and whichever connections come and go.
THEOREM OutstandingInMemory ==
    ASSUME ~UseRedis PROVE Spec => []PendingOutstanding
  <1>1. Init => TypeInv /\ OnceInv
    <2>1. SUFFICES ASSUME Init PROVE TypeInv /\ OnceInv OBVIOUS
    <2>2. TypeInv BY <2>1, InitTypeOK, ConstantsAssumption DEF TypeInv, HasJob, Init
    <2>3. OnceInv BY <2>1 DEF Init, OnceInv, InHand, Holds
    <2> QED BY <2>2, <2>3
  <1>2. TypeInv /\ OnceInv /\ [Next]_vars => TypeInv' /\ OnceInv'
        BY TypeStep, OnceStep, ConstantsAssumption
  <1>3. TypeInv /\ OnceInv => PendingOutstanding
        BY DEF TypeInv, TypeOK, OnceInv, PendingOutstanding
  <1> QED BY <1>1, <1>2, <1>3, PTL DEF Spec

-----------------------------------------------------------------------------
(* Without a Redis mirror, the store implements CallPromise *)

\* What a caller can find is the recorded outcome; a caller at work was told
\* nothing yet; a caller past its registration has registered.
ToldInv ==
    /\ \A m \in Calls : results[m] # "none" => results[m] = outcome[m]
    /\ \A m \in Calls : saved[m] = "none"
    /\ \A m \in Calls : told[m] # "nothing" => pc[m] = "done"
    /\ \A m \in Calls : pc[m] \notin {"idle", "sent", "dead"} => made[m] # 0

LEMMA ToldStep ==
    ASSUME ~UseRedis, TypeInv, ToldInv, [Next]_vars PROVE ToldInv'
  <1> USE DEF TypeInv, TypeOK, ToldInv
  <1>1. ASSUME NEW m \in Calls, CallerStep(m) PROVE ToldInv'
    <2>1. CASE Send(m) BY <2>1 DEF Send, Goto
    <2>2. CASE Register(m) BY <2>2 DEF Register, Goto, RegisterInMemory
    <2>3. CASE ForwardRollback(m) BY <2>3 DEF ForwardRollback, Goto
    <2>4. CASE ForwardUnmirror(m)
      <3>1. \A n \in Calls : saved'[n] = "none"
            BY <2>4, ClearShrinks DEF ForwardUnmirror
      <3> QED BY <2>4, <3>1 DEF ForwardUnmirror, Goto
    <2>5. CASE \/ MirrorCall(m) \/ ForwardSend(m) \/ ScheduleTimeout(m) \/ StoreHandle(m)
               \/ AbandonHandle(m) \/ SkipWait(m) \/ WaitExpires(m)
          BY <2>5 DEF MirrorCall, ForwardSend, ScheduleTimeout, StoreHandle,
                      AbandonHandle, SkipWait, WaitExpires, Goto
    <2>6. CASE StartWait(m) BY <2>6 DEF StartWait, Tell
    <2>7. CASE Collect(m) BY <2>7 DEF Collect, Tell
    <2>8. CASE LookUpSaved(m) BY <2>8 DEF LookUpSaved, Tell
    <2> QED BY <1>1, <2>1, <2>2, <2>3, <2>4, <2>5, <2>6, <2>7, <2>8 DEF CallerStep
  <1>2. ASSUME NEW m \in Calls, TimerStep(m) \/ RestoreStep(m) \/ KeyExpires(m)
        PROVE  ToldInv'
    <2>1. CASE RestoreRegister(m)
          BY <2>1 DEF RestoreRegister, AlreadyPending, RegisterInMemory
    <2> QED BY <1>2, <2>1 DEF TimerStep, ArmTimer, FireTimer, CancelTimer, RestoreStep,
               RestoreRead, RestoreMirror, KeyExpires
  <1>3. ASSUME NEW c \in Chargers, HandlerStep(c) PROVE ToldInv'
    <2> USE DEF HasJob
    <2>1. CASE Resolve(c)
      <3>1. \A n \in Calls : saved'[n] = "none" BY <2>1, ClearShrinks DEF Resolve
      <3> QED BY <2>1, <3>1 DEF Resolve
    <2>2. CASE Record(c) BY <2>2 DEF Record
    <2>3. CASE WakeCaller(c) BY <2>3 DEF WakeCaller
    <2>4. CASE SaveResult(c) BY <2>4 DEF SaveResult, RedisWrite
    <2>5. CASE DispatchRaises(c) BY <2>5 DEF DispatchRaises
    <2> QED BY <1>3, <2>1, <2>2, <2>3, <2>4, <2>5 DEF HandlerStep
  <1>4. ASSUME NEW c \in Chargers, ConnectionStep(c) PROVE ToldInv'
    <2>1. ASSUME ClearPendingCalls(c) PROVE \A n \in Calls : saved'[n] = "none"
      <3> DEFINE gone == {m \in pending : Owner[m] = c}
      <3>1. gone \in SUBSET Calls /\ ClearPendingRedis(gone) BY <2>1 DEF ClearPendingCalls
      <3> QED BY <3>1, ClearShrinks
    <2>2. CASE Disconnect(c) \/ LateDisconnect(c)
          BY <2>1, <2>2 DEF Disconnect, LateDisconnect, ClearPendingCalls
    <2> QED BY <1>4, <2>2 DEF ConnectionStep, AcceptConnection, RejectConnection, StartRestore
  <1>5. ASSUME NEW c \in Chargers, NEW m \in Calls, NEW kind \in Kinds,
               ChargerReplies(c, m, kind)
        PROVE  ToldInv'
        BY <1>5 DEF ChargerReplies
  <1>6. ASSUME NEW c \in Chargers, NEW r \in inbox[c], TakeReply(c, r) PROVE ToldInv'
        BY <1>6 DEF TakeReply
  <1>7. CASE Crash BY <1>7 DEF Crash, IsLive
  <1>8. CASE RestoreEnds BY <1>8 DEF RestoreEnds
  <1>9. CASE UNCHANGED vars BY <1>9 DEF vars
  <1> QED BY <1>1, <1>2, <1>3, <1>4, <1>5, <1>6, <1>7, <1>8, <1>9 DEF Next

\* A step that opens, answers and tells nothing closes the calls that are no
\* longer pending or in hand (possibly none).
LEMMA Closing ==
    ASSUME OnceInv, UNCHANGED <<made, outcome, told>>,
           \A m \in Calls : m \in pending' \/ InHand(m)' => m \in pending \/ InHand(m)
    PROVE  Promise!Next
  <1> DEFINE S == {m \in Calls : Phase[m] = "open" /\ ~(m \in pending' \/ InHand(m)')}
  <1>1. \A m \in S : Phase[m] = "open" OBVIOUS
  <1>2. \A m \in Calls : m \in pending \/ InHand(m) => made[m] # 0 BY DEF OnceInv
  <1>3. Phase' = [m \in Calls |-> IF m \in S THEN "closed" ELSE Phase[m]]
    <2> SUFFICES ASSUME NEW m \in Calls
                 PROVE  (IF m \in pending' \/ InHand(m)' THEN "open"
                         ELSE IF made'[m] = 0 THEN "new" ELSE "closed")
                        = (IF m \in S THEN "closed" ELSE Phase[m])
        BY DEF Phase
    <2> HIDE DEF InHand
    <2>1. CASE m \in pending' \/ InHand(m)' BY <2>1 DEF Phase
    <2>2. CASE ~(m \in pending' \/ InHand(m)') /\ (m \in pending \/ InHand(m))
          BY <2>2, <1>2 DEF Phase
    <2>3. CASE ~(m \in pending' \/ InHand(m)') /\ ~(m \in pending \/ InHand(m))
          BY <2>3 DEF Phase
    <2> QED BY <2>1, <2>2, <2>3
  <1>4. Promise!Drop(S) BY <1>1, <1>3 DEF Promise!Drop
  <1> QED BY <1>4 DEF Promise!Next

\* A caller that is told what it found, or nothing, keeps the promise.
LEMMA Telling ==
    ASSUME TypeInv, NEW m \in Calls, told[m] = "nothing", made[m] # 0,
           NEW answer, answer \in {"none", outcome[m]}, Tell(m, answer),
           UNCHANGED <<pending, made, step, job, outcome>>
    PROVE  Promise!Next
  <1>1. Phase' = Phase BY DEF Phase, InHand, Holds
  <1>2. Phase[m] # "new" BY DEF Phase
  <1>3. CASE answer = "none"
        BY <1>1, <1>2, <1>3 DEF Tell, Promise!GiveUp, Promise!Next
  <1>4. CASE answer = outcome[m]
        BY <1>1, <1>2, <1>4 DEF Tell, Promise!Tell, Promise!Next
  <1> QED BY <1>3, <1>4

LEMMA PromiseCaller ==
    ASSUME ~UseRedis, TypeInv, OnceInv, ToldInv, NEW m \in Calls, CallerStep(m)
    PROVE  Promise!Next
  <1>1. CASE Register(m)
    <2>1. made[m] = 0 /\ pending' = pending \cup {m} /\ made' = [made EXCEPT ![m] = made[m] + 1]
          BY <1>1 DEF Register, RegisterInMemory, Goto, OnceInv
    <2>2. UNCHANGED <<step, job, outcome, told>> BY <1>1 DEF Register
    <2>3. \A n \in Calls : InHand(n)' <=> InHand(n) BY <2>2 DEF InHand, Holds
    <2>4. m \notin pending /\ ~InHand(m) BY <2>1 DEF OnceInv
    <2>5. Phase[m] = "new" BY <2>1, <2>4 DEF Phase
    <2>6. Phase' = [Phase EXCEPT ![m] = "open"]
          BY <2>1, <2>3 DEF Phase, TypeInv, TypeOK
    <2> QED BY <2>2, <2>5, <2>6 DEF Promise!Open, Promise!Next
  <1>2. CASE ForwardRollback(m)
    <2>1. \A n \in Calls : InHand(n)' <=> InHand(n)
          BY <1>2 DEF ForwardRollback, InHand, Holds
    <2> QED BY <1>2, <2>1, Closing DEF ForwardRollback, PopInMemory
  <1>3. CASE \/ Send(m) \/ MirrorCall(m) \/ ForwardSend(m) \/ ForwardUnmirror(m)
             \/ ScheduleTimeout(m) \/ StoreHandle(m) \/ AbandonHandle(m)
             \/ SkipWait(m) \/ WaitExpires(m)
    <2>1. UNCHANGED <<pending, made, step, job, outcome, told>>
          BY <1>3 DEF Send, MirrorCall, ForwardSend, ForwardUnmirror,
                    ScheduleTimeout, StoreHandle, AbandonHandle, SkipWait, WaitExpires
    <2>2. \A n \in Calls : InHand(n)' <=> InHand(n) BY <2>1 DEF InHand, Holds
    <2> QED BY <2>1, <2>2, Closing
  <1>4. CASE StartWait(m)
    <2>1. made[m] # 0 /\ told[m] = "nothing" BY <1>4 DEF StartWait, ToldInv
    <2>2. UNCHANGED <<pending, made, step, job, outcome>> BY <1>4 DEF StartWait
    <2>3. CASE results[m] # "none"
          BY <1>4, <2>1, <2>2, <2>3, Telling DEF StartWait, ToldInv
    <2>4. CASE results[m] = "none"
      <3>1. UNCHANGED told BY <1>4, <2>4 DEF StartWait
      <3>2. \A n \in Calls : InHand(n)' <=> InHand(n) BY <2>2 DEF InHand, Holds
      <3> QED BY <2>2, <3>1, <3>2, Closing
    <2> QED BY <2>3, <2>4
  <1>5. CASE Collect(m)
    <2>1. made[m] # 0 /\ told[m] = "nothing" BY <1>5 DEF Collect, ToldInv
    <2>2. UNCHANGED <<pending, made, step, job, outcome>> BY <1>5 DEF Collect
    <2>3. results[m] \in {"none", outcome[m]} BY DEF ToldInv
    <2> QED BY <1>5, <2>1, <2>2, <2>3, Telling DEF Collect
  <1>6. CASE LookUpSaved(m)
    <2>1. made[m] # 0 /\ told[m] = "nothing" BY <1>6 DEF LookUpSaved, ToldInv
    <2>2. UNCHANGED <<pending, made, step, job, outcome>> BY <1>6 DEF LookUpSaved
    <2>3. Tell(m, "none") BY <1>6 DEF LookUpSaved
    <2> QED BY <2>1, <2>2, <2>3, Telling
  <1> QED BY <1>1, <1>2, <1>3, <1>4, <1>5, <1>6 DEF CallerStep

\* Without Redis a consumer takes calls in hand with TakeReply only.
LEMMA HandsEmpty ==
    ASSUME ~UseRedis, TypeInv, NEW c \in Chargers,
           Resolve(c) \/ WakeCaller(c) \/ SaveResult(c) \/ DispatchRaises(c)
    PROVE  \A d \in Chargers, n \in Calls : Holds(d, n)' => Holds(d, n)
  <1>1. CASE Resolve(c)
    <2>1. \/ /\ step[c] = "hit" /\ step' = [step EXCEPT ![c] = "dispatching"]
             /\ UNCHANGED job
          \/ /\ step' = [step EXCEPT ![c] = "idle"]
             /\ job' = [job EXCEPT ![c] = NoJob]
          BY <1>1 DEF Resolve, RedisSees
    <2> QED BY <2>1 DEF Holds, TypeInv, TypeOK
  <1>2. CASE WakeCaller(c) BY <1>2 DEF WakeCaller, Holds, TypeInv, TypeOK
  <1>3. CASE SaveResult(c) BY <1>3 DEF SaveResult, Holds, TypeInv, TypeOK
  <1>4. CASE DispatchRaises(c) BY <1>4 DEF DispatchRaises, Holds, TypeInv, TypeOK
  <1> QED BY <1>1, <1>2, <1>3, <1>4

LEMMA PromiseHandler ==
    ASSUME ~UseRedis, TypeInv, OnceInv, NEW c \in Chargers, HandlerStep(c)
    PROVE  Promise!Next
  <1> DEFINE m == job[c].call
  <1>1. CASE Record(c)
    <2>1. /\ step[c] = "dispatching" /\ m \in Calls /\ job[c].kind \in Kinds
          /\ step' = [step EXCEPT ![c] = "recorded"]
          /\ outcome' = [outcome EXCEPT ![m] = job[c].kind]
          /\ UNCHANGED <<pending, made, told>>
          /\ \A d \in Chargers : d # c => job'[d] = job[d]
          BY <1>1 DEF Record, TypeInv, HasJob
    <2>2. Holds(c, m) BY <2>1 DEF Holds
    <2>3. InHand(m) /\ m \notin pending /\ made[m] # 0 BY <2>1, <2>2 DEF InHand, OnceInv
    <2>4. \A n \in Calls : InHand(n)' <=> InHand(n) /\ n # m
      <3>1. \A d \in Chargers, n \in Calls : Holds(d, n)' <=> Holds(d, n) /\ d # c
            BY <2>1 DEF Holds, TypeInv, TypeOK
      <3>2. \A d \in Chargers : Holds(d, m) => d = c BY <2>1, <2>2 DEF OnceInv
      <3>3. \A n \in Calls : Holds(c, n) => n = m BY DEF Holds
      <3> HIDE DEF m
      <3> QED BY <3>1, <3>2, <3>3 DEF InHand
    <2>5. Phase[m] = "open" BY <2>1, <2>3 DEF Phase
    <2>6. Phase' = [Phase EXCEPT ![m] = "closed"]
      <3> HIDE DEF m
      <3> QED BY <2>1, <2>3, <2>4 DEF Phase
    <2>7. Promise!Answer(m, job[c].kind) BY <2>1, <2>5, <2>6 DEF Promise!Answer
    <2> QED BY <2>1, <2>7 DEF Promise!Next, Promise!Answers, Kinds
  <1>2. CASE Resolve(c) \/ WakeCaller(c) \/ SaveResult(c) \/ DispatchRaises(c)
    <2>1. UNCHANGED <<pending, made, outcome, told>>
          BY <1>2 DEF Resolve, WakeCaller, SaveResult, DispatchRaises
    <2>2. \A n \in Calls : InHand(n)' => InHand(n) BY <1>2, HandsEmpty DEF InHand
    <2> QED BY <2>1, <2>2, Closing
  <1> QED BY <1>1, <1>2 DEF HandlerStep

LEMMA PromiseOther ==
    ASSUME ~UseRedis, TypeInv, OnceInv,
           \/ \E m \in Calls : TimerStep(m) \/ RestoreStep(m) \/ KeyExpires(m)
           \/ \E c \in Chargers, m \in Calls, kind \in Kinds : ChargerReplies(c, m, kind)
           \/ \E c \in Chargers : \E r \in inbox[c] : TakeReply(c, r)
           \/ \E c \in Chargers : ConnectionStep(c)
           \/ RestoreEnds \/ Crash
    PROVE  Promise!Next
  <1>1. ASSUME NEW c \in Chargers, NEW r \in inbox[c], TakeReply(c, r) PROVE Promise!Next
    <2>1. UNCHANGED <<made, outcome, told>> BY <1>1 DEF TakeReply
    <2>2. pending' = pending \ {r.call} BY <1>1 DEF TakeReply, PopInMemory
    <2>3. \A d \in Chargers, n \in Calls :
             Holds(d, n)' => Holds(d, n) \/ (n = r.call /\ n \in pending)
          BY <1>1 DEF TakeReply, Holds, TypeInv, TypeOK
    <2>4. \A n \in Calls : InHand(n)' => InHand(n) \/ (n = r.call /\ n \in pending)
          BY <2>3 DEF InHand
    <2> QED BY <2>1, <2>2, <2>4, Closing
  <1>2. CASE \/ \E m \in Calls : TimerStep(m) \/ RestoreStep(m) \/ KeyExpires(m)
             \/ \E c \in Chargers, m \in Calls, kind \in Kinds : ChargerReplies(c, m, kind)
             \/ RestoreEnds
    <2>1. UNCHANGED <<pending, made, step, job, outcome, told>>
          BY <1>2 DEF TimerStep, ArmTimer, FireTimer, CancelTimer, RestoreStep, RestoreRead,
                      RestoreRegister, RestoreMirror, KeyExpires, ChargerReplies,
                      RestoreEnds, OnceInv
    <2>2. \A n \in Calls : InHand(n)' <=> InHand(n) BY <2>1 DEF InHand, Holds
    <2> QED BY <2>1, <2>2, Closing
  <1>3. ASSUME NEW c \in Chargers, ConnectionStep(c) PROVE Promise!Next
    <2>1. UNCHANGED <<made, step, job, outcome, told>> /\ pending' \subseteq pending
          BY <1>3 DEF ConnectionStep, AcceptConnection, RejectConnection, StartRestore,
                      Disconnect, LateDisconnect, ClearPendingCalls
    <2>2. \A n \in Calls : InHand(n)' <=> InHand(n) BY <2>1 DEF InHand, Holds
    <2> QED BY <2>1, <2>2, Closing
  <1>4. CASE Crash
    <2>1. UNCHANGED <<made, outcome, told>> /\ pending' = {} BY <1>4 DEF Crash
    <2>2. \A n \in Calls : ~InHand(n)' BY <1>4 DEF Crash, InHand, Holds
    <2> QED BY <2>1, <2>2, Closing
  <1> QED BY <1>1, <1>2, <1>3, <1>4

\* Without Redis the store implements CallPromise: a call is open at most once
\* and answered at most once, and its caller is told the recorded answer, or
\* that there was none, and is told once.
THEOREM StoreKeepsPromise ==
    ASSUME ~UseRedis PROVE Spec => KeepsPromise
  <1> DEFINE Inv == TypeInv /\ OnceInv /\ ToldInv
  <1>1. ASSUME Init PROVE Inv
    <2>1. TypeInv BY <1>1, InitTypeOK, ConstantsAssumption DEF TypeInv, HasJob, Init
    <2>2. OnceInv BY <1>1 DEF Init, OnceInv, InHand, Holds
    <2>3. ToldInv BY <1>1 DEF Init, ToldInv
    <2> QED BY <2>1, <2>2, <2>3
  <1>2. Inv /\ [Next]_vars => Inv' BY TypeStep, OnceStep, ToldStep, ConstantsAssumption
  <1>3. ASSUME Init PROVE Promise!Init
    <2>1. \A m \in Calls : m \notin pending /\ ~InHand(m) /\ made[m] = 0
          BY <1>3 DEF Init, InHand, Holds
    <2>2. Phase = [m \in Calls |-> "new"] BY <2>1 DEF Phase
    <2> QED BY <1>3, <2>2 DEF Init, Promise!Init
  <1>4. ASSUME Inv, Next PROVE Promise!Next
        BY <1>4, PromiseCaller, PromiseHandler, PromiseOther DEF Next
  <1>5. ASSUME UNCHANGED vars PROVE UNCHANGED Promise!vars
        BY <1>5 DEF vars, Promise!vars, Phase, InHand, Holds
  <1>6. Inv /\ [Next]_vars => [Promise!Next]_(Promise!vars) BY <1>4, <1>5
  <1> QED BY <1>1, <1>2, <1>3, <1>6, PTL DEF Spec, KeepsPromise, Promise!Spec

-----------------------------------------------------------------------------
(* Wake-ups and notices, without a Redis mirror *)

\* _notify decides on a notice only for a call nobody has answered and no consumer
\* has in hand: NoticeDue looks at pending_calls alone, and without Redis what that
\* lists is outstanding (OnceInv).
THEOREM NoticesAreJustified ==
    ASSUME ~UseRedis PROVE Spec => NoticesJustified
  <1> DEFINE Justified == \A m \in noticed' \ noticed : answers[m] = 0 /\ ~InHand(m)
  <1>1. Init => TypeInv /\ OnceInv
    <2>1. SUFFICES ASSUME Init PROVE TypeInv /\ OnceInv OBVIOUS
    <2>2. TypeInv BY <2>1, InitTypeOK, ConstantsAssumption DEF TypeInv, HasJob, Init
    <2>3. OnceInv BY <2>1 DEF Init, OnceInv, InHand, Holds
    <2> QED BY <2>2, <2>3
  <1>2. TypeInv /\ OnceInv /\ [Next]_vars => TypeInv' /\ OnceInv'
        BY TypeStep, OnceStep, ConstantsAssumption
  <1>3. ASSUME TypeInv, OnceInv, Next PROVE Justified
    <2>1. ASSUME NEW m \in Calls, FireTimer(m) PROVE Justified
      <3>1. CASE NoticeDue(m)
        <4>1. noticed' = noticed \cup {m} BY <2>1, <3>1 DEF FireTimer
        <4>2. answers[m] = 0 /\ ~InHand(m) BY <1>3, <3>1 DEF NoticeDue, OnceInv
        <4> QED BY <4>1, <4>2
      <3>2. CASE ~NoticeDue(m) BY <2>1, <3>2 DEF FireTimer
      <3> QED BY <3>1, <3>2
    <2>2. CASE noticed' \subseteq noticed BY <2>2
    <2>3. (\E m \in Calls : FireTimer(m)) \/ noticed' \subseteq noticed
      <3>1. ASSUME NEW m \in Calls, CallerStep(m) PROVE noticed' \subseteq noticed
            BY <3>1 DEF CallerStep, memoryVars, Send, Register, RegisterInMemory, MirrorCall,
                   ForwardSend, ForwardRollback, PopInMemory, ForwardUnmirror,
                   ScheduleTimeout, StoreHandle, AbandonHandle, SkipWait, StartWait,
                   Collect, WaitExpires, LookUpSaved
      <3>2. ASSUME NEW m \in Calls,
                   ArmTimer(m) \/ CancelTimer(m) \/ RestoreStep(m) \/ KeyExpires(m)
            PROVE  noticed' \subseteq noticed
            BY <3>2 DEF ArmTimer, CancelTimer, RestoreStep, RestoreRead, RestoreRegister,
                   RegisterInMemory, RestoreMirror, KeyExpires, memoryVars
      <3>3. ASSUME NEW c \in Chargers,
                   \/ HandlerStep(c) \/ ConnectionStep(c)
                   \/ \E r \in inbox[c] : TakeReply(c, r)
                   \/ \E m \in Calls, kind \in Kinds : ChargerReplies(c, m, kind)
            PROVE  noticed' \subseteq noticed
            BY <3>3 DEF HandlerStep, Resolve, Record, WakeCaller, SaveResult,
                   DispatchRaises, ConnectionStep, AcceptConnection, RejectConnection,
                   StartRestore, Disconnect, LateDisconnect, ClearPendingCalls, TakeReply,
                   PopInMemory, ChargerReplies, memoryVars
      <3>4. CASE RestoreEnds \/ Crash BY <3>4 DEF RestoreEnds, Crash, memoryVars
      <3> QED BY <1>3, <3>1, <3>2, <3>3, <3>4 DEF Next, TimerStep
    <2> QED BY <2>1, <2>2, <2>3
  <1>4. UNCHANGED vars => Justified BY DEF vars, memoryVars
  <1>5. TypeInv /\ OnceInv /\ [Next]_vars => [Justified]_vars BY <1>3, <1>4
  <1> QED BY <1>1, <1>2, <1>5, PTL DEF Spec, NoticesJustified

\* A blocked caller waits on an Event, and as long as its call is open on that
\* call's current one: the Event its answer will set.
OnCurrentEvent ==
    \A m \in Calls : pc[m] = "waiting" =>
        /\ held[m] # 0
        /\ m \in pending \/ InHand(m) => event[m] = held[m]

\* The consumer c is between its lock and event.set() with the caller's Event.
AboutToWake(c, m) ==
    step[c] = "recorded" /\ job[c].call = m /\ job[c].event = held[m]

WakeInv == NoLostWakeup /\ OnCurrentEvent

\* Any step that leaves the blocked callers, their Events, their results and
\* the consumers past the lock as they were, and opens no call, keeps WakeInv.
LEMMA WakeKept ==
    ASSUME WakeInv, UNCHANGED <<held, event>>,
           \A m \in Calls : pc'[m] = "waiting" => pc[m] = "waiting",
           \A m \in Calls : results'[m] \in {"none", results[m]},
           \A m \in Calls : isSet[m] \subseteq isSet'[m],
           \A m \in Calls : m \in pending' \/ InHand(m)' => m \in pending \/ InHand(m),
           \A c \in Chargers, m \in Calls :
              AboutToWake(c, m) => AboutToWake(c, m)' \/ Woken(m)'
    PROVE  WakeInv'
  <1> HIDE DEF InHand
  <1>1. OnCurrentEvent' BY DEF WakeInv, OnCurrentEvent
  <1>2. ASSUME NEW m \in Calls, pc'[m] = "waiting", results'[m] # "none"
        PROVE  Woken(m)' \/ \E c \in Chargers : AboutToWake(c, m)'
    <2>1. Woken(m) \/ \E c \in Chargers : AboutToWake(c, m)
          BY <1>2 DEF WakeInv, NoLostWakeup, AboutToWake
    <2> QED BY <2>1 DEF Woken
  <1>3. NoLostWakeup' BY <1>2 DEF NoLostWakeup, AboutToWake
  <1> QED BY <1>1, <1>3 DEF WakeInv

LEMMA WakeCallerSteps ==
    ASSUME TypeInv, OnceInv, WakeInv, NEW m \in Calls, CallerStep(m) PROVE WakeInv'
  <1> USE DEF TypeInv, TypeOK
  <1>1. CASE \/ Send(m) \/ MirrorCall(m) \/ ForwardSend(m) \/ ForwardUnmirror(m)
             \/ ScheduleTimeout(m) \/ StoreHandle(m) \/ AbandonHandle(m)
             \/ SkipWait(m) \/ WaitExpires(m) \/ ForwardRollback(m)
    <2>1. /\ UNCHANGED <<held, event, results, isSet, step, job>>
          /\ pending' \subseteq pending
          BY <1>1 DEF Send, MirrorCall, ForwardSend, ForwardUnmirror, ScheduleTimeout,
                  StoreHandle, AbandonHandle, SkipWait, WaitExpires, ForwardRollback,
                  PopInMemory
    <2>2. \A n \in Calls : pc'[n] = "waiting" => pc[n] = "waiting"
          BY <1>1 DEF Send, MirrorCall, ForwardSend, ForwardUnmirror, ScheduleTimeout,
                  StoreHandle, AbandonHandle, SkipWait, WaitExpires, ForwardRollback, Goto
    <2>3. \A n \in Calls : InHand(n)' <=> InHand(n) BY <2>1 DEF InHand, Holds
    <2>4. \A c \in Chargers, n \in Calls : AboutToWake(c, n)' <=> AboutToWake(c, n)
          BY <2>1 DEF AboutToWake
    <2> HIDE DEF TypeInv, TypeOK
    <2> QED BY <2>1, <2>2, <2>3, <2>4, WakeKept
  <1>2. CASE Register(m)
    <2>1. /\ pc[m] \in {"idle", "sent"} /\ pc' = [pc EXCEPT ![m] = "mirroring"]
          /\ pending' = pending \cup {m}
          /\ event' = [event EXCEPT ![m] = made[m] + 1]
          /\ results' = [results EXCEPT ![m] = "none"]
          /\ UNCHANGED <<held, isSet, step, job>>
          BY <1>2 DEF Register, Goto, RegisterInMemory
    <2>2. OnCurrentEvent' BY <2>1 DEF WakeInv, OnCurrentEvent, InHand, Holds
    <2>3. NoLostWakeup' BY <2>1 DEF WakeInv, NoLostWakeup, Woken
    <2> QED BY <2>2, <2>3 DEF WakeInv
  <1>3. CASE StartWait(m)
    <2>1. CASE results[m] # "none"
      <3>1. /\ pc' = [pc EXCEPT ![m] = "done"] /\ held' = [held EXCEPT ![m] = 0]
            /\ results' = [results EXCEPT ![m] = "none"]
            /\ UNCHANGED <<pending, event, isSet, step, job>>
            BY <1>3, <2>1 DEF StartWait, Tell
      <3>2. OnCurrentEvent' BY <3>1 DEF WakeInv, OnCurrentEvent, InHand, Holds
      <3>3. NoLostWakeup' BY <3>1 DEF WakeInv, NoLostWakeup, Woken
      <3> QED BY <3>2, <3>3 DEF WakeInv
    <2>2. CASE results[m] = "none"
      <3>1. /\ pc' = [pc EXCEPT ![m] = IF event[m] = 0 THEN "lookup" ELSE "waiting"]
            /\ held' = [held EXCEPT ![m] = event[m]]
            /\ UNCHANGED <<results, pending, event, isSet, step, job>>
            BY <1>3, <2>2 DEF StartWait
      <3>2. OnCurrentEvent' BY <3>1 DEF WakeInv, OnCurrentEvent, InHand, Holds
      <3>3. NoLostWakeup' BY <2>2, <3>1 DEF WakeInv, NoLostWakeup, Woken
      <3> QED BY <3>2, <3>3 DEF WakeInv
    <2> QED BY <2>1, <2>2
  <1>4. CASE Collect(m)
    <2>1. /\ pc' = [pc EXCEPT ![m] = "done"] /\ held' = [held EXCEPT ![m] = 0]
          /\ results' = [results EXCEPT ![m] = "none"]
          /\ event' = [event EXCEPT ![m] = 0]
          /\ UNCHANGED <<pending, isSet, step, job>>
          BY <1>4 DEF Collect, Tell
    <2>2. OnCurrentEvent' BY <2>1 DEF WakeInv, OnCurrentEvent, InHand, Holds
    <2>3. NoLostWakeup' BY <2>1 DEF WakeInv, NoLostWakeup, Woken
    <2> QED BY <2>2, <2>3 DEF WakeInv
  <1>5. CASE LookUpSaved(m)
    <2>1. /\ pc' = [pc EXCEPT ![m] = "done"] /\ held' = [held EXCEPT ![m] = 0]
          /\ UNCHANGED <<results, pending, event, isSet, step, job>>
          BY <1>5 DEF LookUpSaved, Tell
    <2>2. OnCurrentEvent' BY <2>1 DEF WakeInv, OnCurrentEvent, InHand, Holds
    <2>3. NoLostWakeup' BY <2>1 DEF WakeInv, NoLostWakeup, Woken
    <2> QED BY <2>2, <2>3 DEF WakeInv
  <1> QED BY <1>1, <1>2, <1>3, <1>4, <1>5 DEF CallerStep

LEMMA WakeHandler ==
    ASSUME ~UseRedis, TypeInv, OnceInv, WakeInv, NEW c \in Chargers, HandlerStep(c)
    PROVE  WakeInv'
  <1> DEFINE k == job[c].call
  <1> USE DEF TypeInv, TypeOK
  <1>1. CASE Record(c)
    <2>1. /\ step[c] = "dispatching" /\ k \in Calls /\ job[c].kind \in Kinds
          /\ step' = [step EXCEPT ![c] = "recorded"]
          /\ job' = [job EXCEPT ![c] = [call |-> k, kind |-> @.kind, event |-> event[k]]]
          /\ results' = [results EXCEPT ![k] = job[c].kind]
          /\ event' = [event EXCEPT ![k] = 0]
          /\ UNCHANGED <<pc, held, pending, isSet>>
          BY <1>1 DEF Record, HasJob
    <2>2. Holds(c, k) /\ InHand(k) BY <2>1 DEF InHand, Holds
    <2>3. k \notin pending /\ \A d \in Chargers : Holds(d, k) => d = c
          BY <2>1, <2>2 DEF OnceInv
    <2>4. \A n \in Calls : InHand(n)' => InHand(n) /\ n # k
      <3>1. \A d \in Chargers, n \in Calls : Holds(d, n)' => Holds(d, n) /\ d # c
            BY <2>1 DEF Holds
      <3> HIDE DEF k
      <3> QED BY <2>3, <3>1 DEF InHand
    <2>5. OnCurrentEvent'
      <3>1. ASSUME NEW n \in Calls, pc[n] = "waiting", n \in pending \/ InHand(n)'
            PROVE  event'[n] = held[n]
        <4>1. n # k /\ (n \in pending \/ InHand(n)) BY <2>3, <2>4, <3>1
        <4> QED BY <2>1, <3>1, <4>1 DEF WakeInv, OnCurrentEvent
      <3> HIDE DEF k
      <3> QED BY <2>1, <3>1 DEF WakeInv, OnCurrentEvent
    <2>6. pc[k] = "waiting" => event[k] = held[k]
          BY <2>1, <2>2 DEF WakeInv, OnCurrentEvent
    <2>7. ASSUME NEW n \in Calls, pc'[n] = "waiting", results'[n] # "none"
          PROVE  Woken(n)' \/ \E d \in Chargers : AboutToWake(d, n)'
      <3> HIDE DEF k
      <3>1. CASE n = k
        <4>1. step'[c] = "recorded" /\ job'[c].call = k /\ job'[c].event = event[k]
              BY <2>1
        <4>2. AboutToWake(c, n)' BY <2>1, <2>6, <2>7, <3>1, <4>1 DEF AboutToWake
        <4> QED BY <4>2
      <3>2. CASE n # k
        <4>1. pc[n] = "waiting" /\ results[n] # "none" BY <2>1, <2>7, <3>2
        <4>2. Woken(n) \/ \E d \in Chargers : AboutToWake(d, n)
              BY <4>1 DEF WakeInv, NoLostWakeup, AboutToWake
        <4>3. CASE Woken(n) BY <2>1, <4>3 DEF Woken
        <4>4. ASSUME NEW d \in Chargers, AboutToWake(d, n) PROVE AboutToWake(d, n)'
          <5>1. d # c BY <2>1, <4>4 DEF AboutToWake
          <5> QED BY <2>1, <4>4, <5>1 DEF AboutToWake
        <4> QED BY <4>2, <4>3, <4>4
      <3> QED BY <3>1, <3>2
    <2>8. NoLostWakeup' BY <2>7 DEF NoLostWakeup, AboutToWake
    <2> QED BY <2>5, <2>8 DEF WakeInv
  <1>2. CASE WakeCaller(c)
    <2>1. /\ step[c] = "recorded" /\ k \in Calls
          /\ step' = [step EXCEPT ![c] = "woke"]
          /\ isSet' = [isSet EXCEPT ![k] = @ \cup ({job[c].event} \ {0})]
          /\ UNCHANGED <<pc, held, pending, event, results, job>>
          BY <1>2 DEF WakeCaller, HasJob
    <2>2. \A n \in Calls : InHand(n)' => InHand(n) BY <2>1 DEF InHand, Holds
    <2>3. OnCurrentEvent' BY <2>1, <2>2 DEF WakeInv, OnCurrentEvent
    <2>4. ASSUME NEW n \in Calls, pc'[n] = "waiting", results'[n] # "none"
          PROVE  Woken(n)' \/ \E d \in Chargers : AboutToWake(d, n)'
      <3>1. Woken(n) \/ \E d \in Chargers : AboutToWake(d, n)
            BY <2>1, <2>4 DEF WakeInv, NoLostWakeup, AboutToWake
      <3>2. CASE Woken(n) BY <2>1, <3>2 DEF Woken
      <3>3. ASSUME AboutToWake(c, n) PROVE Woken(n)'
        <4>1. n = k /\ job[c].event = held[n] BY <3>3 DEF AboutToWake
        <4>2. held[n] # 0 BY <2>1, <2>4 DEF WakeInv, OnCurrentEvent
        <4> QED BY <2>1, <4>1, <4>2 DEF Woken
      <3>4. ASSUME NEW d \in Chargers, d # c, AboutToWake(d, n) PROVE AboutToWake(d, n)'
            BY <2>1, <3>4 DEF AboutToWake
      <3> QED BY <3>1, <3>2, <3>3, <3>4
    <2>5. NoLostWakeup' BY <2>4 DEF NoLostWakeup, AboutToWake
    <2> QED BY <2>3, <2>5 DEF WakeInv
  <1>3. CASE Resolve(c) \/ SaveResult(c) \/ DispatchRaises(c)
    <2>1. UNCHANGED <<pc, held, event, results, isSet, pending>>
          BY <1>3 DEF Resolve, SaveResult, DispatchRaises
    <2>2. \A n \in Calls : InHand(n)' => InHand(n)
          BY <1>3, HandsEmpty DEF InHand
    <2>3. step[c] # "recorded" /\ \A d \in Chargers : d # c => step'[d] = step[d] /\ job'[d] = job[d]
          BY <1>3 DEF Resolve, SaveResult, DispatchRaises
    <2>4. \A d \in Chargers, n \in Calls : AboutToWake(d, n) => AboutToWake(d, n)'
          BY <2>1, <2>3 DEF AboutToWake
    <2> HIDE DEF TypeInv, TypeOK
    <2> QED BY <2>1, <2>2, <2>4, WakeKept
  <1> QED BY <1>1, <1>2, <1>3 DEF HandlerStep

LEMMA WakeOther ==
    ASSUME ~UseRedis, TypeInv, OnceInv, WakeInv,
           \/ \E m \in Calls : TimerStep(m) \/ RestoreStep(m) \/ KeyExpires(m)
           \/ \E c \in Chargers, m \in Calls, kind \in Kinds : ChargerReplies(c, m, kind)
           \/ \E c \in Chargers : \E r \in inbox[c] : TakeReply(c, r)
           \/ \E c \in Chargers : ConnectionStep(c)
           \/ RestoreEnds \/ Crash \/ UNCHANGED vars
    PROVE  WakeInv'
  <1>1. ASSUME NEW c \in Chargers, NEW r \in inbox[c], TakeReply(c, r) PROVE WakeInv'
    <2>1. /\ UNCHANGED <<pc, held, event, results, isSet>>
          /\ step[c] = "idle" /\ r.call \in Calls
          /\ \A d \in Chargers : d # c => step'[d] = step[d] /\ job'[d] = job[d]
          /\ pending' = pending \ {r.call}
          BY <1>1 DEF TakeReply, PopInMemory, TypeInv, TypeOK, Replies
    <2>2. \A d \in Chargers, n \in Calls :
             Holds(d, n)' => Holds(d, n) \/ (n = r.call /\ n \in pending)
          BY <1>1 DEF TakeReply, Holds, TypeInv, TypeOK
    <2>3. \A n \in Calls : n \in pending' \/ InHand(n)' => n \in pending \/ InHand(n)
          BY <2>1, <2>2 DEF InHand
    <2>4. \A d \in Chargers, n \in Calls : AboutToWake(d, n) => AboutToWake(d, n)'
          BY <2>1 DEF AboutToWake
    <2> QED BY <2>1, <2>3, <2>4, WakeKept
  <1>2. CASE \/ \E m \in Calls : TimerStep(m) \/ RestoreStep(m) \/ KeyExpires(m)
             \/ \E c \in Chargers, m \in Calls, kind \in Kinds : ChargerReplies(c, m, kind)
             \/ RestoreEnds \/ UNCHANGED vars
    <2>1. UNCHANGED <<pc, held, event, results, isSet, pending, step, job>>
          BY <1>2 DEF TimerStep, ArmTimer, FireTimer, CancelTimer, RestoreStep, RestoreRead,
                      RestoreRegister, RestoreMirror, KeyExpires, ChargerReplies,
                      RestoreEnds, OnceInv, vars
    <2>2. \A n \in Calls : InHand(n)' <=> InHand(n) BY <2>1 DEF InHand, Holds
    <2>3. \A d \in Chargers, n \in Calls : AboutToWake(d, n)' <=> AboutToWake(d, n)
          BY <2>1 DEF AboutToWake
    <2> QED BY <2>1, <2>2, <2>3, WakeKept
  <1>3. ASSUME NEW c \in Chargers, ConnectionStep(c) PROVE WakeInv'
    <2>1. CASE AcceptConnection(c) \/ RejectConnection(c) \/ StartRestore(c)
      <3>1. UNCHANGED <<pc, held, event, results, isSet, pending, step, job>>
            BY <2>1 DEF AcceptConnection, RejectConnection, StartRestore
      <3>2. \A n \in Calls : InHand(n)' <=> InHand(n) BY <3>1 DEF InHand, Holds
      <3>3. \A d \in Chargers, n \in Calls : AboutToWake(d, n)' <=> AboutToWake(d, n)
            BY <3>1 DEF AboutToWake
      <3> QED BY <3>1, <3>2, <3>3, WakeKept
    <2>2. CASE Disconnect(c) \/ LateDisconnect(c)
      <3> DEFINE gone == {m \in pending : Owner[m] = c}
      <3>1. /\ UNCHANGED <<pc, held, isSet, step, job>>
            /\ pending' = pending \ gone
            /\ event' = [m \in Calls |-> IF m \in gone THEN 0 ELSE event[m]]
            /\ results' = [m \in Calls |-> IF m \in gone THEN "none" ELSE results[m]]
            BY <2>2 DEF Disconnect, LateDisconnect, ClearPendingCalls
      <3> HIDE DEF gone
      <3>2. \A n \in gone : ~InHand(n) BY DEF gone, OnceInv, TypeInv, TypeOK
      <3>3. \A n \in Calls : InHand(n)' <=> InHand(n) BY <3>1 DEF InHand, Holds
      <3>4. OnCurrentEvent' BY <3>1, <3>2, <3>3 DEF WakeInv, OnCurrentEvent
      <3>5. NoLostWakeup' BY <3>1 DEF WakeInv, NoLostWakeup, Woken
      <3> QED BY <3>4, <3>5 DEF WakeInv
    <2> QED BY <1>3, <2>1, <2>2 DEF ConnectionStep
  <1>4. CASE Crash
    <2>1. \A m \in Calls : pc'[m] # "waiting" BY <1>4 DEF Crash, IsLive
    <2> QED BY <2>1 DEF WakeInv, NoLostWakeup, OnCurrentEvent
  <1> QED BY <1>1, <1>2, <1>3, <1>4

LEMMA WakeStep ==
    ASSUME ~UseRedis, TypeInv, OnceInv, WakeInv, [Next]_vars PROVE WakeInv'
  BY WakeCallerSteps, WakeHandler, WakeOther DEF Next

\* Without Redis a caller that is blocked while its result sits in the store is
\* awake, or a consumer is about to set the very Event it blocks on: an answer
\* cannot slip between the caller's look at the results and its wait.
THEOREM WakeupsAreNotLost ==
    ASSUME ~UseRedis PROVE Spec => []NoLostWakeup
  <1> DEFINE Inv == TypeInv /\ OnceInv /\ WakeInv
  <1>1. ASSUME Init PROVE Inv
    <2>1. TypeInv BY <1>1, InitTypeOK, ConstantsAssumption DEF TypeInv, HasJob, Init
    <2>2. OnceInv BY <1>1 DEF Init, OnceInv, InHand, Holds
    <2>3. WakeInv BY <1>1 DEF Init, WakeInv, NoLostWakeup, OnCurrentEvent
    <2> QED BY <2>1, <2>2, <2>3
  <1>2. Inv /\ [Next]_vars => Inv' BY TypeStep, OnceStep, WakeStep, ConstantsAssumption
  <1>3. Inv => NoLostWakeup BY DEF WakeInv
  <1> QED BY <1>1, <1>2, <1>3, PTL DEF Spec

-----------------------------------------------------------------------------
(* Whose answers, with or without Redis *)

\* A reply on its own charger's socket was sent by that charger; a consumer
\* past the check of the metadata has such a reply in hand.
OwnInv ==
    /\ AnswersAreOwn
    /\ \A c \in Chargers : \A r \in inbox[c] : Owner[r.call] = c => r.kind \in own[r.call]
    /\ \A c \in Chargers :
         step[c] # "idle" /\ (Owner[job[c].call] = c \/ step[c] \notin {"hit", "miss"})
            => job[c].kind \in own[job[c].call]

LEMMA OwnCaller ==
    ASSUME TypeInv, OwnInv, NEW m \in Calls, CallerStep(m) PROVE OwnInv'
  <1> USE DEF TypeInv, TypeOK, OwnInv, AnswersAreOwn
  <1>n. "none" \notin Kinds /\ "noReply" \notin Kinds BY DEF Kinds
  <1>1. CASE \/ Send(m) \/ MirrorCall(m) \/ ForwardSend(m) \/ ScheduleTimeout(m)
             \/ StoreHandle(m) \/ AbandonHandle(m) \/ SkipWait(m) \/ WaitExpires(m)
             \/ ForwardRollback(m)
        BY <1>1 DEF Send, MirrorCall, ForwardSend, ScheduleTimeout, StoreHandle,
                    AbandonHandle, SkipWait, WaitExpires, ForwardRollback
  <1>2. CASE Register(m) BY <1>2 DEF Register, RegisterInMemory
  <1>3. CASE ForwardUnmirror(m)
    <2>1. \A n \in Calls : saved'[n] # "none" => saved'[n] = saved[n]
          BY <1>3, ClearShrinks DEF ForwardUnmirror
    <2> QED BY <1>3, <2>1 DEF ForwardUnmirror
  <1>4. CASE StartWait(m) BY <1>n, <1>4 DEF StartWait, Tell
  <1>5. CASE Collect(m) BY <1>n, <1>5 DEF Collect, Tell
  <1>6. CASE LookUpSaved(m)
    <2>1. \A n \in Calls : saved'[n] # "none" => saved'[n] = saved[n]
          BY <1>6, ClearShrinks DEF LookUpSaved
    <2>2. \/ saved[m] # "none" /\ Tell(m, saved[m])
          \/ Tell(m, "none")
          BY <1>6 DEF LookUpSaved
    <2>3. \A n \in Calls : told'[n] \in Kinds => told'[n] \in own[n]
          BY <1>n, <2>2 DEF Tell
    <2> QED BY <1>6, <2>1, <2>3 DEF LookUpSaved
  <1> QED BY <1>1, <1>2, <1>3, <1>4, <1>5, <1>6 DEF CallerStep

LEMMA OwnHandler ==
    ASSUME TypeInv, OwnInv, NEW c \in Chargers, HandlerStep(c) PROVE OwnInv'
  <1> DEFINE m == job[c].call
  <1> USE DEF TypeInv, TypeOK, OwnInv, AnswersAreOwn, HasJob
  <1>0. step[c] # "idle" /\ m \in Calls /\ job[c].kind \in Kinds
        BY DEF HandlerStep, Resolve, Record, WakeCaller, SaveResult, DispatchRaises
  <1>1. CASE Resolve(c)
    <2>1. \A n \in Calls : saved'[n] # "none" => saved'[n] = saved[n]
          BY <1>0, <1>1, ClearShrinks DEF Resolve
    <2>2. \/ /\ Owner[m] = c /\ step' = [step EXCEPT ![c] = "dispatching"]
             /\ UNCHANGED job
          \/ /\ step' = [step EXCEPT ![c] = "idle"]
             /\ job' = [job EXCEPT ![c] = NoJob]
          BY <1>1 DEF Resolve, SameCharger
    <2>3. UNCHANGED <<told, results, own, inbox>> BY <1>1 DEF Resolve
    <2> QED BY <1>0, <2>1, <2>2, <2>3
  <1>2. CASE Record(c)
    <2>1. job[c].kind \in own[m] BY <1>2 DEF Record
    <2> QED BY <1>0, <1>2, <2>1 DEF Record
  <1>3. CASE WakeCaller(c) BY <1>3 DEF WakeCaller
  <1>4. CASE SaveResult(c)
    <2>1. job[c].kind \in own[m] BY <1>4 DEF SaveResult
    <2>2. saved' = saved \/ saved' = [saved EXCEPT ![m] = job[c].kind]
          BY <1>4, WriteIsOldOrNew DEF SaveResult
    <2> QED BY <1>0, <1>4, <2>1, <2>2 DEF SaveResult
  <1>5. CASE DispatchRaises(c) BY <1>5 DEF DispatchRaises
  <1> QED BY <1>1, <1>2, <1>3, <1>4, <1>5 DEF HandlerStep

LEMMA OwnMessage ==
    ASSUME ConstantsAssumption, TypeInv, OwnInv, NEW c \in Chargers
    PROVE  /\ \A m \in Calls, kind \in Kinds : ChargerReplies(c, m, kind) => OwnInv'
           /\ \A r \in inbox[c] : TakeReply(c, r) => OwnInv'
  <1> USE DEF TypeInv, TypeOK, OwnInv, AnswersAreOwn, HasJob
  <1>1. ASSUME NEW m \in Calls, NEW kind \in Kinds, ChargerReplies(c, m, kind)
        PROVE  OwnInv'
    <2> DEFINE reply == [call |-> m, kind |-> kind]
    <2>1. /\ inbox' = [inbox EXCEPT ![c] = @ \cup {reply}]
          /\ own' = IF Owner[m] = c THEN [own EXCEPT ![m] = @ \cup {kind}] ELSE own
          /\ UNCHANGED <<told, results, saved, step, job>>
          BY <1>1 DEF ChargerReplies
    <2>2. \A n \in Calls : own[n] \subseteq own'[n] BY <2>1
    <2>3. AnswersAreOwn' BY <2>1, <2>2
    <2>4. \A d \in Chargers : \A r \in inbox'[d] :
             Owner[r.call] = d => r.kind \in own'[r.call]
          BY <2>1, <2>2 DEF Replies
    <2>5. \A d \in Chargers :
             step'[d] # "idle" /\ (Owner[job'[d].call] = d \/ step'[d] \notin {"hit", "miss"})
               => job'[d].kind \in own'[job'[d].call]
          BY <2>1, <2>2
    <2> QED BY <2>3, <2>4, <2>5
  <1>2. ASSUME NEW r \in inbox[c], TakeReply(c, r) PROVE OwnInv'
        BY <1>2 DEF TakeReply, Replies
  <1> QED BY <1>1, <1>2

LEMMA OwnOther ==
    ASSUME TypeInv, OwnInv,
           \/ \E m \in Calls : TimerStep(m) \/ RestoreStep(m) \/ KeyExpires(m)
           \/ \E c \in Chargers : ConnectionStep(c)
           \/ RestoreEnds \/ Crash \/ UNCHANGED vars
    PROVE  OwnInv'
  <1> USE DEF TypeInv, TypeOK, OwnInv, AnswersAreOwn
  <1>1. ASSUME NEW m \in Calls, TimerStep(m) \/ RestoreStep(m) \/ KeyExpires(m)
        PROVE  OwnInv'
    <2>1. CASE TimerStep(m) BY <2>1 DEF TimerStep, ArmTimer, FireTimer, CancelTimer
    <2>2. CASE RestoreStep(m)
          BY <2>2 DEF RestoreStep, RestoreRead, RestoreRegister, RestoreMirror,
                      RegisterInMemory
    <2>3. CASE KeyExpires(m) BY <2>3 DEF KeyExpires
    <2> QED BY <1>1, <2>1, <2>2, <2>3
  <1>2. ASSUME NEW c \in Chargers, ConnectionStep(c) PROVE OwnInv'
    <2>1. CASE AcceptConnection(c) BY <2>1 DEF AcceptConnection
    <2>2. CASE RejectConnection(c) \/ StartRestore(c)
          BY <2>2 DEF RejectConnection, StartRestore
    <2>3. ASSUME ClearPendingCalls(c)
          PROVE  /\ \A n \in Calls : saved'[n] # "none" => saved'[n] = saved[n]
                 /\ \A n \in Calls : results'[n] # "none" => results'[n] = results[n]
      <3> DEFINE gone == {m \in pending : Owner[m] = c}
      <3>1. gone \in SUBSET Calls /\ ClearPendingRedis(gone) BY <2>3 DEF ClearPendingCalls
      <3> QED BY <2>3, <3>1, ClearShrinks DEF ClearPendingCalls
    <2>4. CASE Disconnect(c) BY <2>3, <2>4 DEF Disconnect
    <2>5. CASE LateDisconnect(c) BY <2>3, <2>5 DEF LateDisconnect
    <2> QED BY <1>2, <2>1, <2>2, <2>4, <2>5 DEF ConnectionStep
  <1>3. CASE RestoreEnds BY <1>3 DEF RestoreEnds
  <1>4. CASE Crash BY <1>4 DEF Crash
  <1>5. CASE UNCHANGED vars BY <1>5 DEF vars
  <1> QED BY <1>1, <1>2, <1>3, <1>4, <1>5

\* Whatever is told to a caller or kept for it, in memory or in Redis, is a
\* reply of its own charger: through reconnects, restarts, lost writes and
\* replies that strayed onto another charger's socket.
THEOREM OwnAnswers == Spec => []AnswersAreOwn
  <1>1. Init => TypeInv /\ OwnInv
    <2>1. SUFFICES ASSUME Init PROVE TypeInv /\ OwnInv OBVIOUS
    <2>2. TypeInv BY <2>1, InitTypeOK, ConstantsAssumption DEF TypeInv, HasJob, Init
    <2>3. OwnInv BY <2>1 DEF Init, OwnInv, AnswersAreOwn, Kinds
    <2> QED BY <2>2, <2>3
  <1>2. TypeInv /\ OwnInv /\ [Next]_vars => TypeInv' /\ OwnInv'
    <2>1. SUFFICES ASSUME TypeInv, OwnInv, [Next]_vars PROVE OwnInv'
          BY TypeStep, ConstantsAssumption
    <2> QED BY <2>1, OwnCaller, OwnHandler, OwnMessage, OwnOther, ConstantsAssumption
            DEF Next
  <1>3. OwnInv => AnswersAreOwn BY DEF OwnInv
  <1> QED BY <1>1, <1>2, <1>3, PTL DEF Spec

-----------------------------------------------------------------------------
(* Restores after a restart, with a Redis mirror whose commands do not fail *)

\* A call of a stopped process whose charger is connected again.
Lost(m) == pc[m] = "dead" /\ link[Owner[m]] = "up"

\* The running restore has not come to the call yet, or is about to register
\* it; or a reply to it was taken and the mirror's entry is about to go.
Restoring(m) ==
    \/ rstep # "off" /\ m \in rtodo
    \/ rstep = "read" /\ rcall = m
    \/ \E c \in Chargers : step[c] \in {"hit", "miss"} /\ job[c].call = m

RestoreInv ==
    /\ ~UseRedis => meta = {}
    /\ \A m \in meta : Lost(m) => m \in pending \/ Restoring(m)
    /\ \A m \in Calls : rstep = "mirror" /\ rcall = m /\ pc[m] = "dead" => m \in pending

\* Without faults a clear removes just what it is given, and a write writes.
LEMMA ClearRemovesAll ==
    ASSUME ~RedisFaults, NEW S \in SUBSET Calls, ClearPendingRedis(S)
    PROVE  meta' = IF UseRedis THEN meta \ S ELSE meta
  BY DEF ClearPendingRedis, RedisRemovable

LEMMA RestoreInvCaller ==
    ASSUME ~RedisFaults, TypeInv, RestoreInv, NEW m \in Calls, CallerStep(m)
    PROVE  RestoreInv'
  <1> USE DEF TypeInv, TypeOK, RestoreInv, Restoring, Lost
  <1>1. CASE Send(m) \/ ForwardSend(m) \/ ScheduleTimeout(m) \/ StoreHandle(m)
             \/ AbandonHandle(m) \/ SkipWait(m) \/ WaitExpires(m)
        BY <1>1 DEF Send, ForwardSend, ScheduleTimeout, StoreHandle, AbandonHandle,
                SkipWait, WaitExpires, Goto
  <1>2. CASE Register(m) BY <1>2 DEF Register, RegisterInMemory, Goto
  <1>3. CASE MirrorCall(m)
    <2>1. /\ meta' = IF UseRedis THEN meta \cup {m} ELSE meta
          BY <1>3 DEF MirrorCall, RedisWrite
    <2>2. /\ pc[m] # "dead" /\ pc' = [pc EXCEPT ![m] = "registered"]
          /\ UNCHANGED <<pending, restoreVars, step, job, link>>
          BY <1>3 DEF MirrorCall, Goto
    <2> QED BY <2>1, <2>2
  <1>4. CASE ForwardRollback(m)
        BY <1>4 DEF ForwardRollback, PopInMemory, Goto
  <1>5. CASE ForwardUnmirror(m)
    <2>1. meta' \subseteq meta BY <1>5, ClearShrinks DEF ForwardUnmirror
    <2>2. /\ pc' = [pc EXCEPT ![m] = "done"]
          /\ UNCHANGED <<pending, restoreVars, step, job, link>>
          BY <1>5 DEF ForwardUnmirror, Goto
    <2> QED BY <2>1, <2>2
  <1>6. CASE StartWait(m) \/ Collect(m)
    <2>1. /\ \A n \in Calls : pc'[n] = "dead" => pc[n] = "dead"
          /\ UNCHANGED <<meta, pending, restoreVars, step, job, link>>
          BY <1>6 DEF StartWait, Collect, Tell
    <2> QED BY <2>1
  <1>7. CASE LookUpSaved(m)
    <2>1. meta' \subseteq meta BY <1>7, ClearShrinks DEF LookUpSaved
    <2>2. /\ pc' = [pc EXCEPT ![m] = "done"]
          /\ UNCHANGED <<pending, restoreVars, step, job, link>>
          BY <1>7 DEF LookUpSaved, Tell
    <2> QED BY <2>1, <2>2
  <1> QED BY <1>1, <1>2, <1>3, <1>4, <1>5, <1>6, <1>7 DEF CallerStep

LEMMA RestoreInvConsumer ==
    ASSUME ~RedisFaults, TypeInv, RestoreInv, NEW c \in Chargers,
           HandlerStep(c) \/ \E r \in inbox[c] : TakeReply(c, r)
    PROVE  RestoreInv'
  <1> DEFINE k == job[c].call
  <1> USE DEF TypeInv, TypeOK, RestoreInv, Lost
  <1>1. CASE Resolve(c)
    <2>1. /\ k \in Calls
          /\ UNCHANGED <<pc, link, pending, restoreVars>>
          /\ \A d \in Chargers : d # c => step'[d] = step[d] /\ job'[d] = job[d]
          BY <1>1 DEF Resolve, HasJob
    <2>2. meta' = IF UseRedis THEN meta \ {k} ELSE meta
          BY <1>1, <2>1, ClearRemovesAll DEF Resolve
    <2>3. \A n \in meta' : n # k BY <2>2
    <2>4. \A n \in Calls : n # k /\ Restoring(n) => Restoring(n)' BY <2>1 DEF Restoring
    <2> HIDE DEF k
    <2> QED BY <2>1, <2>2, <2>3, <2>4
  <1>2. CASE Record(c) \/ WakeCaller(c) \/ SaveResult(c) \/ DispatchRaises(c)
    <2>1. /\ UNCHANGED <<pc, meta, pending, restoreVars>>
          /\ \A d \in Chargers : d # c => step'[d] = step[d] /\ job'[d] = job[d]
          /\ step[c] \notin {"hit", "miss"}
          /\ \A d \in Chargers : link'[d] = "up" => link[d] = "up"
          BY <1>2 DEF Record, WakeCaller, SaveResult, DispatchRaises
    <2>2. \A n \in Calls : Restoring(n) => Restoring(n)' BY <2>1 DEF Restoring
    <2> QED BY <2>1, <2>2, ConstantsAssumption DEF ConstantsAssumption
  <1>3. ASSUME NEW r \in inbox[c], TakeReply(c, r) PROVE RestoreInv'
    <2>1. /\ UNCHANGED <<pc, link, meta, restoreVars>>
          /\ r.call \in Calls /\ rstep = "off" /\ step[c] = "idle"
          /\ step' = [step EXCEPT ![c] = IF r.call \in pending THEN "hit" ELSE "miss"]
          /\ job' = [job EXCEPT ![c] = [call |-> r.call, kind |-> r.kind, event |-> 0]]
          /\ pending' = pending \ {r.call}
          BY <1>3 DEF TakeReply, PopInMemory, LoopFree, Replies
    <2>2. \A n \in Calls : Restoring(n) => Restoring(n)' BY <2>1 DEF Restoring
    <2>3. Restoring(r.call)' BY <2>1 DEF Restoring
    <2> QED BY <2>1, <2>2, <2>3
  <1> QED BY <1>1, <1>2, <1>3 DEF HandlerStep

LEMMA RestoreInvConnection ==
    ASSUME ConstantsAssumption, ~RedisFaults, TypeInv, RestoreInv, NEW c \in Chargers,
           ConnectionStep(c)
    PROVE  RestoreInv'
  <1> USE DEF TypeInv, TypeOK, RestoreInv, Lost, ConstantsAssumption
  <1>1. CASE AcceptConnection(c) \/ RejectConnection(c)
    <2>1. /\ UNCHANGED <<pc, meta, pending, restoreVars, step, job>>
          /\ \A d \in Chargers : link'[d] = "up" => link[d] = "up"
          BY <1>1 DEF AcceptConnection, RejectConnection
    <2>2. \A n \in Calls : Restoring(n)' <=> Restoring(n) BY <2>1 DEF Restoring
    <2> QED BY <2>1, <2>2
  <1>2. CASE StartRestore(c)
    <2>1. /\ UNCHANGED <<pc, meta, pending, rcall, step, job>>
          /\ link' = [link EXCEPT ![c] = "up"]
          /\ rstep = "off" /\ \A d \in Chargers : step[d] \in {"idle", "dispatching"}
          /\ UseRedis => rstep' = "scan" /\ rtodo' = {m \in Calls : Owner[m] = c}
          /\ ~UseRedis => UNCHANGED <<rstep, rtodo>>
          BY <1>2 DEF StartRestore, LoopFree, Restorable
    <2>2. \A n \in Calls : ~Restoring(n) BY <2>1 DEF Restoring
    <2>3. ASSUME NEW n \in meta', Lost(n)' PROVE n \in pending' \/ Restoring(n)'
      <3>1. CASE Owner[n] = c BY <2>1, <3>1 DEF Restoring
      <3>2. CASE Owner[n] # c BY <2>1, <2>2, <2>3, <3>2
      <3> QED BY <3>1, <3>2
    <2> QED BY <2>1, <2>3
  <1>3. CASE Disconnect(c) \/ LateDisconnect(c)
    <2> DEFINE gone == {m \in pending : Owner[m] = c}
    <2>1. /\ UNCHANGED <<pc, restoreVars, step, job>>
          /\ rstep = "off" /\ \A d \in Chargers : step[d] \in {"idle", "dispatching"}
          /\ pending' = pending \ gone /\ ClearPendingRedis(gone)
          /\ \A d \in Chargers : link'[d] = "up" => link[d] = "up"
          BY <1>3 DEF Disconnect, LateDisconnect, ClearPendingCalls, LoopFree
    <2>2. gone \in SUBSET Calls OBVIOUS
    <2> HIDE DEF gone
    <2>3. meta' = IF UseRedis THEN meta \ gone ELSE meta BY <2>1, <2>2, ClearRemovesAll
    <2>4. \A n \in Calls : ~Restoring(n) BY <2>1 DEF Restoring
    <2> QED BY <2>1, <2>3, <2>4
  <1> QED BY <1>1, <1>2, <1>3 DEF ConnectionStep

LEMMA RestoreInvOther ==
    ASSUME ~RedisFaults, TypeInv, RestoreInv,
           \/ \E m \in Calls : TimerStep(m) \/ RestoreStep(m) \/ KeyExpires(m)
           \/ \E c \in Chargers, m \in Calls, kind \in Kinds : ChargerReplies(c, m, kind)
           \/ RestoreEnds \/ Crash \/ UNCHANGED vars
    PROVE  RestoreInv'
  <1> USE DEF TypeInv, TypeOK, RestoreInv, Restoring, Lost
  <1>1. CASE \/ \E m \in Calls : TimerStep(m) \/ KeyExpires(m)
             \/ \E c \in Chargers, m \in Calls, kind \in Kinds : ChargerReplies(c, m, kind)
             \/ UNCHANGED vars
    <2>1. UNCHANGED <<pc, link, pending, restoreVars, step, job>> /\ meta' \subseteq meta
          BY <1>1 DEF TimerStep, ArmTimer, FireTimer, CancelTimer, KeyExpires,
                      ChargerReplies, vars
    <2> QED BY <2>1
  <1>2. ASSUME NEW m \in Calls, RestoreRead(m) PROVE RestoreInv'
        BY <1>2 DEF RestoreRead
  <1>3. ASSUME NEW m \in Calls, RestoreRegister(m) PROVE RestoreInv'
    <2>1. /\ rstep = "read" /\ rcall = m /\ m \in pending'
          /\ pending \subseteq pending'
          /\ UNCHANGED <<pc, link, meta, rtodo, step, job>>
          /\ \/ rstep' = "scan"
             \/ rstep' = "mirror" /\ rcall' = m
          BY <1>3 DEF RestoreRegister, AlreadyPending, RegisterInMemory
    <2> QED BY <2>1
  <1>4. ASSUME NEW m \in Calls, RestoreMirror(m) PROVE RestoreInv'
    <2>1. /\ rstep = "mirror" /\ rcall = m /\ rstep' = "scan"
          /\ UNCHANGED <<pc, link, pending, rtodo, step, job>>
          /\ meta' = IF UseRedis THEN meta \cup {m} ELSE meta
          BY <1>4 DEF RestoreMirror, RedisWrite
    <2> QED BY <2>1
  <1>5. CASE RestoreEnds BY <1>5 DEF RestoreEnds
  <1>6. CASE Crash
    <2>1. /\ UNCHANGED meta /\ rstep' = "off"
          /\ \A d \in Chargers : link'[d] = "down"
          BY <1>6 DEF Crash
    <2>2. \A n \in Calls : ~Lost(n)'
          BY <2>1, ConstantsAssumption DEF ConstantsAssumption
    <2> QED BY <2>1, <2>2
  <1> QED BY <1>1, <1>2, <1>3, <1>4, <1>5, <1>6 DEF RestoreStep

\* As long as no Redis command fails, a call of a stopped process that the
\* mirror lists is pending again once its charger is back and the restore is
\* over: whatever replies, disconnects and other restarts come in between.
THEOREM CallsAreRestored ==
    ASSUME ~RedisFaults PROVE Spec => []RestoredAfterCrash
  <1> DEFINE Inv == TypeInv /\ RestoreInv
  <1>1. ASSUME Init PROVE Inv
    <2>1. TypeInv BY <1>1, InitTypeOK, ConstantsAssumption DEF TypeInv, HasJob, Init
    <2>2. RestoreInv BY <1>1 DEF Init, RestoreInv
    <2> QED BY <2>1, <2>2
  <1>2. Inv /\ [Next]_vars => Inv'
    <2>1. SUFFICES ASSUME TypeInv, RestoreInv, [Next]_vars PROVE RestoreInv'
          BY TypeStep, ConstantsAssumption
    <2> QED BY <2>1, RestoreInvCaller, RestoreInvConsumer, RestoreInvConnection,
               RestoreInvOther, ConstantsAssumption DEF Next
  <1>3. Inv => RestoredAfterCrash
        BY DEF TypeInv, TypeOK, RestoreInv, Lost, Restoring, RestoredAfterCrash, LoopFree
  <1> QED BY <1>1, <1>2, <1>3, PTL DEF Spec
=============================================================================
