------------------------- MODULE NetMessagesProofs -------------------------
(***************************************************************************)
(* Proofs about NetMessages: its types, that no copy of the message comes  *)
(* back to a node it has passed, that "complete" means told, and that      *)
(* nobody is forgotten as long as nothing goes wrong.                      *)
(***************************************************************************)
EXTENDS NetMessages, FiniteSetTheorems, TLAPS

\* Places of a worker that propagates, of one that has a target, and of one whose
\* push to it is not settled.
Busy == {"begin", "noting"} \cup Pushing
Aimed == {"waiting", "answered", "failed", "created", "found", "settled"}
Asking == {"waiting", "answered", "failed"}

Types ==
    /\ has \subseteq Nodes /\ complete \subseteq has
    /\ sentTo \in [Nodes -> SUBSET Nodes] /\ \A n \in Nodes : sentTo[n] \subseteq Knows[n]
    /\ queue \in [Nodes \X Nodes -> Payloads \cup {NoPayload}]
    /\ at \in [Workers -> Places]
    /\ carry \in [Workers -> Payloads]
    /\ todo \in [Workers -> SUBSET Nodes]
    /\ target \in [Workers -> Nodes]
    /\ tries \in [Workers -> Nat]
    /\ client \in [Workers -> Workers \cup {Nobody}]
    /\ net \subseteq Requests
    /\ expired \in BOOLEAN
    /\ holding \subseteq Workers /\ forsaken \subseteq Nodes

Bounds == resends \in Nat /\ mishaps \in Nat /\ resends + mishaps <= MaxEvents

\* What a worker holds where it is.
Holdings ==
    /\ \A w \in Workers : at[w] \in Busy => Home[w] \in has
    /\ \A w \in Workers : at[w] = "noting" => todo[w] \subseteq Knows[Home[w]]
    /\ \A w \in Workers : at[w] \in Pushing => todo[w] \subseteq Knows[Home[w]]
    /\ \A w \in Workers : at[w] \in Aimed => target[w] \in todo[w]
\* At most one request or worker is to answer a worker, and only while it waits.
Tokens ==
    /\ \A q \in net : q.client \in Workers => at[q.client] = "waiting"
    /\ \A x \in Workers : client[x] \in Workers => at[client[x]] = "waiting"
    /\ \A q, r \in net : q.client \in Workers /\ q.client = r.client => q = r
    /\ \A x, y \in Workers : client[x] \in Workers /\ client[x] = client[y] => x = y
    /\ \A q \in net, x \in Workers : q.client \in Workers => client[x] # q.client

LEMMA Loosed ==
    ASSUME NEW q \in Requests
    PROVE  LET r == [q EXCEPT !.client = Nobody] IN
           r \in Requests /\ r.client = Nobody /\ r.to = q.to /\ r.by = q.by /\ r.payload = q.payload
BY DEF Requests

\* What becomes of a worker that ends and of the one that waited for it.
Ended(w, answer) ==
    /\ \A x \in Workers : carry'[x] = IF x = w THEN Fresh ELSE carry[x]
    /\ \A x \in Workers : todo'[x] = IF x = w THEN {} ELSE todo[x]
    /\ \A x \in Workers :
          \/ x = w /\ at'[x] = "idle"
          \/ x # w /\ x = client[w] /\ at[x] = "waiting" /\ at'[x] = answer
          \/ x # w /\ at'[x] = at[x]

LEMMA EndsFrame ==
    ASSUME Types, Tokens, NEW w \in Workers, at[w] # "waiting",
           NEW answer \in {"answered", "failed"}, Ends(w, answer)
    PROVE  Ended(w, answer)
<1>1. \A x \in Workers : carry'[x] = IF x = w THEN Fresh ELSE carry[x]
  BY DEF Types, Ends
<1>2. \A x \in Workers : todo'[x] = IF x = w THEN {} ELSE todo[x]
  BY DEF Types, Ends
<1>3. \A x \in Workers : x = client[w] => at[x] = "waiting" /\ x # w
  BY DEF Tokens
<1>4. \A x \in Workers : \/ x = w /\ at'[x] = "idle"
                         \/ x # w /\ x = client[w] /\ at[x] = "waiting" /\ at'[x] = answer
                         \/ x # w /\ at'[x] = at[x]
  BY <1>3 DEF Ends
<1> QED BY <1>1, <1>2, <1>4 DEF Ended

LEMMA TypesKept ==
    ASSUME Types, Holdings, [Next]_vars PROVE Types'
<1> USE Types, Holdings, ConstantsAssumption DEF Types, Holdings, Busy, Aimed, Pushing,
      Places, Payloads, Fresh,
    tableVars, workVars, pastVars
<1>1. ASSUME NEW w \in Workers, NEW q \in net, Receive(w, q) PROVE Types'
  BY <1>1 DEF Receive, Starts, Requests
<1>2. ASSUME NEW w \in Workers, NEW n \in Nodes, PollRead(w, n) PROVE Types'
  <2>1. <<n, Home[w]>> \in Nodes \X Nodes
    OBVIOUS
  <2>2. queue[<<n, Home[w]>>] \in Payloads \cup {NoPayload}
    BY <2>1
  <2>3. queue[<<n, Home[w]>>] \in Payloads
    BY <1>2, <2>2 DEF PollRead
  <2>4. /\ carry' = [carry EXCEPT ![w] = queue[<<n, Home[w]>>]]
        /\ target' = [target EXCEPT ![w] = n] /\ holding' = holding \cup {w}
    BY <1>2 DEF PollRead
  <2>7. /\ carry' \in [Workers -> Payloads] /\ target' \in [Workers -> Nodes]
        /\ holding' \subseteq Workers
    <3> HIDE ConstantsAssumption DEF Holdings, Places, Payloads
    <3> QED BY <2>3, <2>4
  <2>5. at' \in [Workers -> Places]
    BY <1>2 DEF PollRead
  <2>6. UNCHANGED <<has, complete, sentTo, queue, todo, tries, client, net, expired, forsaken>>
    BY <1>2 DEF PollRead
  <2> HIDE ConstantsAssumption DEF Holdings, Places, Payloads
  <2> QED BY <2>7, <2>5, <2>6
<1>3. ASSUME NEW w \in Workers, PollDelete(w) PROVE Types'
  BY <1>3 DEF PollDelete, Drops, Delete
<1>4. ASSUME NEW w \in Workers, PollReceives(w) PROVE Types'
  BY <1>4 DEF PollReceives, Starts
<1>5. ASSUME NEW w \in Workers, BeginExpired(w) PROVE Types'
  BY <1>5 DEF BeginExpired, Returns, Ends, Delete
<1>6. ASSUME NEW w \in Workers, Begin(w) PROVE Types'
  BY <1>6 DEF Begin, Noted, Payloads
<1>7. ASSUME NEW w \in Workers, NEW m \in Nodes, Note(w, m) PROVE Types'
  BY <1>7 DEF Note
<1>8. ASSUME NEW w \in Workers, SelectNone(w) PROVE Types'
  BY <1>8 DEF SelectNone, Returns, Ends
<1>9. ASSUME NEW w \in Workers, Select(w) PROVE Types'
  BY <1>9 DEF Select, Selections, Remaining, PayloadSeen, Payloads
<1>10. ASSUME NEW w \in Workers, NEW m \in Nodes, Push(w, m) PROVE Types'
  BY <1>10 DEF Push, Request, Requests
<1>11. ASSUME NEW w \in Workers, GivesUp(w) PROVE Types'
  <2>1. net' \subseteq Requests
    <3> SUFFICES ASSUME NEW q \in net
                 PROVE (IF q.client = w THEN [q EXCEPT !.client = Nobody] ELSE q) \in Requests
      BY <1>11 DEF GivesUp
    <3> QED BY Loosed
  <2>2. client' \in [Workers -> Workers \cup {Nobody}]
    BY <1>11 DEF GivesUp
  <2> QED BY <1>11, <2>1, <2>2 DEF GivesUp
<1>12. ASSUME NEW w \in Workers, TriesNext(w) PROVE Types'
  BY <1>12 DEF TriesNext, Request, Requests
<1>13. ASSUME NEW w \in Workers, Succeeds(w) PROVE Types'
  BY <1>13 DEF Succeeds, Delete
<1>14. ASSUME NEW w \in Workers, Unqueued(w) PROVE Types'
  BY <1>14 DEF Unqueued, Exhausted, Told, Drops
<1>15. ASSUME NEW w \in Workers, QueueExpired(w) PROVE Types'
  BY <1>15 DEF QueueExpired, Exhausted, Delete
<1>16. ASSUME NEW w \in Workers, GetOrCreate(w) PROVE Types'
  <2>1. Created(Home[w], target[w], carry[w]) \in Payloads \cup {NoPayload}
    BY DEF Created
  <2>2. queue' \in [Nodes \X Nodes -> Payloads \cup {NoPayload}]
    BY <1>16, <2>1 DEF GetOrCreate
  <2> QED BY <1>16, <2>2 DEF GetOrCreate
<1>17. ASSUME NEW w \in Workers, SaveEntry(w) PROVE Types'
  BY <1>17 DEF SaveEntry
<1>18. ASSUME NEW w \in Workers, BreaksOff(w) PROVE Types'
  BY <1>18 DEF BreaksOff, Ends, Drops
<1>19. ASSUME NEW w \in Workers, CountsTold(w) PROVE Types'
  BY <1>19 DEF CountsTold, Told, Drops
<1>20. ASSUME NEW w \in Workers, Close(w) PROVE Types'
  BY <1>20 DEF Close, Returns, Ends
<1>21. ASSUME NEW w \in Workers, Broadcast(w) PROVE Types'
  BY <1>21 DEF Broadcast, Starts
<1>22. ASSUME NEW w \in Workers, Resend(w) PROVE Types'
  BY <1>22 DEF Resend, Starts
<1>23. ASSUME NEW w \in Workers, BeginUpgrading(w) PROVE Types'
  BY <1>23 DEF BeginUpgrading, Returns, Ends, Mishap
<1>24. ASSUME NEW w \in Workers, PollLost(w) PROVE Types'
  BY <1>24 DEF PollLost, Mishap
<1>25. ASSUME NEW q \in net, Lose(q) PROVE Types'
  BY <1>25 DEF Lose, Mishap
<1>26. ASSUME NEW n \in Nodes, NEW m \in Nodes, QueueDrops(n, m) PROVE Types'
  BY <1>26 DEF QueueDrops, Delete, Mishap
<1>27. CASE Expire
  BY <1>27 DEF Expire, Mishap
<1>28. ASSUME NEW n \in Nodes, Crash(n) PROVE Types'
  <2> DEFINE gone == {w \in Workers : Home[w] = n \/ (at[w] = "polling" /\ target[w] = n)}
  <2>1. net' \subseteq Requests
    <3> SUFFICES ASSUME NEW q \in net
                 PROVE (IF q.client \in gone THEN [q EXCEPT !.client = Nobody] ELSE q) \in Requests
      BY <1>28 DEF Crash
    <3> HIDE DEF gone
    <3> QED BY Loosed
  <2>2. /\ at' \in [Workers -> Places]
        /\ client' \in [Workers -> Workers \cup {Nobody}]
    BY <1>28 DEF Crash
  <2>3. /\ carry' \in [Workers -> Payloads] /\ todo' \in [Workers -> SUBSET Nodes]
        /\ target' \in [Workers -> Nodes] /\ tries' \in [Workers -> Nat]
    BY <1>28 DEF Crash
  <2> QED BY <1>28, <2>1, <2>2, <2>3 DEF Crash
<1>29. CASE UNCHANGED vars  BY <1>29 DEF vars
<1> QED
  BY <1>1, <1>2, <1>3, <1>4, <1>5, <1>6, <1>7, <1>8, <1>9, <1>10, <1>11, <1>12,
     <1>13, <1>14, <1>15, <1>16, <1>17, <1>18, <1>19, <1>20, <1>21, <1>22, <1>23,
     <1>24, <1>25, <1>26, <1>27, <1>28, <1>29
  DEF Next, Works, Misfortune

LEMMA HoldingsKept ==
    ASSUME Types, Holdings, Tokens, [Next]_vars PROVE Holdings'
<1> USE Types, Holdings, Tokens, ConstantsAssumption DEF Types, Holdings, Tokens, Busy, Aimed,
      Pushing, Places, Payloads, Fresh,
    tableVars, workVars, pastVars
<1>1. ASSUME NEW w \in Workers, NEW q \in net, Receive(w, q) PROVE Holdings'
  BY <1>1 DEF Receive, Starts, Requests
<1>2. ASSUME NEW w \in Workers, NEW n \in Nodes, PollRead(w, n) PROVE Holdings'
  BY <1>2 DEF PollRead
<1>3. ASSUME NEW w \in Workers, PollDelete(w) PROVE Holdings'
  BY <1>3 DEF PollDelete, Drops, Delete
<1>4. ASSUME NEW w \in Workers, PollReceives(w) PROVE Holdings'
  BY <1>4 DEF PollReceives, Starts
<1>5. ASSUME NEW w \in Workers, BeginExpired(w) PROVE Holdings'
  BY <1>5 DEF BeginExpired, Returns, Ends, Delete
<1>6. ASSUME NEW w \in Workers, Begin(w) PROVE Holdings'
  BY <1>6 DEF Begin, Noted, Payloads
<1>7. ASSUME NEW w \in Workers, NEW m \in Nodes, Note(w, m) PROVE Holdings'
  BY <1>7 DEF Note
<1>8. ASSUME NEW w \in Workers, SelectNone(w) PROVE Holdings'
  BY <1>8 DEF SelectNone, Returns, Ends
<1>9. ASSUME NEW w \in Workers, Select(w) PROVE Holdings'
  BY <1>9 DEF Select, Selections, Remaining, PayloadSeen, Payloads
<1>10. ASSUME NEW w \in Workers, NEW m \in Nodes, Push(w, m) PROVE Holdings'
  BY <1>10 DEF Push, Request, Requests
<1>11. ASSUME NEW w \in Workers, GivesUp(w) PROVE Holdings'
  BY <1>11 DEF GivesUp, Requests
<1>12. ASSUME NEW w \in Workers, TriesNext(w) PROVE Holdings'
  BY <1>12 DEF TriesNext, Request, Requests
<1>13. ASSUME NEW w \in Workers, Succeeds(w) PROVE Holdings'
  BY <1>13 DEF Succeeds, Delete
<1>14. ASSUME NEW w \in Workers, Unqueued(w) PROVE Holdings'
  BY <1>14 DEF Unqueued, Exhausted, Told, Drops
<1>15. ASSUME NEW w \in Workers, QueueExpired(w) PROVE Holdings'
  BY <1>15 DEF QueueExpired, Exhausted, Delete
<1>16. ASSUME NEW w \in Workers, GetOrCreate(w) PROVE Holdings'
  BY <1>16 DEF GetOrCreate, Exhausted
<1>17. ASSUME NEW w \in Workers, SaveEntry(w) PROVE Holdings'
  BY <1>17 DEF SaveEntry
<1>18. ASSUME NEW w \in Workers, BreaksOff(w) PROVE Holdings'
  BY <1>18 DEF BreaksOff, Ends, Drops
<1>19. ASSUME NEW w \in Workers, CountsTold(w) PROVE Holdings'
  BY <1>19 DEF CountsTold, Told, Drops
<1>20. ASSUME NEW w \in Workers, Close(w) PROVE Holdings'
  BY <1>20 DEF Close, Returns, Ends
<1>21. ASSUME NEW w \in Workers, Broadcast(w) PROVE Holdings'
  BY <1>21 DEF Broadcast, Starts
<1>22. ASSUME NEW w \in Workers, Resend(w) PROVE Holdings'
  BY <1>22 DEF Resend, Starts
<1>23. ASSUME NEW w \in Workers, BeginUpgrading(w) PROVE Holdings'
  BY <1>23 DEF BeginUpgrading, Returns, Ends, Mishap
<1>24. ASSUME NEW w \in Workers, PollLost(w) PROVE Holdings'
  BY <1>24 DEF PollLost, Mishap
<1>25. ASSUME NEW q \in net, Lose(q) PROVE Holdings'
  BY <1>25 DEF Lose, Mishap
<1>26. ASSUME NEW n \in Nodes, NEW m \in Nodes, QueueDrops(n, m) PROVE Holdings'
  BY <1>26 DEF QueueDrops, Delete, Mishap
<1>27. CASE Expire
  BY <1>27 DEF Expire, Mishap
<1>28. ASSUME NEW n \in Nodes, Crash(n) PROVE Holdings'
  BY <1>28 DEF Crash, Mishap
<1>29. CASE UNCHANGED vars  BY <1>29 DEF vars
<1> QED
  BY <1>1, <1>2, <1>3, <1>4, <1>5, <1>6, <1>7, <1>8, <1>9, <1>10, <1>11, <1>12,
     <1>13, <1>14, <1>15, <1>16, <1>17, <1>18, <1>19, <1>20, <1>21, <1>22, <1>23,
     <1>24, <1>25, <1>26, <1>27, <1>28, <1>29
  DEF Next, Works, Misfortune

LEMMA TokensKept ==
    ASSUME Types, Tokens, [Next]_vars PROVE Tokens'
<1> USE Types, Tokens, ConstantsAssumption DEF Types, Tokens, Places, tableVars, workVars,
      pastVars
<1>1. ASSUME NEW w \in Workers, NEW q \in net, Receive(w, q) PROVE Tokens'
  BY <1>1 DEF Receive, Starts, Requests
<1>2. ASSUME NEW w \in Workers, NEW n \in Nodes, PollRead(w, n) PROVE Tokens'
  BY <1>2 DEF PollRead
<1>3. ASSUME NEW w \in Workers, PollDelete(w) PROVE Tokens'
  BY <1>3 DEF PollDelete, Drops, Delete
<1>4. ASSUME NEW w \in Workers, PollReceives(w) PROVE Tokens'
  BY <1>4 DEF PollReceives, Starts
<1>5. ASSUME NEW w \in Workers, BeginExpired(w) PROVE Tokens'
  BY <1>5 DEF BeginExpired, Returns, Ends, Delete
<1>6. ASSUME NEW w \in Workers, Begin(w) PROVE Tokens'
  BY <1>6 DEF Begin, Noted, Payloads
<1>7. ASSUME NEW w \in Workers, NEW m \in Nodes, Note(w, m) PROVE Tokens'
  BY <1>7 DEF Note
<1>8. ASSUME NEW w \in Workers, SelectNone(w) PROVE Tokens'
  BY <1>8 DEF SelectNone, Returns, Ends
<1>9. ASSUME NEW w \in Workers, Select(w) PROVE Tokens'
  BY <1>9 DEF Select, Selections, Remaining, PayloadSeen, Payloads
<1>10. ASSUME NEW w \in Workers, NEW m \in Nodes, Push(w, m) PROVE Tokens'
  BY <1>10 DEF Push, Request, Requests
<1>11. ASSUME NEW w \in Workers, GivesUp(w) PROVE Tokens'
  BY <1>11 DEF GivesUp, Requests
<1>12. ASSUME NEW w \in Workers, TriesNext(w) PROVE Tokens'
  BY <1>12 DEF TriesNext, Request, Requests
<1>13. ASSUME NEW w \in Workers, Succeeds(w) PROVE Tokens'
  BY <1>13 DEF Succeeds, Delete
<1>14. ASSUME NEW w \in Workers, Unqueued(w) PROVE Tokens'
  BY <1>14 DEF Unqueued, Exhausted, Told, Drops
<1>15. ASSUME NEW w \in Workers, QueueExpired(w) PROVE Tokens'
  BY <1>15 DEF QueueExpired, Exhausted, Delete
<1>16. ASSUME NEW w \in Workers, GetOrCreate(w) PROVE Tokens'
  BY <1>16 DEF GetOrCreate, Exhausted
<1>17. ASSUME NEW w \in Workers, SaveEntry(w) PROVE Tokens'
  BY <1>17 DEF SaveEntry
<1>18. ASSUME NEW w \in Workers, BreaksOff(w) PROVE Tokens'
  BY <1>18 DEF BreaksOff, Ends, Drops
<1>19. ASSUME NEW w \in Workers, CountsTold(w) PROVE Tokens'
  BY <1>19 DEF CountsTold, Told, Drops
<1>20. ASSUME NEW w \in Workers, Close(w) PROVE Tokens'
  BY <1>20 DEF Close, Returns, Ends
<1>21. ASSUME NEW w \in Workers, Broadcast(w) PROVE Tokens'
  BY <1>21 DEF Broadcast, Starts
<1>22. ASSUME NEW w \in Workers, Resend(w) PROVE Tokens'
  BY <1>22 DEF Resend, Starts
<1>23. ASSUME NEW w \in Workers, BeginUpgrading(w) PROVE Tokens'
  BY <1>23 DEF BeginUpgrading, Returns, Ends, Mishap
<1>24. ASSUME NEW w \in Workers, PollLost(w) PROVE Tokens'
  BY <1>24 DEF PollLost, Mishap
<1>25. ASSUME NEW q \in net, Lose(q) PROVE Tokens'
  BY <1>25 DEF Lose, Mishap
<1>26. ASSUME NEW n \in Nodes, NEW m \in Nodes, QueueDrops(n, m) PROVE Tokens'
  BY <1>26 DEF QueueDrops, Delete, Mishap
<1>27. CASE Expire
  BY <1>27 DEF Expire, Mishap
<1>28. ASSUME NEW n \in Nodes, Crash(n) PROVE Tokens'
  <2> DEFINE gone == {w \in Workers : Home[w] = n \/ (at[w] = "polling" /\ target[w] = n)}
             loosed(q) == IF q.client \in gone THEN [q EXCEPT !.client = Nobody] ELSE q
  <2>1. /\ at' = [w \in Workers |-> IF w \in gone THEN "idle" ELSE at[w]]
        /\ client' = [w \in Workers |-> IF w \in gone \/ client[w] \in gone THEN Nobody
                                        ELSE client[w]]
        /\ net' = {loosed(q) : q \in net}
    BY <1>28 DEF Crash
  <2>2. \A q \in net : loosed(q).client \in Workers =>
             loosed(q) = q /\ q.client \notin gone
    <3> HIDE DEF gone
    <3> QED BY DEF Requests
  <2>3. \A x \in Workers : client'[x] \in Workers =>
             client'[x] = client[x] /\ client[x] \notin gone
    <3> HIDE DEF gone
    <3> QED BY <2>1
  <2> HIDE DEF gone, loosed
  <2> QED BY <2>1, <2>2, <2>3
<1>29. CASE UNCHANGED vars  BY <1>29 DEF vars
<1> QED
  BY <1>1, <1>2, <1>3, <1>4, <1>5, <1>6, <1>7, <1>8, <1>9, <1>10, <1>11, <1>12,
     <1>13, <1>14, <1>15, <1>16, <1>17, <1>18, <1>19, <1>20, <1>21, <1>22, <1>23,
     <1>24, <1>25, <1>26, <1>27, <1>28, <1>29
  DEF Next, Works, Misfortune
-----------------------------------------------------------------------------
(* No copy comes back *)

\* What a copy has passed is named by it; what it names has been noted as told
\* when peers are selected; so no selected peer has been passed.
WorkerPaths ==
    /\ \A w \in Workers : carry[w].path \subseteq carry[w].seen
    /\ \A w \in Workers : at[w] = "noting" =>
          (carry[w].seen \cap Knows[Home[w]]) \ todo[w] \subseteq sentTo[Home[w]]
    /\ \A w \in Workers : at[w] \in Pushing => todo[w] \cap carry[w].path = {}
    /\ \A w \in Workers : at[w] \in {"polling", "pulled"} => Home[w] \notin carry[w].path
NetPaths ==
    \A q \in net : q.payload.path \subseteq q.payload.seen /\ q.to \notin q.payload.path
QueuePaths ==
    \A n, m \in Nodes : queue[<<n, m>>] # NoPayload =>
        queue[<<n, m>>].path \subseteq queue[<<n, m>>].seen /\ m \notin queue[<<n, m>>].path
Paths == WorkerPaths /\ NetPaths /\ QueuePaths

LEMMA QueueOnlyLoses ==
    ASSUME QueuePaths,
           \A n, m \in Nodes : queue'[<<n, m>>] \in {queue[<<n, m>>], NoPayload}
    PROVE  QueuePaths'
BY DEF QueuePaths

\* Only one entry is written, with a payload that keeps to the rule.
LEMMA QueueTakes ==
    ASSUME QueuePaths, NEW w \in Workers,
           target[w] \notin carry[w].path, carry[w].path \subseteq carry[w].seen,
           \A n, m \in Nodes : \/ queue'[<<n, m>>] \in {queue[<<n, m>>], NoPayload}
                               \/ m = target[w] /\ queue'[<<n, m>>] = carry[w]
    PROVE  QueuePaths'
<1> SUFFICES ASSUME NEW n \in Nodes, NEW m \in Nodes, queue'[<<n, m>>] # NoPayload
             PROVE  /\ queue'[<<n, m>>].path \subseteq queue'[<<n, m>>].seen
                    /\ m \notin queue'[<<n, m>>].path
  BY DEF QueuePaths
<1>1. CASE queue'[<<n, m>>] = queue[<<n, m>>]
  BY <1>1 DEF QueuePaths
<1>2. CASE m = target[w] /\ queue'[<<n, m>>] = carry[w]
  BY <1>2
<1> QED BY <1>1, <1>2

LEMMA EndsKeepsPaths ==
    ASSUME Types, Tokens, WorkerPaths, NEW w \in Workers, at[w] # "waiting",
           NEW answer \in {"answered", "failed"}, Ends(w, answer), sentTo' = sentTo
    PROVE  WorkerPaths'
<1> USE EndsFrame DEF Ended
<1>1. \A x \in Workers : carry'[x].path \subseteq carry'[x].seen
  BY DEF WorkerPaths, Fresh
<1>2. \A x \in Workers : at'[x] = "noting" =>
          (carry'[x].seen \cap Knows[Home[x]]) \ todo'[x] \subseteq sentTo'[Home[x]]
  BY DEF WorkerPaths
<1>3. \A x \in Workers : at'[x] \in Pushing => todo'[x] \cap carry'[x].path = {}
  BY DEF WorkerPaths, Pushing
<1>4. \A x \in Workers : at'[x] \in {"polling", "pulled"} => Home[x] \notin carry'[x].path
  BY DEF WorkerPaths
<1> QED BY <1>1, <1>2, <1>3, <1>4 DEF WorkerPaths

LEMMA PathsKept ==
    ASSUME Types, Holdings, Tokens, Paths, [Next]_vars PROVE Paths'
<1>a. ASSUME NEW w \in Workers, NEW answer \in {"answered", "failed"},
             at[w] # "waiting", Ends(w, answer), sentTo' = sentTo
      PROVE  WorkerPaths' /\ NetPaths'
  <2>1. WorkerPaths'
    BY <1>a, EndsKeepsPaths DEF Paths
  <2>2. NetPaths'
    BY <1>a DEF Paths, NetPaths, Ends
  <2> QED BY <2>1, <2>2
<1>c. ASSUME queue' = queue PROVE QueuePaths'
  BY <1>c DEF Paths, QueuePaths
<1>b. ASSUME NEW w \in Workers,
             target[w] \notin carry[w].path, carry[w].path \subseteq carry[w].seen,
             \A n, m \in Nodes : \/ queue'[<<n, m>>] \in {queue[<<n, m>>], NoPayload}
                                 \/ m = target[w] /\ queue'[<<n, m>>] = carry[w]
      PROVE  QueuePaths'
  BY <1>b, QueueTakes DEF Paths
<1> USE Types, Holdings, Tokens, Paths, ConstantsAssumption DEF Types, Holdings, Paths,
      Aimed, Pushing, Payloads, Fresh, tableVars, workVars, pastVars
<1>1. ASSUME NEW w \in Workers, NEW q \in net, Receive(w, q) PROVE Paths'
  <2> HIDE ConstantsAssumption DEF Holdings, Aimed, Payloads
  <2> QED BY <1>1 DEF Receive, Starts, Requests, WorkerPaths, NetPaths, QueuePaths
<1>2. ASSUME NEW w \in Workers, NEW n \in Nodes, PollRead(w, n) PROVE Paths'
  <2>1. /\ queue[<<n, Home[w]>>] # NoPayload /\ at' = [at EXCEPT ![w] = "polling"]
        /\ carry' = [carry EXCEPT ![w] = queue[<<n, Home[w]>>]]
        /\ UNCHANGED <<sentTo, todo, net, queue>>
    BY <1>2 DEF PollRead
  <2>2. Home[w] \in Nodes
    OBVIOUS
  <2>3. Home[w] \notin queue[<<n, Home[w]>>].path
        /\ queue[<<n, Home[w]>>].path \subseteq queue[<<n, Home[w]>>].seen
    BY <2>1, <2>2 DEF QueuePaths
  <2> HIDE ConstantsAssumption DEF Holdings, Aimed, Payloads
  <2> QED BY <2>1, <2>3 DEF WorkerPaths, NetPaths, QueuePaths
<1>3. ASSUME NEW w \in Workers, PollDelete(w) PROVE Paths'
  <2> HIDE ConstantsAssumption DEF Holdings, Aimed, Payloads
  <2> QED BY <1>3 DEF PollDelete, Drops, Delete, WorkerPaths, NetPaths, QueuePaths
<1>4. ASSUME NEW w \in Workers, PollReceives(w) PROVE Paths'
  <2>1. /\ at' = [at EXCEPT ![w] = "begin"] /\ todo' = [todo EXCEPT ![w] = {}]
        /\ UNCHANGED <<carry, sentTo, queue, net>>
    BY <1>4 DEF PollReceives, Starts
  <2> HIDE ConstantsAssumption DEF Holdings, Aimed, Payloads
  <2> QED BY <2>1 DEF WorkerPaths, NetPaths, QueuePaths
<1>5. ASSUME NEW w \in Workers, BeginExpired(w) PROVE Paths'
  <2>1. \A i, j \in Nodes : queue'[<<i, j>>] \in {queue[<<i, j>>], NoPayload}
    BY <1>5 DEF BeginExpired, Delete
  <2>2. at[w] # "waiting" /\ Ends(w, "answered") /\ sentTo' = sentTo
    BY <1>5 DEF BeginExpired, Returns
  <2>3. WorkerPaths' /\ NetPaths'
    BY <2>2, <1>a
  <2> QED BY <2>1, <2>3, QueueOnlyLoses
<1>6. ASSUME NEW w \in Workers, Begin(w) PROVE Paths'
  BY <1>6 DEF Begin, Noted, Payloads, WorkerPaths, NetPaths, QueuePaths
<1>7. ASSUME NEW w \in Workers, NEW m \in Nodes, Note(w, m) PROVE Paths'
  BY <1>7 DEF Note, WorkerPaths, NetPaths, QueuePaths
<1>8. ASSUME NEW w \in Workers, SelectNone(w) PROVE Paths'
  <2>1. at[w] # "waiting" /\ Ends(w, "answered") /\ UNCHANGED <<sentTo, queue>>
    BY <1>8 DEF SelectNone, Returns
  <2> QED BY <2>1, <1>a, <1>c
<1>9. ASSUME NEW w \in Workers, Select(w) PROVE Paths'
  <2>1. PICK S \in Selections(Home[w], Remaining(Home[w])) :
           /\ todo' = [todo EXCEPT ![w] = S]
           /\ carry' = [carry EXCEPT ![w] =
                           [seen |-> carry[w].seen \cup S, path |-> carry[w].path]]
    BY <1>9 DEF Select, PayloadSeen
  <2>2. S \subseteq Eligible[Home[w]] \ sentTo[Home[w]]
    BY <2>1 DEF Selections, Remaining
  <2>3. Home[w] \in Nodes /\ Eligible[Home[w]] \subseteq Knows[Home[w]]
    OBVIOUS
  <2>4. /\ at[w] = "noting" /\ todo[w] = {} /\ at' = [at EXCEPT ![w] = "sending"]
        /\ UNCHANGED <<sentTo, net, queue>>
    BY <1>9 DEF Select
  <2> HIDE ConstantsAssumption DEF Holdings, Aimed, Payloads
  <2>5. S \cap carry[w].path = {}
    BY <2>2, <2>3, <2>4 DEF WorkerPaths
  <2>6. /\ carry'[w].path = carry[w].path /\ carry'[w].seen = carry[w].seen \cup S
        /\ \A x \in Workers : x # w => carry'[x] = carry[x]
    BY <2>1
  <2>7. WorkerPaths'
    BY <2>1, <2>4, <2>5, <2>6 DEF WorkerPaths
  <2> QED BY <2>4, <2>7 DEF NetPaths, QueuePaths
<1>10. ASSUME NEW w \in Workers, NEW m \in Nodes, Push(w, m) PROVE Paths'
  <2>1. WorkerPaths' /\ QueuePaths'
    BY <1>10 DEF Push, WorkerPaths, QueuePaths
  <2>2. m \notin carry[w].path /\ carry[w].path \subseteq carry[w].seen
    BY <1>10 DEF Push, WorkerPaths
  <2>3. Request(w, m).to = m /\ Request(w, m).payload = carry[w]
    BY DEF Request
  <2>4. NetPaths'
    BY <1>10, <2>2, <2>3 DEF Push, NetPaths
  <2> QED BY <2>1, <2>4
<1>11. ASSUME NEW w \in Workers, GivesUp(w) PROVE Paths'
  <2>1. \A r \in net' : \E q \in net : r = q \/ r = [q EXCEPT !.client = Nobody]
    BY <1>11 DEF GivesUp
  <2>2. \A q \in net : LET r == [q EXCEPT !.client = Nobody] IN r.to = q.to /\ r.payload = q.payload
    BY Loosed
  <2>3. NetPaths'
    <3> SUFFICES ASSUME NEW r \in net'
                 PROVE  r.payload.path \subseteq r.payload.seen /\ r.to \notin r.payload.path
      BY DEF NetPaths
    <3>1. PICK q \in net : r = q \/ r = [q EXCEPT !.client = Nobody]
      BY <2>1
    <3>2. r.to = q.to /\ r.payload = q.payload
      BY <3>1, <2>2
    <3> QED BY <3>2 DEF NetPaths
  <2>4. WorkerPaths'
    BY <1>11 DEF GivesUp, WorkerPaths
  <2> QED BY <1>11, <2>3, <2>4 DEF GivesUp, QueuePaths
<1>12. ASSUME NEW w \in Workers, TriesNext(w) PROVE Paths'
  BY <1>12 DEF TriesNext, Request, Requests, WorkerPaths, NetPaths, QueuePaths
<1>13. ASSUME NEW w \in Workers, Succeeds(w) PROVE Paths'
  <2>1. \A i, j \in Nodes : queue'[<<i, j>>] \in {queue[<<i, j>>], NoPayload}
    BY <1>13 DEF Succeeds, Delete
  <2>2. WorkerPaths' /\ NetPaths'
    BY <1>13 DEF Succeeds, Delete, WorkerPaths, NetPaths
  <2> QED BY <2>1, <2>2, QueueOnlyLoses
<1>14. ASSUME NEW w \in Workers, Unqueued(w) PROVE Paths'
  <2>1. WorkerPaths' /\ NetPaths' /\ queue' = queue
    BY <1>14 DEF Unqueued, Exhausted, Told, Drops, WorkerPaths, NetPaths
  <2> QED BY <2>1, <1>c
<1>15. ASSUME NEW w \in Workers, QueueExpired(w) PROVE Paths'
  <2>1. \A i, j \in Nodes : queue'[<<i, j>>] \in {queue[<<i, j>>], NoPayload}
    BY <1>15 DEF QueueExpired, Delete
  <2>2. WorkerPaths' /\ NetPaths'
    BY <1>15 DEF QueueExpired, Exhausted, Delete, WorkerPaths, NetPaths
  <2> QED BY <2>1, <2>2, QueueOnlyLoses
<1>16. ASSUME NEW w \in Workers, GetOrCreate(w) PROVE Paths'
  <2>1. WorkerPaths' /\ NetPaths'
    BY <1>16 DEF GetOrCreate, Exhausted, WorkerPaths, NetPaths
  <2>2. target[w] \notin carry[w].path /\ carry[w].path \subseteq carry[w].seen
    BY <1>16 DEF GetOrCreate, Exhausted, WorkerPaths
  <2>3. \A i, j \in Nodes :
            \/ queue'[<<i, j>>] \in {queue[<<i, j>>], NoPayload}
            \/ j = target[w] /\ queue'[<<i, j>>] = carry[w]
    <3>1. Created(Home[w], target[w], carry[w]) \in {queue[<<Home[w], target[w]>>], carry[w]}
      BY DEF Created
    <3>2. \A k \in Nodes \X Nodes :
              queue'[k] = IF k = <<Home[w], target[w]>> THEN Created(Home[w], target[w], carry[w])
                          ELSE queue[k]
      BY <1>16 DEF GetOrCreate
    <3> HIDE ConstantsAssumption DEF Types, Holdings, Paths
    <3> QED BY <3>1, <3>2
  <2>4. QueuePaths'
    BY <2>2, <2>3, <1>b
  <2> QED BY <2>1, <2>4
<1>17. ASSUME NEW w \in Workers, SaveEntry(w) PROVE Paths'
  <2>1. WorkerPaths' /\ NetPaths'
    BY <1>17 DEF SaveEntry, WorkerPaths, NetPaths
  <2>2. target[w] \notin carry[w].path /\ carry[w].path \subseteq carry[w].seen
    BY <1>17 DEF SaveEntry, WorkerPaths
  <2>3. \A i, j \in Nodes :
            \/ queue'[<<i, j>>] \in {queue[<<i, j>>], NoPayload}
            \/ j = target[w] /\ queue'[<<i, j>>] = carry[w]
    BY <1>17 DEF SaveEntry
  <2>4. QueuePaths'
    BY <2>2, <2>3, <1>b
  <2> QED BY <2>1, <2>4
<1>18. ASSUME NEW w \in Workers, BreaksOff(w) PROVE Paths'
  <2>1. at[w] # "waiting" /\ Ends(w, "failed") /\ UNCHANGED <<sentTo, queue>>
    BY <1>18 DEF BreaksOff
  <2> QED BY <2>1, <1>a, <1>c
<1>19. ASSUME NEW w \in Workers, CountsTold(w) PROVE Paths'
  <2>1. WorkerPaths' /\ NetPaths' /\ queue' = queue
    BY <1>19 DEF CountsTold, Told, Drops, WorkerPaths, NetPaths
  <2> QED BY <2>1, <1>c
<1>20. ASSUME NEW w \in Workers, Close(w) PROVE Paths'
  <2>1. at[w] # "waiting" /\ Ends(w, "answered") /\ UNCHANGED <<sentTo, queue>>
    BY <1>20 DEF Close, Returns
  <2> QED BY <2>1, <1>a, <1>c
<1>21. ASSUME NEW w \in Workers, Broadcast(w) PROVE Paths'
  BY <1>21 DEF Broadcast, Starts, WorkerPaths, NetPaths, QueuePaths
<1>22. ASSUME NEW w \in Workers, Resend(w) PROVE Paths'
  BY <1>22 DEF Resend, Starts, WorkerPaths, NetPaths, QueuePaths
<1>23. ASSUME NEW w \in Workers, BeginUpgrading(w) PROVE Paths'
  <2>1. at[w] # "waiting" /\ Ends(w, "answered") /\ UNCHANGED <<sentTo, queue>>
    BY <1>23 DEF BeginUpgrading, Returns
  <2> QED BY <2>1, <1>a, <1>c
<1>24. ASSUME NEW w \in Workers, PollLost(w) PROVE Paths'
  BY <1>24 DEF PollLost, Mishap, WorkerPaths, NetPaths, QueuePaths
<1>25. ASSUME NEW q \in net, Lose(q) PROVE Paths'
  BY <1>25 DEF Lose, Mishap, WorkerPaths, NetPaths, QueuePaths
<1>26. ASSUME NEW n \in Nodes, NEW m \in Nodes, QueueDrops(n, m) PROVE Paths'
  <2>1. \A i, j \in Nodes : queue'[<<i, j>>] \in {queue[<<i, j>>], NoPayload}
    BY <1>26 DEF QueueDrops, Delete
  <2>2. WorkerPaths' /\ NetPaths'
    BY <1>26 DEF QueueDrops, Delete, WorkerPaths, NetPaths
  <2> QED BY <2>1, <2>2, QueueOnlyLoses
<1>27. CASE Expire
  BY <1>27 DEF Expire, Mishap, WorkerPaths, NetPaths, QueuePaths
<1>28. ASSUME NEW n \in Nodes, Crash(n) PROVE Paths'
  <2>1. \A r \in net' : \E q \in net : r = q \/ r = [q EXCEPT !.client = Nobody]
    BY <1>28 DEF Crash
  <2>2. \A q \in net : LET r == [q EXCEPT !.client = Nobody] IN r.to = q.to /\ r.payload = q.payload
    BY Loosed
  <2>3. NetPaths'
    <3> SUFFICES ASSUME NEW r \in net'
                 PROVE  r.payload.path \subseteq r.payload.seen /\ r.to \notin r.payload.path
      BY DEF NetPaths
    <3>1. PICK q \in net : r = q \/ r = [q EXCEPT !.client = Nobody]
      BY <2>1
    <3>2. r.to = q.to /\ r.payload = q.payload
      BY <3>1, <2>2
    <3> QED BY <3>2 DEF NetPaths
  <2>4. WorkerPaths'
    BY <1>28 DEF Crash, WorkerPaths
  <2> QED BY <1>28, <2>3, <2>4 DEF Crash, QueuePaths
<1>29. CASE UNCHANGED vars
  BY <1>29 DEF vars, WorkerPaths, NetPaths, QueuePaths
<1> QED
  BY <1>1, <1>2, <1>3, <1>4, <1>5, <1>6, <1>7, <1>8, <1>9, <1>10, <1>11, <1>12,
     <1>13, <1>14, <1>15, <1>16, <1>17, <1>18, <1>19, <1>20, <1>21, <1>22, <1>23,
     <1>24, <1>25, <1>26, <1>27, <1>28, <1>29
  DEF Next, Works, Misfortune
-----------------------------------------------------------------------------
(* Complete means told *)

LEMMA NoneReached ==
    ASSUME NEW n \in Nodes, NEW R \in SUBSET Nodes, {} \in Selections(n, R)
    PROVE  \A m \in R : ~(Tier[m] > 0)
<1> DEFINE reached == {m \in R : Tier[m] > 0}
<1>1. IsFiniteSet(reached)
  BY FS_Subset, ConstantsAssumption
<1>2. Cardinality({}) = 0
  BY FS_EmptySet
<1>3. Cardinality(reached) \in Nat
  BY <1>1, FS_CardinalityType
<1>4. Limit[n] \in Nat \ {0}
  BY ConstantsAssumption
<1>5. Cardinality(reached) = 0
  BY <1>2, <1>3, <1>4 DEF Selections
<1>6. reached = {}
  BY <1>1, <1>5, FS_EmptySet
<1> QED BY <1>6

LEMMA AllTold ==
    ASSUME Types, NEW n \in Nodes, Eligible[n] = Knows[n],
           Cardinality(sentTo[n]) >= Cardinality(Eligible[n])
    PROVE  Eligible[n] = sentTo[n]
<1>1. IsFiniteSet(Knows[n]) /\ sentTo[n] \subseteq Knows[n]
  BY FS_Subset, ConstantsAssumption DEF Types
<1>2. /\ Cardinality(sentTo[n]) <= Cardinality(Knows[n])
      /\ Cardinality(sentTo[n]) = Cardinality(Knows[n]) => sentTo[n] = Knows[n]
      /\ Cardinality(sentTo[n]) \in Nat /\ Cardinality(Knows[n]) \in Nat
  BY <1>1, FS_Subset, FS_CardinalityType
<1> QED BY <1>2

\* Only these touch what CompleteWhenTold is about, or add to it.
LEMMA StaysTold ==
    ASSUME Types, CompleteWhenTold, complete' = complete, expired => expired',
           \A n \in Nodes : sentTo[n] \subseteq sentTo'[n]
    PROVE  CompleteWhenTold'
BY DEF Types, CompleteWhenTold

LEMMA CompleteKept ==
    ASSUME Types, Holdings, CompleteWhenTold, [Next]_vars PROVE CompleteWhenTold'
<1> USE Types, Holdings, CompleteWhenTold DEF tableVars, workVars, pastVars
<1>0. ASSUME NEW w \in Workers PROVE Home[w] \in Nodes
  BY ConstantsAssumption
<1>1. ASSUME NEW w \in Workers, BeginExpired(w) PROVE CompleteWhenTold'
  BY <1>1 DEF BeginExpired, CompleteWhenTold
<1>2. ASSUME NEW w \in Workers, SelectNone(w) PROVE CompleteWhenTold'
  <2>1. \A m \in Remaining(Home[w]) : ~(Tier[m] > 0)
    <3>1. Remaining(Home[w]) \in SUBSET Nodes
      BY <1>0, ConstantsAssumption DEF Remaining
    <3> QED BY <1>2, <1>0, <3>1, NoneReached DEF SelectNone
  <2> QED BY <1>2, <2>1 DEF SelectNone, Remaining, CompleteWhenTold
<1>3. ASSUME NEW w \in Workers, Close(w) PROVE CompleteWhenTold'
  BY <1>3, <1>0, AllTold DEF Close, CompleteWhenTold
<1>4. ASSUME NEW w \in Workers, Unqueued(w) PROVE CompleteWhenTold'
  BY <1>4, StaysTold DEF Unqueued, Told, Types
<1>5. ASSUME NEW w \in Workers, QueueExpired(w) PROVE CompleteWhenTold'
  BY <1>5 DEF QueueExpired, CompleteWhenTold
<1>6. ASSUME NEW w \in Workers, GetOrCreate(w) PROVE CompleteWhenTold'
  BY <1>6, StaysTold DEF GetOrCreate
<1>7. ASSUME NEW w \in Workers, SaveEntry(w) PROVE CompleteWhenTold'
  BY <1>7, StaysTold DEF SaveEntry
<1>8. ASSUME NEW w \in Workers, BreaksOff(w) PROVE CompleteWhenTold'
  BY <1>8, StaysTold DEF BreaksOff
<1>9. ASSUME NEW w \in Workers, CountsTold(w) PROVE CompleteWhenTold'
  BY <1>9, StaysTold DEF CountsTold, Told, Types
<1>10. ASSUME NEW w \in Workers, NEW q \in net, Receive(w, q) PROVE CompleteWhenTold'
  BY <1>10, StaysTold DEF Receive
<1>11. ASSUME NEW w \in Workers, NEW n \in Nodes, PollRead(w, n) PROVE CompleteWhenTold'
  BY <1>11, StaysTold DEF PollRead
<1>12. ASSUME NEW w \in Workers, PollDelete(w) PROVE CompleteWhenTold'
  BY <1>12, StaysTold DEF PollDelete
<1>13. ASSUME NEW w \in Workers, PollReceives(w) PROVE CompleteWhenTold'
  BY <1>13, StaysTold DEF PollReceives
<1>14. ASSUME NEW w \in Workers, Begin(w) PROVE CompleteWhenTold'
  BY <1>14, StaysTold DEF Begin
<1>15. ASSUME NEW w \in Workers, NEW m \in Nodes, Note(w, m) PROVE CompleteWhenTold'
  BY <1>15, StaysTold DEF Note, Types
<1>16. ASSUME NEW w \in Workers, Select(w) PROVE CompleteWhenTold'
  BY <1>16, StaysTold DEF Select
<1>17. ASSUME NEW w \in Workers, NEW m \in Nodes, Push(w, m) PROVE CompleteWhenTold'
  BY <1>17, StaysTold DEF Push
<1>18. ASSUME NEW w \in Workers, GivesUp(w) PROVE CompleteWhenTold'
  BY <1>18, StaysTold DEF GivesUp
<1>19. ASSUME NEW w \in Workers, TriesNext(w) PROVE CompleteWhenTold'
  BY <1>19, StaysTold DEF TriesNext
<1>20. ASSUME NEW w \in Workers, Succeeds(w) PROVE CompleteWhenTold'
  BY <1>20, StaysTold DEF Succeeds
<1>21. ASSUME NEW w \in Workers, Broadcast(w) PROVE CompleteWhenTold'
  BY <1>21, StaysTold DEF Broadcast
<1>22. ASSUME NEW w \in Workers, Resend(w) PROVE CompleteWhenTold'
  BY <1>22, StaysTold DEF Resend
<1>23. ASSUME NEW w \in Workers, BeginUpgrading(w) PROVE CompleteWhenTold'
  BY <1>23, StaysTold DEF BeginUpgrading
<1>24. ASSUME NEW w \in Workers, PollLost(w) PROVE CompleteWhenTold'
  BY <1>24, StaysTold DEF PollLost
<1>25. ASSUME NEW q \in net, Lose(q) PROVE CompleteWhenTold'
  BY <1>25, StaysTold DEF Lose
<1>26. ASSUME NEW n \in Nodes, NEW m \in Nodes, QueueDrops(n, m) PROVE CompleteWhenTold'
  BY <1>26, StaysTold DEF QueueDrops
<1>27. CASE Expire
  BY <1>27, StaysTold DEF Expire
<1>28. ASSUME NEW n \in Nodes, Crash(n) PROVE CompleteWhenTold'
  BY <1>28, StaysTold DEF Crash
<1>29. CASE UNCHANGED vars
  BY <1>29, StaysTold DEF vars
<1> QED
  BY <1>1, <1>2, <1>3, <1>4, <1>5, <1>6, <1>7, <1>8, <1>9, <1>10, <1>11, <1>12,
     <1>13, <1>14, <1>15, <1>16, <1>17, <1>18, <1>19, <1>20, <1>21, <1>22, <1>23,
     <1>24, <1>25, <1>26, <1>27, <1>28, <1>29
  DEF Next, Works, Misfortune
-----------------------------------------------------------------------------
(* Nobody is forgotten *)

Reached(m) == m \in has \/ Underway(m) \/ m \in forsaken

\* A message for m that is not, or no longer, on its way by a push of n.
Carried(n, m) ==
    \/ m \in has \/ queue[<<n, m>>] # NoPayload
    \/ \E w \in Workers : at[w] \in {"polling", "pulled"} /\ Home[w] = m

\* Who answers for the request to a peer downstream when it is lost.
Backed(n, m) ==
    \/ Carried(n, m)
    \/ \E w \in Workers : at[w] \in Asking /\ Home[w] = n /\ target[w] = m

\* Whatever names a node: what is noted, sent, queued, or worked on.
NamedReached ==
    /\ \A n \in Nodes : \A m \in sentTo[n] : Reached(m)
    /\ \A q \in net : \A m \in q.payload.seen : Reached(m)
    /\ \A k \in Nodes \X Nodes : queue[k] # NoPayload => \A m \in queue[k].seen : Reached(m)
    /\ \A w \in Workers : \A m \in carry[w].seen : Reached(m)
    /\ \A w \in Workers : at[w] = "noting" => todo[w] \subseteq carry[w].seen

\* A peer pushed to has answered, and has the message; or it will be queued for;
\* or the request is there to be handled.
PushesSafe ==
    /\ \A q \in net : q.client \in Workers => target[q.client] = q.to
    /\ \A x \in Workers : client[x] \in Workers => target[client[x]] = Home[x]
    /\ \A w \in Workers : at[w] = "answered" => target[w] \in has
    /\ \A w \in Workers : at[w] \in {"waiting", "failed"} =>
          \/ target[w] \in has \/ target[w] \in Downstream[Home[w]]
          \/ \E q \in net : q.by = Home[w] /\ q.to = target[w]

NetBacked == \A q \in net : q.to \in Downstream[q.by] => Backed(q.by, q.to)

\* A peer that counts as told next has the message, or its entry is there, or
\* was fetched: whether or not save() finds it.
Entered ==
    \A w \in Workers : at[w] \in {"created", "found", "settled"} => Carried(Home[w], target[w])

Kept == ~expired /\ NamedReached /\ PushesSafe /\ NetBacked /\ Entered

\* A step that takes the message no way away from m without another.
LEMMA ReachedIf ==
    ASSUME NEW m \in Nodes, Reached(m), has \subseteq has', forsaken \subseteq forsaken',
           \A n \in Nodes : queue[<<n, m>>] # NoPayload =>
               queue'[<<n, m>>] # NoPayload \/ Reached(m)',
           \A q \in net : q.to = m => (\E r \in net' : r.to = m) \/ Reached(m)',
           \A w \in Workers : at[w] \in Pushing /\ m \in todo[w] =>
               (at'[w] \in Pushing /\ m \in todo'[w]) \/ Reached(m)',
           \A w \in Workers : at[w] \in {"polling", "pulled"} /\ Home[w] = m =>
               at'[w] \in {"polling", "pulled"} \/ Reached(m)'
    PROVE  Reached(m)'
<1>1. CASE m \in has \/ m \in forsaken
  BY <1>1 DEF Reached
<1>2. CASE \E n \in Nodes : queue[<<n, m>>] # NoPayload
  BY <1>2 DEF Reached, Underway
<1>3. CASE \E q \in net : q.to = m
  BY <1>3 DEF Reached, Underway
<1>4. CASE \E w \in Workers : at[w] \in Pushing /\ m \in todo[w]
  BY <1>4 DEF Reached, Underway
<1>5. CASE \E w \in Workers : at[w] \in {"polling", "pulled"} /\ Home[w] = m
  BY <1>5 DEF Reached, Underway
<1> QED BY <1>1, <1>2, <1>3, <1>4, <1>5 DEF Reached, Underway

LEMMA HasReached == \A m : (m \in has => Reached(m)) /\ (m \in has' => Reached(m)')
BY DEF Reached

LEMMA CarriedIf ==
    ASSUME NEW n, NEW m, Carried(n, m), has \subseteq has',
           queue[<<n, m>>] # NoPayload => queue'[<<n, m>>] # NoPayload \/ Carried(n, m)',
           \A w \in Workers : at[w] \in {"polling", "pulled"} /\ Home[w] = m =>
               at'[w] \in {"polling", "pulled"} \/ Carried(n, m)'
    PROVE  Carried(n, m)'
<1>1. CASE \E w \in Workers : at[w] \in {"polling", "pulled"} /\ Home[w] = m
  BY <1>1 DEF Carried
<1>2. CASE m \in has \/ queue[<<n, m>>] # NoPayload
  BY <1>2 DEF Carried
<1> QED BY <1>1, <1>2 DEF Carried

LEMMA HasCarried == \A n, m : (m \in has => Carried(n, m)) /\ (m \in has' => Carried(n, m)')
BY DEF Carried

LEMMA CarriedReached ==
    \A n \in Nodes : \A m : (Carried(n, m) => Reached(m)) /\ (Carried(n, m)' => Reached(m)')
BY DEF Carried, Reached, Underway

LEMMA StaysCarried ==
    ASSUME Types, Holdings, Tokens, Bounds, Kept, mishaps = 0,
           NEW n \in Nodes, NEW m \in Nodes, Carried(n, m), Next, mishaps' = 0
    PROVE  Carried(n, m)'
<1>e. ASSUME NEW w \in Workers, NEW answer \in {"answered", "failed"},
             at[w] # "waiting", Ends(w, answer)
      PROVE  Ended(w, answer)
  BY <1>e, EndsFrame
<1> USE Types, Holdings, Tokens, Bounds, Kept, ConstantsAssumption, Carried(n, m) DEF Types,
      Holdings, Bounds, Kept, Busy, Asking, Aimed, Pushing, Places, Payloads, Fresh,
    tableVars, workVars, pastVars
<1>1. ASSUME NEW w \in Workers, NEW q \in net, Receive(w, q) PROVE Carried(n, m)'
  BY <1>1, CarriedIf, HasCarried DEF Receive, Starts, Requests
<1>2. ASSUME NEW w \in Workers, NEW k \in Nodes, PollRead(w, k) PROVE Carried(n, m)'
  BY <1>2, CarriedIf, HasCarried DEF PollRead
<1>3. ASSUME NEW w \in Workers, PollDelete(w) PROVE Carried(n, m)'
  <2>1. at'[w] = "pulled" /\ Home[w] = m => Carried(n, m)'
    BY DEF Carried
  <2>2. queue[<<n, m>>] # NoPayload => queue'[<<n, m>>] # NoPayload \/ Home[w] = m
    BY <1>3 DEF PollDelete, Delete, Entry
  <2>3. at[w] = "polling" /\ at'[w] = "pulled"
    BY <1>3 DEF PollDelete
  <2> QED BY <1>3, <2>1, <2>2, <2>3, CarriedIf DEF PollDelete, Drops
<1>4. ASSUME NEW w \in Workers, PollReceives(w) PROVE Carried(n, m)'
  BY <1>4, CarriedIf, HasCarried DEF PollReceives, Starts
<1>5. ASSUME NEW w \in Workers, BeginExpired(w) PROVE Carried(n, m)'
  BY <1>5, CarriedIf, HasCarried DEF BeginExpired, Kept
<1>6. ASSUME NEW w \in Workers, Begin(w) PROVE Carried(n, m)'
  BY <1>6, CarriedIf, HasCarried DEF Begin, Noted, Payloads
<1>7. ASSUME NEW w \in Workers, NEW k \in Nodes, Note(w, k) PROVE Carried(n, m)'
  BY <1>7, CarriedIf, HasCarried DEF Note
<1>8. ASSUME NEW w \in Workers, SelectNone(w) PROVE Carried(n, m)'
  <2>0. Ended(w, "answered") /\ at[w] = "noting"
    <3>1. at[w] = "noting" /\ Ends(w, "answered")
      BY <1>8 DEF SelectNone, Returns
    <3> QED BY <3>1, <1>e
  <2>1. \A x \in Workers : at[x] \in {"polling", "pulled"} => at'[x] \in {"polling", "pulled"}
    <3> HIDE ConstantsAssumption DEF Types, Holdings, Bounds, Kept
    <3> QED BY <2>0 DEF Ended
  <2>2. has' = has /\ queue' = queue
    BY <1>8 DEF SelectNone, Returns, Ends
  <2> HIDE DEF Types, Holdings, Bounds, Kept, Payloads, Places, Busy, Fresh
  <2> QED BY <2>1, <2>2, CarriedIf
<1>9. ASSUME NEW w \in Workers, Select(w) PROVE Carried(n, m)'
  BY <1>9, CarriedIf, HasCarried DEF Select, Selections, Remaining, PayloadSeen, Payloads
<1>10. ASSUME NEW w \in Workers, NEW k \in Nodes, Push(w, k) PROVE Carried(n, m)'
  BY <1>10, CarriedIf, HasCarried DEF Push, Request, Requests
<1>11. ASSUME NEW w \in Workers, GivesUp(w) PROVE Carried(n, m)'
  BY <1>11, CarriedIf, HasCarried DEF GivesUp, Requests
<1>12. ASSUME NEW w \in Workers, TriesNext(w) PROVE Carried(n, m)'
  BY <1>12, CarriedIf, HasCarried DEF TriesNext, Request, Requests
<1>13. ASSUME NEW w \in Workers, Succeeds(w) PROVE Carried(n, m)'
  <2>1. m = target[w] => Carried(n, m)'
    BY <1>13, HasCarried DEF Succeeds, PushesSafe
  <2>2. queue[<<n, m>>] # NoPayload => queue'[<<n, m>>] # NoPayload \/ m = target[w]
    BY <1>13 DEF Succeeds, Delete
  <2>3. /\ has' = has /\ at[w] = "answered"
        /\ \A x \in Workers : x # w => at'[x] = at[x]
    BY <1>13 DEF Succeeds
  <2> HIDE DEF Types, Holdings, Bounds, Kept, Payloads, Places, Busy, Fresh
  <2> QED BY <2>1, <2>2, <2>3, CarriedIf
<1>14. ASSUME NEW w \in Workers, Unqueued(w) PROVE Carried(n, m)'
  <2>1. /\ has' = has /\ queue' = queue /\ at[w] = "failed"
        /\ \A x \in Workers : x # w => at'[x] = at[x]
    BY <1>14 DEF Unqueued, Exhausted, Told
  <2> HIDE DEF Types, Holdings, Bounds, Kept, Payloads, Places, Busy, Fresh
  <2> QED BY <2>1, CarriedIf
<1>15. ASSUME NEW w \in Workers, QueueExpired(w) PROVE Carried(n, m)'
  BY <1>15 DEF QueueExpired
<1>16. ASSUME NEW w \in Workers, GetOrCreate(w) PROVE Carried(n, m)'
  <2>1. carry[w] # NoPayload
    BY DEF Payloads
  <2>2. queue[<<n, m>>] # NoPayload => queue'[<<n, m>>] # NoPayload
    BY <1>16, <2>1 DEF GetOrCreate, Created
  <2>3. has' = has /\ at[w] = "failed" /\ \A x \in Workers : x # w => at'[x] = at[x]
    BY <1>16 DEF GetOrCreate, Exhausted
  <2> HIDE DEF Types, Holdings, Bounds, Kept, Payloads, Places, Busy, Fresh
  <2> QED BY <2>2, <2>3, CarriedIf
<1>17. ASSUME NEW w \in Workers, SaveEntry(w) PROVE Carried(n, m)'
  <2>1. carry[w] # NoPayload
    BY DEF Payloads
  <2>2. queue[<<n, m>>] # NoPayload => queue'[<<n, m>>] # NoPayload
    BY <1>17, <2>1 DEF SaveEntry
  <2>3. /\ has' = has /\ at[w] \in {"created", "found"}
        /\ \A x \in Workers : x # w => at'[x] = at[x]
    BY <1>17 DEF SaveEntry
  <2> HIDE DEF Types, Holdings, Bounds, Kept, Payloads, Places, Busy, Fresh
  <2> QED BY <2>2, <2>3, CarriedIf
<1>18. ASSUME NEW w \in Workers, BreaksOff(w) PROVE Carried(n, m)'
  <2>0. Ended(w, "failed") /\ at[w] \in {"created", "found"}
    <3>1. at[w] \in {"created", "found"} /\ Ends(w, "failed")
      BY <1>18 DEF BreaksOff
    <3> QED BY <3>1, <1>e
  <2>1. \A x \in Workers : at[x] \in {"polling", "pulled"} => at'[x] \in {"polling", "pulled"}
    <3> HIDE ConstantsAssumption DEF Types, Holdings, Bounds, Kept
    <3> QED BY <2>0 DEF Ended
  <2>2. has' = has /\ queue' = queue
    BY <1>18 DEF BreaksOff
  <2> HIDE DEF Types, Holdings, Bounds, Kept, Payloads, Places, Busy, Fresh
  <2> QED BY <2>1, <2>2, CarriedIf
<1>19. ASSUME NEW w \in Workers, CountsTold(w) PROVE Carried(n, m)'
  <2>1. /\ has' = has /\ queue' = queue /\ at[w] = "settled"
        /\ \A x \in Workers : x # w => at'[x] = at[x]
    BY <1>19 DEF CountsTold, Told
  <2> HIDE DEF Types, Holdings, Bounds, Kept, Payloads, Places, Busy, Fresh
  <2> QED BY <2>1, CarriedIf
<1>20. ASSUME NEW w \in Workers, Close(w) PROVE Carried(n, m)'
  <2>0. Ended(w, "answered") /\ at[w] = "sending" /\ todo[w] = {}
    <3>1. at[w] = "sending" /\ todo[w] = {} /\ Ends(w, "answered")
      BY <1>20 DEF Close, Returns
    <3> QED BY <3>1, <1>e
  <2>1. \A x \in Workers : at[x] \in {"polling", "pulled"} => at'[x] \in {"polling", "pulled"}
    <3> HIDE ConstantsAssumption DEF Types, Holdings, Bounds, Kept
    <3> QED BY <2>0 DEF Ended
  <2>2. has' = has /\ queue' = queue
    BY <1>20 DEF Close, Returns, Ends
  <2> HIDE DEF Types, Holdings, Bounds, Kept, Payloads, Places, Busy, Fresh
  <2> QED BY <2>1, <2>2, CarriedIf
<1>21. ASSUME NEW w \in Workers, Broadcast(w) PROVE Carried(n, m)'
  BY <1>21, CarriedIf, HasCarried DEF Broadcast, Starts
<1>22. ASSUME NEW w \in Workers, Resend(w) PROVE Carried(n, m)'
  BY <1>22, CarriedIf, HasCarried DEF Resend, Starts
<1>23. ASSUME NEW w \in Workers, BeginUpgrading(w) PROVE Carried(n, m)'
  BY <1>23, CarriedIf, HasCarried DEF BeginUpgrading, Mishap
<1>24. ASSUME NEW w \in Workers, PollLost(w) PROVE Carried(n, m)'
  BY <1>24, CarriedIf, HasCarried DEF PollLost, Mishap
<1>25. ASSUME NEW q \in net, Lose(q) PROVE Carried(n, m)'
  BY <1>25, CarriedIf, HasCarried DEF Lose, Mishap
<1>26. ASSUME NEW i \in Nodes, NEW k \in Nodes, QueueDrops(i, k) PROVE Carried(n, m)'
  BY <1>26, CarriedIf, HasCarried DEF QueueDrops, Mishap, Kept
<1>27. CASE Expire
  BY <1>27, CarriedIf, HasCarried DEF Expire, Mishap
<1>28. ASSUME NEW k \in Nodes, Crash(k) PROVE Carried(n, m)'
  BY <1>28, CarriedIf, HasCarried DEF Crash, Mishap
<1> QED
  BY <1>1, <1>2, <1>3, <1>4, <1>5, <1>6, <1>7, <1>8, <1>9, <1>10, <1>11, <1>12,
     <1>13, <1>14, <1>15, <1>16, <1>17, <1>18, <1>19, <1>20, <1>21, <1>22, <1>23,
     <1>24, <1>25, <1>26, <1>27, <1>28
  DEF Next, Works, Misfortune

LEMMA StaysReached ==
    ASSUME Types, Holdings, Tokens, Bounds, Kept, mishaps = 0,
           NEW m \in Nodes, Reached(m), Next, mishaps' = 0
    PROVE  Reached(m)'
<1>e. ASSUME NEW w \in Workers, NEW answer \in {"answered", "failed"},
             at[w] # "waiting", Ends(w, answer)
      PROVE  Ended(w, answer)
  BY <1>e, EndsFrame
<1> USE Types, Holdings, Tokens, Bounds, Kept, Reached(m), ConstantsAssumption DEF Types,
      Holdings, Bounds, Busy, Aimed, Pushing, Places, Fresh,
    tableVars, workVars, pastVars
<1>1. ASSUME NEW w \in Workers, NEW q \in net, Receive(w, q) PROVE Reached(m)'
  BY <1>1, ReachedIf, HasReached DEF Receive, Starts, Requests
<1>2. ASSUME NEW w \in Workers, NEW n \in Nodes, PollRead(w, n) PROVE Reached(m)'
  BY <1>2, ReachedIf, HasReached DEF PollRead
<1>3. ASSUME NEW w \in Workers, PollDelete(w) PROVE Reached(m)'
  <2>1. at'[w] = "pulled" /\ Reached(Home[w])'
    BY <1>3 DEF PollDelete, Reached, Underway
  <2>2. \A n \in Nodes : queue[<<n, m>>] # NoPayload =>
            queue'[<<n, m>>] # NoPayload \/ m = Home[w]
    BY <1>3 DEF PollDelete, Delete, Entry
  <2> QED BY <1>3, <2>1, <2>2, ReachedIf DEF PollDelete, Delete
<1>4. ASSUME NEW w \in Workers, PollReceives(w) PROVE Reached(m)'
  BY <1>4, ReachedIf, HasReached DEF PollReceives, Starts
<1>5. ASSUME NEW w \in Workers, BeginExpired(w) PROVE Reached(m)'
  BY <1>5, ReachedIf, HasReached DEF BeginExpired, Kept
<1>6. ASSUME NEW w \in Workers, Begin(w) PROVE Reached(m)'
  BY <1>6, ReachedIf, HasReached DEF Begin, Noted, Payloads
<1>7. ASSUME NEW w \in Workers, NEW k \in Nodes, Note(w, k) PROVE Reached(m)'
  <2>1. at[w] = "noting" /\ todo' = [todo EXCEPT ![w] = @ \ {k}] /\ UNCHANGED <<has, queue, net, at, forsaken>>
    BY <1>7 DEF Note
  <2>2. \A x \in Workers : at[x] \in Pushing => at'[x] \in Pushing /\ todo'[x] = todo[x]
    <3>1. todo \in [Workers -> SUBSET Nodes]
      OBVIOUS
    <3> HIDE DEF Types, Holdings, Bounds, Kept, Payloads, Places
    <3> QED BY <2>1, <3>1
  <2> HIDE DEF Types, Holdings, Bounds, Kept, Payloads, Places, Busy, Pushing
  <2> QED BY <2>1, <2>2, ReachedIf
<1>8. ASSUME NEW w \in Workers, SelectNone(w) PROVE Reached(m)'
  <2>0. Ended(w, "answered") /\ at[w] = "noting"
    <3>1. at[w] = "noting" /\ Ends(w, "answered")
      BY <1>8 DEF SelectNone, Returns
    <3> QED BY <3>1, <1>e
  <2>1. \A x \in Workers : at[x] \in Pushing /\ m \in todo[x] =>
            at'[x] \in Pushing /\ m \in todo'[x]
    <3> HIDE ConstantsAssumption DEF Types, Holdings, Bounds, Kept
    <3> QED BY <2>0 DEF Ended
  <2>2. \A x \in Workers : at[x] \in {"polling", "pulled"} => at'[x] \in {"polling", "pulled"}
    <3> HIDE ConstantsAssumption DEF Types, Holdings, Bounds, Kept
    <3> QED BY <2>0 DEF Ended
  <2> QED BY <1>8, <2>1, <2>2, ReachedIf DEF SelectNone, Returns, Ends
<1>9. ASSUME NEW w \in Workers, Select(w) PROVE Reached(m)'
  <2>1. /\ at[w] = "noting" /\ at' = [at EXCEPT ![w] = "sending"] /\ UNCHANGED <<has, queue, net, forsaken>>
        /\ \A x \in Workers : x # w => todo'[x] = todo[x]
    BY <1>9 DEF Select
  <2>2. \A x \in Workers : at[x] \in Pushing => at'[x] \in Pushing /\ todo'[x] = todo[x]
    BY <2>1
  <2>3. \A x \in Workers : at[x] \in {"polling", "pulled"} => at'[x] = at[x]
    BY <2>1
  <2> HIDE DEF Types, Holdings, Bounds, Kept, Payloads, Places, Busy, Pushing
  <2> QED BY <2>1, <2>2, <2>3, ReachedIf
<1>10. ASSUME NEW w \in Workers, NEW k \in Nodes, Push(w, k) PROVE Reached(m)'
  <2>1. /\ UNCHANGED <<has, queue, todo, forsaken>> /\ net' = net \cup {Request(w, k)}
        /\ at[w] = "sending" /\ at' = [at EXCEPT ![w] = "waiting"]
    BY <1>10 DEF Push
  <2>2. \A x \in Workers : /\ at[x] \in Pushing => at'[x] \in Pushing
                           /\ at[x] \in {"polling", "pulled"} => at'[x] = at[x]
    BY <2>1
  <2> HIDE DEF Types, Holdings, Bounds, Kept, Payloads, Places, Busy, Pushing
  <2> QED BY <2>1, <2>2, ReachedIf
<1>11. ASSUME NEW w \in Workers, GivesUp(w) PROVE Reached(m)'
  <2>1. \A q \in net : q.to = m => \E r \in net' : r.to = m
    <3> SUFFICES ASSUME NEW q \in net, q.to = m PROVE \E r \in net' : r.to = m
      OBVIOUS
    <3> DEFINE loosed(r) == IF r.client = w THEN [r EXCEPT !.client = Nobody] ELSE r
    <3>1. net' = {loosed(r) : r \in net}
      BY <1>11 DEF GivesUp
    <3>2. loosed(q).to = m
      BY Loosed
    <3> HIDE DEF loosed
    <3> QED BY <3>1, <3>2
  <2>2. \A x \in Workers : at'[x] = at[x] \/ (at[x] = "waiting" /\ at'[x] = "failed")
    <3>1. at[w] = "waiting" /\ at' = [at EXCEPT ![w] = "failed"]
      BY <1>11 DEF GivesUp
    <3> QED BY <3>1
  <2>3. UNCHANGED <<has, queue, todo, forsaken>>
    BY <1>11 DEF GivesUp
  <2>4. /\ \A x \in Workers : at[x] \in Pushing => at'[x] \in Pushing
        /\ \A x \in Workers : at[x] \in {"polling", "pulled"} => at'[x] \in {"polling", "pulled"}
    BY <2>2
  <2> QED BY <2>1, <2>3, <2>4, ReachedIf
<1>12. ASSUME NEW w \in Workers, TriesNext(w) PROVE Reached(m)'
  BY <1>12, ReachedIf, HasReached DEF TriesNext, Request, Requests
<1>13. ASSUME NEW w \in Workers, Succeeds(w) PROVE Reached(m)'
  <2>1. m = target[w] => Reached(m)'
    BY <1>13, HasReached DEF Succeeds, Kept, PushesSafe
  <2>2. \A n \in Nodes : queue[<<n, m>>] # NoPayload =>
            queue'[<<n, m>>] # NoPayload \/ m = target[w]
    BY <1>13 DEF Succeeds, Delete
  <2>3. /\ at[w] = "answered" /\ at'[w] = "settled"
        /\ \A x \in Workers : x # w => at'[x] = at[x]
        /\ UNCHANGED <<has, todo, net, forsaken>>
    BY <1>13 DEF Succeeds
  <2> HIDE DEF Types, Holdings, Bounds, Kept, Payloads, Places, Busy
  <2> QED BY <2>1, <2>2, <2>3, ReachedIf
<1>14. ASSUME NEW w \in Workers, Unqueued(w) PROVE Reached(m)'
  <2>1. m = target[w] => Reached(m)'
    <3>1. at[w] = "failed" /\ target[w] \notin Downstream[Home[w]] /\ PushesSafe
      BY <1>14 DEF Unqueued, Exhausted, Kept
    <3> HIDE ConstantsAssumption DEF Types, Holdings, Bounds, Kept
    <3>2. m = target[w] => m \in has \/ \E q \in net : q.to = m
      BY <3>1 DEF PushesSafe
    <3> QED BY <1>14, <3>2 DEF Unqueued, Told, Reached, Underway
  <2>2. \A x \in Workers : at[x] \in Pushing /\ m \in todo[x] =>
            (at'[x] \in Pushing /\ m \in todo'[x]) \/ m = target[w]
    BY <1>14 DEF Unqueued, Told
  <2> QED BY <1>14, <2>1, <2>2, ReachedIf DEF Unqueued, Exhausted, Told
<1>15. ASSUME NEW w \in Workers, QueueExpired(w) PROVE Reached(m)'
  BY <1>15 DEF QueueExpired, Kept
<1>16. ASSUME NEW w \in Workers, GetOrCreate(w) PROVE Reached(m)'
  <2>1. carry[w] # NoPayload
    BY DEF Payloads
  <2>2. \A n \in Nodes : queue[<<n, m>>] # NoPayload => queue'[<<n, m>>] # NoPayload
    BY <1>16, <2>1 DEF GetOrCreate, Created
  <2>3. /\ at[w] = "failed" /\ at'[w] \in {"created", "found"}
        /\ \A x \in Workers : x # w => at'[x] = at[x]
        /\ UNCHANGED <<has, todo, net, forsaken>>
    BY <1>16 DEF GetOrCreate, Exhausted
  <2> HIDE DEF Types, Holdings, Bounds, Kept, Payloads, Places, Busy
  <2> QED BY <2>2, <2>3, ReachedIf
<1>17. ASSUME NEW w \in Workers, SaveEntry(w) PROVE Reached(m)'
  <2>1. carry[w] # NoPayload
    BY DEF Payloads
  <2>2. \A n \in Nodes : queue[<<n, m>>] # NoPayload => queue'[<<n, m>>] # NoPayload
    BY <1>17, <2>1 DEF SaveEntry
  <2>3. /\ at[w] \in {"created", "found"} /\ at'[w] = "settled"
        /\ \A x \in Workers : x # w => at'[x] = at[x]
        /\ UNCHANGED <<has, todo, net, forsaken>>
    BY <1>17 DEF SaveEntry
  <2> HIDE DEF Types, Holdings, Bounds, Kept, Payloads, Places, Busy
  <2> QED BY <2>2, <2>3, ReachedIf
<1>18. ASSUME NEW w \in Workers, BreaksOff(w) PROVE Reached(m)'
  <2>0. Ended(w, "failed") /\ at[w] \in {"created", "found"}
    <3>1. at[w] \in {"created", "found"} /\ Ends(w, "failed")
      BY <1>18 DEF BreaksOff
    <3> QED BY <3>1, <1>e
  <2>1. m = target[w] => Reached(m)'
    <3> SUFFICES ASSUME m = target[w] PROVE Reached(m)'
      OBVIOUS
    <3>1. Carried(Home[w], m) /\ Home[w] \in Nodes
      BY <1>18 DEF BreaksOff, Kept, Entered
    <3> HIDE DEF Types, Holdings, Bounds, Kept
    <3>2. Carried(Home[w], m)'
      BY <3>1, StaysCarried
    <3> QED BY <3>1, <3>2, CarriedReached
  <2>2. m \in todo[w] /\ m # target[w] => Reached(m)'
    BY <1>18 DEF BreaksOff, Reached
  <2>3. \A x \in Workers : at[x] \in Pushing /\ m \in todo[x] =>
            (at'[x] \in Pushing /\ m \in todo'[x]) \/ (x = w /\ m \in todo[w])
    <3> HIDE ConstantsAssumption DEF Types, Holdings, Bounds, Kept
    <3> QED BY <2>0 DEF Ended
  <2>4. \A x \in Workers : at[x] \in {"polling", "pulled"} => at'[x] \in {"polling", "pulled"}
    <3> HIDE ConstantsAssumption DEF Types, Holdings, Bounds, Kept
    <3> QED BY <2>0 DEF Ended
  <2>5. UNCHANGED <<has, queue, net>> /\ forsaken \subseteq forsaken'
    BY <1>18 DEF BreaksOff, Ends
  <2> HIDE DEF Types, Holdings, Bounds, Kept, Payloads, Places, Busy, Pushing
  <2> QED BY <2>1, <2>2, <2>3, <2>4, <2>5, ReachedIf
<1>19. ASSUME NEW w \in Workers, CountsTold(w) PROVE Reached(m)'
  <2>1. m = target[w] => Reached(m)'
    <3> SUFFICES ASSUME m = target[w] PROVE Reached(m)'
      OBVIOUS
    <3>1. Carried(Home[w], m) /\ Home[w] \in Nodes
      BY <1>19 DEF CountsTold, Kept, Entered
    <3> HIDE DEF Types, Holdings, Bounds, Kept
    <3>2. Carried(Home[w], m)'
      BY <3>1, StaysCarried
    <3> QED BY <3>1, <3>2, CarriedReached
  <2>2. \A x \in Workers : at[x] \in Pushing /\ m \in todo[x] =>
            (at'[x] \in Pushing /\ m \in todo'[x]) \/ m = target[w]
    BY <1>19 DEF CountsTold, Told
  <2> QED BY <1>19, <2>1, <2>2, ReachedIf DEF CountsTold, Told
<1>20. ASSUME NEW w \in Workers, Close(w) PROVE Reached(m)'
  <2>0. Ended(w, "answered") /\ at[w] = "sending" /\ todo[w] = {}
    <3>1. at[w] = "sending" /\ todo[w] = {} /\ Ends(w, "answered")
      BY <1>20 DEF Close, Returns
    <3> QED BY <3>1, <1>e
  <2>1. \A x \in Workers : at[x] \in Pushing /\ m \in todo[x] =>
            at'[x] \in Pushing /\ m \in todo'[x]
    <3> HIDE ConstantsAssumption DEF Types, Holdings, Bounds, Kept
    <3> QED BY <2>0 DEF Ended
  <2>2. \A x \in Workers : at[x] \in {"polling", "pulled"} => at'[x] \in {"polling", "pulled"}
    <3> HIDE ConstantsAssumption DEF Types, Holdings, Bounds, Kept
    <3> QED BY <2>0 DEF Ended
  <2> QED BY <1>20, <2>1, <2>2, ReachedIf DEF Close, Returns, Ends
<1>21. ASSUME NEW w \in Workers, Broadcast(w) PROVE Reached(m)'
  BY <1>21, ReachedIf, HasReached DEF Broadcast, Starts
<1>22. ASSUME NEW w \in Workers, Resend(w) PROVE Reached(m)'
  BY <1>22, ReachedIf, HasReached DEF Resend, Starts
<1>23. ASSUME NEW w \in Workers, BeginUpgrading(w) PROVE Reached(m)'
  BY <1>23, ReachedIf, HasReached DEF BeginUpgrading, Returns, Mishap
<1>24. ASSUME NEW w \in Workers, PollLost(w) PROVE Reached(m)'
  BY <1>24, ReachedIf, HasReached DEF PollLost, Mishap
<1>25. ASSUME NEW q \in net, Lose(q) PROVE Reached(m)'
  <2>1. q.to \in Downstream[q.by]
    BY <1>25 DEF Lose, Mishap
  <2>2. Backed(q.by, q.to) /\ q.by \in Nodes /\ q.to \in Nodes
    BY <2>1 DEF Kept, NetBacked, Requests
  <2>3. Reached(q.to)'
    <3>1. CASE Carried(q.by, q.to)
      BY <2>2, <3>1, StaysCarried, CarriedReached
    <3>2. CASE \E u \in Workers : at[u] \in Asking /\ target[u] = q.to
      BY <1>25, <3>2 DEF Lose, Asking, Reached, Underway
    <3> QED BY <2>2, <3>1, <3>2 DEF Backed
  <2> QED BY <1>25, <2>3, ReachedIf DEF Lose
<1>26. ASSUME NEW n \in Nodes, NEW k \in Nodes, QueueDrops(n, k) PROVE Reached(m)'
  BY <1>26, ReachedIf, HasReached DEF QueueDrops, Mishap, Kept
<1>27. CASE Expire
  BY <1>27, ReachedIf, HasReached DEF Expire, Mishap
<1>28. ASSUME NEW n \in Nodes, Crash(n) PROVE Reached(m)'
  BY <1>28, ReachedIf, HasReached DEF Crash, Mishap
<1> QED
  BY <1>1, <1>2, <1>3, <1>4, <1>5, <1>6, <1>7, <1>8, <1>9, <1>10, <1>11, <1>12,
     <1>13, <1>14, <1>15, <1>16, <1>17, <1>18, <1>19, <1>20, <1>21, <1>22, <1>23,
     <1>24, <1>25, <1>26, <1>27, <1>28
  DEF Next, Works, Misfortune
\* Names that were there before are of nodes still reached.
LEMMA NamedIf ==
    ASSUME Types, NamedReached, \A m \in Nodes : Reached(m) => Reached(m)',
           \A n \in Nodes : \A m \in sentTo'[n] : m \in sentTo[n] \/ Reached(m)',
           \A q \in net' : \A m \in q.payload.seen :
               (\E r \in net : m \in r.payload.seen) \/ Reached(m)',
           \A k \in Nodes \X Nodes : queue'[k] # NoPayload => \A m \in queue'[k].seen :
               (queue[k] # NoPayload /\ m \in queue[k].seen) \/ Reached(m)',
           \A w \in Workers : \A m \in carry'[w].seen : m \in carry[w].seen \/ Reached(m)',
           \A w \in Workers : at'[w] = "noting" => todo'[w] \subseteq carry'[w].seen
    PROVE  NamedReached'
<1>1. \A n \in Nodes : sentTo[n] \subseteq Nodes
  BY DEF Types
<1>2. \A q \in net : q.payload.seen \subseteq Nodes
  BY DEF Types, Requests, Payloads
<1>3. \A k \in Nodes \X Nodes : queue[k] # NoPayload => queue[k].seen \subseteq Nodes
  BY DEF Types, Payloads
<1>4. \A w \in Workers : carry[w].seen \subseteq Nodes
  BY DEF Types, Payloads
<1>5. \A n \in Nodes : \A m \in sentTo'[n] : Reached(m)'
  BY <1>1 DEF NamedReached
<1>6. \A q \in net' : \A m \in q.payload.seen : Reached(m)'
  BY <1>2 DEF NamedReached
<1>7. \A k \in Nodes \X Nodes : queue'[k] # NoPayload => \A m \in queue'[k].seen : Reached(m)'
  BY <1>3 DEF NamedReached
<1>8. \A w \in Workers : \A m \in carry'[w].seen : Reached(m)'
  BY <1>4 DEF NamedReached
<1> QED BY <1>5, <1>6, <1>7, <1>8 DEF NamedReached

LEMMA NetLoosed ==
    ASSUME Types, NEW w \in Workers, GivesUp(w)
    PROVE  \A r \in net' : \E q \in net :
               /\ r.to = q.to /\ r.by = q.by /\ r.payload = q.payload
               /\ r.client \in {q.client, Nobody}
<1> SUFFICES ASSUME NEW r \in net'
             PROVE  \E q \in net : /\ r.to = q.to /\ r.by = q.by /\ r.payload = q.payload
                                   /\ r.client \in {q.client, Nobody}
  OBVIOUS
<1>1. PICK q \in net : r = q \/ r = [q EXCEPT !.client = Nobody]
  BY DEF GivesUp
<1>2. q \in Requests
  BY DEF Types
<1> QED BY <1>1, <1>2, Loosed

LEMMA RequestsStay ==
    ASSUME Types, NEW w \in Workers, GivesUp(w)
    PROVE  \A q \in net : \E r \in net' : r.by = q.by /\ r.to = q.to
<1> SUFFICES ASSUME NEW q \in net PROVE \E r \in net' : r.by = q.by /\ r.to = q.to
  OBVIOUS
<1> DEFINE loosed(r) == IF r.client = w THEN [r EXCEPT !.client = Nobody] ELSE r
<1>1. net' = {loosed(r) : r \in net}
  BY DEF GivesUp
<1>2. loosed(q).by = q.by /\ loosed(q).to = q.to
  BY Loosed DEF Types
<1> HIDE DEF loosed
<1> QED BY <1>1, <1>2

\* Of a step by w that starts or ends a push, or leaves it alone.
LEMMA PushesIf ==
    ASSUME Types, PushesSafe, NEW w \in Workers,
           \A q \in net : q.client # w, \A x \in Workers : client[x] # w,
           client' = client, has \subseteq has', net \subseteq net',
           \A q \in net' : q \in net \/ (q.client = w /\ q.to = target'[w]),
           \A x \in Workers : x # w => target'[x] = target[x] /\ at'[x] = at[x],
           \/ at'[w] \in {"sending", "pulled", "created", "found", "settled"}
           \/ /\ at'[w] = "waiting"
              /\ \E q \in net' : q.by = Home[w] /\ q.to = target'[w]
    PROVE  PushesSafe'
<1>1. \A q \in net' : q.client \in Workers => target'[q.client] = q.to
  BY DEF PushesSafe
<1>2. \A x \in Workers : client'[x] \in Workers => target'[client'[x]] = Home[x]
  BY DEF PushesSafe
<1>3. \A x \in Workers : at'[x] = "answered" => target'[x] \in has'
  BY DEF PushesSafe
<1>4. ASSUME NEW x \in Workers, at'[x] \in {"waiting", "failed"}
      PROVE  \/ target'[x] \in has' \/ target'[x] \in Downstream[Home[x]]
             \/ \E q \in net' : q.by = Home[x] /\ q.to = target'[x]
  <2>1. CASE x = w
    BY <1>4, <2>1
  <2>2. CASE x # w
    BY <1>4, <2>2 DEF PushesSafe
  <2> QED BY <2>1, <2>2
<1> QED BY <1>1, <1>2, <1>3, <1>4 DEF PushesSafe


LEMMA NamedStay ==
    ASSUME Types, Holdings, Tokens, Bounds, Kept, mishaps = 0,
           \A m \in Nodes : Reached(m) => Reached(m)', Next, mishaps' = 0
    PROVE  NamedReached'
<1>e. ASSUME NEW w \in Workers, NEW answer \in {"answered", "failed"},
             at[w] # "waiting", Ends(w, answer)
      PROVE  Ended(w, answer)
  BY <1>e, EndsFrame
<1> USE Types, Holdings, Tokens, Bounds, Kept, ConstantsAssumption DEF Types, Holdings, Bounds,
      Kept, Busy, Aimed, Pushing, Places, Payloads, Fresh,
    tableVars, workVars, pastVars
<1>1. ASSUME NEW w \in Workers, NEW q \in net, Receive(w, q) PROVE NamedReached'
  BY <1>1, HasReached, NamedIf DEF Receive, Starts, Requests, NamedReached
<1>2. ASSUME NEW w \in Workers, NEW n \in Nodes, PollRead(w, n) PROVE NamedReached'
  <2>1. queue[<<n, Home[w]>>] # NoPayload /\ carry' = [carry EXCEPT ![w] = queue[<<n, Home[w]>>]]
    BY <1>2 DEF PollRead
  <2>2. <<n, Home[w]>> \in Nodes \X Nodes
    OBVIOUS
  <2>3. queue[<<n, Home[w]>>] \in Payloads
    <3> HIDE DEF Holdings, Bounds, Kept, Payloads
    <3> QED BY <2>1, <2>2
  <2>4. \A m \in queue[<<n, Home[w]>>].seen : Reached(m)'
    BY <2>1, <2>2, <2>3 DEF NamedReached
  <2>5. \A x \in Workers : \A m \in carry'[x].seen : m \in carry[x].seen \/ Reached(m)'
    <3>1. carry'[w].seen = queue[<<n, Home[w]>>].seen
      BY <2>1
    <3>2. \A x \in Workers : x # w => carry'[x] = carry[x]
      BY <2>1
    <3> QED BY <2>4, <3>1, <3>2
  <2>6. /\ \A x \in Workers : at'[x] = "noting" => x # w /\ at[x] = "noting"
        /\ UNCHANGED <<sentTo, net, queue, todo>>
    BY <1>2 DEF PollRead
  <2>7. \A x \in Workers : at'[x] = "noting" => todo'[x] \subseteq carry'[x].seen
    BY <2>1, <2>6 DEF NamedReached
  <2> QED BY <2>5, <2>6, <2>7, NamedIf
<1>3. ASSUME NEW w \in Workers, PollDelete(w) PROVE NamedReached'
  BY <1>3, HasReached, NamedIf DEF PollDelete, Drops, Delete, NamedReached
<1>4. ASSUME NEW w \in Workers, PollReceives(w) PROVE NamedReached'
  BY <1>4, HasReached, NamedIf DEF PollReceives, Starts, NamedReached
<1>5. ASSUME NEW w \in Workers, BeginExpired(w) PROVE NamedReached'
  BY <1>5, HasReached, NamedIf DEF BeginExpired, Kept
<1>6. ASSUME NEW w \in Workers, Begin(w) PROVE NamedReached'
  BY <1>6, HasReached, NamedIf DEF Begin, Noted, Payloads, NamedReached
<1>7. ASSUME NEW w \in Workers, NEW m \in Nodes, Note(w, m) PROVE NamedReached'
  BY <1>7, HasReached, NamedIf DEF Note, NamedReached
<1>8. ASSUME NEW w \in Workers, SelectNone(w) PROVE NamedReached'
  BY <1>8, HasReached, NamedIf DEF SelectNone, Returns, Ends, NamedReached
<1>9. ASSUME NEW w \in Workers, Select(w) PROVE NamedReached'
  <2>1. PICK S \in Selections(Home[w], Remaining(Home[w])) :
           /\ todo' = [todo EXCEPT ![w] = S]
           /\ carry' = [carry EXCEPT ![w] =
                           [seen |-> carry[w].seen \cup S, path |-> carry[w].path]]
    BY <1>9 DEF Select, PayloadSeen
  <2>2. S \subseteq Nodes
    BY <2>1 DEF Selections, Remaining
  <2>3. at' = [at EXCEPT ![w] = "sending"] /\ UNCHANGED <<sentTo, net, queue>>
    BY <1>9 DEF Select
  <2>4. \A m \in S : Reached(m)'
    BY <2>1, <2>3 DEF Reached, Underway
  <2>5. \A x \in Workers : \A m \in carry'[x].seen : m \in carry[x].seen \/ Reached(m)'
    <3>1. carry'[w].seen = carry[w].seen \cup S
      BY <2>1
    <3>2. \A x \in Workers : x # w => carry'[x] = carry[x]
      BY <2>1
    <3> QED BY <2>4, <3>1, <3>2
  <2>6. \A x \in Workers : at'[x] = "noting" => todo'[x] \subseteq carry'[x].seen
    BY <2>1, <2>3 DEF NamedReached
  <2> QED BY <2>3, <2>5, <2>6, NamedIf
<1>10. ASSUME NEW w \in Workers, NEW m \in Nodes, Push(w, m) PROVE NamedReached'
  BY <1>10, HasReached, NamedIf DEF Push, Request, Requests, NamedReached
<1>11. ASSUME NEW w \in Workers, GivesUp(w) PROVE NamedReached'
  <2>1. \A q \in net' : \A m \in q.payload.seen : \E r \in net : m \in r.payload.seen
    <3> SUFFICES ASSUME NEW q \in net' PROVE \E r \in net : r.payload = q.payload
      OBVIOUS
    <3> QED BY <1>11, NetLoosed
  <2>2. /\ \A x \in Workers : at'[x] = "noting" => at[x] = "noting"
        /\ UNCHANGED <<sentTo, queue, todo, carry>>
    BY <1>11 DEF GivesUp
  <2> QED BY <2>1, <2>2, NamedIf DEF NamedReached
<1>12. ASSUME NEW w \in Workers, TriesNext(w) PROVE NamedReached'
  BY <1>12, HasReached, NamedIf DEF TriesNext, Request, Requests, NamedReached
<1>13. ASSUME NEW w \in Workers, Succeeds(w) PROVE NamedReached'
  <2>1. \A k \in Nodes \X Nodes : queue'[k] \in {queue[k], NoPayload, carry[w]}
    BY <1>13 DEF Succeeds, Delete
  <2>2. \A m \in carry[w].seen : Reached(m)'
    BY DEF NamedReached
  <2>3. /\ \A x \in Workers : at'[x] = "noting" => x # w /\ at[x] = "noting"
        /\ UNCHANGED <<sentTo, todo, net, carry>>
    BY <1>13 DEF Succeeds
  <2> QED BY <2>1, <2>2, <2>3, NamedIf DEF NamedReached
<1>14. ASSUME NEW w \in Workers, Unqueued(w) PROVE NamedReached'
  <2>1. ASSUME NEW m \in Nodes, m = target[w] PROVE Reached(m)'
    <3>1. Reached(m)
      BY <1>14, <2>1 DEF Unqueued, Exhausted, Reached, Underway
    <3> QED BY <3>1
  <2>2. \A n \in Nodes : \A m \in sentTo'[n] : m \in sentTo[n] \/ Reached(m)'
    BY <1>14, <2>1 DEF Unqueued, Exhausted, Told
  <2>3. /\ \A x \in Workers : at'[x] = "noting" => x # w /\ at[x] = "noting"
        /\ \A x \in Workers : x # w => todo'[x] = todo[x]
        /\ UNCHANGED <<net, queue, carry>>
    BY <1>14 DEF Unqueued, Exhausted, Told
  <2> QED BY <2>2, <2>3, NamedIf DEF NamedReached
<1>15. ASSUME NEW w \in Workers, QueueExpired(w) PROVE NamedReached'
  BY <1>15 DEF QueueExpired, Kept
<1>16. ASSUME NEW w \in Workers, GetOrCreate(w) PROVE NamedReached'
  <2>1. \A k \in Nodes \X Nodes : queue'[k] \in {queue[k], NoPayload, carry[w]}
    BY <1>16 DEF GetOrCreate, Created
  <2>2. \A m \in carry[w].seen : Reached(m)'
    BY DEF NamedReached
  <2>3. /\ \A x \in Workers : at'[x] = "noting" => x # w /\ at[x] = "noting"
        /\ UNCHANGED <<sentTo, todo, net, carry>>
    BY <1>16 DEF GetOrCreate, Exhausted
  <2> QED BY <2>1, <2>2, <2>3, NamedIf DEF NamedReached
<1>17. ASSUME NEW w \in Workers, SaveEntry(w) PROVE NamedReached'
  <2>1. \A k \in Nodes \X Nodes : queue'[k] \in {queue[k], NoPayload, carry[w]}
    BY <1>17 DEF SaveEntry
  <2>2. \A m \in carry[w].seen : Reached(m)'
    BY DEF NamedReached
  <2>3. /\ \A x \in Workers : at'[x] = "noting" => x # w /\ at[x] = "noting"
        /\ UNCHANGED <<sentTo, todo, net, carry>>
    BY <1>17 DEF SaveEntry
  <2> QED BY <2>1, <2>2, <2>3, NamedIf DEF NamedReached
<1>18. ASSUME NEW w \in Workers, BreaksOff(w) PROVE NamedReached'
  <2>0. Ended(w, "failed") /\ at[w] \in {"created", "found"}
    <3>1. at[w] \in {"created", "found"} /\ Ends(w, "failed")
      BY <1>18 DEF BreaksOff
    <3> QED BY <3>1, <1>e
  <2>1. \A x \in Workers : /\ carry'[x] = IF x = w THEN Fresh ELSE carry[x]
                           /\ at'[x] = "noting" => x # w /\ at[x] = "noting"
                           /\ x # w => todo'[x] = todo[x]
    <3> HIDE ConstantsAssumption DEF Types, Holdings, Bounds, Kept
    <3> QED BY <2>0 DEF Ended
  <2>2. UNCHANGED <<sentTo, queue, net>>
    BY <1>18 DEF BreaksOff, Ends
  <2>3. NamedReached /\ Fresh.seen = {}
    OBVIOUS
  <2> HIDE ConstantsAssumption DEF Types, Holdings, Bounds, Kept, Fresh
  <2> QED BY <2>1, <2>2, <2>3, NamedIf DEF NamedReached
<1>19. ASSUME NEW w \in Workers, CountsTold(w) PROVE NamedReached'
  <2>1. ASSUME NEW m \in Nodes, m = target[w] PROVE Reached(m)'
    <3>1. Reached(m)
      BY <1>19, <2>1 DEF CountsTold, Reached, Underway
    <3> QED BY <3>1
  <2>2. \A n \in Nodes : \A m \in sentTo'[n] : m \in sentTo[n] \/ Reached(m)'
    BY <1>19, <2>1 DEF CountsTold, Told
  <2>3. /\ \A x \in Workers : at'[x] = "noting" => x # w /\ at[x] = "noting"
        /\ \A x \in Workers : x # w => todo'[x] = todo[x]
        /\ UNCHANGED <<net, queue, carry>>
    BY <1>19 DEF CountsTold, Told
  <2> QED BY <2>2, <2>3, NamedIf DEF NamedReached
<1>20. ASSUME NEW w \in Workers, Close(w) PROVE NamedReached'
  BY <1>20, HasReached, NamedIf DEF Close, Returns, Ends, NamedReached
<1>21. ASSUME NEW w \in Workers, Broadcast(w) PROVE NamedReached'
  BY <1>21, HasReached, NamedIf DEF Broadcast, Starts, NamedReached
<1>22. ASSUME NEW w \in Workers, Resend(w) PROVE NamedReached'
  BY <1>22, HasReached, NamedIf DEF Resend, Starts, NamedReached
<1>23. ASSUME NEW w \in Workers, BeginUpgrading(w) PROVE NamedReached'
  BY <1>23, HasReached, NamedIf DEF BeginUpgrading, Returns, Ends, Mishap
<1>24. ASSUME NEW w \in Workers, PollLost(w) PROVE NamedReached'
  BY <1>24, HasReached, NamedIf DEF PollLost, Mishap
<1>25. ASSUME NEW q \in net, Lose(q) PROVE NamedReached'
  BY <1>25, HasReached, NamedIf DEF Lose, Mishap, NamedReached
<1>26. ASSUME NEW n \in Nodes, NEW m \in Nodes, QueueDrops(n, m) PROVE NamedReached'
  BY <1>26, HasReached, NamedIf DEF QueueDrops, Delete, Mishap, Kept
<1>27. CASE Expire
  BY <1>27, HasReached, NamedIf DEF Expire, Mishap
<1>28. ASSUME NEW n \in Nodes, Crash(n) PROVE NamedReached'
  BY <1>28, HasReached, NamedIf DEF Crash, Mishap
<1> QED
  BY <1>1, <1>2, <1>3, <1>4, <1>5, <1>6, <1>7, <1>8, <1>9, <1>10, <1>11, <1>12,
     <1>13, <1>14, <1>15, <1>16, <1>17, <1>18, <1>19, <1>20, <1>21, <1>22, <1>23,
     <1>24, <1>25, <1>26, <1>27, <1>28
  DEF Next, Works, Misfortune

LEMMA PushesStay ==
    ASSUME Types, Holdings, Tokens, Bounds, Kept, mishaps = 0, Next, mishaps' = 0
    PROVE  PushesSafe'
<1>e. ASSUME NEW w \in Workers, NEW answer \in {"answered", "failed"},
             at[w] # "waiting", Ends(w, answer)
      PROVE  Ended(w, answer)
  BY <1>e, EndsFrame
<1> USE Types, Holdings, Tokens, Bounds, Kept, ConstantsAssumption DEF Types, Holdings, Bounds,
      Kept, Busy, Aimed, Pushing, Places, Payloads, Fresh,
    tableVars, workVars, pastVars
<1>1. ASSUME NEW w \in Workers, NEW q \in net, Receive(w, q) PROVE PushesSafe'
  BY <1>1 DEF Receive, Starts, Requests, Tokens, PushesSafe
<1>2. ASSUME NEW w \in Workers, NEW n \in Nodes, PollRead(w, n) PROVE PushesSafe'
  <2>1. (\A q \in net : q.client # w) /\ (\A x \in Workers : client[x] # w)
    BY <1>2 DEF PollRead, Tokens
  <2>2. /\ UNCHANGED <<client, has, net>> /\ at' = [at EXCEPT ![w] = "polling"]
        /\ target' = [target EXCEPT ![w] = n]
    BY <1>2 DEF PollRead
  <2>3. PushesSafe
    OBVIOUS
  <2> HIDE ConstantsAssumption DEF Holdings, Bounds, Kept, Payloads, Busy, Fresh
  <2> QED BY <2>1, <2>2, <2>3 DEF PushesSafe
<1>3. ASSUME NEW w \in Workers, PollDelete(w) PROVE PushesSafe'
  <2>1. (\A q \in net : q.client # w) /\ (\A x \in Workers : client[x] # w)
    BY <1>3 DEF PollDelete, Tokens
  <2>2. /\ client' = client /\ has' = has /\ net' = net
        /\ \A x \in Workers : x # w => target'[x] = target[x] /\ at'[x] = at[x]
        /\ at'[w] \in {"sending", "pulled"}
    BY <1>3 DEF PollDelete, Drops, Delete
  <2>3. PushesSafe
    OBVIOUS
  <2> HIDE DEF Types, Holdings, Bounds, Kept, Payloads, Places, Busy, Fresh
  <2> QED BY <2>1, <2>2, <2>3, PushesIf
<1>4. ASSUME NEW w \in Workers, PollReceives(w) PROVE PushesSafe'
  BY <1>4 DEF PollReceives, Starts, Tokens, PushesSafe
<1>5. ASSUME NEW w \in Workers, BeginExpired(w) PROVE PushesSafe'
  BY <1>5 DEF BeginExpired, Kept
<1>6. ASSUME NEW w \in Workers, Begin(w) PROVE PushesSafe'
  BY <1>6 DEF Begin, Noted, Payloads, Tokens, PushesSafe
<1>7. ASSUME NEW w \in Workers, NEW m \in Nodes, Note(w, m) PROVE PushesSafe'
  BY <1>7 DEF Note, Tokens, PushesSafe
<1>8. ASSUME NEW w \in Workers, SelectNone(w) PROVE PushesSafe'
  BY <1>8 DEF SelectNone, Returns, Ends, Tokens, PushesSafe
<1>9. ASSUME NEW w \in Workers, Select(w) PROVE PushesSafe'
  BY <1>9 DEF Select, Selections, Remaining, PayloadSeen, Payloads, Tokens, PushesSafe
<1>10. ASSUME NEW w \in Workers, NEW m \in Nodes, Push(w, m) PROVE PushesSafe'
  <2>1. (\A q \in net : q.client # w) /\ (\A x \in Workers : client[x] # w)
    BY <1>10 DEF Push, Tokens
  <2>2. /\ Request(w, m).client = w /\ Request(w, m).to = m /\ Request(w, m).by = Home[w]
    BY DEF Request
  <2>3. /\ client' = client /\ has' = has /\ net' = net \cup {Request(w, m)}
        /\ \A x \in Workers : x # w => target'[x] = target[x] /\ at'[x] = at[x]
        /\ at'[w] = "waiting" /\ target'[w] = m
    BY <1>10 DEF Push
  <2>4. PushesSafe
    OBVIOUS
  <2> HIDE DEF Types, Holdings, Bounds, Kept, Payloads, Places, Busy, Fresh
  <2> QED BY <2>1, <2>2, <2>3, <2>4, PushesIf
<1>11. ASSUME NEW w \in Workers, GivesUp(w) PROVE PushesSafe'
  <2>1. \A r \in net' : r.client \in Workers => target[r.client] = r.to
    <3> SUFFICES ASSUME NEW r \in net', r.client \in Workers PROVE target[r.client] = r.to
      OBVIOUS
    <3>1. PICK q \in net : r.to = q.to /\ r.client \in {q.client, Nobody}
      BY <1>11, NetLoosed
    <3> QED BY <3>1 DEF PushesSafe
  <2>2. at[w] = "waiting" /\ at' = [at EXCEPT ![w] = "failed"] /\ UNCHANGED <<has, target>>
    BY <1>11 DEF GivesUp
  <2>3. \A x \in Workers : client'[x] \in Workers => client'[x] = client[x]
    BY <1>11 DEF GivesUp
  <2>4. \A q \in net : \E r \in net' : r.by = q.by /\ r.to = q.to
    BY <1>11, RequestsStay
  <2>5. \A x \in Workers : (\E q \in net : q.by = Home[x] /\ q.to = target[x]) =>
            \E r \in net' : r.by = Home[x] /\ r.to = target[x]
    <3> SUFFICES ASSUME NEW x \in Workers, NEW q \in net, q.by = Home[x], q.to = target[x]
                 PROVE  \E r \in net' : r.by = Home[x] /\ r.to = target[x]
      OBVIOUS
    <3> HIDE DEF Types, Holdings, Bounds, Kept, Payloads, Places, Busy, Pushing
    <3> QED BY <2>4
  <2>6. \A x \in Workers : at'[x] \in {"waiting", "failed"} => at[x] \in {"waiting", "failed"}
    BY <2>2
  <2>7. \A x \in Workers : at'[x] = "answered" => at[x] = "answered"
    BY <2>2
  <2> QED BY <2>1, <2>2, <2>3, <2>5, <2>6, <2>7 DEF PushesSafe
<1>12. ASSUME NEW w \in Workers, TriesNext(w) PROVE PushesSafe'
  BY <1>12 DEF TriesNext, Request, Requests, Tokens, PushesSafe
<1>13. ASSUME NEW w \in Workers, Succeeds(w) PROVE PushesSafe'
  <2>1. (\A q \in net : q.client # w) /\ (\A x \in Workers : client[x] # w)
    BY <1>13 DEF Succeeds, Tokens
  <2>2. /\ client' = client /\ has' = has /\ net' = net
        /\ \A x \in Workers : x # w => target'[x] = target[x] /\ at'[x] = at[x]
        /\ at'[w] \in {"sending", "created", "found", "settled"}
    BY <1>13 DEF Succeeds
  <2>3. PushesSafe
    OBVIOUS
  <2> HIDE DEF Types, Holdings, Bounds, Kept, Payloads, Places, Busy, Fresh
  <2> QED BY <2>1, <2>2, <2>3, PushesIf
<1>14. ASSUME NEW w \in Workers, Unqueued(w) PROVE PushesSafe'
  <2>1. (\A q \in net : q.client # w) /\ (\A x \in Workers : client[x] # w)
    BY <1>14 DEF Unqueued, Exhausted, Tokens
  <2>2. /\ client' = client /\ has' = has /\ net' = net
        /\ \A x \in Workers : x # w => target'[x] = target[x] /\ at'[x] = at[x]
        /\ at'[w] \in {"sending", "created", "found", "settled"}
    BY <1>14 DEF Unqueued, Told, Drops
  <2>3. PushesSafe
    OBVIOUS
  <2> HIDE DEF Types, Holdings, Bounds, Kept, Payloads, Places, Busy, Fresh
  <2> QED BY <2>1, <2>2, <2>3, PushesIf
<1>15. ASSUME NEW w \in Workers, QueueExpired(w) PROVE PushesSafe'
  BY <1>15 DEF QueueExpired, Kept
<1>16. ASSUME NEW w \in Workers, GetOrCreate(w) PROVE PushesSafe'
  <2>1. (\A q \in net : q.client # w) /\ (\A x \in Workers : client[x] # w)
    BY <1>16 DEF GetOrCreate, Exhausted, Tokens
  <2>2. /\ client' = client /\ has' = has /\ net' = net
        /\ \A x \in Workers : x # w => target'[x] = target[x] /\ at'[x] = at[x]
        /\ at'[w] \in {"sending", "created", "found", "settled"}
    BY <1>16 DEF GetOrCreate
  <2>3. PushesSafe
    OBVIOUS
  <2> HIDE DEF Types, Holdings, Bounds, Kept, Payloads, Places, Busy, Fresh
  <2> QED BY <2>1, <2>2, <2>3, PushesIf
<1>17. ASSUME NEW w \in Workers, SaveEntry(w) PROVE PushesSafe'
  <2>1. (\A q \in net : q.client # w) /\ (\A x \in Workers : client[x] # w)
    BY <1>17 DEF SaveEntry, Tokens
  <2>2. /\ client' = client /\ has' = has /\ net' = net
        /\ \A x \in Workers : x # w => target'[x] = target[x] /\ at'[x] = at[x]
        /\ at'[w] \in {"sending", "created", "found", "settled"}
    BY <1>17 DEF SaveEntry
  <2>3. PushesSafe
    OBVIOUS
  <2> HIDE DEF Types, Holdings, Bounds, Kept, Payloads, Places, Busy, Fresh
  <2> QED BY <2>1, <2>2, <2>3, PushesIf
<1>18. ASSUME NEW w \in Workers, BreaksOff(w) PROVE PushesSafe'
  <2>0. Ended(w, "failed") /\ at[w] \in {"created", "found"}
    <3>1. at[w] \in {"created", "found"} /\ Ends(w, "failed")
      BY <1>18 DEF BreaksOff
    <3> QED BY <3>1, <1>e
  <2>1. /\ \A q \in net : q.client # w
        /\ \A x \in Workers : client[x] # w
        /\ at[w] # "waiting" /\ Home[w] \in has
    BY <1>18 DEF BreaksOff, Tokens
  <2>2. /\ UNCHANGED <<has, net>>
        /\ \A x \in Workers : x # w => target'[x] = target[x]
        /\ \A x \in Workers : client'[x] \in Workers => x # w /\ client'[x] = client[x]
    BY <1>18 DEF BreaksOff, Ends, Drops
  <2>3. \A x \in Workers :
            \/ x = w /\ at'[x] = "idle"
            \/ x # w /\ x = client[w] /\ at[x] = "waiting" /\ at'[x] = "failed"
            \/ x # w /\ at'[x] = at[x]
    <3> HIDE ConstantsAssumption DEF Types, Holdings, Bounds, Kept
    <3> QED BY <2>0, <2>1 DEF Ended
  <2> HIDE DEF Types, Holdings, Bounds, Kept, Payloads, Places, Busy, Fresh
  <2>4. PushesSafe
    BY DEF Kept
  <2>5. \A q \in net' : q.client \in Workers => target'[q.client] = q.to
    BY <2>1, <2>2, <2>4 DEF PushesSafe
  <2>6. \A x \in Workers : client'[x] \in Workers => target'[client'[x]] = Home[x]
    BY <2>1, <2>2, <2>4 DEF PushesSafe
  <2>7. \A x \in Workers : at'[x] = "answered" => target'[x] \in has'
    BY <2>2, <2>3, <2>4 DEF PushesSafe
  <2>8. ASSUME NEW x \in Workers, at'[x] \in {"waiting", "failed"}
        PROVE  \/ target'[x] \in has' \/ target'[x] \in Downstream[Home[x]]
               \/ \E q \in net' : q.by = Home[x] /\ q.to = target'[x]
    <3>1. x # w /\ target'[x] = target[x]
      BY <2>2, <2>3, <2>8
    <3>2. CASE x = client[w]
      BY <2>1, <2>2, <2>4, <3>1, <3>2 DEF PushesSafe
    <3>3. CASE x # client[w]
      BY <2>2, <2>3, <2>4, <2>8, <3>1, <3>3 DEF PushesSafe
    <3> QED BY <3>2, <3>3
  <2> QED BY <2>5, <2>6, <2>7, <2>8 DEF PushesSafe
<1>19. ASSUME NEW w \in Workers, CountsTold(w) PROVE PushesSafe'
  <2>1. (\A q \in net : q.client # w) /\ (\A x \in Workers : client[x] # w)
    BY <1>19 DEF CountsTold, Tokens
  <2>2. /\ client' = client /\ has' = has /\ net' = net
        /\ \A x \in Workers : x # w => target'[x] = target[x] /\ at'[x] = at[x]
        /\ at'[w] \in {"sending", "created", "found", "settled"}
    BY <1>19 DEF CountsTold, Told, Drops
  <2>3. PushesSafe
    OBVIOUS
  <2> HIDE DEF Types, Holdings, Bounds, Kept, Payloads, Places, Busy, Fresh
  <2> QED BY <2>1, <2>2, <2>3, PushesIf
<1>20. ASSUME NEW w \in Workers, Close(w) PROVE PushesSafe'
  BY <1>20 DEF Close, Returns, Ends, Tokens, PushesSafe
<1>21. ASSUME NEW w \in Workers, Broadcast(w) PROVE PushesSafe'
  BY <1>21 DEF Broadcast, Starts, Tokens, PushesSafe
<1>22. ASSUME NEW w \in Workers, Resend(w) PROVE PushesSafe'
  BY <1>22 DEF Resend, Starts, Tokens, PushesSafe
<1>23. ASSUME NEW w \in Workers, BeginUpgrading(w) PROVE PushesSafe'
  BY <1>23 DEF BeginUpgrading, Returns, Ends, Mishap
<1>24. ASSUME NEW w \in Workers, PollLost(w) PROVE PushesSafe'
  BY <1>24 DEF PollLost, Mishap
<1>25. ASSUME NEW q \in net, Lose(q) PROVE PushesSafe'
  BY <1>25 DEF Lose, Mishap, Tokens, PushesSafe
<1>26. ASSUME NEW n \in Nodes, NEW m \in Nodes, QueueDrops(n, m) PROVE PushesSafe'
  BY <1>26 DEF QueueDrops, Delete, Mishap, Kept
<1>27. CASE Expire
  BY <1>27 DEF Expire, Mishap
<1>28. ASSUME NEW n \in Nodes, Crash(n) PROVE PushesSafe'
  BY <1>28 DEF Crash, Mishap
<1> QED
  BY <1>1, <1>2, <1>3, <1>4, <1>5, <1>6, <1>7, <1>8, <1>9, <1>10, <1>11, <1>12,
     <1>13, <1>14, <1>15, <1>16, <1>17, <1>18, <1>19, <1>20, <1>21, <1>22, <1>23,
     <1>24, <1>25, <1>26, <1>27, <1>28
  DEF Next, Works, Misfortune

\* A push to a peer downstream goes on, or its message is queued, fetched or there.
StillAsked(u) ==
    target'[u] = target[u] /\ (at'[u] \in Asking \/ Carried(Home[u], target[u])')

LEMMA StaysAsked ==
    ASSUME Types, Holdings, Tokens, Bounds, Kept, mishaps = 0, Next, mishaps' = 0,
           NEW u \in Workers, at[u] \in Asking, target[u] \in Downstream[Home[u]]
    PROVE  StillAsked(u)
<1>e. ASSUME NEW w \in Workers, NEW answer \in {"answered", "failed"},
             at[w] # "waiting", Ends(w, answer)
      PROVE  Ended(w, answer)
  BY <1>e, EndsFrame
<1> USE Types, Holdings, Tokens, Bounds, Kept, ConstantsAssumption DEF Types,
      Holdings, Bounds, Kept, Busy, Aimed, Asking, Pushing, Places, Payloads, Fresh,
    StillAsked, tableVars, workVars, pastVars
<1>1. ASSUME NEW w \in Workers, NEW q \in net, Receive(w, q) PROVE StillAsked(u)
  BY <1>1 DEF Receive, Starts
<1>2. ASSUME NEW w \in Workers, NEW k \in Nodes, PollRead(w, k) PROVE StillAsked(u)
  BY <1>2 DEF PollRead
<1>3. ASSUME NEW w \in Workers, PollDelete(w) PROVE StillAsked(u)
  BY <1>3 DEF PollDelete, Drops
<1>4. ASSUME NEW w \in Workers, PollReceives(w) PROVE StillAsked(u)
  BY <1>4 DEF PollReceives, Starts
<1>5. ASSUME NEW w \in Workers, BeginExpired(w) PROVE StillAsked(u)
  BY <1>5 DEF BeginExpired
<1>6. ASSUME NEW w \in Workers, Begin(w) PROVE StillAsked(u)
  BY <1>6 DEF Begin
<1>7. ASSUME NEW w \in Workers, NEW k \in Nodes, Note(w, k) PROVE StillAsked(u)
  BY <1>7 DEF Note
<1>8. ASSUME NEW w \in Workers, SelectNone(w) PROVE StillAsked(u)
  <2>0. Ended(w, "answered") /\ at[w] = "noting"
    <3>1. at[w] = "noting" /\ Ends(w, "answered")
      BY <1>8 DEF SelectNone, Returns
    <3> QED BY <3>1, <1>e
  <2>1. at'[u] = at[u] \/ at'[u] = "answered"
    <3> HIDE ConstantsAssumption DEF Types, Holdings, Bounds, Kept
    <3> QED BY <2>0 DEF Ended
  <2> QED BY <1>8, <2>1 DEF SelectNone, Returns
<1>9. ASSUME NEW w \in Workers, Select(w) PROVE StillAsked(u)
  BY <1>9 DEF Select
<1>10. ASSUME NEW w \in Workers, NEW k \in Nodes, Push(w, k) PROVE StillAsked(u)
  BY <1>10 DEF Push
<1>11. ASSUME NEW w \in Workers, GivesUp(w) PROVE StillAsked(u)
  BY <1>11 DEF GivesUp
<1>12. ASSUME NEW w \in Workers, TriesNext(w) PROVE StillAsked(u)
  BY <1>12 DEF TriesNext
<1>13. ASSUME NEW w \in Workers, Succeeds(w) PROVE StillAsked(u)
  <2>1. u = w => target[u] \in has'
    BY <1>13 DEF Succeeds, PushesSafe
  <2>2. target' = target /\ (u # w => at'[u] = at[u])
    BY <1>13 DEF Succeeds
  <2> QED BY <2>1, <2>2 DEF Carried
<1>14. ASSUME NEW w \in Workers, Unqueued(w) PROVE StillAsked(u)
  BY <1>14 DEF Unqueued, Exhausted, Told, Drops
<1>15. ASSUME NEW w \in Workers, QueueExpired(w) PROVE StillAsked(u)
  BY <1>15 DEF QueueExpired
<1>16. ASSUME NEW w \in Workers, GetOrCreate(w) PROVE StillAsked(u)
  <2>1. carry[w] # NoPayload /\ <<Home[w], target[w]>> \in Nodes \X Nodes
    OBVIOUS
  <2>2. queue'[<<Home[w], target[w]>>] # NoPayload
    BY <1>16, <2>1 DEF GetOrCreate, Created
  <2>3. target' = target /\ (u # w => at'[u] = at[u])
    BY <1>16 DEF GetOrCreate
  <2> QED BY <2>2, <2>3 DEF Carried
<1>17. ASSUME NEW w \in Workers, SaveEntry(w) PROVE StillAsked(u)
  BY <1>17 DEF SaveEntry
<1>18. ASSUME NEW w \in Workers, BreaksOff(w) PROVE StillAsked(u)
  <2>0. Ended(w, "failed") /\ at[w] \in {"created", "found"}
    <3>1. at[w] \in {"created", "found"} /\ Ends(w, "failed")
      BY <1>18 DEF BreaksOff
    <3> QED BY <3>1, <1>e
  <2>1. target' = [target EXCEPT ![w] = Home[w]] /\ at[w] \in {"created", "found"}
    BY <1>18 DEF BreaksOff, Drops
  <2>2. at'[u] = at[u] \/ at'[u] = "failed"
    <3> HIDE ConstantsAssumption DEF Types, Holdings, Bounds, Kept
    <3> QED BY <2>0, <2>1 DEF Ended
  <2> QED BY <2>1, <2>2
<1>19. ASSUME NEW w \in Workers, CountsTold(w) PROVE StillAsked(u)
  BY <1>19 DEF CountsTold, Told, Drops
<1>20. ASSUME NEW w \in Workers, Close(w) PROVE StillAsked(u)
  <2>0. Ended(w, "answered") /\ at[w] = "sending" /\ todo[w] = {}
    <3>1. at[w] = "sending" /\ todo[w] = {} /\ Ends(w, "answered")
      BY <1>20 DEF Close, Returns
    <3> QED BY <3>1, <1>e
  <2>1. at'[u] = at[u] \/ at'[u] = "answered"
    <3> HIDE ConstantsAssumption DEF Types, Holdings, Bounds, Kept
    <3> QED BY <2>0 DEF Ended
  <2> QED BY <1>20, <2>1 DEF Close, Returns
<1>21. ASSUME NEW w \in Workers, Broadcast(w) PROVE StillAsked(u)
  BY <1>21 DEF Broadcast, Starts
<1>22. ASSUME NEW w \in Workers, Resend(w) PROVE StillAsked(u)
  BY <1>22 DEF Resend, Starts
<1>23. ASSUME NEW w \in Workers, BeginUpgrading(w) PROVE StillAsked(u)
  BY <1>23 DEF BeginUpgrading, Mishap
<1>24. ASSUME NEW w \in Workers, PollLost(w) PROVE StillAsked(u)
  BY <1>24 DEF PollLost, Mishap
<1>25. ASSUME NEW q \in net, Lose(q) PROVE StillAsked(u)
  BY <1>25 DEF Lose
<1>26. ASSUME NEW i \in Nodes, NEW k \in Nodes, QueueDrops(i, k) PROVE StillAsked(u)
  BY <1>26 DEF QueueDrops
<1>27. CASE Expire
  BY <1>27 DEF Expire, Mishap
<1>28. ASSUME NEW k \in Nodes, Crash(k) PROVE StillAsked(u)
  BY <1>28 DEF Crash, Mishap
<1> QED
  BY <1>1, <1>2, <1>3, <1>4, <1>5, <1>6, <1>7, <1>8, <1>9, <1>10, <1>11, <1>12,
     <1>13, <1>14, <1>15, <1>16, <1>17, <1>18, <1>19, <1>20, <1>21, <1>22, <1>23,
     <1>24, <1>25, <1>26, <1>27, <1>28
  DEF Next, Works, Misfortune

LEMMA StaysBacked ==
    ASSUME Types, Holdings, Tokens, Bounds, Kept, mishaps = 0,
           NEW n \in Nodes, NEW m \in Nodes, m \in Downstream[n], Backed(n, m),
           Next, mishaps' = 0
    PROVE  Backed(n, m)'
<1>1. CASE Carried(n, m)
  BY <1>1, StaysCarried DEF Backed
<1>2. CASE \E u \in Workers : at[u] \in Asking /\ Home[u] = n /\ target[u] = m
  <2>1. PICK u \in Workers : at[u] \in Asking /\ Home[u] = n /\ target[u] = m
    BY <1>2
  <2>2. StillAsked(u)
    BY <2>1, StaysAsked
  <2> QED BY <2>1, <2>2 DEF StillAsked, Backed, Carried
<1> QED BY <1>1, <1>2 DEF Backed

\* A worker is at the end of a push, or has just come there.
Ending == {"created", "found", "settled"}
NewlyEnding(u) ==
    at'[u] \in Ending => \/ at[u] \in Ending /\ target'[u] = target[u]
                        \/ Carried(Home[u], target[u])'

LEMMA EndingsCarried ==
    ASSUME Types, Holdings, Tokens, Bounds, Kept, mishaps = 0, Next, mishaps' = 0,
           NEW u \in Workers
    PROVE  NewlyEnding(u)
<1>e. ASSUME NEW w \in Workers, NEW answer \in {"answered", "failed"},
             at[w] # "waiting", Ends(w, answer)
      PROVE  Ended(w, answer)
  BY <1>e, EndsFrame
<1> USE Types, Holdings, Tokens, Bounds, Kept, ConstantsAssumption DEF Types,
      Holdings, Bounds, Kept, Busy, Aimed, Asking, Pushing, Places, Payloads, Fresh,
    Ending, NewlyEnding, tableVars, workVars, pastVars
<1>1. ASSUME NEW w \in Workers, NEW q \in net, Receive(w, q) PROVE NewlyEnding(u)
  BY <1>1 DEF Receive, Starts
<1>2. ASSUME NEW w \in Workers, NEW k \in Nodes, PollRead(w, k) PROVE NewlyEnding(u)
  BY <1>2 DEF PollRead
<1>3. ASSUME NEW w \in Workers, PollDelete(w) PROVE NewlyEnding(u)
  BY <1>3 DEF PollDelete, Drops
<1>4. ASSUME NEW w \in Workers, PollReceives(w) PROVE NewlyEnding(u)
  BY <1>4 DEF PollReceives, Starts
<1>5. ASSUME NEW w \in Workers, BeginExpired(w) PROVE NewlyEnding(u)
  BY <1>5 DEF BeginExpired
<1>6. ASSUME NEW w \in Workers, Begin(w) PROVE NewlyEnding(u)
  BY <1>6 DEF Begin
<1>7. ASSUME NEW w \in Workers, NEW k \in Nodes, Note(w, k) PROVE NewlyEnding(u)
  BY <1>7 DEF Note
<1>8. ASSUME NEW w \in Workers, SelectNone(w) PROVE NewlyEnding(u)
  <2>0. Ended(w, "answered") /\ at[w] = "noting"
    <3>1. at[w] = "noting" /\ Ends(w, "answered")
      BY <1>8 DEF SelectNone, Returns
    <3> QED BY <3>1, <1>e
  <2>1. at'[u] \in Ending => at'[u] = at[u]
    <3> HIDE ConstantsAssumption DEF Types, Holdings, Bounds, Kept
    <3> QED BY <2>0 DEF Ended
  <2> QED BY <1>8, <2>1 DEF SelectNone, Returns
<1>9. ASSUME NEW w \in Workers, Select(w) PROVE NewlyEnding(u)
  BY <1>9 DEF Select
<1>10. ASSUME NEW w \in Workers, NEW k \in Nodes, Push(w, k) PROVE NewlyEnding(u)
  BY <1>10 DEF Push
<1>11. ASSUME NEW w \in Workers, GivesUp(w) PROVE NewlyEnding(u)
  BY <1>11 DEF GivesUp
<1>12. ASSUME NEW w \in Workers, TriesNext(w) PROVE NewlyEnding(u)
  BY <1>12 DEF TriesNext
<1>13. ASSUME NEW w \in Workers, Succeeds(w) PROVE NewlyEnding(u)
  <2>1. u = w => target[u] \in has'
    BY <1>13 DEF Succeeds, PushesSafe
  <2>2. target' = target /\ (u # w => at'[u] = at[u])
    BY <1>13 DEF Succeeds
  <2> QED BY <2>1, <2>2 DEF Carried
<1>14. ASSUME NEW w \in Workers, Unqueued(w) PROVE NewlyEnding(u)
  BY <1>14 DEF Unqueued, Exhausted, Told, Drops
<1>15. ASSUME NEW w \in Workers, QueueExpired(w) PROVE NewlyEnding(u)
  BY <1>15 DEF QueueExpired
<1>16. ASSUME NEW w \in Workers, GetOrCreate(w) PROVE NewlyEnding(u)
  <2>1. carry[w] # NoPayload /\ <<Home[w], target[w]>> \in Nodes \X Nodes
    OBVIOUS
  <2>2. queue'[<<Home[w], target[w]>>] # NoPayload /\ target' = target
    BY <1>16, <2>1 DEF GetOrCreate, Created
  <2>3. u # w => at'[u] = at[u]
    BY <1>16 DEF GetOrCreate
  <2> QED BY <2>2, <2>3 DEF Carried
<1>17. ASSUME NEW w \in Workers, SaveEntry(w) PROVE NewlyEnding(u)
  BY <1>17 DEF SaveEntry
<1>18. ASSUME NEW w \in Workers, BreaksOff(w) PROVE NewlyEnding(u)
  <2>0. Ended(w, "failed") /\ at[w] \in {"created", "found"}
    <3>1. at[w] \in {"created", "found"} /\ Ends(w, "failed")
      BY <1>18 DEF BreaksOff
    <3> QED BY <3>1, <1>e
  <2>1. target' = [target EXCEPT ![w] = Home[w]] /\ at[w] \in {"created", "found"}
    BY <1>18 DEF BreaksOff, Drops
  <2>2. at'[u] \in Ending => u # w /\ at'[u] = at[u]
    <3> HIDE ConstantsAssumption DEF Types, Holdings, Bounds, Kept
    <3> QED BY <2>0, <2>1 DEF Ended
  <2> QED BY <2>1, <2>2
<1>19. ASSUME NEW w \in Workers, CountsTold(w) PROVE NewlyEnding(u)
  BY <1>19 DEF CountsTold, Told, Drops
<1>20. ASSUME NEW w \in Workers, Close(w) PROVE NewlyEnding(u)
  <2>0. Ended(w, "answered") /\ at[w] = "sending" /\ todo[w] = {}
    <3>1. at[w] = "sending" /\ todo[w] = {} /\ Ends(w, "answered")
      BY <1>20 DEF Close, Returns
    <3> QED BY <3>1, <1>e
  <2>1. at'[u] \in Ending => at'[u] = at[u]
    <3> HIDE ConstantsAssumption DEF Types, Holdings, Bounds, Kept
    <3> QED BY <2>0 DEF Ended
  <2> QED BY <1>20, <2>1 DEF Close, Returns
<1>21. ASSUME NEW w \in Workers, Broadcast(w) PROVE NewlyEnding(u)
  BY <1>21 DEF Broadcast, Starts
<1>22. ASSUME NEW w \in Workers, Resend(w) PROVE NewlyEnding(u)
  BY <1>22 DEF Resend, Starts
<1>23. ASSUME NEW w \in Workers, BeginUpgrading(w) PROVE NewlyEnding(u)
  BY <1>23 DEF BeginUpgrading, Mishap
<1>24. ASSUME NEW w \in Workers, PollLost(w) PROVE NewlyEnding(u)
  BY <1>24 DEF PollLost, Mishap
<1>25. ASSUME NEW q \in net, Lose(q) PROVE NewlyEnding(u)
  BY <1>25 DEF Lose
<1>26. ASSUME NEW i \in Nodes, NEW k \in Nodes, QueueDrops(i, k) PROVE NewlyEnding(u)
  BY <1>26 DEF QueueDrops
<1>27. CASE Expire
  BY <1>27 DEF Expire, Mishap
<1>28. ASSUME NEW k \in Nodes, Crash(k) PROVE NewlyEnding(u)
  BY <1>28 DEF Crash, Mishap
<1> QED
  BY <1>1, <1>2, <1>3, <1>4, <1>5, <1>6, <1>7, <1>8, <1>9, <1>10, <1>11, <1>12,
     <1>13, <1>14, <1>15, <1>16, <1>17, <1>18, <1>19, <1>20, <1>21, <1>22, <1>23,
     <1>24, <1>25, <1>26, <1>27, <1>28
  DEF Next, Works, Misfortune

LEMMA EnteredStays ==
    ASSUME Types, Holdings, Tokens, Bounds, Kept, mishaps = 0, Next, mishaps' = 0
    PROVE  Entered'
<1> SUFFICES ASSUME NEW w \in Workers, at'[w] \in Ending PROVE Carried(Home[w], target[w])'
  BY DEF Entered, Ending
<1>1. CASE at[w] \in Ending /\ target'[w] = target[w]
  <2>1. PICK m \in Nodes : m = target[w]
    BY DEF Types
  <2>2. Carried(Home[w], m) /\ Home[w] \in Nodes
    BY <1>1, <2>1, ConstantsAssumption DEF Kept, Entered, Ending
  <2>3. Carried(Home[w], m)'
    BY <2>2, StaysCarried
  <2> QED BY <1>1, <2>1, <2>3 DEF Carried
<1> QED BY <1>1, EndingsCarried DEF NewlyEnding

\* A request that is new has its sender waiting.
NewBacked == \A q \in net' : (\E r \in net : r.to = q.to /\ r.by = q.by) \/ Backed(q.by, q.to)'

LEMMA RequestsBacked ==
    ASSUME Types, Holdings, Bounds, Kept, mishaps = 0, Next, mishaps' = 0
    PROVE  NewBacked
<1> USE Types, Holdings, Bounds, Kept, ConstantsAssumption DEF Types, Holdings, Bounds, Kept,
      NewBacked, Busy, Aimed, Asking, Pushing, Places, Fresh,
    tableVars, workVars, pastVars
<1>1. ASSUME NEW w \in Workers, NEW q \in net, Receive(w, q) PROVE NewBacked
  BY <1>1 DEF Receive, Starts, Requests
<1>2. ASSUME NEW w \in Workers, NEW n \in Nodes, PollRead(w, n) PROVE NewBacked
  BY <1>2 DEF PollRead
<1>3. ASSUME NEW w \in Workers, PollDelete(w) PROVE NewBacked
  BY <1>3 DEF PollDelete, Drops, Delete
<1>4. ASSUME NEW w \in Workers, PollReceives(w) PROVE NewBacked
  BY <1>4 DEF PollReceives, Starts
<1>5. ASSUME NEW w \in Workers, BeginExpired(w) PROVE NewBacked
  BY <1>5 DEF BeginExpired, Kept
<1>6. ASSUME NEW w \in Workers, Begin(w) PROVE NewBacked
  BY <1>6 DEF Begin, Noted, Payloads
<1>7. ASSUME NEW w \in Workers, NEW m \in Nodes, Note(w, m) PROVE NewBacked
  BY <1>7 DEF Note
<1>8. ASSUME NEW w \in Workers, SelectNone(w) PROVE NewBacked
  BY <1>8 DEF SelectNone, Returns, Ends
<1>9. ASSUME NEW w \in Workers, Select(w) PROVE NewBacked
  BY <1>9 DEF Select, Selections, Remaining, PayloadSeen, Payloads
<1>10. ASSUME NEW w \in Workers, NEW m \in Nodes, Push(w, m) PROVE NewBacked
  <2> DEFINE new == Request(w, m)
  <2>1. net' = net \cup {new} /\ new.to = m /\ new.by = Home[w]
    BY <1>10 DEF Push, Request
  <2>2. at'[w] = "waiting" /\ target'[w] = m
    BY <1>10 DEF Push
  <2>3. \A q \in {new} : Backed(q.by, q.to)'
    BY <2>1, <2>2 DEF Backed
  <2> HIDE DEF new
  <2> QED BY <2>1, <2>3
<1>11. ASSUME NEW w \in Workers, GivesUp(w) PROVE NewBacked
  <2>1. \A q \in net' : \E r \in net : r.to = q.to /\ r.by = q.by
    <3> SUFFICES ASSUME NEW q \in net' PROVE \E r \in net : r.to = q.to /\ r.by = q.by
      OBVIOUS
    <3> QED BY <1>11, NetLoosed
  <2> QED BY <2>1
<1>12. ASSUME NEW w \in Workers, TriesNext(w) PROVE NewBacked
  <2> DEFINE new == Request(w, target[w])
  <2>1. net' = net \cup {new} /\ new.to = target[w] /\ new.by = Home[w]
    BY <1>12 DEF TriesNext, Request
  <2>2. at'[w] = "waiting" /\ target'[w] = target[w]
    BY <1>12 DEF TriesNext
  <2>3. \A q \in {new} : Backed(q.by, q.to)'
    BY <2>1, <2>2 DEF Backed
  <2> HIDE DEF new
  <2> QED BY <2>1, <2>3
<1>13. ASSUME NEW w \in Workers, Succeeds(w) PROVE NewBacked
  BY <1>13 DEF Succeeds, Delete
<1>14. ASSUME NEW w \in Workers, Unqueued(w) PROVE NewBacked
  BY <1>14 DEF Unqueued, Exhausted, Told, Drops
<1>15. ASSUME NEW w \in Workers, QueueExpired(w) PROVE NewBacked
  BY <1>15 DEF QueueExpired, Exhausted, Delete
<1>16. ASSUME NEW w \in Workers, GetOrCreate(w) PROVE NewBacked
  BY <1>16 DEF GetOrCreate, Exhausted
<1>17. ASSUME NEW w \in Workers, SaveEntry(w) PROVE NewBacked
  BY <1>17 DEF SaveEntry
<1>18. ASSUME NEW w \in Workers, BreaksOff(w) PROVE NewBacked
  BY <1>18 DEF BreaksOff, Ends, Drops
<1>19. ASSUME NEW w \in Workers, CountsTold(w) PROVE NewBacked
  BY <1>19 DEF CountsTold, Told, Drops
<1>20. ASSUME NEW w \in Workers, Close(w) PROVE NewBacked
  BY <1>20 DEF Close, Returns, Ends
<1>21. ASSUME NEW w \in Workers, Broadcast(w) PROVE NewBacked
  BY <1>21 DEF Broadcast, Starts
<1>22. ASSUME NEW w \in Workers, Resend(w) PROVE NewBacked
  BY <1>22 DEF Resend, Starts
<1>23. ASSUME NEW w \in Workers, BeginUpgrading(w) PROVE NewBacked
  BY <1>23 DEF BeginUpgrading, Returns, Ends, Mishap
<1>24. ASSUME NEW w \in Workers, PollLost(w) PROVE NewBacked
  BY <1>24 DEF PollLost, Mishap
<1>25. ASSUME NEW q \in net, Lose(q) PROVE NewBacked
  BY <1>25 DEF Lose, Mishap
<1>26. ASSUME NEW n \in Nodes, NEW m \in Nodes, QueueDrops(n, m) PROVE NewBacked
  BY <1>26 DEF QueueDrops, Delete, Mishap, Kept
<1>27. CASE Expire
  BY <1>27 DEF Expire, Mishap
<1>28. ASSUME NEW n \in Nodes, Crash(n) PROVE NewBacked
  BY <1>28 DEF Crash, Mishap
<1> QED
  BY <1>1, <1>2, <1>3, <1>4, <1>5, <1>6, <1>7, <1>8, <1>9, <1>10, <1>11, <1>12,
     <1>13, <1>14, <1>15, <1>16, <1>17, <1>18, <1>19, <1>20, <1>21, <1>22, <1>23,
     <1>24, <1>25, <1>26, <1>27, <1>28
  DEF Next, Works, Misfortune

KeptSoFar == mishaps = 0 => Kept

LEMMA MishapsCount == ASSUME Bounds, [Next]_vars PROVE mishaps' = mishaps \/ mishaps' = mishaps + 1
<1>1. CASE UNCHANGED vars
  BY <1>1 DEF vars, pastVars
<1>2. ASSUME NEW w \in Workers, Works(w) PROVE mishaps' = mishaps
  BY <1>2 DEF Works, Receive, PollRead, PollDelete, PollReceives, BeginExpired, Begin, Note,
              SelectNone, Select, Push, GivesUp, TriesNext, Succeeds, Unqueued,
              QueueExpired, GetOrCreate, SaveEntry, BreaksOff, CountsTold, Told, Close, pastVars
<1>3. CASE Misfortune
  BY <1>3 DEF Misfortune, BeginUpgrading, PollLost, Lose, QueueDrops, Expire, Crash, Mishap
<1>4. ASSUME NEW w \in Workers, Broadcast(w) \/ Resend(w) PROVE mishaps' = mishaps
  BY <1>4 DEF Broadcast, Resend, pastVars
<1> QED BY <1>1, <1>2, <1>3, <1>4 DEF Next

LEMMA Expires == ASSUME [Next]_vars PROVE expired' = expired \/ Expire
<1>1. CASE UNCHANGED vars
  BY <1>1 DEF vars
<1>2. ASSUME NEW w \in Workers, Works(w) PROVE expired' = expired
  BY <1>2 DEF Works, Receive, PollRead, PollDelete, PollReceives, BeginExpired, Begin, Note,
              SelectNone, Select, Push, GivesUp, TriesNext, Succeeds, Unqueued,
              QueueExpired, GetOrCreate, SaveEntry, BreaksOff, CountsTold, Told, Close
<1>3. CASE Misfortune
  BY <1>3 DEF Misfortune, BeginUpgrading, PollLost, Lose, QueueDrops, Crash
<1>4. ASSUME NEW w \in Workers, Broadcast(w) \/ Resend(w) PROVE expired' = expired
  BY <1>4 DEF Broadcast, Resend
<1> QED BY <1>1, <1>2, <1>3, <1>4 DEF Next

LEMMA KeptStays ==
    ASSUME Types, Holdings, Tokens, Bounds, KeptSoFar, [Next]_vars
    PROVE  KeptSoFar'
<1> SUFFICES ASSUME mishaps' = 0 PROVE Kept'
  BY DEF KeptSoFar
<1>1. mishaps = 0 /\ Kept
  BY MishapsCount DEF Bounds, KeptSoFar
<1>2. ~expired'
  BY <1>1, Expires DEF Kept, Expire, Mishap
<1>3. CASE UNCHANGED vars
  <2>1. UNCHANGED <<has, sentTo, queue, net, carry, at, todo, target, client, forsaken>>
    BY <1>3 DEF vars, tableVars, workVars, pastVars
  <2>2. \A m \in Nodes : Reached(m) => Reached(m)'
    BY <2>1 DEF Reached, Underway
  <2>3. NamedReached'
    BY <1>1, <2>1, <2>2, NamedIf DEF Kept, NamedReached
  <2>4. PushesSafe'
    BY <1>1, <2>1 DEF Kept, PushesSafe
  <2>5. NetBacked'
    BY <1>1, <2>1 DEF Kept, NetBacked, Backed, Carried
  <2>6. Entered'
    BY <1>1, <2>1 DEF Kept, Entered, Carried
  <2> QED BY <1>2, <2>3, <2>4, <2>5, <2>6 DEF Kept
<1>4. CASE Next
  <2>1. \A m \in Nodes : Reached(m) => Reached(m)'
    BY <1>1, <1>4, StaysReached
  <2>2. NamedReached' /\ PushesSafe' /\ Entered'
    BY <1>1, <1>4, <2>1, NamedStay, PushesStay, EnteredStays
  <2>3. \A n, m \in Nodes : m \in Downstream[n] /\ Backed(n, m) => Backed(n, m)'
    BY <1>1, <1>4, StaysBacked
  <2>4. NewBacked
    BY <1>1, <1>4, RequestsBacked
  <2>5. NetBacked'
    <3> SUFFICES ASSUME NEW q \in net', q.to \in Downstream[q.by] PROVE Backed(q.by, q.to)'
      BY DEF NetBacked
    <3>1. CASE \E r \in net : r.to = q.to /\ r.by = q.by
      <4>1. q.by \in Nodes /\ q.to \in Nodes /\ Backed(q.by, q.to)
        BY <1>1, <3>1 DEF Kept, NetBacked, Types, Requests
      <4> QED BY <2>3, <4>1
    <3> QED BY <2>4, <3>1 DEF NewBacked
  <2> QED BY <1>2, <2>2, <2>5 DEF Kept
<1> QED BY <1>3, <1>4
-----------------------------------------------------------------------------
(* The theorems *)

LEMMA BoundsKept == ASSUME Bounds, [Next]_vars PROVE Bounds'
<1>1. \/ UNCHANGED <<resends, mishaps>>
      \/ Mishap /\ UNCHANGED resends
      \/ resends + mishaps < MaxEvents /\ resends' = resends + 1 /\ UNCHANGED mishaps
  <2>1. CASE UNCHANGED vars
    BY <2>1 DEF vars, pastVars
  <2>2. ASSUME NEW w \in Workers, Works(w) PROVE UNCHANGED <<resends, mishaps>>
    BY <2>2 DEF Works, Receive, PollRead, PollDelete, PollReceives, BeginExpired, Begin, Note,
                SelectNone, Select, Push, GivesUp, TriesNext, Succeeds, Unqueued,
                QueueExpired, GetOrCreate, SaveEntry, BreaksOff, CountsTold, Told, Close, pastVars
  <2>3. CASE Misfortune
    BY <2>3 DEF Misfortune, BeginUpgrading, PollLost, Lose, QueueDrops, Expire, Crash
  <2>4. ASSUME NEW w \in Workers, Broadcast(w) PROVE UNCHANGED <<resends, mishaps>>
    BY <2>4 DEF Broadcast, pastVars
  <2>5. ASSUME NEW w \in Workers, Resend(w)
        PROVE  resends + mishaps < MaxEvents /\ resends' = resends + 1 /\ UNCHANGED mishaps
    BY <2>5 DEF Resend
  <2> QED BY <2>1, <2>2, <2>3, <2>4, <2>5 DEF Next
<1> QED BY <1>1, ConstantsAssumption DEF Bounds, Mishap

MessageInv ==
    /\ Types /\ Bounds /\ Holdings /\ Tokens
    /\ Paths /\ CompleteWhenTold /\ KeptSoFar

LEMMA InitMessageInv == Init => MessageInv
<1> SUFFICES ASSUME Init PROVE MessageInv
  OBVIOUS
<1> USE ConstantsAssumption DEF Init, Fresh
<1>1. Types
  BY DEF Types, Places, Payloads
<1>2. Bounds /\ Holdings /\ Tokens
  BY DEF Bounds, Holdings, Tokens, Busy, Aimed, Pushing
<1>3. Paths
  BY DEF Paths, WorkerPaths, NetPaths, QueuePaths, Pushing
<1>4. CompleteWhenTold
  BY DEF CompleteWhenTold
<1>5. KeptSoFar
  BY DEF KeptSoFar, Kept, NamedReached, PushesSafe, NetBacked, Entered
<1> QED BY <1>1, <1>2, <1>3, <1>4, <1>5 DEF MessageInv

LEMMA NextMessageInv == MessageInv /\ [Next]_vars => MessageInv'
<1> SUFFICES ASSUME MessageInv, [Next]_vars PROVE MessageInv'
  OBVIOUS
<1>1. /\ Types /\ Bounds /\ Holdings /\ Tokens
      /\ Paths /\ CompleteWhenTold /\ KeptSoFar
  BY DEF MessageInv
<1>2. Types' /\ Bounds' /\ Holdings' /\ Tokens'
  BY <1>1, TypesKept, BoundsKept, HoldingsKept, TokensKept
<1>3. Paths' /\ CompleteWhenTold'
  BY <1>1, PathsKept, CompleteKept
<1>4. KeptSoFar'
  BY <1>1, KeptStays
<1> QED BY <1>2, <1>3, <1>4 DEF MessageInv

LEMMA AlwaysMessageInv == Spec => []MessageInv
BY InitMessageInv, NextMessageInv, PTL DEF Spec

\* A node records only peers it knows as told, calls only messages complete that
\* it has, and no push is under way for a worker that is elsewhere.
THEOREM MessageTypes == Spec => []TypeOK
<1>1. MessageInv => TypeOK
  BY DEF MessageInv, Types, Bounds, TypeOK
<1> QED BY <1>1, AlwaysMessageInv, PTL

\* No copy is ever sent, queued or fetched back to a node it has passed, for any
\* nodes and roles, whatever is lost, repeated or late.
THEOREM NothingReturns == Spec => []NoLoops
<1>1. MessageInv => NoLoops
  BY DEF MessageInv, Paths, WorkerPaths, NetPaths, QueuePaths, NoLoops
<1> QED BY <1>1, AlwaysMessageInv, PTL

\* Complete means that every peer within reach was told, as far as the node counts
\* right: for messages without filters.
THEOREM CompleteIsTold == Spec => []CompleteWhenTold
<1>1. MessageInv => CompleteWhenTold
  BY DEF MessageInv
<1> QED BY <1>1, AlwaysMessageInv, PTL

\* As long as no push to a peer that does not poll is lost, and no node restarts,
\* upgrades or lets entries age: whoever counts as told has the message or it is
\* on its way to it; but for the peers whose push was still to come when save()
\* did not find the entry of another.
THEOREM NobodyForgotten == Spec => []NoneForgotten
<1>1. MessageInv => NoneForgotten
  BY DEF MessageInv, KeptSoFar, Kept, NamedReached, Reached, NoneForgotten
<1> QED BY <1>1, AlwaysMessageInv, PTL
=============================================================================
