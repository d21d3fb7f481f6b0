---------------------------- MODULE NetMessages ----------------------------
(***************************************************************************)
(* One NetMessage on its way through the nodes of an installation          *)
(* (apps/nodes/services/propagation.py).                                   *)
(*                                                                         *)
(* A node that has the message pushes it to some of the peers it knows and *)
(* names to them, as `seen`, the peers that need not be told any more; each *)
(* of them goes on in the same way before it answers.  A push that fails is *)
(* queued if the peer is downstream, and the peer fetches it by polling.   *)
(* Every node serves several requests at once, in threads that share its   *)
(* database: requests, polls and resends interleave, time out, arrive      *)
(* twice or late.                                                          *)
(***************************************************************************)
EXTENDS Naturals, FiniteSets

CONSTANTS
    Nodes,
    Origin,     \* the node that broadcasts
    Knows,      \* of each node: the peers with a row in its database
    Eligible,   \* those among them that pass the message's filters
    Tier,       \* place of a node's role in the reach of the message, 0: outside
    Limit,      \* target_limit at each node (not sent along: 6 but at the origin)
    Downstream, \* of each node: the peers it queues for
    Upstream,   \* of each node: the peers it polls
    Workers,    \* threads that serve requests, and tasks that poll
    Pollers,
    Nobody,
    NoPayload,
    Home,       \* of each worker: its node
    Urls,       \* of each node: how many addresses a push tries
    MaxEvents   \* resends and mishaps together

ASSUME ConstantsAssumption ==
    /\ Origin \in Nodes /\ IsFiniteSet(Nodes)
    /\ Knows \in [Nodes -> SUBSET Nodes] /\ \A n \in Nodes : n \notin Knows[n]
    /\ Eligible \in [Nodes -> SUBSET Nodes] /\ \A n \in Nodes : Eligible[n] \subseteq Knows[n]
    /\ Tier \in [Nodes -> Nat] /\ Limit \in [Nodes -> Nat \ {0}]
    /\ Downstream \in [Nodes -> SUBSET Nodes] /\ Upstream \in [Nodes -> SUBSET Nodes]
    /\ Pollers \subseteq Workers /\ Home \in [Workers -> Nodes]
    /\ Nobody \notin Workers
    /\ NoPayload \notin [seen : SUBSET Nodes, path : SUBSET Nodes]
    /\ Urls \in [Nodes -> Nat] /\ MaxEvents \in Nat

Payloads == [seen : SUBSET Nodes, path : SUBSET Nodes]   \* path: nodes passed, history
Requests == [client : Workers \cup {Nobody}, by : Nodes, to : Nodes, payload : Payloads]

VARIABLES
    \* each node's database
    has,        \* nodes with the NetMessage row
    sentTo,     \* propagated_to
    complete,   \* nodes whose row is complete
    queue,      \* PendingNetMessage of a node for a peer
    \* workers
    at,         \* where each one is
    carry,      \* the payload it works on
    todo,       \* nodes to note, then peers to push to
    target,     \* the peer a push or a poll goes to
    tries,      \* addresses tried for it
    holding,    \* workers whose queue entry, read or created, is still there
    client,     \* the worker it will answer
    \* the world
    net,        \* requests on their way
    expired, resends, mishaps,
    forsaken    \* history: peers a propagation that broke off did not push to

tableVars == <<has, sentTo, complete, queue>>
workVars == <<carry, todo, target, tries>>
pastVars == <<forsaken, resends, mishaps>>
vars == <<tableVars, at, workVars, holding, client, net, expired, pastVars>>

\* Losses the protocol does not make up for.
Mishap == resends + mishaps < MaxEvents /\ mishaps' = mishaps + 1

-----------------------------------------------------------------------------
(* propagate() *)

\* Mutant: a node counts itself among its peers.
NotedSelf(n, seen) == seen \cap (Knows[n] \cup {n})
\* Nodes of `seen` that become rows of propagated_to.
Noted(n, seen) == seen \cap Knows[n]

\* Mutant: peers that were told are asked again.
RemainingAll(n) == Eligible[n]
Remaining(n) == Eligible[n] \ sentTo[n]

\* Peers within reach, role by role, at most Limit of them.
Selections(n, remaining) ==
    LET reached == {m \in remaining : Tier[m] > 0}
        count == IF Cardinality(reached) < Limit[n] THEN Cardinality(reached) ELSE Limit[n]
    IN {S \in SUBSET reached :
           /\ Cardinality(S) = count
           /\ \A m \in S, k \in reached \ S : Tier[m] <= Tier[k]}

\* Mutant: the peers left out are named too.
SeenAll(seen, selected, remaining) == seen \cup remaining
\* `seen` of the payload: those told so far and those about to be.
PayloadSeen(seen, selected, remaining) == seen \cup selected

\* Of a propagation that no other node asked for.
Fresh == [seen |-> {}, path |-> {}]

\* A worker starts on payload p.
Starts(w, p) ==
    /\ at' = [at EXCEPT ![w] = "begin"]
    /\ carry' = [carry EXCEPT ![w] = p]
    /\ todo' = [todo EXCEPT ![w] = {}]
    /\ UNCHANGED <<target, tries>>

\* It ends and answers its client, if that still waits.
Ends(w, answer) ==
    /\ at' = [x \in Workers |-> IF x = w THEN "idle"
                                ELSE IF x = client[w] THEN answer ELSE at[x]]
    /\ client' = [client EXCEPT ![w] = Nobody]
    /\ carry' = [carry EXCEPT ![w] = Fresh]
    /\ todo' = [todo EXCEPT ![w] = {}]
    /\ UNCHANGED net

Returns(w) == Ends(w, "answered") /\ UNCHANGED <<target, tries>>

\* The queue entry a worker has read or created: a poller its own at the node it
\* polls, any other its node's for the peer.
Entry(w) == IF at[w] = "polling" THEN <<target[w], Home[w]>> ELSE <<Home[w], target[w]>>

\* Entries are deleted; whoever holds one of them has lost it.
Delete(entries) ==
    /\ queue' = [k \in Nodes \X Nodes |-> IF k \in entries THEN NoPayload ELSE queue[k]]
    /\ holding' = {x \in holding : Entry(x) \notin entries}

\* Expired: complete, and nobody's queue keeps it.  During an upgrade the
\* message is kept but goes nowhere.
BeginExpired(w) ==
    LET n == Home[w] IN
    /\ at[w] = "begin" /\ expired
    /\ complete' = complete \cup {n}
    /\ Delete({n} \X Nodes)
    /\ Returns(w)
    /\ UNCHANGED <<has, sentTo, expired, pastVars>>

BeginUpgrading(w) ==
    /\ at[w] = "begin" /\ ~expired
    /\ Mishap
    /\ Returns(w)
    /\ UNCHANGED <<tableVars, holding, expired, forsaken, resends>>

Begin(w) ==
    LET n == Home[w]
        seen == carry[w].seen \cup {n}
    IN
    /\ at[w] = "begin" /\ ~expired
    /\ at' = [at EXCEPT ![w] = "noting"]
    /\ carry' = [carry EXCEPT ![w] = [seen |-> seen, path |-> carry[w].path \cup {n}]]
    /\ todo' = [todo EXCEPT ![w] = Noted(n, seen)]
    /\ UNCHANGED <<tableVars, target, tries, client, net, holding, expired, pastVars>>

Note(w, m) ==
    /\ at[w] = "noting" /\ m \in todo[w]
    /\ todo' = [todo EXCEPT ![w] = @ \ {m}]
    /\ sentTo' = [sentTo EXCEPT ![Home[w]] = @ \cup {m}]
    /\ UNCHANGED <<has, complete, queue, at, carry, target, tries, client, net, holding, expired,
                   pastVars>>

\* Nobody left, or nobody within reach: complete.
SelectNone(w) ==
    LET n == Home[w] IN
    /\ at[w] = "noting" /\ todo[w] = {}
    /\ {} \in Selections(n, Remaining(n))
    /\ complete' = complete \cup {n}
    /\ Returns(w)
    /\ UNCHANGED <<has, sentTo, queue, holding, expired, pastVars>>

Select(w) ==
    LET n == Home[w] IN
    /\ at[w] = "noting" /\ todo[w] = {}
    /\ \E S \in Selections(n, Remaining(n)) \ {{}} :
          /\ todo' = [todo EXCEPT ![w] = S]
          /\ carry' = [carry EXCEPT ![w] =
                [seen |-> PayloadSeen(@.seen, S, Remaining(n)), path |-> @.path]]
    /\ at' = [at EXCEPT ![w] = "sending"]
    /\ UNCHANGED <<tableVars, target, tries, client, net, holding, expired, pastVars>>

Request(w, m) == [client |-> w, by |-> Home[w], to |-> m, payload |-> carry[w]]

\* send_net_message, at the first address.
Push(w, m) ==
    /\ at[w] = "sending"
    /\ m \in todo[w] /\ \A k \in todo[w] : Tier[m] <= Tier[k]
    /\ at' = [at EXCEPT ![w] = "waiting"]
    /\ target' = [target EXCEPT ![w] = m]
    /\ tries' = [tries EXCEPT ![w] = 1]
    /\ net' = net \cup {Request(w, m)}
    /\ UNCHANGED <<tableVars, carry, todo, client, holding, expired, pastVars>>

\* Refused, or one second is over: the peer may still get and handle it.
GivesUp(w) ==
    /\ at[w] = "waiting"
    /\ at' = [at EXCEPT ![w] = "failed"]
    /\ net' = {IF q.client = w THEN [q EXCEPT !.client = Nobody] ELSE q : q \in net}
    /\ client' = [x \in Workers |-> IF client[x] = w THEN Nobody ELSE client[x]]
    /\ UNCHANGED <<tableVars, workVars, holding, expired, pastVars>>

TriesNext(w) ==
    /\ at[w] = "failed" /\ tries[w] < Urls[target[w]]
    /\ at' = [at EXCEPT ![w] = "waiting"]
    /\ tries' = [tries EXCEPT ![w] = @ + 1]
    /\ net' = net \cup {Request(w, target[w])}
    /\ UNCHANGED <<tableVars, carry, todo, target, client, holding, expired, pastVars>>

\* Its push or poll is over.
Drops(w) ==
    /\ target' = [target EXCEPT ![w] = Home[w]]
    /\ tries' = [tries EXCEPT ![w] = 0]

\* Either way the peer counts as told, and it is the next one's turn.
Told(w) ==
    /\ sentTo' = [sentTo EXCEPT ![Home[w]] = @ \cup {target[w]}]
    /\ todo' = [todo EXCEPT ![w] = @ \ {target[w]}]
    /\ at' = [at EXCEPT ![w] = "sending"]
    /\ Drops(w)
    /\ UNCHANGED <<has, complete, queue, carry, holding, client, net, expired, pastVars>>

\* clear_queue_for_node
Succeeds(w) ==
    /\ at[w] = "answered"
    /\ Delete({<<Home[w], target[w]>>})
    /\ at' = [at EXCEPT ![w] = "settled"]
    /\ UNCHANGED <<has, sentTo, complete, workVars, client, net, expired, pastVars>>

\* No address is left.
Exhausted(w) == at[w] = "failed" /\ tries[w] >= Urls[target[w]]

\* queue_for_node does nothing for a peer that is not downstream.
Unqueued(w) ==
    /\ Exhausted(w) /\ target[w] \notin Downstream[Home[w]]
    /\ Told(w)

\* It deletes the entry of a message that expired, which is complete.
QueueExpired(w) ==
    /\ Exhausted(w) /\ target[w] \in Downstream[Home[w]] /\ expired
    /\ complete' = complete \cup {Home[w]}
    /\ Delete({<<Home[w], target[w]>>})
    /\ at' = [at EXCEPT ![w] = "settled"]
    /\ UNCHANGED <<has, sentTo, workVars, client, net, expired, pastVars>>

\* Mutant: an entry for the peer is left as it is, whether there or not.
CreatedNever(n, m, p) == queue[<<n, m>>]
\* get_or_create: p is what an entry is created with.
Created(n, m, p) == IF queue[<<n, m>>] = NoPayload THEN p ELSE queue[<<n, m>>]

GetOrCreate(w) ==
    LET n == Home[w]
        m == target[w]
    IN
    /\ Exhausted(w) /\ m \in Downstream[n] /\ ~expired
    /\ queue' = [queue EXCEPT ![<<n, m>>] = Created(n, m, carry[w])]
    /\ at' = [at EXCEPT ![w] = IF queue[<<n, m>>] = NoPayload THEN "created" ELSE "found"]
    /\ holding' = holding \cup {w}
    /\ UNCHANGED <<has, sentTo, complete, workVars, client, net, expired, pastVars>>

\* entry.save(update_fields): of an entry just created queued_at only, of an
\* earlier one also its seen.
SaveEntry(w) ==
    /\ at[w] \in {"created", "found"} /\ w \in holding
    /\ queue' = IF at[w] = "created" THEN queue
                ELSE [queue EXCEPT ![<<Home[w], target[w]>>] = carry[w]]
    /\ at' = [at EXCEPT ![w] = "settled"]
    /\ holding' = holding \ {w}
    /\ UNCHANGED <<has, sentTo, complete, workVars, client, net, expired, pastVars>>

\* The entry is gone: save() raises DatabaseError, which nobody catches.  The
\* peers not pushed to yet have been named in seen.
BreaksOff(w) ==
    /\ at[w] \in {"created", "found"} /\ w \notin holding
    /\ forsaken' = forsaken \cup (todo[w] \ {target[w]})
    /\ Ends(w, "failed")
    /\ Drops(w)
    /\ UNCHANGED <<tableVars, holding, expired, resends, mishaps>>

\* propagated_to.add
CountsTold(w) == at[w] = "settled" /\ Told(w)

Close(w) ==
    LET n == Home[w] IN
    /\ at[w] = "sending" /\ todo[w] = {}
    /\ complete' = IF Eligible[n] # {} /\ Cardinality(sentTo[n]) >= Cardinality(Eligible[n])
                   THEN complete \cup {n} ELSE complete
    /\ Returns(w)
    /\ UNCHANGED <<has, sentTo, queue, holding, expired, pastVars>>

-----------------------------------------------------------------------------
(* Where propagate() starts *)

Broadcast(w) ==
    /\ at[w] = "idle" /\ w \notin Pollers
    /\ Home[w] = Origin /\ has = {}
    /\ has' = {Origin}
    /\ Starts(w, Fresh)
    /\ UNCHANGED <<sentTo, complete, queue, client, net, holding, expired, pastVars>>

\* An operator sends the message again.
Resend(w) ==
    /\ at[w] = "idle" /\ w \notin Pollers
    /\ Home[w] \in has
    /\ resends + mishaps < MaxEvents /\ resends' = resends + 1
    /\ Starts(w, Fresh)
    /\ UNCHANGED <<tableVars, holding, client, net, expired, forsaken, mishaps>>

\* net_message and receive_payload: the row is created, or updated with what it
\* has already.
Receive(w, q) ==
    /\ at[w] = "idle" /\ w \notin Pollers
    /\ q \in net /\ q.to = Home[w]
    /\ net' = net \ {q}
    /\ has' = has \cup {q.to}
    /\ client' = [client EXCEPT ![w] = q.client]
    /\ Starts(w, q.payload)
    /\ UNCHANGED <<sentTo, complete, queue, holding, expired, pastVars>>

\* poll_upstream, and net_message_pull at the other end: it reads the entries,
\* deletes them, and answers with those not stale.
PollRead(w, n) ==
    /\ at[w] = "idle" /\ w \in Pollers
    /\ n \in Upstream[Home[w]] /\ queue[<<n, Home[w]>>] # NoPayload /\ ~expired
    /\ at' = [at EXCEPT ![w] = "polling"]
    /\ carry' = [carry EXCEPT ![w] = queue[<<n, Home[w]>>]]
    /\ target' = [target EXCEPT ![w] = n]
    /\ holding' = holding \cup {w}
    /\ UNCHANGED <<tableVars, todo, tries, client, net, expired, pastVars>>

PollDelete(w) ==
    /\ at[w] = "polling"
    /\ Delete(IF w \in holding THEN {Entry(w)} ELSE {})
    /\ at' = [at EXCEPT ![w] = "pulled"]
    /\ Drops(w)
    /\ UNCHANGED <<has, sentTo, complete, carry, todo, client, net, expired, pastVars>>

PollReceives(w) ==
    /\ at[w] = "pulled"
    /\ has' = has \cup {Home[w]}
    /\ Starts(w, carry[w])
    /\ UNCHANGED <<sentTo, complete, queue, client, net, holding, expired, pastVars>>

-----------------------------------------------------------------------------
(* What goes wrong *)

\* A request is lost; one to a peer downstream will be, or has been, queued.
Lose(q) ==
    /\ q \in net
    /\ net' = net \ {q}
    /\ IF q.to \in Downstream[q.by] THEN UNCHANGED mishaps ELSE Mishap
    /\ UNCHANGED <<tableVars, at, workVars, holding, client, expired, forsaken, resends>>

\* The answer to a poll is lost, after the entries were deleted.
PollLost(w) ==
    /\ at[w] = "pulled"
    /\ Mishap
    /\ at' = [at EXCEPT ![w] = "idle"]
    /\ carry' = [carry EXCEPT ![w] = Fresh]
    /\ UNCHANGED <<tableVars, todo, target, tries, holding, client, net, expired,
                   forsaken, resends>>

\* An entry is an hour old when polled for, as it is for an expired message, or
\* other messages fill the peer's queue.
QueueDrops(n, m) ==
    /\ queue[<<n, m>>] # NoPayload
    /\ IF expired THEN UNCHANGED mishaps ELSE Mishap
    /\ Delete({<<n, m>>})
    /\ UNCHANGED <<has, sentTo, complete, at, workVars, client, net, expired, forsaken,
                   resends>>

Expire ==
    /\ ~expired /\ has # {}
    /\ Mishap
    /\ expired' = TRUE
    /\ UNCHANGED <<tableVars, at, workVars, holding, client, net, forsaken, resends>>

\* A node restarts: its workers are gone, and the polls it was answering.
Crash(n) ==
    LET gone == {w \in Workers : Home[w] = n \/ (at[w] = "polling" /\ target[w] = n)} IN
    /\ Mishap
    /\ at' = [w \in Workers |-> IF w \in gone THEN "idle" ELSE at[w]]
    /\ client' = [w \in Workers |-> IF w \in gone \/ client[w] \in gone THEN Nobody
                                    ELSE client[w]]
    /\ net' = {IF q.client \in gone THEN [q EXCEPT !.client = Nobody] ELSE q : q \in net}
    /\ carry' = [w \in Workers |-> IF w \in gone THEN Fresh ELSE carry[w]]
    /\ todo' = [w \in Workers |-> IF w \in gone THEN {} ELSE todo[w]]
    /\ target' = [w \in Workers |-> IF w \in gone THEN Home[w] ELSE target[w]]
    /\ tries' = [w \in Workers |-> IF w \in gone THEN 0 ELSE tries[w]]
    /\ holding' = holding \ gone
    /\ UNCHANGED <<tableVars, expired, forsaken, resends>>

-----------------------------------------------------------------------------
Init ==
    /\ has = {} /\ complete = {}
    /\ sentTo = [n \in Nodes |-> {}]
    /\ queue = [k \in Nodes \X Nodes |-> NoPayload]
    /\ at = [w \in Workers |-> "idle"]
    /\ carry = [w \in Workers |-> Fresh]
    /\ todo = [w \in Workers |-> {}]
    /\ target = [w \in Workers |-> Home[w]]
    /\ tries = [w \in Workers |-> 0]
    /\ client = [w \in Workers |-> Nobody]
    /\ holding = {} /\ forsaken = {}
    /\ net = {} /\ expired = FALSE /\ resends = 0 /\ mishaps = 0

\* What a worker does next, as long as nothing goes wrong.
Works(w) ==
    \/ \E q \in net : Receive(w, q)
    \/ \E n \in Nodes : PollRead(w, n)
    \/ PollDelete(w) \/ PollReceives(w)
    \/ BeginExpired(w) \/ Begin(w) \/ (\E m \in Nodes : Note(w, m))
    \/ SelectNone(w) \/ Select(w) \/ (\E m \in Nodes : Push(w, m))
    \/ GivesUp(w) \/ TriesNext(w) \/ Succeeds(w)
    \/ Unqueued(w) \/ QueueExpired(w) \/ GetOrCreate(w) \/ SaveEntry(w) \/ BreaksOff(w)
    \/ CountsTold(w) \/ Close(w)

Misfortune ==
    \/ \E w \in Workers : BeginUpgrading(w) \/ PollLost(w)
    \/ \E q \in net : Lose(q)
    \/ \E n, m \in Nodes : QueueDrops(n, m)
    \/ Expire
    \/ \E n \in Nodes : Crash(n)

Next ==
    \/ \E w \in Workers : Broadcast(w) \/ Resend(w) \/ Works(w)
    \/ Misfortune

Spec == Init /\ [][Next]_vars

\* Threads and tasks go on: what waits for an idle one is accepted, polls come
\* round, and a push that nobody answers is given up after a second.  All of it
\* ends, so that it is enough if one that can go on does.  Nobody has to
\* broadcast or to resend.
Fairness == WF_vars(\E w \in Workers : Works(w))
FairSpec == Spec /\ Fairness

-----------------------------------------------------------------------------
(* Properties *)

Places == {"idle", "begin", "noting", "sending", "waiting", "answered", "failed",
           "created", "found", "settled", "polling", "pulled"}

\* Of a worker that has selected peers.
Pushing == {"sending", "waiting", "answered", "failed", "created", "found", "settled"}

TypeOK ==
    /\ has \subseteq Nodes /\ complete \subseteq has
    /\ sentTo \in [Nodes -> SUBSET Nodes] /\ \A n \in Nodes : sentTo[n] \subseteq Knows[n]
    /\ queue \in [Nodes \X Nodes -> Payloads \cup {NoPayload}]
    /\ at \in [Workers -> Places]
    /\ carry \in [Workers -> Payloads]
    /\ todo \in [Workers -> SUBSET Nodes]
    /\ target \in [Workers -> Nodes]
    /\ tries \in [Workers -> Nat]
    /\ holding \subseteq Workers
    /\ client \in [Workers -> Workers \cup {Nobody}]
    /\ net \subseteq Requests
    /\ expired \in BOOLEAN
    /\ forsaken \subseteq Nodes
    /\ resends \in Nat /\ mishaps \in Nat /\ resends + mishaps <= MaxEvents

\* A copy of the message is never sent, queued or fetched back to a node it has
\* passed, so that every copy is forwarded fewer times than there are nodes,
\* whoever sends it again or late.
NoLoops ==
    /\ \A q \in net : q.to \notin q.payload.path
    /\ \A n, m \in Nodes : queue[<<n, m>>] # NoPayload => m \notin queue[<<n, m>>].path
    /\ \A w \in Workers : at[w] = "pulled" => Home[w] \notin carry[w].path

\* The message is on its way to node m.
Underway(m) ==
    \/ \E n \in Nodes : queue[<<n, m>>] # NoPayload
    \/ \E q \in net : q.to = m
    \/ \E w \in Workers : at[w] \in Pushing /\ m \in todo[w]
    \/ \E w \in Workers : at[w] \in {"polling", "pulled"} /\ Home[w] = m

\* Whoever a node counts as told has the message or is still going to get it:
\* since peers are told of each other, nobody else will try.  Only a peer whose
\* push was still to come when save() raised in queue_for_node, because the entry
\* of another peer had been fetched meanwhile, may be forgotten; one whose push
\* came before, or whose own entry it was, may not.
NoneForgotten ==
    mishaps = 0 =>
        \A n \in Nodes : \A m \in sentTo[n] : m \in has \/ Underway(m) \/ m \in forsaken

\* A node calls an unfiltered message complete only when it has told, or knows
\* told, all peers within reach.
CompleteWhenTold ==
    \A n \in complete : ~expired /\ Eligible[n] = Knows[n] =>
        \A m \in Eligible[n] : Tier[m] > 0 => m \in sentTo[n]

\* Every node gets a message that was broadcast, also those that pushes never
\* reach, if those are polling; unless save() raised in a propagation and a peer
\* it left out stays without, with those who would have heard from that peer.
EveryoneHears == has # {} ~> has = Nodes \/ forsaken \ has # {} \/ mishaps > 0
=============================================================================
