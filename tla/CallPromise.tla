----------------------------- MODULE CallPromise -----------------------------
(***************************************************************************)
(* What the CSMS promises the caller of a charge point, whatever threads,  *)
(* dictionaries and timers it keeps the promise with: a call is open at    *)
(* most once, is answered at most once and only while it is open, and its  *)
(* caller is told at most one thing: the recorded answer, or that there    *)
(* was none.                                                               *)
(***************************************************************************)
CONSTANT Calls

VARIABLES
    phase,    \* "new", "open" or "closed"
    outcome,  \* the answer recorded for a call, or "none"
    told      \* what its caller was told, "nothing" at first

vars == <<phase, outcome, told>>

Answers == {"result", "error"}

Init ==
    /\ phase = [m \in Calls |-> "new"]
    /\ outcome = [m \in Calls |-> "none"]
    /\ told = [m \in Calls |-> "nothing"]

Open(m) ==
    /\ phase[m] = "new"
    /\ phase' = [phase EXCEPT ![m] = "open"]
    /\ UNCHANGED <<outcome, told>>

Answer(m, answer) ==
    /\ phase[m] = "open"
    /\ phase' = [phase EXCEPT ![m] = "closed"]
    /\ outcome' = [outcome EXCEPT ![m] = answer]
    /\ UNCHANGED told

\* A disconnect or a restart closes any number of calls at once.
Drop(S) ==
    /\ \A m \in S : phase[m] = "open"
    /\ phase' = [m \in Calls |-> IF m \in S THEN "closed" ELSE phase[m]]
    /\ UNCHANGED <<outcome, told>>

Tell(m) ==
    /\ told[m] = "nothing"
    /\ phase[m] # "new"
    /\ told' = [told EXCEPT ![m] = IF outcome[m] = "none" THEN "noReply" ELSE outcome[m]]
    /\ UNCHANGED <<phase, outcome>>

GiveUp(m) ==
    /\ told[m] = "nothing"
    /\ phase[m] # "new"
    /\ told' = [told EXCEPT ![m] = "noReply"]
    /\ UNCHANGED <<phase, outcome>>

Next ==
    \/ \E m \in Calls : Open(m) \/ Tell(m) \/ GiveUp(m)
    \/ \E m \in Calls, answer \in Answers : Answer(m, answer)
    \/ \E S \in SUBSET Calls : Drop(S)

Spec == Init /\ [][Next]_vars
=============================================================================
