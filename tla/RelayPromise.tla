---------------------------- MODULE RelayPromise ----------------------------
(***************************************************************************)
(* What the forwarder promises a remote CSMS that sends commands to a      *)
(* charge point through it, whatever sessions, threads and tasks carry     *)
(* them: a command reaches the charger at most once and is answered at     *)
(* most once, over the connection it came by; with the charger's own reply *)
(* if the charger got it, with an error only if the charger never will.    *)
(* No answer at all is allowed: connections break.                         *)
(***************************************************************************)
EXTENDS Sequences

CONSTANTS Commands, Sessions, NoSession

VARIABLES
    asked,   \* the session each command came by, NoSession at first
    given,   \* commands the charger received
    answers  \* what the remote was sent for each command, in order

vars == <<asked, given, answers>>

Init ==
    /\ asked = [m \in Commands |-> NoSession]
    /\ given = {}
    /\ answers = [m \in Commands |-> <<>>]

Ask(m, s) ==
    /\ asked[m] = NoSession
    /\ asked' = [asked EXCEPT ![m] = s]
    /\ UNCHANGED <<given, answers>>

Give(m) ==
    /\ asked[m] # NoSession
    /\ m \notin given /\ answers[m] = <<>>
    /\ given' = given \cup {m}
    /\ UNCHANGED <<asked, answers>>

Answer(m) ==
    /\ asked[m] # NoSession
    /\ answers[m] = <<>>
    /\ LET kind == IF m \in given THEN "reply" ELSE "error" IN
       answers' = [answers EXCEPT ![m] = <<[kind |-> kind, via |-> asked[m]]>>]
    /\ UNCHANGED <<asked, given>>

Next ==
    \/ \E m \in Commands, s \in Sessions : Ask(m, s)
    \/ \E m \in Commands : Give(m) \/ Answer(m)

Spec == Init /\ [][Next]_vars
=============================================================================
