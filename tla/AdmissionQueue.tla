--------------------------- MODULE AdmissionQueue ---------------------------
(***************************************************************************)
(* What the catalog promises about execution capacity (issue 0005 of the   *)
(* Portable Dev Loop v3 PRD): a first-come first-served line in front of a *)
(* room that admits only below the user-wide limit.  Lowering the limit    *)
(* evicts nobody, anybody may leave at any time, and nobody is overtaken.  *)
(***************************************************************************)
EXTENDS Naturals, FiniteSets

CONSTANTS Sessions, Limits

VARIABLES
    waiting,    \* the sessions in line
    ahead,      \* the pairs <<s, t>> where s stands before t
    running,    \* the sessions that hold a slot
    limit       \* how many slots there are

vars == <<waiting, ahead, running, limit>>

Init ==
    /\ waiting = {} /\ ahead = {} /\ running = {}
    /\ limit \in Limits

Join(s) ==
    /\ s \notin waiting \cup running
    /\ waiting' = waiting \cup {s}
    /\ ahead' = ahead \cup (waiting \X {s})
    /\ UNCHANGED <<running, limit>>

(* The first in line, or a newcomer who finds the line empty, is admitted. *)
Admit(s) ==
    /\ s \notin running
    /\ \A t \in waiting \ {s} : <<s, t>> \in ahead
    /\ Cardinality(running) < limit
    /\ waiting' = waiting \ {s}
    /\ ahead' = {p \in ahead : p[1] # s}
    /\ running' = running \cup {s}
    /\ UNCHANGED limit

Leave(S) ==
    /\ waiting' = waiting \ S
    /\ running' = running \ S
    /\ ahead' = {p \in ahead : p[1] \notin S /\ p[2] \notin S}
    /\ UNCHANGED limit

SetLimit(n) ==
    /\ limit' = n
    /\ UNCHANGED <<waiting, ahead, running>>

Next ==
    \/ \E s \in Sessions : Join(s) \/ Admit(s)
    \/ \E S \in SUBSET Sessions : Leave(S)
    \/ \E n \in Limits : SetLimit(n)

Spec == Init /\ [][Next]_vars
=============================================================================
