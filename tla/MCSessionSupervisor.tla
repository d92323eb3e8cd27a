------------------------ MODULE MCSessionSupervisor ------------------------
(* The instance of the supervisor for TLC: MaxIntents bounds what the user *)
(* asks for, one less once the session whose cleanup may fail is in use;   *)
(* everything else happens by itself.                                      *)
EXTENDS SessionSupervisor

CONSTANTS s1, s2, MaxIntents

VARIABLE intents

MCInit == Init /\ intents = 0
MCNext ==
    \/ ByItself /\ UNCHANGED intents
    \/ /\ \E s \in Sessions : Intents(s)
       /\ intents' = intents + 1
       /\ intents' + Cardinality({s \in CleanupFails : status'[s] # "NONE"}) <= MaxIntents

MCSpec == MCInit /\ [][MCNext]_<<vars, intents>> /\ Fairness
=============================================================================
