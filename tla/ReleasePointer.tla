--------------------------- MODULE ReleasePointer ---------------------------
(***************************************************************************)
(* What an installation promises its launchers (portable-v3-install-layout *)
(* .md, "Activation invariant"): the current release changes at once from  *)
(* one whole release to another, the one it replaces stays recorded as     *)
(* previous, a rollback exchanges the two, and an uninstall removes both.  *)
(***************************************************************************)
CONSTANTS Payload, None

VARIABLES current, previous

vars == <<current, previous>>

Init == current \in Payload \cup {None} /\ previous = None

Activate(p) ==
    /\ p # current
    /\ current' = p /\ previous' = current

Exchange ==
    /\ previous # None
    /\ current' = previous /\ previous' = current

Remove == current' = None /\ previous' = None

Next == Exchange \/ Remove \/ \E p \in Payload : Activate(p)

Spec == Init /\ [][Next]_vars
=============================================================================
