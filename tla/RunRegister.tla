---------------------------- MODULE RunRegister -----------------------------
(***************************************************************************)
(* What RunStore promises its callers about one Workflow Run: the state a  *)
(* load would return, and the last state a record has returned to its      *)
(* caller.  A state that nobody was promised may vanish and come back; one *)
(* that was promised only gives way to a newer one.                        *)
(*                                                                         *)
(* A load repairs the log without the lock.  Unless two such repairs have  *)
(* crossed, a record moreover promises what a load returns, and the        *)
(* promise of an end is kept for good.                                     *)
(***************************************************************************)
EXTENDS Naturals

CONSTANT States     \* records with at least the fields seq and run

VARIABLES
    stored,         \* what a load would return
    acked,          \* what the last record returned
    crossed         \* a repair undid what another had yet to repair

NoOlder(s, t) == s = t \/ s.seq > t.seq

Init == stored \in States /\ acked = stored /\ crossed = FALSE

Settled == stored = acked /\ acked.run = "ended"

(* A write becomes visible, and its caller may learn it at once or later;  *)
(* a crash, a failed write or a load that repairs the log may take away    *)
(* what nobody was promised, or bring it back.                             *)
Next ==
    /\ stored' \in States /\ acked' \in States /\ crossed' \in BOOLEAN
    /\ NoOlder(acked', acked) /\ NoOlder(stored', acked')
    /\ crossed => crossed'
    /\ ~crossed' => ~Settled /\ acked' \in {acked, stored'}

Spec == Init /\ [][Next]_<<stored, acked, crossed>>
=============================================================================
