------------------------- MODULE MCCatalogAdmission -------------------------
(***************************************************************************)
(* The instance of the catalog for TLC: two sessions, two worktrees and    *)
(* two applications that take leases, queue, run, give up, die and lose    *)
(* their worktrees without end.  MaxMoves bounds the operations that come  *)
(* from a person or a planning worker: creating, importing, moving,        *)
(* relinking, rolling back and forgetting sessions, binding a worker and   *)
(* changing the limit.                                                     *)
(***************************************************************************)
EXTENDS CatalogAdmission, TLC

CONSTANTS s1, s2, c1, c2, MaxMoves

VARIABLE moves

MCInit ==
    /\ moves = 0
    /\ \/ row = (s1 :> NewRow(c1)) @@ (s2 :> NoRow) /\ projects = {c1}
       \/ row = (s1 :> NewRow(c1)) @@ (s2 :> NewRow(c2)) /\ projects = {c1, c2}
    /\ lease = [s \in Sessions |-> NoLease]
    /\ request = [s \in Sessions |-> NoOwner]
    /\ order = [s \in Sessions |-> 0]
    /\ claim = [s \in Sessions |-> NoOwner]
    /\ limit = DefaultLimit
    /\ present = Checkouts
    /\ alive = Owners

Schedule ==
    \/ \E o \in Owners, s \in Sessions :
          \/ AcquireSessionLease(o, s) \/ RenewWorktreeLease(o, s) \/ ReleaseWorktreeLease(o, s)
          \/ CapacityOps(o, s)
    \/ \E R \in SUBSET Sessions : MarkMissingWorktreesUnavailable(R)
    \/ Environment

Move ==
    \/ \E o \in Owners, s \in Sessions :
          \/ BindWorktreeLeaseWorker(o, s) \/ RollbackSessionStart(o, s)
          \/ \E c \in Checkouts : CreateSessionWithLease(o, s, c) \/ TransferSessionLease(o, s, c)
    \/ \E s \in Sessions : RecordOps(s)
    \/ \E n \in Limits \ {limit} : SetConcurrencyLimit(n)

MCNext ==
    \/ Schedule /\ UNCHANGED moves
    \/ moves < MaxMoves /\ moves' = moves + 1 /\ Move

MCSpec == MCInit /\ [][MCNext]_<<vars, moves>> /\ Fairness
=============================================================================
