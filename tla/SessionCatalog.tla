--------------------------- MODULE SessionCatalog ---------------------------
(***************************************************************************)
(* The Portable Session Catalog (portable_session_catalog.py): one SQLite  *)
(* database shared by every Dev Loop application on the machine.  Every    *)
(* public method runs as one BEGIN IMMEDIATE transaction, so every method  *)
(* is one action here; a method that raises rolls back, so the failing     *)
(* outcomes of a method are not steps.                                     *)
(*                                                                         *)
(* A project row is identified with its checkout: project_id is the uuid5  *)
(* of the checkout URI.  Revision counters and text columns are left out.  *)
(***************************************************************************)
EXTENDS Naturals, FiniteSets

CONSTANTS
    Sessions,       \* session identifiers
    Checkouts,      \* canonical worktree paths
    Owners,         \* application instances: an owner_id and its one process
    NoCheckout,     \* the checkout column of an absent row
    NoOwner,        \* the owner column of an absent row
    TreeKind,       \* the kind of process tree this platform binds to a lease
    Limits,         \* the concurrency limits Options may set
    DefaultLimit,   \* the limit a new catalog starts with
    Reported,       \* the statuses callers pass to status updates
    Prompted,       \* the checkouts a planning prompt may switch a session to
    OrderBound      \* bound of the model: the largest queue_order handed out

ASSUME NoCheckoutAssumption == NoCheckout \notin Checkouts
ASSUME NoOwnerAssumption == NoOwner \notin Owners
ASSUME TreeKindAssumption ==
    TreeKind \in {"ROOT_PROCESS", "WINDOWS_KILL_ON_CLOSE_JOB", "POSIX_PROCESS_GROUP"}
ASSUME LimitsAssumption == Limits \subseteq Nat \ {0} /\ DefaultLimit \in Limits
ASSUME PromptedAssumption == Prompted \subseteq Checkouts
ASSUME OrderBoundAssumption == OrderBound \in Nat

Terminal == {"COMPLETED", "FAILED", "CANCELLED"}
Status == Terminal \cup {"READY", "QUEUED", "RUNNING", "WAITING_FOR_INPUT",
                         "PAUSING", "PAUSED", "INTERRUPTED"}

ASSUME ReportedAssumption == Reported \subseteq Status
ASSUME SessionsAssumption == IsFiniteSet(Sessions)

VARIABLES
    row,        \* the sessions table, joined with the checkout of its project
    projects,   \* the saved_projects table
    lease,      \* worktree_leases, by session (session_id is UNIQUE)
    request,    \* execution_requests: the owner of the session's request
    order,      \* execution_requests: its queue_order, 0 without a request
    claim,      \* execution_claims: the owner of the session's claim
    limit,      \* catalog_settings: the user-wide concurrency limit
    present,    \* the checkouts that exist as Git checkout roots on disk
    alive       \* the application processes that are running

vars == <<row, projects, lease, request, order, claim, limit, present, alive>>
queueVars == <<request, order, claim>>
worldVars == <<limit, present, alive>>

NoRow == [status |-> "NONE", checkout |-> NoCheckout, available |-> FALSE, from |-> "NONE"]
NoLease == [owner |-> NoOwner, checkout |-> NoCheckout, worker |-> "none", fresh |-> FALSE]

(* A lease names the worker tree bound to it, if any: "live" while the     *)
(* tree runs, "ended" once it has stopped; "fresh" is a heartbeat younger  *)
(* than lease_timeout_seconds.                                             *)
Row == [status : Status \cup {"NONE"}, checkout : Checkouts \cup {NoCheckout},
        available : BOOLEAN, from : Status \cup {"NONE"}]
Lease == [owner : Owners \cup {NoOwner}, checkout : Checkouts \cup {NoCheckout},
          worker : {"none", "live", "ended"}, fresh : BOOLEAN]

Saved(s) == row[s] # NoRow
Unavailable(s) == Saved(s) /\ ~row[s].available
Leased(s) == lease[s] # NoLease
Requesters == {s \in Sessions : request[s] # NoOwner}
Claimers == {s \in Sessions : claim[s] # NoOwner}
Holders(c) == {s \in Sessions : Leased(s) /\ lease[s].checkout = c}
InProject(c) == {s \in Sessions : Saved(s) /\ row[s].checkout = c}

NewRow(c) == [status |-> "READY", checkout |-> c, available |-> TRUE, from |-> "NONE"]
NewLease(o, c) == [owner |-> o, checkout |-> c, worker |-> "none", fresh |-> TRUE]

(* A status write keeps unavailable_from_status equal to the status of a   *)
(* session whose worktree is missing.  (The Fault... definitions of this   *)
(* module are plausible bugs of the definition that follows them, used to  *)
(* show that a property can fail.)                                         *)
WithStatus(r, st) ==
    [r EXCEPT !.status = st, !.from = IF r.available THEN "NONE" ELSE st]

Init ==
    /\ row = [s \in Sessions |-> NoRow]
    /\ projects = {}
    /\ lease = [s \in Sessions |-> NoLease]
    /\ request = [s \in Sessions |-> NoOwner]
    /\ order = [s \in Sessions |-> 0]
    /\ claim = [s \in Sessions |-> NoOwner]
    /\ limit = DefaultLimit
    /\ present \in SUBSET Checkouts
    /\ alive = Owners

-----------------------------------------------------------------------------
(* Reclaiming a stale lease, and dropping what a session holds.            *)

FaultOwnerProbeOnly(l) == l.owner \notin alive
ConfirmedDead(l) ==
    IF l.worker = "none"
    THEN l.owner \notin alive
    ELSE /\ l.worker = "ended"
         /\ \/ TreeKind = "POSIX_PROCESS_GROUP"
            \/ TreeKind = "WINDOWS_KILL_ON_CLOSE_JOB" /\ l.owner \notin alive

Reclaimable(s) == Leased(s) /\ ~lease[s].fresh /\ ConfirmedDead(lease[s])

FaultInterruptStatusOnly(S) ==
    [s \in Sessions |-> IF s \in S THEN [row[s] EXCEPT !.status = "INTERRUPTED"] ELSE row[s]]
InterruptRows(S) ==
    [s \in Sessions |-> IF s \in S THEN WithStatus(row[s], "INTERRUPTED") ELSE row[s]]
DropLeases(S) == [s \in Sessions |-> IF s \in S THEN NoLease ELSE lease[s]]
DropQueue(S) ==
    /\ request' = [s \in Sessions |-> IF s \in S THEN NoOwner ELSE request[s]]
    /\ order' = [s \in Sessions |-> IF s \in S THEN 0 ELSE order[s]]
    /\ claim' = [s \in Sessions |-> IF s \in S THEN NoOwner ELSE claim[s]]

-----------------------------------------------------------------------------
(* Session rows and leases.                                                *)

(* create_session_with_lease: register the checkout, the session and its   *)
(* live owner, reclaiming a stale lease on that checkout first.            *)
CreateSessionWithLease(o, s, c) ==
    /\ o \in alive
    /\ ~Saved(s)
    /\ \A h \in Holders(c) : Reclaimable(h)
    /\ row' = [InterruptRows(Holders(c)) EXCEPT ![s] = NewRow(c)]
    /\ lease' = [DropLeases(Holders(c)) EXCEPT ![s] = NewLease(o, c)]
    /\ DropQueue(Holders(c))
    /\ projects' = projects \cup {c}
    /\ UNCHANGED worldVars

(* acquire_session_lease: an existing session takes the lease of its own   *)
(* checkout; a stale holder is reclaimed, and session_id being UNIQUE      *)
(* refuses a session that still holds a lease elsewhere.                   *)
AcquireSessionLease(o, s) ==
    LET c == row[s].checkout IN
    /\ o \in alive
    /\ Saved(s) /\ row[s].available
    /\ \A h \in Holders(c) : Reclaimable(h)
    /\ Leased(s) => s \in Holders(c)
    /\ row' = InterruptRows(Holders(c))
    /\ lease' = [DropLeases(Holders(c)) EXCEPT ![s] = NewLease(o, c)]
    /\ DropQueue(Holders(c))
    /\ UNCHANGED <<projects, worldVars>>

(* bind_worktree_lease_worker: the owner process names its worker tree.    *)
BindWorktreeLeaseWorker(o, s) ==
    /\ o \in alive
    /\ lease[s].owner = o
    /\ lease' = [lease EXCEPT ![s] = [@ EXCEPT !.worker = "live", !.fresh = TRUE]]
    /\ UNCHANGED <<row, projects, queueVars, worldVars>>

(* renew_worktree_lease: a heartbeat of the exact bound worker.            *)
RenewWorktreeLease(o, s) ==
    /\ o \in alive
    /\ lease[s].owner = o /\ lease[s].worker = "live"
    /\ lease' = [lease EXCEPT ![s].fresh = TRUE]
    /\ UNCHANGED <<row, projects, queueVars, worldVars>>

(* release_worktree_lease: delete the owner's claim, request and lease.    *)
FaultReleaseKeepsClaim(o, s) ==
    /\ o \in alive
    /\ lease[s].owner = o
    /\ lease' = DropLeases({s})
    /\ UNCHANGED <<row, projects, queueVars, worldVars>>
ReleaseWorktreeLease(o, s) ==
    /\ o \in alive
    /\ o \in {lease[s].owner, claim[s], request[s]}
    /\ lease' = IF lease[s].owner = o THEN DropLeases({s}) ELSE lease
    /\ claim' = [claim EXCEPT ![s] = IF @ = o THEN NoOwner ELSE @]
    /\ request' = [request EXCEPT ![s] = IF @ = o THEN NoOwner ELSE @]
    /\ order' = [order EXCEPT ![s] = IF request[s] = o THEN 0 ELSE @]
    /\ UNCHANGED <<row, projects, worldVars>>

(* rollback_session_start: forget a session whose worker never started.    *)
RollbackSessionStart(o, s) ==
    /\ o \in alive
    /\ lease[s].owner = o
    /\ lease' = DropLeases({s})
    /\ DropQueue({s})
    /\ row' = [row EXCEPT ![s] = NoRow]
    /\ UNCHANGED <<projects, worldVars>>

(* bind_or_create_session: the planning worker of an executing session     *)
(* moves the session to the checkout its prompt resolved to; no lease is   *)
(* consulted.  A session without a row is inserted.                        *)
BindOrCreateSession(s, c) ==
    /\ c \in present
    /\ Saved(s) => s \in Claimers /\ c \in Prompted /\ row[s].checkout # c
    /\ row' = [row EXCEPT ![s] = IF Saved(s) THEN [@ EXCEPT !.checkout = c] ELSE NewRow(c)]
    /\ projects' = projects \cup {c}
    /\ UNCHANGED <<lease, queueVars, worldVars>>

(* bind_session_checkout with an owner: a worker moves its session and its *)
(* lease to its implementation worktree.  The caller runs in the owner's   *)
(* process or in the bound worker, which may outlive the owner.            *)
FaultTransferUnchecked(o, s, c) ==
    /\ o \in alive \/ lease[s].worker = "live"
    /\ c \in present
    /\ lease[s].owner = o
    /\ Saved(s)
    /\ lease' = [lease EXCEPT ![s] = [@ EXCEPT !.checkout = c, !.fresh = TRUE]]
    /\ row' = [row EXCEPT ![s].checkout = c]
    /\ projects' = projects \cup {c}
    /\ UNCHANGED <<queueVars, worldVars>>
FaultTransferKeepsProject(o, s, c) ==
    /\ o \in alive \/ lease[s].worker = "live"
    /\ c \in present
    /\ lease[s].owner = o
    /\ Saved(s)
    /\ Holders(c) \subseteq {s}
    /\ lease' = [lease EXCEPT ![s] = [@ EXCEPT !.checkout = c, !.fresh = TRUE]]
    /\ projects' = projects \cup {c}
    /\ UNCHANGED <<row, queueVars, worldVars>>
TransferSessionLease(o, s, c) ==
    /\ o \in alive \/ lease[s].worker = "live"
    /\ c \in present
    /\ lease[s].owner = o
    /\ Saved(s)
    /\ Holders(c) \subseteq {s}
    /\ lease' = [lease EXCEPT ![s] = [@ EXCEPT !.checkout = c, !.fresh = TRUE]]
    /\ row' = [row EXCEPT ![s].checkout = c]
    /\ projects' = projects \cup {c}
    /\ UNCHANGED <<queueVars, worldVars>>

(* adopt_projects: an older installation's project and its session become  *)
(* rows; a checkout that is missing is imported as unavailable.            *)
AdoptProjects(s, c) ==
    /\ ~Saved(s)
    /\ row' = [row EXCEPT ![s] = IF c \in present THEN NewRow(c)
                                 ELSE [NewRow(c) EXCEPT !.available = FALSE, !.from = "READY"]]
    /\ projects' = projects \cup {c}
    /\ UNCHANGED <<lease, queueVars, worldVars>>

-----------------------------------------------------------------------------
(* Missing worktrees, Relink and Forget.                                   *)

Missing == {s \in Sessions : Saved(s) /\ row[s].available /\ row[s].checkout \notin present}

(* mark_missing_worktrees_unavailable: one transaction over every project  *)
(* whose checkout is gone.  A probe may be ambiguous about a dead process, *)
(* so any part of the stale leases is reclaimed; a session that keeps its  *)
(* lease keeps its place in the queue and its claim.                       *)
MarkMissingWorktreesUnavailable(R) ==
    /\ Missing # {}
    /\ R \subseteq {s \in Missing : Reclaimable(s)}
    /\ row' = [s \in Sessions |->
                 IF s \in Missing
                 THEN LET st == IF s \in R THEN "INTERRUPTED" ELSE row[s].status
                      IN  [row[s] EXCEPT !.status = st, !.available = FALSE, !.from = st]
                 ELSE row[s]]
    /\ lease' = DropLeases(R)
    /\ DropQueue({s \in Missing : s \in R \/ ~Leased(s)})
    /\ UNCHANGED <<projects, worldVars>>

(* relink_unavailable_session: move a whole unavailable project to another *)
(* checkout.  What it read before the transaction is re-checked by         *)
(* revision inside it, so the read and the commit are one step here; the   *)
(* foreign key keeps the old project while any session still needs it.     *)
RelinkUnavailableSession(s, c) ==
    LET old == row[s].checkout
        group == InProject(old)
    IN  /\ c \in present
        /\ Unavailable(s)
        /\ \A g \in group : ~row[g].available /\ ~Leased(g)
        /\ row' = [g \in Sessions |->
                     IF g \in group
                     THEN [row[g] EXCEPT !.checkout = c, !.available = TRUE, !.from = "NONE"]
                     ELSE row[g]]
        /\ projects' = IF old = c THEN projects ELSE (projects \ {old}) \cup {c}
        /\ UNCHANGED <<lease, queueVars, worldVars>>

(* forget_session: delete one completed or unavailable record that owns    *)
(* nothing, and its project once it is empty.                              *)
ForgetSession(s) ==
    /\ Saved(s)
    /\ row[s].status = "COMPLETED" \/ ~row[s].available
    /\ ~Leased(s) /\ s \notin Claimers /\ s \notin Requesters
    /\ row' = [row EXCEPT ![s] = NoRow]
    /\ projects' = IF InProject(row[s].checkout) = {s}
                   THEN projects \ {row[s].checkout} ELSE projects
    /\ UNCHANGED <<lease, queueVars, worldVars>>

(* update_session_status and update_session_summary: no ownership check.   *)
UpdateSessionStatus(s, st) ==
    /\ Saved(s)
    /\ row' = [row EXCEPT ![s] = WithStatus(@, st)]
    /\ UNCHANGED <<projects, lease, queueVars, worldVars>>

-----------------------------------------------------------------------------
(* Execution capacity.                                                     *)

SetConcurrencyLimit(n) ==
    /\ limit' = n
    /\ UNCHANGED <<row, projects, lease, queueVars, present, alive>>

FaultQueueUnavailable(o, s) ==
    /\ o \in alive
    /\ Saved(s) /\ row[s].status \notin Terminal
    /\ lease[s].owner = o
MayQueue(o, s) ==
    /\ o \in alive
    /\ Saved(s) /\ row[s].available /\ row[s].status \notin Terminal
    /\ lease[s].owner = o

(* COALESCE(MAX(queue_order), 0) + 1                                       *)
NextOrder ==
    1 + (CHOOSE n \in {order[s] : s \in Sessions} : \A s \in Sessions : order[s] <= n)

OrderOf(s) == IF request[s] = NoOwner THEN NextOrder ELSE order[s]
Oldest(s) == \A t \in Requesters \ {s} : OrderOf(s) < order[t]
FaultGrantAnyFreeSlot(s) == Cardinality(Claimers) < limit
Granted(s) == Cardinality(Claimers) < limit /\ Oldest(s)

Enqueue(o, s) ==
    /\ OrderOf(s) <= OrderBound
    /\ request' = [request EXCEPT ![s] = o]
    /\ order' = [order EXCEPT ![s] = OrderOf(s)]
    /\ row' = [row EXCEPT ![s].status = "QUEUED"]
    /\ UNCHANGED <<claim, projects, lease, worldVars>>

Grant(o, s) ==
    /\ request' = [request EXCEPT ![s] = NoOwner]
    /\ order' = [order EXCEPT ![s] = 0]
    /\ claim' = [claim EXCEPT ![s] = o]
    /\ row' = [row EXCEPT ![s].status = "RUNNING"]
    /\ UNCHANGED <<projects, lease, worldVars>>

(* request_execution_capacity: the holder of a claim is confirmed in it;   *)
(* otherwise the session keeps (or takes) its place in the queue and is    *)
(* granted a slot when one is free and no older request waits.             *)
RequestExecutionCapacity(o, s) ==
    /\ MayQueue(o, s)
    /\ \/ /\ claim[s] = o
          /\ row' = [row EXCEPT ![s].status = "RUNNING"]
          /\ UNCHANGED <<projects, lease, queueVars, worldVars>>
       \/ /\ claim[s] = NoOwner /\ request[s] \in {o, NoOwner}
          /\ Granted(s)
          /\ Grant(o, s)
       \/ /\ claim[s] = NoOwner /\ request[s] \in {o, NoOwner}
          /\ ~Granted(s)
          /\ Enqueue(o, s)

(* enqueue_execution_capacity: take a place without taking a free slot.    *)
EnqueueExecutionCapacity(o, s) ==
    /\ MayQueue(o, s)
    /\ claim[s] = NoOwner /\ request[s] \in {o, NoOwner}
    /\ Enqueue(o, s)

(* release_execution_capacity: give up the slot and the place, and record  *)
(* the inactive status.                                                    *)
FaultReleaseKeepsRequest(o, s, st) ==
    /\ o \in alive
    /\ Saved(s)
    /\ st \notin {"RUNNING", "PAUSING"}
    /\ claim[s] \in {o, NoOwner} /\ request[s] \in {o, NoOwner}
    /\ claim' = [claim EXCEPT ![s] = NoOwner]
    /\ row' = [row EXCEPT ![s] = WithStatus(@, st)]
    /\ UNCHANGED <<projects, lease, request, order, worldVars>>
ReleaseExecutionCapacity(o, s, st) ==
    /\ o \in alive
    /\ Saved(s)
    /\ st \notin {"RUNNING", "PAUSING"}
    /\ claim[s] \in {o, NoOwner} /\ request[s] \in {o, NoOwner}
    /\ DropQueue({s})
    /\ row' = [row EXCEPT ![s] = WithStatus(@, st)]
    /\ UNCHANGED <<projects, lease, worldVars>>

-----------------------------------------------------------------------------
(* The processes, the clock and the disk around the catalog.               *)

OwnerDies(o) ==
    /\ o \in alive
    /\ alive' = alive \ {o}
    /\ UNCHANGED <<row, projects, lease, queueVars, limit, present>>

WorkerTreeEnds(s) ==
    /\ lease[s].worker = "live"
    /\ lease' = [lease EXCEPT ![s].worker = "ended"]
    /\ UNCHANGED <<row, projects, queueVars, worldVars>>

HeartbeatExpires(s) ==
    /\ lease[s].fresh
    /\ lease' = [lease EXCEPT ![s].fresh = FALSE]
    /\ UNCHANGED <<row, projects, queueVars, worldVars>>

CheckoutChanges(c) ==
    /\ present' = IF c \in present THEN present \ {c} ELSE present \cup {c}
    /\ UNCHANGED <<row, projects, lease, queueVars, limit, alive>>

-----------------------------------------------------------------------------
LeaseOps(o, s) ==
    \/ \E c \in Checkouts : CreateSessionWithLease(o, s, c)
    \/ AcquireSessionLease(o, s)
    \/ BindWorktreeLeaseWorker(o, s)
    \/ RenewWorktreeLease(o, s)
    \/ ReleaseWorktreeLease(o, s)
    \/ RollbackSessionStart(o, s)
    \/ \E c \in Checkouts : TransferSessionLease(o, s, c)

CapacityOps(o, s) ==
    \/ RequestExecutionCapacity(o, s)
    \/ EnqueueExecutionCapacity(o, s)
    \/ \E st \in Reported : ReleaseExecutionCapacity(o, s, st)

RecordOps(s) ==
    \/ \E c \in Checkouts : BindOrCreateSession(s, c)
    \/ \E c \in Checkouts : AdoptProjects(s, c)
    \/ \E c \in Checkouts : RelinkUnavailableSession(s, c)
    \/ ForgetSession(s)
    \/ \E st \in Reported : UpdateSessionStatus(s, st)

Environment ==
    \/ \E o \in Owners : OwnerDies(o)
    \/ \E s \in Sessions : WorkerTreeEnds(s)
    \/ \E s \in Sessions : HeartbeatExpires(s)
    \/ \E c \in Checkouts : CheckoutChanges(c)

Next ==
    \/ \E o \in Owners, s \in Sessions : LeaseOps(o, s)
    \/ \E o \in Owners, s \in Sessions : CapacityOps(o, s)
    \/ \E s \in Sessions : RecordOps(s)
    \/ \E R \in SUBSET Sessions : MarkMissingWorktreesUnavailable(R)
    \/ \E n \in Limits : SetConcurrencyLimit(n)
    \/ Environment

Spec == Init /\ [][Next]_vars

-----------------------------------------------------------------------------
(* Properties.                                                             *)

TypeOK ==
    /\ row \in [Sessions -> Row]
    /\ projects \subseteq Checkouts
    /\ lease \in [Sessions -> Lease]
    /\ request \in [Sessions -> Owners \cup {NoOwner}]
    /\ order \in [Sessions -> 0..OrderBound]
    /\ claim \in [Sessions -> Owners \cup {NoOwner}]
    /\ limit \in Limits
    /\ present \subseteq Checkouts
    /\ alive \subseteq Owners

(* A slot and a place in the queue belong to the application that holds    *)
(* the session's worktree lease, and a session never has both: no method   *)
(* that deletes, moves or reclaims a lease leaves capacity behind it.      *)
CapacityBackedByLease ==
    \A s \in Sessions :
        /\ claim[s] # NoOwner => lease[s].owner = claim[s] /\ request[s] = NoOwner
        /\ request[s] # NoOwner => lease[s].owner = request[s]

(* One live owner per canonical worktree and none for a deleted session    *)
(* (CONTEXT.md, Portable Worktree Lease).                                  *)
LeasesExclusive ==
    /\ \A s \in Sessions : Leased(s) => lease[s].owner # NoOwner /\ Saved(s)
    /\ \A s, t \in Sessions :
          Leased(s) /\ Leased(t) /\ lease[s].checkout = lease[t].checkout => s = t

(* _session_from_row rejects a row whose unavailable_from_status is not    *)
(* its status exactly while the worktree is unavailable, and one rejected  *)
(* row makes every reader of the catalog fail.                             *)
RowsReadable ==
    \A s \in Sessions : Saved(s) =>
        /\ row[s].status # "NONE"
        /\ row[s].from = IF row[s].available THEN "NONE" ELSE row[s].status
        /\ row[s].checkout \in projects

(* The lease of a session is on the checkout its row names, so the         *)
(* directory a session works in is the one it owns, wherever no planning   *)
(* prompt can switch a session to.                                         *)
LeaseFollowsSession ==
    \A s \in Sessions :
        Leased(s) => row[s].checkout \in Prompted \/ lease[s].checkout = row[s].checkout

(* Issue 0007: a worktree passes to another owner in one transaction only  *)
(* when the bound worker tree has ended (or no worker was bound and the    *)
(* owner process died), and the old session is left INTERRUPTED without    *)
(* capacity.                                                               *)
TakeoverOnlyFromDead ==
    [][\A s, t \in Sessions :
         (/\ Leased(s) /\ lease'[t].owner \notin {NoOwner, lease[s].owner}
          /\ lease'[t].checkout = lease[s].checkout)
         => /\ lease[s].worker # "live"
            /\ lease[s].worker = "none" => lease[s].owner \notin alive
            /\ row'[s].status = "INTERRUPTED"
            /\ claim'[s] = NoOwner /\ request'[s] = NoOwner]_vars

(* Issue 0008: "UNAVAILABLE sessions start no worker and acquire no        *)
(* execution capacity or worktree lease."  What such a session already     *)
(* holds may only be given up.                                             *)
UnavailableGainsNothing ==
    [][\A s \in Sessions : Unavailable(s) =>
         /\ claim'[s] \in {claim[s], NoOwner}
         /\ request'[s] \in {request[s], NoOwner}
         /\ lease'[s].owner \in {lease[s].owner, NoOwner}]_vars
=============================================================================
