------------------------ MODULE SessionCatalogProofs ------------------------
(***************************************************************************)
(* Proofs about the Portable Session Catalog for any number of sessions,   *)
(* worktrees and applications, and of the refinement that                  *)
(* CatalogAdmission states.                                                *)
(***************************************************************************)
EXTENDS CatalogAdmission, TLAPS, WellFoundedInduction

LessThan == OpToRel(<, Nat)

LEMMA LessThanMember ==
    ASSUME NEW x \in Nat, NEW y \in Nat, x < y
    PROVE  <<x, y>> \in LessThan
<1>1. <<x, y>> \in Nat \X Nat /\ <<x, y>>[1] < <<x, y>>[2]
  OBVIOUS
<1> QED
  BY <1>1 DEF LessThan, OpToRel

(* A nonempty set of queue positions has a largest one, so the subquery    *)
(* COALESCE(MAX(queue_order), 0) denotes a number.                         *)
LEMMA BoundedSetHasMaximum ==
    ASSUME NEW B \in Nat, NEW S \in SUBSET (0..B), S # {}
    PROVE  \E n \in S : \A x \in S : x <= n
<1> DEFINE U == {n \in Nat : \A x \in S : x <= n}
<1>1. B \in U /\ U \subseteq Nat /\ U # {}
  OBVIOUS
<1>2. IsWellFoundedOn(LessThan, Nat)
  BY NatLessThanWellFounded DEF LessThan
<1> HIDE DEF U
<1>3. PICK m \in U : \A y \in U : ~(<<y, m>> \in LessThan)
  BY <1>1, <1>2, WFMin
<1>4. m \in Nat
  BY <1>1
<1>5. \A y \in U : m <= y
  <2> SUFFICES ASSUME NEW y \in U, y < m PROVE FALSE
    BY <1>1, <1>4
  <2>1. y \in Nat
    BY <1>1
  <2> QED
    BY <2>1, <1>4, <1>3, LessThanMember
<1>6. SUFFICES ASSUME m \notin S PROVE FALSE
  BY DEF U
<1>7. \A x \in S : x \in Nat /\ x < m
  BY <1>6 DEF U
<1>8. m - 1 \in Nat /\ \A x \in S : x <= m - 1
  <2>1. PICK z \in S : z \in Nat /\ z < m
    BY <1>7
  <2>2. ASSUME NEW x \in S PROVE x <= m - 1
    BY <1>7, <1>4
  <2> QED
    BY <2>1, <2>2, <1>4
<1>9. m - 1 \in U
  BY <1>8 DEF U
<1> QED
  BY <1>9, <1>5, <1>4

-----------------------------------------------------------------------------
(* Typing of the records the actions write.                                *)

LEMMA RecordTypes ==
    /\ NoRow \in Row /\ NoLease \in Lease
    /\ \A c \in Checkouts : NewRow(c) \in Row
    /\ \A o \in Owners, c \in Checkouts \cup {NoCheckout} : NewLease(o, c) \in Lease
  BY DEF NoRow, NoLease, Row, Lease, NewRow, NewLease, Status, Terminal

LEMMA WithStatusType ==
    ASSUME NEW r \in Row, NEW st \in Status
    PROVE  /\ WithStatus(r, st) \in Row
           /\ WithStatus(r, st).status = st
           /\ WithStatus(r, st).checkout = r.checkout
           /\ WithStatus(r, st).available = r.available
           /\ WithStatus(r, st).from = IF r.available THEN "NONE" ELSE st
  BY DEF WithStatus, Row

LEMMA InterruptRowsType ==
    ASSUME TypeOK, NEW S \in SUBSET Sessions
    PROVE  /\ InterruptRows(S) \in [Sessions -> Row]
           /\ \A s \in Sessions \ S : InterruptRows(S)[s] = row[s]
           /\ \A s \in S : InterruptRows(S)[s] = WithStatus(row[s], "INTERRUPTED")
<1>1. "INTERRUPTED" \in Status
  BY DEF Status
<1>2. \A s \in Sessions : row[s] \in Row
  BY DEF TypeOK
<1>3. \A s \in S : WithStatus(row[s], "INTERRUPTED") \in Row
  BY <1>1, <1>2, WithStatusType
<1> QED
  BY <1>2, <1>3 DEF InterruptRows

LEMMA DropLeasesType ==
    ASSUME TypeOK, NEW S \in SUBSET Sessions
    PROVE  /\ DropLeases(S) \in [Sessions -> Lease]
           /\ \A s \in Sessions \ S : DropLeases(S)[s] = lease[s]
           /\ \A s \in S : DropLeases(S)[s] = NoLease
  BY RecordTypes DEF DropLeases, TypeOK

LEMMA DropQueueType ==
    ASSUME TypeOK, NEW S \in SUBSET Sessions, DropQueue(S)
    PROVE  /\ request' \in [Sessions -> Owners \cup {NoOwner}]
           /\ order' \in [Sessions -> 0..OrderBound]
           /\ claim' \in [Sessions -> Owners \cup {NoOwner}]
           /\ \A s \in Sessions \ S : /\ request'[s] = request[s]
                                      /\ order'[s] = order[s]
                                      /\ claim'[s] = claim[s]
           /\ \A s \in S : request'[s] = NoOwner /\ order'[s] = 0 /\ claim'[s] = NoOwner
  BY OrderBoundAssumption DEF DropQueue, TypeOK

(* A new request goes behind every waiting one.                            *)
LEMMA NextOrderIsLast ==
    ASSUME TypeOK, Sessions # {}
    PROVE  NextOrder \in Nat \ {0} /\ \A s \in Sessions : order[s] < NextOrder
<1> DEFINE T == {order[s] : s \in Sessions}
           n == CHOOSE n \in T : \A s \in Sessions : order[s] <= n
<1>1. T \in SUBSET (0..OrderBound) /\ T # {}
  BY DEF TypeOK
<1>2. \E k \in T : \A x \in T : x <= k
  BY <1>1, BoundedSetHasMaximum, OrderBoundAssumption
<1>3. n \in T /\ \A s \in Sessions : order[s] <= n
  BY <1>2
<1>4. NextOrder = 1 + n
  BY DEF NextOrder
<1> HIDE DEF n
<1>5. n \in Nat /\ \A s \in Sessions : order[s] \in Nat
  BY <1>3, OrderBoundAssumption DEF TypeOK
<1> HIDE DEF T
<1> QED
  BY <1>3, <1>4, <1>5

-----------------------------------------------------------------------------
(* Type correctness.                                                       *)

LEMMA TypeOKInit == Init => TypeOK
  BY RecordTypes, LimitsAssumption, OrderBoundAssumption DEF Init, TypeOK

LEMMA TypeOKLeaseOps ==
    ASSUME TypeOK, NEW o \in Owners, NEW s \in Sessions, LeaseOps(o, s)
    PROVE  TypeOK'
<1> USE DEF worldVars, queueVars
<1>0. \A c : Holders(c) \in SUBSET Sessions
  BY DEF Holders
<1>1. CASE \E c \in Checkouts : CreateSessionWithLease(o, s, c)
  <2> PICK c \in Checkouts : CreateSessionWithLease(o, s, c)
    BY <1>1
  <2>1. InterruptRows(Holders(c)) \in [Sessions -> Row]
        /\ DropLeases(Holders(c)) \in [Sessions -> Lease]
    BY <1>0, InterruptRowsType, DropLeasesType
  <2>2. row' \in [Sessions -> Row] /\ lease' \in [Sessions -> Lease]
    BY <2>1, RecordTypes DEF CreateSessionWithLease
  <2>3. DropQueue(Holders(c))
    BY DEF CreateSessionWithLease
  <2> QED
    BY <1>0, <2>2, <2>3, DropQueueType DEF CreateSessionWithLease, TypeOK
<1>2. CASE AcquireSessionLease(o, s)
  <2> DEFINE c == row[s].checkout
  <2>1. c \in Checkouts \cup {NoCheckout}
    BY DEF TypeOK, Row
  <2>2. InterruptRows(Holders(c)) \in [Sessions -> Row]
        /\ DropLeases(Holders(c)) \in [Sessions -> Lease]
    BY <1>0, InterruptRowsType, DropLeasesType
  <2>3. row' \in [Sessions -> Row] /\ lease' \in [Sessions -> Lease]
    BY <1>2, <2>1, <2>2, RecordTypes DEF AcquireSessionLease
  <2>4. DropQueue(Holders(c))
    BY <1>2 DEF AcquireSessionLease
  <2> QED
    BY <1>0, <1>2, <2>3, <2>4, DropQueueType DEF AcquireSessionLease, TypeOK
<1>3. CASE BindWorktreeLeaseWorker(o, s)
  <2>1. [lease[s] EXCEPT !.worker = "live", !.fresh = TRUE] \in Lease
    BY DEF TypeOK, Lease
  <2>2. lease' \in [Sessions -> Lease]
    BY <1>3, <2>1 DEF BindWorktreeLeaseWorker, TypeOK
  <2> QED
    BY <1>3, <2>2 DEF BindWorktreeLeaseWorker, TypeOK
<1>4. CASE RenewWorktreeLease(o, s)
  <2>0. [lease[s] EXCEPT !.fresh = TRUE] \in Lease
    BY DEF TypeOK, Lease
  <2>1. lease' \in [Sessions -> Lease]
    BY <1>4, <2>0 DEF RenewWorktreeLease, TypeOK
  <2> QED
    BY <1>4, <2>1 DEF RenewWorktreeLease, TypeOK
<1>5. CASE ReleaseWorktreeLease(o, s)
  <2>1. lease' \in [Sessions -> Lease]
    BY <1>5, DropLeasesType DEF ReleaseWorktreeLease, TypeOK
  <2>2. order' \in [Sessions -> 0..OrderBound]
    BY <1>5, OrderBoundAssumption DEF ReleaseWorktreeLease, TypeOK
  <2> QED
    BY <1>5, <2>1, <2>2 DEF ReleaseWorktreeLease, TypeOK
<1>6. CASE RollbackSessionStart(o, s)
  <2>1. DropQueue({s}) /\ lease' \in [Sessions -> Lease]
    BY <1>6, DropLeasesType DEF RollbackSessionStart
  <2>2. row' \in [Sessions -> Row]
    BY <1>6, RecordTypes DEF RollbackSessionStart, TypeOK
  <2> QED
    BY <1>6, <2>1, <2>2, DropQueueType DEF RollbackSessionStart, TypeOK
<1>7. CASE \E c \in Checkouts : TransferSessionLease(o, s, c)
  <2> PICK c \in Checkouts : TransferSessionLease(o, s, c)
    BY <1>7
  <2>1. [lease[s] EXCEPT !.checkout = c, !.fresh = TRUE] \in Lease
    BY DEF TypeOK, Lease
  <2>3. lease' \in [Sessions -> Lease]
    BY <2>1 DEF TransferSessionLease, TypeOK
  <2>2. row' \in [Sessions -> Row]
    BY DEF TransferSessionLease, TypeOK, Row
  <2> QED
    BY <2>3, <2>2 DEF TransferSessionLease, TypeOK
<1> QED
  BY <1>1, <1>2, <1>3, <1>4, <1>5, <1>6, <1>7 DEF LeaseOps

LEMMA TypeOKCapacityOps ==
    ASSUME TypeOK, NEW o \in Owners, NEW s \in Sessions, CapacityOps(o, s)
    PROVE  TypeOK'
<1> USE DEF worldVars, queueVars
<1>1. ASSUME NEW st \in Status, NEW r \in Row
      PROVE  [r EXCEPT !.status = st] \in Row
  BY DEF Row
<1>2. row[s] \in Row /\ "QUEUED" \in Status /\ "RUNNING" \in Status
  BY DEF TypeOK, Status
<1>3. CASE Enqueue(o, s)
  <2>1. OrderOf(s) \in 0..OrderBound
    BY <1>3, NextOrderIsLast, OrderBoundAssumption DEF Enqueue, OrderOf, TypeOK
  <2>2. row' \in [Sessions -> Row]
    BY <1>1, <1>2, <1>3 DEF Enqueue, TypeOK
  <2> QED
    BY <1>3, <2>1, <2>2 DEF Enqueue, TypeOK
<1>4. CASE Grant(o, s)
  <2>1. row' \in [Sessions -> Row]
    BY <1>1, <1>2, <1>4 DEF Grant, TypeOK
  <2> QED
    BY <1>4, <2>1, OrderBoundAssumption DEF Grant, TypeOK
<1>5. CASE RequestExecutionCapacity(o, s)
  <2>1. CASE row' = [row EXCEPT ![s].status = "RUNNING"]
             /\ UNCHANGED <<projects, lease, queueVars, worldVars>>
    <3>1. row' \in [Sessions -> Row]
      BY <1>1, <1>2, <2>1 DEF TypeOK
    <3> QED
      BY <2>1, <3>1 DEF TypeOK
  <2> QED
    BY <1>3, <1>4, <1>5, <2>1 DEF RequestExecutionCapacity
<1>6. CASE EnqueueExecutionCapacity(o, s)
  BY <1>3, <1>6 DEF EnqueueExecutionCapacity
<1>7. CASE \E st \in Reported : ReleaseExecutionCapacity(o, s, st)
  <2> PICK st \in Reported : ReleaseExecutionCapacity(o, s, st)
    BY <1>7
  <2>1. WithStatus(row[s], st) \in Row
    BY <1>2, ReportedAssumption, WithStatusType
  <2>2. DropQueue({s}) /\ row' \in [Sessions -> Row]
    BY <2>1 DEF ReleaseExecutionCapacity, TypeOK
  <2> QED
    BY <2>2, DropQueueType DEF ReleaseExecutionCapacity, TypeOK
<1> QED
  BY <1>5, <1>6, <1>7 DEF CapacityOps

LEMMA TypeOKRecordOps ==
    ASSUME TypeOK, NEW s \in Sessions, RecordOps(s)
    PROVE  TypeOK'
<1> USE DEF worldVars, queueVars
<1>0. \A g \in Sessions : row[g] \in Row
  BY DEF TypeOK
<1>1. CASE \E c \in Checkouts : BindOrCreateSession(s, c)
  <2> PICK c \in Checkouts : BindOrCreateSession(s, c)
    BY <1>1
  <2>1. [row[s] EXCEPT !.checkout = c] \in Row
    BY <1>0 DEF Row
  <2>2. row' \in [Sessions -> Row]
    BY <2>1, RecordTypes DEF BindOrCreateSession, TypeOK
  <2> QED
    BY <2>2 DEF BindOrCreateSession, TypeOK
<1>2. CASE \E c \in Checkouts : AdoptProjects(s, c)
  <2> PICK c \in Checkouts : AdoptProjects(s, c)
    BY <1>2
  <2>1. [NewRow(c) EXCEPT !.available = FALSE, !.from = "READY"] \in Row
    BY RecordTypes DEF Row, Status
  <2>2. row' \in [Sessions -> Row]
    BY <2>1, RecordTypes DEF AdoptProjects, TypeOK
  <2> QED
    BY <2>2 DEF AdoptProjects, TypeOK
<1>3. CASE \E c \in Checkouts : RelinkUnavailableSession(s, c)
  <2> PICK c \in Checkouts : RelinkUnavailableSession(s, c)
    BY <1>3
  <2>1. \A g \in Sessions :
          [row[g] EXCEPT !.checkout = c, !.available = TRUE, !.from = "NONE"] \in Row
    BY <1>0 DEF Row
  <2>2. row' \in [Sessions -> Row]
    BY <1>0, <2>1 DEF RelinkUnavailableSession
  <2> QED
    BY <2>2 DEF RelinkUnavailableSession, TypeOK
<1>4. CASE ForgetSession(s)
  <2>1. row' \in [Sessions -> Row]
    BY <1>4, RecordTypes DEF ForgetSession, TypeOK
  <2> QED
    BY <1>4, <2>1 DEF ForgetSession, TypeOK
<1>5. CASE \E st \in Reported : UpdateSessionStatus(s, st)
  <2> PICK st \in Reported : UpdateSessionStatus(s, st)
    BY <1>5
  <2>1. WithStatus(row[s], st) \in Row
    BY <1>0, ReportedAssumption, WithStatusType
  <2>2. row' \in [Sessions -> Row]
    BY <2>1 DEF UpdateSessionStatus, TypeOK
  <2> QED
    BY <2>2 DEF UpdateSessionStatus, TypeOK
<1> QED
  BY <1>1, <1>2, <1>3, <1>4, <1>5 DEF RecordOps

LEMMA TypeOKMarkMissing ==
    ASSUME TypeOK, NEW R \in SUBSET Sessions, MarkMissingWorktreesUnavailable(R)
    PROVE  TypeOK'
<1> DEFINE st(s) == IF s \in R THEN "INTERRUPTED" ELSE row[s].status
           marked(s) == [row[s] EXCEPT !.status = st(s), !.available = FALSE, !.from = st(s)]
           S == {s \in Missing : s \in R \/ ~Leased(s)}
<1>1. \A s \in Sessions : row[s] \in Row /\ st(s) \in Status \cup {"NONE"}
  BY DEF TypeOK, Row, Status
<1>2. \A s \in Sessions : marked(s) \in Row
  <2> TAKE s \in Sessions
  <2> HIDE DEF st
  <2> QED
    BY <1>1 DEF Row
<1>3. row' = [s \in Sessions |-> IF s \in Missing THEN marked(s) ELSE row[s]]
  BY DEF MarkMissingWorktreesUnavailable
<1> HIDE DEF marked
<1>4. row' \in [Sessions -> Row]
  BY <1>1, <1>2, <1>3
<1>5. lease' \in [Sessions -> Lease]
  BY DropLeasesType DEF MarkMissingWorktreesUnavailable
<1>6. S \in SUBSET Sessions /\ DropQueue(S)
  BY DEF MarkMissingWorktreesUnavailable, Missing
<1> QED
  BY <1>4, <1>5, <1>6, DropQueueType
  DEF MarkMissingWorktreesUnavailable, TypeOK, worldVars

LEMMA TypeOKEnvironment ==
    ASSUME TypeOK, Environment
    PROVE  TypeOK'
<1> USE DEF worldVars, queueVars
<1>1. CASE \E o \in Owners : OwnerDies(o)
  BY <1>1 DEF OwnerDies, TypeOK
<1>2. CASE \E s \in Sessions : WorkerTreeEnds(s)
  <2> PICK s \in Sessions : WorkerTreeEnds(s)
    BY <1>2
  <2>1. [lease[s] EXCEPT !.worker = "ended"] \in Lease
    BY DEF TypeOK, Lease
  <2> QED
    BY <2>1 DEF WorkerTreeEnds, TypeOK
<1>3. CASE \E s \in Sessions : HeartbeatExpires(s)
  <2> PICK s \in Sessions : HeartbeatExpires(s)
    BY <1>3
  <2>1. [lease[s] EXCEPT !.fresh = FALSE] \in Lease
    BY DEF TypeOK, Lease
  <2> QED
    BY <2>1 DEF HeartbeatExpires, TypeOK
<1>4. CASE \E c \in Checkouts : CheckoutChanges(c)
  BY <1>4 DEF CheckoutChanges, TypeOK
<1> QED
  BY <1>1, <1>2, <1>3, <1>4 DEF Environment

LEMMA TypeOKStep == TypeOK /\ [Next]_vars => TypeOK'
<1> SUFFICES ASSUME TypeOK, [Next]_vars PROVE TypeOK'
  OBVIOUS
<1>1. CASE \E n \in Limits : SetConcurrencyLimit(n)
  BY <1>1 DEF SetConcurrencyLimit, queueVars, TypeOK
<1>2. CASE UNCHANGED vars
  BY <1>2 DEF vars, TypeOK
<1> QED
  BY <1>1, <1>2, TypeOKLeaseOps, TypeOKCapacityOps, TypeOKRecordOps,
     TypeOKMarkMissing, TypeOKEnvironment DEF Next

(* Every table and column keeps its type: in particular queue orders stay  *)
(* natural numbers and no row names an application or a worktree that does *)
(* not exist.                                                              *)
THEOREM TypeCorrect == Spec => []TypeOK
  BY TypeOKInit, TypeOKStep, PTL DEF Spec

-----------------------------------------------------------------------------
(* Ownership.  The invariant: capacity is backed by the lease, leases are  *)
(* exclusive, rows are readable.  None of the three is inductive alone:    *)
(* that a new session takes no stale slot with it needs that only saved    *)
(* sessions are leased, and that a status write leaves a saved row saved   *)
(* needs readable rows.                                                    *)

Ownership == CapacityBackedByLease /\ LeasesExclusive /\ RowsReadable

ReadableRow(r, P) ==
    /\ r.status # "NONE"
    /\ r.from = IF r.available THEN "NONE" ELSE r.status
    /\ r.checkout \in P

LEMMA NewRowReadable ==
    ASSUME NEW c \in Checkouts, NEW P, c \in P
    PROVE  ReadableRow(NewRow(c), P) /\ NewRow(c) # NoRow
  BY NoCheckoutAssumption DEF ReadableRow, NewRow, NoRow

LEMMA WithStatusReadable ==
    ASSUME NEW r \in Row, NEW st \in Status, NEW P, ReadableRow(r, P)
    PROVE  ReadableRow(WithStatus(r, st), P) /\ WithStatus(r, st) # NoRow
<1>1. st # "NONE"
  BY DEF Status, Terminal
<1> QED
  BY <1>1, WithStatusType DEF ReadableRow, NoRow

LEMMA ReadableIsSaved ==
    ASSUME NEW r, NEW P, ReadableRow(r, P)
    PROVE  r # NoRow
  BY DEF ReadableRow, NoRow

LEMMA ReadableRows == RowsReadable <=> \A s \in Sessions : Saved(s) => ReadableRow(row[s], projects)
  BY DEF RowsReadable, ReadableRow

LEMMA NewLeaseOwned ==
    ASSUME NEW o \in Owners, NEW c
    PROVE  NewLease(o, c) # NoLease /\ NewLease(o, c).owner = o /\ NewLease(o, c).checkout = c
  BY NoOwnerAssumption DEF NewLease, NoLease

LEMMA OwnershipInit == Init => Ownership
  BY NoOwnerAssumption DEF Init, Ownership, CapacityBackedByLease, LeasesExclusive, RowsReadable,
     Leased, Saved, NoLease

(* The steps that give session s the lease of checkout c and reclaim what  *)
(* held it before: every other session keeps its lease and capacity or     *)
(* loses both.                                                             *)
LEMMA TakeLeaseKeepsOwnership ==
    ASSUME TypeOK, TypeOK', Ownership,
           NEW o \in Owners, NEW s \in Sessions, NEW c \in Checkouts,
           Leased(s) => s \in Holders(c),
           lease' = [DropLeases(Holders(c)) EXCEPT ![s] = NewLease(o, c)],
           DropQueue(Holders(c)),
           projects \subseteq projects',
           ReadableRow(row'[s], projects'),
           \A t \in Sessions \ {s} :
              row'[t] = IF t \in Holders(c) THEN WithStatus(row[t], "INTERRUPTED") ELSE row[t]
    PROVE  Ownership'
<1> DEFINE H == Holders(c)
<1>0. H \in SUBSET Sessions
  BY DEF Holders
<1>1. /\ lease'[s] = NewLease(o, c)
      /\ \A t \in H \ {s} : lease'[t] = NoLease
      /\ \A t \in Sessions \ (H \cup {s}) : lease'[t] = lease[t]
  BY <1>0, DropLeasesType
<1>2. /\ \A t \in H : request'[t] = NoOwner /\ claim'[t] = NoOwner
      /\ \A t \in Sessions \ H : request'[t] = request[t] /\ claim'[t] = claim[t]
  BY <1>0, DropQueueType
<1>3. s \notin H => claim[s] = NoOwner /\ request[s] = NoOwner
  BY DEF Ownership, CapacityBackedByLease, Leased, NoLease
<1>4. CapacityBackedByLease'
  BY <1>1, <1>2, <1>3 DEF Ownership, CapacityBackedByLease
<1>5. \A t \in H : ReadableRow(row[t], projects) /\ row[t] \in Row
  BY <1>0, ReadableRows DEF Ownership, LeasesExclusive, Holders, TypeOK
<1>6. \A t \in H \ {s} : ReadableRow(row'[t], projects)
  BY <1>0, <1>5, WithStatusReadable DEF Status
<1>7. \A t \in Sessions \ {s} : row'[t] # NoRow => ReadableRow(row'[t], projects)
  BY <1>6, ReadableRows DEF Ownership, Saved
<1>8. \A t \in Sessions : row'[t] # NoRow => ReadableRow(row'[t], projects')
  BY <1>7 DEF ReadableRow
<1>9. RowsReadable'
  BY <1>8 DEF RowsReadable, ReadableRow, Saved
<1>10. row'[s] # NoRow
  BY ReadableIsSaved
<1>11. \A t \in Sessions \ (H \cup {s}) : lease'[t] # NoLease =>
          /\ lease'[t].owner # NoOwner /\ row'[t] # NoRow /\ lease'[t].checkout # c
  BY <1>1 DEF Ownership, LeasesExclusive, Leased, Saved, Holders
<1>12. LeasesExclusive'
  BY <1>1, <1>10, <1>11, NewLeaseOwned, NoOwnerAssumption
  DEF Ownership, LeasesExclusive, Leased, Saved
<1> QED
  BY <1>4, <1>9, <1>12 DEF Ownership

(* A step that only rewrites rows, each written row staying readable.      *)
LEMMA RewriteRowsKeepsOwnership ==
    ASSUME TypeOK, Ownership, UNCHANGED <<lease, request, claim>>,
           \A t \in Sessions : row'[t] = row[t] \/ ReadableRow(row'[t], projects'),
           \A t \in Sessions : row'[t] = row[t] /\ row[t] # NoRow => row[t].checkout \in projects'
    PROVE  Ownership'
<1>1. \A t \in Sessions : row'[t] # NoRow => ReadableRow(row'[t], projects')
  BY ReadableRows DEF Ownership, Saved, ReadableRow
<1>2. \A t \in Sessions : row[t] # NoRow => row'[t] # NoRow
  BY ReadableIsSaved
<1>3. RowsReadable'
  BY <1>1 DEF RowsReadable, ReadableRow, Saved
<1>4. LeasesExclusive'
  BY <1>2 DEF Ownership, LeasesExclusive, Leased, Saved
<1>5. CapacityBackedByLease'
  BY DEF Ownership, CapacityBackedByLease
<1> QED
  BY <1>3, <1>4, <1>5 DEF Ownership

LEMMA OwnershipLeaseOps ==
    ASSUME TypeOK, TypeOK', Ownership,
           NEW o \in Owners, NEW s \in Sessions, LeaseOps(o, s)
    PROVE  Ownership'
<1> USE DEF queueVars, worldVars
<1>0. \A t \in Sessions : row[t] \in Row
  BY DEF TypeOK
<1>1. CASE \E c \in Checkouts : CreateSessionWithLease(o, s, c)
  <2> PICK c \in Checkouts : CreateSessionWithLease(o, s, c)
    BY <1>1
  <2>0. Holders(c) \in SUBSET Sessions
    BY DEF Holders
  <2>1. Leased(s) => s \in Holders(c)
    BY DEF CreateSessionWithLease, Ownership, LeasesExclusive
  <2>2. row' = [InterruptRows(Holders(c)) EXCEPT ![s] = NewRow(c)] /\ c \in projects'
    BY DEF CreateSessionWithLease
  <2>3. \A t \in Sessions \ {s} :
           row'[t] = IF t \in Holders(c) THEN WithStatus(row[t], "INTERRUPTED") ELSE row[t]
    BY <2>0, <2>2, InterruptRowsType
  <2>4. ReadableRow(row'[s], projects')
    BY <2>0, <2>2, NewRowReadable, InterruptRowsType
  <2>5. /\ lease' = [DropLeases(Holders(c)) EXCEPT ![s] = NewLease(o, c)]
        /\ DropQueue(Holders(c))
        /\ projects \subseteq projects'
    BY DEF CreateSessionWithLease
  <2> QED
    BY <2>1, <2>3, <2>4, <2>5, TakeLeaseKeepsOwnership
<1>2. CASE AcquireSessionLease(o, s)
  <2> DEFINE c == row[s].checkout
  <2>0. Holders(c) \in SUBSET Sessions
    BY DEF Holders
  <2>1. ReadableRow(row[s], projects) /\ c \in Checkouts
    BY <1>2, ReadableRows DEF AcquireSessionLease, Ownership, ReadableRow, TypeOK
  <2>2. /\ Leased(s) => s \in Holders(c)
        /\ lease' = [DropLeases(Holders(c)) EXCEPT ![s] = NewLease(o, c)]
        /\ DropQueue(Holders(c))
        /\ projects' = projects
        /\ row' = InterruptRows(Holders(c))
    BY <1>2 DEF AcquireSessionLease
  <2>3. \A t \in Sessions :
           row'[t] = IF t \in Holders(c) THEN WithStatus(row[t], "INTERRUPTED") ELSE row[t]
    BY <2>0, <2>2, InterruptRowsType
  <2>4. ReadableRow(row'[s], projects')
    BY <1>0, <2>1, <2>2, <2>3, WithStatusReadable DEF Status
  <2> QED
    BY <2>1, <2>2, <2>3, <2>4, TakeLeaseKeepsOwnership
<1>3. CASE BindWorktreeLeaseWorker(o, s) \/ RenewWorktreeLease(o, s)
  <2>0. /\ UNCHANGED <<row, projects, request, claim>>
        /\ lease[s].owner = o
        /\ \A t \in Sessions \ {s} : lease'[t] = lease[t]
        /\ \/ lease'[s] = [lease[s] EXCEPT !.worker = "live", !.fresh = TRUE]
           \/ lease'[s] = [lease[s] EXCEPT !.fresh = TRUE]
    BY <1>3 DEF BindWorktreeLeaseWorker, RenewWorktreeLease, TypeOK
  <2>1. /\ UNCHANGED <<row, projects, request, claim>>
        /\ lease[s].owner = o
        /\ \A t \in Sessions : /\ lease'[t].owner = lease[t].owner
                               /\ lease'[t].checkout = lease[t].checkout
        /\ \A t \in Sessions \ {s} : lease'[t] = lease[t]
    <3>1. lease[s] \in Lease
      BY DEF TypeOK
    <3>2. lease'[s].owner = lease[s].owner /\ lease'[s].checkout = lease[s].checkout
      BY <2>0, <3>1 DEF Lease
    <3> QED
      BY <2>0, <3>2
  <2>2. Leased(s)
    BY <2>1, NoOwnerAssumption DEF Leased, NoLease
  <2>3. LeasesExclusive'
    BY <2>1, <2>2 DEF Ownership, LeasesExclusive, Leased, Saved
  <2>4. CapacityBackedByLease' /\ RowsReadable'
    BY <2>1 DEF Ownership, CapacityBackedByLease, RowsReadable, Saved
  <2> QED
    BY <2>3, <2>4 DEF Ownership
<1>4. CASE ReleaseWorktreeLease(o, s)
  <2>1. /\ UNCHANGED <<row, projects>>
        /\ \A t \in Sessions \ {s} : /\ lease'[t] = lease[t]
                                     /\ claim'[t] = claim[t] /\ request'[t] = request[t]
        /\ lease'[s] = IF lease[s].owner = o THEN NoLease ELSE lease[s]
        /\ claim'[s] = IF claim[s] = o THEN NoOwner ELSE claim[s]
        /\ request'[s] = IF request[s] = o THEN NoOwner ELSE request[s]
    BY <1>4, DropLeasesType DEF ReleaseWorktreeLease, TypeOK
  <2>2. CapacityBackedByLease'
    BY <2>1, NoOwnerAssumption DEF Ownership, CapacityBackedByLease
  <2>3. LeasesExclusive' /\ RowsReadable'
    BY <2>1 DEF Ownership, LeasesExclusive, RowsReadable, Leased, Saved
  <2> QED
    BY <2>2, <2>3 DEF Ownership
<1>5. CASE RollbackSessionStart(o, s)
  <2>1. /\ projects' = projects
        /\ \A t \in Sessions \ {s} : /\ lease'[t] = lease[t] /\ row'[t] = row[t]
                                     /\ claim'[t] = claim[t] /\ request'[t] = request[t]
        /\ lease'[s] = NoLease /\ row'[s] = NoRow
        /\ claim'[s] = NoOwner /\ request'[s] = NoOwner
    BY <1>5, DropLeasesType, DropQueueType DEF RollbackSessionStart, TypeOK
  <2>2. CapacityBackedByLease'
    BY <2>1 DEF Ownership, CapacityBackedByLease
  <2>3. LeasesExclusive' /\ RowsReadable'
    BY <2>1 DEF Ownership, LeasesExclusive, RowsReadable, Leased, Saved
  <2> QED
    BY <2>2, <2>3 DEF Ownership
<1>6. CASE \E c \in Checkouts : TransferSessionLease(o, s, c)
  <2> PICK c \in Checkouts : TransferSessionLease(o, s, c)
    BY <1>6
  <2>1. /\ projects' = projects \cup {c} /\ UNCHANGED <<request, claim>>
        /\ lease[s].owner = o /\ Saved(s) /\ Holders(c) \subseteq {s}
        /\ \A t \in Sessions \ {s} : lease'[t] = lease[t] /\ row'[t] = row[t]
        /\ row'[s] = [row[s] EXCEPT !.checkout = c]
        /\ lease'[s] = [lease[s] EXCEPT !.checkout = c, !.fresh = TRUE]
    BY DEF TransferSessionLease, TypeOK
  <2>2. Leased(s)
    BY <2>1, NoOwnerAssumption DEF Leased, NoLease
  <2>3. lease'[s].owner = o /\ lease'[s].checkout = c
    BY <2>1 DEF TypeOK, Lease
  <2>4. ReadableRow(row'[s], projects')
    BY <1>0, <2>1, ReadableRows DEF Ownership, ReadableRow, Row
  <2>5. \A t \in Sessions : row'[t] # NoRow => ReadableRow(row'[t], projects')
    BY <2>1, <2>4, ReadableRows DEF Ownership, Saved, ReadableRow
  <2>6. RowsReadable'
    BY <2>5 DEF RowsReadable, ReadableRow, Saved
  <2>7. row'[s] # NoRow
    BY <2>4, ReadableIsSaved
  <2>8. \A t \in Sessions \ {s} : lease[t] # NoLease => lease[t].checkout # c
    BY <2>1 DEF Holders, Leased
  <2>9. LeasesExclusive'
    <3>1. \A t \in Sessions : lease'[t] # NoLease => lease'[t].owner # NoOwner /\ row'[t] # NoRow
      <4>1. lease'[s].owner # NoOwner
        BY <2>3, NoOwnerAssumption
      <4>2. \A t \in Sessions \ {s} :
               lease'[t] # NoLease => lease'[t].owner # NoOwner /\ row'[t] # NoRow
        BY <2>1 DEF Ownership, LeasesExclusive, Leased, Saved
      <4> QED
        BY <4>1, <4>2, <2>7
    <3>2. \A t, u \in Sessions \ {s} :
             lease'[t] # NoLease /\ lease'[u] # NoLease /\ lease'[t].checkout = lease'[u].checkout
             => t = u
      BY <2>1 DEF Ownership, LeasesExclusive, Leased
    <3>3. \A t \in Sessions \ {s} : lease'[t] # NoLease => lease'[t].checkout # lease'[s].checkout
      BY <2>1, <2>3, <2>8
    <3> QED
      BY <3>1, <3>2, <3>3 DEF LeasesExclusive, Leased, Saved
  <2>10. CapacityBackedByLease'
    BY <2>1, <2>3 DEF Ownership, CapacityBackedByLease
  <2> QED
    BY <2>6, <2>9, <2>10 DEF Ownership
<1> QED
  BY <1>1, <1>2, <1>3, <1>4, <1>5, <1>6 DEF LeaseOps

LEMMA OwnershipCapacityOps ==
    ASSUME TypeOK, TypeOK', Ownership,
           NEW o \in Owners, NEW s \in Sessions, CapacityOps(o, s)
    PROVE  Ownership'
<1> USE DEF queueVars, worldVars
<1>0. \A t \in Sessions : row[t] \in Row
  BY DEF TypeOK
<1>1. /\ projects' = projects /\ lease' = lease
      /\ \A t \in Sessions \ {s} : /\ row'[t] = row[t]
                                   /\ claim'[t] = claim[t] /\ request'[t] = request[t]
  BY DropQueueType DEF CapacityOps, RequestExecutionCapacity, EnqueueExecutionCapacity,
     ReleaseExecutionCapacity, Grant, Enqueue, TypeOK
<1>2. ASSUME MayQueue(o, s), NEW st \in Status, row'[s] = [row[s] EXCEPT !.status = st]
      PROVE  ReadableRow(row'[s], projects')
  <2>1. st # "NONE"
    BY DEF Status, Terminal
  <2> QED
    BY <1>0, <1>1, <1>2, <2>1, ReadableRows DEF MayQueue, Ownership, ReadableRow, Row
<1>3. CASE MayQueue(o, s) /\ (RequestExecutionCapacity(o, s) \/ EnqueueExecutionCapacity(o, s))
  <2>1. /\ lease[s].owner = o
        /\ \/ claim'[s] = claim[s] /\ request'[s] = request[s]
           \/ claim'[s] = o /\ request'[s] = NoOwner
           \/ claim'[s] = NoOwner /\ request'[s] = o
    BY <1>3 DEF RequestExecutionCapacity, EnqueueExecutionCapacity, MayQueue, Grant, Enqueue, TypeOK
  <2>2. "QUEUED" \in Status /\ "RUNNING" \in Status
    BY DEF Status
  <2>3. row'[s] = [row[s] EXCEPT !.status = "QUEUED"] \/ row'[s] = [row[s] EXCEPT !.status = "RUNNING"]
    BY <1>3 DEF RequestExecutionCapacity, EnqueueExecutionCapacity, Grant, Enqueue, TypeOK
  <2>4. ReadableRow(row'[s], projects')
    BY <1>2, <1>3, <2>2, <2>3
  <2>5. CapacityBackedByLease'
    BY <1>1, <2>1, NoOwnerAssumption DEF Ownership, CapacityBackedByLease
  <2>6. row'[s] # NoRow
    BY <2>4, ReadableIsSaved
  <2>7. LeasesExclusive'
    BY <1>1, <2>6 DEF Ownership, LeasesExclusive, Leased, Saved
  <2>8. RowsReadable'
    BY <1>1, <2>4 DEF Ownership, RowsReadable, ReadableRow, Saved
  <2> QED
    BY <2>5, <2>7, <2>8 DEF Ownership
<1>4. CASE \E st \in Reported : ReleaseExecutionCapacity(o, s, st)
  <2> PICK st \in Reported : ReleaseExecutionCapacity(o, s, st)
    BY <1>4
  <2>1. /\ Saved(s) /\ row'[s] = WithStatus(row[s], st)
        /\ claim'[s] = NoOwner /\ request'[s] = NoOwner
    BY DropQueueType DEF ReleaseExecutionCapacity, TypeOK
  <2>2. ReadableRow(row'[s], projects') /\ row'[s] # NoRow
    BY <1>0, <1>1, <2>1, ReadableRows, WithStatusReadable, ReportedAssumption DEF Ownership
  <2>3. CapacityBackedByLease'
    BY <1>1, <2>1 DEF Ownership, CapacityBackedByLease
  <2>4. LeasesExclusive'
    BY <1>1, <2>2 DEF Ownership, LeasesExclusive, Leased, Saved
  <2>5. RowsReadable'
    BY <1>1, <2>2 DEF Ownership, RowsReadable, ReadableRow, Saved
  <2> QED
    BY <2>3, <2>4, <2>5 DEF Ownership
<1> QED
  BY <1>3, <1>4 DEF CapacityOps, RequestExecutionCapacity, EnqueueExecutionCapacity

LEMMA OwnershipRecordOps ==
    ASSUME TypeOK, TypeOK', Ownership, NEW s \in Sessions, RecordOps(s)
    PROVE  Ownership'
<1> USE DEF queueVars, worldVars
<1>0. \A t \in Sessions : row[t] \in Row /\ (Saved(t) => ReadableRow(row[t], projects))
  BY ReadableRows DEF TypeOK, Ownership
<1>1. CASE \E c \in Checkouts : BindOrCreateSession(s, c)
  <2> PICK c \in Checkouts : BindOrCreateSession(s, c)
    BY <1>1
  <2>1. ReadableRow([row[s] EXCEPT !.checkout = c], projects') \/ ~Saved(s)
    BY <1>0 DEF BindOrCreateSession, ReadableRow, Row
  <2>2. ReadableRow(row'[s], projects')
    BY <2>1, NewRowReadable DEF BindOrCreateSession, TypeOK
  <2>3. \A t \in Sessions : row'[t] = row[t] \/ ReadableRow(row'[t], projects')
    BY <2>2 DEF BindOrCreateSession, TypeOK
  <2>4. \A t \in Sessions : row[t] # NoRow => row[t].checkout \in projects'
    BY <1>0 DEF BindOrCreateSession, Saved, ReadableRow
  <2>5. UNCHANGED <<lease, request, claim>>
    BY DEF BindOrCreateSession
  <2> QED
    BY <2>3, <2>4, <2>5, RewriteRowsKeepsOwnership
<1>2. CASE \E c \in Checkouts : AdoptProjects(s, c)
  <2> PICK c \in Checkouts : AdoptProjects(s, c)
    BY <1>2
  <2>1. ReadableRow([NewRow(c) EXCEPT !.available = FALSE, !.from = "READY"], projects')
    BY DEF AdoptProjects, ReadableRow, NewRow
  <2>2. ReadableRow(row'[s], projects')
    BY <2>1, NewRowReadable DEF AdoptProjects, TypeOK
  <2>3. \A t \in Sessions : row'[t] = row[t] \/ ReadableRow(row'[t], projects')
    BY <2>2 DEF AdoptProjects, TypeOK
  <2>4. \A t \in Sessions : row[t] # NoRow => row[t].checkout \in projects'
    BY <1>0 DEF AdoptProjects, Saved, ReadableRow
  <2>5. UNCHANGED <<lease, request, claim>>
    BY DEF AdoptProjects
  <2> QED
    BY <2>3, <2>4, <2>5, RewriteRowsKeepsOwnership
<1>3. CASE \E c \in Checkouts : RelinkUnavailableSession(s, c)
  <2> PICK c \in Checkouts : RelinkUnavailableSession(s, c)
    BY <1>3
  <2> DEFINE old == row[s].checkout
             moved(g) == [row[g] EXCEPT !.checkout = c, !.available = TRUE, !.from = "NONE"]
  <2>1. old \in projects /\ c \in projects'
    BY <1>0 DEF RelinkUnavailableSession, Unavailable, ReadableRow
  <2>2. \A g \in InProject(old) : ReadableRow(moved(g), projects')
    BY <1>0, <2>1 DEF InProject, ReadableRow, Row
  <2>3. \A g \in Sessions : row'[g] = IF g \in InProject(old) THEN moved(g) ELSE row[g]
    BY DEF RelinkUnavailableSession
  <2>4. \A t \in Sessions : row'[t] = row[t] \/ ReadableRow(row'[t], projects')
    BY <2>2, <2>3
  <2>5. \A t \in Sessions : row'[t] = row[t] /\ row[t] # NoRow => row[t].checkout \in projects'
    <3> SUFFICES ASSUME NEW t \in Sessions, row'[t] = row[t], row[t] # NoRow
                 PROVE  row[t].checkout \in projects'
      OBVIOUS
    <3>1. CASE t \in InProject(old)
      BY <2>2, <2>3, <3>1 DEF ReadableRow
    <3>2. CASE t \notin InProject(old)
      BY <1>0, <3>2 DEF InProject, Saved, ReadableRow, RelinkUnavailableSession
    <3> QED
      BY <3>1, <3>2
  <2>6. UNCHANGED <<lease, request, claim>>
    BY DEF RelinkUnavailableSession
  <2> QED
    BY <2>4, <2>5, <2>6, RewriteRowsKeepsOwnership
<1>4. CASE ForgetSession(s)
  <2>1. /\ UNCHANGED <<lease, request, claim>>
        /\ row'[s] = NoRow /\ ~Leased(s)
        /\ \A t \in Sessions \ {s} : row'[t] = row[t]
    BY <1>4 DEF ForgetSession, TypeOK
  <2>2. \A t \in Sessions \ {s} : Saved(t) => row[t].checkout \in projects'
    BY <1>0, <1>4 DEF ForgetSession, InProject, ReadableRow
  <2>3. \A t \in Sessions : row'[t] # NoRow => ReadableRow(row'[t], projects')
    BY <1>0, <2>1, <2>2 DEF Saved, ReadableRow
  <2>4. RowsReadable'
    BY <2>3 DEF RowsReadable, ReadableRow, Saved
  <2>5. CapacityBackedByLease' /\ LeasesExclusive'
    BY <2>1 DEF Ownership, CapacityBackedByLease, LeasesExclusive, Leased, Saved
  <2> QED
    BY <2>4, <2>5 DEF Ownership
<1>5. CASE \E st \in Reported : UpdateSessionStatus(s, st)
  <2> PICK st \in Reported : UpdateSessionStatus(s, st)
    BY <1>5
  <2>1. ReadableRow(WithStatus(row[s], st), projects)
    BY <1>0, WithStatusReadable, ReportedAssumption DEF UpdateSessionStatus
  <2>2. \A t \in Sessions : row'[t] = row[t] \/ ReadableRow(row'[t], projects')
    BY <2>1 DEF UpdateSessionStatus, TypeOK
  <2>3. \A t \in Sessions : row[t] # NoRow => row[t].checkout \in projects'
    BY <1>0 DEF UpdateSessionStatus, Saved, ReadableRow
  <2>4. UNCHANGED <<lease, request, claim>>
    BY DEF UpdateSessionStatus
  <2> QED
    BY <2>2, <2>3, <2>4, RewriteRowsKeepsOwnership
<1> QED
  BY <1>1, <1>2, <1>3, <1>4, <1>5 DEF RecordOps

LEMMA OwnershipMarkMissing ==
    ASSUME TypeOK, TypeOK', Ownership,
           NEW R \in SUBSET Sessions, MarkMissingWorktreesUnavailable(R)
    PROVE  Ownership'
<1> DEFINE st(s) == IF s \in R THEN "INTERRUPTED" ELSE row[s].status
           marked(s) == [row[s] EXCEPT !.status = st(s), !.available = FALSE, !.from = st(s)]
           S == {s \in Missing : s \in R \/ ~Leased(s)}
<1>1. \A s \in Sessions : row[s] \in Row /\ (Saved(s) => ReadableRow(row[s], projects))
  BY ReadableRows DEF TypeOK, Ownership
<1>2. \A s \in Sessions : row'[s] = IF s \in Missing THEN marked(s) ELSE row[s]
  BY DEF MarkMissingWorktreesUnavailable
<1>3. \A s \in Missing : ReadableRow(marked(s), projects)
  <2> TAKE s \in Missing
  <2>1. row[s] \in Row /\ ReadableRow(row[s], projects)
    BY <1>1 DEF Missing
  <2>2. st(s) # "NONE"
    BY <2>1 DEF ReadableRow
  <2> HIDE DEF st
  <2> QED
    BY <2>1, <2>2 DEF ReadableRow, Row
<1> HIDE DEF marked
<1>4. projects' = projects /\ R \subseteq S /\ S \in SUBSET Sessions
  BY DEF MarkMissingWorktreesUnavailable, Missing
<1>5. \A s \in Sessions : row'[s] # NoRow => ReadableRow(row'[s], projects')
  BY <1>1, <1>2, <1>3, <1>4 DEF Saved
<1>6. \A s \in Sessions : row[s] # NoRow => row'[s] # NoRow
  BY <1>2, <1>3, ReadableIsSaved
<1>7. \A s \in Sessions : lease'[s] = IF s \in R THEN NoLease ELSE lease[s]
  BY DropLeasesType DEF MarkMissingWorktreesUnavailable
<1>8. /\ \A s \in S : claim'[s] = NoOwner /\ request'[s] = NoOwner
      /\ \A s \in Sessions \ S : claim'[s] = claim[s] /\ request'[s] = request[s]
  BY <1>4, DropQueueType DEF MarkMissingWorktreesUnavailable
<1> HIDE DEF S
<1>9. RowsReadable'
  BY <1>5 DEF RowsReadable, ReadableRow, Saved
<1>10. CapacityBackedByLease'
  BY <1>4, <1>7, <1>8 DEF Ownership, CapacityBackedByLease
<1>11. LeasesExclusive'
  BY <1>6, <1>7 DEF Ownership, LeasesExclusive, Leased, Saved
<1> QED
  BY <1>9, <1>10, <1>11 DEF Ownership

LEMMA OwnershipEnvironment ==
    ASSUME TypeOK, TypeOK', Ownership, Environment
    PROVE  Ownership'
<1> USE DEF queueVars, worldVars
<1>1. UNCHANGED <<row, projects, request, claim>>
  BY DEF Environment, OwnerDies, WorkerTreeEnds, HeartbeatExpires, CheckoutChanges
<1>2. \A t \in Sessions : \/ lease'[t] = lease[t]
                          \/ lease'[t] = [lease[t] EXCEPT !.worker = "ended"] /\ lease[t].worker = "live"
                          \/ lease'[t] = [lease[t] EXCEPT !.fresh = FALSE] /\ lease[t].fresh
  BY DEF Environment, OwnerDies, WorkerTreeEnds, HeartbeatExpires, CheckoutChanges, TypeOK
<1>3. \A t \in Sessions :
         /\ lease'[t].owner = lease[t].owner /\ lease'[t].checkout = lease[t].checkout
         /\ lease'[t] # NoLease => lease[t] # NoLease
  BY <1>2 DEF TypeOK, Lease, NoLease
<1>4. LeasesExclusive'
  BY <1>1, <1>3 DEF Ownership, LeasesExclusive, Leased, Saved
<1>5. CapacityBackedByLease' /\ RowsReadable'
  BY <1>1, <1>3 DEF Ownership, CapacityBackedByLease, RowsReadable, Saved
<1> QED
  BY <1>4, <1>5 DEF Ownership

LEMMA OwnershipStep == TypeOK /\ TypeOK' /\ Ownership /\ [Next]_vars => Ownership'
<1> SUFFICES ASSUME TypeOK, TypeOK', Ownership, [Next]_vars PROVE Ownership'
  OBVIOUS
<1>1. CASE (\E n \in Limits : SetConcurrencyLimit(n)) \/ UNCHANGED vars
  <2>1. UNCHANGED <<row, projects, lease, request, claim>>
    BY <1>1 DEF SetConcurrencyLimit, queueVars, vars
  <2> QED
    BY <2>1 DEF Ownership, CapacityBackedByLease, LeasesExclusive, RowsReadable, Leased, Saved
<1> QED
  BY <1>1, OwnershipLeaseOps, OwnershipCapacityOps, OwnershipRecordOps,
     OwnershipMarkMissing, OwnershipEnvironment DEF Next

LEMMA OwnershipInvariant == Spec => []Ownership
  BY OwnershipInit, OwnershipStep, TypeCorrect, PTL DEF Spec

(* A slot or a queue place never outlives the lease that backs it, for any *)
(* number of sessions and applications and any interleaving.               *)
THEOREM CapacityAlwaysBacked == Spec => []CapacityBackedByLease
  BY OwnershipInvariant, PTL DEF Ownership

(* No worktree ever has two leases, and no deleted session has one.        *)
THEOREM LeasesAlwaysExclusive == Spec => []LeasesExclusive
  BY OwnershipInvariant, PTL DEF Ownership

(* No sequence of catalog calls writes a row that the catalog's own reader *)
(* would reject.                                                           *)
THEOREM RowsAlwaysReadable == Spec => []RowsReadable
  BY OwnershipInvariant, PTL DEF Ownership

-----------------------------------------------------------------------------
(* How a worktree changes hands.                                           *)

(* Session u, new or available, takes checkout c for o; whoever held c was *)
(* reclaimable, is left INTERRUPTED and loses its capacity.                *)
Takes(o, u, c) ==
    /\ ~Unavailable(u)
    /\ \A h \in Holders(c) : /\ Reclaimable(h)
                             /\ row'[h].status = "INTERRUPTED"
                             /\ claim'[h] = NoOwner /\ request'[h] = NoOwner
    /\ lease'[u] = NewLease(o, c)
    /\ \A t \in Sessions \ {u} : lease'[t] \in {lease[t], NoLease}

(* No lease passes to another session or application.                      *)
NobodyTakes ==
    \A t \in Sessions :
       \/ lease'[t] = NoLease
       \/ lease'[t].owner = lease[t].owner /\ lease'[t].checkout = lease[t].checkout
       \/ lease'[t].owner = lease[t].owner /\ Holders(lease'[t].checkout) \subseteq {t}

LEMMA LeaseMovesOnlyByTaking ==
    ASSUME TypeOK, Ownership, [Next]_vars
    PROVE  NobodyTakes \/ \E o \in Owners, u \in Sessions, c \in Checkouts : Takes(o, u, c)
<1> USE DEF queueVars, worldVars
<1>0. \A c : Holders(c) \in SUBSET Sessions
  BY DEF Holders
<1>a. \A r \in Row : WithStatus(r, "INTERRUPTED").status = "INTERRUPTED"
  BY WithStatusType DEF Status
<1>b. \A t \in Sessions : row[t] \in Row
  BY DEF TypeOK
<1>1. ASSUME NEW o \in Owners, NEW u \in Sessions, NEW c \in Checkouts,
             CreateSessionWithLease(o, u, c)
      PROVE  Takes(o, u, c)
  <2>1. u \notin Holders(c)
    BY <1>1 DEF CreateSessionWithLease, Holders, Ownership, LeasesExclusive
  <2>2. \A h \in Holders(c) : row'[h].status = "INTERRUPTED"
    BY <1>0, <1>1, <1>a, <1>b, <2>1, InterruptRowsType DEF CreateSessionWithLease
  <2>3. \A h \in Holders(c) : claim'[h] = NoOwner /\ request'[h] = NoOwner
    BY <1>0, <1>1, DropQueueType DEF CreateSessionWithLease
  <2>4. /\ lease'[u] = NewLease(o, c)
        /\ \A t \in Sessions \ {u} : lease'[t] \in {lease[t], NoLease}
    BY <1>0, <1>1, DropLeasesType DEF CreateSessionWithLease
  <2> QED
    BY <1>1, <2>2, <2>3, <2>4 DEF Takes, CreateSessionWithLease, Unavailable
<1>2. ASSUME NEW o \in Owners, NEW u \in Sessions, AcquireSessionLease(o, u)
      PROVE  row[u].checkout \in Checkouts /\ Takes(o, u, row[u].checkout)
  <2> DEFINE c == row[u].checkout
  <2>1. c \in Checkouts
    BY <1>2 DEF AcquireSessionLease, Ownership, RowsReadable, TypeOK
  <2>2. \A h \in Holders(c) : row'[h].status = "INTERRUPTED"
    BY <1>0, <1>2, <1>a, <1>b, InterruptRowsType DEF AcquireSessionLease
  <2>3. \A h \in Holders(c) : claim'[h] = NoOwner /\ request'[h] = NoOwner
    BY <1>0, <1>2, DropQueueType DEF AcquireSessionLease
  <2>4. /\ lease'[u] = NewLease(o, c)
        /\ \A t \in Sessions \ {u} : lease'[t] \in {lease[t], NoLease}
    BY <1>0, <1>2, DropLeasesType DEF AcquireSessionLease
  <2> QED
    BY <1>2, <2>1, <2>2, <2>3, <2>4 DEF Takes, AcquireSessionLease, Unavailable
<1>3. ASSUME NEW o \in Owners, NEW u \in Sessions, NEW c \in Checkouts,
             TransferSessionLease(o, u, c)
      PROVE  NobodyTakes
  <2>1. /\ \A t \in Sessions \ {u} : lease'[t] = lease[t]
        /\ lease'[u] = [lease[u] EXCEPT !.checkout = c, !.fresh = TRUE]
        /\ Holders(c) \subseteq {u}
    BY <1>3 DEF TransferSessionLease, TypeOK
  <2>2. lease[u] \in Lease
    BY DEF TypeOK
  <2>3. lease'[u].owner = lease[u].owner /\ lease'[u].checkout = c
    BY <2>1, <2>2 DEF Lease
  <2> QED
    BY <2>1, <2>3 DEF NobodyTakes
<1>4. ASSUME NEW u \in Sessions, lease[u] \in Lease,
             \A t \in Sessions \ {u} : lease'[t] = lease[t],
             \/ lease'[u] = NoLease
             \/ lease'[u] = [lease[u] EXCEPT !.worker = "live", !.fresh = TRUE]
             \/ lease'[u] = [lease[u] EXCEPT !.fresh = TRUE]
             \/ lease'[u] = [lease[u] EXCEPT !.worker = "ended"]
             \/ lease'[u] = [lease[u] EXCEPT !.fresh = FALSE]
             \/ lease'[u] = lease[u]
      PROVE  NobodyTakes
  <2>1. lease'[u] = NoLease \/ (/\ lease'[u].owner = lease[u].owner
                                /\ lease'[u].checkout = lease[u].checkout)
    BY <1>4 DEF Lease
  <2> QED
    BY <1>4, <2>1 DEF NobodyTakes
<1>5. \A u \in Sessions : lease[u] \in Lease
  BY DEF TypeOK
<1>6. ASSUME NEW o \in Owners, NEW u \in Sessions,
             \/ BindWorktreeLeaseWorker(o, u) \/ RenewWorktreeLease(o, u)
             \/ ReleaseWorktreeLease(o, u) \/ RollbackSessionStart(o, u)
      PROVE  NobodyTakes
  <2>1. CASE BindWorktreeLeaseWorker(o, u)
    BY <1>4, <1>5, <2>1 DEF BindWorktreeLeaseWorker, TypeOK
  <2>2. CASE RenewWorktreeLease(o, u)
    BY <1>4, <1>5, <2>2 DEF RenewWorktreeLease, TypeOK
  <2>3. CASE ReleaseWorktreeLease(o, u) \/ RollbackSessionStart(o, u)
    <3>1. {u} \in SUBSET Sessions
      OBVIOUS
    <3>2. \A t \in Sessions : lease'[t] \in {lease[t], NoLease}
      BY <2>3, <3>1, DropLeasesType DEF ReleaseWorktreeLease, RollbackSessionStart
    <3> QED
      BY <3>2 DEF NobodyTakes
  <2> QED
    BY <1>6, <2>1, <2>2, <2>3
<1>7. ASSUME NEW R \in SUBSET Sessions, MarkMissingWorktreesUnavailable(R)
      PROVE  NobodyTakes
  BY <1>7, DropLeasesType DEF MarkMissingWorktreesUnavailable, NobodyTakes
<1>8. ASSUME lease' = lease PROVE NobodyTakes
  BY <1>8 DEF NobodyTakes
<1>9. ASSUME NEW o \in Owners, NEW s \in Sessions, LeaseOps(o, s)
      PROVE  NobodyTakes \/ \E u \in Sessions, c \in Checkouts : Takes(o, u, c)
  BY <1>9, <1>1, <1>2, <1>3, <1>6 DEF LeaseOps
<1>10. ASSUME NEW o \in Owners, NEW s \in Sessions, CapacityOps(o, s)
       PROVE  lease' = lease
  BY <1>10 DEF CapacityOps, RequestExecutionCapacity, EnqueueExecutionCapacity,
     ReleaseExecutionCapacity, Grant, Enqueue
<1>11. ASSUME NEW s \in Sessions, RecordOps(s)
       PROVE  lease' = lease
  BY <1>11 DEF RecordOps, BindOrCreateSession, AdoptProjects, RelinkUnavailableSession,
     ForgetSession, UpdateSessionStatus
<1>12. CASE Environment
  <2>1. ASSUME NEW u \in Sessions, WorkerTreeEnds(u) PROVE NobodyTakes
    BY <1>4, <1>5, <2>1 DEF WorkerTreeEnds, TypeOK
  <2>2. ASSUME NEW u \in Sessions, HeartbeatExpires(u) PROVE NobodyTakes
    BY <1>4, <1>5, <2>2 DEF HeartbeatExpires, TypeOK
  <2> QED
    BY <1>8, <1>12, <2>1, <2>2 DEF Environment, OwnerDies, CheckoutChanges
<1>13. CASE (\E n \in Limits : SetConcurrencyLimit(n)) \/ UNCHANGED vars
  BY <1>13, <1>8 DEF SetConcurrencyLimit, vars
<1> QED
  BY <1>7, <1>8, <1>9, <1>10, <1>11, <1>12, <1>13 DEF Next

(* A worktree passes from one application to another only after confirmed  *)
(* death, and the session that lost it is INTERRUPTED without capacity.    *)
THEOREM TakeoverNeedsDeath == Spec => TakeoverOnlyFromDead
<1> DEFINE A == \A s, t \in Sessions :
                  (/\ Leased(s) /\ lease'[t].owner \notin {NoOwner, lease[s].owner}
                   /\ lease'[t].checkout = lease[s].checkout)
                  => /\ lease[s].worker # "live"
                     /\ lease[s].worker = "none" => lease[s].owner \notin alive
                     /\ row'[s].status = "INTERRUPTED"
                     /\ claim'[s] = NoOwner /\ request'[s] = NoOwner
<1>1. TypeOK /\ Ownership /\ [Next]_vars => [A]_vars
  <2> SUFFICES ASSUME TypeOK, Ownership, [Next]_vars,
                      NEW s \in Sessions, NEW t \in Sessions,
                      Leased(s), lease'[t].owner \notin {NoOwner, lease[s].owner},
                      lease'[t].checkout = lease[s].checkout
               PROVE  /\ lease[s].worker # "live"
                      /\ lease[s].worker = "none" => lease[s].owner \notin alive
                      /\ row'[s].status = "INTERRUPTED"
                      /\ claim'[s] = NoOwner /\ request'[s] = NoOwner
    OBVIOUS
  <2>0. lease'[t] # NoLease
    BY DEF NoLease
  <2>1. lease[t] # NoLease /\ lease[t].checkout = lease[s].checkout
        => lease[t].owner = lease[s].owner
    BY DEF Ownership, LeasesExclusive, Leased
  <2>2. ~NobodyTakes
    <3> SUFFICES ASSUME NobodyTakes PROVE FALSE
      OBVIOUS
    <3>1. lease'[t].owner = lease[t].owner
      BY <2>0 DEF NobodyTakes
    <3>2. lease[t] # NoLease
      BY <3>1 DEF NoLease
    <3>3. s \in Holders(lease'[t].checkout)
      BY DEF Holders
    <3> QED
      BY <2>0, <2>1, <3>1, <3>2, <3>3 DEF NobodyTakes
  <2>3. PICK o \in Owners, u \in Sessions, c \in Checkouts : Takes(o, u, c)
    BY <2>2, LeaseMovesOnlyByTaking
  <2>4. t = u
    BY <2>0, <2>1, <2>3 DEF Takes, NoLease
  <2>5. s \in Holders(c)
    BY <2>3, <2>4 DEF Takes, NewLease, Holders
  <2> QED
    BY <2>3, <2>5 DEF Takes, Reclaimable, ConfirmedDead
<1> QED
  BY <1>1, TypeCorrect, OwnershipInvariant, PTL DEF Spec, TakeoverOnlyFromDead

(* A session gains a slot or a place in the queue only while available.    *)
LEMMA CapacityGainedWhenAvailable ==
    ASSUME TypeOK, Ownership, [Next]_vars, NEW s \in Sessions, Unavailable(s)
    PROVE  claim'[s] \in {claim[s], NoOwner} /\ request'[s] \in {request[s], NoOwner}
<1> DEFINE Keeps == claim'[s] \in {claim[s], NoOwner} /\ request'[s] \in {request[s], NoOwner}
<1> USE DEF queueVars, worldVars
<1>1. ASSUME NEW S \in SUBSET Sessions, DropQueue(S) PROVE Keeps
  BY <1>1, DropQueueType
<1>2. \A c : Holders(c) \in SUBSET Sessions
  BY DEF Holders
<1>3. ASSUME NEW o \in Owners, NEW u \in Sessions, LeaseOps(o, u) PROVE Keeps
  <2>1. CASE \E c \in Checkouts : CreateSessionWithLease(o, u, c)
    BY <1>1, <1>2, <2>1 DEF CreateSessionWithLease
  <2>2. CASE AcquireSessionLease(o, u)
    BY <1>1, <1>2, <2>2 DEF AcquireSessionLease
  <2>3. CASE RollbackSessionStart(o, u)
    <3>1. {u} \in SUBSET Sessions
      OBVIOUS
    <3> QED
      BY <1>1, <2>3, <3>1 DEF RollbackSessionStart
  <2>4. CASE ReleaseWorktreeLease(o, u)
    BY <2>4 DEF ReleaseWorktreeLease, TypeOK
  <2> QED
    BY <1>3, <2>1, <2>2, <2>3, <2>4
    DEF LeaseOps, BindWorktreeLeaseWorker, RenewWorktreeLease, TransferSessionLease
<1>4. ASSUME NEW o \in Owners, NEW u \in Sessions, CapacityOps(o, u) PROVE Keeps
  <2>1. CASE RequestExecutionCapacity(o, u) \/ EnqueueExecutionCapacity(o, u)
    <3>1. u # s
      BY <2>1 DEF RequestExecutionCapacity, EnqueueExecutionCapacity, MayQueue, Unavailable
    <3> QED
      BY <2>1, <3>1 DEF RequestExecutionCapacity, EnqueueExecutionCapacity, Grant, Enqueue, TypeOK
  <2>2. CASE \E st \in Reported : ReleaseExecutionCapacity(o, u, st)
    <3>1. {u} \in SUBSET Sessions
      OBVIOUS
    <3> QED
      BY <1>1, <2>2, <3>1 DEF ReleaseExecutionCapacity
  <2> QED
    BY <1>4, <2>1, <2>2 DEF CapacityOps
<1>5. ASSUME NEW R \in SUBSET Sessions, MarkMissingWorktreesUnavailable(R) PROVE Keeps
  <2>1. {g \in Missing : g \in R \/ ~Leased(g)} \in SUBSET Sessions
    BY DEF Missing
  <2> QED
    BY <1>1, <1>5, <2>1 DEF MarkMissingWorktreesUnavailable
<1>6. CASE UNCHANGED queueVars
  BY <1>6
<1>7. CASE (\E u \in Sessions : RecordOps(u)) \/ (\E n \in Limits : SetConcurrencyLimit(n))
           \/ Environment \/ UNCHANGED vars
  BY <1>6, <1>7 DEF RecordOps, BindOrCreateSession, AdoptProjects, RelinkUnavailableSession,
     ForgetSession, UpdateSessionStatus, SetConcurrencyLimit, Environment, OwnerDies,
     WorkerTreeEnds, HeartbeatExpires, CheckoutChanges, vars
<1> QED
  BY <1>3, <1>4, <1>5, <1>7 DEF Next

(* A session whose worktree is missing gains no capacity and no lease.     *)
THEOREM UnavailableNeverGains == Spec => UnavailableGainsNothing
<1> DEFINE A == \A s \in Sessions : Unavailable(s) =>
                   /\ claim'[s] \in {claim[s], NoOwner}
                   /\ request'[s] \in {request[s], NoOwner}
                   /\ lease'[s].owner \in {lease[s].owner, NoOwner}
<1>1. TypeOK /\ Ownership /\ [Next]_vars => [A]_vars
  <2> SUFFICES ASSUME TypeOK, Ownership, [Next]_vars, NEW s \in Sessions, Unavailable(s)
               PROVE  /\ claim'[s] \in {claim[s], NoOwner}
                      /\ request'[s] \in {request[s], NoOwner}
                      /\ lease'[s].owner \in {lease[s].owner, NoOwner}
    OBVIOUS
  <2>1. lease'[s] \in {lease[s], NoLease} \/ lease'[s].owner = lease[s].owner
    BY LeaseMovesOnlyByTaking DEF NobodyTakes, Takes
  <2> QED
    BY <2>1, CapacityGainedWhenAvailable DEF NoLease
<1> QED
  BY <1>1, TypeCorrect, OwnershipInvariant, PTL DEF Spec, UnavailableGainsNothing

-----------------------------------------------------------------------------
(* A lease stays on the checkout its session's row names.                  *)

(* What a step may do to a leased session: keep its lease and its row on   *)
(* their checkouts (or let a prompt move the row), or put both on one.     *)
Follows(s) ==
    lease'[s] # NoLease =>
        \/ /\ Leased(s) /\ lease'[s].checkout = lease[s].checkout
           /\ row'[s].checkout \in {row[s].checkout} \cup Prompted
        \/ lease'[s].checkout = row'[s].checkout

LEMMA InterruptKeepsCheckout ==
    ASSUME TypeOK, NEW S \in SUBSET Sessions, NEW s \in Sessions
    PROVE  InterruptRows(S)[s].checkout = row[s].checkout
<1>1. row[s] \in Row /\ "INTERRUPTED" \in Status
  BY DEF TypeOK, Status
<1> QED
  BY <1>1, InterruptRowsType, WithStatusType

LEMMA LeaseUpdates ==
    ASSUME NEW l \in Lease
    PROVE  /\ [l EXCEPT !.worker = "live", !.fresh = TRUE].checkout = l.checkout
           /\ [l EXCEPT !.worker = "ended"].checkout = l.checkout
           /\ [l EXCEPT !.fresh = TRUE].checkout = l.checkout
           /\ [l EXCEPT !.fresh = FALSE].checkout = l.checkout
  BY DEF Lease

LEMMA RowUpdates ==
    ASSUME NEW r \in Row, NEW st, NEW c
    PROVE  /\ [r EXCEPT !.status = st].checkout = r.checkout
           /\ [r EXCEPT !.status = st, !.available = FALSE, !.from = st].checkout = r.checkout
           /\ [r EXCEPT !.checkout = c].checkout = c
  BY DEF Row

LEMMA FollowsLeaseOps ==
    ASSUME TypeOK, NEW o \in Owners, NEW u \in Sessions, LeaseOps(o, u)
    PROVE  \A s \in Sessions : Follows(s)
<1> USE DEF queueVars, worldVars
<1> \A c : Holders(c) \in SUBSET Sessions
  BY DEF Holders
<1> {u} \in SUBSET Sessions
  OBVIOUS
<1>1. CASE \E c \in Checkouts : CreateSessionWithLease(o, u, c)
  <2> PICK c \in Checkouts : CreateSessionWithLease(o, u, c)
    BY <1>1
  <2>1. row'[u] = NewRow(c) /\ lease'[u] = NewLease(o, c)
    BY InterruptRowsType, DropLeasesType DEF CreateSessionWithLease
  <2>2. \A s \in Sessions \ {u} : /\ row'[s].checkout = row[s].checkout
                                  /\ lease'[s] \in {lease[s], NoLease}
    BY InterruptRowsType, InterruptKeepsCheckout, DropLeasesType DEF CreateSessionWithLease
  <2>3. Follows(u)
    BY <2>1 DEF Follows, NewRow, NewLease
  <2> QED
    BY <2>2, <2>3 DEF Follows, Leased
<1>2. CASE AcquireSessionLease(o, u)
  <2>1. \A s \in Sessions : row'[s].checkout = row[s].checkout
    BY <1>2, InterruptKeepsCheckout DEF AcquireSessionLease
  <2>2. lease'[u].checkout = row[u].checkout
    BY <1>2, DropLeasesType DEF AcquireSessionLease, NewLease
  <2>3. \A s \in Sessions \ {u} : lease'[s] \in {lease[s], NoLease}
    BY <1>2, DropLeasesType DEF AcquireSessionLease
  <2> QED
    BY <2>1, <2>2, <2>3 DEF Follows, Leased
<1>3. CASE BindWorktreeLeaseWorker(o, u) \/ RenewWorktreeLease(o, u)
  <2>0. lease[u] \in Lease /\ row' = row
    BY <1>3 DEF BindWorktreeLeaseWorker, RenewWorktreeLease, TypeOK
  <2>1. lease'[u].checkout = lease[u].checkout
    BY <1>3, <2>0, LeaseUpdates DEF BindWorktreeLeaseWorker, RenewWorktreeLease, TypeOK
  <2>2. Leased(u) /\ \A s \in Sessions \ {u} : lease'[s] = lease[s]
    BY <1>3, NoOwnerAssumption DEF BindWorktreeLeaseWorker, RenewWorktreeLease, TypeOK, Leased, NoLease
  <2> QED
    BY <2>0, <2>1, <2>2 DEF Follows, Leased
<1>4. CASE ReleaseWorktreeLease(o, u) \/ RollbackSessionStart(o, u)
  <2>1. \A s \in Sessions : /\ lease'[s] \in {lease[s], NoLease}
                            /\ row'[s] = row[s] \/ lease'[s] = NoLease
    BY <1>4, DropLeasesType DEF ReleaseWorktreeLease, RollbackSessionStart, TypeOK
  <2> QED
    BY <2>1 DEF Follows, Leased
<1>5. CASE \E c \in Checkouts : TransferSessionLease(o, u, c)
  <2> PICK c \in Checkouts : TransferSessionLease(o, u, c)
    BY <1>5
  <2>1. row'[u].checkout = c /\ lease'[u].checkout = c
    BY DEF TransferSessionLease, TypeOK, Row, Lease
  <2>2. \A s \in Sessions \ {u} : row'[s] = row[s] /\ lease'[s] = lease[s]
    BY DEF TransferSessionLease, TypeOK
  <2> QED
    BY <2>1, <2>2 DEF Follows, Leased
<1> QED
  BY <1>1, <1>2, <1>3, <1>4, <1>5 DEF LeaseOps

LEMMA FollowsOtherOps ==
    ASSUME TypeOK, Ownership, [Next]_vars,
           ~\E o \in Owners, u \in Sessions : LeaseOps(o, u)
    PROVE  \A s \in Sessions : Follows(s)
<1> USE DEF queueVars, worldVars
<1> DEFINE Stays == \A s \in Sessions :
              /\ lease'[s] # NoLease =>
                    /\ lease[s] # NoLease /\ lease'[s].checkout = lease[s].checkout
                    /\ row'[s].checkout \in {row[s].checkout} \cup Prompted
<1>1. Stays => \A s \in Sessions : Follows(s)
  BY DEF Follows, Leased
<1>2. ASSUME NEW o \in Owners, NEW u \in Sessions, CapacityOps(o, u) PROVE Stays
  <2>1. lease' = lease
    BY <1>2 DEF CapacityOps, RequestExecutionCapacity, EnqueueExecutionCapacity,
       ReleaseExecutionCapacity, Grant, Enqueue
  <2>2. /\ \A s \in Sessions \ {u} : row'[s] = row[s]
        /\ \/ \E st \in Status : row'[u] = [row[u] EXCEPT !.status = st]
           \/ \E st \in Status : row'[u] = WithStatus(row[u], st)
    BY <1>2, ReportedAssumption DEF CapacityOps, RequestExecutionCapacity,
       EnqueueExecutionCapacity, ReleaseExecutionCapacity, Grant, Enqueue, TypeOK, Status
  <2>3. row[u] \in Row
    BY DEF TypeOK
  <2>4. row'[u].checkout = row[u].checkout
    <3>1. \A st \in Status : WithStatus(row[u], st).checkout = row[u].checkout
      BY <2>3, WithStatusType
    <3>2. \A st \in Status : [row[u] EXCEPT !.status = st].checkout = row[u].checkout
      BY <2>3, RowUpdates
    <3> QED
      BY <2>2, <3>1, <3>2
  <2> QED
    BY <2>1, <2>2, <2>4
<1>3. ASSUME NEW u \in Sessions, RecordOps(u) PROVE Stays
  <2>2. \A s \in Sessions : lease[s] # NoLease => Saved(s)
    BY DEF Ownership, LeasesExclusive, Leased
  <2>3. CASE \E c \in Checkouts : BindOrCreateSession(u, c)
    <3> PICK c \in Checkouts : BindOrCreateSession(u, c)
      BY <2>3
    <3>1. \A s \in Sessions \ {u} : row'[s] = row[s]
      BY DEF BindOrCreateSession, TypeOK
    <3>2. Saved(u) => c \in Prompted /\ row'[u] = [row[u] EXCEPT !.checkout = c]
      BY DEF BindOrCreateSession, TypeOK
    <3>3. Saved(u) => row'[u].checkout \in Prompted
      <4>1. row[u] \in Row
        BY DEF TypeOK
      <4>2. [row[u] EXCEPT !.checkout = c].checkout = c
        BY <4>1, RowUpdates
      <4> QED
        BY <3>2, <4>2
    <3>4. lease' = lease
      BY DEF BindOrCreateSession
    <3> QED
      BY <2>2, <3>1, <3>3, <3>4
  <2>4. CASE (\E c \in Checkouts : AdoptProjects(u, c)) \/ ForgetSession(u)
    <3>1. lease' = lease /\ \A s \in Sessions \ {u} : row'[s] = row[s]
      BY <2>4 DEF AdoptProjects, ForgetSession, TypeOK
    <3>2. ~Saved(u) \/ ~Leased(u)
      BY <2>4 DEF AdoptProjects, ForgetSession
    <3> QED
      BY <2>2, <3>1, <3>2 DEF Leased
  <2>5. CASE \E c \in Checkouts : RelinkUnavailableSession(u, c)
    <3> PICK c \in Checkouts : RelinkUnavailableSession(u, c)
      BY <2>5
    <3>1. \A s \in Sessions : row'[s] = row[s] \/ s \in InProject(row[u].checkout)
      BY DEF RelinkUnavailableSession
    <3>2. \A s \in InProject(row[u].checkout) : ~Leased(s)
      BY DEF RelinkUnavailableSession
    <3>3. lease' = lease
      BY DEF RelinkUnavailableSession
    <3> QED
      BY <3>1, <3>2, <3>3 DEF Leased
  <2>6. CASE \E st \in Reported : UpdateSessionStatus(u, st)
    <3>1. PICK st \in Reported : /\ row' = [row EXCEPT ![u] = WithStatus(row[u], st)]
                                 /\ lease' = lease
      BY <2>6 DEF UpdateSessionStatus
    <3>2. WithStatus(row[u], st).checkout = row[u].checkout
      BY WithStatusType, ReportedAssumption DEF TypeOK
    <3> QED
      BY <3>1, <3>2 DEF TypeOK
  <2> QED
    BY <1>3, <2>3, <2>4, <2>5, <2>6 DEF RecordOps
<1>4. ASSUME NEW R \in SUBSET Sessions, MarkMissingWorktreesUnavailable(R) PROVE Stays
  <2> DEFINE st(s) == IF s \in R THEN "INTERRUPTED" ELSE row[s].status
             marked(s) == [row[s] EXCEPT !.status = st(s), !.available = FALSE, !.from = st(s)]
  <2>1. \A s \in Sessions : lease'[s] = IF s \in R THEN NoLease ELSE lease[s]
    BY <1>4, DropLeasesType DEF MarkMissingWorktreesUnavailable
  <2>2. \A s \in Sessions : row'[s] = IF s \in Missing THEN marked(s) ELSE row[s]
    BY <1>4 DEF MarkMissingWorktreesUnavailable
  <2>3. \A s \in Sessions : row[s] \in Row
    BY DEF TypeOK
  <2> HIDE DEF st
  <2>4. \A s \in Sessions : marked(s).checkout = row[s].checkout
    BY <2>3, RowUpdates
  <2> HIDE DEF marked
  <2> QED
    BY <2>1, <2>2, <2>4
<1>5. ASSUME Environment PROVE Stays
  <2>1. row' = row
    BY <1>5 DEF Environment, OwnerDies, WorkerTreeEnds, HeartbeatExpires, CheckoutChanges
  <2>2. \A s \in Sessions : \/ lease'[s] = lease[s]
                            \/ lease'[s] = [lease[s] EXCEPT !.worker = "ended"] /\ lease[s].worker = "live"
                            \/ lease'[s] = [lease[s] EXCEPT !.fresh = FALSE] /\ lease[s].fresh
    BY <1>5 DEF Environment, OwnerDies, WorkerTreeEnds, HeartbeatExpires, CheckoutChanges, TypeOK
  <2>3. \A s \in Sessions : /\ lease'[s].checkout = lease[s].checkout
                            /\ lease'[s] # NoLease => lease[s] # NoLease
    <3> TAKE s \in Sessions
    <3>1. lease[s] \in Lease
      BY DEF TypeOK
    <3>2. /\ [lease[s] EXCEPT !.worker = "ended"].checkout = lease[s].checkout
          /\ [lease[s] EXCEPT !.fresh = FALSE].checkout = lease[s].checkout
      BY <3>1, LeaseUpdates
    <3>3. lease[s] = NoLease => lease[s].worker # "live" /\ ~lease[s].fresh
      BY DEF NoLease
    <3>4. CASE lease'[s] = lease[s]
      BY <3>4
    <3>5. CASE lease'[s] # lease[s]
      BY <2>2, <3>2, <3>3, <3>5
    <3> QED
      BY <3>4, <3>5
  <2> QED
    BY <2>1, <2>3
<1>6. ASSUME (\E n \in Limits : SetConcurrencyLimit(n)) \/ UNCHANGED vars PROVE Stays
  BY <1>6 DEF SetConcurrencyLimit, vars
<1> HIDE DEF Stays
<1> QED
  BY <1>1, <1>2, <1>3, <1>4, <1>5, <1>6 DEF Next

(* Wherever no planning prompt can switch a session to, the worktree a     *)
(* session works in is the one it owns.                                    *)
THEOREM LeasesFollowSessions == Spec => []LeaseFollowsSession
<1>1. Init => LeaseFollowsSession
  BY DEF Init, LeaseFollowsSession, Leased
<1>2. TypeOK /\ Ownership /\ LeaseFollowsSession /\ [Next]_vars => LeaseFollowsSession'
  <2> SUFFICES ASSUME TypeOK, Ownership, LeaseFollowsSession, [Next]_vars
               PROVE  LeaseFollowsSession'
    OBVIOUS
  <2>1. \A s \in Sessions : Follows(s)
    BY FollowsLeaseOps, FollowsOtherOps
  <2> QED
    BY <2>1 DEF Follows, LeaseFollowsSession, Leased
<1> QED
  BY <1>1, <1>2, TypeCorrect, OwnershipInvariant, PTL DEF Spec

-----------------------------------------------------------------------------
(* The queue and claim tables of the catalog implement AdmissionQueue, for *)
(* any number of sessions, worktrees, applications and limits.             *)

LEMMA BeforeMember ==
    ASSUME NEW s, NEW t
    PROVE  <<s, t>> \in Before <=> s \in Requesters /\ t \in Requesters /\ order[s] < order[t]
<1>1. ASSUME s \in Requesters, t \in Requesters, order[s] < order[t]
      PROVE  <<s, t>> \in Before
  <2>1. <<s, t>> \in Requesters \X Requesters /\ <<s, t>>[1] = s /\ <<s, t>>[2] = t
    BY <1>1
  <2> QED
    BY <1>1, <2>1 DEF Before
<1> QED
  BY <1>1 DEF Before

LEMMA BeforeArePairs == \A p \in Before : p = <<p[1], p[2]>>
  BY DEF Before

(* Steps that leave the two tables and the limit alone.                    *)
LEMMA QueueKept ==
    ASSUME UNCHANGED <<queueVars, limit>>
    PROVE  UNCHANGED Line!vars
  BY DEF queueVars, Line!vars, Before, Requesters, Claimers

(* Deleting the requests and claims of a set of sessions is leaving.       *)
LEMMA DropIsLeave ==
    ASSUME NEW S \in SUBSET Sessions, UNCHANGED limit,
           \A s \in S : request'[s] = NoOwner /\ claim'[s] = NoOwner,
           \A s \in Sessions \ S : /\ request'[s] = request[s] /\ order'[s] = order[s]
                                   /\ claim'[s] = claim[s]
    PROVE  Line!Leave(S)
<1>1. Requesters' = Requesters \ S
  BY DEF Requesters
<1>2. Claimers' = Claimers \ S
  BY DEF Claimers
<1>3. Before' = {p \in Before : p[1] \notin S /\ p[2] \notin S}
  <2>1. \A s \in Requesters' : s \in Sessions \ S /\ order'[s] = order[s]
    BY <1>1 DEF Requesters
  <2>2. Before' = {p \in Requesters' \X Requesters' : order'[p[1]] < order'[p[2]]}
    BY DEF Before
  <2>3. ASSUME NEW p \in Before'
        PROVE  p \in Before /\ p[1] \notin S /\ p[2] \notin S
    BY <1>1, <2>1, <2>2, <2>3 DEF Before
  <2>4. ASSUME NEW p \in Before, p[1] \notin S, p[2] \notin S
        PROVE  p \in Before'
    BY <1>1, <2>1, <2>2, <2>4 DEF Before
  <2> QED
    BY <2>3, <2>4
<1> QED
  BY <1>1, <1>2, <1>3 DEF Line!Leave

LEMMA DropQueueIsLeave ==
    ASSUME TypeOK, NEW S \in SUBSET Sessions, DropQueue(S), UNCHANGED limit
    PROVE  Line!Leave(S)
  BY DropQueueType, DropIsLeave

(* A new request goes behind every waiting one; one that waits already     *)
(* keeps its place.                                                        *)
LEMMA EnqueueJoins ==
    ASSUME TypeOK, NEW o \in Owners, NEW s \in Sessions, Enqueue(o, s),
           claim[s] = NoOwner, request[s] \in {o, NoOwner}
    PROVE  Line!Join(s) \/ UNCHANGED Line!vars
<1>0. o # NoOwner /\ UNCHANGED <<claim, limit>>
  BY NoOwnerAssumption DEF Enqueue, worldVars
<1>1. CASE request[s] = o
  <2>1. request' = request /\ order' = order
    BY <1>0, <1>1 DEF Enqueue, OrderOf, TypeOK
  <2> QED
    BY <1>0, <2>1, QueueKept DEF queueVars
<1>2. CASE request[s] = NoOwner
  <2>1. order' = [order EXCEPT ![s] = NextOrder] /\ request' = [request EXCEPT ![s] = o]
    BY <1>2 DEF Enqueue, OrderOf
  <2>2. Requesters' = Requesters \cup {s} /\ s \notin Requesters /\ Claimers' = Claimers
        /\ s \notin Claimers
    BY <1>0, <1>2, <2>1 DEF Requesters, Claimers, TypeOK
  <2>3. order'[s] = NextOrder /\ \A t \in Requesters : order'[t] = order[t] /\ order[t] < NextOrder
    BY <2>1, <2>2, NextOrderIsLast DEF Requesters, TypeOK
  <2>4. NextOrder \in Nat /\ \A t \in Requesters : order[t] \in Nat
    BY NextOrderIsLast, OrderBoundAssumption DEF Requesters, TypeOK
  <2>5. Before' = {p \in Requesters' \X Requesters' : order'[p[1]] < order'[p[2]]}
    BY DEF Before
  <2>6. ASSUME NEW p \in Before'
        PROVE  p \in Before \cup (Requesters \X {s})
    <3>1. p = <<p[1], p[2]>> /\ p[1] \in Requesters' /\ p[2] \in Requesters'
          /\ order'[p[1]] < order'[p[2]]
      BY <2>5, <2>6
    <3>2. p[1] # s
      BY <2>2, <2>3, <2>4, <3>1
    <3>3. CASE p[2] = s
      BY <2>2, <3>1, <3>2, <3>3
    <3>4. CASE p[2] # s
      <4>1. p[1] \in Requesters /\ p[2] \in Requesters /\ order[p[1]] < order[p[2]]
        BY <2>2, <2>3, <3>1, <3>2, <3>4
      <4> QED
        BY <3>1, <4>1, BeforeMember
    <3> QED
      BY <3>3, <3>4
  <2>7. ASSUME NEW p \in Before
        PROVE  p \in Before'
    <3>1. p = <<p[1], p[2]>> /\ p[1] \in Requesters /\ p[2] \in Requesters
          /\ order[p[1]] < order[p[2]]
      BY <2>7 DEF Before
    <3>2. p \in Requesters' \X Requesters' /\ order'[p[1]] < order'[p[2]]
      BY <2>2, <2>3, <3>1
    <3> QED
      BY <2>5, <3>2
  <2>8. ASSUME NEW t \in Requesters
        PROVE  <<t, s>> \in Before'
    <3>1. <<t, s>> \in Requesters' \X Requesters' /\ order'[t] < order'[s]
      BY <2>2, <2>3, <2>8
    <3>2. <<t, s>>[1] = t /\ <<t, s>>[2] = s
      OBVIOUS
    <3> QED
      BY <2>5, <3>1, <3>2
  <2>9. Before' = Before \cup (Requesters \X {s})
    <3>1. ASSUME NEW p \in Requesters \X {s} PROVE p \in Before'
      <4>1. PICK t \in Requesters : p = <<t, s>>
        BY <3>1
      <4> QED
        BY <4>1, <2>8
    <3> QED
      BY <2>6, <2>7, <3>1
  <2> QED
    BY <1>0, <2>2, <2>9 DEF Line!Join
<1> QED
  BY <1>1, <1>2

(* The oldest request, or a newcomer to an empty queue, is granted a slot. *)
LEMMA GrantAdmits ==
    ASSUME TypeOK, NEW o \in Owners, NEW s \in Sessions, Grant(o, s), Granted(s),
           claim[s] = NoOwner
    PROVE  Line!Admit(s)
<1>0. o # NoOwner /\ UNCHANGED limit /\ Cardinality(Claimers) < limit /\ Oldest(s)
  BY NoOwnerAssumption DEF Grant, Granted, worldVars
<1>1. Requesters' = Requesters \ {s}
  BY DEF Requesters, Grant, TypeOK
<1>2. Claimers' = Claimers \cup {s} /\ s \notin Claimers
  BY <1>0 DEF Claimers, Grant, TypeOK
<1>3. \A t \in Requesters : order[t] \in Nat
  BY OrderBoundAssumption DEF Requesters, TypeOK
<1>4. ASSUME NEW t \in Requesters \ {s}
      PROVE  s \in Requesters /\ order[s] < order[t]
  <2>1. OrderOf(s) < order[t]
    BY <1>0, <1>4 DEF Oldest
  <2>2. NextOrder \in Nat /\ order[t] < NextOrder
    BY <1>4, NextOrderIsLast DEF Requesters
  <2> QED
    BY <1>3, <1>4, <2>1, <2>2 DEF OrderOf, Requesters
<1>5. \A t \in Requesters \ {s} : <<s, t>> \in Before
  BY <1>4, BeforeMember
<1>6. \A t \in Requesters' : t \in Requesters \ {s} /\ order'[t] = order[t]
  BY <1>1 DEF Grant, Requesters, TypeOK
<1>7. Before' = {p \in Requesters' \X Requesters' : order'[p[1]] < order'[p[2]]}
  BY DEF Before
<1>8. Before' = {p \in Before : p[1] # s}
  <2>1. ASSUME NEW p \in Before' PROVE p \in Before /\ p[1] # s
    BY <1>6, <1>7, <2>1 DEF Before
  <2>2. ASSUME NEW p \in Before, p[1] # s PROVE p \in Before'
    <3>1. p[1] \in Requesters /\ p[2] \in Requesters /\ order[p[1]] < order[p[2]]
          /\ p = <<p[1], p[2]>>
      BY <2>2 DEF Before
    <3>2. p[2] # s
      BY <1>3, <1>4, <2>2, <3>1
    <3>3. p \in Requesters' \X Requesters' /\ order'[p[1]] < order'[p[2]]
      BY <1>1, <1>6, <2>2, <3>1, <3>2
    <3> QED
      BY <1>7, <3>3
  <2> QED
    BY <2>1, <2>2
<1> QED
  BY <1>0, <1>1, <1>2, <1>5, <1>8 DEF Line!Admit, Line!Cardinality, Cardinality

(* Each method is one step of the line, or none.                           *)
LEMMA LeaseOpsRefine ==
    ASSUME TypeOK, CapacityBackedByLease, NEW o \in Owners, NEW s \in Sessions, LeaseOps(o, s)
    PROVE  (\E S \in SUBSET Sessions : Line!Leave(S)) \/ UNCHANGED Line!vars
<1> USE DEF worldVars
<1>0. \A c : Holders(c) \in SUBSET Sessions
  BY DEF Holders
<1>1. CASE \E S \in SUBSET Sessions : DropQueue(S) /\ UNCHANGED limit
  BY <1>1, DropQueueIsLeave
<1>2. CASE UNCHANGED <<queueVars, limit>>
  BY <1>2, QueueKept
<1>3. CASE ReleaseWorktreeLease(o, s)
  <2>1. request'[s] = NoOwner /\ claim'[s] = NoOwner
    BY <1>3, NoOwnerAssumption DEF ReleaseWorktreeLease, CapacityBackedByLease, TypeOK
  <2>2. \A t \in Sessions \ {s} : /\ request'[t] = request[t] /\ order'[t] = order[t]
                                  /\ claim'[t] = claim[t]
    BY <1>3 DEF ReleaseWorktreeLease, TypeOK
  <2>3. {s} \in SUBSET Sessions /\ UNCHANGED limit
    BY <1>3 DEF ReleaseWorktreeLease
  <2>4. Line!Leave({s})
    BY <2>1, <2>2, <2>3, DropIsLeave
  <2> QED
    BY <2>3, <2>4
<1>4. CASE \E c \in Checkouts : CreateSessionWithLease(o, s, c)
  BY <1>0, <1>1, <1>4 DEF CreateSessionWithLease
<1>5. CASE AcquireSessionLease(o, s)
  BY <1>0, <1>1, <1>5 DEF AcquireSessionLease
<1>6. CASE RollbackSessionStart(o, s)
  BY <1>1, <1>6 DEF RollbackSessionStart
<1>7. CASE BindWorktreeLeaseWorker(o, s) \/ RenewWorktreeLease(o, s)
           \/ \E c \in Checkouts : TransferSessionLease(o, s, c)
  BY <1>2, <1>7 DEF BindWorktreeLeaseWorker, RenewWorktreeLease, TransferSessionLease
<1> QED
  BY <1>3, <1>4, <1>5, <1>6, <1>7 DEF LeaseOps

LEMMA CapacityOpsRefine ==
    ASSUME TypeOK, NEW o \in Owners, NEW s \in Sessions, CapacityOps(o, s)
    PROVE  \/ Line!Join(s) \/ Line!Admit(s)
           \/ \E S \in SUBSET Sessions : Line!Leave(S)
           \/ UNCHANGED Line!vars
<1>1. CASE RequestExecutionCapacity(o, s)
  <2>1. CASE UNCHANGED <<queueVars, worldVars>>
    BY <2>1, QueueKept DEF worldVars
  <2> QED
    BY <1>1, <2>1, GrantAdmits, EnqueueJoins DEF RequestExecutionCapacity
<1>2. CASE EnqueueExecutionCapacity(o, s)
  BY <1>2, EnqueueJoins DEF EnqueueExecutionCapacity
<1>3. CASE \E st \in Reported : ReleaseExecutionCapacity(o, s, st)
  <2>1. {s} \in SUBSET Sessions /\ DropQueue({s}) /\ UNCHANGED limit
    BY <1>3 DEF ReleaseExecutionCapacity, worldVars
  <2> QED
    BY <2>1, DropQueueIsLeave
<1> QED
  BY <1>1, <1>2, <1>3 DEF CapacityOps

LEMMA InitRefines == Init => Line!Init
<1> SUFFICES ASSUME Init PROVE Line!Init
  OBVIOUS
<1>1. Requesters = {} /\ Claimers = {}
  BY DEF Init, Requesters, Claimers
<1>2. Before = {}
  BY <1>1 DEF Before
<1> QED
  BY <1>1, <1>2, LimitsAssumption DEF Init, Line!Init

LEMMA NextRefines ==
    ASSUME TypeOK, CapacityBackedByLease, [Next]_vars
    PROVE  [Line!Next]_(Line!vars)
<1>1. CASE \E o \in Owners, s \in Sessions : LeaseOps(o, s)
  BY <1>1, LeaseOpsRefine DEF Line!Next
<1>2. CASE \E o \in Owners, s \in Sessions : CapacityOps(o, s)
  BY <1>2, CapacityOpsRefine DEF Line!Next
<1>3. CASE UNCHANGED <<queueVars, limit>>
  BY <1>3, QueueKept
<1>4. CASE \E s \in Sessions : RecordOps(s)
  BY <1>3, <1>4 DEF RecordOps, BindOrCreateSession, AdoptProjects,
     RelinkUnavailableSession, ForgetSession, UpdateSessionStatus, worldVars
<1>5. CASE \E R \in SUBSET Sessions : MarkMissingWorktreesUnavailable(R)
  <2> PICK R \in SUBSET Sessions : MarkMissingWorktreesUnavailable(R)
    BY <1>5
  <2> DEFINE S == {s \in Missing : s \in R \/ ~Leased(s)}
  <2>1. S \in SUBSET Sessions /\ DropQueue(S) /\ UNCHANGED limit
    BY DEF MarkMissingWorktreesUnavailable, Missing, worldVars
  <2>2. Line!Leave(S)
    BY <2>1, DropQueueIsLeave
  <2> QED
    BY <2>1, <2>2 DEF Line!Next
<1>6. CASE \E n \in Limits : SetConcurrencyLimit(n)
  <2> PICK n \in Limits : SetConcurrencyLimit(n)
    BY <1>6
  <2>1. Line!SetLimit(n)
    BY DEF SetConcurrencyLimit, queueVars, Line!SetLimit, Before, Requesters, Claimers
  <2> QED
    BY <2>1 DEF Line!Next
<1>7. CASE Environment
  BY <1>3, <1>7 DEF Environment, OwnerDies, WorkerTreeEnds, HeartbeatExpires,
     CheckoutChanges, worldVars
<1>8. CASE UNCHANGED vars
  BY <1>3, <1>8 DEF vars, queueVars
<1> QED
  BY <1>1, <1>2, <1>4, <1>5, <1>6, <1>7, <1>8 DEF Next

(* Every run of the catalog is a run of a first-come first-served line     *)
(* below a limit: positions that are renumbered when the table empties,    *)
(* freed in any order and kept over polls never let a request overtake     *)
(* another one (request_execution_capacity, enqueue_execution_capacity and *)
(* every method that deletes a request or a claim).                        *)
THEOREM AdmissionRefinesLine == Spec => AdmissionIsFirstComeFirstServed
<1>1. Spec => []TypeOK /\ []CapacityBackedByLease
  BY TypeCorrect, CapacityAlwaysBacked
<1> QED
  BY <1>1, InitRefines, NextRefines, PTL
  DEF Spec, AdmissionIsFirstComeFirstServed, Line!Spec

=============================================================================
