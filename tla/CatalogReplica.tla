--------------------------- MODULE CatalogReplica ---------------------------
(***************************************************************************)
(* Several Dev Loop applications open one Portable Session Catalog.  Each  *)
(* upgrades the file it finds (PortableSessionCatalog._initialize), then   *)
(* keeps a view of the sessions table in memory and refreshes it from      *)
(* lists it reads without a lock, guarded by the revision of each row      *)
(* (PortableSessionSupervisor._synchronize_catalog_sessions).              *)
(*                                                                         *)
(* A write transaction is one step: SQLite admits one writer at a time and *)
(* a method that raises rolls back.  What an application reads outside the *)
(* transaction that uses it is a step of its own.  SessionCatalog models   *)
(* queue, leases and statuses; here a lease is only who holds a session.   *)
(***************************************************************************)
EXTENDS Naturals, FiniteSets

CONSTANTS
    Apps,           \* the applications of one user
    Ids,            \* session identifiers
    Checkouts,      \* canonical worktree paths
    Found,          \* the catalog versions a machine may start with
    MaxWrites,      \* bound of the model: session writes
    NoApp,          \* nobody
    NoCheckout      \* the checkout of an absent row

ASSUME CatalogReplicaAssumption ==
    /\ IsFiniteSet(Ids) /\ IsFiniteSet(Checkouts)
    /\ Found \subseteq 0..8
    /\ NoApp \notin Apps /\ NoCheckout \notin Checkouts /\ MaxWrites \in Nat

VARIABLES
    file,       \* the schema on disk: user_version and what has been created
    rows,       \* the sessions table
    counter,    \* session_revision_counters: 0 without a row
    holder,     \* worktree_leases: the application that holds a session
    present,    \* the checkouts that are Git roots on disk
    pc,         \* how far an application is in opening the catalog
    seen,       \* the version and columns it read before its transaction
    view,       \* _snapshots: the row a shown session was last taken from
    known,      \* _catalog_revisions, and (ghost) the life each was remembered in
    listing,    \* list_sessions results not applied yet
    plan,       \* the group Relink validated, before its transaction
    stamp,      \* ghost: writes so far; a row carries the stamp of its last write
    lives,      \* ghost: how often a session has been forgotten
    unheard     \* ghost: views whose revision moved on without their content

replicaVars == <<file, rows, counter, holder, present, pc, seen, view, known,
                 listing, plan, stamp, lives, unheard>>
rowVars == <<rows, counter, stamp, lives>>
viewVars == <<view, known, listing, plan, unheard>>
openVars == <<file, pc, seen>>

NoRow == [rev |-> 0, stamp |-> 0, life |-> 0, at |-> NoCheckout,
          on |-> FALSE, done |-> FALSE]
NoList == [s \in {} |-> NoRow]
NothingKnown == [rev |-> 0, life |-> 0]
Saved(s) == rows[s] # NoRow
Group(c) == {s \in Ids : Saved(s) /\ rows[s].at = c}
Up(a) == pc[a] = "up"

-----------------------------------------------------------------------------
(* The schema, by what each migration adds.                                *)

Migration == [v \in 1..7 |->
    CASE v = 1 -> {"leases"}
      [] v = 2 -> {"capacity"}
      [] v = 3 -> {"revision", "counters"}
      [] v = 4 -> {"owner_columns"}
      [] v = 5 -> {"worker_columns", "worker_check"}
      [] v = 6 -> {"summary_columns", "progress_check"}
      [] v = 7 -> {"adoption"}]
AddedFrom(v) == UNION {Migration[i] : i \in {j \in 1..7 : j >= v}}
Full == {"sessions", "relink"} \cup AddedFrom(1)
Columns == {"revision", "owner_columns", "worker_columns"}

(* A version 7 file written before the progress check existed is weak, and *)
(* a version 8 file may predate the relink receipts.                       *)
WrittenAt(v) == IF v = 0 THEN {} ELSE Full \ (AddedFrom(v) \cup {"relink"})
Weak(f) == f.version = 7 /\ "progress_check" \notin f.tables

Unread == [version |-> 0, tables |-> {}, weak |-> FALSE]

ReplicaInit ==
    /\ \E v \in Found, weak \in BOOLEAN :
          /\ weak => v = 7
          /\ file = [version |-> v,
                     tables |-> WrittenAt(v) \ (IF weak THEN {"progress_check"} ELSE {})]
          /\ \/ rows = [s \in Ids |-> NoRow]
             \/ \E s \in Ids, c \in Checkouts, on \in BOOLEAN :
                   /\ v > 0
                   /\ rows = [[x \in Ids |-> NoRow] EXCEPT ![s] =
                                [NoRow EXCEPT !.rev = 1, !.at = c, !.on = on]]
          /\ counter = [s \in Ids |->
                          IF "counters" \in file.tables THEN rows[s].rev ELSE 0]
    /\ holder = [s \in Ids |-> NoApp]
    /\ present = Checkouts
    /\ pc = [a \in Apps |-> "closed"]
    /\ seen = [a \in Apps |-> Unread]
    /\ view = [a \in Apps |-> [s \in Ids |-> NoRow]]
    /\ known = [a \in Apps |-> [s \in Ids |-> NothingKnown]]
    /\ listing = [a \in Apps |-> NoList]
    /\ plan = [a \in Apps |-> NoList]
    /\ stamp = 0
    /\ lives = [s \in Ids |-> 0]
    /\ unheard = {}

-----------------------------------------------------------------------------
(* Opening: _initialize.                                                   *)

(* PRAGMA user_version and the weak check are read outside a transaction.  *)
ReadVersion(a) ==
    /\ pc[a] = "closed"
    /\ pc' = [pc EXCEPT ![a] = "read"]
    /\ seen' = [seen EXCEPT ![a] = [version |-> file.version, tables |-> {},
                                    weak |-> Weak(file)]]
    /\ UNCHANGED <<file, rowVars, holder, present, viewVars>>

(* Versions 3, 4 and 5 read the columns before BEGIN IMMEDIATE.            *)
ReadColumns(a) ==
    /\ pc[a] = "read"
    /\ seen[a].version \in 3..5
    /\ pc' = [pc EXCEPT ![a] = "columns"]
    /\ seen' = [seen EXCEPT ![a].tables = file.tables]
    /\ UNCHANGED <<file, rowVars, holder, present, viewVars>>

(* The script for version 1 creates the lease table and is committed when  *)
(* the script for version 2 starts.                                        *)
CreateLeases(a) ==
    /\ pc[a] = "read"
    /\ seen[a].version = 1
    /\ "leases" \notin file.tables
    /\ file' = [version |-> 2, tables |-> file.tables \cup Migration[1]]
    /\ seen' = [seen EXCEPT ![a].version = 2]
    /\ UNCHANGED <<pc, rowVars, holder, present, viewVars>>

(* What the transaction would create again: the tables of a new catalog,   *)
(* the lease table, or a column added since the columns were read.         *)
CreatesAgain(a) ==
    LET v == seen[a].version
    IN  \/ v = 0 /\ "sessions" \in file.tables
        \/ v = 1 /\ "leases" \in file.tables
        \/ v \in 3..5 /\ Migration[v] \cap Columns \cap (file.tables \ seen[a].tables) # {}

(* Counters are taken from the rows, never below what is stored.           *)
Counted == [s \in Ids |->
              IF rows[s].rev > counter[s] THEN rows[s].rev ELSE counter[s]]

(* The schema the transaction leaves: every migration from the version it  *)
(* read up to 8, the repair of a weak version 7, and the relink receipts.  *)
Rebuilt(a) == IF seen[a].weak THEN {"progress_check"} ELSE {}
FaultMigrated(a) ==
    LET v == seen[a].version
    IN  CASE v = 0 -> Full
          [] v \in 1..7 -> file.tables \cup AddedFrom(v) \cup {"relink"} \cup Rebuilt(a)
          [] v = 8 -> file.tables
Migrated(a) ==
    LET v == seen[a].version
    IN  CASE v = 0 -> Full
          [] v \in 1..8 -> file.tables \cup AddedFrom(v) \cup {"relink"} \cup Rebuilt(a)

Recounted(a) == IF seen[a].version \in 1..3 THEN Counted ELSE counter

(* _validate_schema and _validate_records, at the end of the transaction.  *)
HasWholeSchema(tables) == tables = Full
Validates(tables, n) ==
    HasWholeSchema(tables) /\ \A s \in Ids : Saved(s) => n[s] = rows[s].rev

(* Ready for the transaction, from BEGIN IMMEDIATE to the validation that  *)
(* closes it.                                                              *)
Prepared(a) ==
    \/ pc[a] = "read" /\ seen[a].version \notin 3..5
    \/ pc[a] = "columns"
Upgrade(a) ==
    /\ Prepared(a) /\ seen[a].version # 1
    /\ ~CreatesAgain(a)
    /\ Validates(Migrated(a), Recounted(a))
    /\ file' = [version |-> 8, tables |-> Migrated(a)]
    /\ counter' = Recounted(a)
    /\ pc' = [pc EXCEPT ![a] = "open"]
    /\ seen' = [seen EXCEPT ![a] = Unread]
    /\ UNCHANGED <<rows, stamp, lives, holder, present, viewVars>>

(* "Portable Session Catalog is corrupt or unreadable": rolled back.       *)
UpgradeFails(a) ==
    /\ Prepared(a)
    /\ \/ CreatesAgain(a)
       \/ seen[a].version # 1 /\ ~Validates(Migrated(a), Recounted(a))
    /\ pc' = [pc EXCEPT ![a] = "closed"]
    /\ seen' = [seen EXCEPT ![a] = Unread]
    /\ UNCHANGED <<file, rowVars, holder, present, viewVars>>

-----------------------------------------------------------------------------
(* Writes.  Every write of a row takes the next revision and stores it in  *)
(* the counter; ShowOwn is the snapshot the writer takes of its own write. *)

Bumped(r) == [r EXCEPT !.stamp = stamp + 1, !.rev = @ + 1]

WriteAll(new) ==
    /\ stamp < MaxWrites
    /\ stamp' = stamp + 1
    /\ rows' = [s \in Ids |-> IF s \in DOMAIN new THEN new[s] ELSE rows[s]]
    /\ counter' = [s \in Ids |-> IF s \in DOMAIN new THEN new[s].rev ELSE counter[s]]
    /\ UNCHANGED lives
Write(s, r) == WriteAll([x \in {s} |-> r])

(* _remember_catalog_revision: k is what is known, r the row it was read of. *)
RevisionOf(r) == [rev |-> r.rev, life |-> r.life]
Later(k, r) == IF r.rev > k.rev THEN RevisionOf(r) ELSE k

ShowOwn(a, S) ==
    /\ view' = [view EXCEPT ![a] = [s \in Ids |-> IF s \in S THEN rows'[s] ELSE @[s]]]
    /\ known' = [known EXCEPT ![a] =
                   [s \in Ids |-> IF s \in S THEN Later(@[s], rows'[s]) ELSE @[s]]]
    /\ unheard' = unheard \ {<<a, s>> : s \in S}

(* discover_resume_candidates, as the application starts: every session of *)
(* a checkout that is gone becomes unavailable in one transaction.         *)
Gone == {s \in Ids : Saved(s) /\ rows[s].on /\ rows[s].at \notin present}
MarkMissingWorktreesUnavailable(a) ==
    /\ pc[a] = "open"
    /\ pc' = [pc EXCEPT ![a] = "marked"]
    /\ IF Gone = {} THEN UNCHANGED rowVars
       ELSE WriteAll([s \in Gone |-> [Bumped(rows[s]) EXCEPT !.on = FALSE]])
    /\ UNCHANGED <<file, seen, holder, present, viewVars>>

(* The supervisor is constructed from one list of the table.               *)
Construct(a) ==
    /\ pc[a] = "marked"
    /\ pc' = [pc EXCEPT ![a] = "up"]
    /\ view' = [view EXCEPT ![a] = rows]
    /\ known' = [known EXCEPT ![a] = [s \in Ids |-> RevisionOf(rows[s])]]
    /\ unheard' = {p \in unheard : p[1] # a}
    /\ UNCHANGED <<file, seen, rowVars, holder, present, listing, plan>>

Busy(c) == \E s \in Group(c) : holder[s] # NoApp

(* create_session_with_lease: a new row continues the session's counter.   *)
Create(a, s, c) ==
    /\ Up(a) /\ ~Saved(s) /\ c \in present /\ ~Busy(c)
    /\ view[a][s] = NoRow
    /\ Write(s, [rev |-> counter[s] + 1, stamp |-> stamp + 1, life |-> lives[s],
                 at |-> c, on |-> TRUE, done |-> FALSE])
    /\ holder' = [holder EXCEPT ![s] = a]
    /\ ShowOwn(a, {s})
    /\ UNCHANGED <<openVars, present, listing, plan>>

(* rollback_session_start: the worker never started, so the row goes and   *)
(* its counter stays; the revision remembered for it stays as well.        *)
RollbackStart(a, s) ==
    /\ Up(a) /\ holder[s] = a
    /\ rows' = [rows EXCEPT ![s] = NoRow]
    /\ holder' = [holder EXCEPT ![s] = NoApp]
    /\ view' = [view EXCEPT ![a][s] = NoRow]
    /\ UNCHANGED <<openVars, counter, stamp, lives, present, known, listing, plan, unheard>>

(* A write of a session by the application that holds it.                  *)
UpdateSession(a, s, done) ==
    /\ Up(a) /\ holder[s] = a
    /\ Write(s, [Bumped(rows[s]) EXCEPT !.done = done])
    /\ ShowOwn(a, {s})
    /\ UNCHANGED <<openVars, holder, present, listing, plan>>

ReleaseWorktree(a, s) ==
    /\ Up(a) /\ holder[s] = a
    /\ holder' = [holder EXCEPT ![s] = NoApp]
    /\ UNCHANGED <<openVars, rowVars, present, viewVars>>

(* resume_session remembers the revision of the record it has read, then   *)
(* takes the lease and writes ...                                          *)
Resumable(a, s) == Up(a) /\ view[a][s] # NoRow /\ Saved(s) /\ holder[s] # a
Resume(a, s) ==
    /\ Resumable(a, s)
    /\ rows[s].on /\ ~Busy(rows[s].at)
    /\ Write(s, [Bumped(rows[s]) EXCEPT !.done = FALSE])
    /\ holder' = [holder EXCEPT ![s] = a]
    /\ ShowOwn(a, {s})
    /\ UNCHANGED <<openVars, present, listing, plan>>

(* ... or raises: the record is unavailable, held, or its checkout is.     *)
ResumeRefused(a, s) ==
    /\ Resumable(a, s)
    /\ ~rows[s].on \/ Busy(rows[s].at)
    /\ known' = [known EXCEPT ![a][s] = Later(@, rows[s])]
    /\ unheard' = IF view[a][s] = rows[s] THEN unheard ELSE unheard \cup {<<a, s>>}
    /\ UNCHANGED <<openVars, rowVars, holder, present, view, listing, plan>>

(* relink_unavailable_session: the whole project of an unavailable session *)
(* is read and its files are validated before the transaction ...          *)
ValidateRelink(a, s) ==
    /\ Up(a) /\ plan[a] = NoList /\ \A b \in Apps : listing[b] = NoList
    /\ view[a][s] # NoRow /\ holder[s] # a
    /\ Saved(s) /\ ~rows[s].on
    /\ plan' = [plan EXCEPT ![a] = [g \in Group(rows[s].at) |-> rows[g]]]
    /\ UNCHANGED <<openVars, rowVars, holder, present, view, known, listing, unheard>>

(* ... and committed only over rows that still carry the revisions read.   *)
UnchangedSince(p) == \A g \in DOMAIN p : ~rows[g].on /\ rows[g].rev = p[g].rev

Source(p) == (CHOOSE r \in {p[g] : g \in DOMAIN p} : TRUE).at
RelinkRefused(p) ==
    \/ ~UnchangedSince(p)
    \/ Busy(Source(p))
    \/ \E s \in Group(Source(p)) : s \notin DOMAIN p   \* the foreign key

(* A session of the group the application does not show yet raises in the  *)
(* loop that refreshes its view, after the commit: S is what it reached.   *)
Relinked(r, c) == [Bumped(r) EXCEPT !.at = c, !.on = TRUE]
CommitRelink(a, c, S) ==
    LET p == plan[a]
    IN  /\ Up(a) /\ p # NoList /\ c \in present
        /\ ~RelinkRefused(p)
        /\ S \subseteq {g \in DOMAIN p : view[a][g] # NoRow}
        /\ (\A g \in DOMAIN p : view[a][g] # NoRow) => S = DOMAIN p
        /\ WriteAll([g \in DOMAIN p |-> Relinked(rows[g], c)])
        /\ ShowOwn(a, S)
        /\ plan' = [plan EXCEPT ![a] = NoList]
        /\ UNCHANGED <<openVars, holder, present, listing>>
AbandonRelink(a) ==
    /\ plan[a] # NoList
    /\ RelinkRefused(plan[a])
    /\ plan' = [plan EXCEPT ![a] = NoList]
    /\ UNCHANGED <<openVars, rowVars, holder, present, view, known, listing, unheard>>

(* forget_session deletes the row and its counter.                         *)
Forget(a, s) ==
    /\ Up(a) /\ holder[s] = NoApp
    /\ Saved(s) /\ (rows[s].done \/ ~rows[s].on)
    /\ rows' = [rows EXCEPT ![s] = NoRow]
    /\ counter' = [counter EXCEPT ![s] = 0]
    /\ lives' = [lives EXCEPT ![s] = @ + 1]
    /\ view' = [view EXCEPT ![a][s] = NoRow]
    /\ known' = [known EXCEPT ![a][s] = NothingKnown]
    /\ unheard' = unheard \ {<<a, s>>}
    /\ UNCHANGED <<openVars, stamp, holder, present, listing, plan>>

-----------------------------------------------------------------------------
(* Refreshing a view: _synchronize_catalog_sessions.                       *)

(* Bound of the model: a list is read while no other read is unanswered.   *)
Listed(a) ==
    /\ Up(a) /\ \A b \in Apps : listing[b] = NoList /\ plan[b] = NoList
    /\ listing' = [listing EXCEPT ![a] = rows]
    /\ UNCHANGED <<openVars, rowVars, holder, present, view, known, plan, unheard>>

Removable(a, l) ==
    {s \in Ids : known[a][s].rev # 0 /\ l[s] = NoRow /\ holder[s] # a}

FaultNewer(a, l) == {s \in Ids : l[s] # NoRow /\ holder[s] # a}
Newer(a, l) ==
    {s \in Ids : l[s] # NoRow /\ holder[s] # a /\ l[s].rev > known[a][s].rev}

Synchronize(a) ==
    LET l == listing[a]
        out == Removable(a, l)
        new == Newer(a, l)
    IN  /\ Up(a) /\ l # NoList
        /\ view' = [view EXCEPT ![a] = [s \in Ids |->
                      IF s \in new THEN l[s] ELSE IF s \in out THEN NoRow ELSE @[s]]]
        /\ known' = [known EXCEPT ![a] = [s \in Ids |->
                      IF s \in new THEN Later(@[s], l[s])
                      ELSE IF s \in out THEN NothingKnown ELSE @[s]]]
        /\ listing' = [listing EXCEPT ![a] = NoList]
        /\ unheard' = unheard \ {<<a, s>> : s \in new \cup out}
        /\ UNCHANGED <<openVars, rowVars, holder, present, plan>>

(* A checkout is moved away.  Bounds of the model: just before missing ones *)
(* are marked, and one is left; that it was put back is an initial state.  *)
CheckoutChanges(c) ==
    /\ \E a \in Apps : pc[a] = "open"
    /\ present = Checkouts
    /\ present' = present \ {c}
    /\ UNCHANGED <<openVars, rowVars, holder, viewVars>>

Open(a) ==
    \/ ReadVersion(a) \/ ReadColumns(a) \/ CreateLeases(a)
    \/ Upgrade(a) \/ UpgradeFails(a)
    \/ MarkMissingWorktreesUnavailable(a) \/ Construct(a)
Refresh(a) == Listed(a) \/ Synchronize(a)
Operate(a, s) ==
    \/ \E c \in Checkouts : Create(a, s, c)
    \/ RollbackStart(a, s)
    \/ \E done \in BOOLEAN : UpdateSession(a, s, done)
    \/ ReleaseWorktree(a, s)
    \/ Resume(a, s) \/ ResumeRefused(a, s)
    \/ ValidateRelink(a, s) \/ Forget(a, s)
ReplicaNext ==
    \/ \E a \in Apps : Open(a) \/ Refresh(a) \/ AbandonRelink(a)
    \/ \E a \in Apps, s \in Ids : Operate(a, s)
    \/ \E a \in Apps, c \in Checkouts, S \in SUBSET Ids : CommitRelink(a, c, S)
    \/ \E c \in Checkouts : CheckoutChanges(c)

ReplicaSpec == ReplicaInit /\ [][ReplicaNext]_replicaVars

-----------------------------------------------------------------------------
(* Properties.                                                             *)

(* Whatever version is on disk, and whatever an opener read before another *)
(* one upgraded the file or wrote sessions, its transaction either creates *)
(* what is there already, and may be tried again, or leaves a complete     *)
(* version 8 schema and counters the validation accepts: no catalog that   *)
(* a supported version wrote is refused for good.                          *)
EveryVersionOpens ==
    \A a \in Apps :
        Prepared(a) /\ seen[a].version # 1 /\ ~CreatesAgain(a) =>
            Validates(Migrated(a), Recounted(a))

(* No view is stuck: a shown session that is not the stored row knows an   *)
(* older revision, so the next list corrects it, and a shown session that  *)
(* is gone is still known, so the next list removes it, although lists are *)
(* applied late and in any order.  The exceptions are a session this       *)
(* application holds, a Resume that was refused after it had remembered    *)
(* the revision, and a session that was forgotten and has come back while  *)
(* the application still remembers a revision of its earlier life.         *)
NoViewIsStuck ==
    \A a \in Apps, s \in Ids :
        Up(a) => \/ view[a][s] = rows[s]
                 \/ known[a][s].rev < rows[s].rev
                 \/ rows[s] = NoRow /\ known[a][s].rev # 0
                 \/ holder[s] = a \/ <<a, s>> \in unheard
                 \/ Saved(s) /\ known[a][s].life # lives[s]
=============================================================================
