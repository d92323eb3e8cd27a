-------------------------- MODULE PlanningDelivery --------------------------
(***************************************************************************)
(* A planning session from its launch to the delivery of its package: the  *)
(* start menu, the branch strategy, the chat (interactive_runner.py,       *)
(* chat_loop.py), the publication in the catalog, and the delivery runner  *)
(* that moves lease, pointers and files to an implementation worktree      *)
(* (cli.py, PortableSessionCatalog._transfer_session_lease).               *)
(*                                                                         *)
(* A package is a PRD, an issue index and issue files in a checkout.  A    *)
(* catalog transaction is one step, except the transfer: it copies files   *)
(* between BEGIN IMMEDIATE and COMMIT, and what it writes in the catalog   *)
(* is there from the COMMIT on.  Branches within one checkout are not told *)
(* apart; a session is admitted as soon as its checkout is free.           *)
(***************************************************************************)
EXTENDS Naturals, FiniteSets

CONSTANTS
    Sessions,       \* the sessions of one catalog
    Packages,       \* names of PRD folders
    Issues,         \* the issues of a package
    Old,            \* the package committed before any session began
    MaxThreads,     \* bound of the model: conversations the backend creates
    MaxCrashes,     \* bound of the model: workers that die
    MaxFaults,      \* bound of the model: writes and reads that fail
    NoSession       \* nobody holds the lease or the write lock

ASSUME PlanningAssumption ==
    /\ IsFiniteSet(Sessions) /\ IsFiniteSet(Issues) /\ Old \in Packages
    /\ NoSession \notin Sessions /\ "none" \notin Packages /\ MaxThreads \in Nat

VARIABLES
    disk,       \* package files per checkout
    exists,     \* the checkouts on disk
    row,        \* the sessions table
    lease,      \* worktree_leases: who holds a checkout
    txn,        \* the session inside BEGIN IMMEDIATE
    pc,         \* where a session's worker is
    job,        \* the locals of its run
    minted,     \* backend conversations so far: their names are 1..minted
    crashes, faults,
    astray      \* ghost: sessions that bound a package a rollback outside
                \* the transfer's transaction has taken away or still may

vars == <<disk, exists, row, lease, txn, pc, job, minted,
          crashes, faults, astray>>
files == <<disk, exists>>

Sources == {"source", "other"}           \* the user's own checkouts
Checkouts == Sources \cup {"tree"}        \* and the implementation worktree
Files == {"prd", "index"} \cup Issues
Empty == [has |-> {}, done |-> {}]
Whole == [has |-> Files, done |-> {}]
Pair(c, p) == {"prd", "index"} \subseteq disk[c][p].has
Listed(c, p) == disk[c][p].has \cap Issues
Pending(c, p) == Listed(c, p) \ disk[c][p].done
Candidates(c) == {p \in Packages : Pair(c, p) /\ Pending(c, p) # {}}

NoThread == 0
NoPointer == [at |-> "source", package |-> "none"]
NoRow == [at |-> "none", thread |-> NoThread, settings |-> FALSE,
          pointer |-> NoPointer]
NoJob == [repo |-> "none", thread |-> NoThread, started |-> FALSE,
          failed |-> FALSE, restored |-> FALSE, known |-> {}, package |-> "none",
          to |-> "none", todo |-> {}, backup |-> Empty, copies |-> FALSE,
          selected |-> {}, blocked |-> FALSE]

Init ==
    /\ disk = [c \in Checkouts |-> [p \in Packages |->
                 IF c \in Sources /\ p = Old THEN Whole ELSE Empty]]
    /\ exists = Sources
    /\ row = [s \in Sessions |-> NoRow]
    /\ lease = [c \in Checkouts |-> NoSession]
    /\ txn = NoSession
    /\ pc = [s \in Sessions |-> "off"]
    /\ job = [s \in Sessions |-> NoJob]
    /\ minted = 0 /\ crashes = 0 /\ faults = 0
    /\ astray = {}

-----------------------------------------------------------------------------
(* Steps shared by the actions.                                            *)

Goto(s, l) == pc' = [pc EXCEPT ![s] = l]

(* The worker ends and the supervisor releases what the session held.      *)
Freed(s) == [c \in Checkouts |-> IF lease[c] = s THEN NoSession ELSE lease[c]]
Ends(s) ==
    /\ Goto(s, "off")
    /\ lease' = Freed(s)
    /\ job' = [job EXCEPT ![s] = NoJob]

Locked == txn # NoSession

(* The lease the session asks for belongs to another session.              *)
Conflict(s, c) == lease[c] \notin {NoSession, s}
Moved(s, c) == [d \in Checkouts |-> IF d = c THEN s ELSE Freed(s)[d]]

(* `git worktree add` materialises what the branch of checkout r has       *)
(* committed: the old package, and others if somebody has committed them.  *)
CheckOut(r, c) ==
    /\ exists' = exists \cup {c}
    /\ IF c \in exists THEN UNCHANGED disk
       ELSE \E committed \in SUBSET Packages :
               /\ Old \in committed
               /\ disk' = [disk EXCEPT ![c] = [p \in Packages |->
                             IF p \in committed THEN disk[r][p] ELSE Empty]]

(* What the session's transfer is about.                                   *)
Target(s) == [at |-> job[s].to, package |-> job[s].package]

(* Another session's failed transfer has yet to undo the files it left     *)
(* there, with neither the write lock nor a lease.                         *)
Threatened(s, pointer) ==
    \E z \in Sessions \ {s} :
        pc[z] \in {"undo", "restore"} /\ job[z].copies /\ Target(z) = pointer
Binds(s, pointer) ==
    astray' = IF Threatened(s, pointer) THEN astray \cup {s} ELSE astray \ {s}

(* publish_workflow: pointers in, conversation and settings out.           *)
Publishes(s, p) ==
    /\ Pair(job[s].repo, p)
    /\ ~Locked
    /\ row' = [row EXCEPT ![s] =
                 [@ EXCEPT !.pointer = [at |-> job[s].repo, package |-> p],
                           !.thread = NoThread, !.settings = FALSE]]
    /\ job' = [job EXCEPT ![s] = [NoJob EXCEPT !.repo = job[s].repo, !.package = p]]
    /\ Binds(s, [at |-> job[s].repo, package |-> p])
    /\ Goto(s, "handoff")

-----------------------------------------------------------------------------
(* Launch and start menu.                                                  *)

(* A published session is launched with --prd, another one with --repo.    *)
Launch(s, c) ==
    /\ pc[s] = "off" /\ c \in exists /\ lease[c] = NoSession /\ ~Locked
    /\ row[s] # NoRow => c = row[s].at
    /\ lease' = [lease EXCEPT ![c] = s]
    /\ row' = [row EXCEPT ![s].at = c]
    /\ job' = [job EXCEPT ![s] =
                 [NoJob EXCEPT !.repo = c, !.thread = row[s].thread,
                               !.started = row[s].thread # NoThread,
                               !.restored = row[s].thread # NoThread,
                               !.package = row[s].pointer.package]]
    /\ Goto(s, IF row[s] = NoRow THEN "menu"
               ELSE IF row[s].pointer = NoPointer THEN "bind" ELSE "republish")
    /\ UNCHANGED <<files, txn, minted, crashes, faults, astray>>

(* The PRD of the arguments is there and has an issue index.               *)
Resolves(s) == Pair(job[s].repo, job[s].package)

Republish(s) ==
    /\ pc[s] = "republish"
    /\ IF Resolves(s)
       THEN Publishes(s, job[s].package) /\ UNCHANGED lease
       ELSE Ends(s) /\ UNCHANGED <<row, astray>>
    /\ UNCHANGED <<files, txn, minted, crashes, faults>>

ResumeUnfinished(s) ==
    /\ pc[s] \in {"menu", "prompt"}
    /\ \E p \in Candidates(job[s].repo) : Publishes(s, p)
    /\ UNCHANGED <<files, lease, txn, minted, crashes, faults>>

(* What the checkout already holds when the chat begins: the probe offers  *)
(* a package that is not in this snapshot or has changed since.            *)
Snapshot(c) == {p \in Packages : Pair(c, p)}

(* apply_branch_strategy: stay, or create or reuse the worktree.           *)
BranchStrategy(s) ==
    /\ pc[s] = "menu"
    /\ \E c \in {job[s].repo, "tree"} :
          /\ CheckOut(job[s].repo, c)
          /\ job' = [job EXCEPT ![s].repo = c]
    /\ Goto(s, "bind")
    /\ UNCHANGED <<row, lease, txn, minted, crashes, faults, astray>>

(* bind_active_catalog_session_checkout, then snapshot_artifacts.          *)
Baseline(s) == Snapshot(job[s].repo)
BindPlanning(s) ==
    /\ pc[s] = "bind" /\ ~Locked
    /\ LET c == job[s].repo IN
       IF Conflict(s, c)
       THEN Ends(s) /\ UNCHANGED row
       ELSE /\ job' = [job EXCEPT ![s].known = Baseline(s)]
            /\ lease' = Moved(s, c)
            /\ row' = [row EXCEPT ![s].at = c]
            /\ Goto(s, "preflight")
    /\ UNCHANGED <<files, txn, minted, crashes, faults, astray>>

(* preflight_analysis_workflow authorises the step; its settings are saved *)
(* before the first turn.                                                  *)
Preflight(s) ==
    /\ pc[s] = "preflight" /\ ~Locked
    /\ row' = [row EXCEPT ![s].settings = TRUE]
    /\ Goto(s, "prompt")
    /\ UNCHANGED <<files, lease, txn, job, minted, crashes, faults, astray>>

-----------------------------------------------------------------------------
(* The chat: run_planning_chat.                                            *)

(* A turn starts a conversation of its own, or resumes one.  A restored    *)
(* conversation is never replaced, whatever its turns do.                  *)
FaultFresh(j) == ~j.started \/ j.failed
Fresh(j) == ~j.started \/ (j.failed /\ ~j.restored)

(* The identity parsed from a turn that ended well: `resume --last` takes  *)
(* any conversation, and a turn may print no identity.                     *)
Parsed(j) ==
    IF Fresh(j) THEN {NoThread} \cup (IF minted < MaxThreads THEN {minted + 1} ELSE {})
    ELSE IF j.thread # NoThread THEN {j.thread} ELSE 0..minted

(* What the agent of a turn may leave behind: nothing, a package that is   *)
(* not complete yet (the PRD stands for it), or the rest of one.           *)
Written == {{}, {"prd"}, {"prd", "index"} \cup Issues}
Adds(c, p, w) ==
    /\ disk' = [disk EXCEPT ![c][p].has = @ \cup w]
    /\ UNCHANGED exists

(* A turn that ends well: its identity is saved when it has one.           *)
Heard(s, t, known) ==
    /\ ~Locked
    /\ minted' = IF t > minted THEN t ELSE minted
    /\ row' = [row EXCEPT ![s].thread = IF t = NoThread THEN @ ELSE t]
    /\ job' = [job EXCEPT ![s] = [@ EXCEPT !.thread = t, !.started = TRUE,
                                          !.failed = FALSE, !.known = known]]

Turn(s) ==
    /\ pc[s] = "prompt"
    /\ \E p \in Packages, w \in Written :
          LET known == IF w = {} THEN job[s].known ELSE job[s].known \ {p} IN
          /\ w = {} => p = Old
          /\ Adds(job[s].repo, p, w)
          /\ \/ \E t \in Parsed(job[s]) : Heard(s, t, known)
             \/ /\ job' = [job EXCEPT ![s] = [@ EXCEPT !.failed = TRUE, !.known = known]]
                /\ UNCHANGED <<minted, row>>
    /\ Goto(s, "probe")
    /\ UNCHANGED <<lease, txn, crashes, faults, astray>>

Offered(s) == {p \in Packages : Pair(job[s].repo, p) /\ p \notin job[s].known}

Probe(s) ==
    /\ pc[s] = "probe"
    /\ \/ \E p \in Offered(s) : Publishes(s, p)
       \/ /\ Offered(s) = {}
          /\ Goto(s, "prompt")
          /\ UNCHANGED <<row, job, astray>>
    /\ UNCHANGED <<files, lease, txn, minted, crashes, faults>>

(* /done with nothing to offer asks for a path.                            *)
DoneByHand(s) ==
    /\ pc[s] = "prompt" /\ Offered(s) = {}
    /\ \E p \in Packages : Publishes(s, p)
    /\ UNCHANGED <<files, lease, txn, minted, crashes, faults>>

Quit(s) ==
    /\ pc[s] \in {"menu", "preflight", "prompt", "handoff", "review"}
    /\ Ends(s)
    /\ UNCHANGED <<files, row, txn, minted, crashes, faults, astray>>

-----------------------------------------------------------------------------
(* Delivery: _run_devloop_attempt.                                         *)

(* Issues are selected where the arguments point, before the worktree is   *)
(* chosen; a rerun starts here again with the same arguments.              *)
StartDelivery(s) ==
    /\ pc[s] \in {"handoff", "rerun"}
    /\ LET j == job[s] todo == Pending(j.repo, j.package) IN
       IF ~Pair(j.repo, j.package) \/ todo = {}
       THEN Ends(s) /\ UNCHANGED files
       ELSE /\ \E c \in {j.repo, "tree"} :
                  /\ pc[s] = "rerun" => c = j.to
                  /\ CheckOut(j.repo, c)
                  /\ job' = [job EXCEPT ![s].selected = todo, ![s].to = c,
                                        ![s].blocked = FALSE]
            /\ Goto(s, "transfer")
            /\ UNCHANGED lease
    /\ UNCHANGED <<row, txn, minted, crashes, faults, astray>>

(* PlanningArtifactTransfer.prepare leaves a target that has both a PRD    *)
(* and an index as it is.                                                  *)
FaultPrepared(j) == j.to = j.repo
Prepared(j) == j.to = j.repo \/ Pair(j.to, j.package)

(* BEGIN IMMEDIATE, the lease and the snapshot prepare takes.              *)
BeginTransfer(s) ==
    /\ pc[s] = "transfer" /\ ~Locked
    /\ LET j == job[s] IN
       IF Conflict(s, j.to)
       THEN Ends(s) /\ UNCHANGED txn
       ELSE /\ txn' = s
            /\ job' = [job EXCEPT ![s].backup = disk[j.to][j.package],
                         ![s].copies = ~Prepared(j),
                         ![s].todo = IF Prepared(j) THEN {}
                                     ELSE disk[j.repo][j.package].has]
            /\ Goto(s, "copy")
            /\ UNCHANGED lease
    /\ UNCHANGED <<files, row, minted, crashes, faults, astray>>

(* The target with the files S as the source has them.                     *)
Copied(target, source, S) ==
    [has |-> target.has \cup S,
     done |-> (target.done \ S) \cup (source.done \cap S)]

CopyFile(s, f) ==
    /\ pc[s] = "copy" /\ f \in job[s].todo
    /\ LET j == job[s] IN
       /\ disk' = [disk EXCEPT ![j.to][j.package] =
                     Copied(@, disk[j.repo][j.package], {f})]
    /\ job' = [job EXCEPT ![s].todo = @ \ {f}]
    /\ UNCHANGED <<exists, row, lease, txn, pc, minted, crashes, faults, astray>>

(* prepare() fails: it puts the files back itself, inside the transaction, *)
(* which its exception then rolls back.                                    *)
RestoresUnderLock(s) ==
    disk' = [disk EXCEPT ![job[s].to][job[s].package] = job[s].backup]
CopyFails(s) ==
    /\ pc[s] = "copy" /\ job[s].todo # {} /\ faults < MaxFaults
    /\ RestoresUnderLock(s)
    /\ txn' = NoSession
    /\ faults' = faults + 1
    /\ Ends(s)
    /\ UNCHANGED <<exists, row, minted, crashes, astray>>

(* What comes after prepare() fails, or the COMMIT does: the catalog is    *)
(* as it was and unlocked, the files are still there.                      *)
TransferRollsBack(s) ==
    /\ pc[s] = "copy" /\ job[s].todo = {}
    /\ \/ ~Pair(job[s].to, job[s].package) /\ UNCHANGED faults
       \/ faults < MaxFaults /\ faults' = faults + 1
    /\ txn' = NoSession
    /\ Goto(s, "undo")
    /\ UNCHANGED <<files, row, lease, job, minted, crashes, astray>>

(* Then __exit__ removes what was copied and puts back what was there,     *)
(* holding nothing on the target.                                          *)
UndoFiles(s) ==
    /\ pc[s] = "undo"
    /\ IF job[s].copies
       THEN /\ disk' = [disk EXCEPT ![job[s].to][job[s].package] = Empty]
            /\ Goto(s, "restore")
            /\ UNCHANGED <<lease, job>>
       ELSE Ends(s) /\ UNCHANGED disk
    /\ UNCHANGED <<exists, row, txn, minted, crashes, faults, astray>>

PutBack(s) ==
    /\ pc[s] = "restore"
    /\ LET old == job[s].backup IN
       disk' = [disk EXCEPT ![job[s].to][job[s].package] = Copied(@, old, old.has)]
    /\ Ends(s)
    /\ UNCHANGED <<exists, row, txn, minted, crashes, faults, astray>>

BoundRow(s) == [row[s] EXCEPT !.at = job[s].to, !.pointer = Target(s)]

CommitTransfer(s) ==
    /\ pc[s] = "copy" /\ job[s].todo = {}
    /\ Pair(job[s].to, job[s].package)
    /\ txn' = NoSession
    /\ lease' = Moved(s, job[s].to)
    /\ row' = [row EXCEPT ![s] = BoundRow(s)]
    /\ Binds(s, Target(s))
    /\ Goto(s, "reread")
    /\ UNCHANGED <<files, job, minted, crashes, faults>>

(* get_session after the COMMIT; only then are the files kept.  Issues     *)
(* the target already finished are dropped.                                *)
Reread(s) ==
    /\ pc[s] = "reread"
    /\ LET j == job[s] left == j.selected \ disk[j.to][j.package].done IN
       IF left = {} THEN Ends(s)
       ELSE /\ job' = [job EXCEPT ![s] = [@ EXCEPT !.selected = left,
                                                 !.backup = Empty, !.copies = FALSE]]
            /\ Goto(s, "run")
            /\ UNCHANGED lease
    /\ UNCHANGED <<files, row, txn, minted, crashes, faults, astray>>

(* The read fails: __exit__ takes the files of the bound checkout, under   *)
(* the lease the COMMIT has moved there.                                   *)
RereadFails(s) ==
    /\ pc[s] = "reread" /\ faults < MaxFaults
    /\ IF job[s].copies
       THEN /\ disk' = [disk EXCEPT ![job[s].to][job[s].package] = job[s].backup]
            /\ astray' = astray \cup {s}
       ELSE UNCHANGED <<disk, astray>>
    /\ faults' = faults + 1
    /\ Ends(s)
    /\ UNCHANGED <<exists, row, txn, minted, crashes>>

CompleteIssue(s, i) ==
    /\ pc[s] = "run" /\ i \in job[s].selected
    /\ i \in Listed(job[s].to, job[s].package)
    /\ disk' = [disk EXCEPT ![job[s].to][job[s].package].done = @ \cup {i}]
    /\ job' = [job EXCEPT ![s].selected = @ \ {i}]
    /\ UNCHANGED <<exists, row, lease, txn, pc, minted, crashes, faults, astray>>

IssueFails(s, i) ==
    /\ pc[s] = "run" /\ i \in job[s].selected
    /\ job' = [job EXCEPT ![s].selected = @ \ {i}, ![s].blocked = TRUE]
    /\ UNCHANGED <<files, row, lease, txn, pc, minted, crashes, faults, astray>>

(* The run ends: a merge is offered after success, a rerun after failure.  *)
FinishRun(s) ==
    /\ pc[s] = "run" /\ job[s].selected = {}
    /\ Goto(s, "review")
    /\ UNCHANGED <<files, row, lease, txn, job, minted, crashes, faults, astray>>

Rerun(s) ==
    /\ pc[s] = "review" /\ job[s].blocked
    /\ Goto(s, "rerun")
    /\ UNCHANGED <<files, row, lease, txn, job, minted, crashes, faults, astray>>

(* merge_implementation_branch works in the source checkout, whose lease   *)
(* the session gave up when it moved.  Both checkouts are clean; a merge   *)
(* that is skipped or fails is Quit.                                       *)
Join(a, b) == [has |-> a.has \cup b.has, done |-> a.done \cup b.done]
MergeFollowup(s) ==
    /\ pc[s] = "review" /\ ~job[s].blocked
    /\ job[s].to # job[s].repo
    /\ disk' = [disk EXCEPT ![job[s].repo] =
                  [p \in Packages |-> Join(@[p], disk[job[s].to][p])]]
    /\ Ends(s)
    /\ UNCHANGED <<exists, row, txn, minted, crashes, faults, astray>>

-----------------------------------------------------------------------------
(* A worker may die at any point.                                          *)

Crash(s) ==
    /\ pc[s] # "off" /\ crashes < MaxCrashes
    /\ crashes' = crashes + 1
    /\ txn' = IF txn = s THEN NoSession ELSE txn
    /\ Ends(s)
    /\ UNCHANGED <<files, row, minted, faults, astray>>

Next ==
    \E s \in Sessions :
      \/ \E c \in Checkouts : Launch(s, c)
      \/ Republish(s) \/ ResumeUnfinished(s) \/ BranchStrategy(s)
      \/ BindPlanning(s) \/ Preflight(s) \/ Turn(s) \/ Probe(s)
      \/ DoneByHand(s) \/ Quit(s) \/ StartDelivery(s) \/ BeginTransfer(s)
      \/ \E f \in Files : CopyFile(s, f)
      \/ CopyFails(s) \/ TransferRollsBack(s) \/ UndoFiles(s) \/ PutBack(s)
      \/ CommitTransfer(s) \/ Reread(s) \/ RereadFails(s)
      \/ \E i \in Issues : CompleteIssue(s, i) \/ IssueFails(s, i)
      \/ FinishRun(s) \/ Rerun(s) \/ MergeFollowup(s) \/ Crash(s)

Spec == Init /\ [][Next]_vars

-----------------------------------------------------------------------------
(* Properties.                                                             *)

(* A conversation restored from the catalog is durable user state: failed  *)
(* turns, retries and crashes never replace it; only the publication of    *)
(* the package ends it (chat_loop.py, run_planning_chat).                  *)
RestoredThreadIsKept ==
    [][\A s \in Sessions :
          (pc[s] # "off" /\ job[s].restored) =>
             \/ row'[s].thread = row[s].thread
             \/ row'[s].thread = NoThread /\ row'[s].pointer # NoPointer]_<<row, pc, job>>

(* A saved workflow pointer refers to a PRD and an index that are there,   *)
(* through copies that fail, transfers that are rolled back or die and the *)
(* work of other sessions in the checkout (_transfer_session_lease), where *)
(* no rollback outside the transaction could reach it (astray).            *)
PointersReferToFiles ==
    \A s \in Sessions \ astray :
       row[s].pointer # NoPointer =>
          Pair(row[s].pointer.at, row[s].pointer.package)

(* What a session is bound to stays with it: nobody's transfer, failed or  *)
(* not, takes away its package or reopens an issue finished in it          *)
(* (PlanningArtifactTransfer: "exact rollback until its catalog commit").  *)
BoundPackagesAreKept ==
    [][\A s \in Sessions \ (astray \cup astray') :
          LET q == row[s].pointer IN
          q # NoPointer /\ row'[s].pointer = q =>
             /\ Pair(q.at, q.package)'
             /\ disk[q.at][q.package].done \subseteq disk'[q.at][q.package].done
      ]_<<disk, row>>

(* The package files of a checkout that exists change only at the hands of *)
(* the session that holds its lease or is moving it there.  The merge      *)
(* after a delivery is an exception (cli.py, merge_implementation_branch), *)
(* and so are the files a rolled-back transfer undoes (__exit__).          *)
Acts(s) == \A z \in Sessions \ {s} : job'[z] = job[z] /\ pc'[z] = pc[z]
FilesChangeUnderTheLease ==
    [][\A c \in exists : disk'[c] # disk[c] =>
          \E s \in Sessions :
             /\ Acts(s)
             /\ \/ lease[c] = s
                \/ txn = s /\ lease[c] = NoSession
                \/ pc[s] \in {"undo", "restore"} /\ c = job[s].to /\ job[s].copies
                \/ pc[s] = "review" /\ c = job[s].repo]_<<disk, pc, job>>

=============================================================================
