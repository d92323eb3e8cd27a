# Verification of Dev Loop

TLA+ models of the repository's coordination code, the TLC runs that check them
and the TLAPS proofs about them. `PROJECT.json` maps every definition to the
source lines it models, and lists the hazards, the runs, the mutants and the
theorems. Paths below are relative to the repository root unless they name a
file of the Python package `src/devloop` or of `install/bootstrap`, which is
then given by its file name.

    tlasany SessionCatalog.tla
    tlc -workers 2 -config Catalog.cfg MCCatalogAdmission
    tlapm SessionCatalogProofs.tla

Contents: 1 the system, 2 its parts, 3 the modules, 4 the runs with their
bounds and fairness, 5 the mutants, 6 the proofs, 7 what was met while
modelling, 8 what is left.

## 1. The system

The repository ships two programs and an installer.

* **Portable Dev Loop** (`devloop`): a terminal application that runs several
  *sessions* at once. Every session works in its own Git worktree, in a worker
  process of its own. Several Dev Loop applications may be open on one machine;
  they coordinate only through one SQLite file, the *session catalog*. A session
  plans (a conversation that ends in a PRD package) and then runs the package's
  Markdown issues through a configured workflow of agent steps.
* **CodexCLI** (`codexcli`): a separate runner that drives one PRD through an
  approved workflow (planning, approval, development, review, QA, finalisation)
  with an event-sourced run store, talking to a Codex App Server process.
* **The installer** (`install/bootstrap`), which switches and removes releases
  under a journal that survives a crash.

Everything that is hard in Portable Dev Loop happens between actors that share
no memory: the applications, their workers, the agents those start and the
operating system, which ends any of them without telling anybody.

    application 1                      application 2
      UI thread ---intents--+            (same threads)
      capacity scheduler ---+--lock             |
      cleanup reaper -------+  |                |
      reader thread of each    |                |
        worker ----------------+                |
        ^ frames  | commands   |                |
        |         v            v                v
      worker process    session catalog (SQLite, one transaction per method)
        |  planning chat, delivery, Markdown issue runner
        v
      agent processes (Claude Code, Codex) and what they start

## 2. The parts and what makes them correct

`components` in `PROJECT.json` lists the same parts with their source files and
with what is left out of each.

### 2.1 Portable Session Catalog (`portable_session_catalog.py`): `SessionCatalog`, `AdmissionQueue`, `CatalogAdmission`, `CatalogReplica`

* **State**: the tables `saved_projects`, `sessions` (status, checkout,
  availability, the status a missing worktree hid), `worktree_leases` (one owner
  per checkout, optionally bound to a worker process tree, with a heartbeat),
  `execution_requests` (a line ordered by `queue_order`), `execution_claims`
  (slots in use), `catalog_settings` (the machine-wide limit), a revision per
  session, and the schema version of the file.
* **Operations**: create, acquire, bind, renew, release, transfer and reclaim
  leases; request, enqueue and release capacity; set the limit; status and
  summary updates; adopt, mark missing, relink and forget; upgrade the file.
* **Interaction**: called by every application's supervisor and by worker
  processes. Every public method is one `BEGIN IMMEDIATE` transaction, so the
  difficulty is in their *sequences* and in what is read outside of them.
* **Hard**: owners and workers die at any point and heartbeats lapse while both
  are alive; queue positions are re-used; one write path that forgets a column
  makes every reader of the database fail; worktrees disappear; two applications
  upgrade the file at once; lists arrive late at the views they refresh.
* **Correct when**: a worktree has one owner, and changes hands only after the
  death of what worked in it is confirmed; capacity never outlives the lease that
  backs it; admission is first come first served under the limit; waiting ends;
  every stored row can be read back; an unavailable session gains nothing; every
  version of the file opens, and no view stays behind what is stored.

### 2.2 Portable Session Supervisor (`portable_sessions.py`): `SessionSupervisor`, `CatalogReplica`

* **State**, per session: the snapshot (status), the queue entry (a launch or an
  answer that waits for a slot), the running record (worker, generation, pending
  lifecycle command, cleanup confirmation, checkpoint) and the reader threads of
  this worker and of retired ones.
* **Operations**: start, resume, pause, force stop, cancel, provide input,
  shutdown; capacity polling; cleanup retries; one reader per worker.
* **Hard**: one lock serialises them, but it is released in the middle of
  `_terminate_session`, between a reader's decision and its effect and around
  every termination. Frames arrive after Pause or Stop, a reader of a retired
  worker settles a session whose next worker runs already, answers wait for a
  slot while their worker goes away, terminations cannot be confirmed, catalog
  errors strike any thread, the application exits with workers still running.
* **Correct when**: workers at work fit in the limit; no worker is without its
  lease or unknown to the supervisor; a session at rest holds nothing; nothing
  starts by itself; slots come back.

### 2.3 Planning and chat (`interactive_runner.py`, `chat_loop.py`, the delivery part of `cli.py`): `PlanningDelivery`

* **State**: package files in checkouts, the session's row (its checkout, its
  conversation thread, its package pointer), the lease, the locals of a run.
* **Hard**: a transfer copies files between `BEGIN IMMEDIATE` and `COMMIT`,
  fails half way, is interrupted, or fails after its commit; when the catalog
  rolls back, the files follow later, outside the transaction and any lease, and
  another session may have bound them; conversations are restored and fail their
  first turns; two sessions deliver into one worktree.
* **Correct when**: a restored conversation is never silently replaced, what a
  session is bound to keeps its files and its finished issues whatever becomes of
  other sessions' transfers, a saved pointer refers to files that are there, and
  files change only at the hands of who holds the lease.

### 2.4 Markdown issue runner (`cli.py`, `state.py`, `issue_scheduler.py`, `portable_workflow.py`, `usage_limit_retry.py`): `MarkdownRun`

* **State**: one state file (issue statuses, attempts, reservations, retry
  rounds, workflow cursors, the pause), the marks in the issue files, and what the
  process holds in memory.
* **Hard**: state file and issue files are written one after another; a crash or a
  usage limit falls between any two; a rerun resumes from what it finds.
* **Correct when**: a request for changes reaches the coder through every resume,
  an interrupted run is resumed where it stood, and a wait for a usage limit that a
  run goes on with is one of the issue it runs.

### 2.5 Operator verification handoff (`operator_handoff.py`, `verification_*.py`): `OperatorHandoff`

A worker that cannot run a test gate in its sandbox hands it to the session. The
request is durable, what was accepted or failed so far is not; sources change
meanwhile. Correct when a failed gate is not got around.

### 2.6 Execution backends and process trees (`portable_execution_backend/`, `subprocess_utils.py`): `AgentProcess`

The thread of an attempt, a budget watcher per process, the cleanup reaper and
the control reader register, terminate and forget the same trees while processes
hang, ignore signals or leave descendants that hold their output. Correct when a
tree marked stopped is dead (the mark releases the worktree) and attempts end.

### 2.7 Workflow definitions and their editor (`portable_workflow.py`, `workflow_editor.py`): `PortableWorkflow`, `WorkflowEditor`

A graph of steps with outcome routes and input bindings; some thirty commands
edit it, with undo and with recovery of an invalid default. Correct when every
draft they reach can be walked by the next command.

### 2.8 CodexCLI run store (`persistence/run_store.py`): `RunStore`, `RunRegister`

An event log, a snapshot and a lease file, written under a file lock and read
without it. Crashes fall between append and replace and in the middle of a line;
process ids are re-used; a load repairs the log while others write. Correct when
the log stays readable, records extend what is stored, and what a record has
returned only gives way to something newer.

### 2.9 CodexCLI runs (`application/`, `domain/`, `ui/app.py`): `IssueRun`

Analysis, development, review, QA, rework, recovery, retries, finalisation and
cancellation of a package's issues; the process may die between any two events.
Correct when no issue starts before its dependencies, an operation whose fate is
unknown is not replayed, completion means reviewed and verified files, and every
operation comes to rest.

### 2.10 CodexCLI App Server client (`execution/app_server.py`, `application/retry.py`): `AppServerTurn`

One turn in which answers in any order, notifications, approvals, interruption,
deadline and timeout race, and whose server may be replaced. Correct when output
is of the turn that was asked for and completed work is not done again.

### 2.11 Release installer (`install/devloop.sh`, `install/uninstall-devloop.sh`, `transaction.py`, `verify.py`): `ReleaseTransaction`, `Uninstall`, `ReleasePointer`

* **State**, all of it files: the install lock (a directory with an `owner.json`,
  changed under an advisory guard), one candidate directory per transaction, the
  stable bootstrap with its layout and backups, the transaction journal and its
  phase, a Git receipt, manifest and release directory per commit, `current.json`,
  and an uninstall's recovery directory with a journal of its own.
* **Hard**: a crash between any two file operations; a dead installer's lock that
  several reclaim; a journal that lags behind the pointer; adoption outside the
  journalled commands; an uninstall resumed after the user edited files or another
  run came between.
* **Correct when**: launchers always find whole, adopted releases, the pointer
  changes at once, one run at a time works, what was pending can be recovered and
  is, an uninstall can be resumed wherever it stopped and loses nothing of the user's.

### 2.12 Not modelled

* User interfaces (`statusui.py`, `terminal_*.py`, `portable_ui/`): rendering and
  key handling. The lifecycle actions a status offers are modelled (`Offered`).
* The frame protocol's decoder: identity and sequence checks of one reader.
* `devloopv2`, `mcp/sql_diagnostics` (C#), tools, examples, schemas, prompts,
  skills: generated or separate programs that keep no state the loop depends on.

## 3. Modules

| module | role |
|---|---|
| `SessionCatalog` | the catalog's tables and every method that writes them, with the processes, clock and disk around them |
| `AdmissionQueue` | abstract: a first come first served line in front of a bounded room |
| `CatalogAdmission` | `SessionCatalog` refines `AdmissionQueue`; fair polling and liveness of waiting |
| `CatalogReplica` | opening and upgrading the file; revisions and the views applications keep |
| `SessionSupervisor` | one application: intents, scheduler, reaper, readers and workers |
| `PlanningDelivery` | a planning session from its launch to the delivery of its package |
| `MarkdownRun` | the schedule, the workflow cursor and the state file of the issue runner |
| `OperatorHandoff` | the loop of a worker and the test gates it hands to the session |
| `AgentProcess` | one attempt of an agent down to its process trees |
| `PortableWorkflow`, `WorkflowEditor` | the step graph and its rules; the commands that edit it |
| `RunStore`, `RunRegister` | event log, snapshot and lease; abstract: what a record promises |
| `IssueRun` | a CodexCLI run, event by event |
| `AppServerTurn` | one turn through the App Server client |
| `ReleaseTransaction`, `Uninstall` | the installer file operation by file operation; the uninstaller beside it |
| `ReleasePointer` | abstract: a current and a previous release that change at once |
| `MC...` | instances for TLC: values, symmetry, bounds |
| `...Proofs` | theorems (section 6) |

Definitions named `Fault...` are plausible bugs of the definition that follows
them. No specification uses them: they are the mutants that show each property
can fail.

### 3.1 SessionCatalog

`row` joins `sessions` with the checkout of its project (a project's id is the
`uuid5` of its checkout, so the two identify each other) and `projects` is
`saved_projects`. `lease` is indexed by session because
`worktree_leases.session_id` is UNIQUE; that `checkout` is the primary key is a
property here (`LeasesExclusive`), kept by the guards of the methods. `request`,
`order` and `claim` are the two capacity tables, `limit` the setting; `present`
are the checkouts that exist on disk and `alive` the running applications.

One action is one public method. A method that raises rolls its transaction back,
so refusals are not steps. `MarkMissingWorktreesUnavailable(R)` chooses which of
the dead holders it can confirm, since a probe may be inconclusive.
`TransferSessionLease` is `bind_session_checkout` with an owner; the worker that
calls it may outlive its application. The statuses callers pass are the constant
`Reported`, the checkouts a planning prompt may switch to are `Prompted`. The
environment ends applications and worker trees, lets heartbeats lapse whatever is
alive, and removes and restores worktrees.

What can be known about a worker's tree depends on the platform (`TreeKind`): a
POSIX process group or a Windows job can be probed, a lone root process cannot
prove that its descendants ended. This verdict is `ConfirmedDead`.

Left out: revisions (see `CatalogReplica`), receipts, launch settings and text
columns, and database errors (each leaves the tables unchanged).

### 3.2 AdmissionQueue and CatalogAdmission

`AdmissionQueue` knows no owners, leases or numbers: `waiting`, the order
`ahead` in which they stand, `running` and `limit`. The refinement maps
`waiting` to the sessions with a request row, `ahead` to the pairs with a smaller
`queue_order`, `running` to the sessions with a claim. `ahead` is deliberately
not a counter: `queue_order` is `MAX + 1` over the rows that are left, so numbers
are re-used, and the refinement shows that this never lets a session overtake.

### 3.3 CatalogReplica

An application opens the file in steps (`ReadVersion`, `ReadColumns`,
`CreateLeases`, `Upgrade`) because version and columns are read before the
transaction that uses them; `file` is what tables and columns exist. Afterwards it
keeps `view` and `known`, the rows and revisions it shows, and applies lists
(`Listed`, then `Synchronize`) that may be old by then. Every write of a row bumps
the row's revision; Forget deletes the row that counts it, and a session that comes back
starts at 1 again. `lives` counts these lives; a remembered revision carries the life it
was remembered in, which the code does not know and no guard reads. Its `Init`, `Next`
and `Spec` are `ReplicaInit`, `ReplicaNext` and `ReplicaSpec`, and its sessions `Ids`,
because one proof module extends it together with `SessionSupervisor`.

### 3.4 SessionSupervisor

The supervisor's one lock is held from entry to exit of almost every method, so
one method is one action. It is visible half done in four places, and these are
split:

* a launch (`launch[s]`): the worker exists before it is bound to the lease. The
  lock is held, so only the worker, an exit of the application and the reader's
  lock-free termination interleave (`LaunchStarts`, then `LaunchBinds`, or
  `LaunchBreaks` when any call on the way raises);
* `_terminate_session` waits without the lock (`stopping[s]`; `TerminateBegins`,
  `TerminateEnds`);
* a reader decides that an exit was unexpected before it takes the lock to say so
  (`ReaderAtEnd`, then `InterruptSession`);
* a reader terminates its worker before it takes the lock to settle the session
  (`ReaderReaps`, `ReaderSettles`).

`run[s][g]` is worker generation `g` of session `s`: its process (`up`, `exited`,
or `stopped` when the whole tree is confirmed gone), what it is doing, the frame
in its event pipe, what its command pipe holds and its reader thread. `entry[s]`
is `_running[s]`. The catalog appears as what this application sees of it
(`leased`, `bound`, `claimed`, `line`); `CatalogAdmission` justifies that `line` is
a first come first served line. With `OthersCompete` other applications may hold
the free slots at any moment, so any request may be refused.

Frames are modelled by kind. Activity, screens and context change nothing the
properties tell apart; a heartbeat is modelled for the one thing it can do to the
supervisor, raise in the reader thread.

### 3.5 PlanningDelivery

`pc[s]` is where a session's worker stands (menu, branch strategy, prompt, hand
over, transfer, delivery, review), `job[s]` the locals of its run. The transfer is
split where it can stop and where others can come in between: `BeginTransfer` takes the
write lock and the backup, each `CopyFile` is one file, `CommitTransfer` moves lease and
pointer. A copy that fails (`CopyFails`) puts the files back under the lock, in
`prepare` itself. What fails later, up to the `COMMIT`, rolls the catalog back first
(`TransferRollsBack`: the lock is free again) and then, in `__exit__`, removes what was
copied (`UndoFiles`) and puts back what was there (`PutBack`), holding nothing; other
sessions act in between. `Reread` is the read after the `COMMIT`; when it fails
(`RereadFails`), the files go although lease and row have moved. The ghost `astray` holds
the sessions whose bound package such a rollback outside the transaction took or may
still take, until they bind another one. There are two source checkouts, so that two
sessions can deliver at once, and the implementation worktree. Package
files are the set of names present and the issues marked done. Branches in one
checkout are not told apart, a turn of the backend and a Git operation are one
step, and a session is admitted as soon as its checkout is free.

### 3.6 MarkdownRun

`mem` is the state in memory and `disk` the state file; `marked` are the issue
files that say completed. Between two writes the process may crash (`Crash` at any
place), and a new process resumes from `disk` and `marked` alone. One action is one
decision of `cli.py` between two writes: selecting and reserving an issue (normally
or as a blocker's retry), launching a step, what an outcome leads to (`StepEnds`),
marking, charging an attempt, waiting for a limit. The board and the copies of the
state beside the PRD are renderings nothing reads back. `since` is a ghost that
remembers where the last fresh execution of an issue begins.

What the workflow's validation guarantees is an assumption on the constants: some set of
steps `before[s]` has succeeded on every path to `s` and contains what `s` reads
(`InputsAssumption`, from `_is_binding_definitely_available`), a step is a coder or a
reviewer but not both, and the links between issues have no cycle. What the code raises an
uncaught error about is `Refused`, after which the process ends; which of these can
happen is the question of `ResumesUnlessDeadEnd`. (`RunInit`, `RunNext`, `RunSpec` and
the like are named so that one module can extend this one and others.)

### 3.7 OperatorHandoff, AgentProcess

`OperatorHandoff` keeps one request (`record`, `receipt`: durable) and what the
loop remembers (`accepted`, `failed`: lost when the session is interrupted);
sources are a fingerprint that edits switch back and forth (`HandoffInit`, `HandoffNext`,
`HandoffSpec`, so that a module can extend both). `owed` is a ghost: the
gate whose last execution failed.

`AgentProcess` has one caller for each thread that may be inside
`terminate_process` (the attempt, each watcher, the reaper, the control reader), so
that all of them may be terminating one tree at once. A tree is its group leader
and at most one descendant. Time is not counted: a wait with a timeout ends at any
moment, except that a leader sent SIGKILL is gone before the grace period after it.

### 3.8 PortableWorkflow, WorkflowEditor

A workflow is a function from step ids to steps with routes, inputs and settings.
`Loads` and `MayBeApplied` are the validation rules of `portable_workflow.py`. A
menu is the choice it returns, so a command on a step is one action with the choice
as its parameter; the exceptions the code raises are steps that lose the session
(`open = "lost"`). `Unlinked`, `Rewired`, `Inserted` and `Without` are what
`workflow_editor.py` does to the routes and bindings around a change.

### 3.9 RunStore and RunRegister

Every write that can be the last before a crash is a step: a record checks under
the lock (`CheckRecord`), appends its line in pieces (`StartAppend`,
`AllButNewline`, `EndAppend`) and replaces the snapshot (`ReturnRecord`); any of
it may raise (`FailRecord`). A load reads all files (`ReadFiles`) and repairs a torn
log a moment later (`FinishLoad`) - without the lock, so whatever was appended
meanwhile is rewritten. Process ids are re-used (`Boot`).

`RunRegister` knows the state a load would return (`stored`), the last one a record
returned (`acked`), and whether two repairs have crossed (`crossed`). What was
returned only gives way to newer states; until two repairs cross, a record returns
what a load would return and an acknowledged end is final. The exception is the
code's, not the model's: section 7.

### 3.10 IssueRun and AppServerTurn

In `IssueRun` a step ends where the code records an event. `Then` is a record that
may be refused by the store, `op` the item in flight, `turn` what recovery can learn
of a turn (no thread, bound, live, lost, or its end). `doing` is the operation
thread of the interface, whose commands are the actions in `User`.

In `AppServerTurn` the server answers requests in any order, streams notifications
and requests of its own, crashes or sends an oversized line; the client's reader
thread and its waiting thread are separate. Turn 0 belongs to somebody else on the
connection. A transport failure is retried in a new process, which first looks up
the old turn.

### 3.11 ReleasePointer, ReleaseTransaction and Uninstall

A payload is one clone of a commit with its runtime. Manifest, receipt, journal and
pointer each hold fingerprints of it, and here the payload itself: two clones of one
commit are different payloads because their Git directory and runtime differ.

Every durable file operation is one step: a write goes through `_atomic_json`, a move
is one rename, the bootstrap is published asset by asset over whatever stood there
(with a backup each), and the lock is removed in two steps because `_remove_lock`
unlinks a file and then removes a directory. `cmd[i]` is the command run `i` is in and
`at[i]` its next step; checks that precede an operation are evaluated when the command
starts, since only the owner of the lock changes these files. `plan[i]` is the journal
the command holds in memory. `Stop(i)` ends shell and command anywhere, with the
shell's EXIT trap or without it.

`Uninstall` adds a command with a journalled list of removals in a recovery directory
of its own, checkpointed before and after each, `resume-uninstall`, and the user who
edits files in between. `disturbed` is a history variable: the uninstalls whose
installation changed after they planned. The journal a resumed uninstall names is read
by the launcher (`Resumes`) and once more by `begin` under the guard (`Lost`,
`ResumeRefused`): another run may have swept it in between. The sets `Recovery` and so on
are the typing of the recovery directory; the modules assume of them that `None` is in
none and, of commits and assets, that there are finitely many.

Ids of runs stand for their uuids too and are re-used once no file names them, so that
a finite set serves histories of any length. A lock records its owner's process; when
the id is drawn again the old lock's owner becomes `None`, because the code compares
process start times.

`ReleasePointer` knows two variables. `Activate(p)` replaces the current release and
keeps it as previous, `Exchange` is a rollback, `Remove` an uninstall. The refinement
shows that a `commit` that is repeated after a crash does not activate twice.

## 4. Runs

Twelve runs, one for each subject. Every one must hold; there is no run that is
expected to be violated, because a disagreement between the code and its documents
is worked into the property as a named exception and told in section 7.

| run | module, configuration | states | shows |
|---|---|---|---|
| `catalog` | `MCCatalogAdmission`, `Catalog.cfg` | 0.71 M | ownership rows stay coherent and readable, worktrees pass on only after confirmed death, the tables implement the first come first served queue, nobody waits for ever behind living applications |
| `supervisor` | `MCSessionSupervisor`, `Supervisor.cfg` | 0.56 M | at most one worker works, no live tree is without its lease or unknown, every way out gives everything back, the slot of an exited worker comes back |
| `release_switch` | `MCReleaseTransaction`, `ReleaseSwitch.cfg` | 0.60 M | launchers find adopted releases that change at once, what is pending can be recovered and is, an uninstall can be resumed and loses nothing of the user's |
| `run_store` | `MCRunStore`, `RunStore.cfg` | 1.9 M | the log stays readable, records extend what is stored, promises are kept |
| `issue_run` | `MCIssueRun`, `IssueRun.cfg` | 0.77 M | dependencies first, lost operations are not replayed, completion is verified, operations come to rest |
| `markdown_run` | `MCMarkdownRun`, `MarkdownRun.cfg` | 4.9 M | rework reaches the coder, runs are resumed where they stood but for three named dead ends, a wait belongs to the issue that is run |
| `agent_process` | `MCAgentProcess`, `AgentProcess.cfg` | 0.70 M | what is marked stopped is dead, attempts end |
| `workflow_editor` | `MCWorkflowEditor`, `WorkflowEditor.cfg` | 0.22 M | no sequence of commands leaves a draft the next command cannot walk |
| `operator_handoff` | `OperatorHandoff`, `OperatorHandoff.cfg` | 0.05 M | a failed gate is not got around |
| `catalog_replica` | `MCCatalogReplica`, `CatalogReplica.cfg` | 0.75 M | every version opens, no view is stuck |
| `app_server` | `AppServerTurn`, `AppServerTurn.cfg` | 1.8 M | the output is of the turn, a completed turn is recovered |
| `planning_delivery` | `MCPlanningDelivery`, `PlanningDelivery.cfg` | 2.3 M | restored conversations are kept, bound packages keep their files and finished issues |

### Properties and what would break them

* `CapacityBackedByLease`: a slot or a place belongs to the owner of the session's
  lease. Releases, rollbacks, transfers, reclaims and the missing-worktree sweep
  each delete leases on a path of their own.
* `LeasesExclusive`: one lease per worktree, none for a deleted session. Its
  danger is `TransferSessionLease`, which rewrites a lease's key.
* `RowsReadable`: `_session_from_row` rejects a row whose
  `unavailable_from_status` does not match, and one such row makes *every* reader
  of the catalog fail. Seven methods write a status.
* `LeaseFollowsSession`: the worktree a session works in is the one it leased,
  except where a planning prompt may switch it (section 7).
* `TakeoverOnlyFromDead`, `UnavailableGainsNothing`: action properties over every
  step, from issues 0007 and 0008 of the v3 PRD.
* `AdmissionIsFirstComeFirstServed`, `LiveQueueAdvances`: issue 0005.
* `WorkingWithinLimit`: a worker gives its slot up while it asks and must not work
  before it has one again, whatever is paused, answered or lost meanwhile.
* `WorkersHoldTheWorktree`, `LiveWorkersAreTracked`: the retiring reader of one
  worker must not release the lease of the next, nor forget it.
* `RestingHoldsNothing`: nothing leaks on any way out, when cleanups are confirmed.
* `SlotOfALostWorkerReturns`: liveness, with its exceptions named in the formula.
* `ActiveIsAdopted`: relates the pointer to adoptions that other runs of the installer
  made, outside the journalled commands.
* `ActivationIsAtomic`: installs, rollbacks and uninstalls implement `ReleasePointer`.
* `PendingIsRecoverable`: every journal an interruption can leave is one that `recover`
  accepts, with its evidence in the place the phase promises - unless an uninstall has
  begun to take the installation apart (`Removing`) or was resumed over an install that
  came after its plan (`Overrun`, section 7).
* `RecoveryCompletes`: and it is recovered; the further exceptions are rollbacks that
  keep taking the guard and a lock that is torn (section 7).
* `OneDriver`: the lock, with its reclaiming of dead owners, excludes.
* `RemovalIsResumable`: wherever an uninstall stopped, its journal is accepted and its next
  action can be proved and carried out, unless somebody changed the installation or an
  uninstall was carried out over one that had changed (`Overrun`). It relates the
  checkpoint to what is left of every file the plan names.
* `NothingOfTheUserIsLost`: over every step of every run, a file of the user in the
  place of an asset, a capability or a release survives, or its backup does.
* `RestoredThreadIsKept`: section 2.3.
* `BoundPackagesAreKept`: the pointer of one session against the transfers of all others
  in the same checkout. The write lock, the check that a target is prepared already, and
  the lease play together; without the check a second delivery of the package copies the
  source over it and opens its finished issues again.
* `LogStaysReadable`: load refuses a log with a corrupt line that is not the last, so
  no crash, glued line or late repair may produce one.
* `ExtendsWhatIsStored`: `record` compares sequence numbers only; equal numbers must
  mean equal states.
* `KeepsItsPromises`: `RunStore` implements `RunRegister`.
* `DependenciesFirst`: also that no dependency is opened again later.
* `UnknownIsNotReplayed`, `CompletionIsVerified`, `ComesToRest`: section 2.9; the
  second compares the files *now* with what was implemented and reviewed, so an edit,
  a crash or a recovery in between must be noticed.
* `ReworkReachesTheCoder`: relates what a coder is handed to the whole history of the
  issue's attempts, over resumes and retries.
* `ResumesUnlessDeadEnd`: no state left behind, by any crash, pause or end, is one a later
  process refuses, but for three that are named (section 7).
* `WaitsBelongToTheirIssue`: the pause is written with one reservation and cleared after
  another call, and a process may end anywhere between; whether a limit is the first or a
  repeated one, and so whether its reset time is believed, depends on it.
* `AttemptEnds`: liveness of an attempt.
* `StoppedTreesAreDead`: four kinds of threads set and read the mark.
* `DraftCanBeWalked`: the commands walk the primary path and look the selected step up
  without a guard, in the draft and in what Undo brings back.
* `FailedGateIsNotBypassed`: no other gate, edit or interruption helps past it.
* `EveryVersionOpens`: whatever an opener read before another one upgraded the file.
* `NoViewIsStuck`: a shown session that is not the stored row will be corrected. Its last
  exception is a session that has come back while a revision of its earlier life is
  remembered (section 7).
* `OutputIsOfTheTurn`, `CompletedTurnIsRecovered`: section 2.10.

### Bounds

Every bound is a constant named in its module ("bound of the model") or in its MC
module ("bound of the instance").

* *Catalog.* A conflict over a worktree or a slot needs two sessions, and over a lease
  two applications. `MaxMoves = 1` bounds what comes from a person (create, import,
  move, relink, roll back, forget, bind, change the limit); leases, queueing, running,
  deaths, lapses and vanishing worktrees are unbounded. `OrderBound = 3` caps
  `queue_order`; positions are renumbered when the line empties, so the re-use of
  numbers occurs. All safety properties of this run are also proved without bounds.
* *Supervisor.* The race between a retiring reader and the next worker needs two
  generations, contention for the slot two sessions. `MaxIntents = 3` bounds what the
  user asks for (one less once the session with unconfirmed cleanups is in use);
  frames, exits, retries and failures are unbounded. One unread frame per pipe: the
  reader consumes frames in order and a frame that ends a worker is its last.
  `CleanupFails` and `RenewFails` contain one session, so that both kinds meet.
* *Installer.* Two commits make a pointer with a current and a previous release and a
  re-installation of either. Two releases, a journal and a running command name at most
  four ids at once; a third concurrent run only waits or is refused like the second
  (`MaxRunning = 2`). `MaxStops = 2` allows an interruption and one while it is being
  recovered. Installs and rollbacks on a new machine are unbounded; `MaxRuns = 2` bounds
  the runs on an old installation, uninstalls among them.
* *Run store.* Two processes with two process ids, so that an id is re-used; three
  events, three leases, two deaths. The races of a stale load need one of each.
* *CodexCLI run.* Two issues in a chain, one rework, three attempts, and one trouble: a
  death, an edit or a consent. The bound on attempts is above what one trouble causes.
* *Markdown run.* Two issues, one blocked by the other, a coder and a reviewer, two
  passes, one retry round, three disturbances (crash, limit, renewal): a limit of one
  issue, a crash before its wait is cleared and a limit of the next one need three.
* *Attempt.* Two processes (one retry), one event and two reaper attempts. Four threads
  terminating two trees is what makes the state space.
* *Editor.* `MaxEdits = 2` edits over two sessions and a branching default, from which
  every command is enabled; `MaxIds = 7` hands out one id beyond the built-in five and
  the branch.
* *Handoff, replica, turn, delivery.* Two gates of one or two tests and two contents;
  two applications, two sessions and six schema versions, one for each migration path;
  one retry, one fault and two events of a turn; two sessions, two packages, three
  checkouts, one crash and one fault, which is what a rollback and a second session that
  binds its files need. Each has as many actors and failures as the hazard it covers needs.
  The three writes of the replica leave out the longest lives; its properties and
  `ReplicaInv` were also checked with one session and seven writes, and are proved without
  bounds.

Deadlock is checked only for the catalog. Everywhere else the system really stops: the
application or attempt has ended, the bounds are used up and nothing is left to do.

### Fairness

* `CatalogAdmission!Fairness`: every running application's scheduler thread polls
  each of its requests every 50 ms and withdraws one whose poll raises
  (`_run_capacity_scheduler`), and a claim is given up at some point because work
  ends, pauses or asks. Applications may die; the property then says nothing.
* `SessionSupervisor!Fairness`: the supervisor's threads keep running: a launch in
  progress ends, a wait in `_terminate_session` ends (it has a deadline), readers
  step, and the reaper, which retries for ever, succeeds in the end. Nothing is assumed
  of users, of workers (which may hang) or of the application's life.
* `Uninstall!RemovalFairness`: a process that runs takes its next step or is
  interrupted. `MCReleaseTransaction` adds that installs keep being started, as a user
  who retries the update does; nothing is assumed of rollbacks.
* `IssueRun!FairSpec`: the operation thread goes on, and a turn ends, because the
  client gives a silent backend up. The user owes nothing.
* `AgentProcess!FairSpec`: the attempt's thread and the watchers run, deadlines pass,
  a `terminate_process` goes on, and the kernel ends a process that was sent SIGKILL.

## 5. Mutants

Every property of a run has one mutant in `PROJECT.json`: a mapped definition is
replaced by a variant (`Fault...`, or an operator defined before it: a dropped guard, a
column not written, a forgotten row, an off-by-one, a check on the wrong process) and
TLC then finds the property violated in that run.

## 6. Proofs

Eight modules prove theorems, for every number of sessions, worktrees, runs, commits,
processes and so on: for every value of the constants that satisfies the assumptions
of the module they are declared in (`TLC` evaluates those in the runs). The bounds of
the model are constants too, so no theorem depends on their values.

| module | theorem | states |
|---|---|---|
| `SessionCatalogProofs` | `TypeCorrect` | `Spec => []TypeOK` |
| | `CapacityAlwaysBacked` | `Spec => []CapacityBackedByLease` |
| | `LeasesAlwaysExclusive` | `Spec => []LeasesExclusive` |
| | `RowsAlwaysReadable` | `Spec => []RowsReadable` |
| | `TakeoverNeedsDeath` | `Spec => TakeoverOnlyFromDead` |
| | `UnavailableNeverGains` | `Spec => UnavailableGainsNothing` |
| | `LeasesFollowSessions` | `Spec => []LeaseFollowsSession` |
| | `AdmissionRefinesLine` | `Spec => AdmissionIsFirstComeFirstServed` (a refinement) |
| `SessionSupervisorProofs` | `LiveWorkersAlwaysTracked` | `Spec => []LiveWorkersAreTracked` |
| | `WorkersAlwaysHoldTheWorktree` | `Spec => []WorkersHoldTheWorktree` |
| | `WorkingAlwaysWithinLimit` | `Spec => []WorkingWithinLimit` |
| | `OnlyQueuedSessionsAlwaysLaunch` | `Spec => []OnlyQueuedSessionsLaunch` |
| | `EveryVersionAlwaysOpens` | `ReplicaSpec => []EveryVersionOpens` |
| | `ViewsAreNeverStuck` | `ReplicaSpec => []NoViewIsStuck` |
| `AttemptProofs` | `FailedGateHolds` | `HandoffSpec => []FailedGateIsNotBypassed` |
| | `StoppedTreesAreAlwaysDead` | `Spec => []StoppedTreesAreDead` |
| | `RequestsReachTheCoder` | `RunSpec => []ReworkReachesTheCoder` |
| | `RunsAreResumed` | `RunSpec => []ResumesUnlessDeadEnd` |
| | `DependenciesComeFirst` | `RunSpec => []DependenciesFirst` |
| | `WaitsAlwaysBelongToTheirIssue` | `RunSpec => []WaitsBelongToTheirIssue` |
| `ReleaseProofs` | `OneRunDrives` | `RemovalSpec => []OneDriver` |
| | `ActiveReleasesAreAdopted` | `RemovalSpec => []ActiveIsAdopted` |
| | `PointerIsAtomic` | `RemovalSpec => ActivationIsAtomic` (a refinement) |
| | `JournalsCanBeRecovered` | `RemovalSpec => []PendingIsRecoverable` |
| | `UsersDataIsKept` | `RemovalSpec => NothingOfTheUserIsLost` |
| | `RemovalsCanBeResumed` | `RemovalSpec => []RemovalIsResumable` |
| `PlanningProofs` | `PointersAlwaysReferToFiles` | `Spec => []PointersReferToFiles` |
| | `RestoredThreadIsAlwaysKept` | `Spec => RestoredThreadIsKept` |
| | `FilesAlwaysChangeUnderTheLease` | `Spec => FilesChangeUnderTheLease` |
| | `BoundPackagesAreAlwaysKept` | `Spec => BoundPackagesAreKept` |
| `RunStoreProofs` | `LogAlwaysReadable` | `Spec => []LogStaysReadable` |
| | `RecordsAlwaysExtend` | `Spec => []ExtendsWhatIsStored` |
| | `PromisesAlwaysKept` | `Spec => KeepsItsPromises` (a refinement) |
| `IssueRunProofs` | `DependenciesAlwaysFirst` | `Spec => []DependenciesFirst` |
| | `UnknownIsNeverReplayed` | `Spec => []UnknownIsNotReplayed` |
| | `CompletionIsAlwaysVerified` | `Spec => CompletionIsVerified` |
| `TurnProofs` | `OutputIsAlwaysOfTheTurn` | `Spec => []OutputIsOfTheTurn` |
| | `CompletedTurnIsAlwaysRecovered` | `Spec => CompletedTurnIsRecovered` |

### 6.1 SessionCatalogProofs

* *Typing.* `TypeOK` is inductive. The one step that is not routine is
  `NextOrder`, the subquery `COALESCE(MAX(queue_order), 0) + 1`: that a bounded set
  of naturals has a maximum is `BoundedSetHasMaximum`, from well-foundedness of
  `<`. `IsFiniteSet(Sessions)` is not needed for it; the bound is.
* *Ownership.* The three state invariants are proved together as
  `Ownership == CapacityBackedByLease /\ LeasesExclusive /\ RowsReadable`, which is
  inductive relative to `TypeOK`. The three need each other:
  a created session is unsaved, so it has no lease (`LeasesExclusive`) and hence no
  claim or request left behind for `CapacityBackedByLease` to reject; and a row
  rewritten in place stays saved, and its lease with it, because the row was
  readable (`RowsReadable`, lemma `ReadableIsSaved`). Two lemmas carry the common work:
  `TakeLeaseKeepsOwnership` (a session takes a worktree from reclaimed holders) and
  `RewriteRowsKeepsOwnership` (rows change, nothing is owned differently).
* *Action properties.* `LeaseMovesOnlyByTaking` classifies every step: no lease
  changes hands, or one session takes one checkout from holders that are all
  reclaimable. `TakeoverNeedsDeath` and `UnavailableNeverGains` follow.
* *Leases and rows.* `Follows(s)` says what a step may do to a leased session: keep
  lease and row on their checkouts, or put both on one. Every step satisfies it,
  and it preserves `LeaseFollowsSession`; relinking needs `Ownership` as well.
* *Admission.* Every step of the tables is one of the abstract line, or leaves it: a
  request takes the number above all that wait and joins at the end (`EnqueueJoins`), a
  grant takes the one nobody is ahead of (`GrantAdmits`), every deletion of rows is a set of sessions
  leaving (`DropIsLeave`), whoever's they are.

### 6.2 SessionSupervisorProofs

`IInv` is `Types`, the bound on `claimed`, and `Good(s)` for every session. `Good`
has eight parts; the theorems are consequences, but none is inductive alone:

* `EntryIsLast`: `_running` knows the last worker launched, or none;
* `LaunchIsBacked`: a launch in progress has its slot and its lease;
* `WorkerIsHeld`: any generation that may still live is the one `_running` knows, and
  the lease is held for it;
* `ReapedIsStopped`: a reader that has confirmed a tree's end may let go;
* `AskingWorkersWait`, `WaitingIsForAnswer`: a worker that asked does not work before it
  is answered, and there is one answer to a request, queued or sent;
* `WorkIsClaimed`: what works, or will when it reads its answer, has a claim - hence the
  limit, by counting;
* `QueuedIsKnown`: what waits for a launch shows `QUEUED` and has its lease.

`TypeOK` also speaks of the line, which the code filters with `SelectSeq`. That
operator is recursive, so what a filtered line contains cannot be proved; the line's
two conjuncts and `RestingHoldsNothing`, which reads the line, stay with TLC.

*The shared catalog.* The second half of the module is about `CatalogReplica`, with its own
specification and the inductive invariant `ReplicaInv`, from the one assumption that the
file began as a version between 0 and 8:

* `FileIs`: tables and columns are those of the version, a weak version 7 included; once
  anybody has opened the file it is whole; a counter stands where its row does, and at 0
  before there are counters. `OpenersAre`: what an opener read was true of an earlier
  version. A transaction adds what every version from the one it read adds; what it would
  then miss is at most what the file has already (`MigratedIsFull`, from `AddedOnce`: a
  table comes with one version only).
* `RowsAre`: a row belongs to the current life and has a positive revision; who holds a
  session is up.
* `WasRow`: any row seen earlier - shown, or in a list that waits - is of an earlier life, or
  not ahead of the counter and the same as the row if their revisions agree. `Shown` adds
  what is remembered, and the three ways in which it may differ from what is shown.
  Both survive whatever a step may do to a row (`RowMoves`: nothing, the next revision, a
  roll back that keeps the counter, the end of a life), so a step only owes the views it
  refreshes (`StepKeeps`).

The proof changed the property. Its last exception was that the *shown* row is of an
earlier life; that is not enough. With six writes of one session TLC finds a view that
has resumed the session in its new life and still cannot be corrected, because
`_remember_catalog_revision` keeps the larger revision of the earlier one. What counts is
the life of what is *remembered*.

### 6.3 AttemptProofs

The attempt of a step from outside (`OperatorHandoff`) and down to its processes
(`AgentProcess`), and the run that makes attempt after attempt (`MarkdownRun`). The three
share no state and keep their own specifications, `HandoffSpec`, `Spec` and `RunSpec`.

*Gates.* `DebtIsRequested`: the durable request always covers the gate whose last execution
failed, whoever interrupted the step meanwhile, and `WorkerKnowsTheDebt`: the worker is
only asked while what it is told has failed is that gate. A `PASS` is then only
returned without a debt (`PassedWithoutDebt`).

*Process trees.* `StoppedTreesAreDead` says nothing of a tree that nobody has stopped
yet, so it needs to be known where the others are: `NoneIsForgotten`, every tree the
attempt took over is registered or stopped, and no thread - the attempt, its watchers, the
reaper, the control reader, anyone inside `terminate_process` - refers to any other tree.
Then a step is of one of three kinds: what the provider and the system do brings no
dead process back (`ProviderKeeps`); a caller signals a tree it refers to, or lets go of
it when it is dead (`HandlesKeeps`); and only a launch starts a process, in a tree
nobody refers to and that nobody can have stopped. That there is a number left for it is
`RetriesAreBounded`: only an attempt that may be followed by another fails transiently.

*Runs.* A crash may fall anywhere, so everything a later process relies on has to hold of
the *file* at all times: `RunnerInv` says the same of `mem` and of `disk` (`StateIs`), and
a crash, which puts the second in the place of the first, needs no argument. For each
issue `StateIs` says

* what its history has open (`Pending`): `rework` is the last request for changes no coder
  has succeeded after, and that attempt is in the history. This holds while an issue has
  failed or its cursor is on a step; in between, when an execution has been entered and
  not checkpointed, the process holds it (`ExecutionIs`), and if it dies there the next
  one starts the issue afresh (`since`), with nothing open;
* what a step reads is there (`Available`, with the steps `Before` it on every path): at
  the cursor, at the step of a failed issue's last attempt, and so at the destination of a
  request for changes (`NextIsAvailable`);
* that an issue in progress is the reserved one, and that one nobody touched has no
  history and no spent rounds (`Untouched`).

A reservation is of an issue whose needs are completed, with a round to spare, that the
next selection contains or whose file is marked (`ReservationIs`, `Selectable`); this
decides that a projection calls the schedule exhausted under a reservation only in the
dead end of section 7 (`ProjectKeeps`). The operators that rewrite a state are dealt with
once each (`SameIssue`, `ChargeKeepsState`, `EntryKeepsState`, `AttemptKeepsState`, ...),
for any state; the actions then owe their arguments. `First` and the greatest open request
denote something because a set of numbers has a least one (`LeastNumber`). TLC checked
`RunnerInv` on the run's instance and on four more: every outcome for both issues, no
links, no retry rounds, `--single-issue`, a third step that repairs.
`DependenciesFirst` is no property of a run; it follows from the same invariant.

`WaitsAlwaysBelongToTheirIssue` adds `WaitInv`, again of `mem` and of `disk`: a recorded
wait for a limit names the reservation that is held, or an issue that is completed, the
latter only after a crash (`WaitIs`); the process knows that it waited wherever it
schedules or executes; and without a crash no completed reservation outlives the steps
that charge it.

The proof changed a property here as well. It used to say that only the reservation of a
marked issue is refused. With no retry rounds, no links and three disturbances TLC finds
another state, and the attempt to prove `ReservationIs` and `FailureIs` found the rest:
section 7.
The provider is not assumed to obey any signal but SIGKILL.

### 6.4 ReleaseProofs

Over installs, rollbacks and uninstalls together (`RemovalSpec`). `IInv` is `Types`,
`Locking`, `Files` and `PlanIs(i)` for every run. Its heart is that only the run that
holds the lock is past `begin` (`Located`, `LockIs`, and `OneGuard` for the moments when
the lock is taken from a dead owner under the advisory guard); therefore what a run has
read - the journal, the pointer - is still there when it acts on it (`PlanIs`). `Files`
relates pointer, journal, manifests and adoptions: whatever the pointer names or may
come to name through a journal in an activating phase was adopted. The refinement needs
`PlanIs` once more: a `commit` that finds the pointer already switched maps to a stutter.

### 6.5 ReleaseProofs: journals, the user's files and resuming

`JournalsCanBeRecovered` rests on the `IInv` above and on an invariant with two halves,
each checked by TLC on the instance of `ReleaseSwitch` and on a larger one before it was
proved:

    Inv == IInv /\ Shapes /\ (Overrun \/ (RemovalInv /\ (Suspended \/ RecoveryInv)))

* `RecoveryInv` says what a journal promises in each phase (`JournalIs`: until the release
  is placed the candidate, the receipt, the manifest and the place of the release have
  what `Staged` and `Placeable` say; from `release_ready` on the release is verified where
  it belongs; from `switched` on the pointer is the new one) and, for each place of a
  run, what that place has already established (`StepIs`). Neither is inductive
  without the other: a run that writes the next phase has the evidence because of where
  it is, and a run that finds a journal gets its own place from the phase.
* An uninstall takes that evidence away action by action, so `RecoveryInv` fails on the way.
  `Suspended` is what holds instead: some uninstall has a journal of its own that is not
  committed, or has been disturbed. What has to be shown is that an uninstall does not commit
  while a journal of an install stands.
* That is `RemovalInv`. `Progressing`: a committed uninstall has carried out its whole plan,
  and what still stands of an undisturbed one, journal or layout, is listed after its
  checkpoint (`Remains`; a layout that stands is that of an installation). The plan that `Planned` builds lists whatever stands
  (`RemovalPlanIsComplete`). `RemovalAt` says the same for the places between two
  checkpoints.
* The end of an uninstall gives up the lock and sweeps its recovery directory without it,
  while others may begin, even under the same transaction id. `Spent` names
  those ids, and `Identified`, `Unused` and `PendingIdentified` say that nobody who would write
  there again without being noticed works under one.
* `Shapes` tells the runs that install from those that remove, and `FileTypes` types the
  files that the theorems of 6.4 do not need.

Once an uninstall was carried out over an installation that had changed (`Overrun`),
nothing is claimed any more, nor does the property.

`UsersDataIsKept` has no such exception. It needs `IInv`, `Shapes` and an invariant of its
own, `KeepingInv`, which TLC checked first too:

* where a publication replaces files it knows that each is its own or one that it
  recorded, and that what it recorded is linked into `legacy-assets` (`PlacedIs`,
  `SavedIs`). That follows from `ValidPublication`, which is checked once: from there on
  the run has the lock, and the user is assumed not to edit the file being published;
* the evidence of an uninstall names nothing that the user wrote (`EvidenceIs`): it was
  taken of releases that matched their manifests and of a layout that says what a commit
  ships. An action of the plan is carried out only on what the evidence names
  (`ValidAction`), whatever happened since, so it removes nothing else.

It takes one assumption on the constants, `ContentsAssumption`: what a commit ships is not
the content that the user wrote. A file that is byte for byte an asset is the
installer's to remove.

`RemovalsCanBeResumed` adds `ResumeInv` to `Inv`: `Continues(t)` for every recovery
directory and `WorksAt(i)` for every run.

* `PlansAreWell` is about the plan itself, whatever is installed: it names every place
  once (an asset to be removed and one to be restored are one place), stages the
  capability first, and lists the receipt of each release after the release. It is put
  together from lemmas on lists, because `SetToSeq` gives an order nobody knows.
* `Continues(t)`: while nobody disturbed it, what the rest of the plan is about is as the
  evidence says, or a part of it where the current action has begun (`RestIsValid`); the
  capability was staged once anything else is done (`CapabilityIs`); and each release has
  a receipt that is of it, with its Git entries recorded before its removal begins
  (`Witnessed`). `EvidenceIsValid` gives it when the journal is written, `RestIsApart` keeps
  it when an action removes its place: no later action names that place, and a release that
  is half gone can still be proved, because its receipt is removed later.
* `WorksAt(i)`: a run that is past its journal has superseded every other uninstall. So an
  action changes what others planned to remove only after they count as disturbed, and
  the file checked before an action is the one it removes.
* A resumed run whose directory is swept meanwhile plans anew under the same id. The
  attempt to prove the property without the exception of `Overrun` led to the one history
  in which that matters (section 7).

### 6.6 PlanningProofs

`PlaceIs(s)` says for every place of a worker what it may rely on: its checkouts exist,
it holds the lease of the one it works in, the transfer it is inside has the write lock
and a free target, a restored conversation is the catalog's. `Spares` says that the
package a transfer copies, and may yet take away, is one no session is bound to but those
astray and, after the `COMMIT`, the session itself. While the lock is held nobody else
can bind it; afterwards whoever does is astray (`Shuns`, which the actions that bind a
package owe to all others). With it a transfer takes nothing from a bound package:
where it is whole `prepare` copies nothing, and where it is not no sound pointer refers
to it. `BoundPackagesAreAlwaysKept` and `PointersAlwaysReferToFiles` follow, the former
with `FinishedStays` for the issues. `FilesAlwaysChangeUnderTheLease` excepts the merge
after a delivery and the files a rolled-back transfer undoes, because the code looks at
no lease there (section 7).

### 6.7 RunStoreProofs

`IInv` is `TypeOK`, `FilesAre` (the log is regular but for its last line, and the
snapshot is not ahead of what was recorded), `EndStands` (an acknowledged end is what a
load returns, until repairs cross) and `ProcIs(p)` for every process:

* `WriterIs`: whoever records is alone under the lock, ahead of the snapshot and, until
  repairs cross, level with the log it is appending to;
* `RepairIs`, `LoadIs`: the copy a load took is readable, and no longer than what is
  stored until two repairs cross, so putting it back takes away only what no record
  promised;
* `CallerIs`: a caller that holds a state as old as the stored one holds the stored one.

The refinement first shows for each kind of step what `stored`, `acked` and `crossed`
become, in terms of `NoOlder` (`Promises`), and then that this is a step of the register. Logs are sequences, so the
lemmas on `Kept` and `View` rest on the library's `SequenceTheorems`.

### 6.8 IssueRunProofs

`IInv` is `Types`, `DependenciesFirst` and four parts, checked on the run's instance
before they were proved:

* `PlaceIs`: where the operation thread, the active step, the run's status and the cursor
  stand together; in QA the accepted tree is the implemented one, which with the check
  of the workspace in `Verified` gives `CompletionIsVerified`;
* `IssueIs`: the issue under the cursor has begun and nothing that waits for it has, so
  changing its status harms no dependency; an issue that was judged has an archived
  attempt, so a retry numbers its own behind it (`LatestIs`);
* `ItemIs`: an item is in flight only during a turn, or in an attempt that had been
  archived when its turn ended, so nothing becomes unknown between two issues;
* `UnsureIs`: while the cursor is on the attempt whose operation is unknown, nothing runs.
  Once it has left, that attempt is archived, or its issue has begun and was not judged;
  neither the scheduler, which takes issues that have not begun (`NextReadyIs`), nor a
  retry, which takes a number above `Latest`, comes back to it.

Every action is of one of three kinds: the statuses stay or are refreshed (`Stays`), the
issue under the cursor moves (`Moves`), an attempt starts (`Starts`). The facts about
issues are proved once for each kind; an action then owes its kind and what it does to
the thread and the item (`Fits`). `Order` is a sequence of any length: that `NextReady`
denotes an issue is `LeastPosition`, again from well-foundedness.

### 6.9 TurnProofs

The client, its reader and the server talk over queues, so the inductive invariant
is about messages on their way as much as about the three. TLC checked it on the run's
instance and with a second retry before it was proved. No assumption on the constants is
needed.

* `Heeded`: a message is still true when it is read, wherever it waits - in the server's
  output, among the replies or among the notifications. The end of a turn is announced as it
  is stored (`SoundNote`), and a stored end never changes; a request has one reply, and the
  one awaited is of the method that was asked for (`SoundReply`). `MessagesStaySound` is the
  common step: turns are only added and identifiers only grow, so nothing in a queue
  becomes false.
* `Questions`, `Dialogue`: the requests the server may hold fit where the client is, so a
  late `turn/start` cannot start a turn behind the back of a client that has given up on it.
* `NothingIsRedone`: an attempt that is about to ask for a new turn has no completed one
  behind it, or could not read it (`missed`). With `Dialogue` it gives
  `CompletedTurnIsRecovered`: no step but the answer to `turn/start` makes a turn
  (`OnlyAskedTurnsStart`).
* `OutcomeIsStored`: what the client was told of its turn is what the server stores.

### 6.10 Only model-checked

* Liveness (`LiveQueueAdvances`, `SlotOfALostWorkerReturns`, `RecoveryCompletes`,
  `ComesToRest`, `AttemptEnds`): out of the prover's reach.
* `RestingHoldsNothing` and the line in `SessionSupervisor!TypeOK`: `SelectSeq` is
  recursive. `DraftCanBeWalked`: the primary path is defined by recursion, and what a
  recursive function computes for every workflow needs induction over data.

## 7. Met while modelling

What the code does that its documents, comments or tests do not say, or that a reader
should know before relying on a property. Where a property would be broken by it, the
property names the exception.

*Catalog and supervisor*

* A planning prompt that picks another repository moves the session's row and not its
  lease (`interactive_runner.py:341`, `portable_session_catalog.py:1905`), so two sessions
  can execute in one worktree: `LeaseFollowsSession` excepts `Prompted`.
* The request of an application that died stays first in line until somebody acquires
  that very worktree, and nobody behind it is served (`portable_session_catalog.py:2962`).
  `LiveQueueAdvances` is what does hold.
* A worker that finishes, fails or crashes after Pause was sent leaves its session
  `PAUSING` with no reader and no offered way out (`portable_sessions.py:2475`, `:2233`).
* An answer that waits for a slot turns an `INTERRUPTED` session into a `FAILED` one,
  which cannot be resumed (`:1937`); queued for a lost worker it is written to the one
  that replaced it (`:1954`, `Misled`).
* A catalog error while a heartbeat renews the lease ends the reader, and the session
  stays `RUNNING` with its slot (`:2248`; `RenewFails`).
* An application that dies between `START` and the bind leaves a worker running under a
  lease that looks unbound (`:1251`). A session `READY` after its work whose cleanup is
  not confirmed is not retried (`:1987`). A write of an answer to a closed pipe fails the
  session on a path that gives back neither slot nor lease by itself (`:1697`). Pause
  leaves the request row of a dropped answer in the line (`:1332`).
* Relink of a project with one available and one missing session always fails
  (`portable_session_catalog.py:2432`). Forget deletes the row that carried the revision,
  so a re-imported session starts at a lower one: an application that remembers a larger
  revision ignores its lists until the new revisions have passed the old one, even after it
  has resumed the session itself (`portable_sessions.py:2141`). A resume remembers the revision it saw
  and then raises, so that view is never corrected (`portable_sessions.py:919`). A second
  opener of an old file may fail once, because version and columns are read before its
  transaction; it succeeds when tried again.

*Planning and delivery*

* A crash in the middle of the copy leaves an incomplete package that the next run takes
  for a prepared one (`cli.py:2301`). `get_session` failing after `COMMIT` rolls the files
  back although lease and row have moved (`cli.py:2278`; `RereadFails`).
* When something between `prepare` and the end of the `COMMIT` fails, the catalog rolls
  back first (`portable_session_catalog.py:2167`) and the files only later, in `__exit__`
  (`cli.py:2285`), without the write lock and without a lease on the target. A session that
  meanwhile finds the pair prepared (`cli.py:2301`) and binds the checkout loses its files,
  although the class promises an "exact rollback until its catalog commit"
  (`TransferRollsBack`, `UndoFiles`). `BoundPackagesAreKept` and `PointersReferToFiles`
  except exactly these sessions and those of the line above (`astray`).
* The merge after a delivery writes into the source checkout without its lease
  (`cli.py:2498`), so with a third session a chat may be offered a package it did not write.
* The thread of a conversation is durable only after a turn that ended with 0; `codex exec
  resume --last` may take another conversation (`chat_loop.py:124`); a restored thread
  whose resume keeps failing is never replaced.

*Markdown issue runner and agents*

* Three states are refused by every later start; `ResumesUnlessDeadEnd` names them
  (`DeadEnd`). A reservation whose issue file was marked before it was charged is of an
  issue the next run does not select (`cli.py:248`). A schedule may be written as exhausted
  while a reservation is held (`record_dependency_projection`, `state.py:883`) - of an issue
  that is completed, or of any when there are no retry rounds; if the process then ends, a
  later start wants to renew the schedule and raises "Cannot renew retry budget during an
  active attempt." (`cli.py:118`, `state.py:1036`). And a retry has nowhere to go when the
  last attempt asked for changes that lead to no step, or succeeded when the passes were
  spent (`state.py:495-529`).
* A crash between the terminal checkpoint and `complete_scheduling_attempt` executes an
  issue twice for one charge; one between the checkpoint and the mark leaves the file
  unmarked. Outcomes `CANCELLED` and `WAITING_FOR_INPUT` are never produced.
* A crash after an issue was completed and before `clear_run_pause` (`cli.py:816`) leaves
  the issue's wait in the state file. The first limit of the next issue then counts as a
  repeated one and its reset time is not believed, although "A completed issue clears the
  pause; a later limit starts a new wait" (`usage_limit_retry.py:52`).
  `WaitsBelongToTheirIssue` excepts that crash.
* `PASS` while a gate is raised executes a failed gate again and again
  (`operator_handoff.py:184`); the test command has no timeout.
* The checkpoint pause is one flag on the shared budget while active tools are counted per
  process (`checkpoint.py:30`); the reaper may end a healthy tree
  (`subprocess_utils.py:838`); a process launched after a termination's snapshot survives
  it; waiting for a transient retry ignores lifecycle commands; a descendant that left the
  process group and holds standard output blocks the attempt (not modelled).
* The editor raises `KeyError` after certain deletions, for a producer and then its
  consumer (`workflow_editor.py:3567`) and for the target of a `SUCCEEDED` route
  (`DeleteDies`, `RouteDies`); Apply accepts a default without an issue-scoped step.

*CodexCLI*

* A load rewrites a torn log without the lock, so it can take away lines appended
  meanwhile. With one such repair only unpromised states are lost or come back. With two
  loads that both found the log torn, one undoing what the other had yet to repair
  (three processes), an unpromised state can return *over* an acknowledged one, and an
  ended run shows as running: `crossed` in `RunRegister`. A line appended after one
  without a newline is glued to it; the log is then permanently short and the snapshot
  carries the state.
* One blocked issue stops the scheduler although independent issues are ready
  (`development.py:864`); `/resume` restarts an attempt that failed (`:861`); recovery that
  the guide offers raises when the cursor is missing; `/retry` of a blocked issue while
  another is paused in mid-attempt orphans that one; `run_until_pause` has no caller.
* `interrupt_turn` swallows an approval that arrives meanwhile; a completion at the
  deadline is treated as transient; a recovery client has no approval handler; a recovery
  that the transport breaks runs a completed turn again (`missed`).

*Installer*

* A crash between the two steps of `_remove_lock` leaves an install lock that no later run
  can read or reclaim (`transaction.py:373`; `TornLock`). A crash between the Git receipt
  and the first journal write makes that commit impossible to install, because every later
  clone differs from the receipt (`:1069`).
* An uninstall interrupted before its journal leaves a recovery directory that a later
  install with its id cannot make again; an install or rollback that reclaims the lock of
  an interrupted uninstall makes `uninstall-devloop.sh` miss its journal, so that only the
  printed launcher resumes it; a resume started while the first process sweeps recreates
  the directory and keeps the lock.
* An interrupted uninstall that is resumed after another install began carries on with its
  old plan and removes what that install is based on (`:383-401`, `:1748-1843`,
  `:2033-2037`): `Overrun`. It takes four runs; the safety properties were also checked
  with five. With six, after an overrun, the new recovery directory of a run that planned
  under the id of a committed uninstall can be swept by an earlier run of that id, so
  `RemovalIsResumable` excepts it as well.
* A backup of an edited asset stays after an uninstall, and a fresh install then refuses.

## 8. What is left

1. A composition of supervisor and catalog with two applications, for the worker that
   outlives its application before it is bound.
2. Windows process trees in `AgentProcess`; version 1 layouts and
   `begin-legacy-migration` in `ReleaseTransaction`; `save_draft` and the JSON artifacts
   beside the run store; run reviews and replies of the issue runner.
