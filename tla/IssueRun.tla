------------------------------ MODULE IssueRun ------------------------------
(***************************************************************************)
(* A CodexCLI Workflow Run in one process: application/analysis.py,        *)
(* development.py, review_qa.py, scheduler.py, recovery.py, control.py and *)
(* finalization.py, driven by the operations ui/app.py starts.  A step     *)
(* ends where the code records an event; the process may die between any   *)
(* two.  How an event becomes durable is RunStore's subject: here a record *)
(* either happens or is refused.                                           *)
(*                                                                         *)
(* A turn is known by what recovery can learn of it: "none" (no thread),   *)
(* "bound" (a thread, no turn), "live" (started), "lost" (interrupted or   *)
(* failed), or the outcome it ended with.                                  *)
(***************************************************************************)
EXTENDS Integers, Sequences, FiniteSetsExt

CONSTANTS
    Order,         \* the issues of the package, in its order
    Packages,      \* the dependency functions a package may state
    MaxRework,     \* max_rework_cycles_per_issue of the workflow
    Trees,         \* states the workspace's files can be in
    None,          \* absent
    MaxAttempts,   \* bound of the model: attempts of one issue
    MaxCrashes,    \* bound of the model: deaths of the process
    MaxEdits,      \* bound of the model: edits by somebody else
    MaxConsents    \* bound of the model: /retry and /reset

Issues == {Order[i] : i \in 1..Len(Order)}

Attempt == [issue : Issues, number : 1..MaxAttempts]

ASSUME PackageAssumption ==
    Order \in Seq(Issues) /\ \A d \in Packages : d \in [Issues -> SUBSET Issues]
ASSUME NoneAssumption == None \notin Attempt
ASSUME BoundAssumption ==
    /\ MaxRework \in Nat /\ MaxAttempts \in Nat \ {0} /\ MaxCrashes \in Nat
    /\ MaxEdits \in Nat /\ MaxConsents \in Nat

VARIABLES
    deps,       \* the accepted package
    step,       \* active_step
    run,        \* run_status
    halt,       \* step_status and outcome
    op,         \* operation: an item of the turn in flight
    talk,       \* analysis: nothing, a clarification asked, a draft
    issue,      \* status of each issue
    cursor,     \* development cursor: the issue and its attempt
    impl,       \* the tree of the cursor's implementation result
    accepted,   \* the tree of the cursor's accepted review
    turn,       \* the turn of each phase, None when it has no cursor
    archive,    \* attempts: how each ended
    hash,       \* workspace_state_hash
    lease,      \* lease.json is the snapshot's
    tree,       \* the workspace's files
    doing,      \* what the operation thread is about to do or doing
    stop,       \* stop requests of the two services
    cancelling, \* a cancellation waits for the operation to end
    shown,      \* the interface has an active run
    unsure,     \* history: the attempt whose operation became unknown
    crashes, edits, consents

savedVars == <<deps, step, run, halt, op, talk, issue, cursor, impl, accepted, turn, archive, hash>>
counters == <<crashes, edits, consents>>
vars == <<savedVars, lease, tree, doing, stop, cancelling, shown, unsure, counters>>

Phases == {"analysis", "development", "code-review", "qa"}
Ends == {"SUCCEEDED", "CHANGES_REQUESTED", "BLOCKED"}
Statuses == {"PENDING", "READY", "IN_DEVELOPMENT", "IN_REVIEW", "IN_QA",
             "CHANGES_REQUESTED", "BLOCKED", "FAILED", "COMPLETED"}
Terminal == run \in {"COMPLETED", "CANCELLED"}
Service(s) == IF s = "development" THEN "development" ELSE "verification"

TypeOK ==
    /\ deps \in Packages
    /\ step \in Phases \cup {"workspace", "finalization"}
    /\ run \in {"RUNNING", "PAUSED", "AWAITING_USER", "COMPLETED", "CANCELLED"}
    /\ halt \in {"no", "ask", "blocked", "failed"}
    /\ op \in {"idle", "running", "unknown"}
    /\ run # "RUNNING" => op # "running"
    /\ talk \in {"none", "question", "draft"}
    /\ issue \in [Issues -> Statuses]
    /\ cursor \in Attempt \cup {None}
    /\ impl \in Trees \cup {None} /\ accepted \in Trees \cup {None}
    /\ turn \in [Phases -> {"none", "bound", "live", "lost"} \cup Ends \cup {None}]
    /\ archive \in [Issues -> [1..MaxAttempts ->
                        {"open", "CHANGES_REQUESTED", "BLOCKED", "FAILED", "COMPLETED"}]]
    /\ hash \in Trees /\ tree \in Trees
    /\ lease \in BOOLEAN /\ cancelling \in BOOLEAN /\ shown \in BOOLEAN
    /\ doing \in {"idle", "starting", "manifest", "develop", "review", "qa", "advance",
                  "drain", "recover", "turn", "cancel"}
    /\ doing = "turn" => step \in Phases /\ turn[step] # None /\ run = "RUNNING" /\ lease
    /\ stop \in [{"development", "verification"} -> {"no", "pause", "interrupt"}]
    /\ unsure \in Attempt \cup {None}
    /\ crashes \in 0..MaxCrashes /\ edits \in 0..MaxEdits /\ consents \in 0..MaxConsents

(* AnalysisWorkflowService.start: the run exists, its first turn follows.  *)
Init ==
    /\ deps \in Packages
    /\ step = "analysis" /\ run = "RUNNING" /\ halt = "no" /\ op = "idle" /\ talk = "none"
    /\ issue = [i \in Issues |-> "PENDING"]
    /\ cursor = None /\ impl = None /\ accepted = None
    /\ turn = [p \in Phases |-> IF p = "analysis" THEN "none" ELSE None]
    /\ archive = [i \in Issues |-> [n \in 1..MaxAttempts |-> "open"]]
    /\ tree \in Trees /\ hash = tree /\ lease = TRUE
    /\ doing = "turn" /\ stop = [s \in {"development", "verification"} |-> "no"]
    /\ cancelling = FALSE /\ shown = TRUE /\ unsure = None
    /\ crashes = 0 /\ edits = 0 /\ consents = 0

-----------------------------------------------------------------------------
(* The operation thread: an operation that ends is followed by the one     *)
(* queued, a waiting cancellation first.                                   *)
FaultThen(next) == doing' = next
Then(next) == doing' = IF cancelling THEN "cancel" ELSE next
Ignored == UNCHANGED <<savedVars, lease, tree, stop, cancelling, shown, unsure, counters>>

(* An operation ends with an error before it recorded anything.            *)
Refused == Then("idle") /\ Ignored

Latest(i) ==
    Max({n \in 1..MaxAttempts : archive[i][n] # "open"}
        \cup IF cursor # None /\ cursor.issue = i THEN {cursor.number} ELSE {})

FaultRefresh(st) == [i \in Issues |-> IF st[i] = "PENDING" THEN "READY" ELSE st[i]]
Refresh(st) ==
    [i \in Issues |->
        IF st[i] \notin {"PENDING", "READY"} THEN st[i]
        ELSE IF \A d \in deps[i] : st[d] = "COMPLETED" THEN "READY" ELSE "PENDING"]

NextReady ==
    LET ready == {k \in 1..Len(Order) : Refresh(issue)[Order[k]] = "READY"}
    IN  IF ready = {} THEN None ELSE Order[CHOOSE k \in ready : \A j \in ready : k <= j]

Drift ==
    /\ step \in {"development", "code-review", "qa", "finalization"}
    /\ \/ hash # tree
       \/ step # "development" /\ impl # None /\ impl # hash

Archived == archive[cursor.issue][cursor.number] # "open"

(* What recovery will not continue as if nothing had happened.             *)
FaultMayContinue == turn[step] \in {"bound", "live"} \cup Ends
MayContinue == op # "unknown" /\ turn[step] \in {"bound", "live"} \cup Ends

(* A record of a run that no longer runs: an item in flight is unknown.    *)
Settles ==
    /\ op' = IF op = "running" THEN "unknown" ELSE op
    /\ unsure' = IF op = "running" THEN cursor ELSE unsure
Leaves(r) == run' = r /\ lease' = FALSE /\ Settles

Cleared(s) == stop' = [stop EXCEPT ![s] = "no"]

-----------------------------------------------------------------------------
(* Analysis.                                                               *)
AskAnalysis ==
    /\ doing = "idle" /\ shown /\ step = "analysis" /\ run = "AWAITING_USER" /\ halt = "ask"
    /\ turn["analysis"] # "none"
    /\ run' = "RUNNING" /\ halt' = "no" /\ lease' = TRUE /\ doing' = "turn"
    /\ UNCHANGED <<deps, step, op, talk, issue, cursor, impl, accepted, turn, archive, hash,
                   tree, stop, cancelling, shown, unsure, counters>>

AnalysisEnds(t) ==
    /\ doing = "turn" /\ step = "analysis" /\ turn[step] = "live"
    /\ run' = "AWAITING_USER" /\ halt' = "ask" /\ op' = "idle" /\ talk' = t
    /\ turn' = [turn EXCEPT ![step] = "SUCCEEDED"] /\ doing' = "idle"
    /\ UNCHANGED <<deps, step, issue, cursor, impl, accepted, archive, hash, lease,
                   tree, stop, cancelling, shown, unsure, counters>>

AnalysisFails ==
    /\ doing = "turn" /\ step = "analysis"
    /\ Leaves("PAUSED") /\ doing' = "idle"
    /\ \E t \in {turn[step], "lost"} : turn' = [turn EXCEPT ![step] = t]
    /\ UNCHANGED <<deps, step, halt, talk, issue, cursor, impl, accepted, archive, hash,
                   tree, stop, cancelling, shown, counters>>

AcceptAnalysis ==
    /\ doing = "idle" /\ shown /\ step = "analysis" /\ run = "AWAITING_USER" /\ halt = "ask"
    /\ talk = "draft"
    /\ step' = "workspace" /\ halt' = "no" /\ lease' = TRUE
    /\ UNCHANGED <<deps, run, op, talk, issue, cursor, impl, accepted, turn, archive, hash,
                   tree, doing, stop, cancelling, shown, unsure, counters>>

PauseAnalysis ==
    /\ doing = "idle" /\ shown /\ step = "analysis" /\ ~Terminal
    /\ Leaves("PAUSED") /\ shown' = FALSE
    /\ UNCHANGED <<deps, step, halt, talk, issue, cursor, impl, accepted, turn, archive, hash,
                   tree, doing, stop, cancelling, counters>>

ResumeAnalysis ==
    /\ doing = "idle" /\ step = "analysis" /\ ~Terminal /\ MayContinue
    /\ lease' = TRUE /\ shown' = TRUE
    /\ IF halt = "no" /\ turn[step] # "bound"
       THEN run' = "RUNNING" /\ doing' = "recover" /\ UNCHANGED halt
       ELSE run' = "AWAITING_USER" /\ halt' = "ask" /\ UNCHANGED doing
    /\ UNCHANGED <<deps, step, op, talk, issue, cursor, impl, accepted, turn, archive, hash,
                   tree, stop, cancelling, unsure, counters>>

RecoverAnalysis ==
    /\ doing = "recover" /\ step = "analysis"
    /\ \/ \E t \in {"question", "draft"} :
            /\ run' = "AWAITING_USER" /\ halt' = "ask" /\ talk' = t
            /\ turn' = [turn EXCEPT ![step] = "SUCCEEDED"]
            /\ UNCHANGED <<op, lease, unsure>>
       \/ Leaves("PAUSED") /\ UNCHANGED <<halt, talk, turn>>
    /\ doing' = "idle"
    /\ UNCHANGED <<deps, step, issue, cursor, impl, accepted, archive, hash,
                   tree, stop, cancelling, shown, counters>>

-----------------------------------------------------------------------------
(* The workspace, and the first issue.  The cursor follows in a record of  *)
(* its own.                                                                *)
ResumeWorkspace ==
    /\ doing = "idle" /\ step = "workspace" /\ ~Terminal
    /\ run' = "AWAITING_USER" /\ lease' = TRUE /\ shown' = TRUE
    /\ UNCHANGED <<deps, step, halt, op, talk, issue, cursor, impl, accepted, turn, archive, hash,
                   tree, doing, stop, cancelling, unsure, counters>>

Prepare ==
    /\ doing = "idle" /\ shown /\ step = "workspace" /\ ~Terminal
    /\ run' = "RUNNING" /\ halt' = "no" /\ lease' = TRUE /\ doing' = "starting"
    /\ UNCHANGED <<deps, step, op, talk, issue, cursor, impl, accepted, turn, archive, hash,
                   tree, stop, cancelling, shown, unsure, counters>>

PrepareFails ==
    /\ doing = "starting"
    /\ Leaves("PAUSED") /\ halt' \in {"no", "blocked"} /\ doing' = "idle"
    /\ UNCHANGED <<deps, step, talk, issue, cursor, impl, accepted, turn, archive, hash,
                   tree, stop, cancelling, shown, counters>>

PrepareWorkspace ==
    /\ doing = "starting" /\ NextReady # None
    /\ issue' = [Refresh(issue) EXCEPT ![NextReady] = "IN_DEVELOPMENT"]
    /\ step' = "development" /\ hash' = tree /\ doing' = "manifest"
    /\ UNCHANGED <<deps, run, halt, op, talk, cursor, impl, accepted, turn, archive,
                   lease, tree, stop, cancelling, shown, unsure, counters>>

SaveManifest ==
    /\ doing = "manifest"
    /\ \E i \in Issues :
        /\ issue[i] = "IN_DEVELOPMENT"
        /\ cursor' = [issue |-> i, number |-> 1]
    /\ turn' = [turn EXCEPT !["development"] = "none"] /\ doing' = "develop"
    /\ UNCHANGED <<deps, step, run, halt, op, talk, issue, impl, accepted, archive, hash,
                   lease, tree, stop, cancelling, shown, unsure, counters>>

(* _prepare_issue_attempt: one record starts an attempt.                   *)
StartAttempt(states, i, n) ==
    /\ n <= MaxAttempts
    /\ issue' = [states EXCEPT ![i] = "IN_DEVELOPMENT"]
    /\ cursor' = [issue |-> i, number |-> n]
    /\ step' = "development" /\ run' = "RUNNING" /\ halt' = "no" /\ lease' = TRUE
    /\ impl' = None /\ accepted' = None /\ hash' = tree
    /\ turn' = [turn EXCEPT !["development"] = "none", !["code-review"] = None, !["qa"] = None]

-----------------------------------------------------------------------------
(* A turn of any phase: its thread, its start, its items.  An item of the  *)
(* development writes files before it is known to be complete.             *)
BindThread ==
    /\ doing = "turn" /\ turn[step] = "none"
    /\ turn' = [turn EXCEPT ![step] = "bound"]
    /\ UNCHANGED <<deps, step, run, halt, op, talk, issue, cursor, impl, accepted, archive, hash,
                   lease, tree, doing, stop, cancelling, shown, unsure, counters>>

StartTurn ==
    /\ doing = "turn" /\ turn[step] \in {"bound", "lost"} \cup Ends
    /\ turn' = [turn EXCEPT ![step] = "live"]
    /\ UNCHANGED <<deps, step, run, halt, op, talk, issue, cursor, impl, accepted, archive, hash,
                   lease, tree, doing, stop, cancelling, shown, unsure, counters>>

StartItem ==
    /\ doing = "turn" /\ turn[step] = "live" /\ op # "running"
    /\ op' = "running"
    /\ IF step \in {"development", "qa"} THEN tree' \in Trees ELSE UNCHANGED tree
    /\ UNCHANGED <<deps, step, run, halt, talk, issue, cursor, impl, accepted, turn, archive, hash,
                   lease, doing, stop, cancelling, shown, unsure, counters>>

CompleteItem ==
    /\ doing = "turn" /\ turn[step] = "live" /\ op = "running"
    /\ op' = "idle"
    /\ hash' = IF step = "development" THEN tree ELSE hash
    /\ UNCHANGED <<deps, step, run, halt, talk, issue, cursor, impl, accepted, turn, archive,
                   lease, tree, doing, stop, cancelling, shown, unsure, counters>>

-----------------------------------------------------------------------------
(* Development.                                                            *)
Develop ==
    /\ doing = "develop"
    /\ IF cursor = None \/ hash # tree \/ step # "development"
       THEN Refused
       ELSE doing' = "turn" /\ lease' = TRUE /\ run' = run
            /\ UNCHANGED <<deps, step, halt, op, talk, issue, cursor, impl, accepted, turn,
                           archive, hash, tree, stop, cancelling, shown, unsure, counters>>

Developing == doing = "turn" /\ step = "development"

(* _finalize_development, after a turn or after its recovery.              *)
Implemented ==
    /\ issue' = [issue EXCEPT ![cursor.issue] = "IN_REVIEW"]
    /\ step' = "code-review" /\ run' = "RUNNING" /\ halt' = "no"
    /\ impl' = tree /\ accepted' = None /\ hash' = tree
    /\ turn' = [turn EXCEPT !["development"] = "SUCCEEDED", !["code-review"] = None, !["qa"] = None]
    /\ Then("review")
    /\ UNCHANGED <<deps, op, talk, cursor, archive, lease, tree, cancelling, shown, unsure,
                   counters>>

(* An attempt that was archived before cannot be recorded again.           *)
EndAttempt(status, end) ==
    /\ issue' = [issue EXCEPT ![cursor.issue] = status]
    /\ archive' = [archive EXCEPT ![cursor.issue][cursor.number] = status]
    /\ halt' = IF status = "BLOCKED" THEN "blocked" ELSE "failed"
    /\ turn' = [turn EXCEPT ![step] = end]
    /\ Leaves("PAUSED")
    /\ UNCHANGED <<deps, step, talk, cursor, impl, accepted, hash, tree, cancelling, shown,
                   counters>>

UnrecordedEnd ==
    /\ Then("idle")
    /\ UNCHANGED <<savedVars, lease, tree, cancelling, shown, unsure, counters>>

DevelopmentSucceeds == Developing /\ turn[step] = "live" /\ op = "idle" /\ Implemented
                       /\ Cleared("development")

(* The lease is released before telemetry records the end: the operation   *)
(* ends with that error, and the scheduler is not asked to go on.          *)
DevelopmentBlocks ==
    /\ Developing /\ turn[step] = "live" /\ op = "idle" /\ Cleared("development")
    /\ IF Archived THEN UnrecordedEnd ELSE EndAttempt("BLOCKED", "BLOCKED") /\ Then("idle")

DevelopmentFails ==
    /\ Developing /\ Cleared("development")
    /\ IF Archived THEN UnrecordedEnd
       ELSE /\ \E t \in {turn[step], "lost"} : EndAttempt("FAILED", t)
            /\ Then("idle")

DevelopmentPauses ==
    /\ Developing /\ turn[step] = "live" /\ stop["development"] # "no"
    /\ IF stop["development"] = "pause"
       THEN Leaves("PAUSED") /\ UNCHANGED halt
       ELSE Leaves("AWAITING_USER") /\ halt' = "ask"
    /\ turn' = [turn EXCEPT ![step] = "bound"]
    /\ Cleared("development") /\ Then("idle")
    /\ UNCHANGED <<deps, step, talk, issue, cursor, impl, accepted, archive, hash, tree,
                   cancelling, shown, counters>>

(* A stalled turn: what its last item did is taken to be known.            *)
DevelopmentStalls ==
    /\ Developing /\ turn[step] = "live"
    /\ run' = "PAUSED" /\ halt' = "no" /\ op' = "idle" /\ hash' = tree /\ lease' = FALSE
    /\ Cleared("development") /\ Then("idle")
    /\ UNCHANGED <<deps, step, talk, issue, cursor, impl, accepted, turn, archive, tree,
                   cancelling, shown, unsure, counters>>

(* Nobody answers an approval: any phase that runs in the workspace.       *)
NeedsApproval ==
    /\ doing = "turn" /\ step # "analysis" /\ turn[step] = "live"
    /\ step = "qa" => tree = impl
    /\ Leaves("PAUSED") /\ Cleared(Service(step)) /\ Then("idle")
    /\ UNCHANGED <<deps, step, halt, talk, issue, cursor, impl, accepted, turn, archive, hash,
                   tree, cancelling, shown, counters>>

ResumeDevelopment ==
    /\ doing = "idle" /\ step = "development" /\ ~Terminal /\ ~Drift
    /\ cursor # None /\ MayContinue
    /\ run' = "RUNNING" /\ lease' = TRUE /\ shown' = TRUE
    /\ doing' = IF turn[step] = "bound" THEN "turn" ELSE "recover"
    /\ UNCHANGED <<deps, step, halt, op, talk, issue, cursor, impl, accepted, turn, archive, hash,
                   tree, stop, cancelling, unsure, counters>>

(* The turn had ended, is still going, or cannot be read.                  *)
RecoverDevelopment ==
    /\ doing = "recover" /\ step = "development"
    /\ \/ turn[step] \in {"live", "SUCCEEDED"} /\ Implemented /\ UNCHANGED stop
       \/ /\ turn[step] \in {"live", "BLOCKED"} /\ UNCHANGED stop
          /\ IF Archived THEN UnrecordedEnd
             ELSE EndAttempt("BLOCKED", "BLOCKED") /\ doing' = "advance"
       \/ /\ turn[step] = "live" /\ doing' = "turn" /\ hash = tree
          /\ UNCHANGED <<savedVars, lease, tree, stop, cancelling, shown, unsure, counters>>
       \/ /\ Leaves("PAUSED") /\ Then("idle")
          /\ UNCHANGED <<deps, step, halt, talk, issue, cursor, impl, accepted, turn, archive,
                         hash, tree, stop, cancelling, shown, counters>>

-----------------------------------------------------------------------------
(* Code review and QA.  A queued verification opens its own cursor; one    *)
(* that is resumed or started afresh keeps it.                             *)
Verifying == doing = "turn" /\ step \in {"code-review", "qa"}
Awaited == IF step = "code-review" THEN "IN_REVIEW" ELSE "IN_QA"
Prerequisites ==
    /\ cursor # None /\ impl # None /\ issue[cursor.issue] = Awaited
    /\ step = "qa" => accepted = impl

(* _block_qa: the source moved under QA.                                   *)
BlockQa ==
    /\ IF Archived THEN UnrecordedEnd
       ELSE EndAttempt("BLOCKED", turn[step]) /\ Then("idle")

FaultMoved == FALSE
Moved == tree # impl

StartVerification ==
    /\ doing \in {"review", "qa"}
    /\ IF step \notin {"code-review", "qa"} \/ ~Prerequisites \/ (Moved /\ step = "code-review")
       THEN Refused
       ELSE IF Moved THEN BlockQa /\ UNCHANGED stop
       ELSE /\ turn' = [turn EXCEPT ![step] = IF @ = None THEN "none" ELSE @]
            /\ halt' = IF turn[step] = None THEN "no" ELSE halt
            /\ doing' = "turn" /\ lease' = TRUE
            /\ UNCHANGED <<deps, step, run, op, talk, issue, cursor, impl, accepted, archive, hash,
                           tree, stop, cancelling, shown, unsure, counters>>

(* _finalize_review and _finalize_qa, after a turn or after its recovery.  *)
Accepted ==
    /\ step = "code-review" /\ ~Moved
    /\ issue' = [issue EXCEPT ![cursor.issue] = "IN_QA"]
    /\ step' = "qa" /\ halt' = "no" /\ accepted' = impl
    /\ turn' = [turn EXCEPT ![step] = "SUCCEEDED"]
    /\ Then("qa")
    /\ UNCHANGED <<deps, run, op, talk, cursor, impl, archive, hash, lease, tree, cancelling,
                   shown, unsure, counters>>

Recorded(status, end) ==
    /\ issue' = [issue EXCEPT ![cursor.issue] = status]
    /\ archive' = [archive EXCEPT ![cursor.issue][cursor.number] = status]
    /\ step' = "development" /\ halt' = "no"
    /\ turn' = [turn EXCEPT ![step] = end]
    /\ Then("advance")
    /\ UNCHANGED <<deps, run, op, talk, cursor, impl, accepted, hash, lease, tree, cancelling,
                   shown, unsure, counters>>

Verified == step = "qa" /\ ~Moved /\ ~Archived /\ Recorded("COMPLETED", "SUCCEEDED")
Returned == ~Moved /\ ~Archived /\ Recorded("CHANGES_REQUESTED", "CHANGES_REQUESTED")

(* What is left of a verification that ended otherwise: blocked, failed,   *)
(* or with nothing recorded, the attempt being archived already.           *)
BlockedOrFailed ==
    \/ Archived /\ UnrecordedEnd
    \/ /\ ~Archived /\ Then("idle")
       /\ \/ step = "code-review" /\ Moved /\ EndAttempt("FAILED", turn[step])
          \/ step = "qa" /\ Moved /\ EndAttempt("BLOCKED", turn[step])
          \/ ~Moved /\ EndAttempt("BLOCKED", "BLOCKED")
          \/ ~Moved /\ \E t \in {turn[step], "lost"} : EndAttempt("FAILED", t)

VerificationEnds ==
    /\ Verifying /\ turn[step] = "live" /\ op = "idle"
    /\ Accepted \/ Verified \/ Returned \/ BlockedOrFailed
    /\ Cleared("verification")

VerificationBreaks ==
    /\ Verifying /\ (turn[step] # "live" \/ op # "idle")
    /\ IF Archived THEN UnrecordedEnd
       ELSE EndAttempt(IF step = "qa" /\ Moved THEN "BLOCKED" ELSE "FAILED", turn[step])
            /\ Then("idle")
    /\ Cleared("verification")

(* The turn was interrupted at the backend: it will not be continued.      *)
VerificationPauses ==
    /\ Verifying /\ turn[step] = "live" /\ stop["verification"] # "no"
    /\ Cleared("verification")
    /\ IF step = "qa" /\ Moved THEN BlockQa
       ELSE /\ IF stop["verification"] = "pause"
               THEN Leaves("PAUSED") /\ UNCHANGED halt
               ELSE Leaves("AWAITING_USER") /\ halt' = "ask"
            /\ turn' = [turn EXCEPT ![step] = "lost"] /\ Then("idle")
            /\ UNCHANGED <<deps, step, talk, issue, cursor, impl, accepted, archive, hash, tree,
                           cancelling, shown, counters>>

ResumeVerification ==
    /\ doing = "idle" /\ step \in {"code-review", "qa"} /\ ~Terminal /\ ~Drift
    /\ MayContinue /\ Prerequisites
    /\ run' = "RUNNING" /\ halt' = "no" /\ lease' = TRUE /\ shown' = TRUE
    /\ doing' = IF turn[step] = "bound" THEN "turn" ELSE "recover"
    /\ UNCHANGED <<deps, step, op, talk, issue, cursor, impl, accepted, turn, archive, hash,
                   tree, stop, cancelling, unsure, counters>>

RecoverVerification ==
    /\ doing = "recover" /\ step \in {"code-review", "qa"}
    /\ Accepted \/ Verified \/ Returned \/ BlockedOrFailed
    /\ Cleared("verification")

-----------------------------------------------------------------------------
(* The recovery attempt without the transcript, offered when the thread    *)
(* cannot be continued: the thread may be gone at the backend at any time. *)
StartFresh ==
    /\ doing = "idle" /\ ~Terminal /\ ~Drift /\ step \in Phases /\ turn[step] # None
    /\ run' = "RUNNING" /\ halt' = "no" /\ op' = "idle" /\ lease' = TRUE /\ shown' = TRUE
    /\ turn' = [turn EXCEPT ![step] = "none"] /\ unsure' = None
    /\ impl' = IF step = "development" THEN None ELSE impl
    /\ accepted' = IF step = "code-review" THEN None ELSE accepted
    /\ doing' = CASE step = "analysis" -> "turn"
                  [] step = "development" -> "develop"
                  [] step = "code-review" -> "review"
                  [] step = "qa" -> "qa"
    /\ UNCHANGED <<deps, step, talk, issue, cursor, archive, hash, tree, stop, cancelling,
                   counters>>

-----------------------------------------------------------------------------
(* WorkflowScheduler.advance.                                              *)
ChangesRequested(i) == {n \in 1..MaxAttempts : archive[i][n] = "CHANGES_REQUESTED"}
MayRework(i) == Cardinality(ChangesRequested(i)) <= MaxRework

AfterPrepared == doing' = "develop" /\ UNCHANGED <<deps, op, talk, archive, tree, stop, cancelling,
                                                   shown, unsure, counters>>

AdvanceReworks ==
    /\ doing = "advance" /\ step = "development" /\ cursor # None
    /\ issue[cursor.issue] = "CHANGES_REQUESTED"
    /\ IF MayRework(cursor.issue)
       THEN StartAttempt(issue, cursor.issue, Latest(cursor.issue) + 1) /\ AfterPrepared
       ELSE /\ issue' = [issue EXCEPT ![cursor.issue] = "BLOCKED"]
            /\ Leaves("PAUSED") /\ halt' = "blocked" /\ doing' = "drain"
            /\ UNCHANGED <<deps, step, talk, cursor, impl, accepted, turn, archive, hash, tree,
                           stop, cancelling, shown, counters>>

(* _drain_or_pause after NoReadyIssueError.                                *)
Drained(st) == \A i \in Issues : st[i] = "COMPLETED"
DrainOrPause ==
    LET states == Refresh(issue) IN
    IF Drained(states)
    THEN /\ issue' = states /\ step' = "finalization" /\ run' = "AWAITING_USER" /\ halt' = "no"
         /\ lease' = TRUE /\ Settles /\ Then("idle")
         /\ UNCHANGED <<deps, talk, cursor, impl, accepted, turn, archive, hash, tree, stop,
                        cancelling, shown, counters>>
    ELSE IF NextReady # None
    THEN StartAttempt(states, NextReady, 1) /\ AfterPrepared
    ELSE IF run = "PAUSED" /\ halt = "blocked"
    THEN Refused
    ELSE /\ issue' = states /\ halt' = "blocked" /\ Leaves("PAUSED") /\ Then("idle")
         /\ UNCHANGED <<deps, step, talk, cursor, impl, accepted, turn, archive, hash, tree, stop,
                        cancelling, shown, counters>>

AdvanceTakesNext ==
    /\ \/ doing = "drain"
       \/ /\ doing = "advance" /\ step = "development"
          /\ cursor = None \/ issue[cursor.issue] \in {"COMPLETED", "BLOCKED"}
    /\ DrainOrPause

AdvanceDevelops ==
    /\ doing = "advance" /\ step = "development" /\ cursor # None
    /\ issue[cursor.issue] \notin {"CHANGES_REQUESTED", "COMPLETED", "BLOCKED"}
    /\ IF run = "PAUSED" THEN Refused
       ELSE doing' = "develop" /\ Ignored

(* /retry and /reset: the user authorises another attempt.                 *)
Authorize ==
    /\ doing = "idle" /\ shown /\ run = "PAUSED" /\ consents < MaxConsents
    /\ consents' = consents + 1
    /\ \E i \in Issues :
        /\ issue[i] \in {"BLOCKED", "FAILED"}
        /\ StartAttempt(issue, i, Latest(i) + 1)
    /\ doing' = "advance"
    /\ UNCHANGED <<deps, op, talk, archive, tree, stop, cancelling, shown, unsure, crashes, edits>>

-----------------------------------------------------------------------------
(* FinalizationService.finalize: two records.                              *)
Finalize ==
    /\ doing = "idle" /\ step = "finalization" /\ ~Terminal /\ ~Drift
    /\ Drained(issue)
    /\ run' = "RUNNING" /\ halt' = "no" /\ lease' = TRUE /\ shown' = TRUE /\ doing' = "recover"
    /\ UNCHANGED <<deps, step, op, talk, issue, cursor, impl, accepted, turn, archive, hash,
                   tree, stop, cancelling, unsure, counters>>

CompleteRun ==
    /\ doing = "recover" /\ step = "finalization"
    /\ Leaves("COMPLETED") /\ doing' = "idle" /\ shown' = FALSE
    /\ UNCHANGED <<deps, step, halt, talk, issue, cursor, impl, accepted, turn, archive, hash,
                   tree, stop, cancelling, counters>>

(* Cancellation, at once or after the operation that is asked to pause.    *)
CancelRun ==
    /\ (doing = "idle" /\ shown) \/ doing = "cancel"
    /\ IF Terminal THEN UNCHANGED <<run, lease, op, unsure>> ELSE Leaves("CANCELLED")
    /\ cancelling' = FALSE /\ shown' = FALSE /\ doing' = "idle"
    /\ UNCHANGED <<deps, step, halt, talk, issue, cursor, impl, accepted, turn, archive, hash,
                   tree, stop, counters>>

Stoppable == doing \notin {"idle", "cancel"} /\ run = "RUNNING" /\ step \in Phases \ {"analysis"}
             /\ turn[step] # None

CancelLater ==
    /\ Stoppable /\ ~cancelling
    /\ cancelling' = TRUE /\ stop' = [stop EXCEPT ![Service(step)] = "pause"]
    /\ UNCHANGED <<savedVars, lease, tree, doing, shown, unsure, counters>>

RequestStop ==
    /\ Stoppable
    /\ \E how \in {"pause", "interrupt"} :
        /\ how = "interrupt" => turn[step] \in {"live", "lost"} \cup Ends
        /\ stop[Service(step)] # "pause"
        /\ stop' = [stop EXCEPT ![Service(step)] = how]
    /\ UNCHANGED <<savedVars, lease, tree, doing, cancelling, shown, unsure, counters>>

-----------------------------------------------------------------------------
(* Somebody edits the workspace; the process dies.  A dead owner's run is  *)
(* presented as paused and its item in flight as unknown.                  *)
UserEdit ==
    /\ edits < MaxEdits /\ ~Terminal /\ edits' = edits + 1
    /\ \E t \in Trees \ {tree} : tree' = t
    /\ UNCHANGED <<savedVars, lease, doing, stop, cancelling, shown, unsure, crashes, consents>>

Crash ==
    /\ crashes < MaxCrashes /\ ~Terminal /\ crashes' = crashes + 1
    /\ run' = IF run = "RUNNING" THEN "PAUSED" ELSE run
    /\ Settles /\ lease' = FALSE /\ doing' = "idle" /\ cancelling' = FALSE /\ shown' = FALSE
    /\ stop' = [s \in {"development", "verification"} |-> "no"]
    /\ UNCHANGED <<deps, step, halt, talk, issue, cursor, impl, accepted, turn, archive, hash,
                   tree, edits, consents>>

User ==
    \/ AskAnalysis \/ AcceptAnalysis \/ PauseAnalysis \/ ResumeAnalysis
    \/ ResumeWorkspace \/ Prepare \/ ResumeDevelopment \/ ResumeVerification \/ StartFresh
    \/ Authorize \/ Finalize \/ (doing = "idle" /\ CancelRun) \/ CancelLater \/ RequestStop

TurnEnds ==
    \/ (\E t \in {"question", "draft"} : AnalysisEnds(t)) \/ AnalysisFails
    \/ DevelopmentSucceeds \/ DevelopmentBlocks \/ DevelopmentFails
    \/ DevelopmentPauses \/ DevelopmentStalls \/ NeedsApproval
    \/ VerificationEnds \/ VerificationBreaks \/ VerificationPauses

Proceeds ==
    \/ RecoverAnalysis \/ PrepareFails \/ PrepareWorkspace \/ SaveManifest
    \/ Develop \/ RecoverDevelopment \/ StartVerification \/ RecoverVerification
    \/ AdvanceReworks \/ AdvanceTakesNext \/ AdvanceDevelops
    \/ CompleteRun \/ (doing = "cancel" /\ CancelRun)

Next == User \/ Proceeds \/ BindThread \/ StartTurn \/ StartItem \/ CompleteItem \/ TurnEnds
        \/ UserEdit \/ Crash
Spec == Init /\ [][Next]_vars

(* The operation thread goes on, and a turn does not last for ever: the    *)
(* client gives up on a backend that stays silent.  The user owes nothing. *)
FairSpec == Spec /\ WF_vars(Proceeds) /\ WF_vars(TurnEnds)
-----------------------------------------------------------------------------
(* scheduler.py: an issue is started only when every issue it depends on   *)
(* is completed, and none of those is opened again after that.             *)
DependenciesFirst ==
    \A i \in Issues : issue[i] \notin {"PENDING", "READY"} =>
        \A d \in deps[i] : issue[d] = "COMPLETED"

(* recovery.py: an attempt whose item in flight was lost is neither        *)
(* continued nor recovered until the user asks for a fresh attempt.        *)
UnknownIsNotReplayed == unsure # None /\ cursor = unsure => doing \notin {"turn", "recover"}

(* _finalize_qa: an issue is completed only with the files of the          *)
(* workspace equal to what was implemented and to what review accepted.    *)
CompletionIsVerified ==
    [][\A i \in Issues : issue'[i] = "COMPLETED" /\ issue[i] # "COMPLETED" =>
          impl = tree /\ accepted = tree /\ cursor.issue = i]_vars

(* ui/app.py: the operation thread comes to rest, and a cancellation that  *)
(* waited for it has then been carried out or was lost with the process.   *)
ComesToRest == (doing # "idle" \/ cancelling) ~> (doing = "idle" /\ ~cancelling)
=============================================================================
