---------------------------- MODULE MarkdownRun ----------------------------
(***************************************************************************)
(* The Markdown issue runner: one process schedules the issues of a pack    *)
(* by their dependencies, runs the configured workflow for the issue it has *)
(* reserved, step by step, and writes everything it decides to one state    *)
(* file, from which the next process resumes after a crash, a usage limit   *)
(* or an ordinary end (cli.py, state.py, issue_scheduler.py,                *)
(* portable_workflow.py, usage_limit_retry.py).                             *)
(*                                                                          *)
(* mem is the state the process holds and disk the state file; they differ   *)
(* while a flush is under way, and a crash may fall before its write.  The   *)
(* board and the copies beside the PRD are renderings nothing reads back.   *)
(*                                                                          *)
(* Left out: dry runs, the coder/reviewer/qa cursor of states written       *)
(* before workflows, and the outcomes CANCELLED and WAITING_FOR_INPUT,      *)
(* which no step of this version produces.                                  *)
(***************************************************************************)
EXTENDS Integers, Sequences, FiniteSets, FiniteSetsExt, SequencesExt

CONSTANTS
    Order,       \* the issues in the order of the index
    Needs,       \* Needs[i]: the issues linked under "Blocked by"
    Steps,       \* the steps of the resolved workflow
    Start,       \* the first issue-scoped step
    Route,       \* Route[s][o]: the step an outcome leads to, or NoStep
    Inputs,      \* Inputs[s]: the steps whose latest successful output s reads
    Coders,      \* the steps whose component is a coder
    Reviewers,   \* the steps whose component may ask for changes
    MaxPasses,   \* --max-passes
    Rounds,      \* --blocked-retry-rounds, at most five
    Single,      \* --single-issue
    NoStep, NoIssue,
    Answers,     \* Answers[i][s]: the outcomes a run of TLC considers for a step
    MaxDisturbed     \* how many crashes, limits and renewals together a run of TLC has

Issues == ToSet(Order)
StepOutcomes == {"SUCCEEDED", "CHANGES_REQUESTED", "BLOCKED", "FAILED"}
Final == {"COMPLETED", "CHANGES_REQUESTED", "BLOCKED", "FAILED"}

ASSUME OrderAssumption ==
    /\ Order \in Seq(Issues) /\ NoIssue \notin Issues
    /\ \A k, l \in 1..Len(Order) : Order[k] = Order[l] => k = l
ASSUME NeedsAssumption == Needs \in [Issues -> SUBSET Issues]
\* IssueDependencyGraph._validate_acyclic: some order runs every need first.
ASSUME AcyclicAssumption ==
    \E rank \in [Issues -> 1..Len(Order)] :
        \A i \in Issues : \A d \in Needs[i] : rank[d] < rank[i]
ASSUME WorkflowAssumption ==
    /\ Start \in Steps /\ NoStep \notin Steps
    /\ Route \in [Steps -> [StepOutcomes -> Steps \cup {NoStep}]]
    /\ Inputs \in [Steps -> SUBSET Steps]
    /\ Answers \in [Issues -> [Steps -> SUBSET StepOutcomes]]
    /\ Coders \subseteq Steps /\ Reviewers \subseteq Steps /\ Coders \cap Reviewers = {}
\* _is_binding_definitely_available: no path enters a step before the steps whose output
\* it reads have succeeded; before[s] are the steps that have on every path to s.
Preceding(before) ==
    /\ before[Start] = {}
    /\ \A s \in Steps, o \in StepOutcomes : Route[s][o] # NoStep =>
        before[Route[s][o]] \subseteq before[s] \cup (IF o = "SUCCEEDED" THEN {s} ELSE {})
    /\ \A s \in Steps : Inputs[s] \subseteq before[s]
ASSUME InputsAssumption == \E before \in [Steps -> SUBSET Steps] : Preceding(before)
ASSUME BoundAssumption ==
    /\ MaxPasses \in Nat \ {0} /\ Rounds \in 0..5 /\ Single \in BOOLEAN
    /\ MaxDisturbed \in Nat

VARIABLES
    mem, disk,   \* the state in memory and in *.loop.state.json
    marked,      \* the issue files that say Completed: [x]
    doing,          \* what the process does next
    at,          \* what the process holds outside the state
    kills, limits, renewals,   \* bounds
    since        \* ghost: where the last fresh execution of an issue begins

runVars == <<mem, disk, marked, doing, at, kills, limits, renewals, since>>
bounds == <<kills, limits, renewals>>
Quiet == kills + limits + renewals < MaxDisturbed   \* (bound)

-----------------------------------------------------------------------------
(* The state file.                                                          *)

NoAttempt == [issue |-> NoIssue, phase |-> "NONE", ordinal |-> 0]
NoPause == [kind |-> "NONE", until |-> "none", of |-> NoAttempt]

EmptyState == [
    status |-> [i \in Issues |-> "NONE"],
    cursor |-> [i \in Issues |-> NoStep],
    pass |-> [i \in Issues |-> 1],
    path |-> [i \in Issues |-> <<>>],
    rework |-> [i \in Issues |-> 0],
    tries |-> [i \in Issues |-> <<>>],
    running |-> [i \in Issues |-> [s \in Steps |-> 0]],
    interrupted |-> [i \in Issues |-> {}],
    phase |-> "NONE",
    attempted |-> {},
    extra |-> [i \in Issues |-> 0],
    active |-> NoAttempt,
    pause |-> NoPause]

NoWork == [selected |-> {}, done |-> {}, step |-> NoStep, pass |-> 1, path |-> <<>>,
         rework |-> 0, from |-> 1, retried |-> FALSE]

TryIds(s, i) == {s.tries[i][k].id : k \in 1..Len(s.tries[i])}
RunningIds(s, i) == {s.running[i][st] : st \in Steps} \ {0}

\* The step attempts a state knows of: recorded, interrupted or running.
Recorded(s, i) == TryIds(s, i) \cup s.interrupted[i] \cup RunningIds(s, i)

\* uuid.uuid4() of the next step attempt.
NextId(i) == 1 + Max({0} \cup Recorded(mem, i))

Latest(i) == mem.tries[i][Len(mem.tries[i])]

\* flush: the new state is in memory, and its file follows.
Save(s) == mem' = s
Keep == UNCHANGED mem
Saved == mem = disk
Goto(place) == doing' = place

WriteState ==
    /\ ~Saved
    /\ disk' = mem
    /\ UNCHANGED <<mem, marked, doing, at, bounds, since>>

-----------------------------------------------------------------------------
(* DependencyScheduler.project and what the schedule feeds it.              *)

Completed(s) == {i \in Issues : s.status[i] = "COMPLETED"}
IncompleteNeeds(i) == Needs[i] \ at.done
Unfinished == at.selected \ at.done
ReadyIssues == {i \in Unfinished : IncompleteNeeds(i) = {}}
WaitingIssues == Unfinished \ ReadyIssues

\* The reservations charged so far, and every issue whose status is final.
NormalAttempted == mem.attempted \cup {i \in at.selected : mem.status[i] \in Final}

Place(i) == CHOOSE k \in 1..Len(Order) : Order[k] = i
First(S) == CHOOSE i \in S : \A j \in S : Place(i) <= Place(j)

NeverTried == ReadyIssues \ NormalAttempted
Resolvable == {i \in ReadyIssues \cap NormalAttempted : Rounds > 0 /\ mem.extra[i] < Rounds}
LeastResolved == {i \in Resolvable : \A j \in Resolvable : mem.extra[i] <= mem.extra[j]}

PhaseNow ==
    CASE NeverTried # {} -> "NORMAL_SCHEDULING"
      [] NeverTried = {} /\ Resolvable # {} -> "BLOCKER_RESOLUTION"
      [] NeverTried = {} /\ Resolvable = {} /\ Unfinished = {} -> "COMPLETE"
      [] OTHER -> "EXHAUSTED"

\* record_dependency_projection: only issues nobody worked on change their status.
Projected(s) ==
    [s EXCEPT !.phase = PhaseNow,
              !.status = [i \in Issues |->
                  IF i \in Unfinished /\ s.status[i] \in {"NONE", "READY", "WAITING"}
                  THEN IF i \in WaitingIssues THEN "WAITING" ELSE "READY"
                  ELSE s.status[i]]]

\* reset_scheduler_retry_budget
Renewed(s, requested) ==
    [s EXCEPT !.attempted = @ \ requested,
              !.extra = [i \in Issues |-> IF i \in requested THEN 0 ELSE @[i]],
              !.phase = "NORMAL_SCHEDULING"]

\* complete_scheduling_attempt
Charged(s) ==
    LET i == s.active.issue
        normal == s.active.phase = "NORMAL_SCHEDULING"
    IN [s EXCEPT !.attempted = IF normal THEN @ \cup {i} ELSE @,
                 !.extra[i] = IF normal THEN @ ELSE Max({@, s.active.ordinal}),
                 !.active = NoAttempt]

-----------------------------------------------------------------------------
(* Process start: select_issues, resolve_run_workflow, renewal, run start.  *)

\* A single-issue run takes the first ready issue the files leave open.
Selection ==
    LET open == Issues \ marked
        ready == {i \in open : Needs[i] \subseteq marked}
    IN IF Single /\ ready # {} THEN {First(ready)} ELSE open

Open(selected) == [NoWork EXCEPT !.selected = selected, !.done = marked]

LaunchRun ==
    /\ doing = "idle"
    /\ Selection # {}
    /\ disk.phase = "EXHAUSTED" => Quiet
    /\ mem' = disk /\ at' = Open(Selection) /\ Goto("resolve")
    /\ UNCHANGED <<disk, marked, bounds, since>>

\* resolve_run_workflow: preferences may have moved the paused step to another
\* backend, and then reconcile_usage_pause_backend drops the wait.
Resolve ==
    /\ doing = "resolve" /\ Saved
    /\ \/ Keep
       \/ mem.pause.kind = "USAGE_LIMIT" /\ Save([mem EXCEPT !.pause = NoPause])
    /\ Goto("renew")
    /\ UNCHANGED <<disk, marked, at, bounds, since>>

\* renew_exhausted_scheduler_for_explicit_start, then record_run_start.  The reset refuses an active
\* reservation by raising, which ends the process: see Refused.
MayRenew == mem.active.issue \notin at.selected

Renew ==
    /\ doing = "renew" /\ Saved
    /\ \/ mem.phase # "EXHAUSTED" /\ Keep /\ UNCHANGED renewals
       \/ /\ mem.phase = "EXHAUSTED" /\ MayRenew
          /\ Save(Renewed(mem, at.selected)) /\ renewals' = renewals + 1
    /\ Goto("wait")
    /\ UNCHANGED <<disk, marked, at, kills, limits, since>>

\* retry_usage_limited_run: wait out a deadline the state still records.
\* Then execute_dependency_schedule collects what is finished already.
WaitUntil ==
    /\ doing = "wait" /\ Saved
    /\ at' = [at EXCEPT !.done = @ \cup Completed(mem),
                        !.retried = mem.pause.kind = "USAGE_LIMIT"]
    /\ Keep /\ Goto("loop")
    /\ UNCHANGED <<disk, marked, bounds, since>>

-----------------------------------------------------------------------------
(* execute_dependency_schedule.                                             *)

Project ==
    /\ doing = "loop" /\ Saved
    /\ Save(Projected(mem)) /\ Goto("choose")
    /\ UNCHANGED <<disk, marked, at, bounds, since>>

Reserved == mem.active.issue # NoIssue
AllDone == at.selected \subseteq at.done

\* A reservation whose issue was completed before the last process ended.
ChargeFinished ==
    /\ doing = "choose" /\ Saved
    /\ mem.active.issue \in at.selected
    /\ mem.status[mem.active.issue] = "COMPLETED"
    /\ Save(Charged(mem))
    /\ at' = [at EXCEPT !.done = @ \cup {mem.active.issue}]
    /\ Goto("loop")
    /\ UNCHANGED <<disk, marked, bounds, since>>

ResumeReserved ==
    /\ doing = "choose" /\ Saved
    /\ mem.active.issue \in at.selected
    /\ mem.status[mem.active.issue] # "COMPLETED"
    /\ Keep /\ Goto("issue")
    /\ UNCHANGED <<disk, marked, at, bounds, since>>

Reserve(i, phase, ordinal) ==
    /\ doing = "choose" /\ Saved
    /\ ~Reserved /\ ~AllDone
    /\ Save([mem EXCEPT !.phase = phase,
                        !.active = [issue |-> i, phase |-> phase, ordinal |-> ordinal]])
    /\ Goto("issue")
    /\ UNCHANGED <<disk, marked, at, bounds, since>>

ReserveNormal ==
    /\ NeverTried # {}
    /\ Reserve(First(NeverTried), "NORMAL_SCHEDULING", 1)

ReserveBlocker ==
    /\ NeverTried = {} /\ Resolvable # {}
    /\ LET i == First(LeastResolved)
       IN Reserve(i, "BLOCKER_RESOLUTION", mem.extra[i] + 1)

\* The schedule returns: everything is completed, or nothing may be tried any more.
ScheduleEnds ==
    /\ doing = "choose" /\ Saved
    /\ ~Reserved
    /\ AllDone \/ (NeverTried = {} /\ Resolvable = {})
    /\ Keep /\ Goto("leave")
    /\ UNCHANGED <<disk, marked, at, bounds, since>>

\* clear_run_pause, after an issue and when the schedule has returned.
FaultPauseStays ==
    /\ doing \in {"close", "leave"} /\ Saved
    /\ Keep
    /\ Goto(IF doing = "close" THEN "charge" ELSE "end")
    /\ UNCHANGED <<disk, marked, at, bounds, since>>
EndPause ==
    /\ doing \in {"close", "leave"} /\ Saved
    /\ Save([mem EXCEPT !.pause = NoPause])
    /\ Goto(IF doing = "close" THEN "charge" ELSE "end")
    /\ UNCHANGED <<disk, marked, at, bounds, since>>

Charge ==
    /\ doing = "charge" /\ Saved
    /\ Save(Charged(mem))
    /\ at' = [at EXCEPT !.done = IF mem.status[mem.active.issue] = "COMPLETED"
                                THEN @ \cup {mem.active.issue} ELSE @]
    /\ Goto("loop")
    /\ UNCHANGED <<disk, marked, bounds, since>>

Leave ==
    /\ doing = "end" /\ Saved
    /\ Keep /\ Goto(IF AllDone THEN "idle" ELSE "review")
    /\ at' = IF AllDone THEN NoWork ELSE at
    /\ UNCHANGED <<disk, marked, bounds, since>>

\* The run review: leave, or renew what is unfinished and start over.
Review ==
    /\ doing = "review" /\ Saved
    /\ \/ Keep /\ Goto("idle") /\ at' = NoWork /\ UNCHANGED renewals
       \/ /\ Rounds > 0 /\ Quiet
          /\ Save(Renewed(mem, at.selected \ Completed(mem)))
          /\ Goto("resolve") /\ at' = Open(Selection)
          /\ renewals' = renewals + 1
    /\ UNCHANGED <<disk, marked, kills, limits, since>>

-----------------------------------------------------------------------------
(* run_issue: where the workflow of the reserved issue continues.           *)

Issue == mem.active.issue
FinalPass == IF mem.active.phase = "NORMAL_SCHEDULING" THEN MaxPasses ELSE 1

Resumes == mem.status[Issue] = "IN_PROGRESS" /\ mem.cursor[Issue] # NoStep
Retries == mem.status[Issue] \in Final \ {"COMPLETED"} /\ mem.tries[Issue] # <<>>

\* retry_portable_workflow: a request for changes goes on at its destination.
RetryStep ==
    IF mem.status[Issue] = "CHANGES_REQUESTED"
    THEN Route[Latest(Issue).step]["CHANGES_REQUESTED"] ELSE Latest(Issue).step
RetryRework ==
    IF mem.status[Issue] = "CHANGES_REQUESTED" THEN Latest(Issue).id
    ELSE IF Latest(Issue).by # 0 THEN Latest(Issue).by ELSE mem.rework[Issue]

From(step, pass, path, rework, first) ==
    [at EXCEPT !.step = step, !.pass = pass, !.path = path, !.rework = rework, !.from = first]

\* What retry_portable_workflow insists on before it restores anything.
RetryFits ==
    /\ Latest(Issue).outcome = mem.status[Issue]
    /\ RetryStep # NoStep
    /\ Latest(Issue).by = 0 \/ mem.rework[Issue] = 0 \/ Latest(Issue).by = mem.rework[Issue]

Entered(place) ==
    /\ at' = place
    /\ Save([mem EXCEPT !.status[Issue] = "IN_PROGRESS"])
    /\ Goto("execute")
    /\ since' = [since EXCEPT ![Issue] = Max({@, place.from})]
    /\ UNCHANGED <<disk, marked, bounds>>

Restored == From(mem.cursor[Issue], mem.pass[Issue], mem.path[Issue], mem.rework[Issue], 1)
Fresh == From(Start, 1, <<Start>>, 0, Len(mem.tries[Issue]) + 1)

FaultRetryKeepsPass ==
    From(RetryStep, Latest(Issue).pass + 1, <<RetryStep>>, RetryRework, 1)
FaultRetryDropsRework == From(RetryStep, 1, <<RetryStep>>, 0, 1)
Retried == From(RetryStep, 1, <<RetryStep>>, RetryRework, 1)

Begin ==
    /\ doing = "issue" /\ Saved
    /\ \/ Resumes /\ Entered(Restored)
       \/ Retries /\ RetryFits /\ Entered(Retried)
       \/ ~Resumes /\ ~Retries /\ Entered(Fresh)

-----------------------------------------------------------------------------
(* PortableWorkflowExecutor.run, one step at a time.                        *)

\* The attempts the executor itself knows of: none from before a fresh start.
Known == at.from..Len(mem.tries[Issue])
InputsResolve ==
    \A producer \in Inputs[at.step] :
        \E k \in Known : mem.tries[Issue][k].step = producer
                        /\ mem.tries[Issue][k].outcome = "SUCCEEDED"
ReworkIsKnown ==
    at.rework = 0 \/ \E k \in Known : mem.tries[Issue][k].id = at.rework
                                     /\ mem.tries[Issue][k].outcome = "CHANGES_REQUESTED"

Checkpoint(s) ==
    [s EXCEPT !.running[Issue][at.step] = NextId(Issue),
              !.status[Issue] = "IN_PROGRESS", !.cursor[Issue] = at.step,
              !.pass[Issue] = at.pass, !.path[Issue] = at.path, !.rework[Issue] = at.rework]

\* _preserve_interrupted_runtime: a launch that replaces a running attempt keeps it.
Preserved(s) ==
    [s EXCEPT !.interrupted[Issue] = @ \cup ({s.running[Issue][at.step]} \ {0})]

LaunchStep ==
    /\ doing = "execute" /\ Saved
    /\ at.pass <= FinalPass /\ ReworkIsKnown
    /\ Save(Checkpoint(Preserved(mem))) /\ Goto("turn")
    /\ UNCHANGED <<disk, marked, at, bounds, since>>

\* _outcome_for_role_result
OutcomesOf(step) ==
    {"SUCCEEDED", "BLOCKED", IF step \in Reviewers THEN "CHANGES_REQUESTED" ELSE "FAILED"}
        \cap Answers[Issue][step]

Carried(o, id) ==
    IF o = "CHANGES_REQUESTED" THEN id
    ELSE IF o = "SUCCEEDED" /\ at.step \in Coders THEN 0 ELSE at.rework

Target(o) == Route[at.step][o]
StartsPass(o) == o = "CHANGES_REQUESTED" \/ Target(o) \in ToSet(at.path)
Spends(o) == Target(o) # NoStep /\ StartsPass(o) /\ at.pass >= FinalPass
NextStep(o) == IF Spends(o) THEN NoStep ELSE Target(o)

StatusAfter(o) ==
    IF NextStep(o) # NoStep THEN "IN_PROGRESS"
    ELSE IF o = "SUCCEEDED" THEN IF Spends(o) THEN "BLOCKED" ELSE "COMPLETED"
    ELSE o

Try(o) == [id |-> mem.running[Issue][at.step], step |-> at.step, pass |-> at.pass, outcome |-> o,
           by |-> IF at.step \in Coders THEN at.rework ELSE 0]

Advanced(o) ==
    LET next == NextStep(o)
        rework == Carried(o, mem.running[Issue][at.step])
    IN IF next # NoStep /\ StartsPass(o)
       THEN From(next, at.pass + 1, <<next>>, rework, at.from)
       ELSE From(next, at.pass, IF next = NoStep THEN at.path ELSE Append(at.path, next),
                 rework, at.from)

StepEnds(o) ==
    /\ doing = "turn" /\ Saved
    /\ InputsResolve /\ o \in OutcomesOf(at.step)
    /\ at' = Advanced(o)
    /\ Save([mem EXCEPT !.tries[Issue] = Append(@, Try(o)),
                        !.running[Issue][at.step] = 0,
                        !.status[Issue] = StatusAfter(o),
                        !.pass[Issue] = at'.pass,
                        !.cursor[Issue] = at'.step,
                        !.path[Issue] = IF at'.step = NoStep THEN <<>> ELSE at'.path,
                        !.rework[Issue] = at'.rework])
    /\ Goto(IF NextStep(o) # NoStep THEN "execute"
            ELSE IF StatusAfter(o) = "COMPLETED" THEN "mark" ELSE "close")
    /\ UNCHANGED <<disk, marked, bounds, since>>

\* mark_portable_issue_completed edits the issue file in place; after it, and after
\* every other end, record_portable_execution_result writes the same status again.
Mark ==
    /\ doing = "mark" /\ Saved
    /\ marked' = marked \cup {Issue}
    /\ Goto("close")
    /\ UNCHANGED <<mem, disk, at, bounds, since>>


-----------------------------------------------------------------------------
(* What stops a process in the middle: limits, refused states, crashes.     *)

Paused(kind, until) ==
    [mem EXCEPT !.phase = "RUN_PAUSED",
                !.pause = [kind |-> kind, until |-> until, of |-> mem.active]]

\* retry_usage_limited_run: the reported reset time is believed once.
Again == at.retried /\ mem.pause # NoPause
LimitHit ==
    /\ doing = "turn" /\ Saved /\ Quiet /\ InputsResolve
    /\ \E reported \in BOOLEAN :
        Save(Paused("USAGE_LIMIT", IF reported /\ ~Again THEN "reset" ELSE "interval"))
    /\ at' = [at EXCEPT !.retried = Again]
    /\ limits' = limits + 1
    /\ Goto("wait")
    /\ UNCHANGED <<disk, marked, kills, renewals, since>>

\* Any other run-wide blocker ends the process with exit code 75.
OtherBlocker ==
    /\ doing = "turn" /\ Saved /\ Quiet /\ InputsResolve
    /\ Save(Paused("OTHER", "none")) /\ limits' = limits + 1
    /\ at' = NoWork /\ Goto("paused")
    /\ UNCHANGED <<disk, marked, kills, renewals, since>>

\* What each place of the code raises an uncaught error about.
Refused ==
    \/ doing = "renew" /\ mem.phase = "EXHAUSTED" /\ ~MayRenew
    \/ doing = "choose" /\ Issue \notin at.selected \cup {NoIssue}
    \/ doing = "issue" /\ Retries /\ ~RetryFits
    \/ doing = "execute" /\ (at.pass > FinalPass \/ ~ReworkIsKnown)
    \/ doing = "turn" /\ ~InputsResolve

\* The process ends: an exit after a pause, or a raised error.
EndProcess ==
    /\ Saved
    /\ doing = "paused" \/ Refused
    /\ at' = NoWork /\ Goto("idle")
    /\ UNCHANGED <<mem, disk, marked, bounds, since>>

Crash ==
    /\ doing # "idle" /\ Quiet
    /\ mem' = disk
    /\ at' = NoWork /\ Goto("idle")
    /\ kills' = kills + 1
    /\ UNCHANGED <<disk, marked, limits, renewals, since>>

-----------------------------------------------------------------------------
RunInit ==
    /\ mem = EmptyState /\ disk = EmptyState
    /\ marked = {}
    /\ doing = "idle" /\ at = NoWork
    /\ kills = 0 /\ limits = 0 /\ renewals = 0
    /\ since = [i \in Issues |-> 1]

Step ==
    \/ WriteState
    \/ Resolve \/ Renew \/ WaitUntil
    \/ Project \/ ChargeFinished \/ ResumeReserved
    \/ ReserveNormal \/ ReserveBlocker \/ ScheduleEnds \/ EndPause \/ Charge
    \/ Leave \/ Review
    \/ Begin \/ LaunchStep \/ (\E o \in StepOutcomes : StepEnds(o)) \/ Mark
    \/ EndProcess

RunNext == LaunchRun \/ Step \/ LimitHit \/ OtherBlocker \/ Crash

RunSpec == RunInit /\ [][RunNext]_runVars

-----------------------------------------------------------------------------
(* Properties.                                                              *)

Tries == [id : Nat \ {0}, step : Steps, pass : 1..MaxPasses, outcome : StepOutcomes, by : Nat]
Attempts == [issue : Issues \cup {NoIssue}, ordinal : 0..5,
             phase : {"NONE", "NORMAL_SCHEDULING", "BLOCKER_RESOLUTION"}]
States == [
    status : [Issues -> {"NONE", "READY", "WAITING", "IN_PROGRESS"} \cup Final],
    cursor : [Issues -> Steps \cup {NoStep}], pass : [Issues -> 1..MaxPasses],
    path : [Issues -> Seq(Steps)], rework : [Issues -> Nat], tries : [Issues -> Seq(Tries)],
    running : [Issues -> [Steps -> Nat]], interrupted : [Issues -> SUBSET (Nat \ {0})],
    phase : {"NONE", "NORMAL_SCHEDULING", "BLOCKER_RESOLUTION", "COMPLETE", "EXHAUSTED",
             "RUN_PAUSED"},
    attempted : SUBSET Issues, extra : [Issues -> 0..Rounds],
    active : Attempts,
    pause : [kind : {"NONE", "USAGE_LIMIT", "OTHER"}, until : {"none", "reset", "interval"},
             of : Attempts]]

\* The type invariant.
RunTypeOK ==
    /\ mem \in States /\ disk \in States
    /\ marked \subseteq Issues
    /\ at.selected \subseteq Issues /\ at.done \subseteq Issues

\* Work on an issue starts only when every issue it is blocked by has finished
\* durably: its completion is in the state file or in its issue file
\* (DependencyScheduler.project with session_completed), so a crash cannot
\* leave an issue built on work that is undone (README.md:305).
DependenciesFirst ==
    doing = "turn" /\ Saved =>
        \A d \in Needs[Issue] : disk.status[d] = "COMPLETED" \/ d \in marked

\* A coder that runs while a request for changes is open is handed that request:
\* the latest one no coder attempt has succeeded after, through every resume and
\* retry of the same execution (pending_rework_attempt_id, rework_attempt_id).
Unmet(tries, first) ==
    {k \in first..Len(tries) :
        /\ tries[k].outcome = "CHANGES_REQUESTED"
        /\ ~\E l \in first..Len(tries) :
               l > k /\ tries[l].step \in Coders /\ tries[l].outcome = "SUCCEEDED"}
OpenRequest(tries, first) ==
    IF Unmet(tries, first) = {} THEN 0 ELSE tries[Max(Unmet(tries, first))].id
ReworkReachesTheCoder ==
    doing = "turn" /\ at.step \in Coders =>
        at.rework = OpenRequest(mem.tries[Issue], since[Issue])

\* No state a crash, a pause or an end leaves behind is one a later process refuses
\* with an error, except for three: the reservation of an issue whose file was marked
\* complete before the reservation was charged; a schedule written as exhausted while
\* a reservation was held, of an issue that is complete or that has no retry rounds;
\* and an issue whose last step gives a retry nowhere to go: its request for changes
\* leads to no step, or it succeeded when the passes were spent.
DeadEnd ==
    \/ doing = "choose" /\ Issue \in marked
    \/ doing = "renew" /\ (Rounds = 0 \/ mem.status[Issue] = "COMPLETED")
    \/ doing = "issue" /\ (RetryStep = NoStep \/ Latest(Issue).outcome = "SUCCEEDED")
ResumesUnlessDeadEnd == Saved /\ Refused => DeadEnd

\* The wait a step goes on after is one of its own reservation, and the process knows
\* that it has waited: only then is a limit a repeated one, whose reset time is no longer
\* believed ("A completed issue clears the pause; a later limit starts a new wait",
\* usage_limit_retry.py).  Through restarts, retries and other blockers, but for a crash
\* after an issue was completed and before clear_run_pause was written.
WaitsBelongToTheirIssue ==
    doing = "turn" /\ Saved /\ mem.pause.kind = "USAGE_LIMIT" =>
        /\ at.retried
        /\ \/ mem.pause.of = mem.active
           \/ kills > 0 /\ mem.status[mem.pause.of.issue] = "COMPLETED"

=============================================================================
