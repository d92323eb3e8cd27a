---------------------------- MODULE AgentProcess ----------------------------
(***************************************************************************)
(* One Workflow Step attempt on an Execution Backend, down to the          *)
(* processes it owns: the transient-retry loop of                          *)
(* portable_execution_backend/transient_retry.py, the streaming runs of    *)
(* claude_code.py and codex_cli.py, the Execution Budget watchers, and the *)
(* process-tree ownership of subprocess_utils.py on a POSIX system.  Four  *)
(* kinds of threads work on the same trees: the one that runs the attempt, *)
(* one watcher per process, the cleanup reaper and the control reader of a *)
(* portable worker (or the closing shell), which terminates what is owned. *)
(*                                                                         *)
(* A tree is its group leader and at most one descendant.  Time is not     *)
(* counted: a wait with a timeout ends at any moment, except that a leader *)
(* sent SIGKILL is gone before the grace period that follows it is over.   *)
(* The attempt's transcript is abstracted to what classification reads:    *)
(* the terminal event, the diagnostics and the exit status of each process.*)
(***************************************************************************)
EXTENDS Integers, FiniteSets

CONSTANTS
    MaxLaunches,     \* bound: processes of one attempt
    MaxEvents,       \* bound: descendants, silences, stop commands and Ctrl+C
    MaxReaps         \* PROCESS_TREE_REAPER_MAX_ATTEMPTS

ASSUME AttemptAssumption ==
    /\ MaxLaunches \in Nat \ {0} /\ MaxEvents \in Nat
    /\ MaxReaps \in Nat \ {0}

Procs == 1 .. MaxLaunches

\* The threads that may be inside terminate_process: the watcher of process p
\* is the caller p.
Main == 0
Control == -1
Reaper == -2
Callers == {Main, Control, Reaper} \cup Procs

Terminals == {"none", "completed", "errored", "denied"}
Diagnostics == {"clean", "transient", "limit"}
Live == {"running", "dying"}

VARIABLES
    backend,     \* which CLI serves the attempt
    leader,      \* the group leader of each process tree
    kid,         \* its descendant
    pipe,        \* the trees whose descendant inherited standard output
    said,        \* what the process that is read reported
    earlier,     \* the last terminal event of the attempt's earlier processes
    registered,  \* _ACTIVE_PROCESS_TREES
    stopped,     \* the trees marked as confirmed stopped
    asked,       \* ghost: the trees some thread decided to terminate
    call,        \* where each caller is in terminate_process
    main,        \* the attempt's own thread
    busy,        \* the running process has an active tool (active_tools)
    paused,      \* _checkpoint_paused of the attempt's budget
    quiet,       \* the inactivity window has run out
    deadline,    \* the attempt's hard deadline has passed
    watcher,     \* the processes whose watcher polls the budget
    expiry,      \* the budget of the process that is read reported an expiration
    reaper,      \* the cleanup reaper thread
    control,     \* the control reader thread
    events,      \* how many of the bounded events have happened
    result       \* the Step Outcome run_role returned or raised

tree == <<leader, kid, pipe, said, earlier>>
owned == <<registered, stopped, asked>>
clock == <<paused, quiet, deadline>>
guard == <<watcher, expiry>>
vars == <<backend, tree, owned, call, main, busy, clock, guard, reaper,
          control, events, result>>

Happens == events < MaxEvents /\ events' = events + 1

Silent == [term |-> "none", diag |-> "clean", exit |-> "none"]
Idle == [at |-> "off", p |-> 1, sure |-> TRUE]

Init ==
    /\ backend \in {"claude", "codex"}
    /\ leader = [p \in Procs |-> "none"] /\ kid = [p \in Procs |-> "none"]
    /\ pipe = {}
    /\ said = Silent /\ earlier = "none"
    /\ registered = {} /\ stopped = {} /\ asked = {}
    /\ call = [a \in Callers |-> Idle]
    /\ main = [at |-> "launch", p |-> 1, how |-> "none"]
    /\ busy = FALSE /\ paused = FALSE /\ quiet = FALSE /\ deadline = FALSE
    /\ watcher = {} /\ expiry = FALSE
    /\ reaper = [at |-> "off", left |-> 0, todo |-> {}]
    /\ control = [at |-> "listening", todo |-> {}, sure |-> TRUE]
    /\ events = 0
    /\ result = "none"

(***************************************************************************)
(* The tree, as the code sees it.                                          *)
(***************************************************************************)
Alive(p) == leader[p] \in Live \/ kid[p] \in Live

\* Fault: only the leader is looked at.
FaultStopped(p) == p \notin registered \/ leader[p] \notin Live

\* _process_tree_state: a member of the registered group that is not a zombie
\* keeps the tree running; an unregistered tree has no group and counts as
\* stopped.
Stopped(p) == p \notin registered \/ ~Alive(p)

\* AttemptExecutionBudget.expiration.
Expired == deadline \/ (quiet /\ ~paused)

\* killpg and the signal to the leader: a tree may ignore SIGTERM, not SIGKILL.
\* A signalled process is dying until the system has ended it.
Signalled(p, heeded) ==
    LET hit(m) == IF m = "running" /\ heeded THEN "dying" ELSE m
    IN  /\ leader' = IF Stopped(p) THEN leader
                     ELSE [leader EXCEPT ![p] = hit(@)]
        /\ kid' = IF Stopped(p) THEN kid ELSE [kid EXCEPT ![p] = hit(@)]

\* register_process_tree: the tree is owned from here on, or still is.
Registers(p) == registered' = registered \cup {p}

\* ProcessExecutionBudget: a watcher of its own polls the budget of a process.
Watches(p) == watcher' = watcher \cup {p}

\* A leader that has ended is kept as a zombie until its tree is released, so
\* that the number of its group cannot be taken by another process.
Retained(p) == leader' = [leader EXCEPT ![p] = "zombie"]

\* Marking the tree stopped, dropping its registration and reaping the leader
\* that was kept as a zombie.
Released(p) ==
    /\ stopped' = stopped \cup {p}
    /\ registered' = registered \ {p}
    /\ leader' = [leader EXCEPT ![p] = IF @ = "zombie" THEN "gone" ELSE @]

\* Releasing a tree only when all of it has stopped.
ReleasedIfStopped(p) ==
    IF Stopped(p) THEN Released(p) ELSE UNCHANGED <<stopped, registered, leader>>

\* Starting the reaper unless it is running already.
ReaperEnsured ==
    reaper' = IF reaper.at = "off"
              THEN [at |-> "snapshot", left |-> MaxReaps, todo |-> {}]
              ELSE reaper

(***************************************************************************)
(* The provider process and the operating system.                          *)
(***************************************************************************)
SpawnsKid(p) ==
    /\ Happens
    /\ leader[p] = "running" /\ kid[p] = "none"
    /\ kid' = [kid EXCEPT ![p] = "running"]
    /\ pipe' \in {pipe, pipe \cup {p}}
    /\ UNCHANGED <<backend, leader, said, earlier, owned, call, main, busy, clock,
                   guard, reaper, control, result>>

KidEnds(p) ==
    /\ kid[p] \in Live
    /\ kid' = [kid EXCEPT ![p] = "gone"] /\ pipe' = pipe \ {p}
    /\ UNCHANGED <<backend, leader, said, earlier, owned, call, main, busy,
                   clock, guard, reaper, control, events, result>>

\* What a process says matters while it is read, and a transient diagnostic when
\* it fails; the last process of the bound does not fail transiently.
MaySay(p, fails, diag) ==
    /\ p = main.p /\ main.at = "read" /\ said.term = "none"
    /\ diag = "transient" => fails /\ p < MaxLaunches

\* The terminal result of Claude, the turn outcome of Codex.  Only Claude
\* reports permission denials.
Speaks(p, term, diag) ==
    /\ leader[p] = "running" /\ MaySay(p, term = "errored", diag)
    /\ term # "none" /\ (term = "denied" => backend = "claude")
    /\ said' = [said EXCEPT !.term = term, !.diag = diag]
    /\ UNCHANGED <<backend, leader, kid, pipe, earlier, owned, call, main,
                   busy, clock, guard, reaper, control, events, result>>

\* The exit status counts only for a process that reported no terminal event.
Exits(p, code, diag) ==
    /\ leader[p] = "running" /\ Retained(p)
    /\ IF MaySay(p, code = "nonzero", diag)
       THEN said' = [said EXCEPT !.exit = code, !.diag = diag]
       ELSE code = "zero" /\ diag = "clean" /\ UNCHANGED said
    /\ UNCHANGED <<backend, kid, pipe, earlier, owned, call, main, busy,
                   clock, guard, reaper, control, events, result>>

\* A signalled leader ends with the signal as its exit status.
LeaderDies(p) ==
    /\ leader[p] = "dying" /\ Retained(p)
    /\ said' = IF p = main.p /\ said.term = "none"
               THEN [said EXCEPT !.exit = "killed"] ELSE said
    /\ UNCHANGED <<backend, kid, pipe, earlier, owned, call, main, busy,
                   clock, guard, reaper, control, events, result>>

InAttempt == result = "none" /\ main.at # "launch"

DeadlinePasses ==
    /\ result = "none" /\ ~deadline
    /\ deadline' = TRUE
    /\ UNCHANGED <<backend, tree, owned, call, main, busy, paused, quiet, guard,
                   reaper, control, events, result>>

GoesQuiet ==
    /\ Happens
    /\ InAttempt /\ ~quiet
    /\ quiet' = TRUE
    /\ UNCHANGED <<backend, tree, owned, call, main, busy, paused, deadline,
                   guard, reaper, control, result>>

(***************************************************************************)
(* terminate_process, run by any caller.  What follows a look at the tree  *)
(* at once is one step with it: SIGKILL when it is alive, the mark and the *)
(* release when it is not.                                                 *)
(***************************************************************************)
Begun(a, p) == [call EXCEPT ![a] = [at |-> "term", p |-> p, sure |-> TRUE]]

At(a, at) == call[a].at = at
Goes(a, at) == call' = [call EXCEPT ![a].at = at]
Returns(a, sure) ==    \* only the control reader uses the answer
    call' = [call EXCEPT ![a] = [Idle EXCEPT !.sure = a = Control => sure]]
Rest == <<backend, pipe, said, earlier, asked, main, busy, clock, guard, control,
          events, result>>

\* A tree confirmed as stopped is left alone; any other is registered, again
\* if need be, and sent SIGTERM.
TerminateBegins(a) ==
    LET p == call[a].p
    IN  /\ At(a, "term")
        /\ IF p \in stopped
           THEN Returns(a, TRUE) /\ UNCHANGED <<leader, kid, registered>>
           ELSE /\ Goes(a, "look") /\ \E heeded \in BOOLEAN : Signalled(p, heeded)
                /\ Registers(p)
        /\ UNCHANGED <<Rest, stopped, reaper>>

\* Fault: SIGTERM is taken for enough.
FaultTerminateLooks(a) ==
    /\ At(a, "look") /\ Returns(a, TRUE) /\ Released(call[a].p)
    /\ UNCHANGED <<Rest, kid, reaper>>

\* The tree is judged after the grace period of SIGTERM.
TerminateLooks(a) ==
    LET p == call[a].p
    IN  /\ At(a, "look")
        /\ IF Stopped(p)
           THEN Returns(a, TRUE) /\ Released(p) /\ UNCHANGED kid
           ELSE /\ Goes(a, "last look") /\ Signalled(p, TRUE)
                /\ UNCHANGED <<registered, stopped>>
        /\ UNCHANGED <<Rest, reaper>>

\* And after that of SIGKILL, which ends as soon as the leader is gone: a
\* descendant may still be dying then, and the reaper inherits the tree.
TerminateLooksLast(a) ==
    LET p == call[a].p
    IN  /\ At(a, "last look") /\ leader[p] # "dying"
        /\ IF Stopped(p) THEN Returns(a, TRUE) /\ Released(p) /\ UNCHANGED reaper
           ELSE /\ Returns(a, FALSE) /\ ReaperEnsured
                /\ UNCHANGED <<leader, registered, stopped>>
        /\ UNCHANGED <<Rest, kid>>

Terminate(a) == TerminateBegins(a) \/ TerminateLooks(a) \/ TerminateLooksLast(a)

(***************************************************************************)
(* The attempt's thread: the retry loop around one streaming run.          *)
(***************************************************************************)
Proc == main.p
MainGoes(at) == main' = [main EXCEPT !.at = at]
Others == <<backend, pipe, reaper, control, events>>

\* The transcript of the attempt is that of every process it took; its last
\* terminal event is the one the backend classifies.
LastTerm == IF said.term = "none" THEN earlier ELSE said.term

\* Popen; every process starts with no active tool of its own.
Launch ==
    /\ main.at = "launch" /\ MainGoes("own")
    /\ leader' = [leader EXCEPT ![Proc] = "running"]
    /\ busy' = FALSE /\ expiry' = FALSE
    /\ said' = Silent /\ earlier' = LastTerm
    /\ UNCHANGED <<Others, kid, owned, call, clock, watcher, result>>

\* The registration of the new tree and the start of its watcher.
Own ==
    /\ main.at = "own" /\ MainGoes("read")
    /\ Registers(Proc) /\ Watches(Proc)
    /\ UNCHANGED <<Others, leader, kid, said, earlier, stopped, asked, call, busy, clock,
                   expiry, result>>

Reading == main.at = "read" /\ leader[Proc] = "running" /\ said.term = "none"

\* A line is activity; a tool that starts pauses the checkpoint, and the last
\* one that completes opens a fresh inactivity window.
Line ==
    /\ Reading
    /\ \/ UNCHANGED <<busy, paused>>
       \/ ~busy /\ busy' = TRUE /\ paused' = TRUE
       \/ busy /\ busy' = FALSE /\ paused' = FALSE
    /\ quiet' = FALSE
    /\ UNCHANGED <<Others, leader, kid, said, earlier, owned, call, main, deadline, guard,
                   result>>

\* ProcessExecutionBudget.finish: the watcher stops polling (one inside
\* terminate_process is waited for a moment only) and the budget is read again.
Finishes(how, expired) ==
    /\ main' = [main EXCEPT !.at = "close", !.how = how]
    /\ watcher' = watcher \ {Proc}
    /\ expiry' = (expiry \/ expired)

\* After the terminal event the budget is finished and the tree terminated.
ReadTerminal ==
    /\ main.at = "read" /\ said.term # "none"
    /\ quiet' = FALSE
    /\ Finishes("event", deadline)
    /\ asked' = asked \cup {Proc} /\ call' = Begun(Main, Proc)
    /\ UNCHANGED <<Others, leader, kid, said, earlier, registered, stopped, busy, paused,
                   deadline, result>>

\* Standard output ends when nobody holds it, and the exit status is there.
ReadEnd ==
    /\ main.at = "read" /\ said.term = "none"
    /\ leader[Proc] \notin Live /\ (Proc \in pipe => kid[Proc] \notin Live)
    /\ Finishes("end", Expired)
    /\ UNCHANGED <<Others, leader, kid, said, earlier, owned, call, busy, clock, result>>

\* Ctrl+C terminates the tree before the budget is finished.
Interrupt ==
    /\ Happens
    /\ main.at = "read" /\ main' = [main EXCEPT !.at = "close", !.how = "interrupted"]
    /\ asked' = asked \cup {Proc} /\ call' = Begun(Main, Proc)
    /\ UNCHANGED <<backend, pipe, reaper, control, leader, kid, said, earlier, registered, stopped, busy, clock,
                   guard, result>>

\* A line reported to a stopping portable runtime raises, and the streaming run
\* is left without terminating its tree.
Stop ==
    /\ Reading /\ control.at # "listening"
    /\ Finishes("stopped", Expired)
    /\ UNCHANGED <<Others, leader, kid, said, earlier, owned, call, busy, clock, result>>

\* The end of the finally clause.
Close ==
    /\ main.at = "close" /\ At(Main, "off")
    /\ ReleasedIfStopped(Proc)
    /\ watcher' = watcher \ {Proc}
    /\ IF main.how \in {"interrupted", "stopped"}
       THEN MainGoes("done") /\ result' = main.how
       ELSE MainGoes("weigh") /\ UNCHANGED result
    /\ UNCHANGED <<Others, kid, said, earlier, asked, call, busy, clock, expiry>>

\* _terminal_returncode, or the exit status; an expiration overrules both.
Succeeded ==
    /\ ~expiry
    /\ IF main.how = "event" THEN said.term \in {"completed", "denied"}
       ELSE said.exit = "zero"

Retryable == said.diag = "transient"

\* run_role, in its order of precedence: the run-wide blocker, the permission
\* denial, the failure in the provider's words (Claude), the exit status, and
\* only then the role result of the message.  A process that was retried had no
\* run-wide blocker.
Outcomes(succeeded) ==
    IF said.diag = "limit" THEN {"run-wide"}
    ELSE IF \/ backend = "claude" /\ LastTerm \in {"denied", "errored"}
            \/ ~succeeded
         THEN {"BLOCKED"} ELSE {"PASS", "FAIL", "BLOCKED"}

Publish(succeeded) == MainGoes("done") /\ result' \in Outcomes(succeeded)

\* After each process: output counts as activity; an expired budget ends the
\* attempt, and so does success or a failure the backend does not call transient.
Weigh ==
    /\ main.at = "weigh"
    /\ \E spoke \in BOOLEAN :
          LET spent == deadline \/ (~spoke /\ quiet /\ ~paused)
          IN  /\ IF spent \/ Succeeded \/ ~Retryable
                 THEN Publish(~spent /\ Succeeded)
                 ELSE MainGoes("wait") /\ UNCHANGED result
              /\ quiet' = (quiet /\ ~spoke)
    /\ UNCHANGED <<Others, leader, kid, said, earlier, owned, call, busy, paused, deadline,
                   guard>>

\* wait_for_retry returns at the end of the delay, or as soon as the budget
\* has expired.
Wait ==
    /\ main.at = "wait"
    /\ IF Expired THEN Publish(FALSE)
       ELSE /\ main' = [at |-> "launch", p |-> Proc + 1, how |-> "none"]
            /\ UNCHANGED result
    /\ UNCHANGED <<Others, leader, kid, said, earlier, owned, call, busy, clock, guard>>

(***************************************************************************)
(* The budget's watcher, the cleanup reaper and the control reader.        *)
(***************************************************************************)
Quiescent == <<backend, pipe, said, leader, kid, registered, stopped,
               earlier, main, busy, clock, events, result>>

WatcherFires(p) ==
    /\ p \in watcher /\ Expired
    /\ watcher' = watcher \ {p}
    /\ expiry' = (expiry \/ p = main.p)
    /\ asked' = asked \cup {p}
    /\ call' = Begun(p, p)
    /\ UNCHANGED <<Quiescent, reaper, control>>

ReaperSnapshots ==
    /\ reaper.at = "snapshot"
    /\ reaper' = IF registered = {} THEN [reaper EXCEPT !.at = "off"]
                 ELSE [reaper EXCEPT !.at = "clearing", !.todo = registered]
    /\ UNCHANGED <<Quiescent, asked, call, guard, control>>

\* The reaper terminates whatever is registered when it looks.
ReaperTerminates(p) ==
    /\ reaper.at = "clearing" /\ p \in reaper.todo /\ At(Reaper, "off")
    /\ reaper' = [reaper EXCEPT !.todo = @ \ {p}]
    /\ call' = Begun(Reaper, p)
    /\ UNCHANGED <<Quiescent, asked, guard, control>>

ReaperRests ==
    /\ reaper.at = "clearing" /\ reaper.todo = {} /\ At(Reaper, "off")
    /\ reaper' = IF registered = {} \/ reaper.left = 1
                 THEN [reaper EXCEPT !.at = "off", !.left = 0]
                 ELSE [reaper EXCEPT !.at = "snapshot", !.left = @ - 1]
    /\ UNCHANGED <<Quiescent, asked, call, guard, control>>

\* terminate_active_process_trees, on Force Stop, Cancel or Shutdown.
ControlSnapshots ==
    /\ Happens
    /\ control.at = "listening"
    /\ control' = [at |-> "clearing", todo |-> registered, sure |-> TRUE]
    /\ UNCHANGED <<backend, tree, registered, stopped, main, busy, clock,
                   result, asked, call, guard, reaper>>

ControlTerminates(p) ==
    /\ control.at = "clearing" /\ p \in control.todo /\ At(Control, "off")
    /\ control' = [control EXCEPT !.todo = @ \ {p},
                                  !.sure = @ /\ call[Control].sure]
    /\ IF Stopped(p)
       THEN Released(p) /\ UNCHANGED <<asked, call>>
       ELSE /\ asked' = asked \cup {p} /\ call' = Begun(Control, p)
            /\ UNCHANGED <<stopped, registered, leader>>
    /\ UNCHANGED <<backend, pipe, said, earlier, kid, main, busy, clock,
                   events, result,
                   guard, reaper>>

\* The TERMINATION frame: confirmed when every tree of the snapshot was.
ControlAnswers ==
    /\ control.at = "clearing" /\ control.todo = {} /\ At(Control, "off")
    /\ control' = [control EXCEPT !.at = "answered",
                                  !.sure = @ /\ call[Control].sure]
    /\ IF control'.sure THEN UNCHANGED reaper ELSE ReaperEnsured
    /\ UNCHANGED <<Quiescent, asked, call, guard>>

MainStep ==
    \/ Launch \/ Own \/ ReadTerminal \/ ReadEnd \/ Close \/ Weigh \/ Wait

Next ==
    \/ MainStep \/ Line \/ Interrupt \/ Stop
    \/ \E p \in Procs :
          \/ SpawnsKid(p) \/ KidEnds(p) \/ LeaderDies(p) \/ WatcherFires(p)
          \/ ReaperTerminates(p) \/ ControlTerminates(p)
          \/ \E diag \in Diagnostics :
                \/ \E term \in Terminals : Speaks(p, term, diag)
                \/ \E code \in {"zero", "nonzero"} : Exits(p, code, diag)
    \/ \E a \in Callers : Terminate(a)
    \/ DeadlinePasses \/ GoesQuiet
    \/ ReaperSnapshots \/ ReaperRests
    \/ ControlSnapshots \/ ControlAnswers

Spec == Init /\ [][Next]_vars

\* A signalled process is ended by the system.
Dies == \E p \in Procs : LeaderDies(p) \/ (kid[p] = "dying" /\ KidEnds(p))

\* Threads run, signalled processes die, and time passes; a provider promises
\* nothing.  No thread takes infinitely many of these steps, so fairness to a
\* kind of step is fairness to each thread.
FairSpec ==
    /\ Spec
    /\ WF_vars(MainStep) /\ WF_vars(DeadlinePasses) /\ WF_vars(Dies)
    /\ WF_vars(\E p \in Procs : WatcherFires(p))
    /\ WF_vars(\E a \in Callers : Terminate(a))

(***************************************************************************)
(* Properties.                                                             *)
(***************************************************************************)
TypeOK ==
    /\ backend \in {"claude", "codex"}
    /\ leader \in [Procs -> {"none", "running", "dying", "zombie", "gone"}]
    /\ kid \in [Procs -> {"none", "running", "dying", "gone"}]
    /\ pipe \subseteq Procs /\ earlier \in Terminals
    /\ said \in [term : Terminals, diag : Diagnostics,
                 exit : {"none", "zero", "nonzero", "killed"}]
    /\ registered \subseteq Procs /\ stopped \subseteq Procs
    /\ asked \subseteq Procs /\ watcher \subseteq Procs
    /\ call \in [Callers -> [at : {"off", "term", "look", "last look"},
                            p : Procs, sure : BOOLEAN]]
    /\ main.p \in Procs
    /\ {expiry, busy, paused, quiet, deadline} \subseteq BOOLEAN
    /\ events \in 0 .. MaxEvents
    /\ reaper \in [at : {"off", "snapshot", "clearing"}, left : 0 .. MaxReaps,
                   todo : SUBSET Procs]
    /\ control \in [at : {"listening", "clearing", "answered"},
                    todo : SUBSET Procs, sure : BOOLEAN]

\* A tree marked as confirmed stopped, by whichever thread, has no process
\* left: the mark is what lets the catalog release the worktree, and after it
\* nobody signals the tree again.
StoppedTreesAreDead == \A p \in stopped : ~Alive(p)

\* An attempt ends whatever its provider does: a process that hangs, ignores
\* SIGTERM or leaves a descendant holding its output is ended by the budget.
AttemptEnds == <>(result # "none")

=============================================================================
