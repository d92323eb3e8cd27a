------------------------- MODULE SessionSupervisor -------------------------
(***************************************************************************)
(* The Portable Session Supervisor (portable_sessions.py) of one Dev Loop  *)
(* application: the intents of the UI thread, the capacity scheduler and   *)
(* the cleanup reaper, one stdout reader thread per worker generation, and *)
(* the worker processes (portable_worker.py).  They interleave at every    *)
(* release of the supervisor's one lock (self._condition); "launch" and    *)
(* "stopping" are the two places where a method is visible half done.      *)
(*                                                                         *)
(* The catalog appears as what this application sees of it: its leases,    *)
(* its claims and its line, first-come first-served as                     *)
(* CatalogAdmission shows.  Every session has a checkout of its own.       *)
(***************************************************************************)
EXTENDS Naturals, FiniteSets, Sequences

CONSTANTS
    Sessions,       \* session identifiers
    Slots,          \* the user-wide concurrency limit
    MaxGen,         \* bound of the model: worker generations per session
    CleanupFails,   \* the sessions whose worker tree may not be confirmed gone
    RenewFails,     \* the sessions whose lease renewal may raise
    OthersCompete   \* whether other applications may hold the free slots

ASSUME SlotsAssumption == Slots \in Nat \ {0}
ASSUME MaxGenAssumption == MaxGen \in Nat \ {0}
ASSUME FailureAssumption ==
    CleanupFails \cup RenewFails \subseteq Sessions /\ OthersCompete \in BOOLEAN
ASSUME SupervisedAssumption == IsFiniteSet(Sessions)

Gens == 1..MaxGen
Confirmations(s) == IF s \in CleanupFails THEN BOOLEAN ELSE {TRUE}
Terminal == {"COMPLETED", "FAILED", "CANCELLED"}
Status == Terminal \cup {"NONE", "READY", "QUEUED", "RUNNING", "WAITING_FOR_INPUT",
                         "PAUSING", "PAUSED", "INTERRUPTED"}
Executing == {"RUNNING", "PAUSING", "QUEUED"}   \* statuses that keep capacity

VARIABLES
    phase,      \* the application: open, pausing and stopping (shutdown), gone
    status,     \* _snapshots: the status of each session
    leased,     \* the sessions whose worktree this application leases
    bound,      \* the worker generation bound to the lease, 0 before the bind
    claimed,    \* the sessions that hold an execution claim
    line,       \* execution_requests in queue order
    queued,     \* _queued: a launch or an answer waiting for capacity
    entry,      \* _running: the record of the current worker
    run,        \* every worker generation: process, pipes and reader thread
    used,       \* the generations launched so far
    launch,     \* the launch in progress (the lock is held throughout)
    stopping    \* the command _terminate_session is waiting on, if any

capacity == <<claimed, line>>
ownership == <<leased, bound>>
catalog == <<capacity, ownership>>
vars == <<phase, status, catalog, queued, entry, run, used, launch, stopping>>

Idle == [kind |-> "none", gen |-> 0]
NoEntry == [gen |-> 0, tried |-> FALSE, stop |-> FALSE, pending |-> "none",
            checkpoint |-> FALSE, rollback |-> "none"]
NoRun == [proc |-> "none", duty |-> "working", sent |-> "none", life |-> "none",
          input |-> 0, reader |-> "off"]

(* tried: a termination attempt failed and the reaper retries it; stop:    *)
(* stop_requested; pending: pending_lifecycle; rollback: the kind of a     *)
(* failed launch that awaits the cleanup to be rolled back or failed.      *)
Entry == [gen : Gens \cup {0}, tried : BOOLEAN, stop : BOOLEAN,
          pending : {"none", "PAUSE", "STOP"}, checkpoint : BOOLEAN, rollback : {"none", "start", "resume"}]
(* proc: "exited" once the root process ended, "stopped" once its whole    *)
(* tree is confirmed terminated; sent: the unread frame in the event pipe  *)
(* (bound of the model: one); life and input: what the command pipe holds, *)
(* the input named by the generation whose request it answers.             *)
Run == [proc : {"none", "up", "exited", "stopped"},
        duty : {"working", "asking", "ended"},
        sent : {"none", "INPUT_REQUEST", "CHECKPOINT", "CHECKPOINT_FAILURE",
                "COMPLETION", "FAILURE"},
        life : {"none", "PAUSE", "STOP"}, input : Gens \cup {0},
        reader : {"off", "reading", "lost", "failing", "closing", "reaped", "unreaped", "done"}]

Init ==
    /\ phase = "open"
    /\ status = [s \in Sessions |-> "NONE"]
    /\ leased = {} /\ bound = [s \in Sessions |-> 0]
    /\ claimed = {} /\ line = <<>>
    /\ queued = [s \in Sessions |-> Idle]
    /\ entry = [s \in Sessions |-> NoEntry]
    /\ run = [s \in Sessions |-> [g \in Gens |-> NoRun]]
    /\ used = [s \in Sessions |-> 0]
    /\ launch = [s \in Sessions |-> "none"]
    /\ stopping = [s \in Sessions |-> "none"]

-----------------------------------------------------------------------------
(* Guards and effects shared by the methods.                               *)

LockFree == phase # "gone" /\ \A s \in Sessions : launch[s] = "none"
UIFree == LockFree /\ \A s \in Sessions : stopping[s] = "none"
Running(s) == entry[s] # NoEntry
Worker(s) == run[s][entry[s].gen]
Live(s, g) == run[s][g].proc \in {"up", "exited"}

Without(s) == SelectSeq(line, LAMBDA t : t # s)
InLine(s) == \E i \in 1..Len(line) : line[i] = s
FaultGrantableOffByOne(s) ==
    s \in claimed \/ (Cardinality(claimed) <= Slots /\ (line # <<>> => Head(line) = s))
Grantable(s) ==
    \/ s \in claimed
    \/ Cardinality(claimed) < Slots /\ (line # <<>> => Head(line) = s)
(* The slots are the machine's: another application may have taken them.   *)
Refusable(s) == s \notin claimed /\ (OthersCompete \/ ~Grantable(s))

(* The Fault... definitions of this module are plausible bugs of the        *)
(* definition that follows them, used to show that a property can fail.    *)
Grant(s) == claimed' = claimed \cup {s} /\ line' = Without(s)
JoinLine(s) ==
    /\ line' = IF InLine(s) THEN line ELSE Append(line, s)
    /\ UNCHANGED claimed
ReleaseCapacity(s) == claimed' = claimed \ {s} /\ line' = Without(s)
ReleaseLease(s) == leased' = leased \ {s} /\ bound' = [bound EXCEPT ![s] = 0]

Becomes(s, st) == status' = [status EXCEPT ![s] = st]
Dequeue(s) == queued' = [queued EXCEPT ![s] = Idle]
Sets(s, g, w) == run' = [run EXCEPT ![s][g] = w]

(* terminate_process and its bookkeeping: a confirmed stop removes the     *)
(* worker from _running, anything else keeps it there for the reaper.      *)
FaultTryStopForgets(s, e, ok) ==
    /\ run' = IF ok THEN [run EXCEPT ![s][e.gen].proc = "stopped"] ELSE run
    /\ entry' = [entry EXCEPT ![s] = NoEntry]
TryStop(s, e, ok) ==
    /\ run' = IF ok THEN [run EXCEPT ![s][e.gen].proc = "stopped"] ELSE run
    /\ entry' = [entry EXCEPT ![s] = IF ok THEN NoEntry ELSE [e EXCEPT !.tried = TRUE]]

FailSession(s, e, st, ok) ==
    /\ Becomes(s, IF st = "PAUSING" THEN "INTERRUPTED" ELSE "FAILED")
    /\ TryStop(s, e, ok)

-----------------------------------------------------------------------------
(* Starting and resuming.                                                  *)

Schedule(s, kind) ==
    \/ /\ Grantable(s) /\ Grant(s)
       /\ Becomes(s, "RUNNING")
       /\ launch' = [launch EXCEPT ![s] = kind]
       /\ UNCHANGED queued
    \/ /\ Refusable(s) /\ JoinLine(s)
       /\ Becomes(s, "QUEUED")
       /\ queued' = [queued EXCEPT ![s] = [kind |-> kind, gen |-> 0]]
       /\ UNCHANGED launch

StartSession(s) ==
    /\ phase = "open" /\ UIFree
    /\ status[s] = "NONE" /\ used[s] < MaxGen
    /\ leased' = leased \cup {s}
    /\ Schedule(s, "start")
    /\ UNCHANGED <<phase, bound, entry, run, used, stopping>>

(* The UI offers Resume in these statuses.  A session with a worker waits  *)
(* for it to go; a lease that is still bound to a worker is a conflict.    *)
ResumeSession(s) ==
    /\ phase = "open" /\ UIFree
    /\ status[s] \in {"READY", "PAUSED", "INTERRUPTED"} /\ used[s] < MaxGen
    /\ ~Running(s)
    /\ s \in leased => bound[s] = 0
    /\ leased' = leased \cup {s}
    /\ Schedule(s, "resume")
    /\ UNCHANGED <<phase, bound, entry, run, used, stopping>>

(* The worker is spawned, RUNNING is recorded and START is written ...     *)
Spawned == [NoRun EXCEPT !.proc = "up"]
LaunchStarts(s) ==
    /\ phase # "gone" /\ launch[s] # "none" /\ ~Running(s)
    /\ used' = [used EXCEPT ![s] = @ + 1]
    /\ entry' = [entry EXCEPT ![s] = [NoEntry EXCEPT !.gen = used[s] + 1]]
    /\ Sets(s, used[s] + 1, Spawned)
    /\ UNCHANGED <<phase, status, catalog, queued, launch, stopping>>

(* ... or it is not, and the session fails before it has a process.        *)
LaunchRefused(s) ==
    /\ phase # "gone" /\ launch[s] # "none" /\ ~Running(s)
    /\ Becomes(s, "FAILED")
    /\ ReleaseCapacity(s) /\ ReleaseLease(s)
    /\ launch' = [launch EXCEPT ![s] = "none"]
    /\ UNCHANGED <<phase, queued, entry, run, used, stopping>>

LaunchBinds(s) ==
    /\ phase # "gone" /\ launch[s] # "none" /\ Running(s)
    /\ bound' = [bound EXCEPT ![s] = entry[s].gen]
    /\ Sets(s, entry[s].gen, [Worker(s) EXCEPT !.reader = "reading"])
    /\ launch' = [launch EXCEPT ![s] = "none"]
    /\ UNCHANGED <<phase, status, leased, capacity, queued, entry, used, stopping>>

(* A failed launch is finalized once the worker tree is gone: a new        *)
(* session is rolled back, an old one fails.                               *)
FaultFinalizeKeepsLease(s, kind) ==
    /\ Becomes(s, IF kind = "start" THEN "NONE" ELSE "FAILED")
    /\ ReleaseCapacity(s) /\ UNCHANGED ownership
FinalizeFailedLaunch(s, kind) ==
    /\ Becomes(s, IF kind = "start" THEN "NONE" ELSE "FAILED")
    /\ ReleaseCapacity(s) /\ ReleaseLease(s)

LaunchBreaks(s, ok) ==
    /\ phase # "gone" /\ launch[s] # "none" /\ Running(s)
    /\ TryStop(s, [entry[s] EXCEPT !.stop = TRUE, !.rollback = launch[s]], ok)
    /\ \/ ok /\ FinalizeFailedLaunch(s, launch[s])
       \/ ~ok /\ Becomes(s, "INTERRUPTED") /\ UNCHANGED catalog
    /\ launch' = [launch EXCEPT ![s] = "none"]
    /\ UNCHANGED <<phase, queued, used, stopping>>

-----------------------------------------------------------------------------
(* Pausing.  The stdin of a worker whose reader has reaped it is closed:   *)
(* the write then raises ValueError, which pause_session does not catch.   *)

PauseSession(s) ==
    LET e == [entry[s] EXCEPT !.pending = "PAUSE"]
        w == Worker(s)
    IN
    /\ status[s] \notin Terminal \cup {"NONE", "PAUSING", "PAUSED"}
    /\ Dequeue(s)
    /\ \/ /\ ~Running(s) /\ queued[s] # Idle
          /\ Becomes(s, "PAUSED")
          /\ ReleaseCapacity(s) /\ ReleaseLease(s)
          /\ UNCHANGED <<entry, run>>
       \/ /\ Running(s) /\ w.proc = "up"
          /\ Becomes(s, "PAUSING")
          /\ entry' = [entry EXCEPT ![s] = e]
          /\ Sets(s, e.gen, [w EXCEPT !.life = IF @ = "none" THEN "PAUSE" ELSE @])
          /\ UNCHANGED catalog
       \/ /\ Running(s) /\ w.proc # "up" /\ w.reader # "reaped"
          /\ \E ok \in Confirmations(s) : FailSession(s, e, "PAUSING", ok)
          /\ UNCHANGED catalog
       \/ /\ Running(s) /\ w.proc # "up" /\ w.reader = "reaped"
          /\ Becomes(s, "PAUSING")
          /\ entry' = [entry EXCEPT ![s] = e]
          /\ UNCHANGED <<run, catalog>>
    /\ UNCHANGED <<phase, used, launch, stopping>>

-----------------------------------------------------------------------------
(* Force Stop and Cancel: _terminate_session writes the command, then      *)
(* waits without the lock for an acknowledgement, an exit or a deadline.   *)

Stopped(kind) == IF kind = "CANCEL" THEN "CANCELLED" ELSE "INTERRUPTED"

(* The outcome once the worker is gone: popped, persisted, released.       *)
Ended(s, kind) ==
    /\ Becomes(s, Stopped(kind))
    /\ entry' = [entry EXCEPT ![s] = NoEntry]
    /\ ReleaseCapacity(s) /\ ReleaseLease(s)

(* The outcome when its tree is not confirmed gone: everything retained.   *)
Retained(s, e) ==
    /\ s \in CleanupFails
    /\ Becomes(s, "INTERRUPTED")
    /\ entry' = [entry EXCEPT ![s] = [e EXCEPT !.tried = TRUE]]
    /\ UNCHANGED <<run, catalog>>

TerminateBegins(s, kind) ==
    /\ status[s] \notin Terminal \cup {"NONE"}
    /\ Running(s) /\ Worker(s).proc = "up"
    /\ Dequeue(s)
    /\ entry' = [entry EXCEPT ![s] = [@ EXCEPT !.stop = TRUE, !.pending = "STOP"]]
    /\ Sets(s, entry[s].gen, [Worker(s) EXCEPT !.life = IF @ = "none" THEN "STOP" ELSE @])
    /\ stopping' = [stopping EXCEPT ![s] = kind]
    /\ UNCHANGED <<phase, status, catalog, used, launch>>

(* No generation is launched meanwhile, so the last one is the awaited one. *)
TerminateEnds(s) ==
    LET g == used[s] IN
    /\ LockFree /\ stopping[s] # "none"
    /\ stopping' = [stopping EXCEPT ![s] = "none"]
    /\ \/ Ended(s, stopping[s]) /\ Sets(s, g, [run[s][g] EXCEPT !.proc = "stopped"])
       \/ Running(s) /\ Live(s, g) /\ Retained(s, entry[s])
    /\ UNCHANGED <<phase, queued, used, launch>>

(* Without a live root process nothing is awaited.                         *)
TerminateNow(s, kind) ==
    /\ status[s] \notin Terminal \cup {"NONE"}
    /\ Dequeue(s)
    /\ \/ /\ ~Running(s) /\ queued[s] # Idle
          /\ Ended(s, kind) /\ UNCHANGED run
       \/ /\ ~Running(s) /\ queued[s] = Idle
          /\ kind = "CANCEL" /\ status[s] \in {"PAUSED", "INTERRUPTED"}
          /\ Ended(s, kind) /\ UNCHANGED run
       \/ /\ Running(s) /\ Worker(s).proc # "up"
          /\ Ended(s, kind) /\ Sets(s, entry[s].gen, [Worker(s) EXCEPT !.proc = "stopped"])
       \/ /\ Running(s) /\ Worker(s).proc = "exited"
          /\ Retained(s, entry[s])
    /\ UNCHANGED <<phase, used, launch, stopping>>

(* The lifecycle actions the UI offers in a status.                        *)
Offered(s) ==
    (IF status[s] \in {"QUEUED", "RUNNING", "WAITING_FOR_INPUT"}
     THEN {"PAUSE", "FORCE_STOP", "CANCEL"} ELSE {})
    \cup (IF status[s] \in {"PAUSED", "INTERRUPTED"} THEN {"CANCEL"} ELSE {})

UserPauses(s) ==
    /\ phase = "open" /\ UIFree /\ "PAUSE" \in Offered(s)
    /\ PauseSession(s)

UserStops(s, kind) ==
    /\ phase = "open" /\ UIFree /\ kind \in Offered(s)
    /\ TerminateBegins(s, kind) \/ TerminateNow(s, kind)

(* Application exit pauses every live session it has not been told to      *)
(* stop, then terminates those that are still running at the deadline.     *)
ShutdownBegins ==
    /\ phase = "open" /\ UIFree
    /\ phase' = "pausing"
    /\ UNCHANGED <<status, catalog, queued, entry, run, used, launch, stopping>>

ShutdownPauses(s) ==
    /\ phase = "pausing" /\ LockFree /\ ~entry[s].stop
    /\ PauseSession(s)

ShutdownDeadline ==
    /\ phase = "pausing" /\ LockFree
    /\ phase' = "stopping"
    /\ UNCHANGED <<status, catalog, queued, entry, run, used, launch, stopping>>

ShutdownTerminates(s) ==
    /\ phase = "stopping" /\ UIFree /\ Running(s)
    /\ TerminateBegins(s, "SHUTDOWN") \/ TerminateNow(s, "SHUTDOWN")

-----------------------------------------------------------------------------
(* Answers, the capacity scheduler and the cleanup reaper.                 *)

ProvideInput(s) ==
    /\ phase = "open" /\ UIFree
    /\ status[s] = "WAITING_FOR_INPUT" /\ Running(s)
    /\ s \in leased /\ s \notin claimed
    /\ JoinLine(s)
    /\ queued' = [queued EXCEPT ![s] = [kind |-> "input", gen |-> entry[s].gen]]
    /\ Becomes(s, "QUEUED")
    /\ UNCHANGED <<phase, ownership, entry, run, used, launch, stopping>>

Polls(s) == phase = "open" /\ LockFree /\ queued[s] # Idle
MayAsk(s) == s \in leased /\ status[s] \notin Terminal

(* The catalog refuses the request of a session that lost its lease or     *)
(* ended: the session fails and its place in _queued is gone.              *)
SchedulerRefused(s) ==
    /\ Polls(s) /\ ~MayAsk(s)
    /\ Dequeue(s)
    /\ Becomes(s, "FAILED")
    /\ IF Running(s) THEN UNCHANGED capacity ELSE ReleaseCapacity(s)
    /\ UNCHANGED <<phase, ownership, entry, run, used, launch, stopping>>

(* Asking joins the line anew when an earlier release left it.             *)
SchedulerWaits(s) ==
    /\ Polls(s) /\ MayAsk(s) /\ Refusable(s) /\ ~InLine(s)
    /\ JoinLine(s)
    /\ UNCHANGED <<phase, status, ownership, queued, entry, run, used, launch, stopping>>

SchedulerLaunches(s) ==
    /\ Polls(s) /\ MayAsk(s) /\ Grantable(s) /\ queued[s].kind # "input"
    /\ used[s] < MaxGen
    /\ Grant(s) /\ Dequeue(s)
    /\ Becomes(s, "RUNNING")
    /\ launch' = [launch EXCEPT ![s] = queued[s].kind]
    /\ UNCHANGED <<phase, ownership, entry, run, used, stopping>>

SchedulerAnswers(s) ==
    /\ Polls(s) /\ MayAsk(s) /\ Grantable(s) /\ queued[s].kind = "input"
    /\ Dequeue(s)
    /\ \/ /\ ~Running(s)
          /\ Becomes(s, "FAILED") /\ ReleaseCapacity(s)
          /\ UNCHANGED <<entry, run>>
       \/ /\ Running(s) /\ Worker(s).proc = "up"
          /\ Becomes(s, "RUNNING") /\ Grant(s)
          /\ Sets(s, entry[s].gen, [Worker(s) EXCEPT !.input = queued[s].gen])
          /\ UNCHANGED entry
       \/ /\ Running(s) /\ Worker(s).proc # "up" /\ Grant(s)
          /\ \E ok \in Confirmations(s) : FailSession(s, entry[s], status[s], ok)
    /\ UNCHANGED <<phase, ownership, used, launch, stopping>>

MayRetry(s) == status[s] \in Terminal \cup {"INTERRUPTED"}

RetryWorkerCleanup(s) ==
    /\ LockFree
    /\ entry[s].tried /\ MayRetry(s)
    /\ Live(s, entry[s].gen)
    /\ TryStop(s, entry[s], TRUE)
    /\ IF entry[s].rollback # "none"
       THEN FinalizeFailedLaunch(s, entry[s].rollback)
       ELSE ReleaseCapacity(s) /\ ReleaseLease(s) /\ UNCHANGED status
    /\ UNCHANGED <<phase, queued, used, launch, stopping>>

-----------------------------------------------------------------------------
(* The worker.  Its control reader returns after the first lifecycle       *)
(* command, so only the first one ever reaches it.                         *)

WorkerOnly == UNCHANGED <<phase, status, catalog, queued, entry, used, launch, stopping>>
Emits(s, g, kind, duty) ==
    /\ run[s][g].sent = "none"
    /\ Sets(s, g, [run[s][g] EXCEPT !.sent = kind, !.duty = duty])
    /\ WorkerOnly

WorkerAsks(s, g) ==
    /\ phase # "gone" /\ run[s][g].proc = "up" /\ run[s][g].duty = "working"
    /\ Emits(s, g, "INPUT_REQUEST", "asking")

(* An answer to a request of another generation is a protocol error.       *)
WorkerAnswered(s, g) ==
    /\ phase # "gone" /\ run[s][g].proc = "up" /\ run[s][g].duty = "asking"
    /\ run[s][g].input # 0
    /\ \/ /\ run[s][g].input = g
          /\ Sets(s, g, [run[s][g] EXCEPT !.duty = "working", !.input = 0])
          /\ WorkerOnly
       \/ (run[s][g].input # g /\ Emits(s, g, "FAILURE", "ended"))

(* The evidence of a checkpoint is captured, or it is not durable.         *)
Captured == {"CHECKPOINT", "CHECKPOINT_FAILURE"}
WorkerPauses(s, g) ==
    /\ phase # "gone" /\ run[s][g].proc = "up"
    /\ run[s][g].duty = "working" \/ (run[s][g].duty = "asking" /\ run[s][g].input = 0)
    /\ run[s][g].life = "PAUSE"
    /\ \E kind \in Captured : Emits(s, g, kind, "ended")

(* The operation returns, or raises: an exception is a FAILURE even when a *)
(* Pause has been received.                                                *)
WorkerFinishes(s, g) ==
    /\ phase # "gone" /\ run[s][g].proc = "up" /\ run[s][g].duty = "working"
    /\ \/ run[s][g].life = "none" /\ Emits(s, g, "COMPLETION", "ended")
       \/ Emits(s, g, "FAILURE", "ended")

(* A process may crash at any time, and outlives its application.          *)
WorkerExits(s, g) ==
    /\ run[s][g].proc = "up"
    /\ Sets(s, g, [run[s][g] EXCEPT !.proc = "exited", !.duty = "ended"])
    /\ WorkerOnly

-----------------------------------------------------------------------------
(* The stdout reader of one worker generation.                             *)

Mine(s, g) == Running(s) /\ entry[s].gen = g
Reads(s, g) == LockFree /\ run[s][g].reader = "reading" /\ run[s][g].sent # "none"
Heard(s, g, reader) == [run[s][g] EXCEPT !.sent = "none", !.reader = reader]
ReaderFrame == UNCHANGED <<phase, ownership, queued, used, launch, stopping>>

FrameRefused(s, g) ==
    /\ Reads(s, g)
    /\ ~Mine(s, g) \/ status[s] \in Terminal
    /\ Sets(s, g, Heard(s, g, "closing"))
    /\ UNCHANGED <<status, capacity, entry>> /\ ReaderFrame

Acknowledges(kind, pending) ==
    pending = "PAUSE" /\ kind \in {"CHECKPOINT", "CHECKPOINT_FAILURE"}
Applies(s, g) ==
    /\ Reads(s, g) /\ Mine(s, g) /\ status[s] \notin Terminal
    /\ \/ entry[s].pending = "none"
       \/ Acknowledges(run[s][g].sent, entry[s].pending)

(* While a lifecycle command is pending every other frame is dropped; the  *)
(* reader still returns after a frame that ends a worker.                  *)
FrameIgnored(s, g) ==
    /\ Reads(s, g) /\ Mine(s, g) /\ status[s] \notin Terminal
    /\ entry[s].pending # "none"
    /\ ~Acknowledges(run[s][g].sent, entry[s].pending)
    /\ Sets(s, g, Heard(s, g, IF run[s][g].sent = "INPUT_REQUEST" THEN "reading" ELSE "closing"))
    /\ UNCHANGED <<status, capacity, entry>> /\ ReaderFrame

FrameInputRequest(s, g) ==
    /\ Applies(s, g) /\ run[s][g].sent = "INPUT_REQUEST"
    /\ Becomes(s, "WAITING_FOR_INPUT")
    /\ ReleaseCapacity(s)
    /\ Sets(s, g, Heard(s, g, "reading"))
    /\ UNCHANGED entry /\ ReaderFrame

FrameCheckpoint(s, g) ==
    /\ Applies(s, g) /\ run[s][g].sent = "CHECKPOINT"
    /\ status[s] = "PAUSING"
    /\ entry' = [entry EXCEPT ![s].checkpoint = TRUE]
    /\ Sets(s, g, Heard(s, g, "closing"))
    /\ UNCHANGED <<status, capacity>> /\ ReaderFrame

FrameCheckpointFailure(s, g) ==
    /\ Applies(s, g) /\ run[s][g].sent = "CHECKPOINT_FAILURE"
    /\ status[s] = "PAUSING"
    /\ Becomes(s, "INTERRUPTED")
    /\ Sets(s, g, Heard(s, g, "closing"))
    /\ UNCHANGED <<capacity, entry>> /\ ReaderFrame

(* A terminal frame is applied once stderr is drained, or at a deadline.   *)
Results(kind) ==
    CASE kind = "COMPLETION" -> {"COMPLETED", "FAILED", "READY"}
      [] kind = "FAILURE" -> {"FAILED"}
      [] OTHER -> {}
FrameTerminal(s, g) ==
    /\ Applies(s, g)
    /\ \E st \in Results(run[s][g].sent) : Becomes(s, st)
    /\ entry' = [entry EXCEPT ![s].stop = TRUE]
    /\ Sets(s, g, Heard(s, g, "closing"))
    /\ UNCHANGED capacity /\ ReaderFrame

(* A frame whose payload or checkpoint evidence is invalid.                *)
FrameInvalid(s, g) ==
    /\ Applies(s, g)
    /\ Sets(s, g, Heard(s, g, "failing"))
    /\ UNCHANGED <<status, capacity, entry>> /\ ReaderFrame

(* The pipe is drained: the reader decides without the lock whether the    *)
(* exit was unexpected.                                                    *)
FaultUnexpectedSwapped(s, g) ==
    Mine(s, g) /\ ~entry[s].stop /\ status[s] \in Terminal \cup {"PAUSING", "INTERRUPTED"}
Unexpected(s, g) ==
    /\ Mine(s, g) /\ ~entry[s].stop
    /\ status[s] \notin Terminal \cup {"PAUSING", "INTERRUPTED"}

ReaderAtEnd(s, g) ==
    /\ LockFree /\ run[s][g].reader = "reading"
    /\ run[s][g].sent = "none" /\ run[s][g].proc \in {"exited", "stopped"}
    /\ Sets(s, g, [run[s][g] EXCEPT !.reader = IF Unexpected(s, g) THEN "lost" ELSE "closing"])
    /\ UNCHANGED <<status, capacity, entry>> /\ ReaderFrame

(* _interrupt_session and _fail_session act on what the reader decided.    *)
ReaderQuits(s, g, st, ok) ==
    /\ LockFree
    /\ IF Mine(s, g) /\ status[s] \notin Terminal
       THEN /\ Becomes(s, st)
            /\ entry' = [entry EXCEPT ![s] = IF ok THEN NoEntry ELSE [@ EXCEPT !.tried = TRUE]]
            /\ Sets(s, g, [run[s][g] EXCEPT !.reader = "closing",
                                            !.proc = IF ok THEN "stopped" ELSE @])
       ELSE /\ Sets(s, g, [run[s][g] EXCEPT !.reader = "closing"])
            /\ UNCHANGED <<status, entry>>
    /\ UNCHANGED capacity /\ ReaderFrame

InterruptSession(s, g) ==
    /\ run[s][g].reader = "lost"
    /\ \E ok \in Confirmations(s) : ReaderQuits(s, g, "INTERRUPTED", ok)

FailWorker(s, g) ==
    /\ run[s][g].reader = "failing"
    /\ \E ok \in Confirmations(s) :
          ReaderQuits(s, g, IF status[s] = "PAUSING" THEN "INTERRUPTED" ELSE "FAILED", ok)

(* A catalog error while a heartbeat renews the lease ends the reader.     *)
HeartbeatRaises(s, g) ==
    /\ s \in RenewFails
    /\ LockFree /\ run[s][g].reader = "reading" /\ run[s][g].proc = "up"
    /\ Mine(s, g) /\ status[s] \notin Terminal
    /\ Sets(s, g, [run[s][g] EXCEPT !.reader = "closing"])
    /\ UNCHANGED <<status, capacity, entry>> /\ ReaderFrame

(* The finally block: the reader terminates the worker without the lock... *)
ReaderReaps(s, g, ok) ==
    /\ phase # "gone" /\ run[s][g].reader = "closing"
    /\ run[s][g].proc = "stopped" => ok
    /\ Sets(s, g, [run[s][g] EXCEPT !.reader = IF ok THEN "reaped" ELSE "unreaped",
                                    !.proc = IF ok THEN "stopped" ELSE @])
    /\ WorkerOnly

(* ... and settles the session with it, which is released unless it has a  *)
(* worker (another one, or one that is not confirmed gone).                *)
FaultReleasableUnchecked(s, g, left, outcome) ==
    run[s][g].proc = "stopped" /\ outcome \notin Executing
Releasable(s, g, left, outcome) ==
    left /\ run[s][g].proc = "stopped" /\ outcome \notin Executing

ReaderSettles(s, g) ==
    LET reaped == run[s][g].reader = "reaped"
        paused == Mine(s, g) /\ entry[s].checkpoint
        over == /\ Mine(s, g) /\ ~paused
                /\ entry[s].stop \/ status[s] \in Terminal \cup {"INTERRUPTED"}
        left == ~Running(s) \/ (reaped /\ (paused \/ over))
        outcome == IF ~paused THEN status[s] ELSE IF reaped THEN "PAUSED" ELSE "INTERRUPTED"
    IN
    /\ LockFree /\ run[s][g].reader \in {"reaped", "unreaped"}
    /\ Becomes(s, outcome)
    /\ entry' = [entry EXCEPT ![s] = IF left THEN NoEntry
                                     ELSE IF Mine(s, g) /\ ~reaped THEN [@ EXCEPT !.tried = TRUE]
                                     ELSE @]
    /\ IF Releasable(s, g, left, outcome)
       THEN ReleaseCapacity(s) /\ ReleaseLease(s)
       ELSE UNCHANGED catalog
    /\ Sets(s, g, [run[s][g] EXCEPT !.reader = "done"])
    /\ UNCHANGED <<phase, queued, used, launch, stopping>>

-----------------------------------------------------------------------------
(* The application crashes, or exits after a shutdown.                     *)
ApplicationEnds ==
    /\ phase # "gone"
    /\ phase' = "gone"
    /\ UNCHANGED <<status, catalog, queued, entry, run, used, launch, stopping>>

Intents(s) ==
    \/ StartSession(s) \/ ResumeSession(s) \/ UserPauses(s) \/ ProvideInput(s)
    \/ \E kind \in {"FORCE_STOP", "CANCEL"} : UserStops(s, kind)
Stopping(s) == TerminateEnds(s) \/ ShutdownPauses(s) \/ ShutdownTerminates(s)
Launching(s) ==
    LaunchStarts(s) \/ LaunchRefused(s) \/ LaunchBinds(s) \/ \E ok \in Confirmations(s) : LaunchBreaks(s, ok)
Scheduler(s) ==
    \/ SchedulerRefused(s) \/ SchedulerWaits(s) \/ SchedulerLaunches(s)
    \/ SchedulerAnswers(s) \/ RetryWorkerCleanup(s)
WorkerStep(s, g) ==
    WorkerAsks(s, g) \/ WorkerAnswered(s, g) \/ WorkerPauses(s, g) \/ WorkerFinishes(s, g)
ReaderStep(s, g) ==
    \/ FrameRefused(s, g) \/ FrameIgnored(s, g) \/ FrameInputRequest(s, g)
    \/ FrameCheckpoint(s, g) \/ FrameCheckpointFailure(s, g) \/ FrameTerminal(s, g)
    \/ FrameInvalid(s, g) \/ ReaderAtEnd(s, g) \/ InterruptSession(s, g) \/ FailWorker(s, g)
    \/ HeartbeatRaises(s, g) \/ ReaderSettles(s, g)
    \/ \E ok \in Confirmations(s) : ReaderReaps(s, g, ok)

ByItself ==
    \/ \E s \in Sessions : Stopping(s) \/ Launching(s) \/ Scheduler(s)
    \/ \E s \in Sessions, g \in Gens : WorkerStep(s, g) \/ WorkerExits(s, g) \/ ReaderStep(s, g)
    \/ ShutdownBegins \/ ShutdownDeadline \/ ApplicationEnds

Next == (\E s \in Sessions : Intents(s)) \/ ByItself

Spec == Init /\ [][Next]_vars

(* The supervisor's threads keep running, and terminating a worker tree    *)
(* that is retried for ever succeeds in the end.  Nothing is assumed of    *)
(* the user, of the workers or of the application's life.                  *)
Fairness ==
    \A s \in Sessions :
        /\ WF_vars(Launching(s)) /\ WF_vars(TerminateEnds(s))
        /\ WF_vars(RetryWorkerCleanup(s))
        /\ \A g \in Gens : WF_vars(ReaderStep(s, g))
FairSpec == Spec /\ Fairness

-----------------------------------------------------------------------------
(* Properties.                                                             *)

(* Every variable keeps its type, and a session stands once in the line    *)
(* and only while it has no slot (the primary keys of execution_requests   *)
(* and execution_claims).                                                  *)
TypeOK ==
    /\ phase \in {"open", "pausing", "stopping", "gone"}
    /\ status \in [Sessions -> Status]
    /\ leased \subseteq Sessions /\ bound \in [Sessions -> Gens \cup {0}]
    /\ claimed \subseteq Sessions /\ line \in Seq(Sessions)
    /\ \A i, j \in 1..Len(line) : line[i] = line[j] => i = j
    /\ \A i \in 1..Len(line) : line[i] \notin claimed
    /\ queued \in [Sessions -> [kind : {"none", "start", "resume", "input"}, gen : Gens \cup {0}]]
    /\ entry \in [Sessions -> Entry]
    /\ run \in [Sessions -> [Gens -> Run]]
    /\ used \in [Sessions -> Gens \cup {0}]
    /\ launch \in [Sessions -> {"none", "start", "resume"}]
    /\ stopping \in [Sessions -> {"none", "FORCE_STOP", "CANCEL", "SHUTDOWN"}]

(* The concurrency limit bounds the workers that are working, whatever is  *)
(* paused, answered, stopped or lost meanwhile (execution claims, issue    *)
(* 0005).                                                                  *)
Works(s) == \E g \in Gens : run[s][g].proc = "up" /\ run[s][g].duty = "working"
WorkingWithinLimit ==
    phase # "gone" => Cardinality({s \in Sessions : Works(s)}) <= Slots

(* A worktree lease outlives every process of the worker it was taken for: *)
(* it is released only once the tree is confirmed gone (issue 0007).       *)
WorkersHoldTheWorktree ==
    phase # "gone" => \A s \in Sessions : (\E g \in Gens : Live(s, g)) => s \in leased

(* No process tree escapes the supervisor: the only worker of a session    *)
(* that is not confirmed gone is the one _running knows (one writer per    *)
(* session, and nothing detached for shutdown to miss).                    *)
LiveWorkersAreTracked ==
    \A s \in Sessions, g \in Gens : Live(s, g) => entry[s].gen = g

(* The answer to one worker's request is sent to whatever worker the       *)
(* session has when capacity is granted; a session it misled is excepted   *)
(* from the properties that its effects break.                             *)
Misled(s) == \E g \in Gens : run[s][g].input \notin {0, g}

(* A session without a worker, a queue entry or a method or reader in      *)
(* progress has given everything back, slot, place in line and worktree,   *)
(* wherever cleanups are confirmed and leases are renewed.                 *)
AtRest(s) ==
    /\ ~Running(s) /\ queued[s] = Idle /\ launch[s] = "none" /\ stopping[s] = "none"
    /\ \A g \in Gens : run[s][g].reader \in {"off", "done"}
RestingHoldsNothing ==
    phase # "gone" =>
        \A s \in Sessions \ (CleanupFails \cup RenewFails) : AtRest(s) /\ ~Misled(s) => s \notin claimed \cup leased /\ ~InLine(s)

(* Nothing is restarted by itself: only a session whose user asked for it  *)
(* and who sees it QUEUED waits for a launch (issue 0007).                 *)
OnlyQueuedSessionsLaunch ==
    \A s \in Sessions :
        queued[s].kind \in {"start", "resume"} => status[s] = "QUEUED" /\ s \in leased

(* The slot of a worker that exited comes back: between them the reader,   *)
(* the reaper and the user's stops leave none behind.  Excepted are the    *)
(* sessions left PAUSING when their worker ends on its own after Pause,    *)
(* left READY with a cleanup nobody retries, failed over a queued answer,  *)
(* or reached by the answer to an earlier worker's request.                *)
Lost(s) == Running(s) /\ launch[s] = "none" /\ Worker(s).proc = "exited" /\ s \in claimed
FailedForGood(s) == status[s] = "FAILED" /\ ~Running(s)
SlotOfALostWorkerReturns ==
    \A s \in Sessions \ RenewFails :
        Lost(s) ~> \/ s \notin claimed \/ phase # "open"
                   \/ status[s] \in {"PAUSING", "READY"}
                   \/ FailedForGood(s) \/ Misled(s)
=============================================================================
