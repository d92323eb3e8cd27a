------------------------------ MODULE RunStore ------------------------------
(***************************************************************************)
(* persistence/run_store.py for one Workflow Run: an event log, a snapshot *)
(* and a lease file, written by one process at a time under a file lock    *)
(* and read by any process without it.  Every write that can be the last   *)
(* before a crash is a step of its own.                                    *)
(*                                                                         *)
(* A state of the run is its event sequence, the lease it was recorded     *)
(* under, and what its run and operation status amount to:                 *)
(*   idle, operating   RUNNING, operation IDLE or RUNNING                  *)
(*   paused, unknown   PAUSED or AWAITING_USER, operation IDLE or UNKNOWN  *)
(*   ended             COMPLETED or CANCELLED                              *)
(***************************************************************************)
EXTENDS Naturals, Sequences

CONSTANTS
    Procs,      \* codexcli processes in the repository
    Pids,       \* the process ids the operating system hands out
    None,       \* absent
    Wants,      \* bound of the model: what callers record, of Runs
    MaxSeq,     \* bound of the model: events of the run
    MaxLeases,  \* bound of the model: leases ever written
    MaxDeaths   \* bound of the model: processes that end without notice

ASSUME NoneAssumption == None \notin Procs \cup Pids
ASSUME BoundAssumption == MaxSeq \in Nat \ {0} /\ MaxLeases \in Nat \ {0} /\ MaxDeaths \in Nat

VARIABLES
    log,        \* events.jsonl: one state per line, or Bad
    bare,       \* the last line has no newline yet
    snap,       \* snapshot.json
    lease,      \* lease.json: the lease's id and its process id
    lock,       \* the process in the file lock
    pid,        \* the process id of each process, None when it is not running
    mem,        \* the snapshot a process works on
    at,         \* where a process is in load or record
    work,       \* what that call carries to its next step
    stream,     \* what a process's open event stream appends to
    leases,     \* lease ids handed out
    acked,      \* history: the last state record returned
    vanished,   \* history: a state that a load could return was lost again
    crossed,    \* history: lost to a load while another had yet to repair the log
    deaths

filesVars == <<log, bare, snap>>
procVars == <<pid, mem, at, work, stream>>
vars == <<filesVars, lease, lock, procVars, leases, acked, vanished, crossed, deaths>>

Runs == {"idle", "operating", "paused", "unknown", "ended"}
State == [seq : 1..MaxSeq, by : 1..MaxLeases, run : Runs]
Bad == [seq |-> 0]
Memory == [seq : 1..MaxSeq, by : 1..MaxLeases, run : Runs, lease : 1..MaxLeases]

ASSUME WantsAssumption == Wants \subseteq Runs

Load == [state : State, keep : Seq(State \cup {Bad}), torn : BOOLEAN]
Recording == {"checked", "partial", "bare", "whole"}
Writing(p) == at[p] \in Recording

TypeOK ==
    /\ log \in Seq(State \cup {Bad}) /\ bare \in BOOLEAN
    /\ snap \in State /\ acked \in State
    /\ lease \in [id : 1..MaxLeases, pid : Pids] \cup {None}
    /\ lock \in Procs \cup {None}
    /\ pid \in [Procs -> Pids \cup {None}]
    /\ mem \in [Procs -> Memory \cup {None}]
    /\ at \in [Procs -> {"rest", "read"} \cup Recording]
    /\ work \in [Procs -> Load \cup State \cup {None}]
    /\ \A p \in Procs : pid[p] = None => mem[p] = None /\ at[p] = "rest"
    /\ \A p \in Procs : at[p] = "read" => work[p] \in Load
    /\ \A p \in Procs : Writing(p) => work[p] \in State
    /\ stream \in [Procs -> {"closed", "line", "glued"}]
    /\ leases \in 1..MaxLeases /\ deaths \in 0..MaxDeaths
    /\ vanished \in BOOLEAN /\ crossed \in BOOLEAN

(* RunStore.create: its first record has succeeded in some process.        *)
Init ==
    \E p \in Procs, i \in Pids :
        LET first == [seq |-> 1, by |-> 1, run |-> "idle"]
        IN  /\ log = <<first>> /\ bare = FALSE /\ snap = first
            /\ lease = [id |-> 1, pid |-> i]
            /\ lock = None
            /\ pid = [q \in Procs |-> IF q = p THEN i ELSE None]
            /\ mem = [q \in Procs |->
                        IF q = p THEN [seq |-> 1, by |-> 1, run |-> "idle", lease |-> 1]
                                 ELSE None]
            /\ at = [q \in Procs |-> "rest"]
            /\ work = [q \in Procs |-> None]
            /\ stream = [q \in Procs |-> "closed"]
            /\ leases = 1 /\ acked = first /\ deaths = 0
            /\ vanished = FALSE /\ crossed = FALSE

-----------------------------------------------------------------------------
(* What the files say.  An event is complete when it is the next in order. *)
CompleteEvent(i) == log[i].seq = i
Torn == log # <<>> /\ ~CompleteEvent(Len(log))
Readable == \A i \in 1..Len(log) - 1 : CompleteEvent(i)
Events == IF Torn THEN SubSeq(log, 1, Len(log) - 1) ELSE log

FaultNewest(s, events) == IF events # <<>> THEN events[Len(events)] ELSE s
Newest(s, events) ==
    IF events # <<>> /\ events[Len(events)].seq > s.seq THEN events[Len(events)] ELSE s
Stored == Newest(snap, Events)

ProcessIsRunning(i) == \E p \in Procs : pid[p] = i

(* _recover_stale_presentation: a run whose lease is not live is PAUSED.   *)
Presented(s) ==
    LET live == lease # None /\ lease.id = s.by /\ ProcessIsRunning(lease.pid)
    IN  IF live THEN s.run
        ELSE CASE s.run = "idle"      -> "paused"
               [] s.run = "operating" -> "unknown"
               [] OTHER               -> s.run

OwnsLease(p) ==
    /\ mem[p] # None /\ lease # None
    /\ lease.id = mem[p].lease /\ lease.pid = pid[p]

Watch == vanished' = (vanished \/ (Stored' # Stored /\ Stored'.seq <= Stored.seq))

-----------------------------------------------------------------------------
(* load, without the lock: the files are read first; what was found        *)
(* torn is rewritten a moment later, whatever happened to it since.        *)
ReadFiles(p) ==
    /\ pid[p] # None /\ at[p] = "rest" /\ Readable
    /\ at' = [at EXCEPT ![p] = "read"]
    /\ work' = [work EXCEPT ![p] = [state |-> Stored, keep |-> Events, torn |-> Torn]]
    /\ UNCHANGED <<filesVars, lease, lock, pid, mem, stream, leases, acked, vanished, crossed, deaths>>

(* _quarantine_final_event replaces the file: a stream that is open on the *)
(* old one writes nowhere.                                                 *)
Repairs(p) == at[p] = "read" /\ work[p].torn

FinishLoad(p) ==
    /\ at[p] = "read"
    /\ at' = [at EXCEPT ![p] = "rest"]
    /\ work' = [work EXCEPT ![p] = None]
    /\ LET s == work[p].state
       IN  mem' = [mem EXCEPT ![p] = [seq |-> s.seq, by |-> s.by, run |-> Presented(s),
                                      lease |-> s.by]]
    /\ IF work[p].torn
       THEN /\ log' = work[p].keep /\ bare' = FALSE
            /\ stream' = [q \in Procs |-> "closed"]
       ELSE UNCHANGED <<log, bare, stream>>
    /\ UNCHANGED <<snap, lease, lock, pid, leases, acked, deaths>>
    /\ Watch
    /\ crossed' = (crossed \/ (Stored'.seq < Stored.seq /\ \E q \in Procs \ {p} : Repairs(q)))

-----------------------------------------------------------------------------
(* take_lease: not from a process id that is another's and runs.           *)
MayTake(p) ==
    ~(lease # None /\ lease.pid # pid[p] /\ ProcessIsRunning(lease.pid))

TakeLease(p) ==
    /\ lock = None /\ at[p] = "rest" /\ mem[p] # None
    /\ mem[p].run # "ended" /\ MayTake(p) /\ leases < MaxLeases
    /\ leases' = leases + 1
    /\ lease' = [id |-> leases + 1, pid |-> pid[p]]
    /\ mem' = [mem EXCEPT ![p].lease = leases + 1]
    /\ UNCHANGED <<filesVars, lock, pid, at, work, stream, acked, vanished, crossed, deaths>>

(* release_lease: the caller reloads before it does anything else.         *)
ReleaseLease(p) ==
    /\ lock = None /\ at[p] = "rest" /\ OwnsLease(p)
    /\ lease' = None
    /\ mem' = [mem EXCEPT ![p] = None]
    /\ UNCHANGED <<filesVars, lock, pid, at, work, stream, leases, acked, vanished, crossed, deaths>>

-----------------------------------------------------------------------------
(* record.  A run that stops RUNNING takes its running operation to        *)
(* UNKNOWN; the callers start nothing from UNKNOWN but a fresh attempt.    *)
Recorded(before, want) ==
    IF want = "paused" /\ before \in {"operating", "unknown"} THEN "unknown" ELSE want
Wanted(before) ==
    CASE before = "idle"      -> {"idle", "operating", "paused", "ended"}
      [] before = "operating" -> {"idle", "paused", "ended"}
      [] OTHER                -> {"idle", "paused", "ended"}

FaultIsFresh(p) == Stored.run # "ended"
IsFresh(p) == Stored.seq = mem[p].seq /\ Stored.run # "ended"

(* Under the lock: validate the lease, load (which truncates a torn line), *)
(* and compare with what is stored.                                        *)
FaultKeptEvents == log
KeptEvents == Events
CheckRecord(p, want) ==
    /\ lock = None /\ at[p] = "rest" /\ OwnsLease(p)
    /\ want \in Wanted(mem[p].run)
    /\ Readable /\ IsFresh(p) /\ mem[p].seq < MaxSeq
    /\ lock' = p
    /\ at' = [at EXCEPT ![p] = "checked"]
    /\ work' = [work EXCEPT ![p] = [seq |-> mem[p].seq + 1, by |-> mem[p].lease,
                                    run |-> Recorded(mem[p].run, want)]]
    /\ log' = KeptEvents
    /\ bare' = (bare /\ ~Torn)
    /\ stream' = IF Torn THEN [q \in Procs |-> "closed"] ELSE stream
    /\ UNCHANGED <<snap, lease, pid, mem, leases, acked, crossed, deaths>>
    /\ Watch

(* The event reaches the file in pieces.  One appended to a line without a *)
(* newline becomes part of that line.                                      *)
StartAppend(p) ==
    /\ at[p] = "checked"
    /\ at' = [at EXCEPT ![p] = "partial"]
    /\ stream' = [stream EXCEPT ![p] = IF bare THEN "glued" ELSE "line"]
    /\ log' = IF bare THEN [log EXCEPT ![Len(log)] = Bad] ELSE Append(log, Bad)
    /\ bare' = FALSE
    /\ UNCHANGED <<snap, lease, lock, pid, mem, work, leases, acked, crossed, deaths>>
    /\ Watch

AllButNewline(p) ==
    /\ at[p] = "partial"
    /\ at' = [at EXCEPT ![p] = "bare"]
    /\ IF stream[p] = "line"
       THEN log' = [log EXCEPT ![Len(log)] = work[p]] /\ bare' = TRUE
       ELSE UNCHANGED <<log, bare>>
    /\ UNCHANGED <<snap, lease, lock, pid, mem, work, stream, leases, acked, crossed, deaths>>
    /\ Watch

EndAppend(p) ==
    /\ at[p] = "bare"
    /\ at' = [at EXCEPT ![p] = "whole"]
    /\ bare' = (bare /\ stream[p] # "line")
    /\ stream' = [stream EXCEPT ![p] = "closed"]
    /\ UNCHANGED <<log, snap, lease, lock, pid, mem, work, leases, acked, vanished, crossed, deaths>>

Leave(p) ==
    /\ lock' = None
    /\ at' = [at EXCEPT ![p] = "rest"]
    /\ work' = [work EXCEPT ![p] = None]
    /\ stream' = [stream EXCEPT ![p] = "closed"]

ReplaceSnapshot(p) == at[p] = "whole" /\ snap' = work[p]

ReturnRecord(p) ==
    /\ ReplaceSnapshot(p) /\ Leave(p)
    /\ acked' = work[p]
    /\ mem' = [mem EXCEPT ![p] = [seq |-> work[p].seq, by |-> work[p].by,
                                  run |-> work[p].run, lease |-> mem[p].lease]]
    /\ UNCHANGED <<log, bare, lease, pid, leases, crossed, deaths>>
    /\ Watch

(* An OSError on the way, before or after the snapshot was replaced: the   *)
(* caller keeps the snapshot it had.                                       *)
FailRecord(p) ==
    /\ Writing(p)
    /\ Leave(p)
    /\ ReplaceSnapshot(p) \/ UNCHANGED snap
    /\ UNCHANGED <<log, bare, lease, pid, mem, leases, acked, crossed, deaths>>
    /\ Watch

-----------------------------------------------------------------------------
(* The operating system: a process id is free again once its process died. *)
Boot(p) ==
    /\ pid[p] = None
    /\ \E i \in Pids :
        /\ ~ProcessIsRunning(i)
        /\ pid' = [pid EXCEPT ![p] = i]
    /\ UNCHANGED <<filesVars, lease, lock, mem, at, work, stream, leases, acked, vanished, crossed, deaths>>

Die(p) ==
    /\ pid[p] # None /\ deaths < MaxDeaths
    /\ pid' = [pid EXCEPT ![p] = None]
    /\ mem' = [mem EXCEPT ![p] = None]
    /\ at' = [at EXCEPT ![p] = "rest"]
    /\ work' = [work EXCEPT ![p] = None]
    /\ stream' = [stream EXCEPT ![p] = "closed"]
    /\ lock' = IF lock = p THEN None ELSE lock
    /\ deaths' = deaths + 1
    /\ UNCHANGED <<filesVars, lease, leases, acked, vanished, crossed>>

Next ==
    \E p \in Procs :
        \/ ReadFiles(p) \/ FinishLoad(p)
        \/ TakeLease(p) \/ ReleaseLease(p)
        \/ \E want \in Wants : CheckRecord(p, want)
        \/ StartAppend(p) \/ AllButNewline(p) \/ EndAppend(p)
        \/ ReturnRecord(p) \/ FailRecord(p)
        \/ Boot(p) \/ Die(p)

Spec == Init /\ [][Next]_vars

-----------------------------------------------------------------------------
(* Torn, out of order and glued lines are only ever the last of the log:   *)
(* load never meets the corrupt non-final event it cannot recover from.    *)
LogStaysReadable == Readable

(* A record that passed the stale check extends exactly the state that is  *)
(* stored, not another one with the same sequence number - as long as no   *)
(* crash and no repair of the log has taken back a visible state.          *)
ExtendsWhatIsStored ==
    \A p \in Procs :
        at[p] = "checked" /\ ~vanished => mem[p].seq = Stored.seq /\ mem[p].by = Stored.by

Register == INSTANCE RunRegister WITH States <- State, stored <- Stored

(* Every state a record has returned stays until a newer one takes its     *)
(* place, unacknowledged states may be lost to crashes and to loads that   *)
(* quarantine them; and as long as no two such loads have crossed, the end *)
(* of a run is never taken back.                                           *)
KeepsItsPromises == Register!Spec
=============================================================================
