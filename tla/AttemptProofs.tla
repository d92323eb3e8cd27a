--------------------------- MODULE AttemptProofs ---------------------------
(***************************************************************************)
(* Theorems about the attempts at an issue, each about a specification of  *)
(* its own that shares no state with the others: the loop of one attempt   *)
(* that hands its test gates to the session (OperatorHandoff), the         *)
(* processes an attempt takes (AgentProcess), and the run that makes       *)
(* attempt after attempt at issue after issue (MarkdownRun).               *)
(*                                                                         *)
(* A failed test gate is not got around, for any gates, source contents    *)
(* and number of edits and interruptions.  A process tree that is marked   *)
(* as stopped is dead, for any number of processes, events and rounds of   *)
(* the reaper.  For any issues, links, workflow, passes and rounds, and    *)
(* any crashes, limits and renewals, a run keeps the order of the issues,  *)
(* hands rework to the coder, and is resumed where it stood.               *)
(***************************************************************************)
EXTENDS OperatorHandoff, AgentProcess, MarkdownRun, WellFoundedInduction, SequenceTheorems, TLAPS

---------------------------------------------------------------------------
(* What a request, durable or remembered, is about.                           *)
Requested == Gates \cup {None}

HandoffTypes ==
  /\ record \in [gate : Requested, fp : Contents]
  /\ sources \in Contents
  /\ failed \in Requested /\ owed \in Requested

(* The durable request always covers the gate that is owed: executing it      *)
(* again settles the debt, whoever interrupted the step meanwhile.            *)
Covers(gate, other) == gate.of = other.of /\ other.tests <= gate.tests
DebtIsRequested == owed = None \/ Covers(record.gate, owed)

(* The worker is only asked while what it is told has failed is what is owed. *)
WorkerKnowsTheDebt == pc = "role" => failed = owed

NothingFailedUnrequested == record.gate = None => failed = None

(* A PASS is the last word of a step without a debt.                          *)
PassedWithoutDebt == returned = "PASS" => pc = "returned" /\ owed = None

HandoffInv ==
  /\ HandoffTypes
  /\ DebtIsRequested
  /\ WorkerKnowsTheDebt
  /\ NothingFailedUnrequested
  /\ PassedWithoutDebt

LEMMA NoGateIsNone == None \in Requested /\ None \notin Gates
  BY HandoffAssumption DEF Requested, Gates, None

LEMMA CoversNone ==
  ASSUME NEW gate \in Requested, Covers(None, gate)
  PROVE  gate = None
  BY HandoffAssumption DEF Requested, Gates, None, Covers

LEMMA InitHandoffInv == HandoffInit => HandoffInv
  BY NoGateIsNone DEF HandoffInit, HandoffInv, HandoffTypes, DebtIsRequested, WorkerKnowsTheDebt,
     NothingFailedUnrequested, PassedWithoutDebt, None

(* A passed receipt settles the debt: the request covers it.                  *)
LEMMA AcceptSettles ==
  ASSUME HandoffInv, Accept PROVE owed' = None /\ failed' = None
  BY DEF HandoffInv, HandoffTypes, DebtIsRequested, Covers, Accept, None

LEMMA LoopHeadKeeps == ASSUME HandoffInv, LoopHead PROVE HandoffInv'
<1> USE DEF HandoffInv, HandoffTypes
<1>1. CASE record.gate = None
  <2>1. owed = None /\ failed = None
    BY <1>1, CoversNone DEF DebtIsRequested, NothingFailedUnrequested
  <2> QED
    BY <1>1, <2>1 DEF LoopHead, world, durable, DebtIsRequested, WorkerKnowsTheDebt,
       NothingFailedUnrequested, PassedWithoutDebt
<1>2. CASE record.gate # None
  <2>1. record'.gate = record.gate /\ record' \in [gate : Requested, fp : Contents]
    BY <1>2 DEF LoopHead, durable, Request
  <2> QED
    BY <1>2, <2>1 DEF LoopHead, world, DebtIsRequested, WorkerKnowsTheDebt,
       NothingFailedUnrequested, PassedWithoutDebt, Covers
<1> QED
  BY <1>1, <1>2

LEMMA FailKeeps ==
  ASSUME HandoffInv, Fail, pc \notin {"returned", "role"}, UNCHANGED <<world, durable>>
  PROVE  HandoffInv'
<1>1. Covers(record.gate, record.gate)
  BY HandoffAssumption DEF HandoffInv, HandoffTypes, Requested, Gates, None, Covers
<1> QED
  BY <1>1 DEF HandoffInv, HandoffTypes, Fail, world, durable, DebtIsRequested,
     WorkerKnowsTheDebt, NothingFailedUnrequested, PassedWithoutDebt

LEMMA CheckKeeps == ASSUME HandoffInv, Check PROVE HandoffInv'
<1>1. CASE Accept
  <2>1. owed' = None /\ failed' = None
    BY <1>1, AcceptSettles
  <2> QED
    BY <1>1, <2>1, NoGateIsNone DEF HandoffInv, HandoffTypes, Check, Accept, Return, world,
       durable, DebtIsRequested, WorkerKnowsTheDebt, NothingFailedUnrequested,
       PassedWithoutDebt
<1>2. CASE Fail
  BY <1>2, FailKeeps DEF Check
<1>3. CASE ~(Passed \/ HasFailed)
  BY <1>3 DEF Check, HandoffInv, HandoffTypes, world, durable, volatile, DebtIsRequested,
     WorkerKnowsTheDebt, NothingFailedUnrequested, PassedWithoutDebt, Covers
<1> QED
  BY <1>1, <1>2, <1>3 DEF Check

LEMMA RanKeeps == ASSUME HandoffInv, Ran PROVE HandoffInv'
<1>1. CASE Fail /\ UNCHANGED durable
  BY <1>1, FailKeeps DEF Ran
<1>2. CASE Request(record.gate) /\ pc' = "check" /\ UNCHANGED <<volatile, returned, owed>>
  BY <1>2 DEF Ran, Request, world, volatile, HandoffInv, HandoffTypes, DebtIsRequested,
     WorkerKnowsTheDebt, NothingFailedUnrequested, PassedWithoutDebt, Covers
<1>3. CASE pc' \in {"check", "returned"} /\ returned' \in {returned, "BLOCKED"}
           /\ UNCHANGED <<durable, volatile, owed>>
  BY <1>3 DEF Ran, world, durable, volatile, HandoffInv, HandoffTypes, DebtIsRequested,
     WorkerKnowsTheDebt, NothingFailedUnrequested, PassedWithoutDebt, Covers
<1> QED
  BY <1>1, <1>2, <1>3 DEF Ran, Return

(* What a worker without an evasion may ask for covers the gate that failed.  *)
LEMMA NextRequestCovers ==
  ASSUME HandoffInv, NEW status, NEW gate \in Gates,
         failed = None \/ ~Evades(status, gate),
         pc = "role"
  PROVE  owed = None \/ Covers(gate, owed)
<1>1. owed = failed
  BY DEF HandoffInv, WorkerKnowsTheDebt
<1>2. gate # None
  BY NoGateIsNone
<1>3. CASE Strengthens(gate)
  BY <1>1, <1>3, HandoffAssumption DEF Strengthens, Covers, HandoffInv, HandoffTypes, Requested,
     Gates, None
<1>4. CASE gate = failed
  BY <1>1, <1>4, HandoffAssumption DEF Covers, HandoffInv, HandoffTypes, Requested, Gates, None
<1> QED
  BY <1>1, <1>2, <1>3, <1>4 DEF Evades

LEMMA WorkerKeeps ==
  ASSUME HandoffInv, NEW status \in {"PASS", "FAIL", "BLOCKED"}, NEW gate \in Requested,
         Worker(status, gate)
  PROVE  HandoffInv'
<1>0. pc = "role" /\ failed = owed /\ UNCHANGED <<sources, failed, owed>>
  BY DEF HandoffInv, WorkerKnowsTheDebt, Worker, world
<1>1. CASE UNCHANGED durable /\ pc' = "returned" /\ (returned' = "PASS" => failed = None)
  BY <1>0, <1>1 DEF HandoffInv, HandoffTypes, durable, DebtIsRequested, WorkerKnowsTheDebt,
     NothingFailedUnrequested, PassedWithoutDebt, Covers
<1>2. CASE Request(failed) /\ failed # None /\ pc' = "head" /\ UNCHANGED returned
  <2>1. Covers(failed, owed)
    BY <1>0, HandoffAssumption DEF HandoffInv, HandoffTypes, Requested, Gates, None, Covers
  <2> QED
    BY <1>0, <1>2, <2>1 DEF Request, HandoffInv, HandoffTypes, DebtIsRequested,
       WorkerKnowsTheDebt, NothingFailedUnrequested, PassedWithoutDebt
<1>3. CASE /\ Request(gate) /\ gate # None /\ pc' = "head" /\ UNCHANGED returned
           /\ failed = None \/ ~Evades(status, gate)
  <2>1. gate \in Gates
    BY <1>3 DEF Requested
  <2>2. owed = None \/ Covers(gate, owed)
    BY <1>0, <1>3, <2>1, NextRequestCovers
  <2> QED
    BY <1>0, <1>3, <2>2 DEF Request, HandoffInv, HandoffTypes, DebtIsRequested,
       WorkerKnowsTheDebt, NothingFailedUnrequested, PassedWithoutDebt
<1> QED
  BY <1>1, <1>2, <1>3 DEF Worker, Return, Evades

LEMMA NextHandoffInv == ASSUME HandoffInv, [HandoffNext]_handoffVars PROVE HandoffInv'
<1>1. CASE LoopHead BY <1>1, LoopHeadKeeps
<1>2. CASE Check BY <1>2, CheckKeeps
<1>3. CASE StartGate
  BY <1>3 DEF StartGate, Return, HandoffInv, HandoffTypes, world, durable, volatile,
     DebtIsRequested, WorkerKnowsTheDebt, NothingFailedUnrequested,
     PassedWithoutDebt, Covers
<1>4. CASE EndGate
  BY <1>4 DEF EndGate, HandoffInv, HandoffTypes, world, volatile, DebtIsRequested,
     WorkerKnowsTheDebt, NothingFailedUnrequested, PassedWithoutDebt, Covers
<1>5. CASE Ran BY <1>5, RanKeeps
<1>6. CASE Role BY <1>6, WorkerKeeps DEF Role, Requested
<1>7. CASE Edit
  BY <1>7 DEF Edit, HandoffInv, HandoffTypes, durable, volatile, DebtIsRequested,
     WorkerKnowsTheDebt, NothingFailedUnrequested, PassedWithoutDebt, Covers
<1>8. CASE Interrupted
  BY <1>8, NoGateIsNone DEF Interrupted, HandoffInv, HandoffTypes, durable, DebtIsRequested,
     WorkerKnowsTheDebt, NothingFailedUnrequested, PassedWithoutDebt, Covers
<1>9. CASE UNCHANGED handoffVars
  BY <1>9 DEF handoffVars, HandoffInv, HandoffTypes, world, durable, volatile, DebtIsRequested,
     WorkerKnowsTheDebt, NothingFailedUnrequested, PassedWithoutDebt, Covers
<1> QED
  BY <1>1, <1>2, <1>3, <1>4, <1>5, <1>6, <1>7, <1>8, <1>9 DEF HandoffNext, Handoff

(* Whatever gates a Workflow hands over and however often the sources are     *)
(* edited and the step interrupted, it does not pass (OperatorHandoff.run_role *)
(* of operator_handoff.py) while the gate that failed last is unsettled.      *)
THEOREM FailedGateHolds == HandoffSpec => []FailedGateIsNotBypassed
<1>1. HandoffInv => FailedGateIsNotBypassed
  BY DEF HandoffInv, PassedWithoutDebt, FailedGateIsNotBypassed
<1> QED
  BY <1>1, InitHandoffInv, NextHandoffInv, PTL DEF HandoffSpec

---------------------------------------------------------------------------
(* The process trees of the attempt: what its threads and messages are.    *)
Mains == [at : {"launch", "own", "read", "close", "weigh", "wait", "done"}, p : Procs,
          how : {"none", "event", "end", "interrupted", "stopped"}]
Calls == [at : {"off", "term", "look", "last look"}, p : Procs, sure : BOOLEAN]
Reports == [term : Terminals, diag : Diagnostics,
            exit : {"none", "zero", "nonzero", "killed"}]
Reapers == [at : {"off", "snapshot", "clearing"}, left : Int, todo : SUBSET Procs]
Controls == [at : {"listening", "clearing", "answered"}, todo : SUBSET Procs, sure : BOOLEAN]

(* Where the attempt's thread is, and what every thread may hold.          *)
Shape ==
    /\ leader \in [Procs -> {"none", "running", "dying", "zombie", "gone"}]
    /\ kid \in [Procs -> {"none", "running", "dying", "gone"}]
    /\ main \in Mains
    /\ call \in [Callers -> Calls]
    /\ said \in Reports
    /\ reaper \in Reapers /\ control \in Controls

(* The processes that were started and, the last one perhaps not, owned.   *)
Owned == {p \in Procs : p < main.p \/ (p = main.p /\ main.at \notin {"launch", "own"})}

(* Every tree that was owned still is, or is confirmed stopped; nobody     *)
(* refers to any other.                                                    *)
Referred ==
    /\ watcher \subseteq Owned /\ reaper.todo \subseteq Owned /\ control.todo \subseteq Owned
    /\ \A a \in Callers : call[a].at # "off" => call[a].p \in Owned
NoneIsForgotten == registered \cup stopped = Owned /\ Referred

(* Only a process that may be followed by another fails transiently.       *)
RetriesAreBounded ==
    main.at = "wait" \/ (main.at \notin {"launch", "done"} /\ said.diag = "transient")
    => main.p < MaxLaunches

TreeInv == Shape /\ NoneIsForgotten /\ RetriesAreBounded /\ StoppedTreesAreDead

LEMMA InitTreeInv == Init => TreeInv
<1> SUFFICES ASSUME Init PROVE TreeInv
  OBVIOUS
<1>1. 1 \in Procs
  BY AttemptAssumption DEF Procs
<1>2. Shape
  BY <1>1 DEF Init, Shape, Idle, Silent, Terminals, Diagnostics, Mains, Calls, Reports,
     Reapers, Controls
<1>3. Owned = {}
  BY <1>1 DEF Init, Owned, Procs
<1>4. NoneIsForgotten
  BY <1>3 DEF Init, NoneIsForgotten, Referred, Idle
<1> QED
  BY <1>2, <1>4 DEF Init, TreeInv, RetriesAreBounded, StoppedTreesAreDead, Silent

(* The provider and the system: nothing that is dead comes to life.        *)
LEMMA ProviderKeeps ==
    ASSUME TreeInv, NEW p \in Procs,
           \/ SpawnsKid(p) \/ KidEnds(p) \/ LeaderDies(p)
           \/ \E diag \in Diagnostics :
                 \/ \E term \in Terminals : Speaks(p, term, diag)
                 \/ \E code \in {"zero", "nonzero"} : Exits(p, code, diag)
    PROVE  TreeInv'
<1>1. /\ UNCHANGED <<owned, call, main, watcher>>
      /\ reaper' = reaper /\ control' = control
  BY DEF SpawnsKid, KidEnds, LeaderDies, Speaks, Exits, guard
<1>2. /\ leader' = leader \/ (leader[p] \in Live /\ leader' = [leader EXCEPT ![p] = "zombie"])
      /\ \/ kid' = kid
         \/ leader[p] = "running" /\ kid' = [kid EXCEPT ![p] = "running"]
         \/ kid' = [kid EXCEPT ![p] = "gone"]
  BY DEF SpawnsKid, KidEnds, LeaderDies, Speaks, Exits, Retained, Live
<1>3. Shape'
  <2>1. leader' \in [Procs -> {"none", "running", "dying", "zombie", "gone"}]
    BY <1>2 DEF TreeInv, Shape
  <2>2. kid' \in [Procs -> {"none", "running", "dying", "gone"}]
    BY <1>2 DEF TreeInv, Shape
  <2>3. said' \in Reports
    <3>1. said \in Reports
      BY DEF TreeInv, Shape
    <3>2. CASE SpawnsKid(p) \/ KidEnds(p)
      BY <3>1, <3>2 DEF SpawnsKid, KidEnds
    <3>3. CASE LeaderDies(p)
      BY <3>1, <3>3 DEF LeaderDies, Reports
    <3>4. ASSUME NEW term \in Terminals, NEW diag \in Diagnostics, Speaks(p, term, diag)
          PROVE  said' \in Reports
      BY <3>1, <3>4 DEF Speaks, Reports
    <3>5. ASSUME NEW code \in {"zero", "nonzero"}, NEW diag \in Diagnostics, Exits(p, code, diag)
          PROVE  said' \in Reports
      BY <3>1, <3>5 DEF Exits, Reports
    <3> QED
      BY <3>2, <3>3, <3>4, <3>5
  <2> QED
    BY <1>1, <2>1, <2>2, <2>3 DEF TreeInv, Shape
<1>4. NoneIsForgotten'
  BY <1>1 DEF TreeInv, NoneIsForgotten, Referred, Owned, owned
<1>5. RetriesAreBounded'
  <2>1. said' = said \/ said'.diag = said.diag \/ (said'.diag = "transient" => main.p < MaxLaunches)
    <3>1. CASE SpawnsKid(p) \/ KidEnds(p)
      BY <3>1 DEF SpawnsKid, KidEnds
    <3>2. CASE LeaderDies(p)
      BY <3>2 DEF LeaderDies, TreeInv, Shape
    <3>3. CASE \E term \in Terminals, diag \in Diagnostics : Speaks(p, term, diag)
      BY <3>3 DEF Speaks, MaySay, TreeInv, Shape, Reports
    <3>4. CASE \E code \in {"zero", "nonzero"}, diag \in Diagnostics : Exits(p, code, diag)
      <4>1. PICK code \in {"zero", "nonzero"}, diag \in Diagnostics : Exits(p, code, diag)
        BY <3>4
      <4>2. CASE MaySay(p, code = "nonzero", diag)
        <5>1. said' = [said EXCEPT !.exit = code, !.diag = diag]
          BY <4>1, <4>2 DEF Exits
        <5>2. said'.diag = diag
          BY <5>1 DEF TreeInv, Shape
        <5>3. diag = "transient" => main.p < MaxLaunches
          BY <4>2 DEF MaySay
        <5> QED
          BY <5>2, <5>3
      <4>3. CASE ~MaySay(p, code = "nonzero", diag)
        BY <4>1, <4>3 DEF Exits
      <4> QED
        BY <4>2, <4>3
    <3> QED
      BY <3>1, <3>2, <3>3, <3>4
  <2> QED
    BY <1>1, <2>1 DEF TreeInv, RetriesAreBounded
<1>6. StoppedTreesAreDead'
  <2>1. stopped' = stopped /\ stopped \subseteq Procs
    BY <1>1 DEF owned, TreeInv, NoneIsForgotten, Owned
  <2>2. ASSUME NEW t \in stopped
        PROVE  leader'[t] \notin Live /\ kid'[t] \notin Live
    <3>1. leader[t] \notin Live /\ kid[t] \notin Live /\ t \in Procs
      BY <2>1 DEF TreeInv, StoppedTreesAreDead, Alive
    <3>2. leader'[t] \notin Live
      BY <1>2, <3>1 DEF TreeInv, Shape, Live
    <3>3. kid'[t] \notin Live
      BY <1>2, <3>1 DEF TreeInv, Shape, Live
    <3> QED
      BY <3>2, <3>3
  <2> QED
    BY <2>1, <2>2 DEF StoppedTreesAreDead, Alive
<1> QED
  BY <1>3, <1>4, <1>5, <1>6 DEF TreeInv

(* Time and output move no tree and nobody who refers to one.              *)
LEMMA ClockKeeps ==
    ASSUME TreeInv, DeadlinePasses \/ GoesQuiet \/ Line PROVE TreeInv'
<1>1. /\ UNCHANGED <<leader, kid, said, owned, call, main, watcher>>
      /\ reaper' = reaper /\ control' = control
  BY DEF DeadlinePasses, GoesQuiet, Line, Others, tree, guard
<1> QED
  BY <1>1 DEF owned, TreeInv, Shape, NoneIsForgotten, Referred, Owned, RetriesAreBounded,
     StoppedTreesAreDead, Alive

(* What a caller does of a tree it refers to: the tree is marked and let   *)
(* go of only when it is dead, and a signal brings nobody back.            *)
Handles(p) ==
    /\ stopped \subseteq stopped' /\ stopped' \subseteq stopped \cup {p}
    /\ registered' \subseteq registered \cup {p}
    /\ registered \cup stopped \subseteq registered' \cup stopped'
    /\ p \in stopped' => p \in stopped \/ ~Alive(p)
    /\ leader' \in [Procs -> {"none", "running", "dying", "zombie", "gone"}]
    /\ kid' \in [Procs -> {"none", "running", "dying", "gone"}]
    /\ \A t \in Procs : /\ leader'[t] \in Live => leader[t] \in Live
                        /\ kid'[t] \in Live => kid[t] \in Live

LEMMA ReleaseHandles ==
    ASSUME TreeInv, NEW p \in Owned, Stopped(p), Released(p), kid' = kid
    PROVE  Handles(p)
<1>1. p \in Procs /\ (p \in stopped \/ ~Alive(p))
  BY DEF Stopped, TreeInv, NoneIsForgotten, Owned
<1>2. /\ leader' \in [Procs -> {"none", "running", "dying", "zombie", "gone"}]
      /\ \A t \in Procs : leader'[t] \in Live => leader[t] \in Live
  BY <1>1 DEF Released, TreeInv, Shape, Live
<1> QED
  BY <1>1, <1>2 DEF Handles, Released, TreeInv, Shape

LEMMA SignalHandles ==
    ASSUME TreeInv, NEW p \in Owned, NEW heeded \in BOOLEAN, Signalled(p, heeded),
           stopped' = stopped, registered' \in {registered, registered \cup {p}}
    PROVE  Handles(p)
<1>1. p \in Procs
  BY DEF Owned
<1>2. /\ leader' \in [Procs -> {"none", "running", "dying", "zombie", "gone"}]
      /\ \A t \in Procs : leader'[t] \in Live => leader[t] \in Live
  BY <1>1 DEF Signalled, TreeInv, Shape, Live
<1>3. /\ kid' \in [Procs -> {"none", "running", "dying", "gone"}]
      /\ \A t \in Procs : kid'[t] \in Live => kid[t] \in Live
  BY <1>1 DEF Signalled, TreeInv, Shape, Live
<1> QED
  BY <1>2, <1>3, Zenon DEF Handles, TreeInv, StoppedTreesAreDead

(* And such a step keeps the invariant.                                    *)
LEMMA HandlesKeeps ==
    ASSUME TreeInv, NEW p \in Owned, Handles(p),
           main' \in Mains,
           Owned' = Owned, RetriesAreBounded', Referred',
           said' \in Reports,
           call' \in [Callers -> Calls],
           reaper' \in Reapers, control' \in Controls
    PROVE  TreeInv'
<1>1. Shape'
  BY DEF Handles, Shape
<1>2. NoneIsForgotten'
  <2>1. registered \cup stopped = Owned
    BY DEF TreeInv, NoneIsForgotten
  <2>2. registered' \cup stopped' = registered \cup stopped
    BY <2>1 DEF Handles
  <2> QED
    BY <2>1, <2>2 DEF NoneIsForgotten
<1>3. StoppedTreesAreDead'
  BY DEF Handles, StoppedTreesAreDead, Alive, TreeInv, NoneIsForgotten, Owned
<1> QED
  BY <1>1, <1>2, <1>3 DEF TreeInv

LEMMA EnsuredKeeps ==
    ASSUME reaper \in Reapers, ReaperEnsured
    PROVE  reaper'.todo \in {reaper.todo, {}} /\ reaper' \in Reapers
  BY AttemptAssumption DEF ReaperEnsured, Reapers

(* terminate_process, wherever its caller is.                              *)
LEMMA TerminateKeeps ==
    ASSUME TreeInv, NEW a \in Callers, Terminate(a) PROVE TreeInv'
<1> DEFINE p == call[a].p
<1>1. p \in Owned /\ call[a] \in Calls
  BY DEF Terminate, TerminateBegins, TerminateLooks, TerminateLooksLast, At, TreeInv,
     NoneIsForgotten, Referred, Shape
<1>2. main' = main /\ UNCHANGED <<said, watcher, control>>
  BY DEF Terminate, TerminateBegins, TerminateLooks, TerminateLooksLast, Rest, guard
<1>3. reaper'.todo \in {reaper.todo, {}} /\ reaper' \in Reapers
  <2>1. reaper' = reaper \/ ReaperEnsured
    BY DEF Terminate, TerminateBegins, TerminateLooks, TerminateLooksLast
  <2> QED
    BY <2>1, EnsuredKeeps DEF TreeInv, Shape
<1>4. PICK c \in Calls :
         call' = [call EXCEPT ![a] = c] /\ (c.at # "off" => c.p = p)
  <2>1. CASE \E sure \in BOOLEAN : Returns(a, sure)
    <3>1. PICK sure \in BOOLEAN : call' = [call EXCEPT ![a] = [Idle EXCEPT !.sure = sure]]
      BY <2>1 DEF Returns
    <3>2. [Idle EXCEPT !.sure = sure] = [at |-> "off", p |-> 1, sure |-> sure]
      BY DEF Idle
    <3>3. [at |-> "off", p |-> 1, sure |-> sure] \in
             Calls
      <4>1. 1 \in Procs
        BY AttemptAssumption DEF Procs
      <4> QED
        BY <4>1 DEF Calls
    <3> QED
      BY <3>1, <3>2, <3>3
  <2>2. CASE \E where \in {"look", "last look"} : Goes(a, where)
    <3>1. PICK where \in {"look", "last look"} :
            call' = [call EXCEPT ![a] = [call[a] EXCEPT !.at = where]]
      BY <1>1, <2>2 DEF Goes
    <3>2. [call[a] EXCEPT !.at = where].p = p
          /\ [call[a] EXCEPT !.at = where] \in
                Calls
      BY <1>1 DEF Calls
    <3> QED
      BY <3>1, <3>2
  <2> QED
    BY <2>1, <2>2 DEF Terminate, TerminateBegins, TerminateLooks, TerminateLooksLast
<1>5. /\ call' \in [Callers -> Calls]
      /\ \A b \in Callers : call'[b].at # "off" => call'[b].p \in Owned
  BY <1>1, <1>4 DEF TreeInv, Shape, NoneIsForgotten, Referred
<1>6. Owned' = Owned /\ RetriesAreBounded'
  BY <1>2 DEF Owned, RetriesAreBounded, TreeInv
<1>7. Referred'
  BY <1>2, <1>3, <1>5, <1>6 DEF Referred, TreeInv, NoneIsForgotten
<1>8. Handles(p)
  <2>1. CASE TerminateBegins(a)
    <3>1. CASE p \in stopped
      BY <2>1, <3>1 DEF TerminateBegins, Handles, TreeInv, Shape
    <3>2. CASE p \notin stopped
      BY <1>1, <2>1, <3>2, SignalHandles DEF TerminateBegins, Registers
    <3> QED
      BY <3>1, <3>2
  <2>2. CASE TerminateLooks(a)
    <3>1. CASE Stopped(p)
      BY <1>1, <2>2, <3>1, ReleaseHandles DEF TerminateLooks
    <3>2. CASE ~Stopped(p)
      BY <1>1, <2>2, <3>2, SignalHandles DEF TerminateLooks
    <3> QED
      BY <3>1, <3>2
  <2>3. CASE TerminateLooksLast(a)
    <3>1. CASE Stopped(p)
      BY <1>1, <2>3, <3>1, ReleaseHandles DEF TerminateLooksLast
    <3>2. CASE ~Stopped(p)
      BY <2>3, <3>2 DEF TerminateLooksLast, Handles, TreeInv, Shape, StoppedTreesAreDead
    <3> QED
      BY <3>1, <3>2
  <2> QED
    BY <2>1, <2>2, <2>3 DEF Terminate
<1> QED
  BY <1>1, <1>2, <1>3, <1>5, <1>6, <1>7, <1>8, HandlesKeeps DEF TreeInv, Shape

(* The attempt's thread between two trees: what it changes besides itself  *)
(* does not concern them.                                                  *)
LEMMA ThreadKeeps ==
    ASSUME TreeInv, UNCHANGED <<leader, kid, registered, stopped>>, Owned' = Owned,
           main' \in Mains,
           call' \in [Callers -> Calls],
           said' \in Reports,
           reaper' \in Reapers, control' \in Controls,
           Referred', RetriesAreBounded'
    PROVE  TreeInv'
  BY DEF TreeInv, Shape, NoneIsForgotten, StoppedTreesAreDead, Alive

(* A call that begins, of a tree that is owned.                            *)
LEMMA CallBegins ==
    ASSUME TreeInv, NEW a \in Callers, NEW p \in Owned, call' = Begun(a, p)
    PROVE  /\ call' \in [Callers -> Calls]
           /\ \A b \in Callers : call'[b].at # "off" => call'[b].p \in Owned
<1>1. p \in Procs
  BY DEF Owned
<1>2. [at |-> "term", p |-> p, sure |-> TRUE] \in
         Calls
  BY <1>1 DEF Calls
<1> QED
  BY <1>2 DEF Begun, TreeInv, Shape, NoneIsForgotten, Referred

LEMMA LaunchKeeps == ASSUME TreeInv, Launch PROVE TreeInv'
<1>1. /\ main.at = "launch" /\ main' = [main EXCEPT !.at = "own"] /\ main.p \in Procs
      /\ leader' = [leader EXCEPT ![main.p] = "running"] /\ kid' = kid /\ said' = Silent
      /\ UNCHANGED <<registered, stopped, call, watcher>>
      /\ reaper' = reaper /\ control' = control
  BY DEF Launch, MainGoes, Proc, Others, owned, TreeInv, Shape, Mains
<1>2. main'.at = "own" /\ main'.p = main.p
      /\ main' \in Mains
  BY <1>1 DEF TreeInv, Shape, Mains
<1>3. Owned' = Owned
  BY <1>1, <1>2 DEF Owned
<1>4. Shape'
  BY <1>1, <1>2 DEF TreeInv, Shape, Silent, Terminals, Diagnostics, Reports
<1>5. NoneIsForgotten'
  BY <1>1, <1>3 DEF TreeInv, NoneIsForgotten, Referred
<1>6. main.p \notin stopped
  BY <1>1 DEF TreeInv, NoneIsForgotten, Owned, Procs
<1>7. StoppedTreesAreDead'
  <2>1. ASSUME NEW t \in stopped
        PROVE  leader'[t] = leader[t]
    <3>1. t \in Procs /\ t # main.p
      BY <1>6 DEF TreeInv, NoneIsForgotten, Owned
    <3> QED
      BY <1>1, <3>1 DEF TreeInv, Shape
  <2> QED
    BY <1>1, <2>1 DEF TreeInv, StoppedTreesAreDead, Alive
<1> QED
  BY <1>1, <1>4, <1>5, <1>7 DEF TreeInv, RetriesAreBounded, Silent

LEMMA OwnKeeps == ASSUME TreeInv, Own PROVE TreeInv'
<1>1. /\ main.at = "own" /\ main' = [main EXCEPT !.at = "read"] /\ main.p \in Procs
      /\ registered' = registered \cup {main.p} /\ watcher' = watcher \cup {main.p}
      /\ UNCHANGED <<leader, kid, said, stopped, call>>
      /\ reaper' = reaper /\ control' = control
  BY DEF Own, MainGoes, Registers, Watches, Proc, Others, TreeInv, Shape, Mains
<1>2. main'.at = "read" /\ main'.p = main.p
      /\ main' \in Mains
  BY <1>1 DEF TreeInv, Shape, Mains
<1>3. Owned' = Owned \cup {main.p}
  BY <1>1, <1>2 DEF Owned
<1>4. NoneIsForgotten'
  BY <1>1, <1>3 DEF TreeInv, NoneIsForgotten, Referred
<1> QED
  BY <1>1, <1>2, <1>4 DEF TreeInv, Shape, StoppedTreesAreDead, Alive, RetriesAreBounded

(* How the thread leaves the reading of a process.                         *)
LEMMA ReadingEnds ==
    ASSUME TreeInv, ReadTerminal \/ ReadEnd \/ Interrupt \/ Stop PROVE TreeInv'
<1>1. /\ main.at = "read" /\ UNCHANGED <<leader, kid, said, registered, stopped>>
      /\ watcher' \subseteq watcher /\ reaper' = reaper /\ control' = control
  BY DEF ReadTerminal, ReadEnd, Interrupt, Stop, Finishes, Reading, Others, owned, guard
<1>2. PICK how \in {"event", "end", "interrupted", "stopped"} :
        main' = [main EXCEPT !.at = "close", !.how = how]
  BY DEF ReadTerminal, ReadEnd, Interrupt, Stop, Finishes
<1>3. main'.at = "close" /\ main'.p = main.p
      /\ main' \in Mains
  BY <1>2 DEF TreeInv, Shape, Mains
<1>4. Owned' = Owned /\ main.p \in Owned
  <2>1. main.p \in Procs
    BY DEF TreeInv, Shape, Mains
  <2> QED
    BY <1>1, <1>3, <2>1 DEF Owned
<1>5. call' = call \/ call' = Begun(Main, main.p)
  BY DEF ReadTerminal, ReadEnd, Interrupt, Stop, Proc
<1>6. /\ call' \in [Callers -> Calls]
      /\ \A b \in Callers : call'[b].at # "off" => call'[b].p \in Owned
  <2>1. CASE call' = call
    BY <2>1 DEF TreeInv, Shape, NoneIsForgotten, Referred
  <2>2. CASE call' = Begun(Main, main.p)
    BY <1>4, <2>2, CallBegins DEF Callers
  <2> QED
    BY <1>5, <2>1, <2>2
<1>7. Referred' /\ RetriesAreBounded'
  BY <1>1, <1>3, <1>4, <1>6 DEF TreeInv, NoneIsForgotten, Referred, RetriesAreBounded
<1> QED
  BY <1>1, <1>3, <1>4, <1>6, <1>7, ThreadKeeps DEF TreeInv, Shape

LEMMA CloseKeeps == ASSUME TreeInv, Close PROVE TreeInv'
<1>1. /\ main.at = "close" /\ UNCHANGED <<kid, said, call>> /\ watcher' \subseteq watcher
      /\ reaper' = reaper /\ control' = control
      /\ ReleasedIfStopped(main.p)
  BY DEF Close, Proc, Others
<1>2. PICK where \in {"done", "weigh"} : main' = [main EXCEPT !.at = where]
  BY DEF Close, MainGoes
<1>3. main'.at = where /\ main'.p = main.p
      /\ main' \in Mains
  BY <1>2 DEF TreeInv, Shape, Mains
<1>4. Owned' = Owned /\ main.p \in Owned
  <2>1. main.p \in Procs
    BY DEF TreeInv, Shape, Mains
  <2> QED
    BY <1>1, <1>3, <2>1 DEF Owned
<1>5. Referred' /\ RetriesAreBounded'
  BY <1>1, <1>3, <1>4 DEF TreeInv, NoneIsForgotten, Referred, RetriesAreBounded
<1>6. Handles(main.p)
  <2>1. CASE Stopped(main.p)
    BY <1>1, <1>4, <2>1, ReleaseHandles DEF ReleasedIfStopped
  <2>2. CASE ~Stopped(main.p)
    BY <1>1, <2>2 DEF ReleasedIfStopped, Handles, TreeInv, Shape
  <2> QED
    BY <2>1, <2>2
<1> QED
  BY <1>1, <1>3, <1>4, <1>5, <1>6, HandlesKeeps DEF TreeInv, Shape

(* After a process: the end of the attempt, or the next process.           *)
LEMMA WeighKeeps == ASSUME TreeInv, Weigh PROVE TreeInv'
<1>1. /\ main.at = "weigh"
      /\ UNCHANGED <<leader, kid, said, registered, stopped, call, watcher>>
      /\ reaper' = reaper /\ control' = control
  BY DEF Weigh, Others, owned, guard
<1>2. PICK where \in {"done", "wait"} :
        main' = [main EXCEPT !.at = where] /\ (where = "wait" => said.diag = "transient")
  BY DEF Weigh, Publish, MainGoes, Retryable
<1>3. main'.at = where /\ main'.p = main.p
      /\ main' \in Mains
  BY <1>2 DEF TreeInv, Shape, Mains
<1>4. Owned' = Owned
  BY <1>1, <1>3 DEF Owned
<1>5. Referred' /\ RetriesAreBounded'
  BY <1>1, <1>2, <1>3, <1>4 DEF TreeInv, NoneIsForgotten, Referred, RetriesAreBounded
<1> QED
  BY <1>1, <1>3, <1>4, <1>5, ThreadKeeps DEF TreeInv, Shape

LEMMA WaitKeeps == ASSUME TreeInv, Wait PROVE TreeInv'
<1>1. /\ main.at = "wait" /\ main.p < MaxLaunches /\ main.p \in Procs
      /\ UNCHANGED <<leader, kid, said, registered, stopped, call, watcher>>
      /\ reaper' = reaper /\ control' = control
  BY DEF Wait, Others, owned, guard, TreeInv, Shape, RetriesAreBounded, Mains
<1>2. \/ main' = [main EXCEPT !.at = "done"]
      \/ main' = [at |-> "launch", p |-> main.p + 1, how |-> "none"]
  BY DEF Wait, Publish, MainGoes, Proc
<1>3. main.p + 1 \in Procs
  BY <1>1, AttemptAssumption DEF Procs
<1>4. /\ main' \in Mains
      /\ \/ main'.at = "done" /\ main'.p = main.p
         \/ main'.at = "launch" /\ main'.p = main.p + 1
  BY <1>2, <1>3 DEF TreeInv, Shape, Mains
<1>5. Owned' = Owned
  BY <1>1, <1>4 DEF Owned, Procs
<1>6. Referred' /\ RetriesAreBounded'
  BY <1>1, <1>4, <1>5 DEF TreeInv, NoneIsForgotten, Referred, RetriesAreBounded
<1> QED
  BY <1>1, <1>4, <1>5, <1>6, ThreadKeeps DEF TreeInv, Shape

(* A watcher, the reaper or the control reader takes up a tree.            *)
LEMMA WatcherKeeps == ASSUME TreeInv, NEW p \in Procs, WatcherFires(p) PROVE TreeInv'
<1>1. /\ p \in Owned /\ UNCHANGED <<leader, kid, said, main, registered, stopped>>
      /\ watcher' \subseteq watcher /\ reaper' = reaper /\ control' = control
      /\ call' = Begun(p, p)
  BY DEF WatcherFires, Quiescent, TreeInv, NoneIsForgotten, Referred
<1>2. /\ call' \in [Callers -> Calls]
      /\ \A b \in Callers : call'[b].at # "off" => call'[b].p \in Owned
  BY <1>1, CallBegins DEF Callers
<1>3. Owned' = Owned
  BY <1>1 DEF Owned
<1>4. Referred' /\ RetriesAreBounded'
  BY <1>1, <1>2, <1>3 DEF TreeInv, NoneIsForgotten, Referred, RetriesAreBounded
<1> QED
  BY <1>1, <1>2, <1>3, <1>4, ThreadKeeps DEF TreeInv, Shape

LEMMA ReaperKeeps ==
    ASSUME TreeInv, ReaperSnapshots \/ ReaperRests \/ (\E p \in Procs : ReaperTerminates(p))
    PROVE  TreeInv'
<1>1. UNCHANGED <<leader, kid, said, main, registered, stopped, watcher>> /\ control' = control
  BY DEF ReaperSnapshots, ReaperRests, ReaperTerminates, Quiescent, guard
<1>2. reaper'.todo \subseteq reaper.todo \cup registered /\ reaper' \in Reapers
  <2>0. reaper \in Reapers /\ registered \subseteq Procs
    BY DEF TreeInv, Shape, NoneIsForgotten, Owned
  <2>1. CASE ReaperSnapshots
    BY <2>0, <2>1 DEF ReaperSnapshots, Reapers
  <2>2. CASE ReaperRests
    <3>1. \/ reaper' = [reaper EXCEPT !.at = "off", !.left = 0]
          \/ reaper' = [reaper EXCEPT !.at = "snapshot", !.left = reaper.left - 1]
      BY <2>2, Zenon DEF ReaperRests
    <3>2. PICK where \in {"off", "snapshot"}, left \in Int :
            reaper' = [reaper EXCEPT !.at = where, !.left = left]
      <4>1. 0 \in Int /\ reaper.left - 1 \in Int
        BY <2>0 DEF Reapers
      <4> QED
        BY <3>1, <4>1
    <3> QED
      BY <2>0, <3>2 DEF Reapers
  <2>3. CASE \E p \in Procs : ReaperTerminates(p)
    BY <2>0, <2>3 DEF ReaperTerminates, Reapers
  <2> QED
    BY <2>1, <2>2, <2>3
<1>3. Owned' = Owned /\ registered \subseteq Owned /\ reaper.todo \subseteq Owned
  BY <1>1 DEF Owned, TreeInv, NoneIsForgotten, Referred
<1>4. /\ call' \in [Callers -> Calls]
      /\ \A b \in Callers : call'[b].at # "off" => call'[b].p \in Owned
  <2>1. CASE call' = call
    BY <2>1 DEF TreeInv, Shape, NoneIsForgotten, Referred
  <2>2. CASE \E p \in reaper.todo : call' = Begun(Reaper, p)
    BY <1>3, <2>2, CallBegins DEF Callers
  <2> QED
    BY <2>1, <2>2 DEF ReaperSnapshots, ReaperRests, ReaperTerminates
<1>5. Referred' /\ RetriesAreBounded'
  BY <1>1, <1>2, <1>3, <1>4 DEF TreeInv, NoneIsForgotten, Referred, RetriesAreBounded
<1> QED
  BY <1>1, <1>2, <1>3, <1>4, <1>5, ThreadKeeps DEF TreeInv, Shape

LEMMA ControlKeeps ==
    ASSUME TreeInv, ControlSnapshots \/ ControlAnswers \/ (\E p \in Procs : ControlTerminates(p))
    PROVE  TreeInv'
<1>1. UNCHANGED <<kid, said, main, watcher>>
      /\ reaper'.todo \subseteq reaper.todo /\ reaper' \in Reapers
  <2>1. UNCHANGED <<kid, said, main, watcher>> /\ (reaper' = reaper \/ ReaperEnsured)
    BY DEF ControlSnapshots, ControlAnswers, ControlTerminates, Quiescent, guard, tree
  <2> QED
    BY <2>1, EnsuredKeeps DEF TreeInv, Shape
<1>2. control'.todo \subseteq control.todo \cup registered /\ control' \in Controls
  <2>0. /\ control \in Controls /\ registered \subseteq Procs
        /\ call[Control].sure \in BOOLEAN
    BY DEF TreeInv, Shape, NoneIsForgotten, Owned, Calls, Callers
  <2>1. CASE ControlSnapshots
    BY <2>0, <2>1 DEF ControlSnapshots, Controls
  <2>2. CASE ControlAnswers
    BY <2>0, <2>2 DEF ControlAnswers, Controls
  <2>3. CASE \E p \in Procs : ControlTerminates(p)
    <3>1. PICK p \in Procs :
            control' = [control EXCEPT !.todo = @ \ {p}, !.sure = @ /\ call[Control].sure]
      BY <2>3 DEF ControlTerminates
    <3>2. PICK sure \in BOOLEAN : control' = [control EXCEPT !.todo = @ \ {p}, !.sure = sure]
      BY <2>0, <3>1, Zenon DEF Controls
    <3> QED
      BY <2>0, <3>2 DEF Controls
  <2> QED
    BY <2>1, <2>2, <2>3
<1>3. Owned' = Owned /\ registered \subseteq Owned /\ control.todo \subseteq Owned
  BY <1>1 DEF Owned, TreeInv, NoneIsForgotten, Referred
<1>4. /\ call' \in [Callers -> Calls]
      /\ \A b \in Callers : call'[b].at # "off" => call'[b].p \in Owned
  <2>1. CASE call' = call
    BY <2>1 DEF TreeInv, Shape, NoneIsForgotten, Referred
  <2>2. CASE \E p \in control.todo : call' = Begun(Control, p)
    BY <1>3, <2>2, CallBegins DEF Callers
  <2> QED
    BY <2>1, <2>2 DEF ControlSnapshots, ControlAnswers, ControlTerminates
<1>5. Referred' /\ RetriesAreBounded'
  BY <1>1, <1>2, <1>3, <1>4 DEF TreeInv, NoneIsForgotten, Referred, RetriesAreBounded
<1>6. CASE UNCHANGED <<leader, registered, stopped>>
  BY <1>1, <1>2, <1>3, <1>4, <1>5, <1>6, ThreadKeeps DEF TreeInv, Shape
<1>7. ASSUME NEW p \in control.todo, Stopped(p), Released(p)
      PROVE  TreeInv'
  <2>1. Handles(p)
    BY <1>1, <1>3, <1>7, ReleaseHandles
  <2> QED
    BY <1>1, <1>2, <1>3, <1>4, <1>5, <2>1, HandlesKeeps DEF TreeInv, Shape
<1> QED
  BY <1>6, <1>7 DEF ControlSnapshots, ControlAnswers, ControlTerminates, Quiescent, tree

LEMMA NextTreeInv == ASSUME TreeInv, [Next]_vars PROVE TreeInv'
<1>1. CASE MainStep
  BY <1>1, LaunchKeeps, OwnKeeps, ReadingEnds, CloseKeeps, WeighKeeps, WaitKeeps DEF MainStep
<1>2. CASE Line \/ DeadlinePasses \/ GoesQuiet
  BY <1>2, ClockKeeps
<1>3. CASE Interrupt \/ Stop
  BY <1>3, ReadingEnds
<1>4. ASSUME NEW p \in Procs,
             \/ SpawnsKid(p) \/ KidEnds(p) \/ LeaderDies(p)
             \/ \E diag \in Diagnostics :
                   \/ \E term \in Terminals : Speaks(p, term, diag)
                   \/ \E code \in {"zero", "nonzero"} : Exits(p, code, diag)
      PROVE  TreeInv'
  BY <1>4, ProviderKeeps
<1>5. ASSUME NEW p \in Procs, WatcherFires(p) \/ ReaperTerminates(p) \/ ControlTerminates(p)
      PROVE  TreeInv'
  BY <1>5, WatcherKeeps, ReaperKeeps, ControlKeeps
<1>6. ASSUME NEW a \in Callers, Terminate(a) PROVE TreeInv'
  BY <1>6, TerminateKeeps
<1>7. CASE ReaperSnapshots \/ ReaperRests
  BY <1>7, ReaperKeeps
<1>8. CASE ControlSnapshots \/ ControlAnswers
  BY <1>8, ControlKeeps
<1>9. CASE UNCHANGED vars
  BY <1>9 DEF vars, tree, owned, guard, TreeInv, Shape, NoneIsForgotten, Referred, Owned,
     RetriesAreBounded, StoppedTreesAreDead, Alive
<1> QED
  BY <1>1, <1>2, <1>3, <1>4, <1>5, <1>6, <1>7, <1>8, <1>9 DEF Next

(* Whatever the bounds: a process tree that any of the four kinds of      *)
(* threads marked as confirmed stopped (_mark_process_tree_stopped of      *)
(* subprocess_utils.py) has no live process left, however many processes   *)
(* the attempt takes and whoever terminates them at the same time.         *)
THEOREM StoppedTreesAreAlwaysDead == Spec => []StoppedTreesAreDead
<1>1. TreeInv => StoppedTreesAreDead
  BY DEF TreeInv
<1> QED
  BY <1>1, InitTreeInv, NextTreeInv, PTL DEF Spec

---------------------------------------------------------------------------
(* The Markdown issue runner.  What a state file says of one issue: where a   *)
(* retry or a resume would continue finds what it needs.                      *)
Failed == Final \ {"COMPLETED"}
Fields == {"status", "cursor", "pass", "path", "rework", "tries", "running", "interrupted",
           "phase", "attempted", "extra", "active", "pause"}

Elements(q) == {q[k] : k \in 1..Len(q)}
IsList(q) == q \in Seq(Elements(q))

StateShape(s) ==
  /\ DOMAIN s = Fields
  /\ s.status \in [Issues -> {"NONE", "READY", "WAITING", "IN_PROGRESS"} \cup Final]
  /\ s.cursor \in [Issues -> Steps \cup {NoStep}]
  /\ s.pass \in [Issues -> Nat \ {0}] /\ s.extra \in [Issues -> Nat]
  /\ DOMAIN s.path = Issues /\ DOMAIN s.rework = Issues /\ DOMAIN s.tries = Issues
  /\ DOMAIN s.running = Issues /\ DOMAIN s.interrupted = Issues
  /\ s.active \in [issue : Issues \cup {NoIssue}, ordinal : Nat,
                   phase : {"NONE", "NORMAL_SCHEDULING", "BLOCKER_RESOLUTION"}]

(* The steps that have succeeded whenever a step is entered.                  *)
Before == CHOOSE before \in [Steps -> SUBSET Steps] : Preceding(before)
Available(q, n, step) ==
  \A p \in Before[step] : \E k \in n..Len(q) : q[k].step = p /\ q[k].outcome = "SUCCEEDED"

PassesOf(s) == IF s.active.phase = "NORMAL_SCHEDULING" THEN MaxPasses ELSE 1

(* r is the request that is open, if one is, and is in the history q, whose    *)
(* last execution from the start begins at n.                                 *)
Pending(q, n, r) ==
  /\ r = OpenRequest(q, n)
  /\ r = 0 \/ \E k \in n..Len(q) : q[k].id = r /\ q[k].outcome = "CHANGES_REQUESTED"

TriesAre(q, n) ==
  /\ IsList(q) /\ \A k \in 1..Len(q) : q[k].step \in Steps
  /\ n \in 1..(Len(q) + 1)
Untouched(s, i) ==
  s.status[i] \in {"NONE", "READY", "WAITING"} => Len(s.tries[i]) = 0 /\ s.extra[i] = 0
CursorIs(s, i, n) ==
  s.cursor[i] # NoStep =>
      /\ s.status[i] = "IN_PROGRESS"
      /\ s.pass[i] <= PassesOf(s)
      /\ Available(s.tries[i], n, s.cursor[i])
WorkIsReserved(s, i) == s.status[i] = "IN_PROGRESS" => s.active.issue = i
ReworkIs(s, i, n) ==
  \/ s.status[i] = "COMPLETED"
  \/ s.status[i] = "IN_PROGRESS" /\ s.cursor[i] = NoStep
  \/ Pending(s.tries[i], n, s.rework[i])
FailureIs(s, i, n) ==
  s.status[i] \in Failed =>
      LET last == s.tries[i][Len(s.tries[i])] IN
      /\ n <= Len(s.tries[i])
      /\ last.outcome \in {s.status[i], "SUCCEEDED"}
      /\ last.by = 0 \/ last.outcome = "SUCCEEDED" \/ last.by = s.rework[i]
      /\ Available(s.tries[i], n, last.step)
IssueIs(s, i, n) ==
  /\ TriesAre(s.tries[i], n) /\ Untouched(s, i) /\ CursorIs(s, i, n)
  /\ WorkIsReserved(s, i) /\ ReworkIs(s, i, n) /\ FailureIs(s, i, n)

(* A reservation is of an issue whose needs are complete, with rounds to      *)
(* spare, that the next selection contains.                                   *)
ReservationIs(s, selection) ==
  s.active.issue # NoIssue =>
      LET i == s.active.issue IN
      /\ Needs[i] \subseteq Completed(s)
      /\ s.active.phase # "NONE"
      /\ Rounds = 0 \/ s.extra[i] < Rounds
      /\ s.phase = "EXHAUSTED" => Rounds = 0 \/ s.status[i] = "COMPLETED"
      /\ i \in selection

StateIs(s, m, n, selection) ==
  /\ StateShape(s)
  /\ \A i \in Issues : IssueIs(s, i, n[i])
  /\ ReservationIs(s, selection)
  /\ m \subseteq Completed(s)

(* What the next selection contains, or is done.                              *)
Selectable == marked \cup Selection

(* What the process holds, place by place.                                    *)
Held == {"selected", "done", "step", "pass", "path", "rework", "from", "retried"}
Scheduling == {"loop", "choose", "issue", "execute", "turn"}
Ending == {"mark", "close", "charge"}
Leaving == {"leave", "end", "review"}
Starting == {"resolve", "renew", "wait"}

SelectionHolds ==
  doing \notin {"idle", "paused"} =>
      /\ Issue \in at.selected \cup {NoIssue} \cup marked
      /\ at.selected \subseteq Selectable
      /\ Single => \A i, j \in at.selected : i = j
DoneIs ==
  /\ at.done \subseteq Completed(mem)
  /\ doing \in Scheduling => Completed(mem) \subseteq at.done
  /\ doing \in Ending => Completed(mem) \subseteq at.done \cup {Issue}
PlaceIs ==
  /\ doing \in {"idle", "paused"} \cup Scheduling \cup Ending \cup Leaving \cup Starting
  /\ doing \in {"issue", "execute", "turn"} \cup Ending => Issue \in at.selected
  /\ doing \in Leaving => Issue = NoIssue
  /\ doing = "issue" => mem.status[Issue] # "COMPLETED"
  /\ doing = "mark" => mem.status[Issue] = "COMPLETED"
  /\ doing \in {"close", "charge"} => mem.status[Issue] \in Final
ExecutionIs ==
  doing \in {"execute", "turn"} =>
      /\ mem.status[Issue] = "IN_PROGRESS"
      /\ at.step \in Steps /\ at.pass \in 1..FinalPass
      /\ at.from \in 1..since[Issue]
      /\ Pending(mem.tries[Issue], since[Issue], at.rework)
      /\ Available(mem.tries[Issue], since[Issue], at.step)

RunnerInv ==
  /\ StateIs(mem, marked, since, Selectable) /\ StateIs(disk, marked, since, Selectable)
  /\ DOMAIN at = Held
  /\ at.selected \subseteq Issues
  /\ since \in [Issues -> Nat \ {0}] /\ marked \subseteq Issues
  /\ SelectionHolds /\ DoneIs /\ PlaceIs /\ ExecutionIs

---------------------------------------------------------------------------
(* Order and selection.                                                       *)

(* A set of numbers that is not empty has a least one.                        *)
LEMMA LeastNumber ==
    ASSUME NEW S \in SUBSET Nat, S # {}
    PROVE  \E k \in S : \A j \in S : k <= j
<1> DEFINE Less == OpToRel(<, Nat)
<1>1. PICK k \in S : \A j \in S : <<j, k>> \notin Less
  <2>1. IsWellFoundedOn(Less, Nat)
    BY NatLessThanWellFounded
  <2> QED
    BY <2>1, WFMin
<1>2. ASSUME NEW j \in S, j < k PROVE FALSE
  <2>1. <<j, k>> \in Nat \X Nat /\ <<j, k>>[1] < <<j, k>>[2]
    BY <1>2
  <2>2. <<j, k>> \in Less
    BY <2>1 DEF OpToRel
  <2> QED
    BY <2>2, <1>1
<1> QED
  BY <1>2

(* An issue has a place in the index.                                         *)
LEMMA PlaceOf ==
    ASSUME NEW i \in Issues
    PROVE  Place(i) \in 1..Len(Order) /\ Place(i) \in Nat
<1>1. DOMAIN Order = 1..Len(Order) /\ Len(Order) \in Nat
  BY OrderAssumption, LenProperties
<1>2. \E k \in 1..Len(Order) : Order[k] = i
  BY <1>1 DEF Issues, ToSet
<1> QED
  BY <1>1, <1>2 DEF Place

(* First takes an element of the set it is given.                             *)
LEMMA FirstIsIn ==
    ASSUME NEW S \in SUBSET Issues, S # {}
    PROVE  First(S) \in S
<1> DEFINE T == {Place(i) : i \in S}
<1>1. T \in SUBSET Nat /\ T # {}
  BY PlaceOf
<1>2. PICK k \in T : \A j \in T : k <= j
  BY <1>1, LeastNumber
<1>3. PICK i \in S : k = Place(i)
  BY <1>2
<1>4. \A j \in S : Place(i) <= Place(j)
  BY <1>2, <1>3
<1> QED
  BY <1>3, <1>4 DEF First

(* While an issue is open some open issue waits for nothing: the links have   *)
(* no cycle.                                                                  *)
LEMMA SomeIssueIsReady ==
    ASSUME Issues \ marked # {}
    PROVE  \E i \in Issues \ marked : Needs[i] \subseteq marked
<1> DEFINE S == Issues \ marked
<1>1. PICK rank \in [Issues -> 1..Len(Order)] :
          \A i \in Issues : \A d \in Needs[i] : rank[d] < rank[i]
  BY AcyclicAssumption
<1> DEFINE T == {rank[i] : i \in S}
<1>2. Len(Order) \in Nat
  BY OrderAssumption, LenProperties
<1>3. T \in SUBSET Nat /\ T # {}
  BY <1>1, <1>2
<1>4. PICK k \in T : \A j \in T : k <= j
  BY <1>3, LeastNumber
<1>5. PICK i \in S : k = rank[i]
  BY <1>4
<1>6. ASSUME NEW d \in Needs[i], d \notin marked PROVE FALSE
  <2>1. d \in S
    BY <1>6, <1>5, NeedsAssumption
  <2>2. rank[d] < rank[i] /\ rank[d] \in Nat /\ rank[i] \in Nat
    BY <1>1, <1>2, <1>5, <1>6, <2>1
  <2>3. rank[i] <= rank[d]
    BY <1>4, <1>5, <2>1
  <2> QED
    BY <2>2, <2>3
<1> QED
  BY <1>5, <1>6

(* What a run selects is open; all of it, or with --single-issue one issue.   *)
LEMMA SelectionIs ==
    /\ Selection \in SUBSET (Issues \ marked)
    /\ ~Single => Selection = Issues \ marked
    /\ Single => \A i, j \in Selection : i = j
<1> DEFINE ready == {i \in Issues \ marked : Needs[i] \subseteq marked}
<1>1. CASE Single /\ ready # {}
  <2>1. First(ready) \in ready
    BY <1>1, FirstIsIn
  <2>2. Selection = {First(ready)}
    BY <1>1 DEF Selection
  <2> QED
    BY <1>1, <2>1, <2>2
<1>2. CASE ~(Single /\ ready # {})
  <2>1. Selection = Issues \ marked
    BY <1>2 DEF Selection
  <2>2. Single => Issues \ marked = {}
    BY <1>2, SomeIssueIsReady
  <2> QED
    BY <2>1, <2>2
<1> QED
  BY <1>1, <1>2

(* The workflow's rule on inputs has the witness Before.                      *)
LEMMA BeforeIs ==
    /\ Before \in [Steps -> SUBSET Steps]
    /\ Preceding(Before)
BY InputsAssumption DEF Before

(* The larger of two numbers.                                                 *)
LEMMA MaxOfTwo ==
    ASSUME NEW m \in Nat, NEW n \in Nat
    PROVE  Max({m, n}) = IF m >= n THEN m ELSE n
<1> DEFINE top == IF m >= n THEN m ELSE n
<1>1. top \in {m, n} /\ (\A y \in {m, n} : top >= y)
  OBVIOUS
<1>2. ASSUME NEW x \in {m, n}, \A y \in {m, n} : x >= y PROVE x = top
  BY <1>2
<1> QED
  BY <1>1, <1>2 DEF Max

---------------------------------------------------------------------------
(* Histories.                                                                 *)

(* A list that is extended is a list, and keeps what it had.                  *)
LEMMA ExtendedList ==
    ASSUME NEW q, IsList(q), NEW e
    PROVE  /\ Len(q) \in Nat
           /\ IsList(Append(q, e)) /\ Len(Append(q, e)) = Len(q) + 1
           /\ \A k \in 1..Len(q) : Append(q, e)[k] = q[k]
           /\ Append(q, e)[Len(q) + 1] = e
<1> DEFINE V == Elements(q) \cup {e}
           a == Append(q, e)
<1>1. q \in Seq(V) /\ Len(q) \in Nat
  <2>1. q \in [1..Len(q) -> Elements(q)] /\ Len(q) \in Nat
    BY LenProperties DEF IsList
  <2> QED
    BY <2>1, SeqDef
<1>2. /\ a \in Seq(V) /\ Len(a) = Len(q) + 1
      /\ \A k \in 1..Len(q) : a[k] = q[k]
      /\ a[Len(q) + 1] = e
  BY <1>1, AppendProperties
<1>3. IsList(a)
  <2>1. a \in [1..Len(a) -> V] /\ Len(a) \in Nat
    BY <1>2, LenProperties
  <2>2. \A k \in 1..Len(a) : a[k] \in Elements(a)
    BY DEF Elements
  <2>3. a \in [1..Len(a) -> Elements(a)]
    BY <2>1, <2>2
  <2>4. a \in Seq(Elements(a))
    BY <2>1, <2>3, SeqDef
  <2> QED
    BY <2>4 DEF IsList
<1> QED
  BY <1>1, <1>2, <1>3

LEMMA EmptyIsList == IsList(<<>>) /\ Len(<<>>) = 0
BY DEF IsList, Elements

(* What is available stays so, whatever is tried next.                        *)
LEMMA StaysAvailable ==
    ASSUME NEW q, IsList(q), NEW n \in Nat \ {0}, NEW e, NEW step, Available(q, n, step)
    PROVE  Available(Append(q, e), n, step)
<1> DEFINE a == Append(q, e)
<1>1. /\ Len(q) \in Nat /\ Len(a) = Len(q) + 1
      /\ \A k \in 1..Len(q) : a[k] = q[k]
  BY ExtendedList
<1> HIDE DEF a
<1> SUFFICES ASSUME NEW p \in Before[step]
             PROVE  \E k \in n..Len(a) : a[k].step = p /\ a[k].outcome = "SUCCEEDED"
  BY DEF Available, a
<1>2. PICK k \in n..Len(q) : q[k].step = p /\ q[k].outcome = "SUCCEEDED"
  BY DEF Available
<1> QED
  BY <1>1, <1>2

(* A step whose inputs were there leads to one whose inputs are.              *)
LEMMA NextIsAvailable ==
    ASSUME NEW q, IsList(q), NEW n \in 1..(Len(q) + 1), NEW e,
           e.step \in Steps, e.outcome \in StepOutcomes,
           Route[e.step][e.outcome] # NoStep, Available(q, n, e.step)
    PROVE  Available(Append(q, e), n, Route[e.step][e.outcome])
<1> DEFINE a == Append(q, e)
           next == Route[e.step][e.outcome]
<1>1. /\ Len(q) \in Nat /\ Len(a) = Len(q) + 1
      /\ a[Len(q) + 1] = e
  BY ExtendedList
<1>2. n \in Nat \ {0}
  BY <1>1
<1>3. Available(a, n, e.step)
  BY <1>2, StaysAvailable
<1>4. Before[next] \subseteq Before[e.step] \cup (IF e.outcome = "SUCCEEDED" THEN {e.step} ELSE {})
  BY BeforeIs DEF Preceding
<1> HIDE DEF a, next
<1> SUFFICES ASSUME NEW p \in Before[next]
             PROVE  \E k \in n..Len(a) : a[k].step = p /\ a[k].outcome = "SUCCEEDED"
  BY DEF Available, a, next
<1>5. CASE p \in Before[e.step]
  BY <1>3, <1>5 DEF Available
<1>6. CASE e.outcome = "SUCCEEDED" /\ p = e.step
  <2>1. Len(q) + 1 \in n..Len(a)
    BY <1>1, <1>2
  <2> QED
    BY <1>1, <1>6, <2>1
<1> QED
  BY <1>4, <1>5, <1>6

(* Nothing has to be available at the start.                                  *)
LEMMA StartIsAvailable ==
    ASSUME NEW q, NEW n
    PROVE  Available(q, n, Start)
BY BeforeIs DEF Available, Preceding

(* At the first step of a fresh execution no request is open.                 *)
LEMMA FreshHasNoRequest ==
    ASSUME NEW q, Len(q) \in Nat
    PROVE  Pending(q, Len(q) + 1, 0)
<1>1. (Len(q) + 1)..Len(q) = {}
  OBVIOUS
<1> QED
  BY <1>1 DEF Pending, OpenRequest, Unmet

(* If the last attempt asks for changes, its request is the open one.         *)
LEMMA LastRequestIsOpen ==
    ASSUME NEW q, Len(q) \in Nat, NEW n \in 1..Len(q), q[Len(q)].outcome = "CHANGES_REQUESTED"
    PROVE  Pending(q, n, q[Len(q)].id)
<1> DEFINE u == Unmet(q, n)
<1>1. Len(q) \in u /\ Len(q) \in n..Len(q)
  BY DEF Unmet
<1>2. \A k \in u : k \in Nat /\ Len(q) >= k
  BY DEF Unmet
<1>3. ASSUME NEW x \in u, \A y \in u : x >= y PROVE x = Len(q)
  BY <1>1, <1>2, <1>3
<1>4. Max(u) = Len(q)
  BY <1>1, <1>2, <1>3 DEF Max
<1> QED
  BY <1>1, <1>4 DEF Pending, OpenRequest

(* What an attempt leaves open: its own request, none if a coder succeeded,   *)
(* else what was open before.                                                 *)
LEMMA RequestAfter ==
    ASSUME NEW q, IsList(q), NEW n \in 1..(Len(q) + 1), NEW e, NEW r, Pending(q, n, r),
           e.step \in Coders => e.outcome # "CHANGES_REQUESTED"
    PROVE  Pending(Append(q, e), n,
                   IF e.outcome = "CHANGES_REQUESTED" THEN e.id
                   ELSE IF e.outcome = "SUCCEEDED" /\ e.step \in Coders THEN 0 ELSE r)
<1> DEFINE a == Append(q, e)
<1>1. /\ Len(q) \in Nat /\ Len(a) = Len(q) + 1
      /\ \A k \in 1..Len(q) : a[k] = q[k]
      /\ a[Len(q) + 1] = e
  BY ExtendedList
<1> HIDE DEF a
<1>2. n..Len(a) = (n..Len(q)) \cup {Len(q) + 1} /\ n \in Nat \ {0}
  BY <1>1
<1>3. \A k \in n..Len(q) : a[k] = q[k] /\ k \in Nat /\ k < Len(q) + 1
  BY <1>1, <1>2
<1>4. CASE e.outcome = "CHANGES_REQUESTED"
  <2>1. n \in 1..Len(a) /\ Len(a) \in Nat
    BY <1>1, <1>2
  <2>2. a[Len(a)] = e
    BY <1>1
  <2> QED
    BY <1>4, <2>1, <2>2, LastRequestIsOpen DEF a
<1>5. CASE e.outcome = "SUCCEEDED" /\ e.step \in Coders
  <2>1. Unmet(a, n) = {}
    BY <1>1, <1>2, <1>3, <1>5 DEF Unmet
  <2> QED
    BY <1>5, <2>1 DEF Pending, OpenRequest, a
<1>6. CASE e.outcome # "CHANGES_REQUESTED" /\ ~(e.outcome = "SUCCEEDED" /\ e.step \in Coders)
  <2>1. Unmet(a, n) = Unmet(q, n)
    <3>1. ASSUME NEW k \in n..Len(q)
          PROVE  k \in Unmet(a, n) <=> k \in Unmet(q, n)
      BY <1>1, <1>2, <1>3, <1>6 DEF Unmet
    <3>2. Len(q) + 1 \notin Unmet(a, n)
      BY <1>1, <1>6 DEF Unmet
    <3>3. Unmet(a, n) \subseteq n..Len(a) /\ Unmet(q, n) \subseteq n..Len(q)
      BY DEF Unmet
    <3> QED
      BY <1>2, <3>1, <3>2, <3>3
  <2> DEFINE u == Unmet(q, n)
  <2>2. CASE u = {}
    BY <1>6, <2>1, <2>2, <1>2, <1>3 DEF Pending, OpenRequest, a
  <2>3. CASE u # {}
    <3>1. Max(u) \in u
      <4>1. u \subseteq n..Len(q)
        BY DEF Unmet
      <4> DEFINE T == {Len(q) - k : k \in u}
      <4>2. T \in SUBSET Nat /\ T # {}
        BY <1>1, <1>2, <4>1, <2>3
      <4>3. PICK t \in T : \A j \in T : t <= j
        BY <4>2, LeastNumber
      <4>4. PICK k \in u : t = Len(q) - k
        BY <4>3
      <4>5. ASSUME NEW y \in u PROVE k >= y
        <5>1. t <= Len(q) - y
          BY <4>3
        <5>2. k \in Nat /\ y \in Nat
          BY <1>2, <4>1
        <5> QED
          BY <1>1, <4>4, <5>1, <5>2
      <4> QED
        BY <4>4, <4>5 DEF Max
    <3>2. Max(u) \in n..Len(q)
      BY <3>1 DEF Unmet
    <3>3. a[Max(u)] = q[Max(u)]
      BY <1>3, <3>2
    <3>4. OpenRequest(a, n) = r
      BY <2>1, <2>3, <3>3 DEF OpenRequest, Pending
    <3>5. r = 0 \/ \E k \in n..Len(a) : a[k].id = r /\ a[k].outcome = "CHANGES_REQUESTED"
      BY <1>2, <1>3 DEF Pending
    <3> QED
      BY <1>6, <3>4, <3>5 DEF Pending, a
  <2> QED
    BY <2>2, <2>3
<1> QED
  BY <1>4, <1>5, <1>6

(* A history that grows is still one of known steps, begun where it was.      *)
LEMMA TriesGrow ==
    ASSUME NEW q, NEW n, TriesAre(q, n), NEW e, e.step \in Steps
    PROVE  TriesAre(Append(q, e), n)
<1> DEFINE a == Append(q, e)
<1>1. /\ Len(q) \in Nat /\ IsList(a) /\ Len(a) = Len(q) + 1
      /\ \A k \in 1..Len(q) : a[k] = q[k]
      /\ a[Len(q) + 1] = e
  BY ExtendedList DEF TriesAre
<1> HIDE DEF a
<1> QED
  BY <1>1 DEF TriesAre, a

---------------------------------------------------------------------------
(* State files.                                                               *)

(* What is said of an issue survives a step that leaves its work alone.       *)
LEMMA SameIssue ==
    ASSUME NEW s, NEW t, NEW i, NEW n, IssueIs(s, i, n),
           t.tries[i] = s.tries[i], t.cursor[i] = s.cursor[i], t.pass[i] = s.pass[i],
           t.rework[i] = s.rework[i], t.extra[i] \in {s.extra[i], 0} \/ s.status[i] \in Final,
           \/ t.status[i] = s.status[i]
           \/ {s.status[i], t.status[i]} \subseteq {"NONE", "READY", "WAITING"},
           t.active = s.active \/ s.status[i] # "IN_PROGRESS"
    PROVE  IssueIs(t, i, n)
<1>1. TriesAre(t.tries[i], n)
  BY DEF IssueIs
<1>2. Untouched(t, i)
  BY DEF IssueIs, Untouched, Final
<1>3. CursorIs(t, i, n)
  BY DEF IssueIs, CursorIs, PassesOf
<1>4. WorkIsReserved(t, i)
  BY DEF IssueIs, WorkIsReserved
<1>5. ReworkIs(t, i, n)
  BY DEF IssueIs, ReworkIs
<1>6. FailureIs(t, i, n)
  <2>1. CASE t.status[i] = s.status[i]
    BY <2>1 DEF IssueIs, FailureIs
  <2>2. CASE t.status[i] \in {"NONE", "READY", "WAITING"}
    BY <2>2 DEF FailureIs, Failed, Final
  <2> QED
    BY <2>1, <2>2
<1> QED
  BY <1>1, <1>2, <1>3, <1>4, <1>5, <1>6 DEF IssueIs

(* Two states that say the same of every issue and of the reservation.        *)
SameWork(s, t) ==
  /\ DOMAIN t = DOMAIN s
  /\ t.status = s.status /\ t.cursor = s.cursor /\ t.pass = s.pass /\ t.path = s.path
  /\ t.rework = s.rework /\ t.tries = s.tries /\ t.running = s.running
  /\ t.interrupted = s.interrupted /\ t.extra = s.extra /\ t.active = s.active

(* A pause, or its end, touches no issue and no reservation.                  *)
LEMMA PauseKeepsState ==
    ASSUME NEW s, NEW m, NEW n, NEW selection, StateIs(s, m, n, selection), NEW t,
           SameWork(s, t), t.phase \in {s.phase, "RUN_PAUSED"}
    PROVE  StateIs(t, m, n, selection)
<1>1. StateShape(t)
  BY DEF StateIs, StateShape, SameWork
<1>2. \A i \in Issues : IssueIs(t, i, n[i])
  BY SameIssue DEF StateIs, SameWork
<1>3. ReservationIs(t, selection)
  BY DEF StateIs, ReservationIs, Completed, SameWork
<1> QED
  BY <1>1, <1>2, <1>3 DEF StateIs, Completed, SameWork

(* ... nor does waiting for a limit, another blocker, or the end of a pause.  *)
LEMMA PausesAreQuiet ==
    ASSUME NEW s, StateShape(s), NEW p
    PROVE  /\ SameWork(s, [s EXCEPT !.pause = p])
           /\ [s EXCEPT !.pause = p].phase = s.phase
           /\ SameWork(s, [s EXCEPT !.phase = "RUN_PAUSED", !.pause = p])
           /\ [s EXCEPT !.phase = "RUN_PAUSED", !.pause = p].phase = "RUN_PAUSED"
BY DEF StateShape, Fields, SameWork

(* A renewal gives retry rounds back, to none that is reserved.               *)
LEMMA RenewalKeepsState ==
    ASSUME NEW s, NEW m, NEW n, NEW selection, StateIs(s, m, n, selection), NEW requested,
           s.active.issue \notin requested
    PROVE  /\ StateIs(Renewed(s, requested), m, n, selection)
           /\ Renewed(s, requested).active = s.active
           /\ Renewed(s, requested).status = s.status
<1> DEFINE t == Renewed(s, requested)
<1>1. /\ DOMAIN t = DOMAIN s
      /\ t.status = s.status /\ t.cursor = s.cursor /\ t.pass = s.pass /\ t.path = s.path
      /\ t.rework = s.rework /\ t.tries = s.tries /\ t.running = s.running
      /\ t.interrupted = s.interrupted /\ t.active = s.active
      /\ t.extra = [i \in Issues |-> IF i \in requested THEN 0 ELSE s.extra[i]]
      /\ t.phase = "NORMAL_SCHEDULING"
  BY DEF StateIs, StateShape, Fields, Renewed
<1> HIDE DEF t
<1>2. StateShape(t)
  BY <1>1 DEF StateIs, StateShape
<1>3. \A i \in Issues : IssueIs(t, i, n[i])
  BY <1>1, SameIssue DEF StateIs
<1>4. ReservationIs(t, selection)
  <2>1. s.active.issue \in Issues \cup {NoIssue}
    BY DEF StateIs, StateShape
  <2>2. s.active.issue # NoIssue => t.extra[s.active.issue] = s.extra[s.active.issue]
    BY <1>1, <2>1
  <2> QED
    BY <1>1, <2>2 DEF StateIs, ReservationIs, Completed
<1> QED
  BY <1>1, <1>2, <1>3, <1>4 DEF StateIs, Completed, t

(* A projection moves issues between ready and waiting that nobody worked on, *)
(* and calls the schedule exhausted only if a reservation has nothing left.   *)
LEMMA ProjectionKeepsState ==
    ASSUME NEW s, NEW m, NEW n, NEW selection, StateIs(s, m, n, selection), NEW t,
           DOMAIN t = Fields,
           t.cursor = s.cursor, t.pass = s.pass, t.path = s.path, t.rework = s.rework,
           t.tries = s.tries, t.running = s.running, t.interrupted = s.interrupted,
           t.extra = s.extra, t.active = s.active,
           t.status \in [Issues -> {"NONE", "READY", "WAITING", "IN_PROGRESS"} \cup Final],
           \A i \in Issues : \/ t.status[i] = s.status[i]
                             \/ {s.status[i], t.status[i]} \subseteq {"NONE", "READY", "WAITING"},
           t.phase = "EXHAUSTED" /\ s.active.issue # NoIssue =>
               Rounds = 0 \/ s.status[s.active.issue] = "COMPLETED"
    PROVE  StateIs(t, m, n, selection) /\ Completed(t) = Completed(s)
<1>1. \A i \in Issues : t.status[i] = "COMPLETED" <=> s.status[i] = "COMPLETED"
  OBVIOUS
<1>2. Completed(t) = Completed(s)
  BY <1>1 DEF Completed
<1>4. StateShape(t)
  BY DEF StateIs, StateShape
<1>5. \A i \in Issues : IssueIs(t, i, n[i])
  BY SameIssue DEF StateIs
<1>6. ReservationIs(t, selection)
  <2>1. s.active.issue \in Issues \cup {NoIssue}
    BY DEF StateIs, StateShape
  <2> QED
    BY <1>1, <1>2, <2>1 DEF StateIs, ReservationIs
<1> QED
  BY <1>2, <1>4, <1>5, <1>6 DEF StateIs

(* Charging ends a reservation nobody works on any more.                      *)
LEMMA ChargeKeepsState ==
    ASSUME NEW s, NEW m, NEW n, NEW selection, StateIs(s, m, n, selection),
           s.active.issue \in Issues, s.status[s.active.issue] \in Final
    PROVE  /\ StateIs(Charged(s), m, n, selection)
           /\ Charged(s).active.issue = NoIssue
           /\ Charged(s).status = s.status
<1> DEFINE t == Charged(s)
           i == s.active.issue
           top == Max({s.extra[i], s.active.ordinal})
<1>0. s.active.ordinal \in Nat /\ s.extra \in [Issues -> Nat] /\ top \in Nat
  BY MaxOfTwo DEF StateIs, StateShape
<1> HIDE DEF top
<1>1. /\ DOMAIN t = DOMAIN s
      /\ t.status = s.status /\ t.cursor = s.cursor /\ t.pass = s.pass /\ t.path = s.path
      /\ t.rework = s.rework /\ t.tries = s.tries /\ t.running = s.running
      /\ t.interrupted = s.interrupted /\ t.active = NoAttempt
      /\ \/ t.extra = s.extra
         \/ t.extra = [s.extra EXCEPT ![i] = top]
  BY DEF StateIs, StateShape, Fields, Charged, top
<1> HIDE DEF t
<1>2. StateShape(t)
  <2>1. t.extra \in [Issues -> Nat]
    BY <1>0, <1>1
  <2>2. t.active \in [issue : Issues \cup {NoIssue}, ordinal : Nat,
                      phase : {"NONE", "NORMAL_SCHEDULING", "BLOCKER_RESOLUTION"}]
    BY <1>1 DEF NoAttempt
  <2> QED
    BY <1>1, <2>1, <2>2 DEF StateIs, StateShape
<1>3. ASSUME NEW j \in Issues PROVE IssueIs(t, j, n[j])
  <2>1. s.status[j] # "IN_PROGRESS"
    BY DEF StateIs, IssueIs, WorkIsReserved, Final
  <2>2. t.extra[j] = s.extra[j] \/ s.status[j] \in Final
    BY <1>0, <1>1
  <2> QED
    BY <1>1, <2>1, <2>2, SameIssue DEF StateIs
<1>4. ReservationIs(t, selection)
  BY <1>1 DEF ReservationIs, NoAttempt
<1> QED
  BY <1>1, <1>2, <1>3, <1>4 DEF StateIs, Completed, NoAttempt, t

(* A reservation is of an issue whose needs are complete, with rounds to      *)
(* spare, and replaces none.                                                  *)
LEMMA ReservationKeepsState ==
    ASSUME NEW s, NEW m, NEW n, NEW selection, StateIs(s, m, n, selection),
           s.active.issue = NoIssue, NEW i \in Issues, Needs[i] \subseteq Completed(s),
           Rounds = 0 \/ s.extra[i] < Rounds, i \in selection, NEW t,
           DOMAIN t = DOMAIN s, t.status = s.status, t.cursor = s.cursor, t.pass = s.pass,
           t.path = s.path, t.rework = s.rework, t.tries = s.tries, t.running = s.running,
           t.interrupted = s.interrupted, t.extra = s.extra,
           t.active \in [issue : Issues, ordinal : Nat,
                         phase : {"NORMAL_SCHEDULING", "BLOCKER_RESOLUTION"}],
           t.active.issue = i, t.phase = t.active.phase
    PROVE  StateIs(t, m, n, selection)
<1>2. StateShape(t)
  BY DEF StateIs, StateShape
<1>3. ASSUME NEW j \in Issues PROVE IssueIs(t, j, n[j])
  <2>1. s.status[j] # "IN_PROGRESS"
    BY OrderAssumption DEF StateIs, IssueIs, WorkIsReserved
  <2> QED
    BY <2>1, SameIssue DEF StateIs
<1>4. ReservationIs(t, selection)
  BY DEF ReservationIs, Completed
<1> QED
  BY <1>2, <1>3, <1>4 DEF StateIs, Completed

(* A fresh execution begins a new part of the history.                        *)
LEMMA FreshKeepsState ==
    ASSUME NEW s, NEW m, NEW n, NEW selection, StateIs(s, m, n, selection),
           NEW i \in Issues, s.status[i] \notin Failed, s.cursor[i] = NoStep, NEW n2,
           n2[i] = Len(s.tries[i]) + 1, \A j \in Issues \ {i} : n2[j] = n[j]
    PROVE  StateIs(s, m, n2, selection)
<1>1. IssueIs(s, i, n[i]) /\ Len(s.tries[i]) \in Nat
  BY ExtendedList DEF StateIs, IssueIs, TriesAre
<1>2. CASE s.status[i] \in {"IN_PROGRESS", "COMPLETED"}
  BY <1>1, <1>2 DEF StateIs, IssueIs, TriesAre, Untouched, CursorIs, WorkIsReserved, ReworkIs,
                    FailureIs, Failed, Final
<1>3. CASE s.status[i] \in {"NONE", "READY", "WAITING"}
  <2>1. n2[i] = n[i]
    BY <1>1, <1>3 DEF IssueIs, Untouched, TriesAre
  <2> QED
    BY <2>1 DEF StateIs
<1>4. s.status[i] \in {"NONE", "READY", "WAITING", "IN_PROGRESS", "COMPLETED"}
  BY DEF StateIs, StateShape, Failed, Final
<1> QED
  BY <1>2, <1>3, <1>4

(* Entering the reserved issue leaves its history and its cursor alone.       *)
LEMMA EntryKeepsState ==
    ASSUME NEW s, NEW m, NEW n, NEW selection, StateIs(s, m, n, selection), NEW i \in Issues,
           s.active.issue = i, s.status[i] # "COMPLETED", NEW n2,
           n2[i] \in 1..(Len(s.tries[i]) + 1), \A j \in Issues \ {i} : n2[j] = n[j],
           s.cursor[i] = NoStep \/ (s.status[i] = "IN_PROGRESS" /\ n2[i] = n[i]),
           NEW t, DOMAIN t = DOMAIN s, t.status = [s.status EXCEPT ![i] = "IN_PROGRESS"],
           t.cursor = s.cursor, t.pass = s.pass, t.path = s.path,
           t.rework = s.rework, t.tries = s.tries, t.running = s.running,
           t.interrupted = s.interrupted, t.extra = s.extra, t.active = s.active,
           t.phase = s.phase
    PROVE  StateIs(t, m, n2, selection) /\ Completed(t) = Completed(s)
<1>2. StateShape(t)
  BY DEF StateIs, StateShape
<1>3. /\ t.status[i] = "IN_PROGRESS"
      /\ \A j \in Issues \ {i} : t.status[j] = s.status[j]
  BY DEF StateIs, StateShape
<1>4. Completed(t) = Completed(s)
  BY <1>3 DEF Completed
<1>5. ASSUME NEW j \in Issues \ {i} PROVE IssueIs(t, j, n2[j])
  <2>1. IssueIs(s, j, n[j]) /\ n2[j] = n[j]
    BY DEF StateIs
  <2>2. /\ t.tries[j] = s.tries[j] /\ t.cursor[j] = s.cursor[j] /\ t.pass[j] = s.pass[j]
        /\ t.rework[j] = s.rework[j] /\ t.extra[j] = s.extra[j] /\ t.active = s.active
        /\ t.status[j] = s.status[j]
    BY <1>3
  <2> QED
    BY ONLY <2>1, <2>2, SameIssue
<1>6. IssueIs(t, i, n2[i])
  <2>1. CASE s.status[i] = "IN_PROGRESS" /\ n2[i] = n[i]
    <3>1. IssueIs(s, i, n[i])
      BY DEF StateIs
    <3>2. /\ t.tries[i] = s.tries[i] /\ t.cursor[i] = s.cursor[i] /\ t.pass[i] = s.pass[i]
          /\ t.rework[i] = s.rework[i] /\ t.extra[i] = s.extra[i] /\ t.active = s.active
          /\ t.status[i] = s.status[i]
      BY <1>3, <2>1
    <3> QED
      BY ONLY <2>1, <3>1, <3>2, SameIssue
  <2>2. CASE s.cursor[i] = NoStep
    BY <1>3, <2>2 DEF StateIs, IssueIs, TriesAre, Untouched, CursorIs, WorkIsReserved,
                            ReworkIs, FailureIs, Failed, Final
  <2> QED
    BY <2>1, <2>2
<1>7. ReservationIs(t, selection)
  BY <1>3, <1>4 DEF StateIs, ReservationIs
<1> QED
  BY <1>2, <1>4, <1>5, <1>6, <1>7 DEF StateIs

(* Two states that say the same of every issue but one.                       *)
Elsewhere(s, t, i) ==
  \A j \in Issues \ {i} :
      /\ t.status[j] = s.status[j] /\ t.cursor[j] = s.cursor[j] /\ t.pass[j] = s.pass[j]
      /\ t.rework[j] = s.rework[j] /\ t.tries[j] = s.tries[j]

(* A checkpoint puts the cursor on a step whose inputs are there.             *)
LEMMA CheckpointKeepsState ==
    ASSUME NEW s, NEW m, NEW n, NEW selection, StateIs(s, m, n, selection), NEW i \in Issues,
           s.active.issue = i, s.status[i] = "IN_PROGRESS", NEW t, StateShape(t),
           Elsewhere(s, t, i), t.tries[i] = s.tries[i], t.status[i] = "IN_PROGRESS",
           t.cursor[i] \in Steps, Available(s.tries[i], n[i], t.cursor[i]),
           t.pass[i] \in 1..PassesOf(s), Pending(s.tries[i], n[i], t.rework[i]),
           t.extra = s.extra, t.active = s.active, t.phase = s.phase
    PROVE  StateIs(t, m, n, selection) /\ Completed(t) = Completed(s)
<1>1. Completed(t) = Completed(s)
  BY DEF Completed, Elsewhere
<1>2. \A j \in Issues \ {i} : IssueIs(t, j, n[j])
  BY SameIssue DEF StateIs, Elsewhere
<1>3. IssueIs(t, i, n[i])
  <2>1. t.pass[i] <= PassesOf(t) /\ NoStep # t.cursor[i]
    BY BoundAssumption, WorkflowAssumption DEF PassesOf
  <2> QED
    BY <2>1 DEF StateIs, IssueIs, TriesAre, Untouched, CursorIs, WorkIsReserved,
                ReworkIs, FailureIs, Failed, Final
<1>4. ReservationIs(t, selection)
  BY <1>1 DEF StateIs, ReservationIs
<1> QED
  BY <1>1, <1>2, <1>3, <1>4 DEF StateIs

(* From s to t the attempt e of the issue i, that was given the request r, is  *)
(* recorded, and what follows is decided.                                     *)
EndsAttempt(s, t, i, start, e, r) ==
  /\ StateShape(t) /\ Elsewhere(s, t, i)
  /\ t.extra = s.extra /\ t.active = s.active /\ t.phase = s.phase
  /\ e.step \in Steps /\ e.outcome \in StepOutcomes
  /\ e.step \in Coders => e.outcome # "CHANGES_REQUESTED"
  /\ e.by = IF e.step \in Coders THEN r ELSE 0
  /\ Pending(s.tries[i], start, r) /\ Available(s.tries[i], start, e.step)
  /\ t.tries[i] = Append(s.tries[i], e)
  /\ t.cursor[i] \in {NoStep, Route[e.step][e.outcome]}
  /\ t.cursor[i] # NoStep => t.pass[i] <= PassesOf(s)
  /\ t.status[i] \in {"IN_PROGRESS"} \cup Final
  /\ t.cursor[i] # NoStep <=> t.status[i] = "IN_PROGRESS"
  /\ t.status[i] \in Failed => e.outcome \in {t.status[i], "SUCCEEDED"}
  /\ t.rework[i] = IF e.outcome = "CHANGES_REQUESTED" THEN e.id
                   ELSE IF e.outcome = "SUCCEEDED" /\ e.step \in Coders THEN 0 ELSE r

(* An attempt that ends leaves a history a later retry can go on with.        *)
LEMMA AttemptKeepsState ==
    ASSUME NEW s, NEW m, NEW n, NEW selection, StateIs(s, m, n, selection), NEW i \in Issues,
           s.active.issue = i, s.status[i] = "IN_PROGRESS", NEW e, NEW r, NEW t,
           EndsAttempt(s, t, i, n[i], e, r)
    PROVE  StateIs(t, m, n, selection)
<1> DEFINE q == s.tries[i]
           a == Append(q, e)
           r2 == IF e.outcome = "CHANGES_REQUESTED" THEN e.id
                 ELSE IF e.outcome = "SUCCEEDED" /\ e.step \in Coders THEN 0 ELSE r
           next == t.cursor[i]
<1> USE DEF EndsAttempt
<1>2. t.tries[i] = a /\ t.rework[i] = r2
  OBVIOUS
<1>3. Completed(s) \subseteq Completed(t)
  BY DEF Completed, Elsewhere
<1>4. \A j \in Issues \ {i} : IssueIs(t, j, n[j])
  BY SameIssue DEF StateIs, Elsewhere
<1>5. TriesAre(q, n[i]) /\ IsList(q) /\ Len(q) \in Nat /\ n[i] \in 1..(Len(q) + 1)
  BY ExtendedList DEF StateIs, IssueIs, TriesAre
<1>6. /\ TriesAre(a, n[i]) /\ Len(a) = Len(q) + 1 /\ a[Len(a)] = e
  BY <1>5, TriesGrow, ExtendedList
<1>7. Pending(a, n[i], r2)
  BY <1>5, RequestAfter
<1>8. Available(a, n[i], e.step)
  BY <1>5, StaysAvailable
<1>9. next # NoStep => Available(a, n[i], next)
  BY <1>5, NextIsAvailable
<1> HIDE DEF a, q, r2
<1>10. IssueIs(t, i, n[i])
  <2>1. Untouched(t, i) /\ WorkIsReserved(t, i)
    BY DEF Untouched, WorkIsReserved, Final
  <2>2. CursorIs(t, i, n[i])
    BY <1>2, <1>9 DEF CursorIs, PassesOf
  <2>3. ReworkIs(t, i, n[i])
    BY <1>2, <1>7 DEF ReworkIs
  <2>4. FailureIs(t, i, n[i])
    <3> SUFFICES ASSUME t.status[i] \in Failed
                 PROVE  /\ n[i] <= Len(a)
                        /\ e.outcome \in {t.status[i], "SUCCEEDED"}
                        /\ e.by = 0 \/ e.outcome = "SUCCEEDED" \/ e.by = r2
                        /\ Available(a, n[i], e.step)
      BY <1>2, <1>6 DEF FailureIs
    <3> QED
      BY <1>5, <1>6, <1>8 DEF r2
  <2> QED
    BY <1>2, <1>6, <2>1, <2>2, <2>3, <2>4 DEF IssueIs
<1>11. ReservationIs(t, selection)
  BY <1>3 DEF StateIs, ReservationIs
<1> QED
  BY <1>3, <1>4, <1>10, <1>11 DEF StateIs

---------------------------------------------------------------------------
(* The steps of the runner.                                                   *)

(* Nothing but the mark of an issue changes what may be selected.             *)
LEMMA SelectableKept ==
    ASSUME marked' = marked
    PROVE  Selectable' = Selectable
BY DEF Selectable, Selection, First

(* What a step owes, if it leaves the files of the issues alone.              *)
LEMMA FilesKept ==
    ASSUME RunnerInv, marked' = marked, since' = since, disk' \in {mem, disk},
           StateIs(mem', marked, since, Selectable)
    PROVE  /\ StateIs(mem, marked, since, Selectable)'
           /\ StateIs(disk, marked, since, Selectable)'
           /\ since' \in [Issues -> Nat \ {0}] /\ marked' \subseteq Issues
BY SelectableKept DEF RunnerInv

(* ... and if it leaves the issues and what the process holds of them alone.  *)
LEMMA PlacesKept ==
    ASSUME RunnerInv, marked' = marked, since' = since, mem'.active = mem.active,
           Completed(mem') = Completed(mem), mem'.status = mem.status,
           at'.selected = at.selected, at'.done = at.done
    PROVE  /\ (doing' \notin {"idle", "paused"} => doing \notin {"idle", "paused"}) =>
                  SelectionHolds'
           /\ at'.done \subseteq Completed(mem')
BY SelectableKept DEF RunnerInv, SelectionHolds, DoneIs, Issue

LEMMA WriteStateKeeps ==
    ASSUME RunnerInv, WriteState
    PROVE  RunnerInv'
<1>1. /\ marked' = marked /\ since' = since /\ disk' = mem /\ mem' = mem /\ at' = at
      /\ doing' = doing
  BY DEF WriteState
<1>2. StateIs(mem', marked, since, Selectable)
  BY <1>1 DEF RunnerInv
<1> QED
  BY <1>1, <1>2, FilesKept, SelectableKept
     DEF RunnerInv, SelectionHolds, DoneIs, PlaceIs, ExecutionIs, Issue, FinalPass

LEMMA LaunchRunKeeps ==
    ASSUME RunnerInv, LaunchRun
    PROVE  RunnerInv'
<1>1. /\ marked' = marked /\ since' = since /\ disk' = disk /\ mem' = disk
      /\ DOMAIN at' = Held /\ at'.selected = Selection /\ at'.done = marked
      /\ doing' = "resolve"
  BY DEF LaunchRun, Open, NoWork, Goto, Held
<1>2. StateIs(mem', marked, since, Selectable)
  BY <1>1 DEF RunnerInv
<1>3. at'.selected \subseteq Issues
  BY <1>1, SelectionIs
<1>4. SelectionHolds'
  <2>1. disk.active.issue \in Selectable \cup {NoIssue}
    BY DEF RunnerInv, StateIs, ReservationIs
  <2>2. Single => \A i, j \in Selection : i = j
    BY SelectionIs
  <2> QED
    BY <1>1, <2>1, <2>2, SelectableKept DEF SelectionHolds, Issue, Selectable
<1>5. DoneIs'
  BY <1>1 DEF RunnerInv, StateIs, DoneIs, Scheduling, Ending
<1>6. PlaceIs' /\ ExecutionIs'
  BY <1>1 DEF PlaceIs, ExecutionIs, Starting, Ending, Leaving
<1> QED
  BY <1>1, <1>2, <1>3, <1>4, <1>5, <1>6, FilesKept DEF RunnerInv

LEMMA ResolveKeeps ==
    ASSUME RunnerInv, Resolve
    PROVE  RunnerInv'
<1>1. /\ marked' = marked /\ since' = since /\ disk' = disk /\ at' = at
      /\ doing = "resolve" /\ doing' = "renew"
      /\ mem' = mem \/ mem' = [mem EXCEPT !.pause = NoPause]
  BY DEF Resolve, Goto, Keep, Save
<1>2. StateIs(mem', marked, since, Selectable) /\ SameWork(mem, mem')
  <2>1. StateIs(mem, marked, since, Selectable)
    BY DEF RunnerInv
  <2>2. SameWork(mem, mem') /\ mem'.phase = mem.phase
    <3>1. StateShape(mem)
      BY <2>1 DEF StateIs
    <3>2. CASE mem' = mem
      BY <3>2 DEF SameWork
    <3>3. CASE mem' = [mem EXCEPT !.pause = NoPause]
      BY <3>1, <3>3, PausesAreQuiet
    <3> QED
      BY <1>1, <3>2, <3>3
  <2> QED
    BY ONLY <2>1, <2>2, PauseKeepsState
<1>3. Completed(mem') = Completed(mem)
  BY <1>2 DEF Completed, SameWork
<1>4. SelectionHolds' /\ at'.done \subseteq Completed(mem')
  BY <1>1, <1>2, <1>3, PlacesKept DEF SameWork
<1>5. DoneIs' /\ PlaceIs' /\ ExecutionIs'
  BY <1>1, <1>4 DEF DoneIs, PlaceIs, ExecutionIs, Scheduling, Starting, Ending, Leaving
<1> QED
  BY <1>1, <1>2, <1>4, <1>5, FilesKept DEF RunnerInv

LEMMA RenewKeeps ==
    ASSUME RunnerInv, Renew
    PROVE  RunnerInv'
<1>1. /\ marked' = marked /\ since' = since /\ disk' = disk /\ at' = at
      /\ doing = "renew" /\ doing' = "wait"
      /\ mem' = mem \/ (mem' = Renewed(mem, at.selected) /\ mem.active.issue \notin at.selected)
  <2>1. /\ marked' = marked /\ since' = since /\ disk' = disk /\ at' = at
        /\ doing = "renew" /\ doing' = "wait"
    BY DEF Renew, Goto
  <2>2. mem' = mem \/ (mem' = Renewed(mem, at.selected) /\ MayRenew)
    BY DEF Renew, Keep, Save
  <2> QED
    BY <2>1, <2>2 DEF MayRenew
<1>2. /\ StateIs(mem', marked, since, Selectable)
      /\ mem'.active = mem.active /\ mem'.status = mem.status
  BY <1>1, RenewalKeepsState DEF RunnerInv
<1>3. Completed(mem') = Completed(mem)
  BY <1>2 DEF Completed
<1>4. SelectionHolds' /\ at'.done \subseteq Completed(mem')
  BY <1>1, <1>2, <1>3, PlacesKept
<1>5. DoneIs' /\ PlaceIs' /\ ExecutionIs'
  BY <1>1, <1>4 DEF DoneIs, PlaceIs, ExecutionIs, Scheduling, Starting, Ending, Leaving
<1> QED
  BY <1>1, <1>2, <1>4, <1>5, FilesKept DEF RunnerInv

LEMMA WaitUntilKeeps ==
    ASSUME RunnerInv, WaitUntil
    PROVE  RunnerInv'
<1>1. /\ marked' = marked /\ since' = since /\ disk' = disk /\ mem' = mem
      /\ DOMAIN at' = Held /\ at'.selected = at.selected
      /\ at'.done = at.done \cup Completed(mem)
      /\ doing = "wait" /\ doing' = "loop"
  BY DEF WaitUntil, Goto, Keep, RunnerInv, Held
<1>2. StateIs(mem', marked, since, Selectable)
  BY <1>1 DEF RunnerInv
<1>3. SelectionHolds'
  BY <1>1, SelectableKept DEF RunnerInv, SelectionHolds, Issue
<1>4. DoneIs' /\ PlaceIs' /\ ExecutionIs'
  BY <1>1 DEF RunnerInv, DoneIs, PlaceIs, ExecutionIs, Scheduling, Starting, Ending, Leaving
<1> QED
  BY <1>1, <1>2, <1>3, <1>4, FilesKept DEF RunnerInv

LEMMA ProjectKeeps ==
    ASSUME RunnerInv, Project
    PROVE  RunnerInv'
<1>1. /\ marked' = marked /\ since' = since /\ disk' = disk /\ at' = at
      /\ doing = "loop" /\ doing' = "choose" /\ mem' = Projected(mem)
  BY DEF Project, Goto, Save
<1>2. /\ DOMAIN mem' = Fields
      /\ mem'.cursor = mem.cursor /\ mem'.pass = mem.pass /\ mem'.path = mem.path
      /\ mem'.rework = mem.rework /\ mem'.tries = mem.tries /\ mem'.running = mem.running
      /\ mem'.interrupted = mem.interrupted /\ mem'.extra = mem.extra
      /\ mem'.active = mem.active /\ mem'.phase = PhaseNow
      /\ mem'.status = [i \in Issues |->
             IF i \in Unfinished /\ mem.status[i] \in {"NONE", "READY", "WAITING"}
             THEN IF i \in WaitingIssues THEN "WAITING" ELSE "READY"
             ELSE mem.status[i]]
  BY <1>1 DEF RunnerInv, StateIs, StateShape, Fields, Projected
<1>3. ASSUME PhaseNow = "EXHAUSTED", mem.active.issue # NoIssue, Rounds # 0,
             mem.status[mem.active.issue] # "COMPLETED"
      PROVE  FALSE
  <2> DEFINE i == mem.active.issue
  <2>1. i \in Issues
    BY <1>3 DEF RunnerInv, StateIs, StateShape
  <2>2. NeverTried = {} /\ Resolvable = {}
    BY <1>3 DEF PhaseNow
  <2>3. /\ Needs[i] \subseteq Completed(mem) /\ mem.extra[i] < Rounds
        /\ marked \subseteq Completed(mem)
    BY <1>3 DEF RunnerInv, StateIs, ReservationIs
  <2>4. at.done = Completed(mem)
    BY <1>1 DEF RunnerInv, DoneIs, Scheduling
  <2>5. i \in at.selected
    BY <1>1, <1>3, <2>3 DEF RunnerInv, SelectionHolds, Issue, Completed
  <2>6. i \notin at.done
    BY <1>3, <2>4 DEF Completed
  <2>7. i \in ReadyIssues
    BY <2>3, <2>4, <2>5, <2>6 DEF ReadyIssues, Unfinished, IncompleteNeeds
  <2>8. i \in Resolvable \/ i \in NeverTried
    BY <1>3, <2>3, <2>7, BoundAssumption DEF Resolvable, NeverTried
  <2> QED
    BY <2>2, <2>8
<1>4. StateIs(mem', marked, since, Selectable) /\ Completed(mem') = Completed(mem)
  <2>1. mem'.status \in [Issues -> {"NONE", "READY", "WAITING", "IN_PROGRESS"} \cup Final]
    BY <1>2 DEF RunnerInv, StateIs, StateShape
  <2>2. \A i \in Issues :
            \/ mem'.status[i] = mem.status[i]
            \/ {mem.status[i], mem'.status[i]} \subseteq {"NONE", "READY", "WAITING"}
    BY <1>2
  <2>3. mem'.phase = "EXHAUSTED" /\ mem.active.issue # NoIssue =>
            Rounds = 0 \/ mem.status[mem.active.issue] = "COMPLETED"
    BY <1>2, <1>3
  <2>4. StateIs(mem, marked, since, Selectable)
    BY DEF RunnerInv
  <2> QED
    BY ONLY <1>2, <2>1, <2>2, <2>3, <2>4, ProjectionKeepsState
<1>5. SelectionHolds'
  BY <1>1, <1>2, SelectableKept DEF RunnerInv, SelectionHolds, Issue
<1>6. DoneIs' /\ PlaceIs' /\ ExecutionIs'
  BY <1>1, <1>4 DEF RunnerInv, DoneIs, PlaceIs, ExecutionIs, Scheduling, Starting, Ending, Leaving
<1> QED
  BY <1>1, <1>4, <1>5, <1>6, FilesKept DEF RunnerInv

(* A process that ends holds nothing.                                         *)
LEMMA NothingHeld ==
    ASSUME at' = NoWork, doing' \in {"idle", "paused"}
    PROVE  /\ DOMAIN at' = Held /\ at'.selected \subseteq Issues
           /\ SelectionHolds' /\ DoneIs' /\ PlaceIs' /\ ExecutionIs'
BY DEF NoWork, Held, SelectionHolds, DoneIs, PlaceIs, ExecutionIs, Scheduling, Ending, Leaving,
       Starting

LEMMA ChargeFinishedKeeps ==
    ASSUME RunnerInv, ChargeFinished
    PROVE  RunnerInv'
<1>1. /\ marked' = marked /\ since' = since /\ disk' = disk
      /\ doing = "choose" /\ doing' = "loop" /\ mem' = Charged(mem)
      /\ mem.active.issue \in at.selected /\ mem.status[mem.active.issue] = "COMPLETED"
  BY DEF ChargeFinished, Goto, Save
<1>2. /\ DOMAIN at' = Held /\ at'.selected = at.selected
      /\ at'.done = at.done \cup {mem.active.issue}
  BY DEF ChargeFinished, RunnerInv, Held
<1>3. /\ StateIs(mem', marked, since, Selectable)
      /\ mem'.active.issue = NoIssue /\ mem'.status = mem.status
  <2>1. StateIs(mem, marked, since, Selectable) /\ mem.active.issue \in Issues
    BY <1>1 DEF RunnerInv
  <2>2. mem.status[mem.active.issue] \in Final
    BY <1>1 DEF Final
  <2> QED
    BY ONLY <1>1, <2>1, <2>2, ChargeKeepsState
<1>4. Completed(mem') = Completed(mem) /\ mem.active.issue \in Completed(mem)
  BY <1>1, <1>3 DEF Completed, RunnerInv
<1>5. SelectionHolds'
  BY <1>1, <1>2, <1>3, SelectableKept DEF RunnerInv, SelectionHolds, Issue
<1>6. DoneIs' /\ PlaceIs' /\ ExecutionIs'
  BY <1>1, <1>2, <1>4 DEF RunnerInv, DoneIs, PlaceIs, ExecutionIs, Scheduling, Starting, Ending,
                          Leaving
<1> QED
  BY <1>1, <1>2, <1>3, <1>5, <1>6, FilesKept DEF RunnerInv

LEMMA ResumeReservedKeeps ==
    ASSUME RunnerInv, ResumeReserved
    PROVE  RunnerInv'
<1>1. /\ marked' = marked /\ since' = since /\ disk' = disk /\ at' = at /\ mem' = mem
      /\ doing = "choose" /\ doing' = "issue"
      /\ Issue \in at.selected /\ mem.status[Issue] # "COMPLETED"
  BY DEF ResumeReserved, Goto, Keep, Issue
<1>2. StateIs(mem', marked, since, Selectable)
  BY <1>1 DEF RunnerInv
<1>3. SelectionHolds'
  BY <1>1, SelectableKept DEF RunnerInv, SelectionHolds, Issue
<1>4. DoneIs' /\ PlaceIs' /\ ExecutionIs'
  BY <1>1 DEF RunnerInv, DoneIs, PlaceIs, ExecutionIs, Scheduling, Starting, Ending, Leaving, Issue
<1> QED
  BY <1>1, <1>2, <1>3, <1>4, FilesKept DEF RunnerInv

(* What may be reserved: a selected issue that is open and waits for nothing. *)
LEMMA ReserveKeeps ==
    ASSUME RunnerInv, NEW i \in ReadyIssues, NEW k \in Nat,
           NEW phase \in {"NORMAL_SCHEDULING", "BLOCKER_RESOLUTION"}, Reserve(i, phase, k),
           Rounds = 0 \/ mem.extra[i] < Rounds
    PROVE  RunnerInv'
<1>1. /\ marked' = marked /\ since' = since /\ disk' = disk /\ at' = at
      /\ doing = "choose" /\ doing' = "issue" /\ mem.active.issue = NoIssue
      /\ mem' = [mem EXCEPT !.phase = phase,
                            !.active = [issue |-> i, phase |-> phase, ordinal |-> k]]
  BY DEF Reserve, Goto, Save, Reserved
<1>2. /\ i \in at.selected /\ i \in Issues /\ i \notin at.done /\ Needs[i] \subseteq at.done
  BY DEF ReadyIssues, Unfinished, IncompleteNeeds, RunnerInv
<1>3. at.done = Completed(mem) /\ i \in Selectable
  BY <1>1, <1>2 DEF RunnerInv, DoneIs, Scheduling, SelectionHolds
<1>4. mem.status[i] # "COMPLETED"
  BY <1>2, <1>3 DEF Completed
<1>5. /\ DOMAIN mem' = DOMAIN mem /\ mem'.status = mem.status
      /\ mem'.cursor = mem.cursor /\ mem'.pass = mem.pass /\ mem'.path = mem.path
      /\ mem'.rework = mem.rework /\ mem'.tries = mem.tries /\ mem'.running = mem.running
      /\ mem'.interrupted = mem.interrupted /\ mem'.extra = mem.extra
      /\ mem'.active = [issue |-> i, phase |-> phase, ordinal |-> k] /\ mem'.phase = phase
  BY <1>1 DEF RunnerInv, StateIs, StateShape, Fields
<1>6. StateIs(mem', marked, since, Selectable)
  <2>1. StateIs(mem, marked, since, Selectable) /\ Needs[i] \subseteq Completed(mem)
    BY <1>2, <1>3 DEF RunnerInv
  <2>2. /\ mem'.active \in [issue : Issues, ordinal : Nat,
                            phase : {"NORMAL_SCHEDULING", "BLOCKER_RESOLUTION"}]
        /\ mem'.active.issue = i /\ mem'.phase = mem'.active.phase
    BY <1>2, <1>5
  <2>3. Rounds = 0 \/ mem.extra[i] < Rounds
    OBVIOUS
  <2> QED
    BY ONLY <1>1, <1>2, <1>3, <1>5, <2>1, <2>2, <2>3, ReservationKeepsState
<1>7. SelectionHolds'
  BY <1>1, <1>2, <1>5, SelectableKept DEF RunnerInv, SelectionHolds, Issue
<1>8. Completed(mem') = Completed(mem)
  BY <1>5 DEF Completed
<1>9. DoneIs' /\ PlaceIs' /\ ExecutionIs'
  BY <1>1, <1>2, <1>4, <1>5, <1>8
     DEF RunnerInv, DoneIs, PlaceIs, ExecutionIs, Scheduling, Starting, Ending, Leaving, Issue
<1> QED
  BY <1>1, <1>6, <1>7, <1>9, FilesKept DEF RunnerInv

LEMMA ReserveNormalKeeps ==
    ASSUME RunnerInv, ReserveNormal
    PROVE  RunnerInv'
<1> DEFINE i == First(NeverTried)
<1>1. NeverTried \in SUBSET Issues /\ NeverTried # {}
  BY DEF ReserveNormal, NeverTried, ReadyIssues, Unfinished, RunnerInv
<1>2. i \in NeverTried
  BY <1>1, FirstIsIn
<1>3. i \in ReadyIssues /\ i \in at.selected /\ i \in Issues /\ mem.status[i] \notin Final
  BY <1>1, <1>2 DEF NeverTried, ReadyIssues, Unfinished, NormalAttempted
<1>4. Reserve(i, "NORMAL_SCHEDULING", 1) /\ mem.active.issue = NoIssue
  BY DEF ReserveNormal, Reserve, Reserved
<1>5. mem.extra[i] = 0
  <2>1. IssueIs(mem, i, since[i]) /\ StateShape(mem)
    BY <1>3 DEF RunnerInv, StateIs
  <2>2. mem.status[i] # "IN_PROGRESS"
    BY <1>3, <1>4, <2>1, OrderAssumption DEF IssueIs, WorkIsReserved
  <2>3. mem.status[i] \in {"NONE", "READY", "WAITING"}
    BY <1>3, <2>1, <2>2 DEF StateShape
  <2> QED
    BY <2>1, <2>3 DEF IssueIs, Untouched
<1>6. Rounds = 0 \/ mem.extra[i] < Rounds
  BY <1>5, BoundAssumption
<1> HIDE DEF i
<1> QED
  BY <1>3, <1>4, <1>6, ReserveKeeps

LEMMA ReserveBlockerKeeps ==
    ASSUME RunnerInv, ReserveBlocker
    PROVE  RunnerInv'
<1> DEFINE i == First(LeastResolved)
           T == {mem.extra[j] : j \in Resolvable}
<1>1. /\ Resolvable \in SUBSET Issues /\ Resolvable # {} /\ mem.extra \in [Issues -> Nat]
  BY DEF ReserveBlocker, Resolvable, ReadyIssues, Unfinished, RunnerInv, StateIs, StateShape
<1>2. LeastResolved \in SUBSET Issues /\ LeastResolved # {}
  <2>1. T \in SUBSET Nat /\ T # {}
    BY <1>1
  <2>2. PICK t \in T : \A u \in T : t <= u
    BY <2>1, LeastNumber
  <2>3. PICK j \in Resolvable : t = mem.extra[j]
    BY <2>2
  <2>4. \A u \in Resolvable : mem.extra[j] <= mem.extra[u]
    BY <2>2, <2>3
  <2> QED
    BY <1>1, <2>3, <2>4 DEF LeastResolved
<1>3. i \in LeastResolved
  BY <1>2, FirstIsIn
<1>4. i \in ReadyIssues /\ mem.extra[i] < Rounds /\ i \in Issues
  BY <1>1, <1>3 DEF LeastResolved, Resolvable
<1>5. Reserve(i, "BLOCKER_RESOLUTION", mem.extra[i] + 1) /\ mem.extra[i] + 1 \in Nat
  BY <1>1, <1>4 DEF ReserveBlocker
<1> HIDE DEF i
<1> QED
  BY <1>4, <1>5, ReserveKeeps

LEMMA ScheduleEndsKeeps ==
    ASSUME RunnerInv, ScheduleEnds
    PROVE  RunnerInv'
<1>1. /\ marked' = marked /\ since' = since /\ disk' = disk /\ at' = at /\ mem' = mem
      /\ doing = "choose" /\ doing' = "leave" /\ Issue = NoIssue
  BY DEF ScheduleEnds, Goto, Keep, Issue, Reserved
<1>2. StateIs(mem', marked, since, Selectable)
  BY <1>1 DEF RunnerInv
<1>3. SelectionHolds'
  BY <1>1, SelectableKept DEF RunnerInv, SelectionHolds, Issue
<1>4. DoneIs' /\ PlaceIs' /\ ExecutionIs'
  BY <1>1 DEF RunnerInv, DoneIs, PlaceIs, ExecutionIs, Scheduling, Starting, Ending, Leaving, Issue
<1> QED
  BY <1>1, <1>2, <1>3, <1>4, FilesKept DEF RunnerInv

(* A change of the pause, by a process that is not executing a step.          *)
LEMMA PauseKeeps ==
    ASSUME RunnerInv, SameWork(mem, mem'), mem'.phase \in {mem.phase, "RUN_PAUSED"}
    PROVE  /\ StateIs(mem', marked, since, Selectable)
           /\ Completed(mem') = Completed(mem)
<1>1. StateIs(mem, marked, since, Selectable)
  BY DEF RunnerInv
<1>2. SameWork(mem, mem') /\ mem'.phase \in {mem.phase, "RUN_PAUSED"}
  OBVIOUS
<1>3. StateIs(mem', marked, since, Selectable)
  BY ONLY <1>1, <1>2, PauseKeepsState
<1> QED
  BY <1>2, <1>3 DEF Completed, SameWork

LEMMA EndPauseKeeps ==
    ASSUME RunnerInv, EndPause
    PROVE  RunnerInv'
<1>1. /\ marked' = marked /\ since' = since /\ disk' = disk /\ at' = at
      /\ \/ doing = "close" /\ doing' = "charge"
         \/ doing = "leave" /\ doing' = "end"
      /\ mem' = [mem EXCEPT !.pause = NoPause]
  BY DEF EndPause, Save, Goto
<1>2. SameWork(mem, mem') /\ mem'.phase = mem.phase
  BY <1>1, PausesAreQuiet DEF RunnerInv, StateIs
<1>3. StateIs(mem', marked, since, Selectable) /\ Completed(mem') = Completed(mem)
  BY <1>2, PauseKeeps
<1>4. SelectionHolds' /\ at'.done \subseteq Completed(mem')
  BY <1>1, <1>2, <1>3, PlacesKept DEF SameWork
<1>5. DoneIs' /\ PlaceIs' /\ ExecutionIs'
  BY <1>1, <1>2, <1>3, <1>4
     DEF RunnerInv, DoneIs, PlaceIs, ExecutionIs, Scheduling, Starting, Ending, Leaving, Issue,
         SameWork
<1> QED
  BY <1>1, <1>3, <1>4, <1>5, FilesKept DEF RunnerInv

LEMMA ChargeKeeps ==
    ASSUME RunnerInv, Charge
    PROVE  RunnerInv'
<1>1. /\ marked' = marked /\ since' = since /\ disk' = disk
      /\ doing = "charge" /\ doing' = "loop" /\ mem' = Charged(mem)
  BY DEF Charge, Goto, Save
<1>2. /\ DOMAIN at' = Held /\ at'.selected = at.selected
      /\ at'.done = IF mem.status[Issue] = "COMPLETED" THEN at.done \cup {Issue} ELSE at.done
  BY DEF Charge, RunnerInv, Held, Issue
<1>3. /\ Issue \in Issues /\ mem.status[Issue] \in Final
      /\ Completed(mem) \subseteq at.done \cup {Issue}
  BY <1>1 DEF RunnerInv, PlaceIs, DoneIs, Ending
<1>4. /\ StateIs(mem', marked, since, Selectable)
      /\ mem'.active.issue = NoIssue /\ mem'.status = mem.status
  <2>1. StateIs(mem, marked, since, Selectable)
    BY DEF RunnerInv
  <2> QED
    BY ONLY <1>1, <1>3, <2>1, ChargeKeepsState DEF Issue
<1>5. Completed(mem') = Completed(mem)
  BY <1>4 DEF Completed
<1>6. at'.done = Completed(mem)
  <2>1. at.done \subseteq Completed(mem)
    BY DEF RunnerInv, DoneIs
  <2> QED
    BY <1>2, <1>3, <2>1 DEF Completed
<1>7. SelectionHolds'
  BY <1>1, <1>2, <1>4, SelectableKept DEF RunnerInv, SelectionHolds, Issue
<1>8. DoneIs' /\ PlaceIs' /\ ExecutionIs'
  BY <1>1, <1>5, <1>6 DEF DoneIs, PlaceIs, ExecutionIs, Scheduling, Starting, Ending, Leaving
<1> QED
  BY <1>1, <1>2, <1>4, <1>7, <1>8, FilesKept DEF RunnerInv

LEMMA LeaveKeeps ==
    ASSUME RunnerInv, Leave
    PROVE  RunnerInv'
<1>1. /\ marked' = marked /\ since' = since /\ disk' = disk /\ mem' = mem /\ doing = "end"
      /\ \/ doing' = "idle" /\ at' = NoWork
         \/ doing' = "review" /\ at' = at
  BY DEF Leave, Goto, Keep
<1>2. StateIs(mem', marked, since, Selectable)
  BY <1>1 DEF RunnerInv
<1>3. CASE doing' = "idle" /\ at' = NoWork
  BY <1>1, <1>2, <1>3, NothingHeld, FilesKept DEF RunnerInv
<1>4. CASE doing' = "review" /\ at' = at
  <2>1. SelectionHolds'
    BY <1>1, <1>4, SelectableKept DEF RunnerInv, SelectionHolds, Issue
  <2>2. DoneIs' /\ PlaceIs' /\ ExecutionIs'
    BY <1>1, <1>4
       DEF RunnerInv, DoneIs, PlaceIs, ExecutionIs, Scheduling, Starting, Ending, Leaving, Issue
  <2> QED
    BY <1>1, <1>2, <1>4, <2>1, <2>2, FilesKept DEF RunnerInv
<1> QED
  BY <1>1, <1>3, <1>4

LEMMA ReviewKeeps ==
    ASSUME RunnerInv, Review
    PROVE  RunnerInv'
<1> DEFINE requested == at.selected \ Completed(mem)
<1>1. /\ marked' = marked /\ since' = since /\ disk' = disk /\ doing = "review"
      /\ \/ doing' = "idle" /\ at' = NoWork /\ mem' = mem
         \/ doing' = "resolve" /\ at' = Open(Selection) /\ mem' = Renewed(mem, requested)
  BY DEF Review, Goto, Keep, Save
<1>2. CASE doing' = "idle" /\ at' = NoWork /\ mem' = mem
  <2>1. StateIs(mem', marked, since, Selectable)
    BY <1>2 DEF RunnerInv
  <2> QED
    BY <1>1, <1>2, <2>1, NothingHeld, FilesKept DEF RunnerInv
<1>3. CASE doing' = "resolve" /\ at' = Open(Selection) /\ mem' = Renewed(mem, requested)
  <2>1. mem.active.issue = NoIssue /\ mem.active.issue \notin requested
    BY <1>1, OrderAssumption DEF RunnerInv, PlaceIs, Leaving, Issue
  <2>2. /\ StateIs(mem', marked, since, Selectable)
        /\ mem'.active = mem.active /\ mem'.status = mem.status
    <3>1. StateIs(mem, marked, since, Selectable)
      BY DEF RunnerInv
    <3> QED
      BY ONLY <1>3, <2>1, <3>1, RenewalKeepsState
  <2>3. DOMAIN at' = Held /\ at'.selected = Selection /\ at'.done = marked
    BY <1>3 DEF Open, NoWork, Held
  <2>4. at'.selected \subseteq Issues
    BY <2>3, SelectionIs
  <2>5. SelectionHolds'
    <3>1. Single => \A i, j \in Selection : i = j
      BY SelectionIs
    <3> QED
      BY <1>1, <1>3, <2>1, <2>2, <2>3, <3>1, SelectableKept DEF SelectionHolds, Issue, Selectable
  <2>6. DoneIs'
    BY <1>3, <2>2, <2>3 DEF RunnerInv, StateIs, DoneIs, Scheduling, Ending, Completed
  <2>7. PlaceIs' /\ ExecutionIs'
    BY <1>3 DEF PlaceIs, ExecutionIs, Starting, Ending, Leaving
  <2> QED
    BY <1>1, <2>2, <2>3, <2>4, <2>5, <2>6, <2>7, FilesKept DEF RunnerInv
<1> QED
  BY <1>1, <1>2, <1>3

(* Entering an execution whose start, step, request and inputs are known.     *)
LEMMA EntryKeeps ==
    ASSUME RunnerInv, doing = "issue", Saved, NEW place, Entered(place),
           mem.cursor[Issue] = NoStep \/ mem.status[Issue] = "IN_PROGRESS",
           StateIs(mem, marked, since', Selectable), since' \in [Issues -> Nat \ {0}],
           DOMAIN place = Held, place.selected = at.selected, place.done = at.done,
           place.step \in Steps, place.pass \in 1..FinalPass, place.from \in 1..since'[Issue],
           Pending(mem.tries[Issue], since'[Issue], place.rework),
           Available(mem.tries[Issue], since'[Issue], place.step)
    PROVE  RunnerInv'
<1>1. /\ marked' = marked /\ disk' = disk /\ disk = mem /\ at' = place /\ doing' = "execute"
      /\ mem' = [mem EXCEPT !.status[Issue] = "IN_PROGRESS"]
  BY DEF Entered, Goto, Save, Saved
<1>2. /\ Issue \in at.selected /\ Issue \in Issues /\ mem.status[Issue] # "COMPLETED"
      /\ mem.active.issue = Issue
  BY DEF RunnerInv, PlaceIs, Issue
<1>3. /\ DOMAIN mem' = DOMAIN mem /\ mem'.status = [mem.status EXCEPT ![Issue] = "IN_PROGRESS"]
      /\ mem'.cursor = mem.cursor /\ mem'.pass = mem.pass /\ mem'.path = mem.path
      /\ mem'.rework = mem.rework /\ mem'.tries = mem.tries /\ mem'.running = mem.running
      /\ mem'.interrupted = mem.interrupted /\ mem'.extra = mem.extra
      /\ mem'.active = mem.active /\ mem'.phase = mem.phase
  BY <1>1 DEF RunnerInv, StateIs, StateShape, Fields
<1>4. StateIs(mem', marked, since', Selectable) /\ Completed(mem') = Completed(mem)
  <2>1. since'[Issue] \in 1..(Len(mem.tries[Issue]) + 1)
    BY <1>2 DEF StateIs, IssueIs, TriesAre
  <2> QED
    BY <1>2, <1>3, <2>1, EntryKeepsState
<1>5. Issue' = Issue /\ mem'.status[Issue] = "IN_PROGRESS" /\ FinalPass' = FinalPass
  BY <1>2, <1>3 DEF Issue, FinalPass, RunnerInv, StateIs, StateShape
<1>6. SelectionHolds'
  BY <1>1, <1>2, <1>5, SelectableKept DEF RunnerInv, SelectionHolds
<1>7. DoneIs' /\ PlaceIs'
  BY <1>1, <1>2, <1>4, <1>5 DEF RunnerInv, DoneIs, PlaceIs, Scheduling, Starting, Ending, Leaving
<1>8. ExecutionIs'
  BY <1>1, <1>3, <1>5 DEF ExecutionIs
<1> QED
  BY <1>1, <1>4, <1>6, <1>7, <1>8, SelectableKept DEF RunnerInv

LEMMA BeginKeeps ==
    ASSUME RunnerInv, Begin
    PROVE  RunnerInv'
<1> DEFINE q == mem.tries[Issue]
           n == since[Issue]
<1>1. doing = "issue" /\ Saved /\ disk = mem
  BY DEF Begin, Saved
<1>2. /\ Issue \in Issues /\ mem.status[Issue] # "COMPLETED"
      /\ IssueIs(mem, Issue, n) /\ StateShape(mem) /\ StateIs(mem, marked, since, Selectable)
      /\ DOMAIN at = Held /\ since \in [Issues -> Nat \ {0}]
  BY <1>1 DEF RunnerInv, StateIs, PlaceIs
<1>3. n \in 1..(Len(q) + 1) /\ Len(q) \in Nat /\ (\A k \in 1..Len(q) : q[k].step \in Steps)
  BY <1>2, ExtendedList DEF IssueIs, TriesAre
<1>4. 1 \in 1..FinalPass /\ PassesOf(mem) = FinalPass /\ FinalPass \in Nat
  BY BoundAssumption DEF FinalPass, PassesOf
<1>5. ASSUME NEW step, NEW pass, NEW path, NEW r, NEW first
      PROVE  LET place == From(step, pass, path, r, first) IN
             /\ DOMAIN place = Held /\ place.selected = at.selected /\ place.done = at.done
             /\ place.step = step /\ place.pass = pass /\ place.rework = r /\ place.from = first
  BY <1>2 DEF From, Held
<1>6. Max({n, 1}) = n
  BY <1>3, MaxOfTwo
<1>7. CASE Resumes /\ Entered(Restored)
  <2>1. /\ Restored.step = mem.cursor[Issue] /\ Restored.pass = mem.pass[Issue]
        /\ Restored.rework = mem.rework[Issue] /\ Restored.from = 1
        /\ DOMAIN Restored = Held /\ Restored.selected = at.selected /\ Restored.done = at.done
    BY <1>5 DEF Restored
  <2>2. since' = since
    BY <1>2, <1>6, <1>7, <2>1 DEF Entered
  <2>3. mem.status[Issue] = "IN_PROGRESS" /\ mem.cursor[Issue] # NoStep
    BY <1>7 DEF Resumes
  <2>4. /\ mem.cursor[Issue] \in Steps /\ mem.pass[Issue] \in 1..FinalPass
        /\ Available(q, n, mem.cursor[Issue])
    BY <1>2, <1>4, <2>3 DEF IssueIs, CursorIs, StateShape
  <2>5. Pending(q, n, mem.rework[Issue])
    BY <1>2, <2>3 DEF IssueIs, ReworkIs
  <2> QED
    BY <1>1, <1>2, <1>3, <1>7, <2>1, <2>2, <2>3, <2>4, <2>5, EntryKeeps
<1>8. CASE Retries /\ RetryFits /\ Entered(Retried)
  <2>1. /\ Retried.step = RetryStep /\ Retried.pass = 1
        /\ Retried.rework = RetryRework /\ Retried.from = 1
        /\ DOMAIN Retried = Held /\ Retried.selected = at.selected /\ Retried.done = at.done
    BY <1>5 DEF Retried
  <2>2. since' = since
    BY <1>2, <1>6, <1>8, <2>1 DEF Entered
  <2>3. mem.status[Issue] \in Failed /\ mem.cursor[Issue] = NoStep
    BY <1>2, <1>8 DEF Retries, Failed, IssueIs, CursorIs, Final
  <2>4. /\ n \in 1..Len(q) /\ Latest(Issue) = q[Len(q)]
        /\ Latest(Issue).by = 0 \/ Latest(Issue).by = mem.rework[Issue]
        /\ Available(q, n, Latest(Issue).step)
        /\ Latest(Issue).step \in Steps /\ Latest(Issue).outcome = mem.status[Issue]
        /\ RetryStep # NoStep
    BY <1>2, <1>3, <1>8, <2>3 DEF IssueIs, FailureIs, RetryFits, Failed, Final, Latest
  <2>5. CASE mem.status[Issue] = "CHANGES_REQUESTED"
    <3>1. RetryStep = Route[Latest(Issue).step]["CHANGES_REQUESTED"] /\ RetryStep \in Steps
      BY <2>4, <2>5, WorkflowAssumption DEF RetryStep, StepOutcomes
    <3>2. Available(q, n, RetryStep)
      <4>1. Before[RetryStep] \subseteq Before[Latest(Issue).step]
        BY <2>4, <3>1, BeforeIs DEF Preceding, StepOutcomes
      <4> QED
        BY <2>4, <4>1 DEF Available
    <3>3. Pending(q, n, RetryRework)
      BY <1>3, <2>4, <2>5, LastRequestIsOpen DEF RetryRework
    <3> QED
      BY <1>1, <1>2, <1>3, <1>4, <1>8, <2>1, <2>2, <2>3, <3>1, <3>2, <3>3, EntryKeeps
  <2>6. CASE mem.status[Issue] # "CHANGES_REQUESTED"
    <3>1. RetryStep = Latest(Issue).step
      BY <2>6 DEF RetryStep
    <3>2. RetryRework = mem.rework[Issue]
      BY <2>4, <2>6 DEF RetryRework
    <3>3. Pending(q, n, RetryRework)
      BY <1>2, <2>3, <3>2 DEF IssueIs, ReworkIs, Failed, Final
    <3> QED
      BY <1>1, <1>2, <1>3, <1>4, <1>8, <2>1, <2>2, <2>3, <2>4, <3>1, <3>3, EntryKeeps
  <2> QED
    BY <2>5, <2>6
<1>9. CASE ~Resumes /\ ~Retries /\ Entered(Fresh)
  <2>1. /\ Fresh.step = Start /\ Fresh.pass = 1 /\ Fresh.rework = 0 /\ Fresh.from = Len(q) + 1
        /\ DOMAIN Fresh = Held /\ Fresh.selected = at.selected /\ Fresh.done = at.done
    BY <1>5 DEF Fresh
  <2>2. Max({n, Len(q) + 1}) = Len(q) + 1
    BY <1>3, MaxOfTwo
  <2>3. since' = [since EXCEPT ![Issue] = Len(q) + 1]
    BY <1>9, <2>1, <2>2 DEF Entered
  <2>4. since'[Issue] = Len(q) + 1 /\ since' \in [Issues -> Nat \ {0}]
        /\ \A j \in Issues \ {Issue} : since'[j] = since[j]
    BY <1>2, <1>3, <2>3
  <2>5. mem.cursor[Issue] = NoStep
    BY <1>2, <1>9 DEF Resumes, IssueIs, CursorIs
  <2>6. mem.status[Issue] \notin Failed
    <3>1. q = <<>> => Len(q) = 0
      BY EmptyIsList
    <3> QED
      BY <1>2, <1>3, <1>9, <3>1 DEF Retries, Failed, IssueIs, FailureIs
  <2>7. StateIs(mem, marked, since', Selectable)
    BY <1>2, <2>4, <2>5, <2>6, FreshKeepsState
  <2>8. Pending(q, since'[Issue], 0) /\ Available(q, since'[Issue], Start)
    BY <1>3, <2>4, FreshHasNoRequest, StartIsAvailable
  <2>9. Len(q) + 1 \in 1..since'[Issue]
    BY <1>3, <2>4
  <2> QED
    BY <1>1, <1>2, <1>4, <1>9, <2>1, <2>4, <2>5, <2>7, <2>8, <2>9, WorkflowAssumption, EntryKeeps
<1> QED
  BY <1>7, <1>8, <1>9 DEF Begin

LEMMA LaunchStepKeeps ==
    ASSUME RunnerInv, LaunchStep
    PROVE  RunnerInv'
<1>1. /\ marked' = marked /\ since' = since /\ disk' = disk /\ at' = at
      /\ doing = "execute" /\ doing' = "turn" /\ at.pass <= FinalPass
      /\ mem' = Checkpoint(Preserved(mem))
  BY DEF LaunchStep, Goto, Save
<1>2. /\ Issue \in at.selected /\ Issue \in Issues /\ mem.active.issue = Issue
      /\ mem.status[Issue] = "IN_PROGRESS" /\ at.step \in Steps
      /\ at.pass \in 1..PassesOf(mem)
      /\ Pending(mem.tries[Issue], since[Issue], at.rework)
      /\ Available(mem.tries[Issue], since[Issue], at.step)
      /\ StateIs(mem, marked, since, Selectable)
  BY <1>1 DEF RunnerInv, PlaceIs, ExecutionIs, Issue, FinalPass, PassesOf
<1>3. /\ DOMAIN mem' = Fields
      /\ mem'.status = [mem.status EXCEPT ![Issue] = "IN_PROGRESS"]
      /\ mem'.cursor = [mem.cursor EXCEPT ![Issue] = at.step]
      /\ mem'.pass = [mem.pass EXCEPT ![Issue] = at.pass]
      /\ mem'.rework = [mem.rework EXCEPT ![Issue] = at.rework]
      /\ mem'.tries = mem.tries /\ mem'.extra = mem.extra
      /\ DOMAIN mem'.path = Issues /\ DOMAIN mem'.running = Issues
      /\ DOMAIN mem'.interrupted = Issues
      /\ mem'.active = mem.active /\ mem'.phase = mem.phase
  <2> DEFINE s == Preserved(mem)
  <2>1. /\ DOMAIN s = Fields /\ s.status = mem.status /\ s.cursor = mem.cursor
        /\ s.pass = mem.pass /\ s.path = mem.path /\ s.rework = mem.rework
        /\ s.tries = mem.tries /\ s.running = mem.running /\ DOMAIN s.interrupted = Issues
        /\ s.extra = mem.extra /\ s.active = mem.active /\ s.phase = mem.phase
        /\ DOMAIN mem.path = Issues /\ DOMAIN mem.running = Issues
    BY <1>2 DEF Preserved, StateIs, StateShape, Fields
  <2> HIDE DEF s
  <2> QED
    BY <1>1, <2>1 DEF Checkpoint, Fields, s
<1>4. StateIs(mem', marked, since, Selectable) /\ Completed(mem') = Completed(mem)
  <2>1. StateShape(mem')
    BY <1>2, <1>3, BoundAssumption DEF StateIs, StateShape, PassesOf
  <2>2. /\ mem'.status[Issue] = "IN_PROGRESS" /\ mem'.cursor[Issue] = at.step
        /\ mem'.pass[Issue] = at.pass /\ mem'.rework[Issue] = at.rework
        /\ mem'.tries[Issue] = mem.tries[Issue] /\ Elsewhere(mem, mem', Issue)
    BY <1>2, <1>3 DEF StateIs, StateShape, Elsewhere
  <2>3. /\ mem'.cursor[Issue] \in Steps /\ mem'.pass[Issue] \in 1..PassesOf(mem)
        /\ Available(mem.tries[Issue], since[Issue], mem'.cursor[Issue])
        /\ Pending(mem.tries[Issue], since[Issue], mem'.rework[Issue])
    BY <1>2, <2>2
  <2>4. mem'.extra = mem.extra /\ mem'.active = mem.active /\ mem'.phase = mem.phase
    BY <1>3
  <2> QED
    BY ONLY <1>2, <2>1, <2>2, <2>3, <2>4, CheckpointKeepsState
<1>5. Issue' = Issue /\ mem'.status[Issue] = "IN_PROGRESS" /\ FinalPass' = FinalPass
  BY <1>2, <1>3 DEF Issue, FinalPass, StateIs, StateShape
<1>6. SelectionHolds'
  BY <1>1, <1>5, SelectableKept DEF RunnerInv, SelectionHolds
<1>7. DoneIs' /\ PlaceIs'
  BY <1>1, <1>2, <1>4, <1>5 DEF RunnerInv, DoneIs, PlaceIs, Scheduling, Starting, Ending, Leaving
<1>8. ExecutionIs'
  BY <1>1, <1>3, <1>5 DEF RunnerInv, ExecutionIs
<1> QED
  BY <1>1, <1>4, <1>6, <1>7, <1>8, FilesKept DEF RunnerInv

LEMMA StepEndsKeeps ==
    ASSUME RunnerInv, NEW o \in StepOutcomes, StepEnds(o)
    PROVE  RunnerInv'
<1> DEFINE e == Try(o)
           next == NextStep(o)
           status == StatusAfter(o)
           r2 == Carried(o, mem.running[Issue][at.step])
<1>1. /\ marked' = marked /\ since' = since /\ disk' = disk /\ doing = "turn"
      /\ at' = Advanced(o) /\ o \in OutcomesOf(at.step)
      /\ doing' = (IF next # NoStep THEN "execute"
                   ELSE IF status = "COMPLETED" THEN "mark" ELSE "close")
      /\ mem' = [mem EXCEPT !.tries[Issue] = Append(@, e), !.running[Issue][at.step] = 0,
                            !.status[Issue] = status, !.pass[Issue] = at'.pass,
                            !.cursor[Issue] = at'.step,
                            !.path[Issue] = IF at'.step = NoStep THEN <<>> ELSE at'.path,
                            !.rework[Issue] = at'.rework]
  BY DEF StepEnds, Goto, Save
<1>2. /\ Issue \in at.selected /\ Issue \in Issues /\ mem.active.issue = Issue
      /\ mem.status[Issue] = "IN_PROGRESS" /\ at.step \in Steps
      /\ at.pass \in 1..PassesOf(mem) /\ PassesOf(mem) \in Nat /\ PassesOf(mem) = FinalPass
      /\ Pending(mem.tries[Issue], since[Issue], at.rework)
      /\ Available(mem.tries[Issue], since[Issue], at.step)
      /\ StateIs(mem, marked, since, Selectable) /\ DOMAIN at = Held
  BY <1>1, BoundAssumption DEF RunnerInv, PlaceIs, ExecutionIs, Issue, FinalPass, PassesOf
<1>3. /\ DOMAIN at' = Held /\ at'.selected = at.selected /\ at'.done = at.done
      /\ at'.step = next /\ at'.rework = r2 /\ at'.from = at.from
      /\ at'.pass = IF next # NoStep /\ StartsPass(o) THEN at.pass + 1 ELSE at.pass
  BY <1>1, <1>2 DEF Advanced, From, Held
<1>4. /\ e.step = at.step /\ e.outcome = o /\ e.id = mem.running[Issue][at.step]
      /\ e.by = IF at.step \in Coders THEN at.rework ELSE 0
      /\ at.step \in Coders => o # "CHANGES_REQUESTED"
  <2>1. at.step \in Coders => o # "CHANGES_REQUESTED"
    BY <1>1, WorkflowAssumption DEF OutcomesOf
  <2> QED
    BY <2>1 DEF Try
<1>5. /\ r2 = IF e.outcome = "CHANGES_REQUESTED" THEN e.id
              ELSE IF e.outcome = "SUCCEEDED" /\ e.step \in Coders THEN 0 ELSE at.rework
  BY <1>4 DEF Carried
<1>6. /\ next \in {NoStep, Route[e.step][e.outcome]}
      /\ at'.pass \in Nat \ {0} /\ (next # NoStep => at'.pass \in 1..PassesOf(mem))
  BY <1>2, <1>3, <1>4 DEF NextStep, Spends, Target
<1>7. /\ status \in {"IN_PROGRESS"} \cup Final /\ (next # NoStep <=> status = "IN_PROGRESS")
      /\ status \in Failed => e.outcome \in {status, "SUCCEEDED"}
  BY <1>4 DEF StatusAfter, Final, Failed, StepOutcomes
<1> HIDE DEF e, next, status, r2
<1>8. /\ DOMAIN mem' = Fields
      /\ mem'.status = [mem.status EXCEPT ![Issue] = status]
      /\ mem'.cursor = [mem.cursor EXCEPT ![Issue] = next]
      /\ mem'.pass = [mem.pass EXCEPT ![Issue] = at'.pass]
      /\ mem'.rework = [mem.rework EXCEPT ![Issue] = r2]
      /\ mem'.tries = [mem.tries EXCEPT ![Issue] = Append(mem.tries[Issue], e)]
      /\ mem'.extra = mem.extra
      /\ DOMAIN mem'.path = Issues /\ DOMAIN mem'.running = Issues
      /\ DOMAIN mem'.interrupted = Issues
      /\ mem'.active = mem.active /\ mem'.phase = mem.phase
  BY <1>1, <1>2, <1>3 DEF StateIs, StateShape, Fields
<1>9. /\ StateIs(mem', marked, since, Selectable)
      /\ Completed(mem) \subseteq Completed(mem')
      /\ Completed(mem') \subseteq Completed(mem) \cup {Issue}
      /\ next # NoStep => /\ Pending(mem'.tries[Issue], since[Issue], mem'.rework[Issue])
                          /\ Available(mem'.tries[Issue], since[Issue], next)
  <2>1. e.step \in Steps /\ e.outcome \in StepOutcomes
    BY <1>2, <1>4
  <2>2. /\ e.step \in Coders => e.outcome # "CHANGES_REQUESTED"
        /\ e.by = IF e.step \in Coders THEN at.rework ELSE 0
        /\ Available(mem.tries[Issue], since[Issue], e.step)
        /\ next # NoStep => at'.pass <= PassesOf(mem)
    BY <1>2, <1>4, <1>6
  <2>3. StateShape(mem')
    BY <1>2, <1>6, <1>7, <1>8, <2>1, WorkflowAssumption DEF StateIs, StateShape
  <2>4. /\ mem'.status[Issue] = status /\ mem'.cursor[Issue] = next
        /\ mem'.pass[Issue] = at'.pass /\ mem'.rework[Issue] = r2
        /\ mem'.tries[Issue] = Append(mem.tries[Issue], e) /\ Elsewhere(mem, mem', Issue)
    BY <1>2, <1>8 DEF StateIs, StateShape, Elsewhere
  <2>5. /\ mem'.cursor[Issue] \in {NoStep, Route[e.step][e.outcome]}
        /\ mem'.cursor[Issue] # NoStep => mem'.pass[Issue] <= PassesOf(mem)
        /\ mem'.status[Issue] \in {"IN_PROGRESS"} \cup Final
        /\ mem'.cursor[Issue] # NoStep <=> mem'.status[Issue] = "IN_PROGRESS"
        /\ mem'.status[Issue] \in Failed => e.outcome \in {mem'.status[Issue], "SUCCEEDED"}
        /\ mem'.rework[Issue] =
               IF e.outcome = "CHANGES_REQUESTED" THEN e.id
               ELSE IF e.outcome = "SUCCEEDED" /\ e.step \in Coders THEN 0 ELSE at.rework
    BY <1>5, <1>6, <1>7, <2>2, <2>4
  <2>6. StateIs(mem', marked, since, Selectable)
    <3>1. mem'.extra = mem.extra /\ mem'.active = mem.active /\ mem'.phase = mem.phase
      BY <1>8
    <3>2. /\ Issue \in Issues /\ mem.active.issue = Issue /\ mem.status[Issue] = "IN_PROGRESS"
          /\ Pending(mem.tries[Issue], since[Issue], at.rework)
          /\ StateIs(mem, marked, since, Selectable)
      BY <1>2
    <3>3. mem'.tries[Issue] = Append(mem.tries[Issue], e) /\ Elsewhere(mem, mem', Issue)
      BY <2>4
    <3>4. /\ e.step \in Coders => e.outcome # "CHANGES_REQUESTED"
          /\ e.by = IF e.step \in Coders THEN at.rework ELSE 0
          /\ Available(mem.tries[Issue], since[Issue], e.step)
      BY <2>2
    <3>5. EndsAttempt(mem, mem', Issue, since[Issue], e, at.rework)
      BY <2>1, <2>3, <2>5, <3>1, <3>2, <3>3, <3>4 DEF EndsAttempt
    <3> QED
      BY ONLY <3>2, <3>5, AttemptKeepsState
  <2>7. /\ Completed(mem) \subseteq Completed(mem')
        /\ Completed(mem') \subseteq Completed(mem) \cup {Issue}
    BY <1>2, <2>4 DEF Completed, Elsewhere
  <2>8. next # NoStep => /\ Pending(mem'.tries[Issue], since[Issue], mem'.rework[Issue])
                         /\ Available(mem'.tries[Issue], since[Issue], next)
    <3>1. IssueIs(mem', Issue, since[Issue])
      BY <1>2, <2>6 DEF StateIs
    <3> QED
      BY <1>7, <2>4, <3>1 DEF IssueIs, ReworkIs, CursorIs
  <2> QED
    BY <2>6, <2>7, <2>8
<1>10. /\ Issue' = Issue /\ mem'.status[Issue] = status /\ FinalPass' = FinalPass
       /\ mem'.rework[Issue] = at'.rework
  BY <1>2, <1>3, <1>8 DEF Issue, FinalPass, StateIs, StateShape
<1>11. SelectionHolds'
  BY <1>1, <1>2, <1>3, <1>10, SelectableKept DEF RunnerInv, SelectionHolds
<1>12. status = "IN_PROGRESS" => Issue \notin Completed(mem')
  BY <1>10 DEF Completed
<1>13. DoneIs' /\ PlaceIs'
  <2>1. Completed(mem) = at.done
    BY <1>1 DEF RunnerInv, DoneIs, Scheduling
  <2>2. DoneIs'
    BY <1>1, <1>3, <1>7, <1>9, <1>10, <1>12, <2>1 DEF DoneIs, Scheduling, Ending
  <2>3. PlaceIs'
    BY <1>1, <1>2, <1>3, <1>7, <1>10, <1>12
       DEF PlaceIs, Scheduling, Starting, Ending, Leaving, Final
  <2> QED
    BY <2>2, <2>3
<1>14. ExecutionIs'
  <2> SUFFICES ASSUME next # NoStep PROVE ExecutionIs'
    BY <1>1 DEF ExecutionIs
  <2>1. next \in Steps
    BY <1>2, <1>4, <1>6, WorkflowAssumption DEF StepOutcomes
  <2>2. at.from \in 1..since[Issue]
    BY <1>1 DEF RunnerInv, ExecutionIs
  <2> QED
    BY <1>1, <1>2, <1>3, <1>6, <1>7, <1>9, <1>10, <2>1, <2>2 DEF ExecutionIs
<1> QED
  BY <1>1, <1>2, <1>3, <1>9, <1>11, <1>13, <1>14, FilesKept DEF RunnerInv

(* A mark takes an issue out of the selection of the next process.            *)
LEMMA MarkKeeps ==
    ASSUME RunnerInv, Mark
    PROVE  RunnerInv'
<1>1. /\ marked' = marked \cup {Issue} /\ since' = since /\ disk' = disk /\ mem' = mem
      /\ at' = at /\ doing = "mark" /\ doing' = "close" /\ disk = mem
  BY DEF Mark, Goto, Saved
<1>2. Issue \in at.selected /\ Issue \in Issues /\ mem.status[Issue] = "COMPLETED"
  BY <1>1 DEF RunnerInv, PlaceIs, Ending
<1>3. marked' \subseteq Completed(mem) /\ marked' \subseteq Issues
  BY <1>1, <1>2 DEF RunnerInv, StateIs, Completed
<1>4. at.selected \subseteq Selectable' /\ Issue \in Selectable'
  <2>1. CASE Single
    BY <1>1, <1>2, <2>1 DEF RunnerInv, SelectionHolds, Selectable
  <2>2. CASE ~Single
    <3>1. Selection' = Issues \ marked'
      BY <2>2 DEF Selection
    <3> QED
      BY <1>1, <1>2, <3>1 DEF RunnerInv, Selectable
  <2> QED
    BY <2>1, <2>2
<1>5. StateIs(mem, marked', since, Selectable')
  BY <1>3, <1>4 DEF RunnerInv, StateIs, ReservationIs, Issue
<1>6. SelectionHolds'
  BY <1>1, <1>2, <1>4 DEF RunnerInv, SelectionHolds, Issue
<1>7. DoneIs' /\ PlaceIs' /\ ExecutionIs'
  BY <1>1, <1>2
     DEF RunnerInv, DoneIs, PlaceIs, ExecutionIs, Scheduling, Starting, Ending, Leaving, Issue,
         Final
<1> QED
  BY <1>1, <1>3, <1>5, <1>6, <1>7 DEF RunnerInv

LEMMA LimitHitKeeps ==
    ASSUME RunnerInv, LimitHit
    PROVE  RunnerInv'
<1>1. /\ marked' = marked /\ since' = since /\ disk' = disk /\ doing = "turn" /\ doing' = "wait"
      /\ \E p : mem' = [mem EXCEPT !.phase = "RUN_PAUSED", !.pause = p]
  BY DEF LimitHit, Paused, Goto, Save
<1>2. DOMAIN at' = Held /\ at'.selected = at.selected /\ at'.done = at.done
  BY DEF LimitHit, RunnerInv, Held
<1>3. SameWork(mem, mem') /\ mem'.phase = "RUN_PAUSED"
  <2>1. PICK p : mem' = [mem EXCEPT !.phase = "RUN_PAUSED", !.pause = p]
    BY <1>1
  <2> QED
    BY <2>1, PausesAreQuiet DEF RunnerInv, StateIs
<1>4. StateIs(mem', marked, since, Selectable) /\ Completed(mem') = Completed(mem)
  BY <1>3, PauseKeeps
<1>5. SelectionHolds' /\ at'.done \subseteq Completed(mem')
  BY <1>1, <1>2, <1>3, <1>4, PlacesKept DEF SameWork
<1>6. DoneIs' /\ PlaceIs' /\ ExecutionIs'
  BY <1>1, <1>5 DEF DoneIs, PlaceIs, ExecutionIs, Scheduling, Starting, Ending, Leaving
<1> QED
  BY <1>1, <1>2, <1>4, <1>5, <1>6, FilesKept DEF RunnerInv

LEMMA OtherBlockerKeeps ==
    ASSUME RunnerInv, OtherBlocker
    PROVE  RunnerInv'
<1>1. /\ marked' = marked /\ since' = since /\ disk' = disk /\ at' = NoWork /\ doing' = "paused"
      /\ \E p : mem' = [mem EXCEPT !.phase = "RUN_PAUSED", !.pause = p]
  BY DEF OtherBlocker, Paused, Goto, Save
<1>2. SameWork(mem, mem') /\ mem'.phase = "RUN_PAUSED"
  <2>1. PICK p : mem' = [mem EXCEPT !.phase = "RUN_PAUSED", !.pause = p]
    BY <1>1
  <2> QED
    BY <2>1, PausesAreQuiet DEF RunnerInv, StateIs
<1>3. StateIs(mem', marked, since, Selectable)
  BY <1>2, PauseKeeps
<1> QED
  BY <1>1, <1>3, NothingHeld, FilesKept DEF RunnerInv

LEMMA EndProcessKeeps ==
    ASSUME RunnerInv, EndProcess
    PROVE  RunnerInv'
<1>1. /\ marked' = marked /\ since' = since /\ disk' = disk /\ at' = NoWork /\ doing' = "idle"
      /\ mem' = mem
  BY DEF EndProcess, Goto
<1>2. StateIs(mem', marked, since, Selectable)
  BY <1>1 DEF RunnerInv
<1> QED
  BY <1>1, <1>2, NothingHeld, FilesKept DEF RunnerInv

LEMMA CrashKeeps ==
    ASSUME RunnerInv, Crash
    PROVE  RunnerInv'
<1>1. /\ marked' = marked /\ since' = since /\ disk' = disk /\ at' = NoWork /\ doing' = "idle"
      /\ mem' = disk
  BY DEF Crash, Goto
<1>2. StateIs(mem', marked, since, Selectable)
  BY <1>1 DEF RunnerInv
<1> QED
  BY <1>1, <1>2, NothingHeld, FilesKept DEF RunnerInv

LEMMA RunnerStutters ==
    ASSUME RunnerInv, UNCHANGED runVars
    PROVE  RunnerInv'
<1>1. /\ marked' = marked /\ since' = since /\ disk' = disk /\ at' = at /\ mem' = mem
      /\ doing' = doing
  BY DEF runVars
<1> QED
  BY <1>1, SelectableKept
     DEF RunnerInv, SelectionHolds, DoneIs, PlaceIs, ExecutionIs, Issue, FinalPass

(* At the start there is no work.                                             *)
LEMMA RunnerStarts ==
    ASSUME RunInit
    PROVE  RunnerInv
<1>1. /\ mem = EmptyState /\ disk = EmptyState /\ marked = {} /\ doing = "idle" /\ at = NoWork
      /\ since = [i \in Issues |-> 1]
  BY DEF RunInit
<1>2. StateShape(EmptyState)
  BY BoundAssumption DEF EmptyState, NoAttempt, NoPause, StateShape, Fields
<1>3. ASSUME NEW i \in Issues PROVE IssueIs(EmptyState, i, 1)
  <2>1. /\ EmptyState.status[i] = "NONE" /\ EmptyState.cursor[i] = NoStep
        /\ EmptyState.tries[i] = <<>> /\ EmptyState.extra[i] = 0 /\ EmptyState.rework[i] = 0
    BY DEF EmptyState
  <2>2. TriesAre(<<>>, 1)
    BY EmptyIsList DEF TriesAre
  <2>3. Pending(<<>>, 1, 0)
    BY EmptyIsList, FreshHasNoRequest
  <2> QED
    BY <2>1, <2>2, <2>3, EmptyIsList
       DEF IssueIs, Untouched, CursorIs, WorkIsReserved, ReworkIs, FailureIs, Failed, Final
<1>4. ReservationIs(EmptyState, Selectable)
  BY DEF EmptyState, NoAttempt, ReservationIs
<1>5. StateIs(EmptyState, marked, since, Selectable)
  BY <1>1, <1>2, <1>3, <1>4 DEF StateIs
<1>6. /\ DOMAIN at = Held /\ at.selected \subseteq Issues
      /\ SelectionHolds /\ DoneIs /\ PlaceIs /\ ExecutionIs
  BY <1>1 DEF NoWork, Held, SelectionHolds, DoneIs, PlaceIs, ExecutionIs, Scheduling, Ending,
              Leaving, Starting
<1> QED
  BY <1>1, <1>5, <1>6 DEF RunnerInv

LEMMA RunnerInvAlways == RunSpec => []RunnerInv
<1>1. RunInit => RunnerInv
  BY RunnerStarts
<1>2. RunnerInv /\ [RunNext]_runVars => RunnerInv'
  <2> SUFFICES ASSUME RunnerInv, [RunNext]_runVars
               PROVE  RunnerInv'
    OBVIOUS
  <2>1. CASE LaunchRun
    BY <2>1, LaunchRunKeeps
  <2>2. CASE WriteState
    BY <2>2, WriteStateKeeps
  <2>3. CASE Resolve \/ Renew \/ WaitUntil
    BY <2>3, ResolveKeeps, RenewKeeps, WaitUntilKeeps
  <2>4. CASE Project \/ ChargeFinished \/ ResumeReserved
    BY <2>4, ProjectKeeps, ChargeFinishedKeeps, ResumeReservedKeeps
  <2>5. CASE ReserveNormal \/ ReserveBlocker \/ ScheduleEnds
    BY <2>5, ReserveNormalKeeps, ReserveBlockerKeeps, ScheduleEndsKeeps
  <2>6. CASE EndPause \/ Charge
    BY <2>6, EndPauseKeeps, ChargeKeeps
  <2>7. CASE Leave \/ Review
    BY <2>7, LeaveKeeps, ReviewKeeps
  <2>8. CASE Begin \/ LaunchStep
    BY <2>8, BeginKeeps, LaunchStepKeeps
  <2>9. CASE \E o \in StepOutcomes : StepEnds(o)
    BY <2>9, StepEndsKeeps
  <2>10. CASE Mark
    BY <2>10, MarkKeeps
  <2>11. CASE LimitHit \/ OtherBlocker
    BY <2>11, LimitHitKeeps, OtherBlockerKeeps
  <2>12. CASE EndProcess \/ Crash
    BY <2>12, EndProcessKeeps, CrashKeeps
  <2>13. CASE UNCHANGED runVars
    BY <2>13, RunnerStutters
  <2> QED
    BY <2>1, <2>2, <2>3, <2>4, <2>5, <2>6, <2>7, <2>8, <2>9, <2>10, <2>11, <2>12, <2>13
       DEF RunNext, Step
<1> QED
  BY <1>1, <1>2, PTL DEF RunSpec

(* A coder that runs while a request for changes is open is handed that       *)
(* request, through every resume and retry of the same execution              *)
(* (pending_rework_attempt_id, retry_portable_workflow).                      *)
THEOREM RequestsReachTheCoder == RunSpec => []ReworkReachesTheCoder
<1>1. RunnerInv => ReworkReachesTheCoder
  BY DEF RunnerInv, ExecutionIs, Pending, ReworkReachesTheCoder
<1> QED
  BY <1>1, RunnerInvAlways, PTL

(* A step runs only for an issue whose dependencies are complete in the state *)
(* file or in their issue files (DependencyScheduler.project), whatever       *)
(* crashes, limits and renewals came before.                                  *)
THEOREM DependenciesComeFirst == RunSpec => []DependenciesFirst
<1>1. RunnerInv => DependenciesFirst
  <2> SUFFICES ASSUME RunnerInv, doing = "turn", Saved, NEW d \in Needs[Issue]
               PROVE  disk.status[d] = "COMPLETED"
    BY DEF DependenciesFirst
  <2>1. Issue \in Issues /\ Issue # NoIssue
    BY OrderAssumption DEF RunnerInv, PlaceIs
  <2>2. Needs[Issue] \subseteq Completed(mem)
    BY <2>1 DEF RunnerInv, StateIs, ReservationIs, Issue
  <2> QED
    BY <2>2 DEF Completed, Saved
<1> QED
  BY <1>1, RunnerInvAlways, PTL

(* No later process is refused what an earlier one left, whatever ended it,   *)
(* except in the three ways DeadEnd names: the issue was marked complete      *)
(* before its reservation was charged; an exhausted schedule still holds a    *)
(* reservation that is complete or has no rounds; a retry has nowhere to go.  *)
THEOREM RunsAreResumed == RunSpec => []ResumesUnlessDeadEnd
<1>1. RunnerInv => ResumesUnlessDeadEnd
  <2> SUFFICES ASSUME RunnerInv, Refused
               PROVE  DeadEnd
    BY DEF ResumesUnlessDeadEnd
  <2>1. CASE doing = "renew" /\ mem.phase = "EXHAUSTED" /\ ~MayRenew
    <3>1. Issue \in Issues /\ Issue # NoIssue
      BY <2>1, OrderAssumption DEF MayRenew, RunnerInv, Issue
    <3> QED
      BY <2>1, <3>1 DEF RunnerInv, StateIs, ReservationIs, Issue, DeadEnd
  <2>2. CASE doing = "choose" /\ Issue \notin at.selected \cup {NoIssue}
    BY <2>2 DEF RunnerInv, SelectionHolds, DeadEnd
  <2>3. CASE doing = "issue" /\ Retries /\ ~RetryFits
    <3> SUFFICES ASSUME RetryStep # NoStep, Latest(Issue).outcome # "SUCCEEDED"
                 PROVE  FALSE
      BY <2>3 DEF DeadEnd
    <3>1. Issue \in Issues /\ mem.status[Issue] \in Failed
      BY <2>3 DEF Retries, Failed, RunnerInv, PlaceIs
    <3>2. IssueIs(mem, Issue, since[Issue])
      BY <3>1 DEF RunnerInv, StateIs
    <3>3. /\ Latest(Issue).outcome = mem.status[Issue]
          /\ Latest(Issue).by = 0 \/ Latest(Issue).by = mem.rework[Issue]
      BY <3>1, <3>2 DEF IssueIs, FailureIs, Latest
    <3> QED
      BY <2>3, <3>3 DEF RetryFits
  <2>4. CASE doing = "execute" /\ (at.pass > FinalPass \/ ~ReworkIsKnown)
    <3> DEFINE q == mem.tries[Issue]
    <3>1. /\ at.pass \in 1..FinalPass /\ at.from \in 1..since[Issue]
          /\ Pending(q, since[Issue], at.rework) /\ Issue \in Issues
      BY <2>4 DEF RunnerInv, ExecutionIs, PlaceIs
    <3>2. since[Issue] \in Nat /\ Len(q) \in Nat /\ FinalPass \in Nat
      BY <3>1, ExtendedList, BoundAssumption
         DEF RunnerInv, StateIs, IssueIs, TriesAre, FinalPass
    <3>3. ReworkIsKnown
      BY <3>1, <3>2 DEF Pending, ReworkIsKnown, Known
    <3> QED
      BY <2>4, <3>1, <3>2, <3>3
  <2>5. CASE doing = "turn" /\ ~InputsResolve
    <3> DEFINE q == mem.tries[Issue]
    <3>1. /\ at.from \in 1..since[Issue] /\ at.step \in Steps /\ Issue \in Issues
          /\ Available(q, since[Issue], at.step)
      BY <2>5 DEF RunnerInv, ExecutionIs, PlaceIs
    <3>2. since[Issue] \in Nat /\ Len(q) \in Nat
      BY <3>1, ExtendedList DEF RunnerInv, StateIs, IssueIs, TriesAre
    <3>3. Inputs[at.step] \subseteq Before[at.step]
      BY <3>1, BeforeIs DEF Preceding
    <3>4. InputsResolve
      BY <3>1, <3>2, <3>3 DEF Available, InputsResolve, Known
    <3> QED
      BY <2>5, <3>4
  <2> QED
    BY <2>1, <2>2, <2>3, <2>4, <2>5 DEF Refused
<1> QED
  BY <1>1, RunnerInvAlways, PTL

---------------------------------------------------------------------------
(* Waiting out a usage limit.  A wait is of the reservation that is held, or  *)
(* of an issue whose completion a crash has outrun.                           *)
Finished(s) == s.active.issue \in Issues /\ s.status[s.active.issue] = "COMPLETED"
WaitIs(s) ==
  s.pause.kind = "USAGE_LIMIT" =>
      /\ s.pause.of.issue \in Issues
      /\ \/ s.pause.of = s.active
         \/ kills > 0 /\ s.status[s.pause.of.issue] = "COMPLETED"

WaitInv ==
  /\ kills \in Nat
  /\ WaitIs(mem) /\ WaitIs(disk)
  /\ doing = "idle" => Saved
  /\ doing \in {"charge", "end"} => mem.pause.kind # "USAGE_LIMIT"
  /\ doing \in Scheduling /\ mem.pause.kind = "USAGE_LIMIT" => at.retried
  /\ kills = 0 /\ Finished(mem) => doing \in Ending

(* A step that leaves pause and reservation alone and no issue incomplete     *)
(* that was complete.                                                         *)
LEMMA WaitGoesOn ==
    ASSUME WaitInv, kills' = kills, disk' = disk,
           mem'.pause = mem.pause, mem'.active = mem.active,
           \A i \in Issues : mem.status[i] = "COMPLETED" => mem'.status[i] = "COMPLETED",
           kills = 0 /\ Finished(mem') => doing' \in Ending,
           doing' = "idle" => mem' = disk, doing' \notin {"charge", "end"},
           doing' \in Scheduling /\ mem.pause.kind = "USAGE_LIMIT" => at'.retried
    PROVE  WaitInv'
<1>1. WaitIs(mem)'
  BY DEF WaitInv, WaitIs
<1>2. WaitIs(disk)'
  BY DEF WaitInv, WaitIs
<1> QED
  BY <1>1, <1>2 DEF WaitInv, Saved, Finished

(* A step after which no limit is waited for.                                 *)
LEMMA NoWaitLeft ==
    ASSUME WaitInv, kills' = kills, disk' = disk, mem'.pause.kind # "USAGE_LIMIT",
           kills = 0 /\ Finished(mem') => doing' \in Ending,
           doing' = "idle" => mem' = disk
    PROVE  WaitInv'
<1>1. WaitIs(mem)'
  BY DEF WaitIs
<1>2. WaitIs(disk)'
  BY DEF WaitInv, WaitIs
<1> QED
  BY <1>1, <1>2 DEF WaitInv, Saved, Finished

LEMMA RenewedWaits ==
    ASSUME NEW s, StateShape(s), NEW requested
    PROVE  /\ Renewed(s, requested).pause = s.pause
           /\ Renewed(s, requested).active = s.active
           /\ Renewed(s, requested).status = s.status
BY DEF Renewed, StateShape, Fields

LEMMA ChargedWaits ==
    ASSUME NEW s, StateShape(s)
    PROVE  /\ Charged(s).pause = s.pause /\ Charged(s).status = s.status
           /\ Charged(s).active = NoAttempt
BY DEF Charged, StateShape, Fields

LEMMA StartWaits ==
    ASSUME RunnerInv, WaitInv, LaunchRun \/ Resolve \/ Renew \/ WaitUntil
    PROVE  WaitInv'
<1>1. StateShape(mem) /\ DOMAIN at = Held
  BY DEF RunnerInv, StateIs
<1>2. CASE LaunchRun
  <2>1. /\ doing = "idle" /\ doing' = "resolve" /\ mem' = disk /\ disk' = disk
        /\ kills' = kills
    BY <1>2 DEF LaunchRun, Goto, bounds
  <2>2. mem' = mem
    BY <2>1 DEF WaitInv, Saved
  <2> QED
    BY <2>1, <2>2, WaitGoesOn DEF WaitInv, Ending, Scheduling
<1>3. CASE Resolve
  <2>1. /\ doing = "resolve" /\ doing' = "renew" /\ disk' = disk /\ kills' = kills
        /\ mem' = mem \/ mem' = [mem EXCEPT !.pause = NoPause]
    BY <1>3 DEF Resolve, Goto, Keep, Save, bounds
  <2>2. CASE mem' = mem
    BY <2>1, <2>2, WaitGoesOn DEF WaitInv, Ending, Scheduling
  <2>3. CASE mem' = [mem EXCEPT !.pause = NoPause]
    <3>1. mem'.pause.kind # "USAGE_LIMIT" /\ mem'.active = mem.active
          /\ mem'.status = mem.status
      BY <1>1, <2>3 DEF StateShape, Fields, NoPause
    <3> QED
      BY <2>1, <3>1, NoWaitLeft DEF WaitInv, Ending, Finished
  <2> QED
    BY <2>1, <2>2, <2>3
<1>4. CASE Renew
  <2>1. /\ doing = "renew" /\ doing' = "wait" /\ disk' = disk /\ kills' = kills
        /\ mem' = mem \/ mem' = Renewed(mem, at.selected)
    BY <1>4 DEF Renew, Goto, Keep, Save
  <2>2. mem'.pause = mem.pause /\ mem'.active = mem.active /\ mem'.status = mem.status
    BY <1>1, <2>1, RenewedWaits
  <2> QED
    BY <2>1, <2>2, WaitGoesOn DEF WaitInv, Ending, Scheduling, Finished
<1>5. CASE WaitUntil
  <2>1. /\ doing = "wait" /\ doing' = "loop" /\ disk' = disk /\ kills' = kills
        /\ mem' = mem
        /\ at' = [at EXCEPT !.done = @ \cup Completed(mem),
                            !.retried = mem.pause.kind = "USAGE_LIMIT"]
    BY <1>5 DEF WaitUntil, Goto, Keep, bounds
  <2>2. at'.retried = (mem.pause.kind = "USAGE_LIMIT")
    BY <1>1, <2>1 DEF Held
  <2> QED
    BY <2>1, <2>2, WaitGoesOn DEF WaitInv, Ending
<1> QED
  BY <1>2, <1>3, <1>4, <1>5

LEMMA ScheduleWaits ==
    ASSUME RunnerInv, WaitInv,
           Project \/ ChargeFinished \/ ResumeReserved \/ ScheduleEnds
    PROVE  WaitInv'
<1>1. StateShape(mem) /\ DOMAIN at = Held
  BY DEF RunnerInv, StateIs
<1>2. CASE Project
  <2>1. /\ doing = "loop" /\ doing' = "choose" /\ disk' = disk /\ kills' = kills
        /\ at' = at /\ mem' = Projected(mem)
    BY <1>2 DEF Project, Goto, Save, bounds
  <2>2. /\ mem'.pause = mem.pause /\ mem'.active = mem.active
        /\ \A i \in Issues : mem'.status[i] = "COMPLETED" <=> mem.status[i] = "COMPLETED"
    BY <1>1, <2>1 DEF Projected, StateShape, Fields
  <2> QED
    BY <2>1, <2>2, WaitGoesOn DEF WaitInv, Ending, Scheduling, Finished
<1>3. CASE ChargeFinished
  <2>1. /\ doing = "choose" /\ doing' = "loop" /\ disk' = disk /\ kills' = kills
        /\ mem' = Charged(mem) /\ mem.active.issue \in at.selected
        /\ mem.status[mem.active.issue] = "COMPLETED"
        /\ at' = [at EXCEPT !.done = @ \cup {mem.active.issue}]
    BY <1>3 DEF ChargeFinished, Goto, Save, bounds
  <2>2. /\ mem'.pause = mem.pause /\ mem'.status = mem.status /\ mem'.active = NoAttempt
    BY <1>1, <2>1, ChargedWaits
  <2>3. at'.retried = at.retried
    BY <1>1, <2>1 DEF Held
  <2>4. kills > 0
    <3>1. Finished(mem) /\ doing \notin Ending
      BY <2>1 DEF RunnerInv, Finished, Ending
    <3> QED
      BY <3>1 DEF WaitInv
  <2>5. WaitIs(mem)' /\ WaitIs(disk)'
    BY <2>1, <2>2, <2>4 DEF WaitInv, WaitIs
  <2> QED
    BY <2>1, <2>2, <2>3, <2>4, <2>5 DEF WaitInv, Scheduling
<1>4. CASE ResumeReserved
  <2>1. /\ doing = "choose" /\ doing' = "issue" /\ disk' = disk /\ kills' = kills
        /\ at' = at /\ mem' = mem
    BY <1>4 DEF ResumeReserved, Goto, Keep, bounds
  <2> QED
    BY <2>1, WaitGoesOn DEF WaitInv, Ending, Scheduling
<1>5. CASE ScheduleEnds
  <2>1. /\ doing = "choose" /\ doing' = "leave" /\ disk' = disk /\ kills' = kills
        /\ at' = at /\ mem' = mem
    BY <1>5 DEF ScheduleEnds, Goto, Keep, bounds
  <2> QED
    BY <2>1, WaitGoesOn DEF WaitInv, Ending, Scheduling
<1> QED
  BY <1>2, <1>3, <1>4, <1>5

LEMMA ReserveWaits ==
    ASSUME RunnerInv, WaitInv, RunnerInv', NEW i, NEW phase, NEW n, Reserve(i, phase, n)
    PROVE  WaitInv'
<1>1. StateShape(mem)
  BY DEF RunnerInv, StateIs
<1>2. /\ doing = "choose" /\ doing' = "issue" /\ disk' = disk /\ kills' = kills
      /\ at' = at /\ mem.active.issue = NoIssue
      /\ mem' = [mem EXCEPT !.phase = phase,
                            !.active = [issue |-> i, phase |-> phase, ordinal |-> n]]
  BY DEF Reserve, Reserved, Goto, Save, bounds
<1>3. mem'.pause = mem.pause /\ mem'.status = mem.status
  BY <1>1, <1>2 DEF StateShape, Fields
<1>4. ~Finished(mem')
  BY <1>2 DEF RunnerInv, PlaceIs, Issue, Finished
<1>5. WaitIs(mem)'
  BY <1>2, <1>3, OrderAssumption DEF WaitInv, WaitIs
<1>6. WaitIs(disk)'
  BY <1>2 DEF WaitInv, WaitIs
<1> QED
  BY <1>2, <1>3, <1>4, <1>5, <1>6 DEF WaitInv, Scheduling, Finished

LEMMA CloseWaits ==
    ASSUME RunnerInv, WaitInv, EndPause \/ Charge \/ Leave \/ Review \/ Mark
    PROVE  WaitInv'
<1>1. StateShape(mem)
  BY DEF RunnerInv, StateIs
<1>2. CASE EndPause
  <2>1. /\ \/ doing = "close" /\ doing' = "charge"
           \/ doing = "leave" /\ doing' = "end"
        /\ disk' = disk /\ kills' = kills /\ mem' = [mem EXCEPT !.pause = NoPause]
    BY <1>2 DEF EndPause, Goto, Save, bounds
  <2>2. /\ mem'.pause.kind # "USAGE_LIMIT" /\ mem'.active = mem.active
        /\ mem'.status = mem.status
    BY <1>1, <2>1 DEF StateShape, Fields, NoPause
  <2>3. Finished(mem') => doing' \in Ending
    BY <2>1, <2>2, OrderAssumption
       DEF RunnerInv, PlaceIs, Leaving, Issue, Finished, Ending
  <2> QED
    BY <2>1, <2>2, <2>3, NoWaitLeft
<1>3. CASE Charge
  <2>1. /\ doing = "charge" /\ doing' = "loop" /\ disk' = disk /\ kills' = kills
        /\ mem' = Charged(mem)
    BY <1>3 DEF Charge, Goto, Save, bounds
  <2>2. mem'.pause = mem.pause /\ mem'.active = NoAttempt
    BY <1>1, <2>1, ChargedWaits
  <2>3. ~Finished(mem')
    BY <2>2, OrderAssumption DEF Finished, NoAttempt
  <2> QED
    BY <2>1, <2>2, <2>3, NoWaitLeft DEF WaitInv
<1>4. CASE Leave
  <2>1. /\ doing = "end" /\ doing' \in {"idle", "review"} /\ disk' = disk /\ kills' = kills
        /\ mem' = mem /\ mem = disk
    BY <1>4 DEF Leave, Goto, Keep, Saved, bounds
  <2>2. ~Finished(mem')
    BY <2>1, OrderAssumption DEF RunnerInv, PlaceIs, Leaving, Issue, Finished
  <2> QED
    BY <2>1, <2>2, NoWaitLeft DEF WaitInv
<1>5. CASE Review
  <2>1. /\ doing = "review" /\ disk' = disk /\ kills' = kills /\ mem = disk
        /\ \/ doing' = "idle" /\ mem' = mem
           \/ doing' = "resolve" /\ \E requested : mem' = Renewed(mem, requested)
    BY <1>5 DEF Review, Goto, Keep, Save, Saved
  <2>2. mem'.pause = mem.pause /\ mem'.active = mem.active /\ mem'.status = mem.status
    BY <1>1, <2>1, RenewedWaits
  <2> QED
    BY <2>1, <2>2, WaitGoesOn DEF WaitInv, Ending, Scheduling, Finished
<1>6. CASE Mark
  <2>1. /\ doing = "mark" /\ doing' = "close" /\ disk' = disk /\ kills' = kills /\ mem' = mem
    BY <1>6 DEF Mark, Goto, bounds
  <2> QED
    BY <2>1, WaitGoesOn DEF WaitInv, Ending, Scheduling
<1> QED
  BY <1>2, <1>3, <1>4, <1>5, <1>6

LEMMA EnteredWaits ==
    ASSUME RunnerInv, WaitInv, RunnerInv', NEW place, Entered(place), doing = "issue",
           place.retried = at.retried
    PROVE  WaitInv'
<1>1. StateShape(mem) /\ mem.status[Issue] # "COMPLETED"
  BY DEF RunnerInv, StateIs, PlaceIs
<1>2. /\ doing' = "execute" /\ disk' = disk /\ kills' = kills /\ at' = place
      /\ mem' = [mem EXCEPT !.status[Issue] = "IN_PROGRESS"]
  BY DEF Entered, Goto, Save, bounds
<1>3. /\ mem'.pause = mem.pause /\ mem'.active = mem.active
      /\ mem'.status = [mem.status EXCEPT ![Issue] = "IN_PROGRESS"]
  BY <1>1, <1>2 DEF StateShape, Fields
<1>4. \A i \in Issues : mem.status[i] = "COMPLETED" => mem'.status[i] = "COMPLETED"
  BY <1>1, <1>3 DEF StateShape
<1>5. mem'.status[Issue] # "COMPLETED" \/ Issue \notin Issues
  BY <1>1, <1>3 DEF StateShape
<1>6. ~Finished(mem')
  BY <1>3, <1>5 DEF Finished, Issue
<1> QED
  BY <1>2, <1>3, <1>4, <1>6, WaitGoesOn DEF WaitInv, Scheduling

LEMMA IssueWaits ==
    ASSUME RunnerInv, WaitInv, RunnerInv', Begin \/ LaunchStep
    PROVE  WaitInv'
<1>1. StateShape(mem) /\ DOMAIN at = Held
  BY DEF RunnerInv, StateIs
<1>2. CASE Begin
  <2>1. doing = "issue" /\ (Entered(Restored) \/ Entered(Retried) \/ Entered(Fresh))
    BY <1>2 DEF Begin
  <2>2. /\ Restored.retried = at.retried /\ Retried.retried = at.retried
        /\ Fresh.retried = at.retried
    BY <1>1 DEF Restored, Retried, Fresh, From, Held
  <2> QED
    BY <2>1, <2>2, EnteredWaits
<1>3. CASE LaunchStep
  <2>1. /\ doing = "execute" /\ doing' = "turn" /\ disk' = disk /\ kills' = kills
        /\ at' = at /\ mem' = Checkpoint(Preserved(mem))
        /\ mem.status[Issue] = "IN_PROGRESS"
    BY <1>3 DEF LaunchStep, Goto, Save, bounds, RunnerInv, ExecutionIs
  <2>2. /\ mem'.pause = mem.pause /\ mem'.active = mem.active
        /\ mem'.status = [mem.status EXCEPT ![Issue] = "IN_PROGRESS"]
    BY <1>1, <2>1 DEF Checkpoint, Preserved, StateShape, Fields
  <2>3. mem'.status = mem.status
    BY <1>1, <2>1, <2>2 DEF StateShape
  <2> QED
    BY <2>1, <2>2, <2>3, WaitGoesOn DEF WaitInv, Ending, Scheduling, Finished
<1> QED
  BY <1>2, <1>3

LEMMA StepEndsWaits ==
    ASSUME RunnerInv, WaitInv, NEW o \in StepOutcomes, StepEnds(o)
    PROVE  WaitInv'
<1> DEFINE status == StatusAfter(o)
<1>1. StateShape(mem) /\ DOMAIN at = Held
  BY DEF RunnerInv, StateIs
<1>2. /\ doing = "turn" /\ disk' = disk /\ kills' = kills /\ at' = Advanced(o)
      /\ mem.status[Issue] = "IN_PROGRESS"
      /\ doing' = IF NextStep(o) # NoStep THEN "execute"
                  ELSE IF status = "COMPLETED" THEN "mark" ELSE "close"
      /\ mem' = [mem EXCEPT !.tries[Issue] = Append(@, Try(o)),
                            !.running[Issue][at.step] = 0,
                            !.status[Issue] = status,
                            !.pass[Issue] = at'.pass,
                            !.cursor[Issue] = at'.step,
                            !.path[Issue] = IF at'.step = NoStep THEN <<>> ELSE at'.path,
                            !.rework[Issue] = at'.rework]
  BY DEF StepEnds, Goto, Save, bounds, RunnerInv, ExecutionIs
<1>3. at'.retried = at.retried
  BY <1>1, <1>2 DEF Advanced, From, Held
<1>4. NextStep(o) # NoStep => status # "COMPLETED"
  BY DEF StatusAfter
<1> HIDE DEF status
<1>5. /\ mem'.pause = mem.pause /\ mem'.active = mem.active
      /\ mem'.status = [mem.status EXCEPT ![Issue] = status]
  BY <1>1, <1>2 DEF StateShape, Fields
<1>6. \A i \in Issues : mem.status[i] = "COMPLETED" => mem'.status[i] = "COMPLETED"
  BY <1>1, <1>2, <1>5 DEF StateShape
<1>7. Finished(mem') => status = "COMPLETED"
  BY <1>1, <1>5 DEF StateShape, Finished, Issue
<1> QED
  BY <1>2, <1>3, <1>4, <1>5, <1>6, <1>7, WaitGoesOn DEF WaitInv, Ending, Scheduling

LEMMA StopWaits ==
    ASSUME RunnerInv, WaitInv, LimitHit \/ OtherBlocker \/ EndProcess \/ Crash
    PROVE  WaitInv'
<1>1. StateShape(mem)
  BY DEF RunnerInv, StateIs
<1>2. CASE LimitHit \/ OtherBlocker
  <2>1. /\ doing = "turn" /\ doing' \in {"wait", "paused"} /\ disk' = disk /\ kills' = kills
        /\ \E kind, until : mem' = Paused(kind, until)
        /\ mem.status[Issue] = "IN_PROGRESS" /\ Issue \in Issues
    BY <1>2 DEF LimitHit, OtherBlocker, Goto, Save, RunnerInv, ExecutionIs, PlaceIs
  <2>2. PICK kind, until : mem' = Paused(kind, until)
    BY <2>1
  <2>3. mem'.pause.of = mem.active /\ mem'.active = mem.active /\ mem'.status = mem.status
    BY <1>1, <2>2 DEF Paused, StateShape, Fields
  <2>4. WaitIs(mem)' /\ WaitIs(disk)' /\ ~Finished(mem')
    BY <2>1, <2>3 DEF WaitInv, WaitIs, Finished, Issue
  <2> QED
    BY <2>1, <2>4 DEF WaitInv, Scheduling, Finished
<1>3. CASE EndProcess
  <2>1. /\ doing' = "idle" /\ disk' = disk /\ kills' = kills /\ mem' = mem /\ mem = disk
    BY <1>3 DEF EndProcess, Goto, Saved, bounds
  <2>2. doing \notin Ending
    BY <1>3 DEF EndProcess, Refused, Ending
  <2> QED
    BY <2>1, <2>2, WaitGoesOn DEF WaitInv, Scheduling
<1>4. CASE Crash
  <2>1. /\ doing' = "idle" /\ disk' = disk /\ kills' = kills + 1 /\ mem' = disk
    BY <1>4 DEF Crash, Goto
  <2>2. kills' \in Nat /\ kills' > 0
    BY <2>1 DEF WaitInv
  <2>3. WaitIs(mem)' /\ WaitIs(disk)'
    BY <2>1, <2>2 DEF WaitInv, WaitIs
  <2> QED
    BY <2>1, <2>2, <2>3 DEF WaitInv, Scheduling, Saved
<1> QED
  BY <1>2, <1>3, <1>4

LEMMA WaitsStart == RunInit => WaitInv
<1> SUFFICES ASSUME RunInit PROVE WaitInv
  OBVIOUS
<1>1. mem = EmptyState /\ disk = EmptyState /\ doing = "idle" /\ kills = 0
  BY DEF RunInit
<1>2. EmptyState.pause.kind # "USAGE_LIMIT" /\ EmptyState.active.issue = NoIssue
  BY DEF EmptyState, NoPause, NoAttempt
<1> QED
  BY <1>1, <1>2, OrderAssumption DEF WaitInv, WaitIs, Saved, Scheduling, Finished

(* The wait a step goes on after is that of its own reservation, but for a    *)
(* crash between the completion of an issue and clear_run_pause.              *)
THEOREM WaitsAlwaysBelongToTheirIssue == RunSpec => []WaitsBelongToTheirIssue
<1>1. RunnerInv /\ RunnerInv' /\ WaitInv /\ [RunNext]_runVars => WaitInv'
  <2> SUFFICES ASSUME RunnerInv, RunnerInv', WaitInv, [RunNext]_runVars
               PROVE  WaitInv'
    OBVIOUS
  <2>1. CASE LaunchRun \/ Resolve \/ Renew \/ WaitUntil
    BY <2>1, StartWaits
  <2>2. CASE WriteState
    BY <2>2 DEF WriteState, bounds, WaitInv, WaitIs, Saved, Finished
  <2>3. CASE Project \/ ChargeFinished \/ ResumeReserved \/ ScheduleEnds
    BY <2>3, ScheduleWaits
  <2>4. CASE ReserveNormal \/ ReserveBlocker
    BY <2>4, ReserveWaits DEF ReserveNormal, ReserveBlocker
  <2>5. CASE EndPause \/ Charge \/ Leave \/ Review \/ Mark
    BY <2>5, CloseWaits
  <2>6. CASE Begin \/ LaunchStep
    BY <2>6, IssueWaits
  <2>7. CASE \E o \in StepOutcomes : StepEnds(o)
    BY <2>7, StepEndsWaits
  <2>8. CASE LimitHit \/ OtherBlocker \/ EndProcess \/ Crash
    BY <2>8, StopWaits
  <2>9. CASE UNCHANGED runVars
    BY <2>9 DEF runVars, bounds, WaitInv, WaitIs, Saved, Finished
  <2> QED
    BY <2>1, <2>2, <2>3, <2>4, <2>5, <2>6, <2>7, <2>8, <2>9 DEF RunNext, Step
<1>2. WaitInv => WaitsBelongToTheirIssue
  BY DEF WaitInv, WaitIs, WaitsBelongToTheirIssue, Scheduling
<1> QED
  BY <1>1, <1>2, WaitsStart, RunnerInvAlways, PTL DEF RunSpec

=============================================================================
