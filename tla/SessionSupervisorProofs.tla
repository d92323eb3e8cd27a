---------------------- MODULE SessionSupervisorProofs ----------------------
(***************************************************************************)
(* Proofs about the Portable Session Supervisor for any number of          *)
(* sessions, slots and worker generations, and for any cleanups and lease  *)
(* renewals that may fail; and about what supervisors of one user know of  *)
(* the catalog they share: how each opens the file and keeps its view of   *)
(* the sessions, for any number of applications, sessions and checkouts.   *)
(***************************************************************************)
EXTENDS SessionSupervisor, CatalogReplica, TLAPS, FiniteSetTheorems

(* The type invariant without the line, whose SelectSeq is recursive.      *)
Types ==
    /\ phase \in {"open", "pausing", "stopping", "gone"}
    /\ status \in [Sessions -> Status]
    /\ leased \subseteq Sessions /\ claimed \subseteq Sessions
    /\ bound \in [Sessions -> Gens \cup {0}]
    /\ queued \in [Sessions -> [kind : {"none", "start", "resume", "input"}, gen : Gens \cup {0}]]
    /\ entry \in [Sessions -> Entry]
    /\ run \in [Sessions -> [Gens -> Run]]
    /\ used \in [Sessions -> Gens \cup {0}]
    /\ launch \in [Sessions -> {"none", "start", "resume"}]
    /\ stopping \in [Sessions -> {"none", "FORCE_STOP", "CANCEL", "SHUTDOWN"}]

(* What holds of one session and the state that belongs to it.             *)

(* _running knows the last worker launched, or none: a new session has     *)
(* none.                                                                   *)
EntryIsLast(s) ==
    /\ entry[s].gen \in {0, used[s]}
    /\ entry[s].gen = 0 => entry[s] = NoEntry
    /\ stopping[s] # "none" => used[s] # 0
    /\ status[s] = "NONE" => ~Running(s)

(* A session being launched has what its worker will need.                 *)
LaunchIsBacked(s) ==
    launch[s] # "none" =>
        /\ s \in leased /\ s \in claimed
        /\ status[s] = "RUNNING"
        /\ queued[s].kind \notin {"start", "resume"}
        /\ ~Running(s) => used[s] < MaxGen

(* A worker that may still have processes is known and has its worktree.   *)
WorkerIsHeld(s) ==
    \A g \in Gens : Live(s, g) => entry[s].gen = g /\ s \in leased
ReapedIsStopped(s) ==
    \A g \in Gens : run[s][g].reader = "reaped" => run[s][g].proc = "stopped"

(* An answer is on its way to generation g, in the queue or in its pipe.   *)
AnswerQueued(s, g) == queued[s].kind = "input" /\ queued[s].gen = g
AnswerSent(s, g) == run[s][g].input = g

(* A worker that asked does not work before it is answered, its request    *)
(* has been read by then, and there is one answer to a request.            *)
AskingWorkersWait(s) ==
    \A g \in Gens :
        /\ run[s][g].sent = "INPUT_REQUEST" => run[s][g].duty # "working"
        /\ AnswerQueued(s, g) \/ AnswerSent(s, g) =>
              run[s][g].sent # "INPUT_REQUEST" /\ run[s][g].duty # "working"
        /\ ~(AnswerQueued(s, g) /\ AnswerSent(s, g))
WaitingIsForAnswer(s) ==
    (status[s] = "WAITING_FOR_INPUT" /\ Running(s)) =>
        LET g == entry[s].gen IN
        /\ run[s][g].duty # "working" /\ run[s][g].sent # "INPUT_REQUEST"
        /\ ~AnswerQueued(s, g) /\ ~AnswerSent(s, g)

(* What works, or will when it reads its answer, has a slot.               *)
WorkIsClaimed(s) ==
    \A g \in Gens :
        run[s][g].proc = "up" /\ (run[s][g].duty = "working" \/ AnswerSent(s, g))
            => s \in claimed

(* What waits for capacity is the answer to a worker that was launched, or *)
(* the launch of a session without one.                                    *)
QueuedIsKnown(s) ==
    /\ queued[s].kind = "input" => queued[s].gen \in 1 .. used[s]
    /\ stopping[s] # "none" => queued[s] = Idle
    /\ queued[s].kind \in {"start", "resume"} =>
          status[s] = "QUEUED" /\ s \in leased /\ ~Running(s)

Good(s) ==
    /\ EntryIsLast(s) /\ LaunchIsBacked(s)
    /\ WorkerIsHeld(s) /\ ReapedIsStopped(s)
    /\ AskingWorkersWait(s) /\ WaitingIsForAnswer(s)
    /\ WorkIsClaimed(s) /\ QueuedIsKnown(s)

IInv ==
    /\ Types
    /\ Cardinality(claimed) <= Slots
    /\ \A s \in Sessions : Good(s)

-----------------------------------------------------------------------------
(* A step that concerns session s.                                         *)

Leaves(t) ==
    /\ status'[t] = status[t] /\ queued'[t] = queued[t] /\ entry'[t] = entry[t]
    /\ run'[t] = run[t] /\ used'[t] = used[t]
    /\ launch'[t] = launch[t] /\ stopping'[t] = stopping[t]
    /\ t \in leased' <=> t \in leased
    /\ t \in claimed' <=> t \in claimed
ClaimsFor(s) ==
    \/ claimed' \subseteq claimed
    \/ claimed' = claimed \cup {s} /\ Cardinality(claimed) < Slots
Keeps(s) ==
    /\ Types'
    /\ Good(s)'
    /\ \A t \in Sessions \ {s} : Leaves(t)
    /\ ClaimsFor(s)

(* Good depends only on what belongs to the session.                       *)
LEMMA LeftSessionStaysGood ==
    ASSUME NEW t \in Sessions, Good(t), Leaves(t)
    PROVE  Good(t)'
  BY DEF Good, Leaves, EntryIsLast, LaunchIsBacked, WorkerIsHeld, ReapedIsStopped,
         AskingWorkersWait, WaitingIsForAnswer, WorkIsClaimed, QueuedIsKnown, AnswerQueued,
         AnswerSent, Running, Live

LEMMA ClaimsStayBounded ==
    ASSUME Types, NEW s \in Sessions, ClaimsFor(s), Cardinality(claimed) <= Slots
    PROVE  Cardinality(claimed') <= Slots
<1>1. IsFiniteSet(claimed) /\ Cardinality(claimed) \in Nat
  BY SupervisedAssumption, FS_Subset, FS_CardinalityType DEF Types
<1>2. CASE claimed' \subseteq claimed
  <2>1. Cardinality(claimed') \in Nat /\ Cardinality(claimed') <= Cardinality(claimed)
    BY <1>1, <1>2, FS_Subset, FS_CardinalityType
  <2> QED
    BY <1>1, <2>1, SlotsAssumption
<1>3. CASE claimed' = claimed \cup {s} /\ Cardinality(claimed) < Slots
  BY <1>1, <1>3, FS_AddElement, SlotsAssumption
<1> QED
  BY <1>2, <1>3 DEF ClaimsFor

LEMMA KeepsIsEnough ==
    ASSUME IInv, NEW s \in Sessions, Keeps(s)
    PROVE  IInv'
<1>1. \A t \in Sessions : Good(t)'
  BY LeftSessionStaysGood DEF IInv, Keeps
<1> QED
  BY <1>1, ClaimsStayBounded DEF IInv, Keeps

-----------------------------------------------------------------------------
(* The workers.                                                            *)

(* One generation of one session is replaced by w.                         *)
LEMMA SetsOne ==
    ASSUME Types, NEW s \in Sessions, NEW g \in Gens, NEW w \in Run, Sets(s, g, w)
    PROVE  /\ run' \in [Sessions -> [Gens -> Run]]
           /\ run'[s][g] = w
           /\ \A h \in Gens \ {g} : run'[s][h] = run[s][h]
           /\ \A t \in Sessions \ {s} : run'[t] = run[t]
  BY DEF Types, Sets

LEMMA RunningIsLast ==
    ASSUME Types, NEW s \in Sessions, EntryIsLast(s), Running(s)
    PROVE  entry[s].gen = used[s] /\ entry[s].gen \in Gens
  BY DEF Types, EntryIsLast, Running

LEMMA WorkerType ==
    ASSUME Types, NEW s \in Sessions, NEW g \in Gens
    PROVE  run[s][g] \in Run /\ g # 0
<1>1. run[s][g] \in Run
  BY DEF Types
<1> QED
  BY <1>1 DEF Gens

(* A step of a worker or of its reader that leaves the session alone: it   *)
(* starts no work unless the worker reads its answer.                      *)
WorkerMoves(s, g, w) ==
    /\ w \in Run
    /\ \/ w.proc \in {run[s][g].proc, "stopped"}
       \/ run[s][g].proc = "up" /\ w.proc = "exited"
    /\ w.reader = "reaped" => run[s][g].reader = "reaped" \/ w.proc = "stopped"
    /\ w.duty = "working" =>
          run[s][g].duty = "working" \/ (run[s][g].input = g /\ w.input = 0)
    /\ w.input = run[s][g].input \/ w.input = 0
    /\ w.sent = "INPUT_REQUEST" =>
          \/ run[s][g].sent = "INPUT_REQUEST"
          \/ run[s][g].duty = "working" /\ w.duty # "working" /\ run[s][g].proc = "up"

LEMMA WorkerKeeps ==
    ASSUME Types, NEW s \in Sessions, Good(s), NEW g \in Gens, NEW w,
           WorkerMoves(s, g, w), Sets(s, g, w), WorkerOnly
    PROVE  Keeps(s)
<1>1. w \in Run
  BY DEF WorkerMoves
<1>2. /\ run' \in [Sessions -> [Gens -> Run]]
      /\ run'[s][g] = w
      /\ \A h \in Gens \ {g} : run'[s][h] = run[s][h]
      /\ \A t \in Sessions \ {s} : run'[t] = run[t]
  BY <1>1, SetsOne
<1>3. Types'
  BY <1>2 DEF Types, WorkerOnly, catalog, capacity, ownership
<1>4. g # 0 /\ UNCHANGED <<status, leased, claimed, queued, entry, used, launch, stopping>>
  BY DEF Gens, WorkerOnly, catalog, capacity, ownership
<1>5. EntryIsLast(s)' /\ LaunchIsBacked(s)' /\ QueuedIsKnown(s)'
  BY <1>4 DEF Good, EntryIsLast, LaunchIsBacked, QueuedIsKnown, Running
<1>6. WorkerIsHeld(s)' /\ ReapedIsStopped(s)'
  BY <1>2, <1>4 DEF Good, WorkerMoves, WorkerIsHeld, ReapedIsStopped, Live
<1>7. AskingWorkersWait(s)'
  BY <1>2, <1>4 DEF Good, WorkerMoves, AskingWorkersWait, AnswerQueued, AnswerSent
<1>8. WaitingIsForAnswer(s)'
  <2>1. Running(s) => entry[s].gen \in Gens
    BY RunningIsLast DEF Good
  <2> QED
    BY <1>2, <1>4, <2>1 DEF Good, WorkerMoves, WaitingIsForAnswer, AnswerQueued, AnswerSent,
       Running
<1>9. WorkIsClaimed(s)'
  BY <1>2, <1>4 DEF Good, WorkerMoves, WorkIsClaimed, AnswerSent
<1> QED
  BY <1>2, <1>3, <1>4, <1>5, <1>6, <1>7, <1>8, <1>9
     DEF Good, Keeps, Leaves, ClaimsFor

LEMMA WorkerStepKeeps ==
    ASSUME Types, NEW s \in Sessions, Good(s), NEW g \in Gens,
           WorkerStep(s, g) \/ WorkerExits(s, g)
    PROVE  Keeps(s)
<1>. DEFINE r == run[s][g]
<1>1. r \in Run /\ g # 0
  BY WorkerType
<1>2. CASE WorkerAsks(s, g)
  <2>1. WorkerMoves(s, g, [r EXCEPT !.sent = "INPUT_REQUEST", !.duty = "asking"])
    BY <1>1, <1>2 DEF WorkerAsks, WorkerMoves, Run
  <2> QED
    BY <1>2, <2>1, WorkerKeeps DEF WorkerAsks, Emits
<1>3. CASE WorkerAnswered(s, g)
  <2>1. CASE r.input = g
    <3>1. WorkerMoves(s, g, [r EXCEPT !.duty = "working", !.input = 0])
      BY <1>1, <2>1 DEF WorkerMoves, Run
    <3> QED
      BY <1>3, <2>1, <3>1, WorkerKeeps DEF WorkerAnswered
  <2>2. CASE r.input # g
    <3>1. WorkerMoves(s, g, [r EXCEPT !.sent = "FAILURE", !.duty = "ended"])
      BY <1>1 DEF WorkerMoves, Run
    <3> QED
      BY <1>3, <2>2, <3>1, WorkerKeeps DEF WorkerAnswered, Emits
  <2> QED
    BY <2>1, <2>2
<1>4. CASE WorkerPauses(s, g)
  <2>1. PICK kind \in Captured : Emits(s, g, kind, "ended")
    BY <1>4 DEF WorkerPauses
  <2>2. WorkerMoves(s, g, [r EXCEPT !.sent = kind, !.duty = "ended"])
    BY <1>1 DEF WorkerMoves, Run, Captured
  <2> QED
    BY <2>1, <2>2, WorkerKeeps DEF Emits
<1>5. CASE WorkerFinishes(s, g)
  <2>1. PICK kind \in {"COMPLETION", "FAILURE"} : Emits(s, g, kind, "ended")
    BY <1>5 DEF WorkerFinishes
  <2>. DEFINE w == [r EXCEPT !.sent = kind, !.duty = "ended"]
  <2>2. WorkerMoves(s, g, w)
    <3>1. w \in Run
      BY <1>1 DEF Run
    <3>2. /\ w.proc = r.proc /\ w.reader = r.reader /\ w.input = r.input
          /\ w.duty = "ended" /\ w.sent # "INPUT_REQUEST"
      BY <1>1 DEF Run
    <3>. HIDE DEF w
    <3> QED
      BY <3>1, <3>2 DEF WorkerMoves
  <2> QED
    BY <2>1, <2>2, WorkerKeeps DEF Emits
<1>6. CASE WorkerExits(s, g)
  <2>1. WorkerMoves(s, g, [r EXCEPT !.proc = "exited", !.duty = "ended"])
    BY <1>1, <1>6 DEF WorkerExits, WorkerMoves, Run
  <2> QED
    BY <1>6, <2>1, WorkerKeeps DEF WorkerExits
<1> QED
  BY <1>2, <1>3, <1>4, <1>5, <1>6 DEF WorkerStep

-----------------------------------------------------------------------------
(* The readers.                                                            *)

(* What a reader changes of a worker, field by field.                      *)
LEMMA HeardIs ==
    ASSUME Types, NEW s \in Sessions, NEW g \in Gens,
           NEW reader \in {"reading", "closing", "failing"}
    PROVE  /\ Heard(s, g, reader) \in Run
           /\ Heard(s, g, reader).sent = "none" /\ Heard(s, g, reader).reader = reader
           /\ Heard(s, g, reader).proc = run[s][g].proc
           /\ Heard(s, g, reader).duty = run[s][g].duty
           /\ Heard(s, g, reader).input = run[s][g].input
<1>1. run[s][g] \in Run
  BY WorkerType
<1>2. Heard(s, g, reader) \in Run
  BY <1>1 DEF Heard, Run
<1>3. /\ Heard(s, g, reader).sent = "none" /\ Heard(s, g, reader).reader = reader
      /\ Heard(s, g, reader).proc = run[s][g].proc
      /\ Heard(s, g, reader).duty = run[s][g].duty
      /\ Heard(s, g, reader).input = run[s][g].input
  BY <1>1 DEF Heard, Run
<1> QED
  BY <1>2, <1>3

Reaped(s, g, reader, ok) ==
    [run[s][g] EXCEPT !.reader = reader, !.proc = IF ok THEN "stopped" ELSE @]

LEMMA ReaperIs ==
    ASSUME Types, NEW s \in Sessions, NEW g \in Gens, NEW ok \in BOOLEAN,
           NEW reader \in {"closing", "reaped", "unreaped"}
    PROVE  /\ Reaped(s, g, reader, ok) \in Run
           /\ Reaped(s, g, reader, ok).reader = reader
           /\ Reaped(s, g, reader, ok).proc = IF ok THEN "stopped" ELSE run[s][g].proc
           /\ Reaped(s, g, reader, ok).sent = run[s][g].sent
           /\ Reaped(s, g, reader, ok).duty = run[s][g].duty
           /\ Reaped(s, g, reader, ok).input = run[s][g].input
<1>1. run[s][g] \in Run
  BY WorkerType
<1>2. PICK proc \in {run[s][g].proc, "stopped"} :
        /\ Reaped(s, g, reader, ok) = [run[s][g] EXCEPT !.reader = reader, !.proc = proc]
        /\ proc = IF ok THEN "stopped" ELSE run[s][g].proc
  BY DEF Reaped
<1>3. [run[s][g] EXCEPT !.reader = reader, !.proc = proc] \in Run
  <2>1. PICK v \in Run : v = [run[s][g] EXCEPT !.reader = reader]
    BY <1>1 DEF Run
  <2>2. proc \in {"none", "up", "exited", "stopped"}
    BY <1>1 DEF Run
  <2>3. \A p \in {"none", "up", "exited", "stopped"} : [v EXCEPT !.proc = p] \in Run
    BY DEF Run
  <2>4. [v EXCEPT !.proc = proc] \in Run
    BY <2>2, <2>3
  <2> QED
    BY <2>1, <2>4
<1>. DEFINE w == [run[s][g] EXCEPT !.reader = reader, !.proc = proc]
<1>4. /\ w.reader = reader /\ w.proc = proc
      /\ w.sent = run[s][g].sent /\ w.duty = run[s][g].duty /\ w.input = run[s][g].input
  BY <1>1, <1>2 DEF Run
<1> QED
  BY <1>2, <1>3, <1>4

LEMMA ReaderOnly ==
    ASSUME UNCHANGED <<status, capacity, entry>>, ReaderFrame
    PROVE  WorkerOnly
  BY DEF ReaderFrame, WorkerOnly, catalog

(* What a reader does that settles nothing.                                *)
LEMMA ReaderPassesKeeps ==
    ASSUME Types, NEW s \in Sessions, Good(s), NEW g \in Gens,
           \/ FrameRefused(s, g) \/ FrameIgnored(s, g) \/ FrameInvalid(s, g)
           \/ ReaderAtEnd(s, g) \/ HeartbeatRaises(s, g)
           \/ \E ok \in Confirmations(s) : ReaderReaps(s, g, ok)
    PROVE  Keeps(s)
<1>. DEFINE r == run[s][g]
<1>1. r \in Run /\ g # 0
  BY WorkerType
<1>2. ASSUME NEW reader \in {"reading", "closing", "failing"}
      PROVE  WorkerMoves(s, g, Heard(s, g, reader))
  BY HeardIs DEF WorkerMoves
<1>3. ASSUME NEW reader \in {"lost", "closing"}
      PROVE  WorkerMoves(s, g, [r EXCEPT !.reader = reader])
  BY <1>1 DEF WorkerMoves, Run
<1>4. CASE FrameRefused(s, g) \/ FrameIgnored(s, g) \/ FrameInvalid(s, g)
  <2>1. PICK reader \in {"reading", "closing", "failing"} : Sets(s, g, Heard(s, g, reader))
    BY <1>4 DEF FrameRefused, FrameIgnored, FrameInvalid
  <2>2. WorkerOnly
    BY <1>4, ReaderOnly DEF FrameRefused, FrameIgnored, FrameInvalid
  <2> QED
    BY <1>2, <2>1, <2>2, WorkerKeeps
<1>5. CASE ReaderAtEnd(s, g) \/ HeartbeatRaises(s, g)
  <2>1. PICK reader \in {"lost", "closing"} : Sets(s, g, [r EXCEPT !.reader = reader])
    BY <1>5 DEF ReaderAtEnd, HeartbeatRaises
  <2>2. WorkerOnly
    BY <1>5, ReaderOnly DEF ReaderAtEnd, HeartbeatRaises
  <2> QED
    BY <1>3, <2>1, <2>2, WorkerKeeps
<1>6. CASE \E ok \in Confirmations(s) : ReaderReaps(s, g, ok)
  <2>1. PICK ok \in Confirmations(s) : ReaderReaps(s, g, ok)
    BY <1>6
  <2>2. ok \in BOOLEAN /\ WorkerOnly
    BY <2>1 DEF ReaderReaps, Confirmations
  <2>3. PICK reader \in {"reaped", "unreaped"} :
           Sets(s, g, Reaped(s, g, reader, ok)) /\ (reader = "reaped" <=> ok)
    BY <2>1 DEF ReaderReaps, Reaped
  <2>. DEFINE w == Reaped(s, g, reader, ok)
  <2>4. /\ w \in Run /\ w.reader = reader
        /\ w.proc = IF ok THEN "stopped" ELSE r.proc
        /\ w.sent = r.sent /\ w.duty = r.duty /\ w.input = r.input
    <3>1. reader \in {"closing", "reaped", "unreaped"}
      OBVIOUS
    <3> QED
      BY ONLY Types, s \in Sessions, g \in Gens, <2>2, <3>1, ReaperIs
  <2>5. WorkerMoves(s, g, w)
    <3>. HIDE DEF w
    <3> QED
      BY <2>2, <2>3, <2>4 DEF WorkerMoves
  <2> QED
    BY <2>2, <2>3, <2>5, WorkerKeeps
<1> QED
  BY <1>4, <1>5, <1>6

-----------------------------------------------------------------------------
(* What stops, settles or fails a session: its worker does no new work,    *)
(* its record is kept or dropped, and nothing is released under a live     *)
(* worker.                                                                 *)

RunSettles(s) ==
    \A g \in Gens :
        /\ run'[s][g].duty = "working" => run[s][g].duty = "working"
        /\ run'[s][g].sent = "INPUT_REQUEST" => run[s][g].sent = "INPUT_REQUEST"
        /\ run'[s][g].input = run[s][g].input
        /\ run'[s][g].proc \in {run[s][g].proc, "stopped"}
        /\ run'[s][g].reader = "reaped" => run[s][g].reader = "reaped"
EntrySettles(s) ==
    \/ entry'[s] = NoEntry /\ \A g \in Gens : run'[s][g].proc \notin {"up", "exited"}
    \/ Running(s) /\ entry'[s].gen = entry[s].gen
HoldsForWorker(s) ==
    (\E g \in Gens : run'[s][g].proc \in {"up", "exited"}) =>
        /\ s \in leased => s \in leased'
        /\ s \in claimed => s \in claimed'
StatusSettles(s) ==
    status'[s] \in {"NONE", "WAITING_FOR_INPUT"} => status'[s] = status[s] \/ entry'[s] = NoEntry
QueueSettles(s) ==
    /\ queued'[s] \in {queued[s], Idle}
    /\ queued'[s].kind \in {"start", "resume"} =>
          status'[s] = "QUEUED" /\ s \in leased' /\ entry'[s] = NoEntry
    /\ stopping'[s] # "none" => stopping[s] # "none" \/ (Running(s) /\ queued'[s] = Idle)
Settles(s) ==
    /\ launch'[s] = "none" /\ used'[s] = used[s]
    /\ RunSettles(s) /\ EntrySettles(s) /\ HoldsForWorker(s)
    /\ StatusSettles(s) /\ QueueSettles(s)
Alone(s) == (\A t \in Sessions \ {s} : Leaves(t)) /\ ClaimsFor(s)

LEMMA SettlesKeeps ==
    ASSUME Types, NEW s \in Sessions, Good(s), Types', Alone(s), Settles(s)
    PROVE  Keeps(s)
<1>. USE DEF Settles
<1>1. Running(s) => entry[s].gen = used[s] /\ entry[s].gen \in Gens /\ entry[s].gen # 0
  BY RunningIsLast, WorkerType DEF Good
<1>2. Idle.kind = "none" /\ NoEntry.gen = 0
  BY DEF Idle, NoEntry
<1>3. entry'[s] # NoEntry => Running(s) /\ entry'[s].gen = entry[s].gen
  BY DEF EntrySettles
<1>4. EntryIsLast(s)'
  BY <1>1, <1>2, <1>3 DEF Good, EntryIsLast, EntrySettles, StatusSettles, QueueSettles, Running
<1>5. LaunchIsBacked(s)'
  BY DEF LaunchIsBacked
<1>6. WorkerIsHeld(s)' /\ ReapedIsStopped(s)'
  BY DEF Good, WorkerIsHeld, ReapedIsStopped, EntrySettles, RunSettles, HoldsForWorker, Live
<1>7. AskingWorkersWait(s)'
  BY <1>2 DEF Good, AskingWorkersWait, AnswerQueued, AnswerSent, RunSettles, QueueSettles
<1>8. WaitingIsForAnswer(s)'
  BY <1>1, <1>2, <1>3 DEF Good, WaitingIsForAnswer, AnswerQueued, AnswerSent, RunSettles,
     QueueSettles, StatusSettles, Running
<1>9. WorkIsClaimed(s)'
  BY DEF Good, WorkIsClaimed, AnswerSent, RunSettles, HoldsForWorker
<1>10. QueuedIsKnown(s)'
  BY <1>2 DEF Good, QueuedIsKnown, QueueSettles, Running
<1> QED
  BY <1>4, <1>5, <1>6, <1>7, <1>8, <1>9, <1>10 DEF Good, Keeps, Alone

(* Terminating the tree of the current worker.                             *)
LEMMA TryStopSettles ==
    ASSUME Types, NEW s \in Sessions, Good(s), Running(s), NEW ok \in BOOLEAN,
           NEW e \in Entry, e.gen = entry[s].gen, TryStop(s, e, ok)
    PROVE  /\ entry' \in [Sessions -> Entry] /\ run' \in [Sessions -> [Gens -> Run]]
           /\ \A t \in Sessions \ {s} : entry'[t] = entry[t] /\ run'[t] = run[t]
           /\ RunSettles(s) /\ EntrySettles(s)
           /\ ok => /\ entry'[s] = NoEntry
                    /\ \A g \in Gens : run'[s][g].proc \notin {"up", "exited"}
<1>1. entry[s].gen \in Gens /\ run[s][entry[s].gen] \in Run
  BY RunningIsLast, WorkerType DEF Good
<1>2. NoEntry \in Entry /\ [e EXCEPT !.tried = TRUE] \in Entry
      /\ [e EXCEPT !.tried = TRUE].gen = e.gen
  BY DEF Entry, NoEntry
<1>3. entry' \in [Sessions -> Entry] /\ \A t \in Sessions \ {s} : entry'[t] = entry[t]
  BY <1>2 DEF TryStop, Types
<1>4. CASE ok
  <2>1. Sets(s, entry[s].gen, [run[s][entry[s].gen] EXCEPT !.proc = "stopped"])
    BY <1>1, <1>4 DEF TryStop, Sets, Types
  <2>2. [run[s][entry[s].gen] EXCEPT !.proc = "stopped"] \in Run
    BY <1>1 DEF Run
  <2>3. /\ run' \in [Sessions -> [Gens -> Run]]
        /\ run'[s][entry[s].gen] = [run[s][entry[s].gen] EXCEPT !.proc = "stopped"]
        /\ \A h \in Gens \ {entry[s].gen} : run'[s][h] = run[s][h]
        /\ \A t \in Sessions \ {s} : run'[t] = run[t]
    BY <1>1, <2>1, <2>2, SetsOne
  <2>4. entry'[s] = NoEntry
    BY <1>4 DEF TryStop, Types
  <2>5. \A g \in Gens : run'[s][g].proc \notin {"up", "exited"}
    BY <1>1, <2>3 DEF Good, WorkerIsHeld, Live, Run
  <2>6. RunSettles(s)
    BY <1>1, <2>3 DEF RunSettles, Run
  <2> QED
    BY <1>3, <2>3, <2>4, <2>5, <2>6 DEF EntrySettles
<1>5. CASE ~ok
  <2>1. run' = run /\ entry'[s].gen = entry[s].gen
    BY <1>2, <1>5 DEF TryStop, Types
  <2> QED
    BY <1>3, <1>5, <2>1 DEF RunSettles, EntrySettles, Types
<1> QED
  BY <1>4, <1>5

LEMMA NoWorkerIsLive ==
    ASSUME Types, NEW s \in Sessions, Good(s), ~Running(s)
    PROVE  entry[s] = NoEntry /\ \A g \in Gens : run[s][g].proc \notin {"up", "exited"}
<1>1. NoEntry.gen = 0 /\ 0 \notin Gens
  BY DEF NoEntry, Gens
<1> QED
  BY <1>1 DEF Good, WorkerIsHeld, Running, Live

LEMMA NothingRuns ==
    ASSUME Types, NEW s \in Sessions, Good(s), ~Running(s), entry'[s] = entry[s], run'[s] = run[s]
    PROVE  /\ RunSettles(s) /\ EntrySettles(s) /\ entry'[s] = NoEntry
           /\ \A g \in Gens : run'[s][g].proc \notin {"up", "exited"}
  BY NoWorkerIsLive DEF RunSettles, EntrySettles

LEMMA ConfirmationsAreBooleans == \A s : Confirmations(s) \subseteq BOOLEAN
  BY DEF Confirmations

(* What the assignments of the actions do.                                 *)
LEMMA BecomesAt ==
    ASSUME Types, NEW s \in Sessions, NEW st \in Status, Becomes(s, st)
    PROVE  /\ status' \in [Sessions -> Status] /\ status'[s] = st
           /\ \A t \in Sessions \ {s} : status'[t] = status[t]
  BY DEF Types, Becomes

LEMMA DequeueAt ==
    ASSUME Types, NEW s \in Sessions, Dequeue(s)
    PROVE  /\ queued' \in [Sessions -> [kind : {"none", "start", "resume", "input"},
                                        gen : Gens \cup {0}]]
           /\ queued'[s] = Idle /\ Idle.kind = "none"
           /\ \A t \in Sessions \ {s} : queued'[t] = queued[t]
  BY DEF Types, Dequeue, Idle

LEMMA ReleasesAt ==
    ASSUME Types, NEW s \in Sessions, ReleaseCapacity(s)
    PROVE  /\ claimed' \subseteq claimed
           /\ \A t \in Sessions \ {s} : t \in claimed' <=> t \in claimed
  BY DEF ReleaseCapacity

LEMMA LeavesLeaseAt ==
    ASSUME Types, NEW s \in Sessions, ReleaseLease(s)
    PROVE  /\ leased' \subseteq leased /\ bound' \in [Sessions -> Gens \cup {0}]
           /\ \A t \in Sessions \ {s} : t \in leased' <=> t \in leased
  BY DEF ReleaseLease, Types

LEMMA EntryAt ==
    ASSUME Types, NEW s \in Sessions
    PROVE  /\ entry[s] \in Entry
           /\ [entry[s] EXCEPT !.pending = "PAUSE"] \in Entry
           /\ [entry[s] EXCEPT !.pending = "PAUSE"].gen = entry[s].gen
           /\ [entry[s] EXCEPT !.stop = TRUE] \in Entry
           /\ [entry[s] EXCEPT !.stop = TRUE].gen = entry[s].gen
           /\ [entry[s] EXCEPT !.tried = TRUE] \in Entry
           /\ [entry[s] EXCEPT !.tried = TRUE].gen = entry[s].gen
           /\ [entry[s] EXCEPT !.checkpoint = TRUE] \in Entry
           /\ [entry[s] EXCEPT !.checkpoint = TRUE].gen = entry[s].gen
           /\ [entry[s] EXCEPT !.stop = TRUE, !.pending = "STOP"] \in Entry
           /\ [entry[s] EXCEPT !.stop = TRUE, !.pending = "STOP"].gen = entry[s].gen
<1>1. entry[s] \in Entry
  BY DEF Types
<1> QED
  BY <1>1 DEF Entry

LEMMA EntryBecomes ==
    ASSUME Types, NEW s \in Sessions, NEW e \in Entry, entry' = [entry EXCEPT ![s] = e]
    PROVE  /\ entry' \in [Sessions -> Entry] /\ entry'[s] = e
           /\ \A t \in Sessions \ {s} : entry'[t] = entry[t]
  BY DEF Types

LEMMA StaysAsItIs ==
    ASSUME Types, NEW s \in Sessions
    PROVE  /\ UNCHANGED status => Becomes(s, status[s])
           /\ UNCHANGED launch /\ launch[s] = "none" => launch' = [launch EXCEPT ![s] = "none"]
           /\ status[s] \in Status
  BY DEF Types, Becomes

(* Such a step, put together from its effects.                             *)
WorkerSettles(s) ==
    /\ entry' \in [Sessions -> Entry] /\ run' \in [Sessions -> [Gens -> Run]]
    /\ \A t \in Sessions \ {s} : entry'[t] = entry[t] /\ run'[t] = run[t]
    /\ RunSettles(s) /\ EntrySettles(s)
CapacitySettles(s) ==
    \/ UNCHANGED catalog
    \/ /\ ReleaseCapacity(s)
       /\ ReleaseLease(s) \/ UNCHANGED ownership
       /\ \A g \in Gens : run'[s][g].proc \notin {"up", "exited"}
    \/ Grantable(s) /\ Grant(s) /\ UNCHANGED ownership
CommandSettles(s) ==
    \/ Dequeue(s) /\ UNCHANGED stopping
    \/ UNCHANGED queued /\ UNCHANGED stopping /\ queued[s].kind \notin {"start", "resume"}
    \/ UNCHANGED queued /\ UNCHANGED stopping /\ UNCHANGED ownership /\ UNCHANGED status
       /\ entry'[s] = NoEntry
    \/ /\ Dequeue(s) /\ Running(s)
       /\ \E kind \in {"FORCE_STOP", "CANCEL", "SHUTDOWN"} :
             stopping' = [stopping EXCEPT ![s] = kind]
    \/ UNCHANGED queued /\ queued[s] = Idle /\ stopping' = [stopping EXCEPT ![s] = "none"]

LEMMA EffectsKeep ==
    ASSUME Types, NEW s \in Sessions, Good(s),
           NEW st \in Status, Becomes(s, st),
           st \in {"NONE", "WAITING_FOR_INPUT"} => st = status[s] \/ entry'[s] = NoEntry,
           UNCHANGED <<phase, used>>, launch' = [launch EXCEPT ![s] = "none"],
           WorkerSettles(s), CapacitySettles(s), CommandSettles(s)
    PROVE  Keeps(s)
<1>1. /\ status' \in [Sessions -> Status] /\ status'[s] = st
      /\ \A t \in Sessions \ {s} : status'[t] = status[t]
  BY BecomesAt
<1>2. /\ claimed' \subseteq Sessions /\ leased' \subseteq Sessions
      /\ bound' \in [Sessions -> Gens \cup {0}]
      /\ \A t \in Sessions \ {s} : /\ t \in claimed' <=> t \in claimed
                                   /\ t \in leased' <=> t \in leased
  BY ReleasesAt, LeavesLeaseAt DEF CapacitySettles, catalog, capacity, ownership, Types, Grant
<1>3. ClaimsFor(s)
  BY ReleasesAt DEF CapacitySettles, ClaimsFor, catalog, capacity, Grant, Grantable
<1>4. HoldsForWorker(s)
  BY DEF CapacitySettles, HoldsForWorker, catalog, capacity, ownership, Grant
<1>5. /\ queued' \in [Sessions -> [kind : {"none", "start", "resume", "input"},
                                   gen : Gens \cup {0}]]
      /\ stopping' \in [Sessions -> {"none", "FORCE_STOP", "CANCEL", "SHUTDOWN"}]
      /\ \A t \in Sessions \ {s} : queued'[t] = queued[t] /\ stopping'[t] = stopping[t]
  <2>1. /\ queued' \in [Sessions -> [kind : {"none", "start", "resume", "input"},
                                       gen : Gens \cup {0}]]
        /\ \A t \in Sessions \ {s} : queued'[t] = queued[t]
    <3>1. CASE Dequeue(s)
      BY <3>1, DequeueAt
    <3>2. CASE UNCHANGED queued
      BY <3>2 DEF Types
    <3> QED
      BY <3>1, <3>2 DEF CommandSettles
  <2>2. /\ stopping' \in [Sessions -> {"none", "FORCE_STOP", "CANCEL", "SHUTDOWN"}]
        /\ \A t \in Sessions \ {s} : stopping'[t] = stopping[t]
    BY DEF CommandSettles, Types
  <2> QED
    BY <2>1, <2>2
<1>6. QueueSettles(s)
  <2>1. CASE Dequeue(s)
    BY <1>1, <2>1, DequeueAt DEF CommandSettles, QueueSettles, Good, QueuedIsKnown, Types
  <2>2. CASE UNCHANGED queued /\ UNCHANGED stopping /\ queued[s].kind \notin {"start", "resume"}
    BY <2>2 DEF QueueSettles
  <2>3. CASE /\ UNCHANGED queued /\ UNCHANGED stopping /\ UNCHANGED ownership
             /\ UNCHANGED status /\ entry'[s] = NoEntry
    BY <2>3 DEF QueueSettles, Good, QueuedIsKnown, ownership
  <2>4. CASE UNCHANGED queued /\ queued[s] = Idle /\ stopping' = [stopping EXCEPT ![s] = "none"]
    BY <2>4 DEF QueueSettles, Types, Idle
  <2> QED
    BY <2>1, <2>2, <2>3, <2>4 DEF CommandSettles
<1>7. /\ launch' \in [Sessions -> {"none", "start", "resume"}] /\ launch'[s] = "none"
      /\ \A t \in Sessions \ {s} : launch'[t] = launch[t]
  BY DEF Types
<1>8. Types'
  BY <1>1, <1>2, <1>5, <1>7 DEF Types, WorkerSettles
<1>9. Alone(s)
  BY <1>1, <1>2, <1>3, <1>5, <1>7 DEF Alone, Leaves, WorkerSettles
<1>10. Settles(s)
  BY <1>1, <1>4, <1>6, <1>7 DEF Settles, StatusSettles, WorkerSettles
<1> QED
  BY <1>8, <1>9, <1>10, SettlesKeeps

(* Changes of the current worker that settle it.                           *)
LEMMA KeptWorkerSettles ==
    ASSUME Types, NEW s \in Sessions, Good(s), Running(s),
           NEW e \in Entry, e.gen = entry[s].gen, entry' = [entry EXCEPT ![s] = e],
           UNCHANGED run
    PROVE  WorkerSettles(s)
  BY EntryBecomes DEF WorkerSettles, RunSettles, EntrySettles, Types

LEMMA StoppedWorkerSettles ==
    ASSUME Types, NEW s \in Sessions, Good(s), Running(s), NEW ok \in BOOLEAN,
           NEW e \in Entry, e.gen = entry[s].gen, TryStop(s, e, ok)
    PROVE  /\ WorkerSettles(s)
           /\ ok => /\ entry'[s] = NoEntry
                    /\ \A g \in Gens : run'[s][g].proc \notin {"up", "exited"}
  BY TryStopSettles DEF WorkerSettles

(* A command is written to the current worker.                             *)
LEMMA CommandedWorkerSettles ==
    ASSUME Types, NEW s \in Sessions, Good(s), Running(s),
           NEW e \in Entry, e.gen = entry[s].gen, entry' = [entry EXCEPT ![s] = e],
           NEW life \in {"none", "PAUSE", "STOP"},
           Sets(s, entry[s].gen, [Worker(s) EXCEPT !.life = life])
    PROVE  WorkerSettles(s)
<1>1. entry[s].gen \in Gens /\ Worker(s) \in Run
  BY RunningIsLast, WorkerType DEF Good, Worker
<1>2. [Worker(s) EXCEPT !.life = life] \in Run
  BY <1>1 DEF Run
<1>3. /\ run' \in [Sessions -> [Gens -> Run]]
      /\ run'[s][entry[s].gen] = [Worker(s) EXCEPT !.life = life]
      /\ \A h \in Gens \ {entry[s].gen} : run'[s][h] = run[s][h]
      /\ \A t \in Sessions \ {s} : run'[t] = run[t]
  BY <1>1, <1>2, SetsOne
<1>4. RunSettles(s)
  BY <1>1, <1>3 DEF RunSettles, Run, Worker
<1> QED
  BY <1>3, <1>4, EntryBecomes DEF WorkerSettles, EntrySettles

LEMMA NoWorkerSettles ==
    ASSUME Types, NEW s \in Sessions, Good(s), ~Running(s), UNCHANGED <<entry, run>>
    PROVE  /\ WorkerSettles(s) /\ entry'[s] = NoEntry
           /\ \A g \in Gens : run'[s][g].proc \notin {"up", "exited"}
  BY NothingRuns DEF WorkerSettles, Types

-----------------------------------------------------------------------------
(* Pausing and stopping.                                                   *)

LEMMA FailSessionSettles ==
    ASSUME Types, NEW s \in Sessions, Good(s), Running(s), NEW ok \in BOOLEAN,
           NEW e \in Entry, e.gen = entry[s].gen, NEW st, FailSession(s, e, st, ok)
    PROVE  WorkerSettles(s) /\ \E was \in {"INTERRUPTED", "FAILED"} : Becomes(s, was)
  BY StoppedWorkerSettles DEF FailSession

LEMMA PauseKeeps ==
    ASSUME Types, NEW s \in Sessions, Good(s), launch[s] = "none", PauseSession(s)
    PROVE  Keeps(s)
<1>. DEFINE e == [entry[s] EXCEPT !.pending = "PAUSE"]
            w == Worker(s)
<1>1. e \in Entry /\ e.gen = entry[s].gen
  BY EntryAt
<1>2. UNCHANGED <<phase, used>> /\ launch' = [launch EXCEPT ![s] = "none"] /\ CommandSettles(s)
  BY StaysAsItIs DEF PauseSession, CommandSettles
<1>3. {"PAUSED", "PAUSING", "INTERRUPTED", "FAILED"} \subseteq Status
  BY DEF Status, Terminal
<1>4. CASE ~Running(s) /\ Becomes(s, "PAUSED") /\ ReleaseCapacity(s) /\ ReleaseLease(s)
           /\ UNCHANGED <<entry, run>>
  BY <1>2, <1>3, <1>4, NoWorkerSettles, EffectsKeep DEF CapacitySettles
<1>5. ASSUME UNCHANGED catalog, WorkerSettles(s),
             \E st \in {"PAUSING", "INTERRUPTED", "FAILED"} : Becomes(s, st)
      PROVE  Keeps(s)
  BY <1>2, <1>3, <1>5, EffectsKeep DEF CapacitySettles
<1>6. CASE /\ Running(s) /\ Becomes(s, "PAUSING") /\ entry' = [entry EXCEPT ![s] = e]
           /\ Sets(s, e.gen, [w EXCEPT !.life = IF @ = "none" THEN "PAUSE" ELSE @])
           /\ UNCHANGED catalog
  <2>1. \E life \in {"none", "PAUSE", "STOP"} : Sets(s, entry[s].gen, [w EXCEPT !.life = life])
    <3>1. w \in Run
      BY <1>6, RunningIsLast, WorkerType DEF Good, Worker
    <3>2. w.life \in {"none", "PAUSE", "STOP"}
      BY <3>1 DEF Run
    <3> QED
      BY <1>1, <1>6, <3>2
  <2> QED
    BY <1>1, <1>5, <1>6, <2>1, CommandedWorkerSettles
<1>7. CASE /\ Running(s) /\ UNCHANGED catalog
           /\ \E ok \in Confirmations(s) : FailSession(s, e, "PAUSING", ok)
  BY <1>1, <1>5, <1>7, ConfirmationsAreBooleans, FailSessionSettles
<1>8. CASE /\ Running(s) /\ Becomes(s, "PAUSING") /\ entry' = [entry EXCEPT ![s] = e]
           /\ UNCHANGED <<run, catalog>>
  BY <1>1, <1>5, <1>8, KeptWorkerSettles
<1> QED
  BY <1>4, <1>6, <1>7, <1>8 DEF PauseSession

(* The current worker is confirmed gone and forgotten.                     *)
LEMMA EndedWorkerSettles ==
    ASSUME Types, NEW s \in Sessions, Good(s), Running(s),
           entry' = [entry EXCEPT ![s] = NoEntry],
           Sets(s, entry[s].gen, [Worker(s) EXCEPT !.proc = "stopped"])
    PROVE  /\ WorkerSettles(s) /\ entry'[s] = NoEntry
           /\ \A g \in Gens : run'[s][g].proc \notin {"up", "exited"}
<1>1. entry[s].gen \in Gens /\ Worker(s) \in Run
  BY RunningIsLast, WorkerType DEF Good, Worker
<1>2. [Worker(s) EXCEPT !.proc = "stopped"] \in Run /\ NoEntry \in Entry
  BY <1>1 DEF Run, NoEntry, Entry
<1>3. /\ run' \in [Sessions -> [Gens -> Run]]
      /\ run'[s][entry[s].gen] = [Worker(s) EXCEPT !.proc = "stopped"]
      /\ \A h \in Gens \ {entry[s].gen} : run'[s][h] = run[s][h]
      /\ \A t \in Sessions \ {s} : run'[t] = run[t]
  BY <1>1, <1>2, SetsOne
<1>4. \A g \in Gens : run'[s][g].proc \notin {"up", "exited"}
  BY <1>1, <1>3 DEF Good, WorkerIsHeld, Live, Run
<1>5. RunSettles(s)
  BY <1>1, <1>3 DEF RunSettles, Run, Worker
<1> QED
  BY <1>2, <1>3, <1>4, <1>5, EntryBecomes DEF WorkerSettles, EntrySettles

(* The same when the session has no worker and the last one is marked.     *)
LEMMA MarkedWorkerSettles ==
    ASSUME Types, NEW s \in Sessions, Good(s), ~Running(s),
           entry' = [entry EXCEPT ![s] = NoEntry],
           \/ UNCHANGED run
           \/ \E g \in Gens : Sets(s, g, [run[s][g] EXCEPT !.proc = "stopped"])
    PROVE  /\ WorkerSettles(s) /\ entry'[s] = NoEntry
           /\ \A g \in Gens : run'[s][g].proc \notin {"up", "exited"}
<1>1. NoEntry \in Entry /\ \A g \in Gens : run[s][g].proc \notin {"up", "exited"}
  BY NoWorkerIsLive DEF NoEntry, Entry
<1>2. CASE UNCHANGED run
  BY <1>1, <1>2, EntryBecomes DEF WorkerSettles, EntrySettles, RunSettles, Types
<1>3. ASSUME NEW g \in Gens, Sets(s, g, [run[s][g] EXCEPT !.proc = "stopped"])
      PROVE  WorkerSettles(s) /\ \A h \in Gens : run'[s][h].proc \notin {"up", "exited"}
  <2>1. run[s][g] \in Run /\ [run[s][g] EXCEPT !.proc = "stopped"] \in Run
    BY WorkerType DEF Run
  <2>2. /\ run' \in [Sessions -> [Gens -> Run]]
        /\ run'[s][g] = [run[s][g] EXCEPT !.proc = "stopped"]
        /\ \A h \in Gens \ {g} : run'[s][h] = run[s][h]
        /\ \A t \in Sessions \ {s} : run'[t] = run[t]
    BY <1>3, <2>1, SetsOne
  <2>3. \A h \in Gens : run'[s][h].proc \notin {"up", "exited"}
    BY <1>1, <2>1, <2>2 DEF Run
  <2>4. RunSettles(s)
    BY <2>1, <2>2 DEF RunSettles, Run
  <2> QED
    BY <1>1, <2>2, <2>3, <2>4, EntryBecomes DEF WorkerSettles, EntrySettles
<1> QED
  BY <1>1, <1>2, <1>3, EntryBecomes

LEMMA StoppedIsStatus == \A kind : Stopped(kind) \in Status \ {"NONE", "WAITING_FOR_INPUT"}
  BY DEF Stopped, Status, Terminal

LEMMA RetainedSettles ==
    ASSUME Types, NEW s \in Sessions, Good(s), Running(s), Retained(s, entry[s])
    PROVE  WorkerSettles(s) /\ UNCHANGED catalog /\ Becomes(s, "INTERRUPTED")
  BY EntryAt, KeptWorkerSettles DEF Retained

LEMMA TerminateKeeps ==
    ASSUME Types, NEW s \in Sessions, Good(s), launch[s] = "none",
           NEW kind \in {"FORCE_STOP", "CANCEL", "SHUTDOWN"},
           TerminateBegins(s, kind) \/ TerminateNow(s, kind)
    PROVE  Keeps(s)
<1>1. CASE TerminateBegins(s, kind)
  <2>1. UNCHANGED <<phase, used>> /\ launch' = [launch EXCEPT ![s] = "none"] /\ CommandSettles(s)
    BY <1>1, StaysAsItIs DEF TerminateBegins, CommandSettles
  <2>2. \E life \in {"none", "PAUSE", "STOP"} :
            Sets(s, entry[s].gen, [Worker(s) EXCEPT !.life = life])
    <3>1. Worker(s) \in Run
      BY <1>1, RunningIsLast, WorkerType DEF TerminateBegins, Good, Worker
    <3>2. Worker(s).life \in {"none", "PAUSE", "STOP"}
      BY <3>1 DEF Run
    <3> QED
      BY <1>1, <3>2 DEF TerminateBegins
  <2>3. entry' = [entry EXCEPT ![s] = [entry[s] EXCEPT !.stop = TRUE, !.pending = "STOP"]]
    BY <1>1 DEF TerminateBegins
  <2>4. WorkerSettles(s)
    BY <1>1, <2>2, <2>3, EntryAt, CommandedWorkerSettles DEF TerminateBegins
  <2>5. Becomes(s, status[s]) /\ status[s] \in Status /\ CapacitySettles(s)
    BY <1>1, StaysAsItIs DEF TerminateBegins, CapacitySettles
  <2> QED
    BY <2>1, <2>4, <2>5, EffectsKeep
<1>2. CASE TerminateNow(s, kind)
  <2>1. UNCHANGED <<phase, used>> /\ launch' = [launch EXCEPT ![s] = "none"] /\ CommandSettles(s)
    BY <1>2, StaysAsItIs DEF TerminateNow, CommandSettles
  <2>2. CASE ~Running(s) /\ Ended(s, kind) /\ UNCHANGED run
    BY <2>1, <2>2, MarkedWorkerSettles, StoppedIsStatus, EffectsKeep DEF Ended, CapacitySettles
  <2>3. CASE /\ Running(s) /\ Ended(s, kind)
             /\ Sets(s, entry[s].gen, [Worker(s) EXCEPT !.proc = "stopped"])
    BY <2>1, <2>3, EndedWorkerSettles, StoppedIsStatus, EffectsKeep DEF Ended, CapacitySettles
  <2>4. CASE Running(s) /\ Retained(s, entry[s])
    BY <2>1, <2>4, RetainedSettles, EffectsKeep DEF CapacitySettles, Status
  <2> QED
    BY <1>2, <2>2, <2>3, <2>4 DEF TerminateNow
<1> QED
  BY <1>1, <1>2

LEMMA TerminateEndsKeeps ==
    ASSUME Types, NEW s \in Sessions, Good(s), TerminateEnds(s)
    PROVE  Keeps(s)
<1>1. stopping[s] # "none" /\ launch[s] = "none" /\ used[s] \in Gens
  BY DEF TerminateEnds, LockFree, Good, EntryIsLast, Types
<1>2. UNCHANGED <<phase, used>> /\ launch' = [launch EXCEPT ![s] = "none"] /\ CommandSettles(s)
  BY <1>1, StaysAsItIs DEF TerminateEnds, CommandSettles, Good, QueuedIsKnown
<1>3. CASE /\ Ended(s, stopping[s])
           /\ Sets(s, used[s], [run[s][used[s]] EXCEPT !.proc = "stopped"])
  <2>1. /\ WorkerSettles(s)
        /\ \A g \in Gens : run'[s][g].proc \notin {"up", "exited"}
    <3>1. CASE Running(s)
      BY <1>3, <3>1, RunningIsLast, EndedWorkerSettles DEF Good, Ended, Worker
    <3>2. CASE ~Running(s)
      BY <1>1, <1>3, <3>2, MarkedWorkerSettles DEF Ended
    <3> QED
      BY <3>1, <3>2
  <2> QED
    BY <1>2, <1>3, <2>1, StoppedIsStatus, EffectsKeep DEF Ended, CapacitySettles
<1>4. CASE Running(s) /\ Retained(s, entry[s])
  BY <1>2, <1>4, RetainedSettles, EffectsKeep DEF CapacitySettles, Status
<1> QED
  BY <1>3, <1>4 DEF TerminateEnds

LEMMA StoppingKeeps ==
    ASSUME Types, NEW s \in Sessions, Good(s), Stopping(s)
    PROVE  Keeps(s)
  BY TerminateEndsKeeps, TerminateKeeps, PauseKeeps
     DEF Stopping, ShutdownPauses, ShutdownTerminates, UIFree, LockFree

-----------------------------------------------------------------------------
(* Launching.                                                              *)

LEMMA LaunchStartsKeeps ==
    ASSUME Types, NEW s \in Sessions, Good(s), LaunchStarts(s)
    PROVE  Keeps(s)
<1>. DEFINE g == used[s] + 1
<1>1. /\ s \in leased /\ s \in claimed /\ status[s] = "RUNNING"
      /\ queued[s].kind \notin {"start", "resume"} /\ used[s] < MaxGen
  BY DEF LaunchStarts, Good, LaunchIsBacked
<1>2. g \in Gens /\ g # 0 /\ g \notin 1 .. used[s]
  BY <1>1, MaxGenAssumption DEF Types, Gens
<1>3. Spawned \in Run /\ [NoEntry EXCEPT !.gen = g] \in Entry
  BY <1>2 DEF Spawned, NoRun, Run, NoEntry, Entry
<1>4. /\ run' \in [Sessions -> [Gens -> Run]]
      /\ run'[s][g] = Spawned
      /\ \A h \in Gens \ {g} : run'[s][h] = run[s][h]
      /\ \A t \in Sessions \ {s} : run'[t] = run[t]
  BY <1>2, <1>3, SetsOne DEF LaunchStarts
<1>5. /\ entry' \in [Sessions -> Entry] /\ entry'[s] = [NoEntry EXCEPT !.gen = g]
      /\ \A t \in Sessions \ {s} : entry'[t] = entry[t]
  BY <1>3, EntryBecomes DEF LaunchStarts
<1>6. /\ used' \in [Sessions -> Gens \cup {0}] /\ used'[s] = g
      /\ \A t \in Sessions \ {s} : used'[t] = used[t]
  BY <1>2 DEF LaunchStarts, Types
<1>7. UNCHANGED <<phase, status, leased, bound, claimed, queued, launch, stopping>>
  BY DEF LaunchStarts, catalog, capacity, ownership
<1>8. Types'
  BY <1>4, <1>5, <1>6, <1>7 DEF Types
<1>9. entry'[s].gen = g /\ entry'[s] # NoEntry
  BY <1>2, <1>5 DEF NoEntry
<1>10. /\ Spawned.proc = "up" /\ Spawned.duty = "working" /\ Spawned.input = 0
       /\ Spawned.sent = "none" /\ Spawned.reader = "off"
  BY DEF Spawned, NoRun
<1>11. EntryIsLast(s)' /\ LaunchIsBacked(s)'
  BY <1>1, <1>2, <1>6, <1>7, <1>9 DEF EntryIsLast, LaunchIsBacked, Running
<1>12. WorkerIsHeld(s)' /\ ReapedIsStopped(s)'
  BY <1>1, <1>4, <1>7, <1>9, <1>10, NoWorkerIsLive
     DEF LaunchStarts, Good, WorkerIsHeld, ReapedIsStopped, Live
<1>13. AskingWorkersWait(s)'
  <2>1. queued[s].kind = "input" => queued[s].gen # g
    BY <1>2 DEF Good, QueuedIsKnown
  <2> QED
    BY <1>2, <1>4, <1>7, <1>10, <2>1 DEF Good, AskingWorkersWait, AnswerQueued, AnswerSent
<1>14. WaitingIsForAnswer(s)'
  BY <1>1, <1>7 DEF WaitingIsForAnswer
<1>15. WorkIsClaimed(s)'
  BY <1>1, <1>7 DEF WorkIsClaimed
<1>16. QueuedIsKnown(s)'
  <2>1. queued[s].kind = "input" => queued[s].gen \in 1 .. g
    BY DEF Good, QueuedIsKnown, Types, Gens
  <2> QED
    BY <1>1, <1>6, <1>7, <2>1 DEF Good, QueuedIsKnown
<1> QED
  BY <1>4, <1>5, <1>6, <1>7, <1>8, <1>11, <1>12, <1>13, <1>14, <1>15, <1>16
     DEF Keeps, Good, Leaves, ClaimsFor

LEMMA LaunchingKeeps ==
    ASSUME Types, NEW s \in Sessions, Good(s), Launching(s)
    PROVE  Keeps(s)
<1>1. CASE LaunchStarts(s)
  BY <1>1, LaunchStartsKeeps
<1>2. ASSUME launch[s] # "none", UNCHANGED <<phase, queued, used, stopping>>
      PROVE  UNCHANGED <<phase, used>> /\ CommandSettles(s) /\ status[s] = "RUNNING"
  BY <1>2 DEF CommandSettles, Good, LaunchIsBacked
<1>3. {"FAILED", "INTERRUPTED", "RUNNING", "NONE"} \subseteq Status
  BY DEF Status, Terminal
<1>4. CASE LaunchRefused(s)
  BY <1>2, <1>3, <1>4, NoWorkerSettles, EffectsKeep DEF LaunchRefused, CapacitySettles
<1>5. CASE LaunchBinds(s)
  <2>1. entry[s].gen \in Gens /\ Worker(s) \in Run
    BY <1>5, RunningIsLast, WorkerType DEF LaunchBinds, Good, Worker
  <2>2. [Worker(s) EXCEPT !.reader = "reading"] \in Run
    BY <2>1 DEF Run
  <2>3. /\ run' \in [Sessions -> [Gens -> Run]]
        /\ run'[s][entry[s].gen] = [Worker(s) EXCEPT !.reader = "reading"]
        /\ \A h \in Gens \ {entry[s].gen} : run'[s][h] = run[s][h]
        /\ \A t \in Sessions \ {s} : run'[t] = run[t]
    BY <1>5, <2>1, <2>2, SetsOne DEF LaunchBinds
  <2>4. RunSettles(s)
    BY <2>1, <2>3 DEF RunSettles, Run, Worker
  <2>5. WorkerSettles(s)
    BY <1>5, <2>3, <2>4 DEF LaunchBinds, WorkerSettles, EntrySettles, Types
  <2>6. /\ launch' \in [Sessions -> {"none", "start", "resume"}] /\ launch'[s] = "none"
        /\ \A t \in Sessions \ {s} : launch'[t] = launch[t]
        /\ bound' \in [Sessions -> Gens \cup {0}]
    BY <1>5, <2>1 DEF LaunchBinds, Types
  <2>7. UNCHANGED <<phase, status, leased, claimed, queued, used, stopping>>
    BY <1>5 DEF LaunchBinds, capacity
  <2>8. Types'
    BY <2>5, <2>6, <2>7 DEF Types, WorkerSettles
  <2>9. Alone(s)
    BY <2>5, <2>6, <2>7 DEF Alone, Leaves, ClaimsFor, WorkerSettles
  <2>10. Settles(s)
    BY <1>5, <2>5, <2>6, <2>7 DEF LaunchBinds, Settles, WorkerSettles, HoldsForWorker,
       StatusSettles, QueueSettles, Good, LaunchIsBacked
  <2> QED
    BY <2>8, <2>9, <2>10, SettlesKeeps
<1>6. ASSUME NEW ok \in Confirmations(s), LaunchBreaks(s, ok)
      PROVE  Keeps(s)
  <2>. DEFINE e == [entry[s] EXCEPT !.stop = TRUE, !.rollback = launch[s]]
  <2>1. e \in Entry /\ e.gen = entry[s].gen
    <3>1. entry[s] \in Entry /\ launch[s] \in {"none", "start", "resume"}
      BY DEF Types
    <3> QED
      BY <3>1 DEF Entry
  <2>2. /\ WorkerSettles(s)
        /\ ok => entry'[s] = NoEntry /\ \A g \in Gens : run'[s][g].proc \notin {"up", "exited"}
    <3>1. Running(s) /\ ok \in BOOLEAN /\ TryStop(s, e, ok)
      BY <1>6, ConfirmationsAreBooleans DEF LaunchBreaks
    <3> QED
      BY <2>1, <3>1, StoppedWorkerSettles
  <2>3. CASE ok /\ FinalizeFailedLaunch(s, launch[s])
    BY <1>2, <1>3, <1>6, <2>2, <2>3, EffectsKeep
       DEF LaunchBreaks, FinalizeFailedLaunch, CapacitySettles
  <2>4. CASE ~ok /\ Becomes(s, "INTERRUPTED") /\ UNCHANGED catalog
    BY <1>2, <1>3, <1>6, <2>2, <2>4, EffectsKeep DEF LaunchBreaks, CapacitySettles
  <2> QED
    BY <1>6, <2>3, <2>4 DEF LaunchBreaks
<1> QED
  BY <1>1, <1>4, <1>5, <1>6 DEF Launching

-----------------------------------------------------------------------------
(* Starting, resuming and answering: the intents that ask for capacity.    *)

LEMMA ScheduleKeeps ==
    ASSUME Types, NEW s \in Sessions, Good(s), NEW kind \in {"start", "resume"},
           UIFree, used[s] < MaxGen, ~Running(s), leased' = leased \cup {s},
           status[s] \notin {"QUEUED", "WAITING_FOR_INPUT"}, Schedule(s, kind),
           UNCHANGED <<phase, bound, entry, run, used, stopping>>
    PROVE  Keeps(s)
<1>1. /\ launch[s] = "none" /\ stopping[s] = "none"
      /\ queued[s].kind \notin {"start", "resume"}
  BY DEF UIFree, LockFree, Good, QueuedIsKnown
<1>2. {"RUNNING", "QUEUED"} \subseteq Status
  BY DEF Status
<1>3. CASE /\ Grantable(s) /\ Grant(s) /\ Becomes(s, "RUNNING")
           /\ launch' = [launch EXCEPT ![s] = kind] /\ UNCHANGED queued
  <2>1. /\ status' \in [Sessions -> Status] /\ status'[s] = "RUNNING"
        /\ \A t \in Sessions \ {s} : status'[t] = status[t]
    BY <1>2, <1>3, BecomesAt
  <2>2. /\ launch' \in [Sessions -> {"none", "start", "resume"}] /\ launch'[s] = kind
        /\ \A t \in Sessions \ {s} : launch'[t] = launch[t]
    BY <1>3 DEF Types
  <2>3. claimed' = claimed \cup {s} /\ ClaimsFor(s)
    BY <1>3 DEF Grant, Grantable, ClaimsFor
  <2>4. Types' /\ Alone(s)
    BY <1>3, <2>1, <2>2, <2>3 DEF Types, Alone, Leaves
  <2>5. Good(s)'
    BY <1>1, <1>3, <2>1, <2>2, <2>3 DEF Good, EntryIsLast, LaunchIsBacked, WorkerIsHeld,
       ReapedIsStopped, AskingWorkersWait, WaitingIsForAnswer, WorkIsClaimed, QueuedIsKnown,
       AnswerQueued, AnswerSent, Running, Live
  <2> QED
    BY <2>4, <2>5 DEF Keeps, Alone
<1>4. CASE /\ JoinLine(s) /\ Becomes(s, "QUEUED") /\ UNCHANGED launch
           /\ queued' = [queued EXCEPT ![s] = [kind |-> kind, gen |-> 0]]
  <2>1. /\ status' \in [Sessions -> Status] /\ status'[s] = "QUEUED"
        /\ \A t \in Sessions \ {s} : status'[t] = status[t]
    BY <1>2, <1>4, BecomesAt
  <2>2. /\ queued' \in [Sessions -> [kind : {"none", "start", "resume", "input"},
                                     gen : Gens \cup {0}]]
        /\ queued'[s].kind = kind
        /\ \A t \in Sessions \ {s} : queued'[t] = queued[t]
    BY <1>4 DEF Types
  <2>3. claimed' = claimed
    BY <1>4 DEF JoinLine
  <2>4. Types' /\ Alone(s)
    BY <1>4, <2>1, <2>2, <2>3 DEF Types, Alone, Leaves, ClaimsFor
  <2>5. Good(s)'
    BY <1>1, <1>4, <2>1, <2>2, <2>3 DEF Good, EntryIsLast, LaunchIsBacked, WorkerIsHeld,
       ReapedIsStopped, AskingWorkersWait, WaitingIsForAnswer, WorkIsClaimed, QueuedIsKnown,
       AnswerQueued, AnswerSent, Running, Live
  <2> QED
    BY <2>4, <2>5 DEF Keeps, Alone
<1> QED
  BY <1>3, <1>4 DEF Schedule

LEMMA ProvideInputKeeps ==
    ASSUME Types, NEW s \in Sessions, Good(s), ProvideInput(s)
    PROVE  Keeps(s)
<1>. DEFINE g == entry[s].gen
<1>1. g = used[s] /\ g \in Gens /\ launch[s] = "none" /\ stopping[s] = "none"
  BY RunningIsLast DEF ProvideInput, UIFree, LockFree, Good
<1>2. /\ run[s][g].duty # "working" /\ run[s][g].sent # "INPUT_REQUEST"
      /\ ~AnswerSent(s, g)
  BY DEF ProvideInput, Good, WaitingIsForAnswer
<1>3. "QUEUED" \in Status
  BY DEF Status
<1>4. /\ status' \in [Sessions -> Status] /\ status'[s] = "QUEUED"
      /\ \A t \in Sessions \ {s} : status'[t] = status[t]
  BY <1>3, BecomesAt DEF ProvideInput
<1>5. /\ queued' \in [Sessions -> [kind : {"none", "start", "resume", "input"},
                                   gen : Gens \cup {0}]]
      /\ queued'[s].kind = "input" /\ queued'[s].gen = g
      /\ \A t \in Sessions \ {s} : queued'[t] = queued[t]
  BY <1>1 DEF ProvideInput, Types
<1>6. UNCHANGED <<phase, leased, bound, claimed, entry, run, used, launch, stopping>>
  BY DEF ProvideInput, JoinLine, ownership
<1>7. Types' /\ Alone(s)
  BY <1>4, <1>5, <1>6 DEF Types, Alone, Leaves, ClaimsFor
<1>8. AskingWorkersWait(s)'
  BY <1>2, <1>5, <1>6 DEF Good, AskingWorkersWait, AnswerQueued, AnswerSent
<1>9. QueuedIsKnown(s)'
  BY <1>1, <1>5, <1>6 DEF QueuedIsKnown, Types, Gens
<1>10. Good(s)'
  BY <1>1, <1>4, <1>6, <1>8, <1>9 DEF Good, EntryIsLast, LaunchIsBacked, WorkerIsHeld,
     ReapedIsStopped, WaitingIsForAnswer, WorkIsClaimed, AnswerSent, Running, Live
<1> QED
  BY <1>7, <1>10 DEF Keeps, Alone

LEMMA IntentsKeep ==
    ASSUME Types, NEW s \in Sessions, Good(s), Intents(s)
    PROVE  Keeps(s)
<1>1. CASE StartSession(s)
  BY <1>1, ScheduleKeeps DEF StartSession, Good, EntryIsLast
<1>2. CASE ResumeSession(s)
  BY <1>2, ScheduleKeeps DEF ResumeSession
<1>3. CASE UserPauses(s)
  BY <1>3, PauseKeeps DEF UserPauses, UIFree, LockFree
<1>4. CASE ProvideInput(s)
  BY <1>4, ProvideInputKeeps
<1>5. CASE \E kind \in {"FORCE_STOP", "CANCEL"} : UserStops(s, kind)
  BY <1>5, TerminateKeeps DEF UserStops, UIFree, LockFree
<1> QED
  BY <1>1, <1>2, <1>3, <1>4, <1>5 DEF Intents

-----------------------------------------------------------------------------
(* The capacity scheduler and the cleanup reaper.                          *)

LEMMA SchedulerLaunchesKeeps ==
    ASSUME Types, NEW s \in Sessions, Good(s), SchedulerLaunches(s)
    PROVE  Keeps(s)
<1>1. /\ launch[s] = "none" /\ queued[s].kind \in {"none", "start", "resume"}
      /\ s \in leased /\ used[s] < MaxGen
  BY DEF SchedulerLaunches, Polls, LockFree, MayAsk, Types
<1>2. "RUNNING" \in Status
  BY DEF Status
<1>3. /\ status' \in [Sessions -> Status] /\ status'[s] = "RUNNING"
      /\ \A t \in Sessions \ {s} : status'[t] = status[t]
  BY <1>2, BecomesAt DEF SchedulerLaunches
<1>4. /\ queued' \in [Sessions -> [kind : {"none", "start", "resume", "input"},
                                   gen : Gens \cup {0}]]
      /\ queued'[s] = Idle /\ Idle.kind = "none"
      /\ \A t \in Sessions \ {s} : queued'[t] = queued[t]
  BY DequeueAt DEF SchedulerLaunches
<1>5. /\ launch' \in [Sessions -> {"none", "start", "resume"}]
      /\ \A t \in Sessions \ {s} : launch'[t] = launch[t]
  BY <1>1 DEF SchedulerLaunches, Types
<1>6. claimed' = claimed \cup {s} /\ ClaimsFor(s)
  BY DEF SchedulerLaunches, Grant, Grantable, ClaimsFor
<1>7. UNCHANGED <<phase, leased, bound, entry, run, used, stopping>>
  BY DEF SchedulerLaunches, ownership
<1>8. Types' /\ Alone(s)
  BY <1>3, <1>4, <1>5, <1>6, <1>7 DEF Types, Alone, Leaves
<1>9. Good(s)'
  BY <1>1, <1>3, <1>4, <1>6, <1>7 DEF Good, EntryIsLast, LaunchIsBacked, WorkerIsHeld,
     ReapedIsStopped, AskingWorkersWait, WaitingIsForAnswer, WorkIsClaimed, QueuedIsKnown,
     AnswerQueued, AnswerSent, Running, Live
<1> QED
  BY <1>8, <1>9 DEF Keeps, Alone

(* The answer is written to the worker, which may work again once it has   *)
(* the slot.                                                               *)
LEMMA AnswerKeeps ==
    ASSUME Types, NEW s \in Sessions, Good(s), launch[s] = "none", Running(s),
           queued[s].kind = "input", Dequeue(s), Becomes(s, "RUNNING"),
           Grantable(s), Grant(s),
           Sets(s, entry[s].gen, [Worker(s) EXCEPT !.input = queued[s].gen]),
           UNCHANGED <<phase, ownership, entry, used, launch, stopping>>
    PROVE  Keeps(s)
<1>. DEFINE g == entry[s].gen
            w == [Worker(s) EXCEPT !.input = queued[s].gen]
<1>1. g \in Gens /\ Worker(s) \in Run /\ queued[s].gen \in Gens \cup {0}
  BY RunningIsLast, WorkerType DEF Good, Worker, Types
<1>2. /\ w \in Run /\ w.input = queued[s].gen /\ w.sent = run[s][g].sent
      /\ w.duty = run[s][g].duty /\ w.proc = run[s][g].proc /\ w.reader = run[s][g].reader
  BY <1>1 DEF Run, Worker
<1>3. /\ run' \in [Sessions -> [Gens -> Run]]
      /\ run'[s][g] = w
      /\ \A h \in Gens \ {g} : run'[s][h] = run[s][h]
      /\ \A t \in Sessions \ {s} : run'[t] = run[t]
  BY <1>1, <1>2, SetsOne
<1>. HIDE DEF w
<1>4. "RUNNING" \in Status
  BY DEF Status
<1>5. /\ status' \in [Sessions -> Status] /\ status'[s] = "RUNNING"
      /\ \A t \in Sessions \ {s} : status'[t] = status[t]
  BY <1>4, BecomesAt
<1>6. /\ queued' \in [Sessions -> [kind : {"none", "start", "resume", "input"},
                                   gen : Gens \cup {0}]]
      /\ queued'[s] = Idle /\ Idle.kind = "none"
      /\ \A t \in Sessions \ {s} : queued'[t] = queued[t]
  BY DequeueAt
<1>7. claimed' = claimed \cup {s} /\ ClaimsFor(s) /\ UNCHANGED <<leased, bound>>
  BY DEF Grant, Grantable, ClaimsFor, ownership
<1>8. Types' /\ Alone(s)
  BY <1>3, <1>5, <1>6, <1>7 DEF Types, Alone, Leaves
<1>9. AskingWorkersWait(s)'
  BY <1>2, <1>3, <1>6 DEF Good, AskingWorkersWait, AnswerQueued, AnswerSent
<1>10. WorkerIsHeld(s)' /\ ReapedIsStopped(s)' /\ WorkIsClaimed(s)'
  BY <1>2, <1>3, <1>7 DEF Good, WorkerIsHeld, ReapedIsStopped, WorkIsClaimed, Live
<1>11. Good(s)'
  BY <1>5, <1>6, <1>9, <1>10 DEF Good, EntryIsLast, LaunchIsBacked, WaitingIsForAnswer,
     QueuedIsKnown, Running
<1> QED
  BY <1>8, <1>11 DEF Keeps, Alone

LEMMA SchedulerKeeps ==
    ASSUME Types, NEW s \in Sessions, Good(s), Scheduler(s)
    PROVE  Keeps(s)
<1>1. {"FAILED", "INTERRUPTED", "NONE"} \subseteq Status
  BY DEF Status, Terminal
<1>2. CASE SchedulerRefused(s)
  <2>1. /\ UNCHANGED <<phase, used>> /\ launch' = [launch EXCEPT ![s] = "none"]
        /\ CommandSettles(s) /\ Becomes(s, "FAILED") /\ UNCHANGED <<ownership, entry, run>>
    BY <1>2, StaysAsItIs DEF SchedulerRefused, Polls, LockFree, CommandSettles
  <2>2. CASE Running(s)
    <3>1. WorkerSettles(s)
      BY <2>1, <2>2 DEF WorkerSettles, RunSettles, EntrySettles, Types
    <3> QED
      BY <1>1, <1>2, <2>1, <2>2, <3>1, EffectsKeep DEF SchedulerRefused, CapacitySettles, catalog
  <2>3. CASE ~Running(s)
    BY <1>1, <1>2, <2>1, <2>3, NoWorkerSettles, EffectsKeep DEF SchedulerRefused, CapacitySettles
  <2> QED
    BY <2>2, <2>3
<1>3. CASE SchedulerWaits(s)
  <2>1. UNCHANGED <<phase, status, claimed, leased, bound, queued, entry, run, used, launch, stopping>>
    BY <1>3 DEF SchedulerWaits, JoinLine, ownership
  <2>2. \A t \in Sessions : Leaves(t)
    BY <2>1 DEF Leaves
  <2> QED
    BY <2>1, <2>2, LeftSessionStaysGood DEF Keeps, Types, ClaimsFor
<1>4. CASE SchedulerLaunches(s)
  BY <1>4, SchedulerLaunchesKeeps
<1>5. CASE SchedulerAnswers(s)
  <2>1. /\ UNCHANGED <<phase, used>> /\ launch' = [launch EXCEPT ![s] = "none"]
        /\ CommandSettles(s) /\ UNCHANGED ownership /\ launch[s] = "none"
    BY <1>5, StaysAsItIs DEF SchedulerAnswers, Polls, LockFree, CommandSettles
  <2>2. CASE ~Running(s) /\ Becomes(s, "FAILED") /\ ReleaseCapacity(s) /\ UNCHANGED <<entry, run>>
    BY <1>1, <2>1, <2>2, NoWorkerSettles, EffectsKeep DEF CapacitySettles
  <2>3. CASE /\ Running(s) /\ Becomes(s, "RUNNING") /\ Grant(s) /\ UNCHANGED entry
             /\ Sets(s, entry[s].gen, [Worker(s) EXCEPT !.input = queued[s].gen])
    BY <1>5, <2>1, <2>3, AnswerKeeps DEF SchedulerAnswers
  <2>4. CASE /\ Running(s) /\ Grant(s)
             /\ \E ok \in Confirmations(s) : FailSession(s, entry[s], status[s], ok)
    <3>1. WorkerSettles(s) /\ \E was \in {"INTERRUPTED", "FAILED"} : Becomes(s, was)
      BY <2>4, EntryAt, ConfirmationsAreBooleans, FailSessionSettles
    <3> QED
      BY <1>1, <1>5, <2>1, <2>4, <3>1, EffectsKeep DEF SchedulerAnswers, CapacitySettles
  <2> QED
    BY <1>5, <2>2, <2>3, <2>4 DEF SchedulerAnswers
<1>6. CASE RetryWorkerCleanup(s)
  <2>1. NoEntry.tried = FALSE /\ launch[s] = "none"
    BY <1>6 DEF NoEntry, RetryWorkerCleanup, LockFree
  <2>2. Running(s)
    BY <1>6, <2>1 DEF RetryWorkerCleanup, Running
  <2>3. /\ UNCHANGED <<phase, used>> /\ launch' = [launch EXCEPT ![s] = "none"]
        /\ CommandSettles(s)
    BY <1>6, <2>1, <2>2, StaysAsItIs DEF RetryWorkerCleanup, CommandSettles, Good, QueuedIsKnown
  <2>4. /\ WorkerSettles(s) /\ entry'[s] = NoEntry
        /\ \A g \in Gens : run'[s][g].proc \notin {"up", "exited"}
    BY <1>6, <2>2, EntryAt, StoppedWorkerSettles DEF RetryWorkerCleanup
  <2>5. CapacitySettles(s)
    BY <1>6, <2>4 DEF RetryWorkerCleanup, FinalizeFailedLaunch, CapacitySettles
  <2>6. \E st \in Status : Becomes(s, st)
    BY <1>1, <1>6, StaysAsItIs DEF RetryWorkerCleanup, FinalizeFailedLaunch
  <2> QED
    BY <2>3, <2>4, <2>5, <2>6, EffectsKeep
<1> QED
  BY <1>2, <1>3, <1>4, <1>5, <1>6 DEF Scheduler

-----------------------------------------------------------------------------
(* What a reader applies to its session.                                   *)

(* Generation g changes as a frame or a stop changes it.                   *)
RunPasses(s, g, w) ==
    /\ w \in Run
    /\ w.duty = run[s][g].duty /\ w.input = run[s][g].input
    /\ w.sent \in {run[s][g].sent, "none"}
    /\ w.proc \in {run[s][g].proc, "stopped"} /\ w.reader # "reaped"

LEMMA RunPassesSettles ==
    ASSUME Types, NEW s \in Sessions, NEW g \in Gens, NEW w, RunPasses(s, g, w), Sets(s, g, w)
    PROVE  /\ run' \in [Sessions -> [Gens -> Run]] /\ RunSettles(s)
           /\ \A t \in Sessions \ {s} : run'[t] = run[t]
           /\ run'[s][g] = w /\ \A h \in Gens \ {g} : run'[s][h] = run[s][h]
<1>1. /\ run' \in [Sessions -> [Gens -> Run]]
      /\ run'[s][g] = w
      /\ \A h \in Gens \ {g} : run'[s][h] = run[s][h]
      /\ \A t \in Sessions \ {s} : run'[t] = run[t]
  BY SetsOne DEF RunPasses
<1>2. RunSettles(s)
  BY <1>1 DEF RunSettles, RunPasses
<1> QED
  BY <1>1, <1>2

(* A reader applies what it read while the worker stays known.             *)
LEMMA AppliedKeeps ==
    ASSUME Types, NEW s \in Sessions, Good(s), NEW g \in Gens,
           launch[s] = "none", Running(s),
           NEW w, RunPasses(s, g, w), Sets(s, g, w),
           NEW e \in Entry, e.gen = entry[s].gen, entry' = [entry EXCEPT ![s] = e],
           NEW st \in Status, Becomes(s, st),
           st \in {"NONE", "WAITING_FOR_INPUT"} => st = status[s],
           UNCHANGED capacity, ReaderFrame
    PROVE  Keeps(s)
<1>1. WorkerSettles(s)
  BY RunPassesSettles, EntryBecomes DEF WorkerSettles, EntrySettles
<1>2. /\ UNCHANGED <<phase, used>> /\ launch' = [launch EXCEPT ![s] = "none"]
      /\ CommandSettles(s) /\ CapacitySettles(s)
  BY StaysAsItIs DEF ReaderFrame, CommandSettles, CapacitySettles, catalog, Good, QueuedIsKnown
<1> QED
  BY <1>1, <1>2, EffectsKeep

LEMMA EntryStays ==
    ASSUME Types, NEW s \in Sessions, UNCHANGED entry
    PROVE  entry' = [entry EXCEPT ![s] = entry[s]]
  BY DEF Types

LEMMA HeardPasses ==
    ASSUME Types, NEW s \in Sessions, NEW g \in Gens,
           NEW reader \in {"reading", "closing", "failing"}
    PROVE  RunPasses(s, g, Heard(s, g, reader))
  BY HeardIs DEF RunPasses

LEMMA FramesKeep ==
    ASSUME Types, NEW s \in Sessions, Good(s), NEW g \in Gens,
           FrameCheckpoint(s, g) \/ FrameCheckpointFailure(s, g) \/ FrameTerminal(s, g)
    PROVE  Keeps(s)
<1>1. launch[s] = "none" /\ Running(s) /\ ReaderFrame
  BY DEF FrameCheckpoint, FrameCheckpointFailure, FrameTerminal, Applies, Reads, LockFree, Mine
<1>2. RunPasses(s, g, Heard(s, g, "closing")) /\ Sets(s, g, Heard(s, g, "closing"))
  BY HeardPasses DEF FrameCheckpoint, FrameCheckpointFailure, FrameTerminal
<1>3. CASE FrameCheckpoint(s, g)
  <2>1. entry' = [entry EXCEPT ![s] = [entry[s] EXCEPT !.checkpoint = TRUE]]
    BY <1>3 DEF FrameCheckpoint
  <2>2. Becomes(s, status[s]) /\ status[s] \in Status /\ UNCHANGED capacity
    BY <1>3, StaysAsItIs DEF FrameCheckpoint
  <2> QED
    BY <1>1, <1>2, <2>1, <2>2, EntryAt, AppliedKeeps
<1>4. CASE FrameCheckpointFailure(s, g)
  <2>1. entry' = [entry EXCEPT ![s] = entry[s]] /\ UNCHANGED capacity
    BY <1>4, EntryStays DEF FrameCheckpointFailure
  <2>2. Becomes(s, "INTERRUPTED") /\ "INTERRUPTED" \in Status
    BY <1>4 DEF FrameCheckpointFailure, Status
  <2> QED
    BY <1>1, <1>2, <2>1, <2>2, EntryAt, AppliedKeeps
<1>5. CASE FrameTerminal(s, g)
  <2>1. entry' = [entry EXCEPT ![s] = [entry[s] EXCEPT !.stop = TRUE]] /\ UNCHANGED capacity
    BY <1>5 DEF FrameTerminal
  <2>2. PICK st \in Results(run[s][g].sent) : Becomes(s, st)
    BY <1>5 DEF FrameTerminal
  <2>3. st \in {"COMPLETED", "FAILED", "READY"}
    <3>1. run[s][g].sent \in {"none", "INPUT_REQUEST", "CHECKPOINT", "CHECKPOINT_FAILURE",
                              "COMPLETION", "FAILURE"}
      BY WorkerType DEF Run
    <3> QED
      BY <2>2, <3>1 DEF Results
  <2>4. st \in Status \ {"NONE", "WAITING_FOR_INPUT"}
    BY <2>3 DEF Status, Terminal
  <2> QED
    BY <1>1, <1>2, <2>1, <2>2, <2>4, EntryAt, AppliedKeeps
<1> QED
  BY <1>3, <1>4, <1>5

(* The slot of a worker that asked goes back while the worker lives on.    *)
LEMMA InputRequestKeeps ==
    ASSUME Types, NEW s \in Sessions, Good(s), NEW g \in Gens, FrameInputRequest(s, g)
    PROVE  Keeps(s)
<1>. DEFINE w == Heard(s, g, "reading")
<1>1. /\ launch[s] = "none" /\ Running(s) /\ entry[s].gen = g
      /\ run[s][g].sent = "INPUT_REQUEST" /\ queued[s].kind \notin {"start", "resume"}
  BY DEF FrameInputRequest, Applies, Reads, LockFree, Mine, Good, QueuedIsKnown
<1>2. /\ run[s][g].duty # "working" /\ ~AnswerQueued(s, g) /\ ~AnswerSent(s, g)
  BY <1>1 DEF Good, AskingWorkersWait
<1>3. /\ w \in Run /\ w.sent = "none" /\ w.duty = run[s][g].duty /\ w.proc = run[s][g].proc
      /\ w.input = run[s][g].input /\ w.reader # "reaped"
  BY HeardIs
<1>. HIDE DEF w
<1>4. /\ run' \in [Sessions -> [Gens -> Run]]
      /\ run'[s][g] = w
      /\ \A h \in Gens \ {g} : run'[s][h] = run[s][h]
      /\ \A t \in Sessions \ {s} : run'[t] = run[t]
  BY <1>3, SetsOne DEF FrameInputRequest, w
<1>5. "WAITING_FOR_INPUT" \in Status
  BY DEF Status
<1>6. /\ status' \in [Sessions -> Status] /\ status'[s] = "WAITING_FOR_INPUT"
      /\ \A t \in Sessions \ {s} : status'[t] = status[t]
  BY <1>5, BecomesAt DEF FrameInputRequest
<1>7. /\ claimed' \subseteq claimed /\ ClaimsFor(s)
      /\ \A t \in Sessions \ {s} : t \in claimed' <=> t \in claimed
  BY ReleasesAt DEF FrameInputRequest, ClaimsFor
<1>8. UNCHANGED <<phase, leased, bound, queued, entry, used, launch, stopping>>
  BY DEF FrameInputRequest, ReaderFrame, ownership
<1>9. Types' /\ Alone(s)
  BY <1>4, <1>6, <1>7, <1>8 DEF Types, Alone, Leaves
<1>10. WorkIsClaimed(s)'
  BY <1>1, <1>2, <1>3, <1>4 DEF Good, WorkerIsHeld, WorkIsClaimed, AnswerSent, Live
<1>11. WaitingIsForAnswer(s)'
  BY <1>1, <1>2, <1>3, <1>4, <1>8 DEF WaitingIsForAnswer, AnswerSent, AnswerQueued
<1>12. AskingWorkersWait(s)'
  BY <1>3, <1>4, <1>8 DEF Good, AskingWorkersWait, AnswerSent, AnswerQueued
<1>13. WorkerIsHeld(s)' /\ ReapedIsStopped(s)'
  BY <1>3, <1>4, <1>8 DEF Good, WorkerIsHeld, ReapedIsStopped, Live
<1>14. Good(s)'
  BY <1>1, <1>6, <1>8, <1>10, <1>11, <1>12, <1>13
     DEF Good, EntryIsLast, LaunchIsBacked, QueuedIsKnown, Running
<1> QED
  BY <1>9, <1>14 DEF Keeps, Alone

LEMMA ReaderQuitsKeeps ==
    ASSUME Types, NEW s \in Sessions, Good(s), NEW g \in Gens, NEW ok \in BOOLEAN,
           NEW st \in {"INTERRUPTED", "FAILED"}, ReaderQuits(s, g, st, ok)
    PROVE  Keeps(s)
<1>1. launch[s] = "none" /\ ReaderFrame /\ UNCHANGED capacity
  BY DEF ReaderQuits, LockFree
<1>2. run[s][g] \in Run
  BY WorkerType
<1>3. CASE Mine(s, g) /\ status[s] \notin Terminal
  <2>. DEFINE w == Reaped(s, g, "closing", ok)
  <2>1. RunPasses(s, g, w) /\ Sets(s, g, w) /\ Becomes(s, st) /\ st \in Status
    <3>1. RunPasses(s, g, w)
      BY ReaperIs DEF RunPasses
    <3> QED
      BY <1>3, <3>1 DEF ReaderQuits, Status, Terminal, Reaped
  <2>2. CASE ~ok
    <3>1. entry' = [entry EXCEPT ![s] = [entry[s] EXCEPT !.tried = TRUE]]
      BY <1>3, <2>2 DEF ReaderQuits
    <3> QED
      BY <1>1, <1>3, <2>1, <3>1, EntryAt, AppliedKeeps DEF Mine
  <2>3. CASE ok
    <3>1. w.proc = "stopped"
      BY <1>2, <2>3 DEF Reaped, Run
    <3>. HIDE DEF w
    <3>2. /\ run' \in [Sessions -> [Gens -> Run]] /\ RunSettles(s)
          /\ \A t \in Sessions \ {s} : run'[t] = run[t]
          /\ run'[s][g] = w /\ \A h \in Gens \ {g} : run'[s][h] = run[s][h]
      BY <2>1, RunPassesSettles
    <3>3. \A h \in Gens : run'[s][h].proc \notin {"up", "exited"}
      BY <1>3, <3>1, <3>2 DEF Good, WorkerIsHeld, Live, Mine
    <3>4. entry' = [entry EXCEPT ![s] = NoEntry] /\ NoEntry \in Entry
      BY <1>3, <2>3 DEF ReaderQuits, NoEntry, Entry
    <3>5. WorkerSettles(s)
      BY <3>2, <3>3, <3>4, EntryBecomes DEF WorkerSettles, EntrySettles
    <3>6. /\ UNCHANGED <<phase, used>> /\ launch' = [launch EXCEPT ![s] = "none"]
          /\ CommandSettles(s) /\ CapacitySettles(s)
      BY <1>1, <1>3, StaysAsItIs
         DEF ReaderFrame, CommandSettles, CapacitySettles, catalog, Good, QueuedIsKnown, Mine
    <3> QED
      BY <2>1, <3>5, <3>6, EffectsKeep
  <2> QED
    BY <2>2, <2>3
<1>4. CASE ~(Mine(s, g) /\ status[s] \notin Terminal)
  <2>1. WorkerMoves(s, g, [run[s][g] EXCEPT !.reader = "closing"])
    BY <1>2 DEF WorkerMoves, Run
  <2>2. Sets(s, g, [run[s][g] EXCEPT !.reader = "closing"]) /\ WorkerOnly
    BY <1>1, <1>4, ReaderOnly DEF ReaderQuits
  <2> QED
    BY <2>1, <2>2, WorkerKeeps
<1> QED
  BY <1>3, <1>4

LEMMA ReaderSettlesKeeps ==
    ASSUME Types, NEW s \in Sessions, Good(s), NEW g \in Gens, ReaderSettles(s, g)
    PROVE  Keeps(s)
<1>. DEFINE reaped == run[s][g].reader = "reaped"
            paused == Mine(s, g) /\ entry[s].checkpoint
            over == /\ Mine(s, g) /\ ~paused
                    /\ entry[s].stop \/ status[s] \in Terminal \cup {"INTERRUPTED"}
            left == ~Running(s) \/ (reaped /\ (paused \/ over))
            outcome == IF ~paused THEN status[s] ELSE IF reaped THEN "PAUSED" ELSE "INTERRUPTED"
            w == [run[s][g] EXCEPT !.reader = "done"]
<1>1. /\ launch[s] = "none" /\ UNCHANGED <<phase, queued, used, stopping>>
      /\ launch' = [launch EXCEPT ![s] = "none"]
  BY StaysAsItIs DEF ReaderSettles, LockFree
<1>2. /\ outcome \in Status /\ Becomes(s, outcome)
      /\ outcome \in {"NONE", "WAITING_FOR_INPUT"} => outcome = status[s]
  BY DEF ReaderSettles, Types, Status, Terminal
<1>3. RunPasses(s, g, w) /\ Sets(s, g, w)
  <2>1. run[s][g] \in Run
    BY WorkerType
  <2> QED
    BY <2>1 DEF ReaderSettles, RunPasses, Run
<1>4. w.proc = run[s][g].proc
  BY WorkerType DEF Run
<1>. HIDE DEF w
<1>5. /\ run' \in [Sessions -> [Gens -> Run]] /\ RunSettles(s)
      /\ \A t \in Sessions \ {s} : run'[t] = run[t]
      /\ run'[s][g] = w /\ \A h \in Gens \ {g} : run'[s][h] = run[s][h]
  BY <1>3, RunPassesSettles
<1>6. CASE left
  <2>1. \A h \in Gens : run'[s][h].proc \notin {"up", "exited"}
    <3>1. CASE ~Running(s)
      BY <1>4, <1>5, <3>1, NoWorkerIsLive
    <3>2. CASE reaped /\ Mine(s, g)
      BY <1>4, <1>5, <3>2 DEF Good, WorkerIsHeld, ReapedIsStopped, Live, Mine
    <3> QED
      BY <1>6, <3>1, <3>2
  <2>2. entry' = [entry EXCEPT ![s] = NoEntry] /\ NoEntry \in Entry
    BY <1>6 DEF ReaderSettles, NoEntry, Entry
  <2>3. WorkerSettles(s) /\ entry'[s] = NoEntry
    BY <1>5, <2>1, <2>2, EntryBecomes DEF WorkerSettles, EntrySettles
  <2>4. CapacitySettles(s)
    BY <2>1 DEF ReaderSettles, CapacitySettles
  <2>5. CommandSettles(s)
    <3>1. CASE queued[s].kind \notin {"start", "resume"}
      BY <1>1, <3>1 DEF CommandSettles
    <3>2. CASE queued[s].kind \in {"start", "resume"}
      <4>1. ~Running(s) /\ status[s] = "QUEUED"
        BY <3>2 DEF Good, QueuedIsKnown
      <4>2. ~paused /\ outcome = "QUEUED"
        BY <4>1 DEF Mine
      <4>3. UNCHANGED catalog
        BY <4>2 DEF ReaderSettles, Releasable, Executing
      <4>4. UNCHANGED status
        BY <1>2, <4>1, <4>2 DEF Becomes, Types
      <4> QED
        BY <1>1, <2>3, <4>3, <4>4 DEF CommandSettles, catalog
    <3> QED
      BY <3>1, <3>2
  <2> QED
    BY <1>1, <1>2, <2>3, <2>4, <2>5, EffectsKeep
<1>7. CASE ~left
  <2>1. Running(s) /\ queued[s].kind \notin {"start", "resume"}
    BY <1>7 DEF Good, QueuedIsKnown
  <2>2. \E e \in Entry : e.gen = entry[s].gen /\ entry' = [entry EXCEPT ![s] = e]
    BY <1>7, EntryAt DEF ReaderSettles
  <2>3. WorkerSettles(s)
    BY <1>5, <2>1, <2>2, EntryBecomes DEF WorkerSettles, EntrySettles
  <2>4. CapacitySettles(s) /\ CommandSettles(s)
    BY <1>1, <1>7, <2>1 DEF ReaderSettles, Releasable, CapacitySettles, CommandSettles
  <2> QED
    BY <1>1, <1>2, <2>3, <2>4, EffectsKeep
<1> QED
  BY <1>6, <1>7

LEMMA ReaderStepKeeps ==
    ASSUME Types, NEW s \in Sessions, Good(s), NEW g \in Gens, ReaderStep(s, g)
    PROVE  Keeps(s)
<1>1. CASE InterruptSession(s, g)
  BY <1>1, ConfirmationsAreBooleans, ReaderQuitsKeeps DEF InterruptSession
<1>2. CASE FailWorker(s, g)
  BY <1>2, ConfirmationsAreBooleans, ReaderQuitsKeeps DEF FailWorker
<1> QED
  BY <1>1, <1>2, ReaderPassesKeeps, FramesKeep, InputRequestKeeps, ReaderSettlesKeeps
     DEF ReaderStep

-----------------------------------------------------------------------------
(* The invariant and what follows from it.                                 *)

LEMMA InitHolds == Init => IInv
<1>. SUFFICES ASSUME Init
              PROVE  IInv
  OBVIOUS
<1>1. NoEntry \in Entry /\ NoRun \in Run /\ NoEntry.gen = 0
      /\ Idle \in [kind : {"none", "start", "resume", "input"}, gen : Gens \cup {0}]
  BY DEF NoEntry, Entry, NoRun, Run, Idle
<1>2. Types
  BY <1>1 DEF Init, Types, Status
<1>3. Cardinality(claimed) <= Slots
  BY FS_EmptySet, SlotsAssumption DEF Init
<1>4. /\ NoRun.proc = "none" /\ NoRun.sent = "none" /\ NoRun.input = 0
      /\ NoRun.reader = "off" /\ Idle.kind = "none" /\ 0 \notin Gens
  BY DEF NoRun, Idle, Gens
<1>5. \A s \in Sessions : Good(s)
  BY <1>1, <1>4 DEF Init, Good, EntryIsLast, LaunchIsBacked, WorkerIsHeld, ReapedIsStopped,
     AskingWorkersWait, WaitingIsForAnswer, WorkIsClaimed, QueuedIsKnown, AnswerQueued,
     AnswerSent, Running, Live
<1> QED
  BY <1>2, <1>3, <1>5 DEF IInv

LEMMA NothingOfTheSessions ==
    ASSUME IInv, phase' \in {"open", "pausing", "stopping", "gone"},
           UNCHANGED <<status, catalog, queued, entry, run, used, launch, stopping>>
    PROVE  IInv'
<1>1. UNCHANGED <<leased, bound, claimed>>
  BY DEF catalog, capacity, ownership
<1>2. \A t \in Sessions : Leaves(t)
  BY <1>1 DEF Leaves
<1>3. \A t \in Sessions : Good(t)'
  BY <1>2, LeftSessionStaysGood DEF IInv
<1> QED
  BY <1>1, <1>3 DEF IInv, Types

LEMMA NextHolds == IInv /\ [Next]_vars => IInv'
<1>. SUFFICES ASSUME IInv, [Next]_vars
              PROVE  IInv'
  OBVIOUS
<1>1. ASSUME NEW s \in Sessions, Intents(s)
      PROVE  IInv'
  BY <1>1, IntentsKeep, KeepsIsEnough DEF IInv
<1>2. ASSUME NEW s \in Sessions, Stopping(s) \/ Launching(s) \/ Scheduler(s)
      PROVE  IInv'
  BY <1>2, StoppingKeeps, LaunchingKeeps, SchedulerKeeps, KeepsIsEnough DEF IInv
<1>3. ASSUME NEW s \in Sessions, NEW g \in Gens,
             WorkerStep(s, g) \/ WorkerExits(s, g) \/ ReaderStep(s, g)
      PROVE  IInv'
  BY <1>3, WorkerStepKeeps, ReaderStepKeeps, KeepsIsEnough DEF IInv
<1>4. CASE ShutdownBegins \/ ShutdownDeadline \/ ApplicationEnds \/ UNCHANGED vars
  BY <1>4, NothingOfTheSessions
     DEF ShutdownBegins, ShutdownDeadline, ApplicationEnds, vars, IInv, Types
<1> QED
  BY <1>1, <1>2, <1>3, <1>4 DEF Next, ByItself

LEMMA SupervisorInvariant == Spec => []IInv
  BY InitHolds, NextHolds, PTL DEF Spec

(* No process tree escapes _running, whatever the user asks for while      *)
(* frames, exits, cleanups and retries interleave.                         *)
THEOREM LiveWorkersAlwaysTracked == Spec => []LiveWorkersAreTracked
<1>1. IInv => LiveWorkersAreTracked
  BY DEF IInv, Good, WorkerIsHeld, LiveWorkersAreTracked
<1> QED
  BY <1>1, SupervisorInvariant, PTL

(* The worktree of a session is leased while any process of one of its     *)
(* workers may be alive.                                                   *)
THEOREM WorkersAlwaysHoldTheWorktree == Spec => []WorkersHoldTheWorktree
<1>1. IInv => WorkersHoldTheWorktree
  BY DEF IInv, Good, WorkerIsHeld, WorkersHoldTheWorktree
<1> QED
  BY <1>1, SupervisorInvariant, PTL

(* However many sessions there are and whatever happens to them, no more   *)
(* workers work than there are slots.                                      *)
THEOREM WorkingAlwaysWithinLimit == Spec => []WorkingWithinLimit
<1>1. ASSUME IInv
      PROVE  Cardinality({s \in Sessions : Works(s)}) <= Slots
  <2>1. IsFiniteSet(claimed) /\ Cardinality(claimed) \in Nat
    BY <1>1, SupervisedAssumption, FS_Subset, FS_CardinalityType DEF IInv, Types
  <2>2. {s \in Sessions : Works(s)} \subseteq claimed
    BY <1>1 DEF IInv, Good, WorkIsClaimed, Works
  <2>3. /\ Cardinality({s \in Sessions : Works(s)}) \in Nat
        /\ Cardinality({s \in Sessions : Works(s)}) <= Cardinality(claimed)
    BY <2>1, <2>2, FS_Subset, FS_CardinalityType
  <2> QED
    BY <1>1, <2>1, <2>3, SlotsAssumption DEF IInv
<1>2. IInv => WorkingWithinLimit
  BY <1>1 DEF WorkingWithinLimit
<1> QED
  BY <1>2, SupervisorInvariant, PTL

(* Nothing waits for a launch but a session that shows QUEUED and keeps    *)
(* its worktree.                                                           *)
THEOREM OnlyQueuedSessionsAlwaysLaunch == Spec => []OnlyQueuedSessionsLaunch
<1>1. IInv => OnlyQueuedSessionsLaunch
  BY DEF IInv, Good, QueuedIsKnown, OnlyQueuedSessionsLaunch
<1> QED
  BY <1>1, SupervisorInvariant, PTL

---------------------------------------------------------------------------
(* The catalog as several applications open and show it.  ReplicaInv says of  *)
(* the file, of every opener, row, view, list and plan what each step needs;  *)
(* a session counts its lives, so that a revision belongs to one of them.     *)

(* What rows and remembered revisions are made of.                            *)
Rows == [rev : Nat, stamp : Nat, life : Nat, at : Checkouts \cup {NoCheckout},
         on : BOOLEAN, done : BOOLEAN]
Revisions == [rev : Nat, life : Nat]

(* The file has the schema of its version; a version 7 may be weak.           *)
SchemaIs ==
  \/ file.version \in 0..8 /\ file.tables = WrittenAt(file.version)
  \/ file.version = 7 /\ file.tables = WrittenAt(7) \ {"progress_check"}
  \/ file.version = 8 /\ file.tables = Full

(* Whoever has opened the file has found or left it complete, and a counter   *)
(* stands where its row does.                                                 *)
InUse == \E a \in Apps : pc[a] \in {"open", "marked", "up"}
CountersAre ==
  \A s \in Ids : IF "counters" \in file.tables THEN Saved(s) => counter[s] = rows[s].rev
                 ELSE counter[s] = 0
FileIs ==
  /\ SchemaIs
  /\ InUse => file.version = 8 /\ file.tables = Full
  /\ file.version = 0 => \A s \in Ids : ~Saved(s)
  /\ CountersAre

(* What an opener has read was true of an earlier version, and that a version *)
(* 7 is weak does not escape it.                                              *)
SeenIs(a) ==
  /\ seen[a].version \in 0..8
  /\ pc[a] \in {"read", "columns"} =>
       /\ seen[a].version <= file.version
       /\ seen[a].version = 7 /\ Weak(file) => seen[a].weak
OpenersAre ==
  /\ pc \in [Apps -> {"closed", "read", "columns", "open", "marked", "up"}]
  /\ seen \in [Apps -> [version : Nat, tables : SUBSET Full, weak : BOOLEAN]]
  /\ \A a \in Apps : SeenIs(a)

(* A held session has a row and its holder is up.                             *)
RowsAre ==
  /\ rows \in [Ids -> Rows] /\ counter \in [Ids -> Nat] /\ lives \in [Ids -> Nat]
  /\ holder \in [Ids -> Apps \cup {NoApp}] /\ stamp \in Nat
  /\ \A s \in Ids :
       /\ Saved(s) => rows[s].rev > 0 /\ rows[s].life = lives[s]
       /\ holder[s] # NoApp => Saved(s) /\ Up(holder[s])

(* r was the row of a session that has now this row, counter and life.        *)
WasRow(r, row, count, life) ==
  /\ r \in Rows
  /\ r # NoRow =>
       /\ r.rev > 0 /\ r.life <= life
       /\ r.life = life => /\ r.rev <= count
                           /\ row # NoRow /\ r.rev = row.rev => r = row

(* An application shows v and remembers k of it: within one life it is not    *)
(* ahead of the row, and shows what it remembers unless a Resume was refused. *)
Shown(v, k, stale, row, count, life) ==
  /\ WasRow(v, row, count, life)
  /\ k \in Revisions /\ k.life <= life
  /\ v # NoRow => k.rev > 0
  /\ k.life = life /\ k.rev > 0 =>
       /\ k.rev <= count
       /\ v = NoRow /\ row # NoRow => k.rev < row.rev
       /\ v # NoRow => stale \/ (v.life = life /\ v.rev = k.rev)

ShownIs(a, s) ==
  Shown(view[a][s], known[a][s], <<a, s>> \in unheard, rows[s], counter[s], lives[s])
ViewsAre ==
  /\ view \in [Apps -> [Ids -> Rows]] /\ known \in [Apps -> [Ids -> Revisions]]
  /\ \A a \in Apps, s \in Ids : ShownIs(a, s)

ListIs(l) == l # NoList => \A s \in Ids : WasRow(l[s], rows[s], counter[s], lives[s])
ListsAre ==
  /\ listing \in [Apps -> [Ids -> Rows] \cup {NoList}]
  /\ \A a \in Apps : ListIs(listing[a])

(* What Relink has validated was saved.                                       *)
PlansAre ==
  /\ DOMAIN plan = Apps
  /\ \A a \in Apps : /\ DOMAIN plan[a] \subseteq Ids
                     /\ \A g \in DOMAIN plan[a] : plan[a][g].rev > 0

(* An application that is not up yet shows nothing and has nothing under way. *)
BlankIs ==
  \A a \in Apps : ~Up(a) => listing[a] = NoList /\ plan[a] = NoList

ReplicaInv ==
  FileIs /\ OpenersAre /\ RowsAre /\ ViewsAre /\ ListsAre /\ PlansAre /\ BlankIs

---------------------------------------------------------------------------
(* What the row of one session may do in a step.                              *)
RowMoves(row, count, life, row2, count2, life2) ==
  \/ row2 = row /\ life2 = life /\ count2 >= count
  \/ row2.rev > count /\ row2.life = life /\ count2 = row2.rev /\ life2 = life
  \/ row2 = NoRow /\ life2 = life /\ count2 = count
  \/ row2 = NoRow /\ life2 > life

LEMMA NoRowIsRow == NoRow \in Rows /\ NoRow.rev = 0 /\ NoRow.life = 0
  BY DEF NoRow, Rows

LEMMA WasRowStays ==
  ASSUME NEW row \in Rows, NEW count \in Nat, NEW life \in Nat,
         NEW row2 \in Rows, NEW count2 \in Nat, NEW life2 \in Nat,
         RowMoves(row, count, life, row2, count2, life2),
         NEW r, WasRow(r, row, count, life)
  PROVE  WasRow(r, row2, count2, life2)
<1>1. CASE r = NoRow
  BY <1>1 DEF WasRow
<1>2. CASE r # NoRow
  <2>1. r.rev \in Nat /\ r.life \in Nat /\ row.rev \in Nat /\ row2.rev \in Nat
    BY DEF WasRow, Rows
  <2> QED
    BY <1>2, <2>1 DEF WasRow, RowMoves
<1> QED
  BY <1>1, <1>2

LEMMA ShownStays ==
  ASSUME NEW row \in Rows, NEW count \in Nat, NEW life \in Nat,
         NEW row2 \in Rows, NEW count2 \in Nat, NEW life2 \in Nat,
         RowMoves(row, count, life, row2, count2, life2),
         NEW v, NEW k, NEW stale \in BOOLEAN, NEW stale2 \in BOOLEAN, stale => stale2,
         Shown(v, k, stale, row, count, life)
  PROVE  Shown(v, k, stale2, row2, count2, life2)
<1>1. WasRow(v, row2, count2, life2)
  BY WasRowStays DEF Shown
<1>2. k.rev \in Nat /\ k.life \in Nat /\ row.rev \in Nat /\ row2.rev \in Nat
  BY DEF Shown, Revisions, Rows
<1> QED
  BY <1>1, <1>2 DEF Shown, RowMoves

(* The writer's own snapshot, a list that is applied, and the view an         *)
(* application starts with.                                                   *)
LEMMA ShownWrite ==
  ASSUME NEW row \in Rows, NEW count \in Nat, NEW life \in Nat, NEW row2 \in Rows,
         row2.rev > count, row2.life = life,
         NEW v, NEW k, NEW stale \in BOOLEAN, NEW stale2 \in BOOLEAN,
         Shown(v, k, stale, row, count, life)
  PROVE  Shown(row2, Later(k, row2), stale2, row2, row2.rev, life)
<1>1. k.rev \in Nat /\ k.life \in Nat /\ row2.rev \in Nat
  BY DEF Shown, Revisions, Rows
<1>2. WasRow(row2, row2, row2.rev, life)
  BY <1>1 DEF WasRow
<1>3. CASE row2.rev > k.rev
  <2>1. Later(k, row2) = [rev |-> row2.rev, life |-> life]
    BY <1>3 DEF Later, RevisionOf
  <2> QED
    BY <1>1, <1>2, <2>1 DEF Shown, Revisions
<1>4. CASE ~(row2.rev > k.rev)
  <2>1. Later(k, row2) = k /\ k.life # life
    BY <1>1, <1>4 DEF Later, Shown
  <2> QED
    BY <1>1, <1>2, <1>4, <2>1 DEF Shown
<1> QED
  BY <1>3, <1>4

LEMMA ShownList ==
  ASSUME NEW row \in Rows, NEW count \in Nat, NEW life \in Nat, NEW r,
         NEW k, k.rev \in Nat, NEW stale \in BOOLEAN,
         WasRow(r, row, count, life), r # NoRow, r.rev > k.rev
  PROVE  Shown(r, Later(k, r), stale, row, count, life)
<1>1. r.rev \in Nat /\ r.life \in Nat
  BY DEF WasRow, Rows
<1>2. Later(k, r) = [rev |-> r.rev, life |-> r.life]
  BY DEF Later, RevisionOf
<1> QED
  BY <1>1, <1>2 DEF Shown, WasRow, Revisions

LEMMA ShownNothing ==
  ASSUME NEW row \in Rows, NEW count \in Nat, NEW life \in Nat, NEW stale \in BOOLEAN
  PROVE  Shown(NoRow, NothingKnown, stale, row, count, life)
  BY NoRowIsRow DEF Shown, WasRow, NothingKnown, Revisions

LEMMA ShownWhole ==
  ASSUME NEW row \in Rows, NEW count \in Nat, NEW life \in Nat, NEW stale \in BOOLEAN,
         row # NoRow => row.rev > 0 /\ row.life = life /\ count = row.rev
  PROVE  Shown(row, RevisionOf(row), stale, row, count, life)
<1>1. RevisionOf(row) \in Revisions /\ RevisionOf(row) = [rev |-> row.rev, life |-> row.life]
  BY DEF RevisionOf, Rows, Revisions
<1>2. row.rev \in Nat /\ row.life \in Nat
  BY DEF Rows
<1> QED
  BY <1>1, <1>2, NoRowIsRow DEF Shown, WasRow

(* A session that was not started is gone from its own view.                  *)
LEMMA ShownRolledBack ==
  ASSUME NEW row \in Rows, NEW count \in Nat, NEW life \in Nat, NEW stale \in BOOLEAN,
         NEW v, NEW k, Shown(v, k, stale, row, count, life)
  PROVE  Shown(NoRow, k, stale, NoRow, count, life)
  BY NoRowIsRow DEF Shown, WasRow

(* A Resume that is refused remembers what it does not show.                  *)
LEMMA ShownRefused ==
  ASSUME NEW row \in Rows, NEW life \in Nat, NEW stale \in BOOLEAN, NEW stale2 \in BOOLEAN,
         row.rev > 0, row.life = life, row # NoRow,
         NEW v, NEW k, Shown(v, k, stale, row, row.rev, life), v # NoRow,
         stale2 <=> (stale \/ v # row)
  PROVE  Shown(v, Later(k, row), stale2, row, row.rev, life)
<1>1. k.rev \in Nat /\ k.life \in Nat /\ row.rev \in Nat
  BY DEF Shown, Revisions, Rows
<1>2. CASE row.rev > k.rev
  <2>1. Later(k, row) = [rev |-> row.rev, life |-> life]
    BY <1>2 DEF Later, RevisionOf
  <2> QED
    BY <1>1, <2>1 DEF Shown, Revisions
<1>3. CASE ~(row.rev > k.rev)
  <2>1. Later(k, row) = k
    BY <1>3 DEF Later
  <2> QED
    BY <1>1, <2>1 DEF Shown
<1> QED
  BY <1>2, <1>3

---------------------------------------------------------------------------
(* The schema.                                                                *)
LEMMA AddedIs ==
  ASSUME NEW v \in Nat
  PROVE  \A x : x \in AddedFrom(v) <=> \E i \in 1..7 : i >= v /\ x \in Migration[i]
  BY DEF AddedFrom

(* The migration that adds a table or a column is the only one.               *)
LEMMA MigrationHas ==
  ASSUME NEW i \in 1..7
  PROVE  /\ "sessions" \notin Migration[i] /\ "relink" \notin Migration[i]
         /\ "leases" \in Migration[i] <=> i = 1
         /\ "counters" \in Migration[i] <=> i = 3
         /\ "progress_check" \in Migration[i] <=> i = 6
<1>1. CASE i = 1
  BY <1>1 DEF Migration
<1>2. CASE i = 2
  BY <1>2 DEF Migration
<1>3. CASE i = 3
  BY <1>3 DEF Migration
<1>4. CASE i = 4
  BY <1>4 DEF Migration
<1>5. CASE i = 5
  BY <1>5 DEF Migration
<1>6. CASE i = 6
  BY <1>6 DEF Migration
<1>7. CASE i = 7
  BY <1>7 DEF Migration
<1> QED
  BY <1>1, <1>2, <1>3, <1>4, <1>5, <1>6, <1>7

LEMMA AddedOnce ==
  ASSUME NEW v \in Nat, NEW x, NEW n \in 1..7,
         \A i \in 1..7 : x \in Migration[i] <=> i = n
  PROVE  x \in AddedFrom(v) <=> v <= n
<1>1. x \in AddedFrom(v) <=> \E i \in 1..7 : i >= v /\ i = n
  BY AddedIs
<1> QED
  BY <1>1

LEMMA AddedHas ==
  ASSUME NEW v \in Nat
  PROVE  /\ "sessions" \notin AddedFrom(v) /\ "relink" \notin AddedFrom(v)
         /\ "leases" \in AddedFrom(v) <=> v <= 1
         /\ "counters" \in AddedFrom(v) <=> v <= 3
         /\ "progress_check" \in AddedFrom(v) <=> v <= 6
<1>1. "sessions" \notin AddedFrom(v) /\ "relink" \notin AddedFrom(v)
  BY MigrationHas, AddedIs
<1>2. 1 \in 1..7 /\ 3 \in 1..7 /\ 6 \in 1..7
  OBVIOUS
<1>3. "leases" \in AddedFrom(v) <=> v <= 1
  BY <1>2, MigrationHas, AddedOnce
<1>4. "counters" \in AddedFrom(v) <=> v <= 3
  BY <1>2, MigrationHas, AddedOnce
<1>5. "progress_check" \in AddedFrom(v) <=> v <= 6
  BY <1>2, MigrationHas, AddedOnce
<1> QED
  BY <1>1, <1>3, <1>4, <1>5

LEMMA FullHas ==
  /\ {"sessions", "relink", "leases", "counters", "progress_check"} \subseteq Full
  /\ \A x \in Full : x \in {"sessions", "relink"} \/ x \in AddedFrom(1)
<1>1. "leases" \in AddedFrom(1) /\ "counters" \in AddedFrom(1) /\ "progress_check" \in AddedFrom(1)
  BY AddedHas
<1> QED
  BY <1>1 DEF Full

LEMMA AddedShrinks ==
  ASSUME NEW v \in Nat, NEW w \in Nat, v <= w
  PROVE  AddedFrom(w) \subseteq AddedFrom(v)
  BY AddedIs

LEMMA AddedAll == \A v \in Nat : AddedFrom(v) \subseteq Full
<1> SUFFICES ASSUME NEW v \in Nat PROVE AddedFrom(v) \subseteq AddedFrom(1)
  BY DEF Full
<1> QED
  BY AddedIs

LEMMA WrittenHas ==
  ASSUME NEW v \in 1..8
  PROVE  /\ WrittenAt(v) \subseteq Full
         /\ "sessions" \in WrittenAt(v)
         /\ "leases" \in WrittenAt(v) <=> v >= 2
         /\ "counters" \in WrittenAt(v) <=> v >= 4
<1>1. WrittenAt(v) = Full \ (AddedFrom(v) \cup {"relink"}) /\ v \in 0..8
  BY DEF WrittenAt
<1>2. /\ "sessions" \notin AddedFrom(v)
      /\ "leases" \in AddedFrom(v) <=> v <= 1
      /\ "counters" \in AddedFrom(v) <=> v <= 3
  BY <1>1, AddedHas
<1>3. (v <= 1 <=> ~(v >= 2)) /\ (v <= 3 <=> ~(v >= 4))
  OBVIOUS
<1> QED
  BY <1>1, <1>2, <1>3, FullHas

LEMMA SchemaHas ==
  ASSUME SchemaIs
  PROVE  /\ file.version \in 0..8 /\ file.tables \subseteq Full
         /\ "sessions" \in file.tables <=> file.version # 0
         /\ file.version >= 1 => ("leases" \in file.tables <=> file.version >= 2)
         /\ "counters" \in file.tables <=> file.version >= 4
<1>1. CASE file.version \in 0..8 /\ file.tables = WrittenAt(file.version)
  <2>1. CASE file.version = 0
    BY <1>1, <2>1 DEF WrittenAt
  <2>2. CASE file.version \in 1..8
    BY <1>1, <2>2, WrittenHas
  <2> QED
    BY <1>1, <2>1, <2>2
<1>2. CASE file.version = 7 /\ file.tables = WrittenAt(7) \ {"progress_check"}
  <2>1. WrittenAt(7) \subseteq Full /\ {"sessions", "leases", "counters"} \subseteq WrittenAt(7)
    BY WrittenHas
  <2> QED
    BY <1>2, <2>1
<1>3. CASE file.version = 8 /\ file.tables = Full
  BY <1>3, FullHas
<1> QED
  BY <1>1, <1>2, <1>3 DEF SchemaIs

(* A transaction that creates nothing again completes the schema.             *)
LEMMA MigratedIsFull ==
  ASSUME FileIs, NEW a \in Apps, SeenIs(a), pc[a] \in {"read", "columns"},
         seen[a].version # 1, ~CreatesAgain(a)
  PROVE  Migrated(a) = Full
<1> DEFINE v == seen[a].version  w == file.version
<1>1. SchemaIs /\ v \in 0..8 /\ w \in 0..8 /\ v <= w
  BY SchemaHas DEF FileIs, SeenIs
<1>2. CASE v = 0
  BY <1>2 DEF Migrated
<1>3. CASE v # 0
  <2>1. Migrated(a) = file.tables \cup AddedFrom(v) \cup {"relink"} \cup Rebuilt(a)
    BY <1>1, <1>3 DEF Migrated
  <2>2. {"relink", "progress_check"} \subseteq Full /\ file.tables \subseteq Full
    BY <1>1, SchemaHas, FullHas
  <2>3. AddedFrom(v) \subseteq Full
    BY <1>1, AddedAll
  <2>8. Rebuilt(a) \subseteq {"progress_check"}
    BY DEF Rebuilt
  <2>4. \A x \in Full \ AddedFrom(w) : x = "relink" \/ x = "progress_check" \/ x \in file.tables
    <3>1. w # 0
      BY <1>1, <1>3
    <3>2. WrittenAt(w) = Full \ (AddedFrom(w) \cup {"relink"})
      BY <3>1 DEF WrittenAt
    <3> QED
      BY <1>1, <3>2 DEF SchemaIs
  <2>5. AddedFrom(w) \subseteq AddedFrom(v)
    BY <1>1, AddedShrinks
  <2>6. "progress_check" \in Migrated(a)
    <3>1. CASE v <= 6
      <4>1. "progress_check" \in AddedFrom(v)
        BY <1>1, <3>1, AddedHas
      <4> QED
        BY <4>1, <2>1
    <3>2. CASE v = 7 /\ Weak(file)
      BY <3>2, <2>1 DEF SeenIs, Rebuilt
    <3>3. CASE w \in {7, 8} /\ ~Weak(file)
      <4>1. WrittenAt(w) = Full \ (AddedFrom(w) \cup {"relink"})
        BY <3>3 DEF WrittenAt
      <4>2. "progress_check" \notin AddedFrom(w) /\ "progress_check" \in Full
        BY <1>1, <3>3, AddedHas, FullHas
      <4>3. "progress_check" \in WrittenAt(w)
        BY <4>1, <4>2
      <4>4. "progress_check" \in file.tables
        BY <1>1, <3>3, <4>2, <4>3 DEF SchemaIs, Weak
      <4> QED
        BY <4>4, <2>1
    <3>4. v <= 6 \/ (v = 7 /\ Weak(file)) \/ (w \in {7, 8} /\ ~Weak(file))
      BY <1>1 DEF Weak
    <3> QED
      BY <3>1, <3>2, <3>3, <3>4
  <2>7. \A x \in Full : x \in Migrated(a)
    BY <2>1, <2>4, <2>5, <2>6
  <2> QED
    BY <2>1, <2>2, <2>3, <2>7, <2>8
<1> QED
  BY <1>2, <1>3

(* And the counters that it takes from the rows are the rows'.                *)
LEMMA RecountedIsRight ==
  ASSUME FileIs, RowsAre, NEW a \in Apps, SeenIs(a), pc[a] \in {"read", "columns"},
         seen[a].version # 1, ~CreatesAgain(a), NEW s \in Ids, Saved(s)
  PROVE  Recounted(a)[s] = rows[s].rev
<1>0. SchemaIs /\ rows[s].rev \in Nat /\ counter[s] \in Nat
  BY DEF FileIs, RowsAre, Rows
<1>1. CASE seen[a].version \in 1..3
  <2>1. Recounted(a)[s] = IF rows[s].rev > counter[s] THEN rows[s].rev ELSE counter[s]
    BY <1>1 DEF Recounted, Counted
  <2>2. counter[s] = rows[s].rev \/ counter[s] = 0
    BY DEF FileIs, CountersAre
  <2> QED
    BY <1>0, <2>1, <2>2
<1>2. CASE seen[a].version = 0
  <2>1. file.version = 0
    BY <1>0, <1>2, SchemaHas DEF CreatesAgain
  <2> QED
    BY <2>1 DEF FileIs
<1>3. CASE seen[a].version \in 4..8
  <2>1. file.version >= 4
    BY <1>0, <1>3, SchemaHas DEF SeenIs
  <2>2. counter[s] = rows[s].rev
    BY <1>0, <2>1, SchemaHas DEF FileIs, CountersAre
  <2> QED
    BY <2>2, <1>3 DEF Recounted
<1> QED
  BY <1>1, <1>2, <1>3 DEF SeenIs

LEMMA OpensFromInv == ReplicaInv => EveryVersionOpens
<1> SUFFICES ASSUME ReplicaInv, NEW a \in Apps, Prepared(a), seen[a].version # 1,
                    ~CreatesAgain(a)
             PROVE  Validates(Migrated(a), Recounted(a))
  BY DEF EveryVersionOpens
<1>1. FileIs /\ RowsAre /\ SeenIs(a) /\ pc[a] \in {"read", "columns"}
  BY DEF ReplicaInv, OpenersAre, Prepared
<1> QED
  BY <1>1, MigratedIsFull, RecountedIsRight DEF Validates, HasWholeSchema

LEMMA ViewsFromInv == ReplicaInv => NoViewIsStuck
<1> SUFFICES ASSUME ReplicaInv, NEW a \in Apps, NEW s \in Ids, Up(a),
                    known[a][s].life = lives[s] \/ ~Saved(s), <<a, s>> \notin unheard
             PROVE  \/ view[a][s] = rows[s] \/ known[a][s].rev < rows[s].rev
                    \/ rows[s] = NoRow /\ known[a][s].rev # 0
  BY DEF NoViewIsStuck
<1> DEFINE k == known[a][s]  v == view[a][s]
<1>1. ShownIs(a, s) /\ rows[s] \in Rows
  BY DEF ReplicaInv, ViewsAre, RowsAre
<1>2. k.rev \in Nat /\ v.rev \in Nat /\ rows[s].rev \in Nat
  BY <1>1 DEF ShownIs, Shown, WasRow, Revisions, Rows
<1>3. CASE rows[s] = NoRow
  BY <1>1, <1>2, <1>3 DEF ShownIs, Shown
<1>4. CASE Saved(s)
  <2>1. file.version = 8 /\ file.tables = Full
    BY DEF ReplicaInv, FileIs, InUse, Up
  <2>2. counter[s] = rows[s].rev /\ rows[s].rev > 0 /\ rows[s].life = lives[s]
    BY <1>4, <2>1, SchemaHas DEF ReplicaInv, FileIs, CountersAre, RowsAre
  <2> QED
    BY <1>1, <1>2, <1>4, <2>2 DEF ShownIs, Shown, WasRow, Saved
<1> QED
  BY <1>3, <1>4 DEF Saved

---------------------------------------------------------------------------
(* Steps.  What a step does to the rows, and what every application then has  *)
(* of them.                                                                   *)
RowsMove ==
  /\ rows' \in [Ids -> Rows] /\ counter' \in [Ids -> Nat] /\ lives' \in [Ids -> Nat]
  /\ \A s \in Ids : RowMoves(rows[s], counter[s], lives[s], rows'[s], counter'[s], lives'[s])

LEMMA RowsRest ==
  ASSUME RowsAre, UNCHANGED rowVars PROVE RowsMove
  BY DEF RowsAre, RowsMove, RowMoves, rowVars

LEMMA WasRowStill ==
  ASSUME RowsAre, RowsMove, NEW s \in Ids, NEW r, WasRow(r, rows[s], counter[s], lives[s])
  PROVE  WasRow(r, rows'[s], counter'[s], lives'[s])
<1>1. /\ rows[s] \in Rows /\ counter[s] \in Nat /\ lives[s] \in Nat
      /\ rows'[s] \in Rows /\ counter'[s] \in Nat /\ lives'[s] \in Nat
      /\ RowMoves(rows[s], counter[s], lives[s], rows'[s], counter'[s], lives'[s])
  BY DEF RowsAre, RowsMove, Up
<1> QED
  BY <1>1, WasRowStays

LEMMA ListStill ==
  ASSUME RowsAre, RowsMove, NEW l, ListIs(l) PROVE ListIs(l)'
  BY WasRowStill DEF ListIs

LEMMA ShownStill ==
  ASSUME RowsAre, RowsMove, NEW b \in Apps, NEW s \in Ids, ShownIs(b, s),
         view'[b][s] = view[b][s], known'[b][s] = known[b][s],
         <<b, s>> \in unheard => <<b, s>> \in unheard'
  PROVE  ShownIs(b, s)'
<1>1. /\ rows[s] \in Rows /\ counter[s] \in Nat /\ lives[s] \in Nat
      /\ rows'[s] \in Rows /\ counter'[s] \in Nat /\ lives'[s] \in Nat
      /\ RowMoves(rows[s], counter[s], lives[s], rows'[s], counter'[s], lives'[s])
  BY DEF RowsAre, RowsMove, Up
<1> DEFINE stale == <<b, s>> \in unheard  stale2 == <<b, s>> \in unheard'
<1>2. Shown(view[b][s], known[b][s], stale2, rows'[s], counter'[s], lives'[s])
  <2>1. stale \in BOOLEAN /\ stale2 \in BOOLEAN
    OBVIOUS
  <2>2. Shown(view[b][s], known[b][s], stale, rows[s], counter[s], lives[s])
    BY DEF ShownIs
  <2> HIDE DEF stale, stale2
  <2>3. stale => stale2
    BY DEF stale, stale2
  <2> QED
    BY <1>1, <2>1, <2>2, <2>3, ShownStays
<1> QED
  BY <1>2 DEF ShownIs

---------------------------------------------------------------------------
(* Opening the catalog.                                                       *)
LEMMA OpeningKeeps ==
  ASSUME ReplicaInv, UNCHANGED <<rows, stamp, lives, holder, viewVars>>,
         counter' \in [Ids -> Nat], \A s \in Ids : counter'[s] >= counter[s],
         FileIs', OpenersAre',
         \A a \in Apps : (Up(a) => Up(a)') /\ (Up(a)' => Up(a))
  PROVE  ReplicaInv'
<1>1. RowsMove
  BY DEF ReplicaInv, RowsAre, RowsMove, RowMoves
<1>2. RowsAre'
  BY DEF ReplicaInv, RowsAre, Saved
<1>3. ViewsAre'
  <2> SUFFICES ASSUME NEW a \in Apps, NEW s \in Ids PROVE ShownIs(a, s)'
    BY DEF ReplicaInv, ViewsAre, viewVars
  <2> QED
    BY <1>1, ShownStill DEF ReplicaInv, ViewsAre, viewVars
<1>4. ListsAre'
  <2> SUFFICES ASSUME NEW a \in Apps PROVE ListIs(listing[a])'
    BY DEF ReplicaInv, ListsAre, ListIs, viewVars
  <2> QED
    BY <1>1, ListStill DEF ReplicaInv, ListsAre, ListIs, viewVars
<1>5. PlansAre' /\ BlankIs'
  BY DEF ReplicaInv, PlansAre, BlankIs, viewVars
<1> QED
  BY <1>2, <1>3, <1>4, <1>5 DEF ReplicaInv

LEMMA ReadKeeps ==
  ASSUME ReplicaInv, NEW a \in Apps, ReadVersion(a) \/ ReadColumns(a) \/ UpgradeFails(a)
  PROVE  ReplicaInv'
<1>1. UNCHANGED <<file, rows, stamp, lives, counter, holder, viewVars>>
  BY DEF ReadVersion, ReadColumns, UpgradeFails, rowVars
<1>2. /\ pc[a] \in {"closed", "read", "columns"} /\ pc'[a] \in {"closed", "read", "columns"}
      /\ \A b \in Apps \ {a} : pc'[b] = pc[b] /\ seen'[b] = seen[b]
      /\ pc' \in [Apps -> {"closed", "read", "columns", "open", "marked", "up"}]
  BY DEF ReadVersion, ReadColumns, UpgradeFails, Prepared, ReplicaInv, OpenersAre
<1>3. FileIs'
  BY <1>1, <1>2 DEF ReplicaInv, FileIs, SchemaIs, InUse, CountersAre, Saved
<1>4. seen' \in [Apps -> [version : Nat, tables : SUBSET Full, weak : BOOLEAN]] /\ SeenIs(a)'
  <2>1. file.version \in 0..8 /\ file.tables \subseteq Full
    BY SchemaHas DEF ReplicaInv, FileIs
  <2>2. CASE ReadVersion(a)
    <3> DEFINE read == [version |-> file.version, tables |-> {}, weak |-> Weak(file)]
    <3>1. seen' = [seen EXCEPT ![a] = read] /\ file' = file
      BY <2>2 DEF ReadVersion
    <3>2. read \in [version : Nat, tables : SUBSET Full, weak : BOOLEAN]
      BY <2>1 DEF Weak
    <3>3. read.version = file.version /\ read.weak = Weak(file)
      OBVIOUS
    <3> HIDE DEF read
    <3>4. seen' \in [Apps -> [version : Nat, tables : SUBSET Full, weak : BOOLEAN]]
      BY <3>1, <3>2 DEF ReplicaInv, OpenersAre
    <3>5. seen'[a] = read
      BY <3>1 DEF ReplicaInv, OpenersAre
    <3>6. SeenIs(a)'
      BY <2>1, <3>1, <3>3, <3>5 DEF SeenIs
    <3> QED
      BY <3>4, <3>6
  <2>3. CASE ReadColumns(a)
    BY <2>1, <2>3 DEF ReadColumns, SeenIs, Weak, ReplicaInv, OpenersAre
  <2>4. CASE UpgradeFails(a)
    BY <2>1, <2>4 DEF UpgradeFails, Unread, SeenIs, Weak, ReplicaInv, OpenersAre
  <2> QED
    BY <2>2, <2>3, <2>4
<1>5. OpenersAre'
  BY <1>1, <1>2, <1>4 DEF OpenersAre, SeenIs, ReplicaInv, Weak
<1>6. counter' \in [Ids -> Nat] /\ \A s \in Ids : counter'[s] >= counter[s]
  BY <1>1 DEF ReplicaInv, RowsAre
<1>7. \A b \in Apps : (Up(b) => Up(b)') /\ (Up(b)' => Up(b))
  BY <1>2 DEF Up
<1> QED
  BY <1>1, <1>3, <1>5, <1>6, <1>7, OpeningKeeps

LEMMA CreateLeasesKeeps ==
  ASSUME ReplicaInv, NEW a \in Apps, CreateLeases(a)
  PROVE  ReplicaInv'
<1>1. file.version = 1 /\ file.tables = WrittenAt(1)
  <2>1. SchemaIs /\ seen[a].version <= file.version
    BY DEF CreateLeases, ReplicaInv, FileIs, OpenersAre, SeenIs
  <2>2. file.version = 1
    BY <2>1, SchemaHas DEF CreateLeases
  <2> QED
    BY <2>1, <2>2 DEF SchemaIs
<1>2. file'.version = 2 /\ file'.tables = WrittenAt(2)
  <2>1. Migration[1] = {"leases"} /\ "leases" \in Full
    BY FullHas DEF Migration
  <2>2. \A x : x \in AddedFrom(1) <=> x \in AddedFrom(2) \/ x \in Migration[1]
    BY AddedIs
  <2>3. "leases" \notin AddedFrom(2)
    BY AddedHas
  <2>4. WrittenAt(2) = Full \ (AddedFrom(2) \cup {"relink"}) /\ WrittenAt(1) = Full \ (AddedFrom(1) \cup {"relink"})
    BY DEF WrittenAt
  <2>5. WrittenAt(2) = WrittenAt(1) \cup Migration[1]
    BY <2>1, <2>2, <2>3, <2>4
  <2> QED
    BY <1>1, <2>5 DEF CreateLeases
<1>3. ~InUse /\ pc' = pc /\ UNCHANGED <<rows, counter>>
  BY <1>1 DEF CreateLeases, ReplicaInv, FileIs, rowVars
<1>4. "counters" \notin file.tables /\ "counters" \notin file'.tables
  BY <1>1, <1>2, WrittenHas
<1>5. FileIs'
  <2>1. SchemaIs'
    BY <1>2 DEF SchemaIs
  <2> QED
    BY <1>2, <1>3, <1>4, <2>1 DEF ReplicaInv, FileIs, InUse, CountersAre
<1>6. OpenersAre'
  <2>1. seen' \in [Apps -> [version : Nat, tables : SUBSET Full, weak : BOOLEAN]]
    BY DEF CreateLeases, ReplicaInv, OpenersAre
  <2>2. \A b \in Apps : seen'[b].version \in 0..8
    BY DEF CreateLeases, ReplicaInv, OpenersAre, SeenIs
  <2>3. ASSUME NEW b \in Apps, pc[b] \in {"read", "columns"} PROVE seen'[b].version <= 2
    BY <1>1, <2>3 DEF CreateLeases, ReplicaInv, OpenersAre, SeenIs
  <2>4. ~Weak(file')
    BY <1>2 DEF Weak
  <2> QED
    BY <1>2, <1>3, <2>1, <2>2, <2>3, <2>4 DEF ReplicaInv, OpenersAre, SeenIs
<1>7. counter' \in [Ids -> Nat] /\ \A s \in Ids : counter'[s] >= counter[s]
  BY <1>3 DEF ReplicaInv, RowsAre
<1> QED
  BY <1>3, <1>5, <1>6, <1>7, OpeningKeeps DEF CreateLeases, rowVars, Up

LEMMA UpgradeKeeps ==
  ASSUME ReplicaInv, NEW a \in Apps, Upgrade(a)
  PROVE  ReplicaInv'
<1>1. file' = [version |-> 8, tables |-> Full] /\ rows' = rows
  BY DEF Upgrade, Validates, HasWholeSchema
<1>2. \A s \in Ids : Saved(s) => counter'[s] = rows[s].rev
  BY DEF Upgrade, Validates
<1>3. counter' \in [Ids -> Nat] /\ \A s \in Ids : counter'[s] >= counter[s]
  <2>1. counter \in [Ids -> Nat] /\ \A s \in Ids : rows[s].rev \in Nat
    BY DEF ReplicaInv, RowsAre, Rows
  <2>2. counter' = counter \/ counter' = Counted
    BY DEF Upgrade, Recounted
  <2> QED
    BY <2>1, <2>2 DEF Counted
<1>4. FileIs'
  <2>1. SchemaIs' /\ file'.version = 8 /\ file'.tables = Full
    BY <1>1 DEF SchemaIs
  <2>2. CountersAre'
    BY <1>1, <1>2, FullHas DEF CountersAre, Saved
  <2> QED
    BY <2>1, <2>2 DEF FileIs
<1>5. OpenersAre'
  <2>1. pc' \in [Apps -> {"closed", "read", "columns", "open", "marked", "up"}]
    BY DEF Upgrade, ReplicaInv, OpenersAre
  <2>2. seen' \in [Apps -> [version : Nat, tables : SUBSET Full, weak : BOOLEAN]]
    BY DEF Upgrade, Unread, ReplicaInv, OpenersAre
  <2>3. \A b \in Apps : seen'[b].version \in 0..8
    BY DEF Upgrade, Unread, ReplicaInv, OpenersAre, SeenIs
  <2>4. ~Weak(file') /\ file'.version = 8
    BY <1>1 DEF Weak
  <2> QED
    BY <2>1, <2>2, <2>3, <2>4 DEF OpenersAre, SeenIs
<1>6. \A b \in Apps : (Up(b) => Up(b)') /\ (Up(b)' => Up(b))
  BY DEF Upgrade, Prepared, Up, ReplicaInv, OpenersAre
<1> QED
  BY <1>1, <1>3, <1>4, <1>5, <1>6, OpeningKeeps DEF Upgrade

---------------------------------------------------------------------------
(* Writing rows and refreshing views, once the catalog is open.               *)
LEMMA RowsOfUse ==
  ASSUME ReplicaInv, InUse
  PROVE  /\ file.version # 0 /\ "counters" \in file.tables
         /\ \A s \in Ids : Saved(s) => /\ counter[s] = rows[s].rev /\ rows[s].rev > 0
                                       /\ rows[s].life = lives[s]
  BY FullHas DEF ReplicaInv, FileIs, CountersAre, RowsAre

LEMMA UpUses == ASSUME NEW a \in Apps, Up(a) \/ pc[a] \in {"open", "marked"} PROVE InUse
  BY DEF InUse, Up

(* Which rows a write may put: the next revision of the same life.            *)
NextRows(new) ==
  /\ DOMAIN new \subseteq Ids
  /\ \A s \in DOMAIN new : new[s] \in Rows /\ new[s].rev > counter[s] /\ new[s].life = lives[s]

LEMMA WritesAreNext ==
  ASSUME RowsAre, NEW new, WriteAll(new), NextRows(new)
  PROVE  /\ RowsMove /\ stamp' \in Nat
         /\ \A s \in DOMAIN new : /\ Saved(s)' /\ rows'[s] = new[s] /\ counter'[s] = new[s].rev
                                  /\ lives'[s] = lives[s]
         /\ \A s \in Ids \ DOMAIN new :
              rows'[s] = rows[s] /\ counter'[s] = counter[s] /\ lives'[s] = lives[s]
<1>1. /\ rows' = [s \in Ids |-> IF s \in DOMAIN new THEN new[s] ELSE rows[s]]
      /\ counter' = [s \in Ids |-> IF s \in DOMAIN new THEN new[s].rev ELSE counter[s]]
      /\ lives' = lives /\ stamp' = stamp + 1
  BY DEF WriteAll
<1>2. \A s \in DOMAIN new : new[s].rev \in Nat
  BY DEF NextRows, Rows
<1>3. rows' \in [Ids -> Rows] /\ counter' \in [Ids -> Nat] /\ lives' \in [Ids -> Nat] /\ stamp' \in Nat
  BY <1>1, <1>2 DEF NextRows, RowsAre
<1>4. \A s \in DOMAIN new : /\ rows'[s] = new[s] /\ counter'[s] = new[s].rev
                            /\ lives'[s] = lives[s]
  BY <1>1 DEF NextRows
<1>5. \A s \in Ids \ DOMAIN new :
        rows'[s] = rows[s] /\ counter'[s] = counter[s] /\ lives'[s] = lives[s]
  BY <1>1
<1>6. \A s \in DOMAIN new : rows'[s] # NoRow
  <2> SUFFICES ASSUME NEW s \in DOMAIN new PROVE new[s].rev # 0
    BY <1>4, NoRowIsRow
  <2>1. new[s].rev > counter[s] /\ counter[s] \in Nat
    BY DEF NextRows, RowsAre
  <2> QED
    BY <1>2, <2>1
<1>7. RowsMove
  <2> SUFFICES ASSUME NEW s \in Ids
               PROVE  RowMoves(rows[s], counter[s], lives[s], rows'[s], counter'[s], lives'[s])
    BY <1>3 DEF RowsMove
  <2>1. CASE s \in DOMAIN new
    BY <2>1, <1>4 DEF RowMoves, NextRows
  <2>2. CASE s \notin DOMAIN new
    BY <2>2, <1>5 DEF RowMoves, RowsAre
  <2> QED
    BY <2>1, <2>2
<1> QED
  BY <1>3, <1>4, <1>5, <1>6, <1>7 DEF Saved

(* Then rows and counters are as they should be.                              *)
LEMMA WritesKeepRows ==
  ASSUME ReplicaInv, InUse, NEW new, WriteAll(new), NextRows(new), UNCHANGED file,
         holder' \in [Ids -> Apps \cup {NoApp}],
         \A s \in Ids : holder'[s] # NoApp => (Saved(s) \/ s \in DOMAIN new) /\ pc'[holder'[s]] = "up"
  PROVE  RowsMove /\ RowsAre' /\ CountersAre'
<1>1. RowsAre /\ RowsMove /\ stamp' \in Nat
  BY WritesAreNext DEF ReplicaInv
<1>2. \A s \in DOMAIN new : /\ Saved(s)' /\ rows'[s] = new[s] /\ counter'[s] = new[s].rev
                            /\ lives'[s] = lives[s] /\ new[s].rev \in Nat
                            /\ new[s].rev > counter[s] /\ new[s].life = lives[s]
  BY <1>1, WritesAreNext DEF NextRows, Rows
<1>3. \A s \in Ids \ DOMAIN new :
        rows'[s] = rows[s] /\ counter'[s] = counter[s] /\ lives'[s] = lives[s]
  BY <1>1, WritesAreNext
<1>4. CountersAre'
  <2> SUFFICES ASSUME NEW s \in Ids, Saved(s)' PROVE counter'[s] = rows'[s].rev
    BY RowsOfUse DEF CountersAre
  <2> QED
    BY <1>2, <1>3, RowsOfUse DEF Saved
<1>5. ASSUME NEW s \in Ids
      PROVE  /\ Saved(s)' => rows'[s].rev > 0 /\ rows'[s].life = lives'[s]
             /\ Saved(s) \/ s \in DOMAIN new => Saved(s)'
  <2>1. CASE s \in DOMAIN new
    <3>1. new[s].rev > counter[s] /\ counter[s] \in Nat /\ new[s].rev \in Nat
      BY <1>1, <1>2, <2>1 DEF RowsAre
    <3> QED
      BY <1>2, <2>1, <3>1
  <2>2. CASE s \notin DOMAIN new
    BY <1>3, <2>2, RowsOfUse DEF Saved
  <2> QED
    BY <2>1, <2>2
<1>6. ASSUME NEW s \in Ids, holder'[s] # NoApp PROVE Saved(s)' /\ Up(holder[s])'
  BY <1>5, <1>6 DEF Up
<1>7. RowsAre'
  BY <1>1, <1>5, <1>6 DEF RowsAre, RowsMove
<1> QED
  BY <1>1, <1>4, <1>7

(* A step on open catalogs: the rows move, and each view rests or is brought  *)
(* up to what the step knows of the row.                                      *)
LEMMA StepKeeps ==
  ASSUME ReplicaInv, UNCHANGED <<file, seen>>, file.version # 0,
         pc' \in [Apps -> {"closed", "read", "columns", "open", "marked", "up"}],
         \A a \in Apps : \/ pc'[a] = pc[a]
                         \/ pc[a] = "open" /\ pc'[a] = "marked"
                         \/ pc[a] = "marked" /\ pc'[a] = "up",
         RowsMove, RowsAre', CountersAre',
         view' \in [Apps -> [Ids -> Rows]], known' \in [Apps -> [Ids -> Revisions]],
         \A b \in Apps, s \in Ids :
            \/ ShownIs(b, s)'
            \/ /\ view'[b][s] = view[b][s] /\ known'[b][s] = known[b][s]
               /\ <<b, s>> \in unheard => <<b, s>> \in unheard',
         listing' \in [Apps -> [Ids -> Rows] \cup {NoList}],
         \A a \in Apps : ListIs(listing[a])' \/ listing'[a] = listing[a] \/ listing'[a] = NoList,
         PlansAre', BlankIs'
  PROVE  ReplicaInv'
<1>1. FileIs'
  <2>1. InUse' => InUse
    BY DEF InUse, ReplicaInv, OpenersAre
  <2> QED
    BY <2>1 DEF FileIs, SchemaIs, ReplicaInv
<1>2. OpenersAre'
  BY DEF OpenersAre, SeenIs, ReplicaInv
<1>3. ViewsAre'
  <2> SUFFICES ASSUME NEW b \in Apps, NEW s \in Ids PROVE ShownIs(b, s)'
    BY DEF ViewsAre
  <2> QED
    BY ShownStill DEF ReplicaInv, ViewsAre
<1>4. ListsAre'
  <2> SUFFICES ASSUME NEW a \in Apps PROVE ListIs(listing[a])'
    BY DEF ListsAre
  <2>1. CASE listing'[a] = listing[a]
    BY <2>1, ListStill DEF ReplicaInv, ListsAre, ListIs
  <2>2. CASE listing'[a] = NoList
    BY <2>2 DEF ListIs
  <2>3. CASE ListIs(listing[a])'
    BY <2>3
  <2> QED
    BY <2>1, <2>2, <2>3
<1> QED
  BY <1>1, <1>2, <1>3, <1>4 DEF ReplicaInv

(* A write, and the snapshots the writer takes of it.                         *)
LEMMA OwnWriteKeeps ==
  ASSUME ReplicaInv, NEW a \in Apps, Up(a), NEW new, WriteAll(new), NextRows(new),
         NEW S, S \subseteq DOMAIN new, ShowOwn(a, S), UNCHANGED <<openVars, listing>>,
         holder' \in [Ids -> Apps \cup {NoApp}],
         \A s \in Ids : holder'[s] # NoApp => (Saved(s) \/ s \in DOMAIN new) /\ pc[holder'[s]] = "up",
         PlansAre', BlankIs'
  PROVE  ReplicaInv'
<1>1. InUse /\ file.version # 0 /\ UNCHANGED <<file, pc, seen>>
  BY UpUses, RowsOfUse DEF openVars
<1>2. RowsMove /\ RowsAre' /\ CountersAre' /\ RowsAre
  BY <1>1, WritesKeepRows DEF ReplicaInv
<1>3. \A s \in S : /\ s \in Ids /\ rows'[s] = new[s] /\ counter'[s] = new[s].rev
                   /\ lives'[s] = lives[s] /\ new[s].rev > counter[s] /\ new[s].life = lives[s]
  BY <1>2, WritesAreNext DEF NextRows
<1>4. /\ view' = [view EXCEPT ![a] = [s \in Ids |-> IF s \in S THEN rows'[s] ELSE @[s]]]
      /\ known' = [known EXCEPT ![a] =
                     [s \in Ids |-> IF s \in S THEN Later(@[s], rows'[s]) ELSE @[s]]]
      /\ unheard' = unheard \ {<<a, s>> : s \in S}
  BY DEF ShowOwn
<1>5. view \in [Apps -> [Ids -> Rows]] /\ known \in [Apps -> [Ids -> Revisions]]
  BY DEF ReplicaInv, ViewsAre
<1>6. view' \in [Apps -> [Ids -> Rows]]
  BY <1>2, <1>4, <1>5 DEF RowsMove
<1>7. known' \in [Apps -> [Ids -> Revisions]]
  <2>1. \A s \in Ids : Later(known[a][s], rows'[s]) \in Revisions
    BY <1>2, <1>5 DEF RowsMove, Later, RevisionOf, Rows, Revisions
  <2> QED
    BY <1>4, <1>5, <2>1
<1>8. ASSUME NEW s \in S PROVE ShownIs(a, s)'
  <2>1. view'[a][s] = rows'[s] /\ known'[a][s] = Later(known[a][s], rows'[s])
    BY <1>3, <1>4, <1>5
  <2>2. /\ rows[s] \in Rows /\ counter[s] \in Nat /\ lives[s] \in Nat /\ rows'[s] \in Rows
        /\ rows'[s].rev > counter[s] /\ rows'[s].life = lives[s]
        /\ counter'[s] = rows'[s].rev /\ lives'[s] = lives[s]
    BY <1>2, <1>3 DEF RowsAre, RowsMove
  <2> DEFINE stale == <<a, s>> \in unheard  stale2 == <<a, s>> \in unheard'
             v == view[a][s]  k == known[a][s]
  <2>3. Shown(v, k, stale, rows[s], counter[s], lives[s])
    BY <1>3 DEF ReplicaInv, ViewsAre, ShownIs
  <2>4. stale \in BOOLEAN /\ stale2 \in BOOLEAN
    OBVIOUS
  <2> HIDE DEF stale, stale2, v, k
  <2>5. Shown(rows'[s], Later(k, rows'[s]), stale2, rows'[s], rows'[s].rev, lives[s])
    BY <2>2, <2>3, <2>4, ShownWrite
  <2> QED
    BY <2>1, <2>2, <2>5 DEF ShownIs, stale2, k
<1>9. \A b \in Apps, s \in Ids : (b = a /\ s \in S) \/
        /\ view'[b][s] = view[b][s] /\ known'[b][s] = known[b][s]
        /\ <<b, s>> \in unheard => <<b, s>> \in unheard'
  BY <1>4, <1>5
<1>10. \A b \in Apps, s \in Ids :
        \/ ShownIs(b, s)'
        \/ /\ view'[b][s] = view[b][s] /\ known'[b][s] = known[b][s]
           /\ <<b, s>> \in unheard => <<b, s>> \in unheard'
  BY <1>8, <1>9
<1>11. listing' \in [Apps -> [Ids -> Rows] \cup {NoList}] /\ listing' = listing
  BY DEF ReplicaInv, ListsAre
<1>12. /\ pc' \in [Apps -> {"closed", "read", "columns", "open", "marked", "up"}]
       /\ \A b \in Apps : pc'[b] = pc[b]
  BY <1>1 DEF ReplicaInv, OpenersAre
<1> QED
  BY <1>1, <1>2, <1>6, <1>7, <1>10, <1>11, <1>12, StepKeeps

LEMMA HoldersAre ==
  ASSUME ReplicaInv, NEW s \in Ids, holder[s] # NoApp
  PROVE  Saved(s) /\ pc[holder[s]] = "up" /\ holder[s] \in Apps
  BY DEF ReplicaInv, RowsAre, Up

(* The row of one session is written by an application that holds it then.    *)
LEMMA OneWriteKeeps ==
  ASSUME ReplicaInv, NEW a \in Apps, Up(a), NEW s \in Ids, NEW r \in Rows,
         r.rev > counter[s], r.life = lives[s], Write(s, r), ShowOwn(a, {s}),
         holder' = [holder EXCEPT ![s] = a], UNCHANGED <<openVars, listing, plan>>
  PROVE  ReplicaInv'
<1> DEFINE new == [x \in {s} |-> r]
<1>1. DOMAIN new = {s} /\ new[s] = r
  OBVIOUS
<1>2. WriteAll(new)
  BY DEF Write
<1> HIDE DEF new
<1>3. NextRows(new)
  BY <1>1 DEF NextRows
<1>4. holder \in [Ids -> Apps \cup {NoApp}]
  BY DEF ReplicaInv, RowsAre
<1>5. holder' \in [Ids -> Apps \cup {NoApp}]
  BY <1>4
<1>6. \A x \in Ids : holder'[x] # NoApp => (Saved(x) \/ x \in DOMAIN new) /\ pc[holder'[x]] = "up"
  BY <1>1, <1>4, HoldersAre DEF Up
<1>7. PlansAre' /\ BlankIs'
  BY DEF ReplicaInv, PlansAre, BlankIs, Up, openVars
<1> QED
  BY <1>1, <1>2, <1>3, <1>5, <1>6, <1>7, OwnWriteKeeps

LEMMA BumpedIs ==
  ASSUME stamp \in Nat, NEW q \in Rows
  PROVE  Bumped(q) \in Rows /\ Bumped(q).rev = q.rev + 1 /\ Bumped(q).life = q.life
<1> DEFINE n == q.rev + 1  m == stamp + 1
           b == [q EXCEPT !.stamp = m, !.rev = n]
<1>1. n \in Nat /\ m \in Nat
  BY DEF Rows
<1>2. Bumped(q) = b
  BY DEF Bumped
<1> HIDE DEF n, m
<1>3. b \in Rows /\ b.rev = n /\ b.life = q.life
  BY <1>1 DEF Rows
<1> HIDE DEF b
<1>4. Bumped(q) \in Rows /\ Bumped(q).rev = n /\ Bumped(q).life = q.life
  BY <1>2, <1>3
<1> QED
  BY <1>4 DEF n

LEMMA BumpedIsNext ==
  ASSUME ReplicaInv, InUse, NEW s \in Ids, Saved(s)
  PROVE  LET b == Bumped(rows[s])
         IN  b \in Rows /\ b.rev > counter[s] /\ b.life = lives[s]
<1>1. /\ rows[s] \in Rows /\ stamp \in Nat /\ counter[s] = rows[s].rev /\ rows[s].life = lives[s]
      /\ rows[s].rev \in Nat
  BY RowsOfUse DEF ReplicaInv, RowsAre, Rows
<1> DEFINE b == Bumped(rows[s])
<1>2. b \in Rows /\ b.rev = rows[s].rev + 1 /\ b.life = rows[s].life
  BY <1>1, BumpedIs
<1> HIDE DEF b
<1>3. b \in Rows /\ b.rev > counter[s] /\ b.life = lives[s]
  BY <1>1, <1>2
<1> QED
  BY <1>3 DEF b

(* What else a write changes leaves it a row of that revision and life.       *)
LEMMA SameRevision ==
  ASSUME NEW b \in Rows, NEW v \in BOOLEAN
  PROVE  /\ [b EXCEPT !.done = v] \in Rows
         /\ [b EXCEPT !.done = v].rev = b.rev /\ [b EXCEPT !.done = v].life = b.life
         /\ [b EXCEPT !.on = v] \in Rows
         /\ [b EXCEPT !.on = v].rev = b.rev /\ [b EXCEPT !.on = v].life = b.life
<1>1. [b EXCEPT !.done = v] \in Rows /\ [b EXCEPT !.on = v] \in Rows
  BY DEF Rows
<1>2. [b EXCEPT !.done = v].rev = b.rev /\ [b EXCEPT !.done = v].life = b.life
  BY DEF Rows
<1>3. [b EXCEPT !.on = v].rev = b.rev /\ [b EXCEPT !.on = v].life = b.life
  BY DEF Rows
<1> QED
  BY <1>1, <1>2, <1>3

LEMMA MovedRevision ==
  ASSUME NEW b \in Rows, NEW v \in BOOLEAN, NEW c \in Checkouts
  PROVE  /\ [b EXCEPT !.at = c, !.on = v] \in Rows
         /\ [b EXCEPT !.at = c, !.on = v].rev = b.rev
         /\ [b EXCEPT !.at = c, !.on = v].life = b.life
  BY DEF Rows

LEMMA CreateKeeps ==
  ASSUME ReplicaInv, NEW a \in Apps, NEW s \in Ids, NEW c \in Checkouts, Create(a, s, c)
  PROVE  ReplicaInv'
<1> DEFINE r == [rev |-> counter[s] + 1, stamp |-> stamp + 1, life |-> lives[s],
                 at |-> c, on |-> TRUE, done |-> FALSE]
<1>1. r \in Rows /\ r.rev > counter[s] /\ r.life = lives[s]
  BY DEF ReplicaInv, RowsAre, Rows
<1>2. Up(a) /\ Write(s, r) /\ ShowOwn(a, {s}) /\ UNCHANGED <<openVars, listing, plan>>
      /\ holder' = [holder EXCEPT ![s] = a]
  BY DEF Create
<1> HIDE DEF r
<1> QED
  BY <1>1, <1>2, OneWriteKeeps

LEMMA UpdateKeeps ==
  ASSUME ReplicaInv, NEW a \in Apps, NEW s \in Ids, NEW done \in BOOLEAN, UpdateSession(a, s, done)
  PROVE  ReplicaInv'
<1> DEFINE b == Bumped(rows[s])  r == [b EXCEPT !.done = done]
<1>1. Up(a) /\ Write(s, r) /\ ShowOwn(a, {s}) /\ UNCHANGED <<openVars, holder, listing, plan>>
      /\ holder[s] = a
  BY DEF UpdateSession
<1>2. Saved(s) /\ InUse /\ rows[s] \in Rows /\ holder \in [Ids -> Apps \cup {NoApp}]
  BY <1>1, HoldersAre, UpUses, CatalogReplicaAssumption DEF ReplicaInv, RowsAre
<1>3. b \in Rows /\ b.rev > counter[s] /\ b.life = lives[s]
  BY <1>2, BumpedIsNext
<1> HIDE DEF b
<1>4. r \in Rows /\ r.rev = b.rev /\ r.life = b.life
  BY <1>3, SameRevision
<1>5. r \in Rows /\ r.rev > counter[s] /\ r.life = lives[s]
  BY <1>3, <1>4
<1>6. holder' = [holder EXCEPT ![s] = a]
  BY <1>1, <1>2
<1> HIDE DEF r
<1> QED
  BY <1>1, <1>5, <1>6, OneWriteKeeps

LEMMA ResumeKeeps ==
  ASSUME ReplicaInv, NEW a \in Apps, NEW s \in Ids, Resume(a, s)
  PROVE  ReplicaInv'
<1> DEFINE b == Bumped(rows[s])  r == [b EXCEPT !.done = FALSE]
<1>1. Up(a) /\ Write(s, r) /\ ShowOwn(a, {s}) /\ UNCHANGED <<openVars, listing, plan>>
      /\ Saved(s) /\ holder' = [holder EXCEPT ![s] = a]
  BY DEF Resume, Resumable
<1>2. InUse /\ rows[s] \in Rows
  BY <1>1, UpUses DEF ReplicaInv, RowsAre
<1>3. b \in Rows /\ b.rev > counter[s] /\ b.life = lives[s]
  BY <1>1, <1>2, BumpedIsNext
<1> HIDE DEF b
<1>4. FALSE \in BOOLEAN
  OBVIOUS
<1>5. r \in Rows /\ r.rev = b.rev /\ r.life = b.life
  BY <1>3, <1>4, SameRevision
<1>6. r \in Rows /\ r.rev > counter[s] /\ r.life = lives[s]
  BY <1>3, <1>5
<1> HIDE DEF r
<1> QED
  BY <1>1, <1>6, OneWriteKeeps

LEMMA CommitKeeps ==
  ASSUME ReplicaInv, NEW a \in Apps, NEW c \in Checkouts, NEW S \in SUBSET Ids, CommitRelink(a, c, S)
  PROVE  ReplicaInv'
<1> DEFINE p == plan[a]
           new == [g \in DOMAIN p |-> Relinked(rows[g], c)]
<1>1. Up(a) /\ WriteAll(new) /\ ShowOwn(a, S) /\ S \subseteq DOMAIN p
      /\ UNCHANGED <<openVars, holder, listing>> /\ plan' = [plan EXCEPT ![a] = NoList]
  BY DEF CommitRelink
<1>2. InUse
  BY <1>1, UpUses
<1>3. ASSUME NEW g \in DOMAIN p PROVE g \in Ids /\ Saved(g)
  <2>1. g \in Ids /\ p[g].rev > 0 /\ rows[g].rev = p[g].rev
    BY DEF ReplicaInv, PlansAre, CommitRelink, RelinkRefused, UnchangedSince
  <2> QED
    BY <2>1, NoRowIsRow DEF Saved
<1>4. ASSUME NEW g \in DOMAIN p
      PROVE  /\ Relinked(rows[g], c) \in Rows /\ Relinked(rows[g], c).rev > counter[g]
             /\ Relinked(rows[g], c).life = lives[g]
  <2> DEFINE b == Bumped(rows[g])  r == [b EXCEPT !.at = c, !.on = TRUE]
  <2>1. Relinked(rows[g], c) = r
    BY DEF Relinked
  <2>2. b \in Rows /\ b.rev > counter[g] /\ b.life = lives[g]
    BY <1>2, <1>3, BumpedIsNext
  <2> HIDE DEF b
  <2>3. TRUE \in BOOLEAN
    OBVIOUS
  <2>4. r \in Rows /\ r.rev = b.rev /\ r.life = b.life
    BY <2>2, <2>3, MovedRevision
  <2> QED
    BY <2>1, <2>2, <2>4
<1>5. DOMAIN new = DOMAIN p /\ \A g \in DOMAIN p : new[g] = Relinked(rows[g], c)
  OBVIOUS
<1>6. NextRows(new)
  BY <1>3, <1>4, <1>5 DEF NextRows
<1>7. holder' \in [Ids -> Apps \cup {NoApp}] /\ holder' = holder
  BY <1>1 DEF ReplicaInv, RowsAre
<1>8. \A x \in Ids : holder'[x] # NoApp => (Saved(x) \/ x \in DOMAIN new) /\ pc[holder'[x]] = "up"
  BY <1>7, HoldersAre
<1>9. PlansAre'
  BY <1>1 DEF ReplicaInv, PlansAre, NoList
<1>10. BlankIs'
  BY <1>1 DEF ReplicaInv, BlankIs, Up, openVars
<1> HIDE DEF new
<1> QED
  BY <1>1, <1>5, <1>6, <1>7, <1>8, <1>9, <1>10, OwnWriteKeeps

(* Steps that leave every row alone.                                          *)
LEMMA RowsStill ==
  ASSUME ReplicaInv, InUse, UNCHANGED <<file, rowVars>>,
         holder' \in [Ids -> Apps \cup {NoApp}],
         \A s \in Ids : holder'[s] # NoApp => holder'[s] = holder[s],
         \A b \in Apps : pc[b] = "up" => pc'[b] = "up"
  PROVE  RowsMove /\ RowsAre' /\ CountersAre' /\ file.version # 0
<1>1. UNCHANGED <<file, rows, counter, stamp, lives>> /\ RowsAre /\ CountersAre
  BY DEF rowVars, ReplicaInv, FileIs
<1>2. RowsMove
  BY <1>1, RowsRest
<1>3. CountersAre'
  BY <1>1 DEF CountersAre, Saved
<1>4. \A s \in Ids : holder'[s] # NoApp => Saved(s)' /\ Up(holder[s])'
  BY <1>1, HoldersAre DEF Saved, Up
<1>5. RowsAre'
  BY <1>1, <1>4 DEF RowsAre, Saved
<1> QED
  BY <1>2, <1>3, <1>5, RowsOfUse

LEMMA StillKeeps ==
  ASSUME ReplicaInv, InUse, UNCHANGED <<openVars, rowVars>>,
         holder' \in [Ids -> Apps \cup {NoApp}],
         \A s \in Ids : holder'[s] # NoApp => holder'[s] = holder[s],
         view' \in [Apps -> [Ids -> Rows]], known' \in [Apps -> [Ids -> Revisions]],
         \A b \in Apps, s \in Ids :
            \/ ShownIs(b, s)'
            \/ /\ view'[b][s] = view[b][s] /\ known'[b][s] = known[b][s]
               /\ <<b, s>> \in unheard => <<b, s>> \in unheard',
         listing' \in [Apps -> [Ids -> Rows] \cup {NoList}],
         \A b \in Apps : ListIs(listing[b])' \/ listing'[b] = listing[b] \/ listing'[b] = NoList,
         PlansAre', BlankIs'
  PROVE  ReplicaInv'
<1>1. UNCHANGED <<file, pc, seen>>
  BY DEF openVars
<1>2. /\ pc' \in [Apps -> {"closed", "read", "columns", "open", "marked", "up"}]
      /\ \A b \in Apps : pc'[b] = pc[b]
  BY <1>1 DEF ReplicaInv, OpenersAre
<1>3. RowsMove /\ RowsAre' /\ CountersAre' /\ file.version # 0
  BY <1>1, RowsStill
<1> QED
  BY <1>1, <1>2, <1>3, StepKeeps

LEMMA ReleaseKeeps ==
  ASSUME ReplicaInv, NEW a \in Apps, NEW s \in Ids, ReleaseWorktree(a, s)
  PROVE  ReplicaInv'
<1>1. /\ UNCHANGED <<openVars, rowVars, viewVars>> /\ UNCHANGED <<view, known, listing, plan, unheard>>
      /\ Up(a) /\ holder' = [holder EXCEPT ![s] = NoApp] /\ pc' = pc
  BY DEF ReleaseWorktree, viewVars, openVars
<1>2. holder \in [Ids -> Apps \cup {NoApp}]
  BY DEF ReplicaInv, RowsAre
<1>3. /\ holder' \in [Ids -> Apps \cup {NoApp}]
      /\ \A x \in Ids : holder'[x] # NoApp => holder'[x] = holder[x]
  BY <1>1, <1>2
<1>4. PlansAre' /\ BlankIs'
  BY <1>1 DEF ReplicaInv, PlansAre, BlankIs, Up
<1>5. /\ view' \in [Apps -> [Ids -> Rows]] /\ known' \in [Apps -> [Ids -> Revisions]]
      /\ listing' \in [Apps -> [Ids -> Rows] \cup {NoList}]
  BY <1>1 DEF ReplicaInv, ViewsAre, ListsAre
<1> QED
  BY <1>1, <1>3, <1>4, <1>5, UpUses, StillKeeps

LEMMA CheckoutKeeps ==
  ASSUME ReplicaInv, NEW c \in Checkouts, CheckoutChanges(c)
  PROVE  ReplicaInv'
<1>1. /\ UNCHANGED <<openVars, rowVars>> /\ UNCHANGED <<holder, view, known, listing, plan, unheard>>
      /\ pc' = pc /\ InUse
  BY DEF CheckoutChanges, viewVars, openVars, InUse
<1>2. holder' \in [Ids -> Apps \cup {NoApp}]
  BY <1>1 DEF ReplicaInv, RowsAre
<1>4. PlansAre' /\ BlankIs'
  BY <1>1 DEF ReplicaInv, PlansAre, BlankIs, Up
<1>5. /\ view' \in [Apps -> [Ids -> Rows]] /\ known' \in [Apps -> [Ids -> Revisions]]
      /\ listing' \in [Apps -> [Ids -> Rows] \cup {NoList}]
  BY <1>1 DEF ReplicaInv, ViewsAre, ListsAre
<1> QED
  BY <1>1, <1>2, <1>4, <1>5, StillKeeps

(* Relink validates the rows of a group, or gives its plan up.                *)
LEMMA PlanKeeps ==
  ASSUME ReplicaInv, NEW a \in Apps,
         AbandonRelink(a) \/ (\E s \in Ids : ValidateRelink(a, s))
  PROVE  ReplicaInv'
<1>1. /\ UNCHANGED <<openVars, rowVars>> /\ UNCHANGED <<holder, view, known, listing, unheard>>
      /\ pc' = pc
  BY DEF AbandonRelink, ValidateRelink, openVars
<1>2. Up(a) /\ InUse
  BY UpUses DEF AbandonRelink, ValidateRelink, ReplicaInv, BlankIs
<1>3. holder' \in [Ids -> Apps \cup {NoApp}]
  BY <1>1 DEF ReplicaInv, RowsAre
<1>4. PlansAre'
  <2>1. CASE AbandonRelink(a)
    BY <2>1 DEF ReplicaInv, PlansAre, AbandonRelink, NoList
  <2>2. CASE \E s \in Ids : ValidateRelink(a, s)
    <3>1. PICK s \in Ids : ValidateRelink(a, s)
      BY <2>2
    <3> DEFINE G == Group(rows[s].at)
               p == [g \in G |-> rows[g]]
    <3>2. G \subseteq Ids /\ \A g \in G : rows[g].rev > 0
      BY <1>2, RowsOfUse DEF Group
    <3>3. plan' = [plan EXCEPT ![a] = p]
      BY <3>1 DEF ValidateRelink
    <3>4. DOMAIN p = G /\ \A g \in G : p[g] = rows[g]
      OBVIOUS
    <3> HIDE DEF p, G
    <3> QED
      BY <3>2, <3>3, <3>4 DEF ReplicaInv, PlansAre
  <2> QED
    BY <2>1, <2>2
<1>5. BlankIs'
  <2>1. \A b \in Apps \ {a} : plan'[b] = plan[b]
    BY DEF AbandonRelink, ValidateRelink, ReplicaInv, PlansAre
  <2> QED
    BY <1>1, <1>2, <2>1 DEF ReplicaInv, BlankIs, Up
<1>6. /\ view' \in [Apps -> [Ids -> Rows]] /\ known' \in [Apps -> [Ids -> Revisions]]
      /\ listing' \in [Apps -> [Ids -> Rows] \cup {NoList}]
  BY <1>1 DEF ReplicaInv, ViewsAre, ListsAre
<1> QED
  BY <1>1, <1>2, <1>3, <1>4, <1>5, <1>6, StillKeeps

LEMMA ListedKeeps ==
  ASSUME ReplicaInv, NEW a \in Apps, Listed(a)
  PROVE  ReplicaInv'
<1>1. /\ UNCHANGED <<openVars, rowVars>> /\ UNCHANGED <<holder, view, known, plan, unheard>>
      /\ pc' = pc /\ listing' = [listing EXCEPT ![a] = rows] /\ Up(a)
  BY DEF Listed, openVars
<1>2. InUse /\ rows' = rows /\ counter' = counter /\ lives' = lives
  BY <1>1, UpUses DEF rowVars
<1>3. holder' \in [Ids -> Apps \cup {NoApp}]
  BY <1>1 DEF ReplicaInv, RowsAre
<1>4. listing' \in [Apps -> [Ids -> Rows] \cup {NoList}] /\ listing'[a] = rows
  BY <1>1 DEF ReplicaInv, ListsAre, RowsAre
<1>5. ASSUME NEW s \in Ids PROVE WasRow(rows[s], rows[s], counter[s], lives[s])
  <2>1. rows[s] \in Rows /\ counter[s] \in Nat /\ lives[s] \in Nat
    BY DEF ReplicaInv, RowsAre
  <2>2. rows[s] # NoRow => rows[s].rev > 0 /\ rows[s].life = lives[s] /\ counter[s] = rows[s].rev
    BY <1>2, RowsOfUse DEF Saved
  <2> QED
    BY <2>1, <2>2 DEF WasRow
<1>6. ListIs(listing[a])'
  BY <1>2, <1>4, <1>5 DEF ListIs
<1>7. \A b \in Apps : ListIs(listing[b])' \/ listing'[b] = listing[b]
  BY <1>1, <1>6
<1>8. PlansAre' /\ BlankIs'
  BY <1>1 DEF ReplicaInv, PlansAre, BlankIs, Up
<1>9. view' \in [Apps -> [Ids -> Rows]] /\ known' \in [Apps -> [Ids -> Revisions]]
  BY <1>1 DEF ReplicaInv, ViewsAre
<1> QED
  BY <1>1, <1>2, <1>3, <1>4, <1>7, <1>8, <1>9, StillKeeps

LEMMA RefusedKeeps ==
  ASSUME ReplicaInv, NEW a \in Apps, NEW s \in Ids, ResumeRefused(a, s)
  PROVE  ReplicaInv'
<1>1. /\ UNCHANGED <<openVars, rowVars>> /\ UNCHANGED <<holder, view, listing, plan>>
      /\ pc' = pc /\ Up(a) /\ Saved(s) /\ view[a][s] # NoRow
      /\ known' = [known EXCEPT ![a][s] = Later(@, rows[s])]
      /\ unheard' = IF view[a][s] = rows[s] THEN unheard ELSE unheard \cup {<<a, s>>}
  BY DEF ResumeRefused, Resumable, openVars
<1>2. /\ InUse /\ UNCHANGED <<rows, counter, lives>>
      /\ rows[s].rev > 0 /\ counter[s] = rows[s].rev /\ rows[s].life = lives[s]
  BY <1>1, UpUses, RowsOfUse DEF rowVars
<1>3. /\ rows[s] \in Rows /\ lives[s] \in Nat /\ holder' \in [Ids -> Apps \cup {NoApp}]
      /\ known \in [Apps -> [Ids -> Revisions]]
  BY <1>1 DEF ReplicaInv, RowsAre, ViewsAre
<1>4. /\ known'[a][s] = Later(known[a][s], rows[s])
      /\ \A b \in Apps, x \in Ids : b # a \/ x # s => known'[b][x] = known[b][x]
  BY <1>1, <1>3
<1>5. known' \in [Apps -> [Ids -> Revisions]]
  <2>1. Later(known[a][s], rows[s]) \in Revisions
    BY <1>3 DEF Later, RevisionOf, Rows, Revisions
  <2> QED
    BY <1>1, <1>3, <2>1
<1>6. ShownIs(a, s)'
  <2> DEFINE stale == <<a, s>> \in unheard  stale2 == <<a, s>> \in unheard'
             v == view[a][s]  k == known[a][s]
  <2>1. Shown(v, k, stale, rows[s], counter[s], lives[s])
    BY DEF ReplicaInv, ViewsAre, ShownIs
  <2>2. stale \in BOOLEAN /\ stale2 \in BOOLEAN /\ (stale2 <=> (stale \/ v # rows[s]))
    BY <1>1
  <2>3. v # NoRow /\ rows[s] # NoRow
    BY <1>1 DEF Saved
  <2> HIDE DEF stale, stale2, v, k
  <2>4. Shown(v, Later(k, rows[s]), stale2, rows[s], rows[s].rev, lives[s])
    BY <1>2, <1>3, <2>1, <2>2, <2>3, ShownRefused
  <2> QED
    BY <1>1, <1>2, <1>4, <2>4 DEF ShownIs, v, k, stale2
<1>7. \A b \in Apps, x \in Ids :
        \/ ShownIs(b, x)'
        \/ /\ view'[b][x] = view[b][x] /\ known'[b][x] = known[b][x]
           /\ <<b, x>> \in unheard => <<b, x>> \in unheard'
  BY <1>1, <1>4, <1>6
<1>8. PlansAre' /\ BlankIs'
  BY <1>1 DEF ReplicaInv, PlansAre, BlankIs, Up
<1>9. view' \in [Apps -> [Ids -> Rows]] /\ listing' \in [Apps -> [Ids -> Rows] \cup {NoList}]
  BY <1>1 DEF ReplicaInv, ViewsAre, ListsAre
<1> QED
  BY <1>1, <1>2, <1>3, <1>5, <1>7, <1>8, <1>9, StillKeeps

LEMMA SynchronizeKeeps ==
  ASSUME ReplicaInv, NEW a \in Apps, Synchronize(a)
  PROVE  ReplicaInv'
<1> DEFINE l == listing[a]  out == Removable(a, l)  new == Newer(a, l)
<1>1. /\ UNCHANGED <<openVars, rowVars>> /\ UNCHANGED <<holder, plan>> /\ pc' = pc
      /\ Up(a) /\ l # NoList
      /\ view' = [view EXCEPT ![a] = [s \in Ids |->
                    IF s \in new THEN l[s] ELSE IF s \in out THEN NoRow ELSE @[s]]]
      /\ known' = [known EXCEPT ![a] = [s \in Ids |->
                    IF s \in new THEN Later(@[s], l[s])
                    ELSE IF s \in out THEN NothingKnown ELSE @[s]]]
      /\ listing' = [listing EXCEPT ![a] = NoList]
      /\ unheard' = unheard \ {<<a, s>> : s \in new \cup out}
  BY DEF Synchronize, openVars
<1>2. InUse /\ UNCHANGED <<rows, counter, lives>>
  BY <1>1, UpUses DEF rowVars
<1>3. l \in [Ids -> Rows] /\ ListIs(l)
  BY <1>1 DEF ReplicaInv, ListsAre
<1>4. /\ view \in [Apps -> [Ids -> Rows]] /\ known \in [Apps -> [Ids -> Revisions]]
      /\ holder' \in [Ids -> Apps \cup {NoApp}]
  BY <1>1 DEF ReplicaInv, ViewsAre, RowsAre
<1>5. \A s \in new : s \in Ids /\ l[s] # NoRow /\ l[s].rev > known[a][s].rev
  BY DEF Newer
<1> HIDE DEF l, out, new
<1>6. view' \in [Apps -> [Ids -> Rows]]
  BY <1>1, <1>3, <1>4, NoRowIsRow
<1>7. known' \in [Apps -> [Ids -> Revisions]]
  <2>1. \A s \in Ids : Later(known[a][s], l[s]) \in Revisions /\ NothingKnown \in Revisions
    BY <1>3, <1>4 DEF Later, RevisionOf, NothingKnown, Rows, Revisions
  <2> QED
    BY <1>1, <1>4, <2>1
<1>8. ASSUME NEW s \in Ids, s \in new \/ s \in out PROVE ShownIs(a, s)'
  <2> DEFINE stale == <<a, s>> \in unheard'
  <2>1. rows[s] \in Rows /\ counter[s] \in Nat /\ lives[s] \in Nat /\ stale \in BOOLEAN
    BY DEF ReplicaInv, RowsAre
  <2> HIDE DEF stale
  <2>2. CASE s \in new
    <3>1. view'[a][s] = l[s] /\ known'[a][s] = Later(known[a][s], l[s])
      BY <1>1, <1>4, <2>2
    <3>2. known[a][s].rev \in Nat /\ l[s] # NoRow /\ l[s].rev > known[a][s].rev
      BY <1>4, <1>5, <2>2 DEF Revisions
    <3>3. WasRow(l[s], rows[s], counter[s], lives[s])
      BY <1>1, <1>3 DEF ListIs
    <3>4. Shown(l[s], Later(known[a][s], l[s]), stale, rows[s], counter[s], lives[s])
      BY <2>1, <3>2, <3>3, ShownList
    <3> QED
      BY <1>2, <3>1, <3>4 DEF ShownIs, stale
  <2>3. CASE s \notin new
    <3>1. view'[a][s] = NoRow /\ known'[a][s] = NothingKnown
      BY <1>1, <1>4, <1>8, <2>3
    <3>2. Shown(NoRow, NothingKnown, stale, rows[s], counter[s], lives[s])
      BY <2>1, ShownNothing
    <3> QED
      BY <1>2, <3>1, <3>2 DEF ShownIs, stale
  <2> QED
    BY <2>2, <2>3
<1>9. \A b \in Apps, s \in Ids : (b = a /\ (s \in new \/ s \in out)) \/
        /\ view'[b][s] = view[b][s] /\ known'[b][s] = known[b][s]
        /\ <<b, s>> \in unheard => <<b, s>> \in unheard'
  BY <1>1, <1>4
<1>10. \A b \in Apps, s \in Ids :
        \/ ShownIs(b, s)'
        \/ /\ view'[b][s] = view[b][s] /\ known'[b][s] = known[b][s]
           /\ <<b, s>> \in unheard => <<b, s>> \in unheard'
  BY <1>8, <1>9
<1>11. /\ listing' \in [Apps -> [Ids -> Rows] \cup {NoList}]
       /\ \A b \in Apps : listing'[b] = listing[b] \/ listing'[b] = NoList
  BY <1>1 DEF ReplicaInv, ListsAre
<1>12. PlansAre' /\ BlankIs'
  BY <1>1 DEF ReplicaInv, PlansAre, BlankIs, Up
<1> QED
  BY <1>1, <1>2, <1>4, <1>6, <1>7, <1>10, <1>11, <1>12, StillKeeps

LEMMA MarkKeeps ==
  ASSUME ReplicaInv, NEW a \in Apps, MarkMissingWorktreesUnavailable(a)
  PROVE  ReplicaInv'
<1> DEFINE new == [s \in Gone |-> [Bumped(rows[s]) EXCEPT !.on = FALSE]]
<1>1. /\ pc[a] = "open" /\ pc' = [pc EXCEPT ![a] = "marked"]
      /\ UNCHANGED rowVars \/ WriteAll(new)
      /\ UNCHANGED <<file, seen, holder, view, known, listing, plan, unheard>>
  BY DEF MarkMissingWorktreesUnavailable, viewVars
<1>2. InUse /\ file.version # 0
  BY <1>1, UpUses, RowsOfUse
<1>3. /\ pc' \in [Apps -> {"closed", "read", "columns", "open", "marked", "up"}]
      /\ \A b \in Apps : pc'[b] = pc[b] \/ (pc[b] = "open" /\ pc'[b] = "marked")
      /\ \A b \in Apps : pc'[b] = "up" <=> pc[b] = "up"
  BY <1>1 DEF ReplicaInv, OpenersAre
<1>4. holder' \in [Ids -> Apps \cup {NoApp}] /\ holder' = holder
  BY <1>1 DEF ReplicaInv, RowsAre
<1>5. RowsMove /\ RowsAre' /\ CountersAre'
  <2>1. CASE UNCHANGED rowVars
    BY <1>1, <1>2, <1>3, <1>4, <2>1, RowsStill
  <2>2. CASE WriteAll(new)
    <3>1. DOMAIN new = Gone /\ \A s \in Gone : new[s] = [Bumped(rows[s]) EXCEPT !.on = FALSE]
      OBVIOUS
    <3>2. ASSUME NEW s \in Gone
          PROVE  new[s] \in Rows /\ new[s].rev > counter[s] /\ new[s].life = lives[s]
      <4> DEFINE b == Bumped(rows[s])  r == [b EXCEPT !.on = FALSE]
      <4>1. s \in Ids /\ Saved(s) /\ new[s] = r
        BY DEF Gone
      <4>2. b \in Rows /\ b.rev > counter[s] /\ b.life = lives[s]
        BY <1>2, <4>1, BumpedIsNext
      <4> HIDE DEF b
      <4>3. FALSE \in BOOLEAN
        OBVIOUS
      <4>4. r \in Rows /\ r.rev = b.rev /\ r.life = b.life
        BY <4>2, <4>3, SameRevision
      <4> QED
        BY <4>1, <4>2, <4>4
    <3>3. Gone \subseteq Ids
      BY DEF Gone
    <3> HIDE DEF new
    <3>4. NextRows(new)
      BY <3>1, <3>2, <3>3 DEF NextRows
    <3>5. \A s \in Ids : holder'[s] # NoApp => (Saved(s) \/ s \in DOMAIN new) /\ pc'[holder'[s]] = "up"
      BY <1>3, <1>4, HoldersAre
    <3> QED
      BY <1>1, <1>2, <1>4, <2>2, <3>4, <3>5, WritesKeepRows
  <2> QED
    BY <1>1, <2>1, <2>2
<1> HIDE DEF new
<1>6. /\ view' \in [Apps -> [Ids -> Rows]] /\ known' \in [Apps -> [Ids -> Revisions]]
      /\ listing' \in [Apps -> [Ids -> Rows] \cup {NoList}]
  BY <1>1 DEF ReplicaInv, ViewsAre, ListsAre
<1>7. PlansAre' /\ BlankIs'
  BY <1>1, <1>3 DEF ReplicaInv, PlansAre, BlankIs, Up
<1> QED
  BY <1>1, <1>2, <1>3, <1>5, <1>6, <1>7, StepKeeps

LEMMA ConstructKeeps ==
  ASSUME ReplicaInv, NEW a \in Apps, Construct(a)
  PROVE  ReplicaInv'
<1>1. /\ pc[a] = "marked" /\ pc' = [pc EXCEPT ![a] = "up"]
      /\ view' = [view EXCEPT ![a] = rows]
      /\ known' = [known EXCEPT ![a] = [s \in Ids |-> RevisionOf(rows[s])]]
      /\ unheard' = {p \in unheard : p[1] # a}
      /\ UNCHANGED <<file, seen, holder, listing, plan>> /\ UNCHANGED rowVars
  BY DEF Construct
<1>2. InUse /\ file.version # 0 /\ UNCHANGED <<rows, counter, lives>>
  BY <1>1, UpUses, RowsOfUse DEF rowVars
<1>3. /\ pc' \in [Apps -> {"closed", "read", "columns", "open", "marked", "up"}]
      /\ \A b \in Apps : pc'[b] = pc[b] \/ (pc[b] = "marked" /\ pc'[b] = "up")
      /\ \A b \in Apps : pc[b] = "up" => pc'[b] = "up"
  BY <1>1 DEF ReplicaInv, OpenersAre
<1>4. holder' \in [Ids -> Apps \cup {NoApp}] /\ holder' = holder
  BY <1>1 DEF ReplicaInv, RowsAre
<1>5. RowsMove /\ RowsAre' /\ CountersAre'
  BY <1>1, <1>2, <1>3, <1>4, RowsStill
<1>6. /\ view \in [Apps -> [Ids -> Rows]] /\ known \in [Apps -> [Ids -> Revisions]]
      /\ rows \in [Ids -> Rows]
  BY DEF ReplicaInv, ViewsAre, RowsAre
<1>7. view' \in [Apps -> [Ids -> Rows]]
  BY <1>1, <1>6
<1>8. known' \in [Apps -> [Ids -> Revisions]]
  <2>1. \A s \in Ids : RevisionOf(rows[s]) \in Revisions
    BY <1>6 DEF RevisionOf, Rows, Revisions
  <2> QED
    BY <1>1, <1>6, <2>1
<1>9. ASSUME NEW s \in Ids PROVE ShownIs(a, s)'
  <2> DEFINE stale == <<a, s>> \in unheard'
  <2>1. /\ rows[s] \in Rows /\ counter[s] \in Nat /\ lives[s] \in Nat /\ stale \in BOOLEAN
        /\ rows[s] # NoRow => rows[s].rev > 0 /\ rows[s].life = lives[s] /\ counter[s] = rows[s].rev
    BY <1>2, RowsOfUse DEF ReplicaInv, RowsAre, Saved
  <2>2. view'[a][s] = rows[s] /\ known'[a][s] = RevisionOf(rows[s])
    BY <1>1, <1>6
  <2> HIDE DEF stale
  <2>3. Shown(rows[s], RevisionOf(rows[s]), stale, rows[s], counter[s], lives[s])
    BY <2>1, ShownWhole
  <2> QED
    BY <1>2, <2>2, <2>3 DEF ShownIs, stale
<1>10. ASSUME NEW b \in Apps, NEW s \in Ids, b # a
       PROVE  /\ view'[b][s] = view[b][s] /\ known'[b][s] = known[b][s]
              /\ <<b, s>> \in unheard => <<b, s>> \in unheard'
  BY <1>1, <1>6, <1>10
<1>11. \A b \in Apps, s \in Ids :
        \/ ShownIs(b, s)'
        \/ /\ view'[b][s] = view[b][s] /\ known'[b][s] = known[b][s]
           /\ <<b, s>> \in unheard => <<b, s>> \in unheard'
  BY <1>9, <1>10
<1>12. listing' \in [Apps -> [Ids -> Rows] \cup {NoList}] /\ listing' = listing
  BY <1>1 DEF ReplicaInv, ListsAre
<1>13. PlansAre' /\ BlankIs'
  BY <1>1, <1>3 DEF ReplicaInv, PlansAre, BlankIs, Up
<1> QED
  BY <1>1, <1>2, <1>3, <1>5, <1>7, <1>8, <1>11, <1>12, <1>13, StepKeeps

LEMMA RollbackKeeps ==
  ASSUME ReplicaInv, NEW a \in Apps, NEW s \in Ids, RollbackStart(a, s)
  PROVE  ReplicaInv'
<1>1. /\ Up(a) /\ rows' = [rows EXCEPT ![s] = NoRow] /\ holder' = [holder EXCEPT ![s] = NoApp]
      /\ view' = [view EXCEPT ![a][s] = NoRow] /\ pc' = pc
      /\ UNCHANGED <<file, seen, counter, stamp, lives, known, listing, plan, unheard>>
  BY DEF RollbackStart, openVars
<1>2. InUse /\ file.version # 0
  BY <1>1, UpUses, RowsOfUse
<1>3. /\ rows \in [Ids -> Rows] /\ counter \in [Ids -> Nat] /\ lives \in [Ids -> Nat]
      /\ holder \in [Ids -> Apps \cup {NoApp}] /\ view \in [Apps -> [Ids -> Rows]]
      /\ known \in [Apps -> [Ids -> Revisions]]
  BY DEF ReplicaInv, RowsAre, ViewsAre
<1>4. rows'[s] = NoRow /\ \A x \in Ids \ {s} : rows'[x] = rows[x] /\ holder'[x] = holder[x]
  BY <1>1, <1>3
<1>5. RowsMove
  BY <1>1, <1>3, <1>4, NoRowIsRow DEF RowsMove, RowMoves
<1>6. RowsAre'
  BY <1>1, <1>3, <1>4, NoRowIsRow DEF ReplicaInv, RowsAre, Saved, Up
<1>7. CountersAre'
  BY <1>1, <1>4 DEF ReplicaInv, FileIs, CountersAre, Saved
<1>8. view' \in [Apps -> [Ids -> Rows]] /\ known' \in [Apps -> [Ids -> Revisions]]
  BY <1>1, <1>3, NoRowIsRow
<1>9. ShownIs(a, s)'
  <2> DEFINE stale == <<a, s>> \in unheard  v == view[a][s]  k == known[a][s]
  <2>1. /\ rows[s] \in Rows /\ counter[s] \in Nat /\ lives[s] \in Nat /\ stale \in BOOLEAN
        /\ Shown(v, k, stale, rows[s], counter[s], lives[s])
    BY DEF ReplicaInv, RowsAre, ViewsAre, ShownIs
  <2>2. view'[a][s] = NoRow
    BY <1>1, <1>3
  <2> HIDE DEF stale, v, k
  <2>3. Shown(NoRow, k, stale, NoRow, counter[s], lives[s])
    BY <2>1, ShownRolledBack
  <2> QED
    BY <1>1, <1>4, <2>2, <2>3 DEF ShownIs, stale, k
<1>10. \A b \in Apps, x \in Ids :
        \/ ShownIs(b, x)'
        \/ /\ view'[b][x] = view[b][x] /\ known'[b][x] = known[b][x]
           /\ <<b, x>> \in unheard => <<b, x>> \in unheard'
  BY <1>1, <1>3, <1>9
<1>11. /\ listing' \in [Apps -> [Ids -> Rows] \cup {NoList}] /\ listing' = listing
       /\ pc' \in [Apps -> {"closed", "read", "columns", "open", "marked", "up"}]
  BY <1>1 DEF ReplicaInv, ListsAre, OpenersAre
<1>12. PlansAre' /\ BlankIs'
  BY <1>1 DEF ReplicaInv, PlansAre, BlankIs, Up
<1> QED
  BY <1>1, <1>2, <1>5, <1>6, <1>7, <1>8, <1>10, <1>11, <1>12, StepKeeps

LEMMA ForgetKeeps ==
  ASSUME ReplicaInv, NEW a \in Apps, NEW s \in Ids, Forget(a, s)
  PROVE  ReplicaInv'
<1>1. /\ Up(a) /\ rows' = [rows EXCEPT ![s] = NoRow] /\ counter' = [counter EXCEPT ![s] = 0]
      /\ lives' = [lives EXCEPT ![s] = @ + 1] /\ holder[s] = NoApp
      /\ view' = [view EXCEPT ![a][s] = NoRow] /\ known' = [known EXCEPT ![a][s] = NothingKnown]
      /\ unheard' = unheard \ {<<a, s>>} /\ pc' = pc
      /\ UNCHANGED <<file, seen, stamp, holder, listing, plan>>
  BY DEF Forget, openVars
<1>2. InUse /\ file.version # 0
  BY <1>1, UpUses, RowsOfUse
<1>3. /\ rows \in [Ids -> Rows] /\ counter \in [Ids -> Nat] /\ lives \in [Ids -> Nat]
      /\ holder \in [Ids -> Apps \cup {NoApp}] /\ view \in [Apps -> [Ids -> Rows]]
      /\ known \in [Apps -> [Ids -> Revisions]]
  BY DEF ReplicaInv, RowsAre, ViewsAre
<1>4. /\ rows'[s] = NoRow /\ counter'[s] = 0 /\ lives'[s] = lives[s] + 1
      /\ \A x \in Ids \ {s} :
           rows'[x] = rows[x] /\ counter'[x] = counter[x] /\ lives'[x] = lives[x]
  BY <1>1, <1>3
<1>5. RowsMove
  <2>1. rows' \in [Ids -> Rows] /\ counter' \in [Ids -> Nat] /\ lives' \in [Ids -> Nat]
    BY <1>1, <1>3, NoRowIsRow
  <2> QED
    BY <1>3, <1>4, <2>1 DEF RowsMove, RowMoves
<1>6. RowsAre'
  BY <1>1, <1>3, <1>4, <1>5 DEF ReplicaInv, RowsAre, RowsMove, Saved, Up
<1>7. CountersAre'
  BY <1>1, <1>4 DEF ReplicaInv, FileIs, CountersAre, Saved
<1>8. view' \in [Apps -> [Ids -> Rows]] /\ known' \in [Apps -> [Ids -> Revisions]]
  <2>1. NothingKnown \in Revisions
    BY DEF NothingKnown, Revisions
  <2> QED
    BY <1>1, <1>3, <2>1, NoRowIsRow
<1>9. ShownIs(a, s)'
  <2> DEFINE stale == <<a, s>> \in unheard'
  <2>1. /\ rows'[s] \in Rows /\ counter'[s] \in Nat /\ lives'[s] \in Nat /\ stale \in BOOLEAN
    BY <1>5 DEF RowsMove
  <2>2. view'[a][s] = NoRow /\ known'[a][s] = NothingKnown
    BY <1>1, <1>3
  <2> HIDE DEF stale
  <2>3. Shown(NoRow, NothingKnown, stale, rows'[s], counter'[s], lives'[s])
    BY <2>1, ShownNothing
  <2> QED
    BY <2>2, <2>3 DEF ShownIs, stale
<1>10. \A b \in Apps, x \in Ids :
        \/ ShownIs(b, x)'
        \/ /\ view'[b][x] = view[b][x] /\ known'[b][x] = known[b][x]
           /\ <<b, x>> \in unheard => <<b, x>> \in unheard'
  BY <1>1, <1>3, <1>9
<1>11. /\ listing' \in [Apps -> [Ids -> Rows] \cup {NoList}] /\ listing' = listing
       /\ pc' \in [Apps -> {"closed", "read", "columns", "open", "marked", "up"}]
  BY <1>1 DEF ReplicaInv, ListsAre, OpenersAre
<1>12. PlansAre' /\ BlankIs'
  BY <1>1 DEF ReplicaInv, PlansAre, BlankIs, Up
<1> QED
  BY <1>1, <1>2, <1>5, <1>6, <1>7, <1>8, <1>10, <1>11, <1>12, StepKeeps

---------------------------------------------------------------------------
LEMMA ReplicaInvInit == ReplicaInit => ReplicaInv
<1> SUFFICES ASSUME ReplicaInit PROVE ReplicaInv
  OBVIOUS
<1>1. PICK v \in Found, weak \in BOOLEAN :
        /\ weak => v = 7
        /\ file = [version |-> v,
                   tables |-> WrittenAt(v) \ (IF weak THEN {"progress_check"} ELSE {})]
        /\ \/ rows = [s \in Ids |-> NoRow]
           \/ \E s \in Ids, c \in Checkouts, on \in BOOLEAN :
                 /\ v > 0
                 /\ rows = [[x \in Ids |-> NoRow] EXCEPT ![s] =
                              [NoRow EXCEPT !.rev = 1, !.at = c, !.on = on]]
  BY DEF ReplicaInit
<1>2. v \in 0..8
  BY CatalogReplicaAssumption
<1>3. rows \in [Ids -> Rows] /\ \A s \in Ids : Saved(s) => v > 0 /\ rows[s].rev = 1 /\ rows[s].life = 0
  <2>1. CASE rows = [s \in Ids |-> NoRow]
    BY <2>1, NoRowIsRow DEF Saved
  <2>2. CASE \E s \in Ids, c \in Checkouts, on \in BOOLEAN :
               /\ v > 0
               /\ rows = [[x \in Ids |-> NoRow] EXCEPT ![s] =
                            [NoRow EXCEPT !.rev = 1, !.at = c, !.on = on]]
    <3>1. PICK s \in Ids, c \in Checkouts, on \in BOOLEAN :
               /\ v > 0
               /\ rows = [[x \in Ids |-> NoRow] EXCEPT ![s] =
                            [NoRow EXCEPT !.rev = 1, !.at = c, !.on = on]]
      BY <2>2
    <3> DEFINE r == [NoRow EXCEPT !.rev = 1, !.at = c, !.on = on]
    <3>2. r \in Rows /\ r.rev = 1 /\ r.life = 0
      BY DEF NoRow, Rows
    <3>3. rows = [[x \in Ids |-> NoRow] EXCEPT ![s] = r]
      BY <3>1
    <3> HIDE DEF r
    <3>4. rows \in [Ids -> Rows] /\ rows[s] = r /\ \A x \in Ids \ {s} : rows[x] = NoRow
      BY <3>2, <3>3, NoRowIsRow
    <3> QED
      BY <3>1, <3>2, <3>4 DEF Saved
  <2> QED
    BY <1>1, <2>1, <2>2
<1>4. /\ counter = [s \in Ids |-> IF "counters" \in file.tables THEN rows[s].rev ELSE 0]
      /\ holder = [s \in Ids |-> NoApp] /\ pc = [a \in Apps |-> "closed"]
      /\ seen = [a \in Apps |-> Unread]
      /\ view = [a \in Apps |-> [s \in Ids |-> NoRow]]
      /\ known = [a \in Apps |-> [s \in Ids |-> NothingKnown]]
      /\ listing = [a \in Apps |-> NoList] /\ plan = [a \in Apps |-> NoList]
      /\ stamp = 0 /\ lives = [s \in Ids |-> 0]
  BY DEF ReplicaInit
<1>5. FileIs
  <2>1. file.version = v /\ SchemaIs
    BY <1>1, <1>2 DEF SchemaIs
  <2>2. ~InUse
    BY <1>4 DEF InUse
  <2>3. v = 0 => \A s \in Ids : ~Saved(s)
    BY <1>2, <1>3
  <2>4. CountersAre
    BY <1>4 DEF CountersAre
  <2> QED
    BY <2>1, <2>2, <2>3, <2>4 DEF FileIs
<1>6. OpenersAre
  BY <1>4 DEF OpenersAre, SeenIs, Unread
<1>7. RowsAre
  <2>1. \A s \in Ids : rows[s].rev \in Nat
    BY <1>3 DEF Rows
  <2> QED
    BY <1>3, <1>4, <2>1 DEF RowsAre, Saved
<1>8. ViewsAre
  <2>1. NothingKnown \in Revisions
    BY DEF NothingKnown, Revisions
  <2>2. view \in [Apps -> [Ids -> Rows]] /\ known \in [Apps -> [Ids -> Revisions]]
    BY <1>4, <2>1, NoRowIsRow
  <2>3. ASSUME NEW a \in Apps, NEW s \in Ids PROVE ShownIs(a, s)
    <3> DEFINE stale == <<a, s>> \in unheard
    <3>1. /\ rows[s] \in Rows /\ counter[s] \in Nat /\ lives[s] \in Nat /\ stale \in BOOLEAN
          /\ view[a][s] = NoRow /\ known[a][s] = NothingKnown
      BY <1>4, <1>7 DEF RowsAre
    <3> HIDE DEF stale
    <3>2. Shown(NoRow, NothingKnown, stale, rows[s], counter[s], lives[s])
      BY <3>1, ShownNothing
    <3> QED
      BY <3>1, <3>2 DEF ShownIs, stale
  <2> QED
    BY <2>2, <2>3 DEF ViewsAre
<1>9. ListsAre /\ PlansAre /\ BlankIs
  BY <1>4 DEF ListsAre, ListIs, PlansAre, BlankIs, NoList
<1> QED
  BY <1>5, <1>6, <1>7, <1>8, <1>9 DEF ReplicaInv

LEMMA ReplicaInvNext == ReplicaInv /\ [ReplicaNext]_replicaVars => ReplicaInv'
<1> SUFFICES ASSUME ReplicaInv, [ReplicaNext]_replicaVars PROVE ReplicaInv'
  OBVIOUS
<1>1. ASSUME NEW a \in Apps, Open(a) PROVE ReplicaInv'
  <2>1. CASE ReadVersion(a) \/ ReadColumns(a) \/ UpgradeFails(a)
    BY <2>1, ReadKeeps
  <2>2. CASE CreateLeases(a)
    BY <2>2, CreateLeasesKeeps
  <2>3. CASE Upgrade(a)
    BY <2>3, UpgradeKeeps
  <2>4. CASE MarkMissingWorktreesUnavailable(a)
    BY <2>4, MarkKeeps
  <2>5. CASE Construct(a)
    BY <2>5, ConstructKeeps
  <2> QED
    BY <1>1, <2>1, <2>2, <2>3, <2>4, <2>5 DEF Open
<1>2. ASSUME NEW a \in Apps, Refresh(a) \/ AbandonRelink(a) PROVE ReplicaInv'
  BY <1>2, ListedKeeps, SynchronizeKeeps, PlanKeeps DEF Refresh
<1>3. ASSUME NEW a \in Apps, NEW s \in Ids, Operate(a, s) PROVE ReplicaInv'
  <2>1. CASE \E c \in Checkouts : Create(a, s, c)
    BY <2>1, CreateKeeps
  <2>2. CASE RollbackStart(a, s) \/ ReleaseWorktree(a, s)
    BY <2>2, RollbackKeeps, ReleaseKeeps
  <2>3. CASE \E done \in BOOLEAN : UpdateSession(a, s, done)
    BY <2>3, UpdateKeeps
  <2>4. CASE Resume(a, s) \/ ResumeRefused(a, s)
    BY <2>4, ResumeKeeps, RefusedKeeps
  <2>5. CASE ValidateRelink(a, s) \/ Forget(a, s)
    BY <2>5, PlanKeeps, ForgetKeeps
  <2> QED
    BY <1>3, <2>1, <2>2, <2>3, <2>4, <2>5 DEF Operate
<1>4. ASSUME NEW a \in Apps, NEW c \in Checkouts, NEW S \in SUBSET Ids, CommitRelink(a, c, S)
      PROVE  ReplicaInv'
  BY <1>4, CommitKeeps
<1>5. ASSUME NEW c \in Checkouts, CheckoutChanges(c) PROVE ReplicaInv'
  BY <1>5, CheckoutKeeps
<1>6. CASE UNCHANGED replicaVars
  <2>1. UNCHANGED <<file, rows, counter, holder, pc, seen, view, known, listing, plan, stamp,
                    lives, unheard>>
    BY <1>6 DEF replicaVars
  <2>2. FileIs' /\ OpenersAre'
    BY <2>1 DEF ReplicaInv, FileIs, SchemaIs, InUse, CountersAre, Saved, OpenersAre, SeenIs, Weak
  <2>3. RowsAre' /\ PlansAre' /\ BlankIs'
    BY <2>1 DEF ReplicaInv, RowsAre, Saved, Up, PlansAre, BlankIs
  <2>4. ViewsAre' /\ ListsAre'
    BY <2>1 DEF ReplicaInv, ViewsAre, ShownIs, ListsAre, ListIs
  <2> QED
    BY <2>2, <2>3, <2>4 DEF ReplicaInv
<1> QED
  BY <1>1, <1>2, <1>3, <1>4, <1>5, <1>6 DEF ReplicaNext

LEMMA ReplicaInvAlways == ReplicaSpec => []ReplicaInv
<1> QED
  BY ReplicaInvInit, ReplicaInvNext, PTL DEF ReplicaSpec

(* Every version opens: however openings and writes of several applications   *)
(* interleave, a transaction of _initialize that creates nothing a second     *)
(* time leaves the whole schema of version 8 and counters that                *)
(* _validate_records accepts, for any number of applications, sessions and    *)
(* checkouts and whatever supported version the file began as.                *)
THEOREM EveryVersionAlwaysOpens == ReplicaSpec => []EveryVersionOpens
<1> QED
  BY ReplicaInvAlways, OpensFromInv, PTL

(* No view of the sessions is stuck: what _synchronize_catalog_sessions needs *)
(* to correct it is always there, but for the exceptions NoViewIsStuck names. *)
THEOREM ViewsAreNeverStuck == ReplicaSpec => []NoViewIsStuck
<1> QED
  BY ReplicaInvAlways, ViewsFromInv, PTL
=============================================================================
