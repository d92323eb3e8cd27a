--------------------------- MODULE OperatorHandoff ---------------------------
(* The test gates a Workflow Step hands to the session (operator_handoff.py): *)
(* a worker that cannot run a gate in its sandbox ends BLOCKED with a request, *)
(* the session executes it, and the worker goes on with the evidence. The     *)
(* request is durable, what was accepted or failed so far is not.             *)
(*                                                                            *)
(* Abstracted: the step of one issue and pass, the key of the record; sources *)
(* are their fingerprint, one of a few contents that edits go back and forth  *)
(* between; only the receipt of the current request is kept, no other is read *)
(* again. A gate's reason, its report, logs and the screens are left out.     *)
EXTENDS Naturals, FiniteSets

CONSTANTS Projects,    \* what a gate tests: its project and filter
          MaxTests,    \* bound: the number of tests a gate expects
          Contents,    \* the contents of the source files
          MaxEdits,    \* bound: edits, by the worker, the tests or a user
          MaxCrashes   \* bound: interruptions of the session

ASSUME HandoffAssumption == {MaxTests, MaxEdits, MaxCrashes} \subseteq Nat

Gates == [of : Projects, tests : 1..MaxTests]
None == [of |-> "none", tests |-> 0]

VARIABLES sources, edits, crashes,
          record,       \* durable: the request, its gate and fingerprint
          receipt,      \* durable: of that request, if it was executed
          pc, returned, \* where run_role is, and what it has returned
          accepted, acceptedAt,        \* gates with evidence, and the
                                       \* fingerprint the last of it is of
          failed, failedAt,            \* the gate that failed, and on what
          completing,   \* the worker is through: its PASS waits for the gate
          owed          \* ghost: the gate whose last execution failed

durable == <<record, receipt>>
volatile == <<accepted, acceptedAt, failed, failedAt, completing>>
world == <<sources, edits, crashes>>
handoffVars == <<world, durable, volatile, pc, returned, owed>>

Untried == "untried"

HandoffInit ==
  /\ sources \in Contents /\ edits = 0 /\ crashes = 0
  /\ record = [gate |-> None, fp |-> sources] /\ receipt = Untried
  /\ pc = "head" /\ returned = "none"
  /\ accepted = {} /\ acceptedAt = {} /\ failed = None /\ failedAt = {}
  /\ completing = FALSE
  /\ owed = None

Identical == record.fp = sources

(* What a receipt is worth, on the sources it is of.                          *)
Passed == Identical /\ receipt = "passed"
HasFailed == Identical /\ receipt = "failed"

Request(gate) == /\ record' = [gate |-> gate, fp |-> sources]
                 /\ receipt' = Untried

Return(status) == pc' = "returned" /\ returned' = status

---------------------------------------------------------------------------
(* The head of the loop: without a request the worker runs, and a request for *)
(* other sources is made anew.                                                *)
LoopHead ==
  /\ pc = "head"
  /\ IF record.gate = None
     THEN pc' = "role" /\ UNCHANGED <<durable, accepted>>
     ELSE /\ pc' = "check"
          /\ IF Identical THEN UNCHANGED durable ELSE Request(record.gate)
          /\ accepted' = IF acceptedAt = {record'.fp} THEN accepted ELSE {}
  /\ UNCHANGED <<world, acceptedAt, failed, failedAt, completing, returned, owed>>

Accept ==
  /\ Passed
  /\ accepted' = accepted \cup {record.gate} /\ acceptedAt' = {record.fp}
  /\ failed' = None
  /\ IF completing THEN Return("PASS") ELSE pc' = "role" /\ UNCHANGED returned
  /\ owed' = IF owed.of = record.gate.of /\ owed.tests <= record.gate.tests
             THEN None ELSE owed
  /\ UNCHANGED <<failedAt, completing>>

Fail ==
  /\ HasFailed
  /\ failed' = record.gate /\ failedAt' = {record.fp} /\ completing' = FALSE
  /\ pc' = "role"
  /\ owed' = record.gate
  /\ UNCHANGED <<accepted, acceptedAt, returned>>

(* A receipt of these sources is the evidence, whoever has obtained it.       *)
Check ==
  /\ pc = "check"
  /\ IF Passed \/ HasFailed
     THEN Accept \/ Fail
     ELSE pc' = "run" /\ UNCHANGED <<volatile, returned, owed>>
  /\ UNCHANGED <<world, durable>>

(* Sources that changed since the check are not tested at all.                *)
StartGate ==
  /\ pc = "run"
  /\ IF Identical THEN pc' = "running" /\ UNCHANGED returned ELSE Return("BLOCKED")
  /\ UNCHANGED <<world, durable, volatile, owed>>

(* The receipt of a run on sources that changed meanwhile is void.            *)
Verdict(v) == IF Identical THEN v ELSE "void"

(* The command ends; a receipt without the report or the exit code it needs   *)
(* is void as well.                                                           *)
EndGate ==
  /\ pc = "running"
  /\ \E verdict \in {"passed", "failed", "void"} :
       receipt' = Verdict(verdict)
  /\ pc' = "ran"
  /\ UNCHANGED <<world, record, volatile, returned, owed>>

(* Sources that changed meanwhile are tested next.                            *)
Ran ==
  /\ pc = "ran"
  /\ \/ /\ ~Identical
        /\ Request(record.gate) /\ pc' = "check"
        /\ UNCHANGED <<volatile, returned, owed>>
     \/ Fail /\ UNCHANGED durable
     \/ /\ Passed
        /\ pc' = "check"
        /\ UNCHANGED <<durable, volatile, returned, owed>>
     \/ /\ Identical /\ receipt = "void"
        /\ Return("BLOCKED")
        /\ UNCHANGED <<durable, volatile, owed>>
  /\ UNCHANGED world

---------------------------------------------------------------------------
(* More tests of the very same gate: the only other gate a failed one can     *)
(* give way to.                                                               *)
Strengthens(gate) == gate.of = failed.of /\ gate.tests > failed.tests

FaultEvades(status, gate) ==
  /\ status = "PASS" \/ gate # None
  /\ ~Strengthens(gate) /\ failedAt = {sources}

Evades(status, gate) ==
  /\ status = "PASS" \/ gate # None
  /\ ~Strengthens(gate)
  /\ failedAt = {sources} \/ (gate # None /\ gate # failed)

AlreadyVerified(gate) == gate \in accepted /\ record.gate # None /\ Identical

Worker(status, gate) ==
  /\ pc = "role"
  /\ \/ /\ failed # None /\ Evades(status, gate)
        /\ Return("FAIL") /\ UNCHANGED <<durable, completing>>
     \/ /\ failed # None /\ ~Evades(status, gate) /\ status = "PASS"
        /\ Request(failed) /\ completing' = TRUE /\ pc' = "head" /\ UNCHANGED returned
     \/ /\ failed = None \/ (~Evades(status, gate) /\ status # "PASS")
        /\ status # "BLOCKED" \/ gate = None
        /\ Return(status) /\ UNCHANGED <<durable, completing>>
     \/ /\ failed = None \/ ~Evades(status, gate)
        /\ status = "BLOCKED" /\ gate # None
        /\ IF AlreadyVerified(gate)
           THEN Return("BLOCKED") /\ UNCHANGED durable
           ELSE Request(gate) /\ pc' = "head" /\ UNCHANGED returned
        /\ UNCHANGED completing
  /\ UNCHANGED <<world, accepted, acceptedAt, failed, failedAt, owed>>

(* The worker, the tests or a user change the sources, or change them back.   *)
Edit == /\ pc # "returned" /\ edits < MaxEdits /\ edits' = edits + 1
        /\ sources' \in Contents \ {sources}
        /\ UNCHANGED <<crashes, durable, volatile, pc, returned, owed>>

(* A pause, a cancellation or a crash; also after the return, before the      *)
(* executor has recorded it. The step is taken up again with its request.     *)
Interrupted ==
  /\ crashes < MaxCrashes /\ crashes' = crashes + 1
  /\ pc' = "head" /\ returned' = "none"
  /\ accepted' = {} /\ acceptedAt' = {} /\ failed' = None /\ failedAt' = {}
  /\ completing' = FALSE
  /\ UNCHANGED <<sources, edits, durable, owed>>

Handoff == LoopHead \/ Check \/ StartGate \/ EndGate \/ Ran
Role == \E status \in {"PASS", "FAIL", "BLOCKED"}, gate \in Gates \cup {None} : Worker(status, gate)

HandoffNext == Handoff \/ Role \/ Edit \/ Interrupted

HandoffSpec == HandoffInit /\ [][HandoffNext]_handoffVars

---------------------------------------------------------------------------
(* A step passes only after the gate that failed, or a stronger one of the    *)
(* same tests, was executed again and passed: no other gate, interruption or  *)
(* edit gets a worker around it.                                              *)
FailedGateIsNotBypassed == returned = "PASS" => owed = None

=============================================================================
