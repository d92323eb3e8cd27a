-------------------------- MODULE MCWorkflowEditor --------------------------
(* Small stored defaults for the editor: a review without QA, and one with a  *)
(* repair branch, a producer whose BLOCKED output is permitted and a step on  *)
(* the other backend.                                                         *)
EXTENDS WorkflowEditor

Review(n) == [NewStep("reviewer", <<"Code Review">>) EXCEPT
                !.to["CHANGES_REQUESTED"] = n, !.in = [implementation |-> From(2, "implementation")]]

Branching == [start |-> 1, steps |->
            << [NewStep("analysis", <<"Analysis">>) EXCEPT !.to["SUCCEEDED"] = 2],
               [NewStep("development", <<"Development">>) EXCEPT
                  !.to = [SUCCEEDED |-> 3, BLOCKED |-> 3]],
               [Review(4) EXCEPT !.in.implementation.when = {"SUCCEEDED", "BLOCKED"}],
               [NewStep("development", <<"Repair">>) EXCEPT
                  !.to["SUCCEEDED"] = 3,
                  !.settings = [ExecutionDefault("codex") EXCEPT !.effort = "high", !.fast = TRUE]] >>]

MCStored == {Branching}
MCNames == {<<"Repair">>}

ASSUME \A w \in MCStored \cup {Builtin} : MayBeApplied(w) /\ InputsResolve(w)
=============================================================================
