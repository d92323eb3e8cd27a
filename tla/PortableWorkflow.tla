-------------------------- MODULE PortableWorkflow --------------------------
(* The portable workflow definition: its graph of steps, what makes a         *)
(* document loadable and what makes it fit to be applied as the User Workflow *)
(* Default (portable_workflow.py), and, as the reference the rules are judged *)
(* by, what the executor of a run needs of it.                                *)
(*                                                                            *)
(* Abstracted: BLOCKED stands for BLOCKED, FAILED and CANCELLED, which every  *)
(* component supports and no rule tells apart; a display name is the sequence  *)
(* of its parts; budget and capabilities are one flag that says whether they  *)
(* were edited; no component has optional input ports, so there are none.*)
(* A step is addressed by its Step Instance ID, a positive number, and 0 is   *)
(* the explicit terminal.                                                     *)
EXTENDS Naturals, Sequences, FiniteSets

CONSTANT MaxIds      \* Step Instance IDs an editor session may hand out

Terminal == 0
Ids == 1..MaxIds

Outcomes == {"SUCCEEDED", "CHANGES_REQUESTED", "BLOCKED"}
Types == {"analysis", "development", "reviewer", "qa"}

Scope(t) == IF t = "analysis" THEN "WORKFLOW" ELSE "ISSUE"
Supports(t) == IF t \in {"reviewer", "qa"} THEN Outcomes ELSE Outcomes \ {"CHANGES_REQUESTED"}

(* The contract an input port of a component expects, by the port's name.     *)
Inputs(t) == CASE t = "reviewer" -> [implementation |-> "implementation"]
               [] t = "qa" -> [implementation |-> "implementation", review_result |-> "review"]
               [] OTHER -> << >>

(* A component has at most one output port; port and contract share a name.   *)
Outputs(t) == CASE t = "development" -> {"implementation"}
                [] t = "reviewer" -> {"review"}
                [] t = "qa" -> {"qa_result"}
                [] OTHER -> {}

---------------------------------------------------------------------------
(* What an Execution Backend offers; of each, one model to stand for those     *)
(* its catalog advertises in full.                                            *)
Backends == {"codex", "claude"}
Models(b) == IF b = "codex" THEN {"frontier", "plain"} ELSE {"pinned", "typed"}
Efforts(m) == IF m = "frontier" THEN {"low", "high"} ELSE {"low"}
SupportsFast(m) == m = "frontier"

ExecutionDefault(b) == [backend |-> b,
                        model |-> IF b = "codex" THEN "frontier" ELSE "pinned",
                        effort |-> "low", fast |-> FALSE]

---------------------------------------------------------------------------
(* A Workflow Step of type t as its component would have it.                  *)
NewStep(t, name) ==
  [name |-> name, type |-> t, to |-> [o \in Supports(t) |-> Terminal], in |-> << >>,
   settings |-> ExecutionDefault("codex"), tuned |-> FALSE, note |-> "default"]

StepIds(w) == DOMAIN w.steps
Known(w, i) == i \in StepIds(w)
TypeOf(w, i) == w.steps[i].type
After(w, i, o) == IF o \in DOMAIN w.steps[i].to THEN w.steps[i].to[o] ELSE Terminal
Targets(w, i) == {After(w, i, o) : o \in DOMAIN w.steps[i].to} \ {Terminal}

(* What grows from seed in n rounds of next.                                  *)
Grown(seed, next(_), n) ==
  LET g[k \in 0..n] == IF k = 0 THEN seed
                       ELSE LET had == g[k-1] IN had \cup UNION {next(x) : x \in had}
  IN g[n]

(* The SUCCEEDED chain from the start, as far as it can be walked ...         *)
PrimaryPath(w) ==
  LET path[k \in 1..Cardinality(StepIds(w))] ==
        IF k = 1 THEN <<w.start>>
        ELSE LET p == path[k-1]
                 n == After(w, p[Len(p)], "SUCCEEDED")
             IN IF Known(w, n) /\ \A j \in 1..Len(p) : p[j] # n THEN Append(p, n) ELSE p
  IN path[Cardinality(StepIds(w))]

OnPath(w) == LET p == PrimaryPath(w) IN {p[k] : k \in 1..Len(p)}

(* ... and where it stopped: at a terminal, at a step that does not exist (the *)
(* code's KeyError) or at one it has passed (its ValueError).                  *)
PathEnd(w) == LET p == PrimaryPath(w) IN After(w, p[Len(p)], "SUCCEEDED")
PathIsWhole(w) == PathEnd(w) = Terminal
PathIsLost(w) == PathEnd(w) # Terminal /\ ~Known(w, PathEnd(w))

Reachable(w) ==
  Grown({w.start}, LAMBDA i : IF Known(w, i) THEN Targets(w, i) ELSE {}, Cardinality(StepIds(w)))

---------------------------------------------------------------------------

(* A binding is definitely available when no path from the start enters the   *)
(* consumer before the producer has ended with a permitted outcome.           *)
Available(w, b, i) ==
  LET next(x) == IF x[1] = i \/ ~Known(w, x[1]) THEN {}
                 ELSE {<<After(w, x[1], o), x[2] \/ (x[1] = b.from /\ o \in b.when)>> :
                         o \in {p \in DOMAIN w.steps[x[1]].to : After(w, x[1], p) # Terminal}}
      walked == Grown({<<w.start, FALSE>>}, next, 2 * Cardinality(StepIds(w)))
  IN b.from # i /\ <<i, TRUE>> \in walked /\ <<i, FALSE>> \notin walked

Binds(w, i, port, b) ==
  /\ port \in DOMAIN Inputs(TypeOf(w, i))
  /\ Known(w, b.from)
  /\ Scope(TypeOf(w, b.from)) = "ISSUE" => Scope(TypeOf(w, i)) = "ISSUE"
  /\ b.when \subseteq Supports(TypeOf(w, b.from))
  /\ b.port \in Outputs(TypeOf(w, b.from))
  /\ b.port = Inputs(TypeOf(w, i))[port]
  /\ Available(w, b, i)

InputsBound(w, i) ==
  /\ DOMAIN w.steps[i].in = DOMAIN Inputs(TypeOf(w, i))
  /\ \A port \in DOMAIN w.steps[i].in : Binds(w, i, port, w.steps[i].in[port])

(* The SUCCEEDED-only bindings an input port could have.                      *)
Compatible(w, i, port) ==
  {b \in [from : StepIds(w), port : UNION {Outputs(t) : t \in Types}, when : {{"SUCCEEDED"}}] :
     Binds(w, i, port, b)}

ScopeIsOrdered(w) ==
  \A i \in StepIds(w) : \A n \in Targets(w, i) :
    Scope(TypeOf(w, i)) = "ISSUE" => Scope(TypeOf(w, n)) = "ISSUE"

(* The document loads: what is saved and what a run has recorded must.        *)
Loads(w) ==
  /\ \A i, j \in StepIds(w) : w.steps[i].name = w.steps[j].name => i = j
  /\ Known(w, w.start)
  /\ \A i \in StepIds(w) : /\ DOMAIN w.steps[i].to \subseteq Supports(TypeOf(w, i))
                           /\ Targets(w, i) \subseteq StepIds(w)
  /\ StepIds(w) \subseteq Reachable(w)
  /\ PathIsWhole(w)
  /\ LET p == PrimaryPath(w) IN "SUCCEEDED" \in DOMAIN w.steps[p[Len(p)]].to
  /\ \A i \in StepIds(w) : InputsBound(w, i)
  /\ ScopeIsOrdered(w)

PlanningSteps(w) == {i \in StepIds(w) : Scope(TypeOf(w, i)) = "WORKFLOW"}

(* The stricter rules of Apply.                                               *)
MayBeApplied(w) ==
  /\ \A i \in StepIds(w) : w.steps[i].note # "review"
  /\ Loads(w)
  /\ Cardinality(PlanningSteps(w)) = 1
  /\ \A i \in StepIds(w) : DOMAIN w.steps[i].to = Supports(TypeOf(w, i))

---------------------------------------------------------------------------
From(i, port) == [from |-> i, port |-> port, when |-> {"SUCCEEDED"}]

(* Analysis, Development, Security Review, Final Review and QA.                *)
Builtin ==
  LET dev == <<"Development">>
      review(name, n) == [NewStep("reviewer", name) EXCEPT
                            !.to = [SUCCEEDED |-> n, CHANGES_REQUESTED |-> 2, BLOCKED |-> Terminal],
                            !.in = [implementation |-> From(2, "implementation")]]
  IN [start |-> 1, steps |->
       << [NewStep("analysis", <<"Analysis">>) EXCEPT !.to["SUCCEEDED"] = 2],
          [NewStep("development", dev) EXCEPT !.to["SUCCEEDED"] = 3],
          review(<<"Security Review">>, 4),
          review(<<"Final Review">>, 5),
          [NewStep("qa", <<"QA">>) EXCEPT
             !.to = [SUCCEEDED |-> Terminal, CHANGES_REQUESTED |-> 2, BLOCKED |-> Terminal],
             !.in = [implementation |-> From(2, "implementation"),
                     review_result |-> From(4, "review")]] >>]

(* What a run's recorded workflow takes over from a saved default: everything *)
(* but the graph, for the steps both have with the same component.            *)
Refreshed(w, p) ==
  [w EXCEPT !.steps = [i \in StepIds(w) |->
     IF Known(p, i) /\ TypeOf(p, i) = TypeOf(w, i)
     THEN [p.steps[i] EXCEPT !.to = w.steps[i].to, !.in = w.steps[i].in]
     ELSE w.steps[i]]]

---------------------------------------------------------------------------
(* The executor of a run, as the reference: it starts at the first step of    *)
(* ISSUE scope on the primary path, takes whatever transition a step's outcome *)
(* selects, and resolves a binding from any earlier attempt of the producer   *)
(* that ended with a permitted outcome.                                       *)
IssueSteps(w) == {k \in 1..Len(PrimaryPath(w)) : Scope(TypeOf(w, PrimaryPath(w)[k])) = "ISSUE"}
HasIssueStart(w) == IssueSteps(w) # {}
IssueStart(w) == PrimaryPath(w)[CHOOSE k \in IssueSteps(w) : \A j \in IssueSteps(w) : k <= j]

(* Every <<step, has the producer of b delivered>> an execution comes through. *)
Executed(w, b) ==
  LET next(x) == {<<After(w, x[1], o), x[2] \/ (x[1] = b.from /\ o \in b.when)>> :
                    o \in {p \in Supports(TypeOf(w, x[1])) : After(w, x[1], p) # Terminal}}
  IN Grown({<<IssueStart(w), FALSE>>}, next, 2 * Cardinality(StepIds(w)))

InputsResolve(w) ==
  \A x \in Executed(w, From(Terminal, "implementation")) :
    \A port \in DOMAIN Inputs(TypeOf(w, x[1])) :
      /\ port \in DOMAIN w.steps[x[1]].in
      /\ LET b == w.steps[x[1]].in[port] IN
           /\ b.port = Inputs(TypeOf(w, x[1]))[port]
           /\ Known(w, b.from) /\ b.port \in Outputs(TypeOf(w, b.from))
           /\ <<x[1], FALSE>> \notin Executed(w, b)
=============================================================================
