--------------------------- MODULE WorkflowEditor ---------------------------
(* Editing the User Workflow Default (workflow_editor.py): a draft with its   *)
(* undo history, the commands of the full Workflow Editor, the numbered menus *)
(* of Dev Loop Options, the recovery of an invalid default, Apply, and the    *)
(* unfinished run that takes a saved default's preferences over.              *)
(*                                                                            *)
(* Abstracted: a menu is the choice it returns, so a cancelled or mistyped    *)
(* choice is no step; screens, notices and warnings are left out. A choice a   *)
(* Model Catalog must be fresh for is refused, and no step, at any moment:    *)
(* catalogs are loaded, fail and age as the backends please. Text a user      *)
(* types for guidance, budgets and capabilities is only "edited". The order   *)
(* of the steps in the document is left out. A command on a step is the       *)
(* step's selection with the command. Showing the workflow of a run refuses   *)
(* every edit until the default is shown again.                               *)
EXTENDS PortableWorkflow

CONSTANTS MaxEdits,       \* bound: edits of the draft, over all sessions
          StoredDefaults, \* the saved defaults a session may find
          Names,          \* what a user renames a step to
          Picked          \* bound: the component types a user picks

VARIABLES default,   \* the stored default: absent, saved, broken or garbled
          run,       \* the workflow an unfinished run has recorded
          open,      \* "closed", "editor", "options", or "lost": the process died
          draft, history, selected,
          recovery, saved,     \* this session has saved the draft
          nextId, edits

draftVars == <<draft, history, selected, nextId, edits>>
sessionVars == <<open, recovery, saved>>
vars == <<default, run, open, draft, history, selected, recovery, saved, nextId, edits>>

Nothing == [is |-> "absent"]
Holding(w) == [is |-> "saved", w |-> w]

(* What store.load returns: an invalid default gives way to the built-in one. *)
Loaded == IF default.is = "saved" THEN default.w ELSE Builtin

FirstSelected(w) == IF HasIssueStart(w) THEN IssueStart(w) ELSE w.start

Init ==
  /\ default \in {Nothing, [is |-> "broken"], [is |-> "garbled"]}
                 \cup {Holding(w) : w \in StoredDefaults}
  /\ run = Nothing
  /\ open = "closed" /\ recovery = "NORMAL" /\ saved = FALSE
  /\ draft = Builtin /\ history = << >> /\ selected = 1
  /\ nextId = 6 /\ edits = 0

---------------------------------------------------------------------------
(* A session reads the stored default. One without an edit left is no use.    *)
Open(surface) ==
  /\ open = "closed" /\ edits < MaxEdits
  /\ open' = surface /\ saved' = FALSE
  /\ draft' = Loaded /\ history' = << >>
  /\ selected' = FirstSelected(Loaded)
  /\ recovery' = IF default.is \in {"broken", "garbled"} THEN "RESET_REQUIRED" ELSE "NORMAL"
  /\ UNCHANGED <<default, run, nextId, edits>>

(* An unfinished run takes the preferences over if the outcome loads: on the  *)
(* way out of a session that saved, or when the run is resumed.               *)
Adopted(r, d) ==
  IF r.is = "saved" /\ d.is = "saved" /\ Loads(Refreshed(r.w, d.w))
  THEN Holding(Refreshed(r.w, d.w)) ELSE r

Closed == /\ open' = "closed" /\ recovery' = "NORMAL" /\ saved' = FALSE
          /\ draft' = Builtin /\ history' = << >> /\ selected' = 1
          /\ UNCHANGED <<nextId, edits>>

Leave ==
  /\ open \in {"editor", "options"}
  /\ run' = IF saved THEN Adopted(run, default) ELSE run
  /\ Closed /\ UNCHANGED default

(* The process is gone with the draft; it is started again.                   *)
Relaunch == open = "lost" /\ Closed /\ UNCHANGED <<default, run>>

Dies == /\ open' = "lost"
        /\ UNCHANGED <<default, run, recovery, saved, draftVars>>

(* Apply, and Save of the options menu. A configuration that is not JSON is   *)
(* refused when it is read back for its other keys.                           *)
Apply ==
  /\ open \in {"editor", "options"} /\ recovery # "RESET_REQUIRED"
  /\ MayBeApplied(draft) /\ default.is # "garbled"
  /\ default' = Holding(draft)
  /\ \/ /\ open = "editor"
        /\ run' = Adopted(run, default') /\ Closed
     \/ /\ open = "options"
        /\ recovery' = "NORMAL" /\ saved' = TRUE
        /\ UNCHANGED <<run, open, draftVars>>

ResetInRecovery ==
  /\ open \in {"editor", "options"} /\ recovery # "NORMAL" /\ edits < MaxEdits
  /\ draft' = Builtin /\ history' = Append(history, draft) /\ edits' = edits + 1
  /\ recovery' = "APPLY_READY"
  /\ UNCHANGED <<default, run, open, saved, selected, nextId>>

---------------------------------------------------------------------------
(* The full editor's commands on the draft.                                   *)
MayEdit == /\ open = "editor" /\ recovery = "NORMAL" /\ edits < MaxEdits

Edited(w, sel, new) ==
  /\ draft' = w /\ history' = Append(history, draft) /\ edits' = edits + 1
  /\ selected' = sel /\ nextId' = nextId + new
  /\ UNCHANGED <<default, run, sessionVars>>

InPlace(i, step) == Edited([draft EXCEPT !.steps[i] = step], i, 0)

Step(i) == draft.steps[i]

(* The name, or the name with the least suffix from 2 on that is not taken.   *)
UniqueName(name, without) ==
  LET taken == {draft.steps[i].name : i \in StepIds(draft) \ without}
      free == {n \in 2..(Cardinality(taken) + 2) : Append(name, n) \notin taken}
  IN IF name \notin taken THEN name
     ELSE Append(name, CHOOSE n \in free : \A k \in free : n <= k)

DefaultName(t) == CASE t = "analysis" -> <<"Analysis">> [] t = "development" -> <<"Development">>
                    [] t = "reviewer" -> <<"Code Review">> [] OTHER -> <<"QA">>

Rename(i, name) ==
  /\ MayEdit
  /\ LET w == [draft EXCEPT !.steps[i].name = name] IN
       Loads(w) /\ Edited(w, i, 0)

With(w, i, step) == [w EXCEPT !.steps = [j \in StepIds(w) \cup {i} |->
                                           IF j = i THEN step ELSE w.steps[j]]]

(* Every input of the new step that has exactly one compatible producer.      *)
AutoBound(w, i) ==
  LET ports == {p \in DOMAIN Inputs(TypeOf(w, i)) : Cardinality(Compatible(w, i, p)) = 1}
  IN [w EXCEPT !.steps[i].in = [p \in ports |-> CHOOSE b \in Compatible(w, i, p) : TRUE]]

(* The bindings of a step that do not come from behind it on the path.        *)
Upstream(path, k, in) ==
  LET kept == {p \in DOMAIN in : \A j \in 1..Len(path) : path[j] = in[p].from => j < k}
  IN [p \in kept |-> in[p]]

Rewired(w, path) ==
  [w EXCEPT
     !.start = path[1],
     !.steps = [i \in StepIds(w) |->
       IF \E k \in 1..Len(path) : path[k] = i
       THEN LET k == CHOOSE k \in 1..Len(path) : path[k] = i
                next == IF k = Len(path) THEN Terminal ELSE path[k + 1]
            IN [w.steps[i] EXCEPT
                  !.to = [o \in DOMAIN w.steps[i].to \cup {"SUCCEEDED"} |->
                            IF o = "SUCCEEDED" THEN next ELSE w.steps[i].to[o]],
                  !.in = Upstream(path, k, w.steps[i].in)]
       ELSE w.steps[i]]]

Inserted(path, k, i) == SubSeq(path, 1, k - 1) \o <<i>> \o SubSeq(path, k, Len(path))
Without(path, i) == SelectSeq(path, LAMBDA x : x # i)

(* add is an insertion behind the last step of the primary path.              *)
Insert(t, k) ==
  /\ MayEdit /\ nextId \in Ids
  /\ LET step == NewStep(t, UniqueName(DefaultName(t), {}))
         w == Rewired(With(draft, nextId, step), Inserted(PrimaryPath(draft), k, nextId))
     IN Edited(AutoBound(w, nextId), nextId, 1)

Move(i, k) ==
  /\ MayEdit /\ i \in OnPath(draft) /\ PrimaryPath(draft)[k] # i
  /\ Edited(Rewired(draft, Inserted(Without(PrimaryPath(draft), i), k, i)),
            i, 0)
 

Reviewed(note) == IF note = "none" THEN "none" ELSE "review"

Duplicate(i) ==
  /\ MayEdit /\ nextId \in Ids
  /\ LET twin == [Step(i) EXCEPT !.name = UniqueName(Step(i).name, {}),
                                 !.note = Reviewed(Step(i).note)]
         w == With(draft, nextId, twin)
         to == [o \in DOMAIN Step(i).to \cup {"SUCCEEDED"} |->
                  IF o = "SUCCEEDED" THEN nextId ELSE Step(i).to[o]]
     IN Edited([w EXCEPT !.steps[i].to = to,
                         !.steps[nextId].to = [o \in DOMAIN to |-> After(draft, i, o)]],
               nextId, 1)
       

(* The bindings a deletion would leave behind or take with it: the preview    *)
(* names the producer of each, and dies of one that is gone already.          *)
AffectedProducers(i) ==
  {x[1] : x \in {y \in UNION {{<<draft.steps[c].in[p].from, c>> : p \in DOMAIN draft.steps[c].in} :
                               c \in StepIds(draft)} : y[1] = i \/ y[2] = i}}

FaultUnlinked(w, i) ==
  [start |-> IF w.start = i THEN After(w, i, "SUCCEEDED") ELSE w.start,
   steps |-> [j \in StepIds(w) \ {i} |-> w.steps[j]]]

(* The draft without step i: its predecessor on the primary path is routed    *)
(* past it, every other reference stays.                                      *)
Unlinked(w, i) ==
  LET before == {j \in OnPath(w) : After(w, j, "SUCCEEDED") = i} IN
  [start |-> IF w.start = i THEN After(w, i, "SUCCEEDED") ELSE w.start,
   steps |-> [j \in StepIds(w) \ {i} |->
                IF j \in before
                THEN [w.steps[j] EXCEPT !.to["SUCCEEDED"] = After(w, i, "SUCCEEDED")]
                ELSE w.steps[j]]]

MayDelete(i) ==
  /\ MayEdit /\ Cardinality(StepIds(draft)) > 1
  /\ draft.start = i => After(draft, i, "SUCCEEDED") # Terminal

Delete(i) ==
  /\ MayDelete(i) /\ AffectedProducers(i) \subseteq StepIds(draft)
  /\ LET w == Unlinked(draft, i) IN Edited(w, w.start, 0)
 

DeleteDies(i) == MayDelete(i) /\ ~(AffectedProducers(i) \subseteq StepIds(draft)) /\ Dies

ChangeType(i, t) ==
  /\ MayEdit /\ t # Step(i).type
  /\ InPlace(i, [NewStep(t, Step(i).name) EXCEPT
                   !.to["SUCCEEDED"] = After(draft, i, "SUCCEEDED"),
                   !.note = IF Step(i).note \in {"none", "default"} THEN "default" ELSE "review"])

Routed(i, o, n) == [draft EXCEPT !.steps[i].to =
                      [p \in DOMAIN @ \cup {o} |-> IF p = o THEN n ELSE @[p]]]

(* A SUCCEEDED route that closes a loop on the primary path is refused.       *)
Route(i, o, n) ==
  /\ MayEdit /\ o \in Supports(Step(i).type)
  /\ LET w == Routed(i, o, n) IN
       /\ PathIsWhole(w)
       /\ Edited(w, i, 0)

(* Walking a path that leads to a deleted step raises KeyError, not the       *)
(* ValueError the command reports.                                            *)
RouteDies(i, o, n) ==
  MayEdit /\ o \in Supports(Step(i).type) /\ PathIsLost(Routed(i, o, n)) /\ Dies

Branched(i, o, t) ==
  LET w == With(Routed(i, o, nextId), nextId, NewStep(t, UniqueName(DefaultName(t), {})))
  IN AutoBound(w, nextId)

CreateOnRoute(i, o, t) ==
  /\ MayEdit /\ nextId \in Ids /\ o \in Supports(Step(i).type)
  /\ Edited(Branched(i, o, t), nextId, 1)

InsertOnRoute(i, o, t) ==
  /\ MayEdit /\ nextId \in Ids /\ o \in Supports(Step(i).type)
  /\ Edited([Branched(i, o, t) EXCEPT !.steps[nextId].to["SUCCEEDED"] = After(draft, i, o)],
            nextId, 1)
 

Bind(i, port) ==
  /\ MayEdit /\ port \in DOMAIN Inputs(Step(i).type)
  /\ \E b \in Compatible(draft, i, port) :
       InPlace(i, [Step(i) EXCEPT !.in = [p \in DOMAIN @ \cup {port} |->
                                          IF p = port THEN b ELSE @[p]]])

Unbind(i, port) ==
  /\ MayEdit /\ port \in DOMAIN Inputs(Step(i).type)
  /\ InPlace(i, [Step(i) EXCEPT !.in = [p \in DOMAIN @ \ {port} |-> @[p]]])

Undo ==
  /\ open = "editor" /\ recovery = "NORMAL" /\ history # << >>
  /\ draft' = history[Len(history)]
  /\ history' = SubSeq(history, 1, Len(history) - 1)
  /\ selected' = IF Known(draft', selected) THEN selected ELSE draft'.start
  /\ UNCHANGED <<default, run, sessionVars, nextId, edits>>

---------------------------------------------------------------------------
(* The preferences of a step.                                                 *)
Tune(i) == MayEdit /\ ~Step(i).tuned /\ InPlace(i, [Step(i) EXCEPT !.tuned = TRUE])

Guide(i, note) ==
  /\ MayEdit
  /\ note = "kept" => Step(i).note # "none"
  /\ InPlace(i, [Step(i) EXCEPT !.note = IF note = "kept" THEN "ready" ELSE note])

ResetStep(i) ==
  /\ MayEdit
  /\ InPlace(i, [Step(i) EXCEPT !.name = UniqueName(DefaultName(Step(i).type), {i}),
                                !.settings = ExecutionDefault("codex"),
                                !.tuned = FALSE, !.note = "default"])

ResetWorkflow ==
  /\ MayEdit
  /\ Edited(Builtin, IF Known(Builtin, selected) THEN selected ELSE Builtin.start, 0)
 

SetBackend(i, b) ==
  /\ MayEdit /\ b # Step(i).settings.backend
  /\ InPlace(i, [Step(i) EXCEPT !.settings = ExecutionDefault(b)])

(* The settings with model m: an effort it does not advertise is asked for    *)
(* again, Fast is turned off where it is not advertised.                      *)
Remodelled(s, m, e) ==
  [s EXCEPT !.model = m,
            !.effort = IF s.effort \in Efforts(m) THEN s.effort ELSE e,
            !.fast = s.fast /\ SupportsFast(m)]

SetModel(i, m, e) ==
  /\ MayEdit
  /\ m \in Models(Step(i).settings.backend) /\ e \in Efforts(m)
  /\ InPlace(i, [Step(i) EXCEPT !.settings = Remodelled(@, m, e)])

SetReasoning(i, e) ==
  /\ MayEdit
  /\ e \in Efforts(Step(i).settings.model)
  /\ InPlace(i, [Step(i) EXCEPT !.settings.effort = e])

SetFast(i, f) ==
  /\ MayEdit
  /\ SupportsFast(Step(i).settings.model)
  /\ InPlace(i, [Step(i) EXCEPT !.settings.fast = f])

(* Models per role, the surface of this release: backend, model and effort    *)
(* reach the draft together, and Fast goes with another backend or a model    *)
(* that does not advertise it.                                                *)
RoleSettings(s, b, m, e) == [backend |-> b, model |-> m, effort |-> e,
                             fast |-> s.fast /\ b = s.backend /\ SupportsFast(m)]

ChooseForRole(i, b, m, e) ==
  /\ open = "options" /\ recovery = "NORMAL" /\ edits < MaxEdits
  /\ m \in Models(b) /\ e \in Efforts(m)
  /\ Edited([draft EXCEPT !.steps[i].settings = RoleSettings(@, b, m, e)], selected, 0)

---------------------------------------------------------------------------
(* A run records the default when it starts and takes over its preferences    *)
(* when it is resumed; a default that does not load stops either.             *)
StartRun == /\ open = "closed" /\ run = Nothing
            /\ default.is \in {"absent", "saved"}
            /\ run' = Holding(Loaded)
            /\ UNCHANGED <<default, sessionVars, draftVars>>

ResumeRun == /\ open = "closed" /\ run # Nothing /\ default.is \in {"absent", "saved"}
             /\ run' = Adopted(run, default)
             /\ UNCHANGED <<default, sessionVars, draftVars>>

Structure(i) ==
  \/ \E name \in Names : Rename(i, name)
  \/ \E k \in 1..Len(PrimaryPath(draft)) : Move(i, k)
  \/ Duplicate(i) \/ Delete(i) \/ DeleteDies(i)
  \/ \E t \in Picked : ChangeType(i, t)
  \/ \E o \in Outcomes, n \in StepIds(draft) \cup {Terminal} : Route(i, o, n) \/ RouteDies(i, o, n)
  \/ \E o \in Outcomes, t \in Picked : CreateOnRoute(i, o, t) \/ InsertOnRoute(i, o, t)
  \/ \E port \in {"implementation", "review_result"} :
       Bind(i, port) \/ Unbind(i, port)

Preferences(i) ==
  \/ Tune(i) \/ ResetStep(i)
  \/ \E note \in {"kept", "ready", "none"} : Guide(i, note)
  \/ \E b \in Backends : SetBackend(i, b)
  \/ \E m \in UNION {Models(b) : b \in Backends}, e \in {"low", "high"} : SetModel(i, m, e)
  \/ \E e \in {"low", "high"} : SetReasoning(i, e)
  \/ \E f \in BOOLEAN : SetFast(i, f)

Next ==
  \/ \E surface \in {"editor", "options"} : Open(surface)
  \/ Leave \/ Relaunch \/ Apply \/ ResetInRecovery
  \/ \E i \in StepIds(draft) : Structure(i) \/ Preferences(i)
  \/ \E t \in Picked, k \in 1..(Len(PrimaryPath(draft)) + 1) : Insert(t, k)
  \/ ResetWorkflow \/ Undo
  \/ \E i \in StepIds(draft), b \in Backends, m \in UNION {Models(c) : c \in Backends},
       e \in {"low", "high"} : ChooseForRole(i, b, m, e)
  \/ StartRun \/ ResumeRun

Spec == Init /\ [][Next]_vars

---------------------------------------------------------------------------
(* Whatever the edits, their order and what was undone, the draft has a       *)
(* primary path from its start to a terminal and the selected step is in it:  *)
(* every command walks the one and looks up the other without a guard.        *)
DraftCanBeWalked ==
  open \in {"editor", "options"} =>
    /\ PathIsWhole(draft) /\ Known(draft, selected)
    /\ history # << >> => PathIsWhole(history[Len(history)])

=============================================================================
