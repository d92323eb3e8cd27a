----------------------------- MODULE Uninstall -----------------------------
(***************************************************************************)
(* The uninstaller, beside the installers of ReleaseTransaction: install/  *)
(* uninstall-devloop.sh and bootstrap/transaction.py uninstall and         *)
(* resume-uninstall.  After a read-only preflight an uninstall keeps its   *)
(* tools, the evidence of what it may remove and its journal in a recovery *)
(* directory beside the installation, and checkpoints every action before  *)
(* and after; it may stop between any two file operations, be resumed, or  *)
(* be followed by another install or uninstall.  The user may edit files   *)
(* that it is to remove.                                                   *)
(*                                                                         *)
(* A release that is partly deleted keeps its commit and has lost its      *)
(* build; one the user edited has another one.  Bounds: the content of a   *)
(* file is checked and the file removed in one step; the user does not     *)
(* edit a bootstrap file while it is being published; capabilities have    *)
(* one destination and are always cleaned up.                              *)
(***************************************************************************)
EXTENDS ReleaseTransaction, SequencesExt

CONSTANTS
    Retained        \* the bootstrap assets that are removed last: the tools

ASSUME RetainedAssumption == Retained \subseteq Assets

VARIABLES
    skills,         \* the bundled capability in the user's home
    disturbed       \* uninstalls whose installation changed since they planned;
                    \* Removal: one of them was carried out nevertheless

removalVars == <<skills, disturbed>>
allVars == <<vars, removalVars>>

(* The recovery directory: what an action of its plan is of, how far its   *)
(* journal is, and the evidence.                                           *)
Release == [commit : Commits \cup {None}, build : Installers \cup {None, Removal}]
Action ==
    [kind : {"release", "manifest", "receipt"}, of : Commits]
    \cup [kind : {"asset", "restore"}, of : Assets]
    \cup [kind : {"stage", "pointer", "layout", "journal", "cleanup"}, of : {None}]
Progress == [done : Nat, begun : BOOLEAN, committed : BOOLEAN]
Witness ==
    [layout : Layout \cup {None}, release : [Commits -> Release \cup {None}],
     manifest : [Commits -> Payload \cup {None}], receipt : [Commits -> Payload \cup {None}],
     pointer : Pointer, pending : (Plan \cup {None}) \X Phases]
Recovery ==
    [plan : Seq(Action), journal : Progress \cup {None}, was : Witness \cup {None},
     proofs : SUBSET Commits, skills : {None, "part", "skills"}, whole : BOOLEAN]

ASSUME RecoveryAssumption == None \notin Recovery /\ None \notin Progress
ASSUME FiniteAssumption == IsFiniteSet(Commits) /\ IsFiniteSet(Assets)

RemovalInit == Init /\ skills = "skills" /\ disturbed = {}

Rubble(p) == [commit |-> p.commit, build |-> None]
Edited(p) == [p EXCEPT !.build = Removal]

-----------------------------------------------------------------------------
(* _uninstall_plan and _uninstall_actions: what is removed, in this order. *)
Actions(kind, s) == [n \in DOMAIN s |-> [kind |-> kind, of |-> s[n]]]
Owned == {a \in Assets : asset[a] = layout.assets}
Displaced == {a \in Owned : layout.original[a] # None}
AssetActions(s) ==
    Actions("asset", SetToSeq(s \ Displaced)) \o Actions("restore", SetToSeq(s \cap Displaced))
ReleasesToRemove == SetToSeq({c \in Commits : release[c] # None})
ManifestActions(s) ==
    [n \in 1..2 * Len(s) |-> [kind |-> IF n % 2 = 1 THEN "manifest" ELSE "receipt",
                              of |-> s[(n + 1) \div 2]]]

RemovalPlan ==
    Actions("stage", <<None>>) \o Actions("release", ReleasesToRemove) \o ManifestActions(ReleasesToRemove)
    \o Actions("pointer", <<None>>) \o AssetActions(Owned \ Retained) \o Actions("layout", <<None>>)
    \o (IF journal = None THEN <<>> ELSE Actions("journal", <<None>>))
    \o Actions("cleanup", <<None>>) \o AssetActions(Owned \cap Retained)

(* Nothing is removed unless everything that would be is as it was         *)
(* installed, and the tools can be copied.                                 *)
OwnedReleases ==
    \A c \in Commits : release[c] # None => VerifiedRelease(c) /\ receipt[c] # None
Removable(t) ==
    /\ Installed /\ pointer.current # None /\ VerifiedPointer
    /\ \A c \in Commits : release[c] = None <=> manifest[c] = None
    /\ OwnedReleases
    /\ \A a \in Assets : layout.original[a] # None => backup[a] = layout.original[a]
    /\ Retained \subseteq Owned
    /\ staging[t] = None

(* action-evidence.json: the content of everything the plan names.         *)
Evidence == [layout |-> layout, release |-> release, manifest |-> manifest,
             receipt |-> receipt, pointer |-> pointer, pending |-> <<journal, phase>>]

-----------------------------------------------------------------------------
(* _validate_action_content: what stands is what the evidence says, or,    *)
(* once the action has begun, a part of it.                                *)
FaultStands(now, was, begun) == now = was
Stands(now, was, begun) == now = was \/ (begun /\ now = None)

(* layout.json; layout.pending.json is another file.                       *)
LayoutFile == IF Installed THEN layout ELSE None

ValidRestore(a, was, begun) ==
    IF backup[a] # None
    THEN backup[a] = was.layout.original[a] /\ Stands(asset[a], was.layout.assets, begun)
    ELSE begun /\ asset[a] = was.layout.original[a]

ValidStage(s, begun) ==
    /\ release[s.was.pointer.current.commit] = s.was.release[s.was.pointer.current.commit]
    /\ s.skills \in {None, "skills"} \/ begun

FaultValid(s, act, begun) == TRUE
ValidAction(s, act, begun) ==
    CASE act.kind = "release" -> Stands(release[act.of], s.was.release[act.of], begun)
                                 \/ (begun /\ release[act.of] = Rubble(s.was.release[act.of]))
      [] act.kind = "manifest" -> Stands(manifest[act.of], s.was.manifest[act.of], begun)
      [] act.kind = "receipt" -> Stands(receipt[act.of], s.was.receipt[act.of], begun)
      [] act.kind = "pointer" ->
            pointer = s.was.pointer \/ (begun /\ pointer.current = None)
      [] act.kind = "asset" -> Stands(asset[act.of], s.was.layout.assets, begun)
      [] act.kind = "restore" -> ValidRestore(act.of, s.was, begun)
      [] act.kind = "layout" -> Stands(LayoutFile, s.was.layout, begun)
      [] act.kind = "journal" ->
            <<journal, phase>> = s.was.pending \/ (begun /\ journal = None)
      [] act.kind = "stage" -> ValidStage(s, begun)
      [] act.kind = "cleanup" -> s.skills = "skills"

(* _read_uninstall_journal: the whole rest of the plan is still valid.     *)
Begun(j, n) == j.begun /\ n = j.done + 1
Readable(t) ==
    LET s == staging[t] IN
    /\ s.whole /\ s.journal # None
    /\ LayoutFile \in {None, s.was.layout}
    /\ \A n \in s.journal.done + 1..Len(s.plan) :
          \/ s.plan[n].kind = "cleanup" /\ s.journal.done = 0
          \/ ValidAction(s, s.plan[n], Begun(s.journal, n))

(* _git_removal_proof: the Git entries of a release, recorded while it is  *)
(* whole and its receipt stands.                                           *)
Provable(s, c) == receipt[c] # None /\ (c \in s.proofs \/ release[c] = receipt[c])
Executable(s, n) ==
    LET act == s.plan[n] IN
    /\ ValidAction(s, act, Begun(s.journal, n))
    /\ act.kind = "release" /\ release[act.of] # None => Provable(s, act.of)

-----------------------------------------------------------------------------
(* The launcher resumes the uninstall that its lock or its own directory   *)
(* names, or has the installed tools begin one.                            *)
Resumes(i, r) ==
    IF r = None
    THEN /\ \A a \in Retained : asset[a] # None
         /\ ~(owner # None /\ owner.op = "uninstall" /\ Journaled(owner.txn))
    ELSE Journaled(r) /\ Readable(r)

StartRemoval(i, r) ==
    /\ cmd[i] = "off" /\ Fresh(i) /\ Resumes(i, r)
    /\ cmd' = [cmd EXCEPT ![i] = "begin"]
    /\ want' = [want EXCEPT ![i] = Removal]
    /\ resumed' = [resumed EXCEPT ![i] = r]
    /\ txn' = [txn EXCEPT ![i] = IF r = None THEN i ELSE r]
    /\ ownership' = ownership \ {i}
    /\ owner' = Restarted(i)
    /\ UNCHANGED <<lockDir, candidate, bootVars, journalVars, storeVars, adopted, at, plan,
                   stops, removalVars>>

(* begin reads the journal that is to be resumed once more, under the      *)
(* guard: a sweep or another run may have come in between.                 *)
Lost(i) ==
    /\ cmd[i] = "begin" /\ at[i] = "start" /\ resumed[i] # None
    /\ ~(Journaled(resumed[i]) /\ Readable(resumed[i]))
ResumeRefused(i) == Lost(i) /\ Refuse(i) /\ UNCHANGED removalVars

(* uninstall: resume the journal, or plan and keep the tools outside.      *)
OfRemoval(i, a) == cmd[i] = "uninstall" /\ at[i] = a
Others == <<lockVars, candidate, layout, asset, backup, journalVars, ownership, storeVars,
            adopted, stops, skills>>
Kept == <<Others, disturbed>>
Planned == {t \in Installers : staging[t] # None}
Supersede(i) == disturbed' = disturbed \cup (Planned \ {txn[i]})
Intact(t) == staging[t] # None /\ staging[t].whole
Stage(i, s) == staging' = [staging EXCEPT ![txn[i]] = s]

FindJournal(i) ==
    /\ OfRemoval(i, "start") /\ HasLock(i, "uninstall")
    /\ Journaled(txn[i]) /\ Readable(txn[i])
    /\ Continue(i, "next") /\ Supersede(i)
    /\ UNCHANGED <<Others, staging>>

PlanRemoval(i) ==
    /\ OfRemoval(i, "start") /\ HasLock(i, "uninstall")
    /\ ~Journaled(txn[i]) /\ Removable(txn[i])
    /\ Stage(i, [plan |-> RemovalPlan, journal |-> None, was |-> None, proofs |-> {},
                 skills |-> None, whole |-> TRUE])
    /\ Continue(i, "journal")
    /\ UNCHANGED Kept

JournalRemoval(i) ==
    /\ OfRemoval(i, "journal") /\ Intact(txn[i]) /\ OwnedReleases
    /\ Stage(i, [staging[txn[i]] EXCEPT
                    !.was = Evidence,
                    !.journal = [done |-> 0, begun |-> FALSE, committed |-> FALSE]])
    /\ Continue(i, "next") /\ Supersede(i)
    /\ UNCHANGED Others

RemovalRefused(i) ==
    /\ \/ /\ OfRemoval(i, "start")
          /\ \/ ~HasLock(i, "uninstall")
             \/ Journaled(txn[i]) /\ ~Readable(txn[i])
             \/ ~Journaled(txn[i]) /\ ~Removable(txn[i])
       \/ OfRemoval(i, "journal") /\ ~OwnedReleases
       \/ at[i] \in {"journal", "next", "before", "after"} /\ ~Intact(txn[i])
       \/ /\ at[i] \in {"next", "remove"} /\ Intact(txn[i])
          /\ LET s == staging[txn[i]] IN
             s.journal.done < Len(s.plan) /\ ~Executable(s, s.journal.done + 1)
    /\ Refuse(i) /\ UNCHANGED removalVars

-----------------------------------------------------------------------------
(* The actions, one after the other: proof, "before", the action, "after". *)
(* An uninstall that was resumed while the one before it was sweeping the  *)
(* recovery directory loses it, wherever it is; what it does without its   *)
(* evidence, and leaves behind, is left out.                               *)
Current(i) == staging[txn[i]].plan[staging[txn[i]].journal.done + 1]
HasNext(i) == Intact(txn[i]) /\ staging[txn[i]].journal.done < Len(staging[txn[i]].plan)
Checked(i) == HasNext(i) /\ Executable(staging[txn[i]], staging[txn[i]].journal.done + 1)
ToProve(i) ==
    /\ Current(i).kind = "release" /\ release[Current(i).of] # None
    /\ Current(i).of \notin staging[txn[i]].proofs

ProveRelease(i) ==
    /\ OfRemoval(i, "next") /\ Checked(i) /\ ToProve(i)
    /\ Stage(i, [staging[txn[i]] EXCEPT !.proofs = @ \cup {Current(i).of}])
    /\ Continue(i, "before")
    /\ UNCHANGED Kept

CheckpointBefore(i) ==
    /\ \/ OfRemoval(i, "next") /\ Checked(i) /\ ~ToProve(i)
       \/ OfRemoval(i, "before") /\ Intact(txn[i])
    /\ Stage(i, [staging[txn[i]] EXCEPT !.journal.begun = TRUE])
    /\ Continue(i, "remove")
    /\ UNCHANGED Kept

CheckpointAfter(i) ==
    /\ OfRemoval(i, "after") /\ Intact(txn[i])
    /\ Stage(i, [staging[txn[i]] EXCEPT !.journal.begun = FALSE, !.journal.done = @ + 1])
    /\ Continue(i, "next")
    /\ UNCHANGED Kept

Removes(i, kind) ==
    /\ OfRemoval(i, "remove") /\ Checked(i) /\ Current(i).kind = kind

(* rmtree: a part, then the rest.                                          *)
RemoveRelease(i) ==
    /\ Removes(i, "release")
    /\ LET c == Current(i).of IN
       IF release[c] \in {None, Rubble(staging[txn[i]].was.release[c])}
       THEN release' = [release EXCEPT ![c] = None] /\ Continue(i, "after")
       ELSE release' = [release EXCEPT ![c] = Rubble(@)] /\ Continue(i, "remove")
    /\ UNCHANGED <<lockVars, candidate, bootVars, journalVars, ownership, receipt, manifest,
                   pointer, adopted, stops, removalVars>>

RemoveMetadata(i) ==
    /\ \E k \in {"manifest", "receipt", "pointer", "layout", "journal"} : Removes(i, k)
    /\ LET act == Current(i)
           gone(f) == [f EXCEPT ![act.of] = None] IN
       /\ manifest' = IF act.kind = "manifest" THEN gone(manifest) ELSE manifest
       /\ receipt' = IF act.kind = "receipt" THEN gone(receipt) ELSE receipt
       /\ pointer' = IF act.kind = "pointer" THEN [current |-> None, previous |-> None]
                     ELSE pointer
       /\ layout' = IF act.kind = "layout" /\ Installed THEN None ELSE layout
       /\ journal' = IF act.kind = "journal" THEN None ELSE journal
       /\ phase' = IF act.kind = "journal" THEN "journaled" ELSE phase
    /\ Continue(i, "after")
    /\ UNCHANGED <<lockVars, candidate, asset, backup, staging, ownership, release, adopted,
                   stops, removalVars>>

(* The displaced file comes back: the asset goes, then the backup moves.   *)
RemoveAsset(i) ==
    /\ Removes(i, "asset") \/ Removes(i, "restore")
    /\ LET a == Current(i).of
           original == IF Current(i).kind = "restore" THEN backup[a] ELSE None
           restored == Current(i).kind = "restore" /\ backup[a] = None IN
       IF restored THEN Continue(i, "after") /\ UNCHANGED <<asset, backup>>
       ELSE IF asset[a] # None /\ original # None
       THEN /\ asset' = [asset EXCEPT ![a] = None]
            /\ Continue(i, "remove") /\ UNCHANGED backup
       ELSE /\ asset' = [asset EXCEPT ![a] = original]
            /\ backup' = IF original = None THEN backup ELSE [backup EXCEPT ![a] = None]
            /\ Continue(i, "after")
    /\ UNCHANGED <<lockVars, candidate, layout, staging, journalVars, ownership, storeVars,
                   adopted, stops, removalVars>>

StageCapability(i) ==
    /\ Removes(i, "stage")
    /\ Stage(i, [staging[txn[i]] EXCEPT !.skills = IF @ = None THEN "part" ELSE "skills"])
    /\ Continue(i, IF staging[txn[i]].skills = None THEN "remove" ELSE "after")
    /\ UNCHANGED Kept

(* A capability the user changed is kept.  When the cleanup fails, the     *)
(* uninstall ends here, its lock and its journal kept for a retry.         *)
CleanUpCapability(i) ==
    /\ Removes(i, "cleanup")
    /\ skills' = IF skills = staging[txn[i]].skills THEN None ELSE skills
    /\ Continue(i, "after")
    /\ UNCHANGED <<lockVars, candidate, bootVars, journalVars, ownership, storeVars, adopted,
                   stops, disturbed>>

CleanUpFails(i) ==
    /\ Removes(i, "cleanup") /\ stops < MaxStops
    /\ stops' = stops + 1
    /\ End(i)
    /\ UNCHANGED <<lockVars, candidate, bootVars, journalVars, ownership, storeVars, adopted,
                   removalVars>>

CommitRemoval(i) ==
    /\ OfRemoval(i, "next") /\ Intact(txn[i]) /\ ~HasNext(i)
    /\ Stage(i, [staging[txn[i]] EXCEPT !.journal.committed = TRUE])
    /\ Continue(i, "release")
    /\ UNCHANGED Kept

(* The lock is gone: the recovery directory goes, a part, then the rest.   *)
SweepStaging(i) ==
    /\ OfRemoval(i, "sweep")
    /\ IF Intact(txn[i])
       THEN /\ Stage(i, [staging[txn[i]] EXCEPT !.whole = FALSE])
            /\ Continue(i, "sweep") /\ UNCHANGED disturbed
       ELSE /\ Stage(i, None) /\ End(i)
            /\ disturbed' = IF txn[i] \in disturbed
                            THEN (disturbed \ {txn[i]}) \cup {Removal} ELSE disturbed
    /\ UNCHANGED <<lockVars, candidate, layout, asset, backup, journalVars, ownership,
                   storeVars, adopted, stops, skills>>

-----------------------------------------------------------------------------
(* The user edits, between two runs or before an action of an uninstall, a *)
(* bootstrap file, the installed capability, or a release that an uninstall*)
(* is about to remove.  An edit counts as an interruption.                 *)
Planning(c) == \E t \in Installers \ disturbed :
    Journaled(t) /\ ~staging[t].journal.committed /\ staging[t].was.release[c] = release[c]

Edit ==
    /\ stops < MaxStops /\ stops' = stops + 1
    /\ \A i \in Installers : cmd[i] \in {"off", "begin"} \/ OfRemoval(i, "remove")
    /\ \/ /\ \E a \in Assets : /\ asset[a] \notin {None, "edited"}
                               /\ asset' = [asset EXCEPT ![a] = "edited"]
          /\ disturbed' = disturbed \cup Planned
          /\ UNCHANGED <<release, skills>>
       \/ /\ skills = "skills" /\ skills' = "edited"
          /\ UNCHANGED <<asset, release, disturbed>>
       \/ /\ \E c \in Commits : /\ release[c] # None /\ Planning(c)
                                /\ release' = [release EXCEPT ![c] = Edited(@)]
          /\ disturbed' = disturbed \cup Planned
          /\ UNCHANGED <<asset, skills>>
    /\ UNCHANGED <<lockVars, candidate, layout, backup, staging, journalVars, ownership,
                   receipt, manifest, pointer, adopted, processVars>>

RemovalStep(i) == cmd[i] = "uninstall" /\
    \/ FindJournal(i) \/ PlanRemoval(i) \/ JournalRemoval(i) \/ RemovalRefused(i)
    \/ ProveRelease(i) \/ CheckpointBefore(i) \/ CheckpointAfter(i)
    \/ RemoveRelease(i) \/ RemoveMetadata(i) \/ RemoveAsset(i) \/ StageCapability(i)
    \/ CleanUpCapability(i) \/ CommitRemoval(i) \/ SweepStaging(i)

(* A step of an installer, and what it does to uninstalls that planned.    *)
Installation == <<layout, asset, backup, storeVars, journalVars>>
Noticed ==
    /\ disturbed' = IF UNCHANGED Installation THEN disturbed ELSE disturbed \cup Planned
    /\ UNCHANGED skills

RunStep(i) == cmd[i] # "off" /\
    (RemovalStep(i) \/ ResumeRefused(i) \/ (~Lost(i) /\ Step(i) /\ Noticed))
Interrupt(i) == CleanUpFails(i) \/ (Stop(i) /\ Noticed)

RemovalNext == \E i \in Installers :
    \/ \E c \in Commits \cup {None} : Start(i, c) /\ Noticed
    \/ \E r \in Installers \cup {None} : StartRemoval(i, r)
    \/ RunStep(i) \/ Interrupt(i) \/ Edit

RemovalSpec == RemovalInit /\ [][RemovalNext]_allVars

-----------------------------------------------------------------------------
(* Whatever was interrupted, a pending journal can be recovered.  What an  *)
(* uninstall has begun to take apart is the uninstall's to finish; and one *)
(* that is resumed over an install which came after its plan removes what  *)
(* that install is based on, its journal included or not.                  *)
Removing == \E t \in Installers : Journaled(t)
Overrun == Removal \in disturbed
PendingIsRecoverable == Removing \/ Overrun \/ JournalIsRecoverable

(* Wherever an uninstall was interrupted, in the middle of a deletion too, *)
(* its journal is accepted by resume-uninstall and its next action can be  *)
(* carried out, as long as nobody else changed the installation, and no    *)
(* uninstall was carried out over an installation that had changed.        *)
RemovalIsResumable == Overrun \/
    \A t \in Installers \ disturbed :
        LET s == staging[t] IN
        Journaled(t) /\ ~s.journal.committed =>
            Readable(t) /\ (s.journal.done < Len(s.plan) => Executable(s, s.journal.done + 1))

(* A file the user wrote, in the place of an asset, of a capability or     *)
(* inside a release, is never deleted or overwritten without a backup,     *)
(* whoever installs, uninstalls or resumes, and a backup only leaves to be *)
(* restored.                                                               *)
UsersData == {"legacy", "edited"}
KeepsUsersData ==
    /\ \A a \in Assets :
          /\ asset[a] \in UsersData =>
                asset[a] \in {asset'[a], backup'[a]} \/ asset'[a] = "edited"
          /\ backup[a] \in UsersData => backup[a] \in {asset'[a], backup'[a]}
    /\ \A c \in Commits : release[c] # None /\ release[c].build = Removal =>
          release'[c] = release[c]
    /\ skills = "edited" => skills' = "edited"
NothingOfTheUserIsLost == [][KeepsUsersData]_allVars

-----------------------------------------------------------------------------
RemovalFairness == \A i \in Installers : WF_allVars(RunStep(i))

(* While installs keep being started and rollbacks, which can take the     *)
(* guard from them every time, are not, a journal is brought to its end -  *)
(* unless a lock is torn: the process that was removing it died between    *)
(* owner.json and the directory.                                           *)
TornLock == lockDir /\ owner = None /\ \A i \in Installers : at[i] \notin {"rmdir", "unlock"}
OnlyInstalls == \A i \in Installers : cmd[i] # "off" => want[i] \in Commits
RecoveryCompletes ==
    <>[]OnlyInstalls => (journal # None ~> (journal = None \/ TornLock \/ Removing \/ Overrun))
=============================================================================
