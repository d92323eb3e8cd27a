------------------------- MODULE ReleaseTransaction -------------------------
(***************************************************************************)
(* The installer: install/devloop.sh drives install/bootstrap/transaction  *)
(* .py, one command after the other, to switch an installation from one    *)
(* immutable release to the next.  Every durable file operation is one     *)
(* step here, so that an installer may stop between any two of them.       *)
(*                                                                         *)
(* The stable bootstrap - the launchers and tools beside the releases - is *)
(* published once, file by file, over whatever stood in its place.         *)
(*                                                                         *)
(* A payload is one clone of a commit with its runtime: two clones of the  *)
(* same commit differ in their Git and runtime fingerprints.  A payload    *)
(* stands for the fingerprints that manifest, receipt, journal and pointer *)
(* record of it.  Version 1 layouts and pointers are left out.  Uninstall  *)
(* completes the module with the command that removes an installation; its *)
(* recovery directory and its lock are already known here, because begin   *)
(* has to tell them from an installer's.                                   *)
(***************************************************************************)
EXTENDS Naturals, FiniteSets

CONSTANTS
    Installers,     \* runs of devloop.sh; also the uuid each of them draws
    Commits,        \* the commits that can be installed
    None,           \* an absent file or field
    AssetsOf,       \* the content of the bootstrap assets a commit ships
    Assets,         \* those assets
    Removal,        \* what an uninstall wants, in place of a commit
    MaxStops        \* bound of the model: how many installers are interrupted

ASSUME NoneAssumption ==
    None # Removal /\ {None, Removal} \cap (Installers \cup Commits) = {}
ASSUME AssetsAssumption == AssetsOf \in [Commits -> STRING]
ASSUME MaxStopsAssumption == MaxStops \in Nat

VARIABLES
    lockDir,        \* the install lock: its directory ...
    owner,          \* ... and the owner.json inside it
    candidate,      \* the candidate directory of each transaction
    layout,         \* layout.pending.json and layout.json: which stand, what they say
    asset,          \* the files of the stable bootstrap ...
    backup,         \* ... and what bootstrap/legacy-assets keeps of their places
    staging,        \* the recovery directory of each uninstall
    journal,        \* install-transaction.json: what is being installed ...
    phase,          \* ... and its phase
    ownership,      \* the transactions with a candidate-<id>.json
    receipt,        \* git-ownership-<commit>.json
    manifest,       \* release-<commit>.json
    release,        \* releases/<commit>
    pointer,        \* current.json
    adopted,        \* the commits whose user-state adoption completed
    cmd, at,        \* the command an installer runs, and its next step
    want,           \* the commit an installer installs, None for --rollback
    txn,            \* its TRANSACTION_ID
    resumed,        \* the uninstall it was asked to resume
    plan,           \* the journal in the memory of the running command
    stops           \* interruptions so far

lockVars == <<lockDir, owner>>
bootVars == <<layout, asset, backup, staging>>
journalVars == <<journal, phase>>
storeVars == <<receipt, manifest, release, pointer>>
processVars == <<cmd, at, want, txn, resumed, plan>>
vars == <<lockVars, candidate, bootVars, journalVars, ownership, storeVars, adopted,
          processVars, stops>>

Payload == [commit : Commits, build : Installers]
Candidate == [commit : Commits \cup {None}, build : Installers]
Pointer == [current : Payload \cup {None}, previous : Payload \cup {None}]
Plan == [txn : Installers, payload : Payload, base : Pointer]
Owner == [txn : Installers, pid : Installers \cup {None},
          op : {"install", "rollback", "uninstall"}]
Phases == {"journaled", "owned", "manifested", "prepared", "release_ready",
           "adopted", "switched", "committed"}
Contents == {"legacy", "edited"} \cup {AssetsOf[c] : c \in Commits}
Layout == [assets : Contents, state : {"pending", "both", "ready"},
           original : [Assets -> Contents \cup {None}],
           saved : SUBSET Assets, published : SUBSET Assets]

(* An absent file is none of the files, and what stood in the place of an  *)
(* asset or was edited by the user is nothing that a commit ships.         *)
ASSUME AbsenceAssumption == None \notin Payload \cup Plan \cup Layout
ASSUME ContentsAssumption ==
    {"legacy", "edited"} \cap ({None} \cup {AssetsOf[c] : c \in Commits}) = {}

Init ==
    /\ lockDir = FALSE /\ owner = None
    /\ candidate = [t \in Installers |-> None]
    /\ layout = None
    /\ asset \in [Assets -> {None, "legacy"}]
    /\ backup = [a \in Assets |-> None]
    /\ staging = [t \in Installers |-> None]
    /\ journal = None /\ phase = "journaled" /\ ownership = {}
    /\ receipt = [c \in Commits |-> None]
    /\ manifest = [c \in Commits |-> None]
    /\ release = [c \in Commits |-> None]
    /\ pointer = [current |-> None, previous |-> None]
    /\ adopted = {}
    /\ cmd = [i \in Installers |-> "off"] /\ at = [i \in Installers |-> "start"]
    /\ want = [i \in Installers |-> None]
    /\ txn = [i \in Installers |-> i]
    /\ resumed = [i \in Installers |-> None]
    /\ plan = [i \in Installers |-> None]
    /\ stops = 0

-----------------------------------------------------------------------------
(* Evidence.  verify_release and verify_pointer compare a release with its *)
(* manifest, its receipt and, for a pointer or a journal, the recorded     *)
(* fingerprints.                                                           *)
VerifiedRelease(c) ==
    /\ manifest[c] # None /\ release[c] = manifest[c]
    /\ receipt[c] \in {None, release[c]}
Verified(p) == VerifiedRelease(p.commit) /\ release[p.commit] = p
VerifiedPointer ==
    /\ pointer.current # None => Verified(pointer.current)
    /\ pointer.previous # None => Verified(pointer.previous)

(* _journal: after its first phase a journal needs its ownership file.     *)
JournalReadable == journal = None \/ phase = "journaled" \/ journal.txn \in ownership
HasLock(i, op) == owner # None /\ owner.txn = txn[i] /\ owner.op = op

Switched(p) == [current |-> p.payload, previous |-> p.base.current]
FaultSwitched(p) == [current |-> p.payload, previous |-> pointer.current]
SwitchedPointer(p) == Switched(p)

-----------------------------------------------------------------------------
(* How an installer moves on: the next step of a command, or the next      *)
(* command.  Its memory is gone when it ends.                              *)
Load(i, c, a, p) ==
    /\ cmd' = [cmd EXCEPT ![i] = c]
    /\ at' = [at EXCEPT ![i] = a]
    /\ plan' = [plan EXCEPT ![i] = p]
    /\ UNCHANGED <<want, txn, resumed>>

Goto(i, c, a) == Load(i, c, a, plan[i])
Continue(i, a) == Goto(i, cmd[i], a)

End(i) ==
    /\ cmd' = [cmd EXCEPT ![i] = "off"]
    /\ at' = [at EXCEPT ![i] = "start"]
    /\ want' = [want EXCEPT ![i] = None]
    /\ txn' = [txn EXCEPT ![i] = i]
    /\ resumed' = [resumed EXCEPT ![i] = None]
    /\ plan' = [plan EXCEPT ![i] = None]

(* Until prepare starts, the EXIT trap of the shell removes the candidate. *)
Trapped(i) ==
    \/ cmd[i] = "publish"
    \/ cmd[i] = "shell" /\ at[i] \in {"mkdir", "clone", "compare"}
WithoutCandidate(t) == [candidate EXCEPT ![t] = None]
Refuse(i) ==
    /\ End(i)
    /\ candidate' = IF Trapped(i) THEN WithoutCandidate(txn[i]) ELSE candidate
    /\ UNCHANGED <<lockVars, bootVars, journalVars, ownership, storeVars, adopted, stops>>

(* A new run draws a new uuid: one that no file mentions, apart from an    *)
(* ownership file or a lock that a crash left behind, where nothing else   *)
(* has that id any more.  The evidence of an uninstall is a file, too.     *)
Journaled(t) == staging[t] # None /\ staging[t].journal # None
Recorded(t) == {staging[t].was.release[c] : c \in Commits}
               \cup (IF staging[t].was.pending[1] = None THEN {}
                     ELSE {staging[t].was.pending[1].payload})
Fresh(i) ==
    /\ candidate[i] = None /\ staging[i] = None
    /\ journal # None => i \notin {journal.txn, journal.payload.build}
    /\ \A j \in Installers \ {i} : i \notin {txn[j], resumed[j]}
    /\ \A c \in Commits : \A f \in {receipt[c], manifest[c], release[c]} :
          f # None => f.build # i
    /\ \A t \in Installers : Journaled(t) =>
          \A f \in Recorded(t) : f # None => f.build # i

Installed == layout # None /\ layout.state # "pending"

(* A lock of an earlier process with its id is not its own: the identity   *)
(* of a process holds its start time too.                                  *)
Restarted(i) ==
    IF owner # None /\ owner.pid = i THEN [owner EXCEPT !.pid = None] ELSE owner

Start(i, c) ==
    /\ cmd[i] = "off" /\ Fresh(i)
    /\ c = None => Installed
    /\ cmd' = [cmd EXCEPT ![i] = "begin"]
    /\ want' = [want EXCEPT ![i] = c]
    /\ ownership' = ownership \ {i}
    /\ owner' = Restarted(i)
    /\ UNCHANGED <<lockDir, candidate, bootVars, journalVars, storeVars, adopted, at, txn,
                   resumed, plan, stops>>

-----------------------------------------------------------------------------
(* begin: under the guard, reclaim the lock of a dead owner and take it.   *)
(* An advisory file lock is the guard; it dies with the process.           *)
Guarded(i) == (cmd[i] = "begin" /\ at[i] # "start") \/ at[i] = "unlock"
GuardBusy(i) == \E j \in Installers \ {i} : Guarded(j)
FaultOwnerAlive == FALSE
OwnerAlive == owner.pid # None /\ cmd[owner.pid] # "off"

(* What the dead owner left: a journal to recover, an uninstall to resume, *)
(* or at most a candidate to remove.                                       *)
ResumesRemoval(i) == want[i] = Removal /\ Journaled(owner.txn)

FaultResumedTxn(i) == txn[i]
ResumedTxn(i) ==
    IF journal # None THEN journal.txn
    ELSE IF ResumesRemoval(i) THEN owner.txn ELSE txn[i]
FaultReaped(i) == WithoutCandidate(owner.txn)
Reaped(i) ==
    IF journal # None \/ ResumesRemoval(i) THEN candidate ELSE WithoutCandidate(owner.txn)

BeginRefused(i) ==
    /\ cmd[i] = "begin" /\ at[i] = "start"
    /\ \/ GuardBusy(i)
       \/ lockDir /\ (owner # None => OwnerAlive)
    /\ Refuse(i)

BeginFree(i) ==
    /\ cmd[i] = "begin" /\ at[i] = "start"
    /\ ~GuardBusy(i) /\ ~lockDir
    /\ Continue(i, "acquire")
    /\ UNCHANGED <<lockVars, candidate, bootVars, journalVars, ownership, storeVars, adopted,
                   stops>>

BeginStale(i) ==
    /\ cmd[i] = "begin" /\ at[i] = "start"
    /\ ~GuardBusy(i) /\ lockDir /\ owner # None /\ ~OwnerAlive
    /\ txn' = [txn EXCEPT ![i] = ResumedTxn(i)]
    /\ candidate' = Reaped(i)
    /\ at' = [at EXCEPT ![i] = "unlink"]
    /\ UNCHANGED <<lockVars, bootVars, journalVars, ownership, storeVars, adopted, cmd, want,
                   resumed, plan, stops>>

(* _remove_lock, of begin and of _release_lock.                            *)
UnlinkStaleOwner(i) ==
    /\ at[i] = "unlink"
    /\ owner' = None
    /\ Continue(i, "rmdir")
    /\ UNCHANGED <<lockDir, candidate, bootVars, journalVars, ownership, storeVars, adopted,
                   stops>>

RemoveStaleLock(i) ==
    /\ at[i] = "rmdir"
    /\ lockDir' = FALSE
    /\ Continue(i, "acquire")
    /\ UNCHANGED <<owner, candidate, bootVars, journalVars, ownership, storeVars, adopted,
                   stops>>

(* _reconcile_committed_pending_layout: a publication that stopped between *)
(* layout.json and the removal of layout.pending.json.                     *)
AssetsMatch == \A a \in Assets : asset[a] = layout.assets
Committed(l) == [l EXCEPT !.state = "ready", !.saved = {}, !.published = {}]

Operation(i) ==
    IF want[i] = None THEN "rollback" ELSE IF want[i] = Removal THEN "uninstall" ELSE "install"

AfterBegin(i) ==
    CASE Operation(i) = "rollback" -> Goto(i, "rollback", "start")
      [] Operation(i) = "uninstall" ->
            Goto(i, "uninstall", IF resumed[i] \in {None, txn[i]} THEN "start" ELSE "release")
      [] OTHER -> IF Installed /\ journal # None
                  THEN Goto(i, "recover", "start") ELSE Goto(i, "shell", "mkdir")

Acquire(i) ==
    /\ at[i] = "acquire"
    /\ lockDir' = TRUE
    /\ owner' = [txn |-> txn[i], pid |-> i, op |-> Operation(i)]
    /\ IF layout # None /\ layout.state = "both" /\ ~AssetsMatch
       THEN End(i) /\ UNCHANGED layout
       ELSE /\ AfterBegin(i)
            /\ layout' = IF Installed THEN Committed(layout) ELSE layout
    /\ UNCHANGED <<candidate, asset, backup, staging, journalVars, ownership, storeVars,
                   adopted, stops>>

ReleaseLock(i) ==
    /\ at[i] = "release"
    /\ IF ~GuardBusy(i) /\ owner # None /\ owner.txn = txn[i]
       THEN /\ owner' = None
            /\ Continue(i, "unlock")
            /\ UNCHANGED <<lockDir, candidate, bootVars, journalVars, ownership, storeVars,
                           adopted, stops>>
       ELSE Refuse(i)

RemoveLock(i) ==
    /\ at[i] = "unlock"
    /\ lockDir' = FALSE
    /\ IF cmd[i] = "uninstall" /\ resumed[i] \in {None, txn[i]} /\ Journaled(txn[i])
       THEN Continue(i, "sweep") ELSE End(i)
    /\ UNCHANGED <<owner, candidate, bootVars, journalVars, ownership, storeVars, adopted,
                   stops>>

-----------------------------------------------------------------------------
(* The shell stages a candidate outside the installation.                  *)
MakeCandidate(i) ==
    /\ cmd[i] = "shell" /\ at[i] = "mkdir"
    /\ IF candidate[txn[i]] = None
       THEN /\ candidate' = [candidate EXCEPT ![txn[i]] = [commit |-> None, build |-> i]]
            /\ Continue(i, "clone")
            /\ UNCHANGED <<lockVars, bootVars, journalVars, ownership, storeVars, adopted, stops>>
       ELSE Refuse(i)

Clone(i) ==
    /\ cmd[i] = "shell" /\ at[i] = "clone"
    /\ candidate' = [candidate EXCEPT ![txn[i]] = [commit |-> want[i], build |-> i]]
    /\ Continue(i, "compare")
    /\ UNCHANGED <<lockVars, bootVars, journalVars, ownership, storeVars, adopted, stops>>

Compare(i) ==
    /\ cmd[i] = "shell" /\ at[i] = "compare"
    /\ IF pointer.current # None /\ ~Verified(pointer.current)
       THEN Refuse(i)
       ELSE /\ IF pointer.current # None /\ pointer.current.commit = want[i]
               THEN /\ candidate' = WithoutCandidate(txn[i])
                    /\ Continue(i, "readopt")
               ELSE /\ Goto(i, "publish", "start")
                    /\ UNCHANGED candidate
            /\ UNCHANGED <<lockVars, bootVars, journalVars, ownership, storeVars, adopted, stops>>

(* initialize_user_state, for the current release and for a new one.       *)
Adopt(i) ==
    /\ cmd[i] = "shell" /\ at[i] \in {"readopt", "adopt"}
    /\ adopted' = adopted \cup {IF at[i] = "readopt" THEN want[i] ELSE plan[i].payload.commit}
    /\ Goto(i, IF at[i] = "readopt" THEN "abort" ELSE "commit", "start")
    /\ UNCHANGED <<lockVars, candidate, bootVars, journalVars, ownership, storeVars, stops>>

Abort(i) ==
    /\ cmd[i] = "abort" /\ at[i] = "start"
    /\ IF HasLock(i, "install") /\ journal = None
       THEN /\ candidate' = WithoutCandidate(txn[i])
            /\ Continue(i, "release")
            /\ UNCHANGED <<lockVars, bootVars, journalVars, ownership, storeVars, adopted, stops>>
       ELSE Refuse(i)

(* publish: the stable bootstrap, once.  The pending layout names what     *)
(* stood in the way; each of it is linked into legacy-assets, then each    *)
(* asset is put in its place, and both are recorded as they are done.  An  *)
(* interrupted publication is resumed only by a candidate that ships the   *)
(* same assets.                                                            *)
ValidPublication(l) ==
    \A a \in Assets :
        /\ asset[a] = None => l.original[a] = None /\ a \notin l.published
        /\ asset[a] # None =>
              asset[a] = l.assets \/ (a \notin l.published /\ asset[a] = l.original[a])
        /\ l.original[a] # None =>
              \/ backup[a] = l.original[a]
              \/ backup[a] = None /\ a \notin l.saved /\ asset[a] = l.original[a]

NewLayout(assets) ==
    [assets |-> assets, state |-> "pending", original |-> asset, saved |-> {}, published |-> {}]

Publish(i) ==
    /\ cmd[i] = "publish" /\ at[i] = "start"
    /\ HasLock(i, "install")
    /\ \/ /\ layout = None
          /\ layout' = NewLayout(AssetsOf[want[i]])
          /\ Continue(i, "check")
       \/ /\ layout # None /\ layout.state = "pending" /\ layout.assets = AssetsOf[want[i]]
          /\ Continue(i, "check") /\ UNCHANGED layout
       \/ /\ Installed /\ AssetsMatch
          /\ Goto(i, "prepare", "start") /\ UNCHANGED layout
    /\ UNCHANGED <<lockVars, candidate, asset, backup, staging, journalVars, ownership,
                   storeVars, adopted, stops>>

PublishRefused(i) ==
    /\ cmd[i] = "publish"
    /\ \/ at[i] = "start" /\ ~HasLock(i, "install")
       \/ at[i] = "start" /\ layout # None /\ layout.state = "pending"
                          /\ layout.assets # AssetsOf[want[i]]
       \/ at[i] = "start" /\ Installed /\ ~AssetsMatch
       \/ at[i] = "check" /\ ~ValidPublication(layout)
    /\ Refuse(i)

CheckPublication(i) ==
    /\ at[i] = "check" /\ ValidPublication(layout)
    /\ Continue(i, "save")
    /\ UNCHANGED <<lockVars, candidate, bootVars, journalVars, ownership, storeVars, adopted,
                   stops>>

Unsaved == {a \in Assets : layout.original[a] # None} \ layout.saved
Unpublished == Assets \ layout.published

SaveOriginal(i) ==
    /\ at[i] = "save"
    /\ IF Unsaved = {} THEN Continue(i, "place_asset") /\ UNCHANGED backup
       ELSE LET a == CHOOSE a \in Unsaved : TRUE IN
            /\ backup' = [backup EXCEPT ![a] = layout.original[a]]
            /\ Continue(i, "saved")
    /\ UNCHANGED <<lockVars, candidate, layout, asset, staging, journalVars, ownership,
                   storeVars, adopted, stops>>

PlaceAsset(i) ==
    /\ at[i] = "place_asset"
    /\ IF Unpublished = {} THEN Continue(i, "publishing") /\ UNCHANGED asset
       ELSE /\ asset' = [asset EXCEPT ![CHOOSE a \in Unpublished : TRUE] = layout.assets]
            /\ Continue(i, "placed")
    /\ UNCHANGED <<lockVars, candidate, layout, backup, staging, journalVars, ownership,
                   storeVars, adopted, stops>>

RecordPublication(i) ==
    /\ at[i] \in {"saved", "placed"}
    /\ layout' = IF at[i] = "saved"
                 THEN [layout EXCEPT !.saved = @ \cup {CHOOSE a \in Unsaved : TRUE}]
                 ELSE [layout EXCEPT !.published = @ \cup {CHOOSE a \in Unpublished : TRUE}]
    /\ Continue(i, IF at[i] = "saved" THEN "save" ELSE "place_asset")
    /\ UNCHANGED <<lockVars, candidate, asset, backup, staging, journalVars, ownership,
                   storeVars, adopted, stops>>

FinishPublication(i) ==
    /\ at[i] \in {"publishing", "unpend"}
    /\ layout' = IF at[i] = "publishing" THEN [layout EXCEPT !.state = "both"]
                 ELSE Committed(layout)
    /\ IF at[i] = "publishing" THEN Continue(i, "unpend") ELSE Goto(i, "prepare", "start")
    /\ UNCHANGED <<lockVars, candidate, asset, backup, staging, journalVars, ownership,
                   storeVars, adopted, stops>>

-----------------------------------------------------------------------------
(* prepare: journal the candidate and move it into its canonical place, or *)
(* keep the release that is already there.                                 *)
IsRetained(c) == release[c] # None

Prepare(i) ==
    /\ cmd[i] = "prepare" /\ at[i] = "start"
    /\ LET c == want[i]
           staged == candidate[txn[i]]
           with(p) == [txn |-> txn[i], payload |-> p, base |-> pointer] IN
       IF /\ HasLock(i, "install")
          /\ staged # None /\ staged.commit = c
          /\ Installed /\ AssetsMatch
          /\ journal = None /\ VerifiedPointer
          /\ IsRetained(c) => VerifiedRelease(c) /\ receipt[c] # None
       THEN /\ IF IsRetained(c) THEN Load(i, "prepare", "retain", with(release[c]))
               ELSE Load(i, "prepare", "receipt", with(staged))
            /\ UNCHANGED <<lockVars, candidate, bootVars, journalVars, ownership, storeVars,
                           adopted, stops>>
       ELSE Refuse(i)

DiscardCandidate(i) ==
    /\ at[i] = "retain"
    /\ candidate' = WithoutCandidate(txn[i])
    /\ Continue(i, "reown")
    /\ UNCHANGED <<lockVars, bootVars, journalVars, ownership, storeVars, adopted, stops>>

WriteReceipt(i) ==
    /\ at[i] = "receipt"
    /\ LET p == plan[i].payload IN
       IF receipt[p.commit] \in {None, candidate[txn[i]]}
       THEN /\ receipt' = [receipt EXCEPT ![p.commit] = p]
            /\ Continue(i, "journaled")
            /\ UNCHANGED <<lockVars, candidate, bootVars, journalVars, ownership, manifest,
                           release, pointer, adopted, stops>>
       ELSE Refuse(i)

Own(i) ==
    /\ at[i] \in {"own", "reown"}
    /\ ownership' = ownership \cup {txn[i]}
    /\ Continue(i, IF at[i] = "own" THEN "owned" ELSE "release_ready")
    /\ UNCHANGED <<lockVars, candidate, bootVars, journalVars, storeVars, adopted, stops>>

WriteManifest(i) ==
    /\ at[i] = "manifest"
    /\ manifest' = [manifest EXCEPT ![plan[i].payload.commit] = plan[i].payload]
    /\ Continue(i, "manifested")
    /\ UNCHANGED <<lockVars, candidate, bootVars, journalVars, ownership, receipt, release,
                   pointer, adopted, stops>>

MoveCandidate(i) ==
    /\ at[i] = "move"
    /\ LET c == plan[i].payload.commit IN
       IF candidate[txn[i]] # None /\ release[c] = None
       THEN /\ release' = [release EXCEPT ![c] = candidate[txn[i]]]
            /\ candidate' = WithoutCandidate(txn[i])
            /\ Continue(i, "release_ready")
            /\ UNCHANGED <<lockVars, bootVars, journalVars, ownership, receipt, manifest,
                           pointer, adopted, stops>>
       ELSE Refuse(i)

(* What follows each journal write, in prepare, recover and commit.        *)
AfterJournal(i, ph) ==
    CASE ph = "journaled" -> Continue(i, "own")
      [] ph = "owned" -> Continue(i, "manifest")
      [] ph = "manifested" -> Continue(i, "prepared")
      [] ph = "prepared" -> Continue(i, IF cmd[i] = "recover" THEN "place" ELSE "move")
      [] ph = "release_ready" -> Goto(i, "shell", "adopt")
      [] ph = "adopted" -> Continue(i, "baseline")
      [] ph = "switched" -> Continue(i, "committed")
      [] ph = "committed" -> Continue(i, "verify")

WriteJournal(i) ==
    /\ at[i] \in Phases
    /\ journal' = plan[i] /\ phase' = at[i]
    /\ AfterJournal(i, at[i])
    /\ UNCHANGED <<lockVars, candidate, bootVars, ownership, storeVars, adopted, stops>>

-----------------------------------------------------------------------------
(* recover: what the journal's phase says is still to be done.             *)
LocationsOwned(p) ==
    \A f \in {candidate[p.txn], release[p.payload.commit]} :
        f # None => receipt[p.payload.commit] \in {None, f}

FaultResume(ph) ==
    IF ph = "release_ready" THEN <<"commit", "start">> ELSE <<"shell", "adopt">>
Resume(ph) ==
    CASE ph = "journaled" -> <<"recover", "own">>
      [] ph = "owned" -> <<"recover", "manifest">>
      [] ph = "manifested" -> <<"recover", "prepared">>
      [] ph = "prepared" -> <<"recover", "place">>
      [] ph = "release_ready" -> <<"shell", "adopt">>
      [] ph = "adopted" -> <<"commit", "start">>
      [] ph \in {"switched", "committed"} -> <<"recover", "finish">>

Resumable(p) ==
    CASE phase = "journaled" -> candidate[p.txn] = p.payload
      [] phase = "owned" -> candidate[p.txn] # None
      [] phase \in {"manifested", "prepared"} -> TRUE
      [] phase \in {"release_ready", "adopted"} -> Verified(p.payload)
      [] phase \in {"switched", "committed"} ->
            pointer = Switched(p) /\ Verified(pointer.current)

Recover(i) ==
    /\ cmd[i] = "recover" /\ at[i] = "start"
    /\ IF /\ HasLock(i, "install")
          /\ journal # None /\ JournalReadable /\ journal.txn = txn[i]
          /\ LocationsOwned(journal) /\ Resumable(journal)
       THEN /\ Load(i, Resume(phase)[1], Resume(phase)[2], journal)
            /\ UNCHANGED <<lockVars, candidate, bootVars, journalVars, ownership, storeVars,
                           adopted, stops>>
       ELSE Refuse(i)

(* The candidate, the canonical release or both may stand; what stands     *)
(* then is validated where it belongs.                                     *)
PlaceCandidate(i) ==
    /\ at[i] = "place"
    /\ LET p == plan[i].payload
           standing == {candidate[txn[i]], release[p.commit]} \ {None} IN
       IF standing = {p}
       THEN /\ release' = [release EXCEPT ![p.commit] = p]
            /\ candidate' = WithoutCandidate(txn[i])
            /\ IF manifest[p.commit] = p /\ receipt[p.commit] \in {None, p}
               THEN Continue(i, "release_ready") ELSE End(i)
            /\ UNCHANGED <<lockVars, bootVars, journalVars, ownership, receipt, manifest,
                           pointer, adopted, stops>>
       ELSE Refuse(i)

-----------------------------------------------------------------------------
(* commit: adopted, then the pointer in one durable write, then the end.   *)
Baseline(p) == pointer = p.base \/ pointer = Switched(p)

Commit(i) ==
    /\ cmd[i] = "commit" /\ at[i] = "start"
    /\ IF /\ HasLock(i, "install")
          /\ journal # None /\ JournalReadable /\ journal.txn = txn[i]
          /\ Verified(journal.payload)
       THEN /\ Load(i, "commit", IF phase = "release_ready" THEN "adopted" ELSE "baseline",
                    journal)
            /\ UNCHANGED <<lockVars, candidate, bootVars, journalVars, ownership, storeVars,
                           adopted, stops>>
       ELSE Refuse(i)

CheckBaseline(i) ==
    /\ at[i] = "baseline"
    /\ IF Baseline(plan[i]) /\ Verified(plan[i].payload)
       THEN /\ Continue(i, "swap")
            /\ UNCHANGED <<lockVars, candidate, bootVars, journalVars, ownership, storeVars,
                           adopted, stops>>
       ELSE Refuse(i)

SwitchPointer(i) ==
    /\ at[i] = "swap"
    /\ pointer' = SwitchedPointer(plan[i])
    /\ Continue(i, "switched")
    /\ UNCHANGED <<lockVars, candidate, bootVars, journalVars, ownership, receipt, manifest,
                   release, adopted, stops>>

VerifyInstalled(i) ==
    /\ at[i] = "verify"
    /\ IF pointer.current # None /\ Verified(pointer.current)
       THEN /\ Continue(i, "finish")
            /\ UNCHANGED <<lockVars, candidate, bootVars, journalVars, ownership, storeVars,
                           adopted, stops>>
       ELSE Refuse(i)

(* _finish_transaction: the journal goes before its ownership file.        *)
UnlinkJournal(i) ==
    /\ at[i] = "finish"
    /\ journal' = None /\ phase' = "journaled"
    /\ Continue(i, "unown")
    /\ UNCHANGED <<lockVars, candidate, bootVars, ownership, storeVars, adopted, stops>>

UnlinkOwnership(i) ==
    /\ at[i] = "unown"
    /\ ownership' = ownership \ {plan[i].txn}
    /\ Continue(i, "release")
    /\ UNCHANGED <<lockVars, candidate, bootVars, journalVars, storeVars, adopted, stops>>

-----------------------------------------------------------------------------
Rollback(i) ==
    /\ cmd[i] = "rollback" /\ at[i] = "start"
    /\ IF /\ HasLock(i, "rollback") /\ journal = None
          /\ pointer.current # None /\ pointer.previous # None /\ VerifiedPointer
       THEN /\ Load(i, "rollback", "swapback",
                    [txn |-> txn[i], payload |-> pointer.previous, base |-> pointer])
            /\ UNCHANGED <<lockVars, candidate, bootVars, journalVars, ownership, storeVars,
                           adopted, stops>>
       ELSE Refuse(i)

SwapBack(i) ==
    /\ at[i] = "swapback"
    /\ pointer' = Switched(plan[i])
    /\ Continue(i, "release")
    /\ UNCHANGED <<lockVars, candidate, bootVars, journalVars, ownership, receipt, manifest,
                   release, adopted, stops>>

-----------------------------------------------------------------------------
(* An interruption, or a failing clone, adoption or write: the shell and   *)
(* its command end together, with or without the trap.                     *)
Stop(i) ==
    /\ cmd[i] # "off" /\ stops < MaxStops
    /\ End(i)
    /\ \/ candidate' = candidate
       \/ Trapped(i) /\ candidate' = WithoutCandidate(txn[i])
    /\ stops' = stops + 1
    /\ UNCHANGED <<lockVars, bootVars, journalVars, ownership, storeVars, adopted>>

LockStep(i) ==
    \/ BeginRefused(i) \/ BeginFree(i) \/ BeginStale(i) \/ UnlinkStaleOwner(i)
    \/ RemoveStaleLock(i) \/ Acquire(i) \/ ReleaseLock(i) \/ RemoveLock(i)
ShellStep(i) == MakeCandidate(i) \/ Clone(i) \/ Compare(i) \/ Adopt(i)
PrepareStep(i) ==
    \/ Publish(i) \/ PublishRefused(i) \/ CheckPublication(i) \/ SaveOriginal(i)
    \/ PlaceAsset(i) \/ RecordPublication(i) \/ FinishPublication(i) \/ Prepare(i) \/ DiscardCandidate(i)
    \/ WriteReceipt(i) \/ Own(i) \/ WriteManifest(i) \/ MoveCandidate(i)
SwitchStep(i) ==
    \/ Recover(i) \/ PlaceCandidate(i) \/ Commit(i) \/ CheckBaseline(i) \/ SwitchPointer(i)
    \/ VerifyInstalled(i) \/ UnlinkJournal(i) \/ UnlinkOwnership(i)
    \/ Rollback(i) \/ SwapBack(i) \/ Abort(i)
Step(i) == LockStep(i) \/ ShellStep(i) \/ PrepareStep(i) \/ WriteJournal(i) \/ SwitchStep(i)

Next == \E i \in Installers :
    \/ \E c \in Commits \cup {None} : Start(i, c)
    \/ Step(i) \/ Stop(i)

Spec == Init /\ [][Next]_vars

-----------------------------------------------------------------------------
(* "Adoption must commit before activation."                               *)
ActiveIsAdopted ==
    \A p \in {pointer.current, pointer.previous} \ {None} : p.commit \in adopted

(* A journal left by an interruption in any phase is accepted by recover,  *)
(* and the pointer is one that commit accepts.                             *)
Recoverable(p) == JournalReadable /\ LocationsOwned(p) /\ Resumable(p) /\ Baseline(p)
JournalIsRecoverable == journal # None => Recoverable(journal)

(* The install lock: one installer at a time works on the installation (an *)
(* uninstall gives it up before it sweeps its recovery directory).         *)
Driving(i) == cmd[i] \notin {"off", "begin"} /\ at[i] # "sweep"
OneDriver == \A i, j \in Installers : Driving(i) /\ Driving(j) => i = j

Launchers == INSTANCE ReleasePointer
               WITH current <- pointer.current, previous <- pointer.previous
ActivationIsAtomic == Launchers!Spec

=============================================================================
