------------------------ MODULE MCReleaseTransaction ------------------------
(* Small instances of Uninstall and ReleaseTransaction for TLC.            *)
EXTENDS Uninstall

CONSTANTS c1, c2,
    MaxRunning,     \* bound of the instance: how many installers run at once
    MaxRuns         \* bound of the instance: runs on an old installation

VARIABLE runs       \* the runs so far on an old installation, None on a new machine

NewAssets == (c1 :> "v1") @@ (c2 :> "v2")

(* The instance begins with a machine where a command stands in the place  *)
(* of an asset, and looks at any number of installs and rollbacks; or it   *)
(* begins when the first install on that machine has completed, and looks  *)
(* at the next few runs, uninstalls among them.                            *)
OldCommand == [a \in Assets |-> IF a \in Retained THEN None ELSE "legacy"]
Only(p) == [c \in Commits |-> IF c = p.commit THEN p ELSE None]

NewMachine ==
    /\ RemovalInit /\ asset = OldCommand
    /\ runs = None
OldInstallation ==
    LET p == [commit |-> c1, build |-> 1] IN
    /\ runs = 0
    /\ asset = [a \in Assets |-> AssetsOf[c1]] /\ backup = OldCommand
    /\ layout = Committed([assets |-> AssetsOf[c1], state |-> "both",
                           original |-> OldCommand, saved |-> {}, published |-> {}])
    /\ receipt = Only(p) /\ manifest = Only(p) /\ release = Only(p)
    /\ pointer = [current |-> p, previous |-> None] /\ adopted = {c1}
    /\ lockDir = FALSE /\ owner = None /\ journal = None /\ phase = "journaled"
    /\ candidate = [t \in Installers |-> None] /\ staging = [t \in Installers |-> None]
    /\ ownership = {}
    /\ cmd = [i \in Installers |-> "off"] /\ at = [i \in Installers |-> "start"]
    /\ want = [i \in Installers |-> None] /\ txn = [i \in Installers |-> i]
    /\ resumed = [i \in Installers |-> None] /\ plan = [i \in Installers |-> None]
    /\ stops = 0 /\ skills = "skills" /\ disturbed = {}

(* Which of the fresh uuids an installer draws makes no difference: of     *)
(* them the instance takes the lowest, and on an old installation keeps to *)
(* the first three unless a journal is pending.                            *)
Idle == {i \in Installers : cmd[i] = "off" /\ (i <= 3 \/ journal # None)}
NextUuid == {i \in Idle : Fresh(i) /\ \A j \in Idle : Fresh(j) => i <= j}

(* One that starts while the lock is held by a living process is refused   *)
(* and leaves no trace: none starts then.                                  *)
Room ==
    /\ Cardinality({i \in Installers : cmd[i] # "off"}) < MaxRunning
    /\ ~(lockDir /\ owner # None /\ OwnerAlive)
StartNext(c) ==
    /\ Room
    /\ \/ runs = None /\ UNCHANGED runs
       \/ runs # None /\ runs < MaxRuns - 1 /\ runs' = runs + 1
       \/ runs # None /\ runs >= MaxRuns - 1 /\ journal # None /\ c # None /\ UNCHANGED runs
    /\ \E i \in NextUuid : Start(i, c) /\ Noticed
RemoveNext ==
    /\ Room /\ runs # None /\ runs < MaxRuns /\ runs' = runs + 1
    /\ \E i \in NextUuid, r \in Installers \cup {None} : StartRemoval(i, r)

MCNext ==
    \/ \E c \in Commits \cup {None} : StartNext(c)
    \/ RemoveNext
    \/ runs # None /\ Edit /\ UNCHANGED runs
    \/ \E i \in Installers : (RunStep(i) \/ Interrupt(i)) /\ UNCHANGED runs

MCSpec ==
    /\ NewMachine \/ OldInstallation
    /\ [][MCNext]_<<allVars, runs>> /\ RemovalFairness
    /\ WF_<<allVars, runs>>(\E c \in Commits : StartNext(c))
=============================================================================
