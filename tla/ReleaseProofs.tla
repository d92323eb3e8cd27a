---------------------------- MODULE ReleaseProofs ----------------------------
(***************************************************************************)
(* Theorems about ReleaseTransaction and Uninstall together, for any       *)
(* number of runs, commits, assets and interruptions.                      *)
(*                                                                         *)
(* First: the install lock admits one run at a time, what a launcher may   *)
(* start was adopted, and the pointer changes as ReleasePointer says.  The *)
(* three follow from one inductive invariant.  Its heart is that only the  *)
(* run that holds the lock is past begin, so that what it has read - the   *)
(* journal, the pointer - is still there when it acts on it.               *)
(*                                                                         *)
(* Second: the journal that an interruption leaves is one that recover     *)
(* accepts and whose pointer commit accepts, unless an uninstall is there  *)
(* to be resumed or one was carried out over an installation that had      *)
(* changed; and what the user wrote is never lost.                         *)
(*                                                                         *)
(* One half of that invariant says what each phase of a journal promises,  *)
(* and what the run that has the lock has read of it.  The other half says *)
(* why an uninstall that is complete has left no journal: its plan lists   *)
(* everything that stood, what is left to do lists everything that still   *)
(* stands, and a run that sweeps its recovery directory without the lock   *)
(* shares its id with nobody who would write there again.                  *)
(*                                                                         *)
(* Third: an uninstall that nobody disturbed can be resumed wherever it    *)
(* stopped.  Its plan names every place once and the receipt of a release  *)
(* after the release, so that what an action takes away no later one and   *)
(* no proof of it needs.                                                   *)
(***************************************************************************)
EXTENDS Uninstall, SequenceTheorems, FiniteSetTheorems, TLAPS

-----------------------------------------------------------------------------
(* Types of the installation's records and of the runs.                    *)
Commands == {"off", "begin", "shell", "publish", "prepare", "recover", "commit", "abort",
             "rollback", "uninstall"}
Beginning == {"unlink", "rmdir", "acquire"}
Uses == Phases \cup {"retain", "reown", "receipt", "own", "manifest", "move", "place",
                     "adopt", "baseline", "swap", "verify", "finish", "unown", "swapback"}
Publishing == {"check", "save", "saved", "place_asset", "placed", "publishing", "unpend"}
Places == Beginning \cup Uses \cup
    Publishing \cup {"start", "release", "unlock", "mkdir", "clone", "compare", "readopt",
                     "journal", "next", "before", "remove", "after", "sweep"}
Types ==
    /\ owner \in Owner \cup {None}
    /\ candidate \in [Installers -> Candidate \cup {None}]
    /\ journal \in Plan \cup {None} /\ phase \in Phases
    /\ manifest \in [Commits -> Payload \cup {None}]
    /\ pointer \in Pointer
    /\ cmd \in [Installers -> Commands] /\ at \in [Installers -> Places]
    /\ want \in [Installers -> Commits \cup {None, Removal}]
    /\ txn \in [Installers -> Installers]
    /\ plan \in [Installers -> Plan \cup {None}]

(* Where a run is: nowhere, in begin, or in a command.                     *)
Busy(i) == cmd[i] \notin {"off", "begin"}
Located(i) ==
    /\ cmd[i] = "off" => at[i] = "start"
    /\ cmd[i] = "begin" => at[i] \in Beginning \cup {"start"}
    /\ Busy(i) => at[i] \notin Beginning
    /\ at[i] = "sweep" => cmd[i] = "uninstall"

(* The lock is the run's that is past begin; a run that is replacing a     *)
(* stale lock, or has found none, knows that there is no such run.         *)
LockIs(i) ==
    /\ Driving(i) => lockDir /\ IF at[i] = "unlock"
                                THEN \A j \in Installers \ {i} : ~Driving(j)
                                ELSE owner.pid = i
    /\ cmd[i] = "begin" /\ at[i] # "start" =>
          /\ \A j \in Installers : ~Driving(j)
          /\ at[i] = "acquire" => ~lockDir
          /\ at[i] = "rmdir" => owner = None
OneGuard == \A i, j \in Installers : Guarded(i) /\ Guarded(j) => i = j
Locking == (\A i \in Installers : Located(i) /\ LockIs(i)) /\ OneGuard

(* A plan can be carried out: what it goes back to was adopted, and it     *)
(* activates something else than what is active.                           *)
IsAdopted(b) == \A p \in {b.current, b.previous} \ {None} : p.commit \in adopted
IsSound(p) == IsAdopted(p.base) /\ p.payload # p.base.current

Activated == {"adopted", "switched", "committed"}
Files ==
    /\ IsAdopted(pointer)
    /\ pointer.previous # None => pointer.previous # pointer.current
    /\ journal # None => IsSound(journal)
    /\ journal # None /\ phase \in Activated => journal.payload.commit \in adopted
    /\ \A c \in Commits : manifest[c] # None => manifest[c].commit = c

(* What a run has planned, wherever it goes by its plan.                   *)
Activating == Activated \cup {"baseline", "swap", "swapback"}
PlanIs(i) ==
    /\ at[i] \in Uses => plan[i] \in Plan /\ IsSound(plan[i])
    /\ at[i] \in Activating => /\ cmd[i] \in {"commit", "rollback"}
                               /\ plan[i].payload.commit \in adopted
    /\ at[i] = "swap" => Baseline(plan[i])
    /\ at[i] = "swapback" => pointer = plan[i].base
    /\ cmd[i] \in {"shell", "publish", "prepare"} /\ at[i] # "adopt" => want[i] \in Commits
    /\ at[i] \in Publishing => cmd[i] = "publish"
    /\ cmd[i] \in {"publish", "prepare"} /\ pointer.current # None =>
          pointer.current.commit # want[i]
    /\ cmd[i] = "shell" /\ at[i] = "adopt" => journal = plan[i]
    /\ cmd[i] = "commit" /\ at[i] = "start" /\ journal # None =>
          journal.payload.commit \in adopted

IInv == Types /\ Locking /\ Files /\ \A i \in Installers : PlanIs(i)

-----------------------------------------------------------------------------
(* The lock.                                                               *)

(* Two runs that are past begin are one: both own the lock, or one is      *)
(* giving it up and was alone.                                             *)
LEMMA LockingMeansOneDriver == Locking => OneDriver
<1>1. SUFFICES ASSUME Locking, NEW i \in Installers, NEW j \in Installers,
                      Driving(i), Driving(j)
               PROVE  i = j
  BY DEF OneDriver
<1>2. LockIs(i) /\ LockIs(j)
  BY <1>1 DEF Locking
<1>3. CASE at[i] = "unlock" \/ at[j] = "unlock"
  BY <1>1, <1>2, <1>3 DEF LockIs
<1>4. CASE at[i] # "unlock" /\ at[j] # "unlock"
  BY <1>1, <1>2, <1>4 DEF LockIs
<1> QED
  BY <1>3, <1>4

(* A run that acts past begin is the only one there.                       *)
LEMMA DriverIsAlone ==
    ASSUME Locking, NEW i \in Installers, Driving(i)
    PROVE  /\ \A j \in Installers \ {i} : ~Driving(j)
           /\ \A j \in Installers : cmd[j] = "begin" => at[j] = "start"
           /\ cmd[i] \notin {"off", "begin"}
<1>1. OneDriver
  BY LockingMeansOneDriver
<1>2. \A j \in Installers : LockIs(j)
  BY DEF Locking
<1> QED
  BY <1>1, <1>2 DEF OneDriver, LockIs, Driving

(* One that is not past begin promises nothing about its plan.             *)
LEMMA NothingPlanned ==
    ASSUME NEW i \in Installers, Located(i), ~Driving(i)
    PROVE  PlanIs(i)
  BY DEF Located, Driving, PlanIs, Busy, Beginning, Uses, Phases, Publishing, Activating, Activated

-----------------------------------------------------------------------------
(* How the lock survives: a run past begin goes on, or a run ends.         *)
LEMMA LockSurvivesAStep ==
    ASSUME Types, Locking, NEW i \in Installers, Driving(i), at[i] # "unlock",
           NEW c \in Commands \ {"off", "begin"},
           NEW a \in Places \ (Beginning \cup {"unlock", "sweep"}),
           cmd' = [cmd EXCEPT ![i] = c], at' = [at EXCEPT ![i] = a],
           UNCHANGED lockVars
    PROVE  Locking'
<1>1. /\ cmd'[i] = c /\ at'[i] = a
      /\ \A j \in Installers \ {i} : cmd'[j] = cmd[j] /\ at'[j] = at[j]
  BY DEF Types
<1>2. /\ \A j \in Installers \ {i} : ~Driving(j)
      /\ \A j \in Installers : cmd[j] = "begin" => at[j] = "start"
  BY DriverIsAlone
<1>3. \A j \in Installers : Driving(j)' => j = i
  BY <1>1, <1>2 DEF Driving
<1>4. \A j \in Installers : Located(j)'
  BY <1>1 DEF Locking, Located, Busy, Beginning
<1>5. \A j \in Installers : LockIs(j)'
  <2>1. LockIs(i)
    BY DEF Locking
  <2>2. LockIs(i)'
    BY <1>1, <2>1 DEF LockIs, lockVars
  <2>3. \A j \in Installers \ {i} : LockIs(j)'
    BY <1>1, <1>2, <1>3 DEF LockIs
  <2> QED
    BY <2>2, <2>3
<1>6. OneGuard'
  BY <1>1, <1>2 DEF OneGuard, Guarded, Locking
<1> QED
  BY <1>4, <1>5, <1>6 DEF Locking

LEMMA LockSurvivesAnEnd ==
    ASSUME Types, Locking, NEW i \in Installers,
           cmd' = [cmd EXCEPT ![i] = "off"], at' = [at EXCEPT ![i] = "start"],
           UNCHANGED lockVars
    PROVE  Locking'
<1>1. /\ cmd'[i] = "off" /\ at'[i] = "start"
      /\ \A j \in Installers \ {i} : cmd'[j] = cmd[j] /\ at'[j] = at[j]
  BY DEF Types
<1>2. \A j \in Installers : Driving(j)' => Driving(j) /\ j # i
  BY <1>1 DEF Driving
<1>3. \A j \in Installers : Located(j)'
  BY <1>1 DEF Locking, Located, Busy, Beginning
<1>4. \A j \in Installers : LockIs(j)'
  BY <1>1, <1>2 DEF Locking, LockIs, lockVars
<1>5. OneGuard'
  BY <1>1 DEF Locking, OneGuard, Guarded
<1> QED
  BY <1>3, <1>4, <1>5 DEF Locking

(* The rest of the invariant, when a run ends or stays where others do not *)
(* look: no plan of the others is touched.                                 *)
LEMMA OthersPlansStay ==
    ASSUME Types, Locking, \A j \in Installers : PlanIs(j), NEW i \in Installers,
           \A j \in Installers \ {i} : cmd'[j] = cmd[j] /\ at'[j] = at[j],
           Locking',
           \/ Driving(i)
           \/ /\ UNCHANGED <<pointer, journal, adopted>>
              /\ \A j \in Installers \ {i} : plan'[j] = plan[j] /\ want'[j] = want[j]
    PROVE  \A j \in Installers \ {i} : PlanIs(j)'
<1> SUFFICES ASSUME NEW j \in Installers \ {i}
             PROVE  PlanIs(j)'
  OBVIOUS
<1>1. CASE Driving(i)
  <2>1. ~Driving(j)'
    BY <1>1, DriverIsAlone DEF Driving
  <2>2. Located(j)'
    BY DEF Locking
  <2> QED
    BY <2>1, <2>2 DEF Located, Driving, PlanIs, Busy, Beginning, Uses, Phases, Activating,
       Activated
<1>2. CASE /\ UNCHANGED <<pointer, journal, adopted>>
           /\ \A k \in Installers \ {i} : plan'[k] = plan[k] /\ want'[k] = want[k]
  BY <1>2 DEF PlanIs, IsSound, IsAdopted, Baseline, Switched
<1> QED
  BY <1>1, <1>2

(* A step of a run past begin, by what is left to show of it: the records  *)
(* it leaves, and what it goes on with.                                    *)
LEMMA StepKeeps ==
    ASSUME IInv, NEW i \in Installers, Driving(i), at[i] # "unlock",
           NEW c \in Commands \ {"off", "begin"},
           NEW a \in Places \ (Beginning \cup {"unlock", "sweep"}),
           NEW p \in Plan \cup {None},
           Load(i, c, a, p), UNCHANGED lockVars,
           candidate' \in [Installers -> Candidate \cup {None}],
           journal' \in Plan \cup {None}, phase' \in Phases,
           manifest' \in [Commits -> Payload \cup {None}], pointer' \in Pointer,
           Files', PlanIs(i)'
    PROVE  IInv'
<1>1. /\ cmd' = [cmd EXCEPT ![i] = c] /\ at' = [at EXCEPT ![i] = a]
      /\ plan' = [plan EXCEPT ![i] = p] /\ UNCHANGED <<want, txn>>
  BY DEF Load
<1>2. Types'
  BY <1>1 DEF IInv, Types, lockVars
<1>3. Locking'
  BY <1>1, LockSurvivesAStep DEF IInv
<1>4. \A j \in Installers \ {i} : cmd'[j] = cmd[j] /\ at'[j] = at[j]
  BY <1>1 DEF IInv, Types
<1>5. \A j \in Installers \ {i} : PlanIs(j)'
  BY <1>3, <1>4, OthersPlansStay DEF IInv
<1> QED
  BY <1>2, <1>3, <1>5 DEF IInv

(* The usual step: it leaves journal, manifests and pointer alone, and     *)
(* goes by the same plan.                                                  *)
Records == <<journalVars, manifest, pointer, adopted>>
LEMMA ContinueKeeps ==
    ASSUME IInv, NEW i \in Installers, Driving(i), at[i] \notin {"unlock", "adopt"},
           NEW a \in Places \ (Beginning \cup {"unlock", "sweep", "swap", "swapback", "start",
                                               "adopt"}),
           Continue(i, a), UNCHANGED <<lockVars, Records>>,
           candidate' \in [Installers -> Candidate \cup {None}],
           a \in Uses => at[i] \in Uses,
           a \in Activating => at[i] \in Activating,
           a \in Publishing => at[i] \in Publishing \/ cmd[i] = "publish"
    PROVE  IInv'
<1>1. cmd[i] \in Commands \ {"off", "begin"} /\ plan[i] \in Plan \cup {None}
  BY DriverIsAlone DEF IInv, Types
<1>2. Load(i, cmd[i], a, plan[i])
  BY DEF Continue, Goto
<1>3. cmd'[i] = cmd[i] /\ at'[i] = a /\ plan'[i] = plan[i] /\ want' = want
  BY <1>2 DEF Load, IInv, Types
<1>4. PlanIs(i)
  BY DEF IInv
<1>5. PlanIs(i)'
  BY <1>3, <1>4 DEF PlanIs, IsSound, IsAdopted, Records, journalVars
<1>6. Files'
  BY DEF IInv, Files, IsSound, IsAdopted, Records, journalVars
<1>7. /\ journal' \in Plan \cup {None} /\ phase' \in Phases
      /\ manifest' \in [Commits -> Payload \cup {None}] /\ pointer' \in Pointer
  BY DEF IInv, Types, Records, journalVars
<1> QED
  BY <1>1, <1>2, <1>5, <1>6, <1>7, StepKeeps

(* A run that ends, refused, interrupted or done.                          *)
LEMMA EndKeeps ==
    ASSUME IInv, NEW i \in Installers, End(i), UNCHANGED <<lockVars, Records>>,
           candidate' \in [Installers -> Candidate \cup {None}]
    PROVE  IInv'
<1>1. /\ cmd' = [cmd EXCEPT ![i] = "off"] /\ at' = [at EXCEPT ![i] = "start"]
      /\ want' = [want EXCEPT ![i] = None] /\ txn' = [txn EXCEPT ![i] = i]
      /\ plan' = [plan EXCEPT ![i] = None]
  BY DEF End
<1>2. Types'
  <2>1. UNCHANGED <<owner, journal, phase, manifest, pointer>>
    BY DEF lockVars, Records, journalVars
  <2>2. cmd' \in [Installers -> Commands] /\ at' \in [Installers -> Places]
    BY <1>1 DEF IInv, Types, Commands, Places
  <2>3. /\ want' \in [Installers -> Commits \cup {None, Removal}]
        /\ txn' \in [Installers -> Installers]
        /\ plan' \in [Installers -> Plan \cup {None}]
    BY <1>1 DEF IInv, Types
  <2> QED
    BY <2>1, <2>2, <2>3 DEF IInv, Types
<1>3. Locking'
  BY <1>1, LockSurvivesAnEnd DEF IInv
<1>4. \A j \in Installers \ {i} : PlanIs(j)'
  <2>1. \A j \in Installers \ {i} : /\ cmd'[j] = cmd[j] /\ at'[j] = at[j]
                                    /\ plan'[j] = plan[j] /\ want'[j] = want[j]
    BY <1>1 DEF IInv, Types
  <2> QED
    BY <1>3, <2>1, OthersPlansStay DEF IInv, Records, journalVars
<1>5. PlanIs(i)'
  <2>1. cmd'[i] = "off" /\ at'[i] = "start"
    BY <1>1 DEF IInv, Types
  <2> QED
    BY <2>1 DEF PlanIs, Uses, Phases, Publishing, Activating, Activated
<1>6. Files'
  BY DEF IInv, Files, IsSound, IsAdopted, Records, journalVars
<1> QED
  BY <1>2, <1>3, <1>4, <1>5, <1>6 DEF IInv

-----------------------------------------------------------------------------
(* What the steps have in common.                                          *)
LEMMA PastBegin ==
    ASSUME IInv, NEW i \in Installers,
           \/ at[i] \notin Beginning \cup {"start", "sweep"}
           \/ cmd[i] \notin {"off", "begin"} /\ at[i] # "sweep"
    PROVE  Driving(i)
  BY DEF IInv, Locking, Located, Driving, Busy, Beginning

LEMMA CandidatesStay ==
    ASSUME IInv
    PROVE  /\ \A t : WithoutCandidate(t) \in [Installers -> Candidate \cup {None}]
           /\ \A t, c : c \in Candidate =>
                 [candidate EXCEPT ![t] = c] \in [Installers -> Candidate \cup {None}]
           /\ candidate \in [Installers -> Candidate \cup {None}]
  BY DEF IInv, Types, WithoutCandidate

LEMMA RefuseKeeps ==
    ASSUME IInv, NEW i \in Installers, Refuse(i)
    PROVE  IInv'
<1>1. candidate' \in [Installers -> Candidate \cup {None}]
  BY CandidatesStay DEF Refuse
<1> QED
  BY <1>1, EndKeeps DEF Refuse, Records, storeVars

LEMMA StopKeeps ==
    ASSUME IInv, NEW i \in Installers, Stop(i)
    PROVE  IInv'
<1>1. candidate' \in [Installers -> Candidate \cup {None}]
  BY CandidatesStay DEF Stop
<1> QED
  BY <1>1, EndKeeps DEF Stop, Records, storeVars

LEMMA LocalKeeps ==
    ASSUME IInv, NEW i \in Installers,
           \/ CheckPublication(i) \/ SaveOriginal(i) \/ PlaceAsset(i) \/ RecordPublication(i)
           \/ DiscardCandidate(i) \/ Own(i) \/ UnlinkOwnership(i)
    PROVE  IInv'
<1> USE DEF Records, journalVars, storeVars
<1>1. CASE CheckPublication(i)
  BY <1>1, PastBegin, CandidatesStay, ContinueKeeps
     DEF CheckPublication, Beginning, Places, Uses, Phases, Publishing, Activating, Activated
<1>2. CASE SaveOriginal(i)
  <2>1. CASE Continue(i, "place_asset")
    BY <1>2, <2>1, PastBegin, CandidatesStay, ContinueKeeps
       DEF SaveOriginal, Beginning, Places, Uses, Phases, Publishing, Activating, Activated
  <2>2. CASE Continue(i, "saved")
    BY <1>2, <2>2, PastBegin, CandidatesStay, ContinueKeeps
       DEF SaveOriginal, Beginning, Places, Uses, Phases, Publishing, Activating, Activated
  <2> QED
    BY <1>2, <2>1, <2>2 DEF SaveOriginal
<1>3. CASE PlaceAsset(i)
  <2>1. CASE Continue(i, "publishing")
    BY <1>3, <2>1, PastBegin, CandidatesStay, ContinueKeeps
       DEF PlaceAsset, Beginning, Places, Uses, Phases, Publishing, Activating, Activated
  <2>2. CASE Continue(i, "placed")
    BY <1>3, <2>2, PastBegin, CandidatesStay, ContinueKeeps
       DEF PlaceAsset, Beginning, Places, Uses, Phases, Publishing, Activating, Activated
  <2> QED
    BY <1>3, <2>1, <2>2 DEF PlaceAsset
<1>4. CASE RecordPublication(i)
  <2>1. CASE Continue(i, "save")
    BY <1>4, <2>1, PastBegin, CandidatesStay, ContinueKeeps
       DEF RecordPublication, Beginning, Places, Uses, Phases, Publishing, Activating, Activated
  <2>2. CASE Continue(i, "place_asset")
    BY <1>4, <2>2, PastBegin, CandidatesStay, ContinueKeeps
       DEF RecordPublication, Beginning, Places, Uses, Phases, Publishing, Activating, Activated
  <2> QED
    BY <1>4, <2>1, <2>2 DEF RecordPublication
<1>5. CASE DiscardCandidate(i)
  BY <1>5, PastBegin, CandidatesStay, ContinueKeeps
     DEF DiscardCandidate, Beginning, Places, Uses, Phases, Publishing, Activating, Activated
<1>6. CASE Own(i)
  <2>1. CASE Continue(i, "owned")
    BY <1>6, <2>1, PastBegin, CandidatesStay, ContinueKeeps
       DEF Own, Beginning, Places, Uses, Phases, Publishing, Activating, Activated
  <2>2. CASE Continue(i, "release_ready")
    BY <1>6, <2>2, PastBegin, CandidatesStay, ContinueKeeps
       DEF Own, Beginning, Places, Uses, Phases, Publishing, Activating, Activated
  <2> QED
    BY <1>6, <2>1, <2>2 DEF Own
<1>7. CASE UnlinkOwnership(i)
  BY <1>7, PastBegin, CandidatesStay, ContinueKeeps
     DEF UnlinkOwnership, Beginning, Places, Uses, Phases, Publishing, Activating, Activated
<1> QED
  BY <1>1, <1>2, <1>3, <1>4, <1>5, <1>6, <1>7

-----------------------------------------------------------------------------
(* The shell's steps.                                                      *)
LEMMA ShellKeeps ==
    ASSUME IInv, NEW i \in Installers, ShellStep(i)
    PROVE  IInv'
<1> USE DEF Records, journalVars, storeVars
<1>0. /\ cmd[i] = "shell" /\ Driving(i) /\ PlanIs(i)
      /\ at[i] # "adopt" => want[i] \in Commits
  <2>1. cmd[i] = "shell" /\ at[i] # "sweep"
    BY DEF ShellStep, MakeCandidate, Clone, Compare, Adopt
  <2> QED
    BY <2>1, PastBegin DEF IInv, PlanIs
<1>1. CASE MakeCandidate(i)
  <2>1. CASE Refuse(i)
    BY <2>1, RefuseKeeps
  <2>2. CASE ~Refuse(i)
    <3>1. [commit |-> None, build |-> i] \in Candidate
      BY DEF Candidate
    <3>2. /\ candidate' = [candidate EXCEPT ![txn[i]] = [commit |-> None, build |-> i]]
          /\ at[i] = "mkdir" /\ Continue(i, "clone") /\ UNCHANGED <<lockVars, Records>>
      BY <1>1, <2>2 DEF MakeCandidate
    <3>3. candidate' \in [Installers -> Candidate \cup {None}]
      BY <3>1, <3>2, CandidatesStay
    <3> QED
      BY <1>0, <3>2, <3>3, ContinueKeeps
         DEF Beginning, Places, Uses, Phases, Publishing, Activating, Activated
  <2> QED
    BY <2>1, <2>2
<1>2. CASE Clone(i)
  <2>1. [commit |-> want[i], build |-> i] \in Candidate
    BY <1>0, <1>2 DEF Candidate, Clone
  <2> QED
    BY <1>0, <1>2, <2>1, CandidatesStay, ContinueKeeps
       DEF Clone, Beginning, Places, Uses, Phases, Publishing, Activating, Activated
<1>3. CASE Compare(i)
  <2>1. CASE Refuse(i)
    BY <2>1, RefuseKeeps
  <2>2. CASE ~Refuse(i) /\ pointer.current # None /\ pointer.current.commit = want[i]
    <3>1. /\ candidate' = WithoutCandidate(txn[i])
          /\ at[i] = "compare" /\ Continue(i, "readopt") /\ UNCHANGED <<lockVars, Records>>
      BY <1>3, <2>2 DEF Compare
    <3>2. candidate' \in [Installers -> Candidate \cup {None}]
      BY <3>1, CandidatesStay
    <3> QED
      BY <1>0, <3>1, <3>2, ContinueKeeps
         DEF Beginning, Places, Uses, Phases, Publishing, Activating, Activated
  <2>3. CASE ~Refuse(i) /\ ~(pointer.current # None /\ pointer.current.commit = want[i])
    <3>1. Load(i, "publish", "start", plan[i]) /\ UNCHANGED <<lockVars, Records, candidate>>
      BY <1>3, <2>3 DEF Compare, Goto
    <3>2. cmd'[i] = "publish" /\ at'[i] = "start" /\ want' = want /\ plan[i] \in Plan \cup {None}
      BY <3>1 DEF Load, IInv, Types
    <3>3. PlanIs(i)'
      BY <1>0, <1>3, <2>3, <3>1, <3>2 DEF Compare, PlanIs, Uses, Phases, Publishing, Activating, Activated
    <3>4. Files'
      BY <3>1 DEF IInv, Files, IsSound, IsAdopted
    <3>5. /\ candidate' \in [Installers -> Candidate \cup {None}]
          /\ journal' \in Plan \cup {None} /\ phase' \in Phases
          /\ manifest' \in [Commits -> Payload \cup {None}] /\ pointer' \in Pointer
      BY <3>1 DEF IInv, Types
    <3> QED
      BY <1>0, <1>3, <3>1, <3>2, <3>3, <3>4, <3>5, StepKeeps
         DEF Compare, Commands, Places, Beginning
  <2> QED
    BY <2>1, <2>2, <2>3
<1>4. CASE Adopt(i)
  <2> DEFINE c == IF at[i] = "readopt" THEN "abort" ELSE "commit"
  <2>1. /\ Load(i, c, "start", plan[i])
        /\ UNCHANGED <<lockVars, journalVars, manifest, pointer, candidate>>
        /\ adopted' = adopted \cup {IF at[i] = "readopt" THEN want[i]
                                    ELSE plan[i].payload.commit}
    BY <1>4 DEF Adopt, Goto
  <2>2. cmd'[i] = c /\ at'[i] = "start" /\ plan[i] \in Plan \cup {None}
    BY <2>1 DEF Load, IInv, Types
  <2>3. PlanIs(i)'
    BY <1>0, <1>4, <2>1, <2>2 DEF PlanIs, Adopt, Uses, Phases, Publishing, Activating, Activated
  <2>4. Files'
    BY <2>1 DEF IInv, Files, IsSound, IsAdopted
  <2>5. /\ candidate' \in [Installers -> Candidate \cup {None}]
        /\ journal' \in Plan \cup {None} /\ phase' \in Phases
        /\ manifest' \in [Commits -> Payload \cup {None}] /\ pointer' \in Pointer
    BY <2>1 DEF IInv, Types
  <2>6. c \in Commands \ {"off", "begin"} /\ "start" \in Places \ (Beginning \cup {"unlock", "sweep"})
    BY DEF Commands, Places, Beginning
  <2>7. at[i] # "unlock" /\ UNCHANGED lockVars
    BY <1>4, <2>1 DEF Adopt
  <2> HIDE DEF c
  <2> QED
    BY <1>0, <2>1, <2>2, <2>3, <2>4, <2>5, <2>6, <2>7, StepKeeps
<1> QED
  BY <1>1, <1>2, <1>3, <1>4 DEF ShellStep

(* The publication of the stable bootstrap ends in prepare.                *)
LEMMA ToPrepareKeeps ==
    ASSUME IInv, NEW i \in Installers, Driving(i), at[i] # "unlock",
           cmd[i] = "publish", at[i] # "adopt", Goto(i, "prepare", "start"), UNCHANGED <<lockVars, Records>>,
           candidate' = candidate
    PROVE  IInv'
<1>1. Load(i, "prepare", "start", plan[i])
  BY DEF Goto
<1>2. cmd'[i] = "prepare" /\ at'[i] = "start" /\ want' = want /\ plan[i] \in Plan \cup {None}
  BY <1>1 DEF Load, IInv, Types
<1>3. PlanIs(i)'
  BY <1>2 DEF IInv, PlanIs, Uses, Phases, Publishing, Activating, Activated, Records
<1>4. Files'
  BY DEF IInv, Files, IsSound, IsAdopted, Records, journalVars
<1>5. /\ candidate' \in [Installers -> Candidate \cup {None}]
      /\ journal' \in Plan \cup {None} /\ phase' \in Phases
      /\ manifest' \in [Commits -> Payload \cup {None}] /\ pointer' \in Pointer
  BY DEF IInv, Types, Records, journalVars
<1>6. /\ "prepare" \in Commands \ {"off", "begin"}
      /\ "start" \in Places \ (Beginning \cup {"unlock", "sweep"})
  BY DEF Commands, Places, Beginning
<1> QED
  BY <1>1, <1>2, <1>3, <1>4, <1>5, <1>6, StepKeeps

LEMMA PublicationKeeps ==
    ASSUME IInv, NEW i \in Installers, Publish(i) \/ FinishPublication(i),
           cmd[i] = "publish"
    PROVE  IInv'
<1> USE DEF Records, journalVars, storeVars
<1>1. /\ at[i] \notin {"unlock", "sweep", "adopt"}
      /\ UNCHANGED <<lockVars, Records, candidate>>
      /\ \/ Continue(i, "check") \/ Continue(i, "unpend") \/ Goto(i, "prepare", "start")
  BY DEF Publish, FinishPublication
<1>2. Driving(i)
  BY <1>1, PastBegin
<1>3. candidate' \in [Installers -> Candidate \cup {None}]
  BY <1>1, CandidatesStay
<1>4. \A a \in {"check", "unpend"} :
        /\ a \notin Uses /\ a \notin Activating
        /\ a \in Places \ (Beginning \cup {"unlock", "sweep", "swap", "swapback", "start", "adopt"})
  BY DEF Places, Beginning, Uses, Phases, Publishing, Activating, Activated
<1>5. CASE Continue(i, "check")
  BY <1>1, <1>2, <1>3, <1>4, <1>5, ContinueKeeps
<1>6. CASE Continue(i, "unpend")
  BY <1>1, <1>2, <1>3, <1>4, <1>6, ContinueKeeps
<1>7. CASE Goto(i, "prepare", "start")
  BY <1>1, <1>2, <1>7, ToPrepareKeeps
<1> QED
  BY <1>1, <1>5, <1>6, <1>7

-----------------------------------------------------------------------------
(* prepare plans the switch from what the launchers start now.             *)
LEMMA PrepareKeeps ==
    ASSUME IInv, NEW i \in Installers, Prepare(i)
    PROVE  IInv'
<1> DEFINE c == want[i]
           staged == candidate[txn[i]]
           p == IF IsRetained(c) THEN release[c] ELSE staged
           a == IF IsRetained(c) THEN "retain" ELSE "receipt"
           planned == [txn |-> txn[i], payload |-> p, base |-> pointer]
<1>1. CASE Refuse(i)
  BY <1>1, RefuseKeeps
<1>2. CASE ~Refuse(i)
  <2>1. /\ Load(i, "prepare", a, planned)
        /\ staged # None /\ staged.commit = c
        /\ IsRetained(c) => VerifiedRelease(c)
        /\ UNCHANGED <<lockVars, candidate, journalVars, storeVars, adopted>>
    BY <1>2 DEF Prepare
  <2>2. cmd[i] = "prepare" /\ at[i] = "start"
    BY DEF Prepare
  <2>3. Driving(i) /\ PlanIs(i)
    BY <2>2, PastBegin DEF IInv
  <2>4. c \in Commits /\ (pointer.current # None => pointer.current.commit # c)
    BY <2>2, <2>3 DEF PlanIs
  <2>5. p \in Payload /\ p # None /\ p.commit = c
    <3>1. CASE IsRetained(c)
      <4>1. p = manifest[c] /\ manifest[c] # None
        BY <2>1, <3>1 DEF VerifiedRelease
      <4>2. manifest[c] \in Payload /\ manifest[c].commit = c
        BY <2>4, <4>1 DEF IInv, Types, Files
      <4> QED
        BY <4>1, <4>2
    <3>2. CASE ~IsRetained(c)
      <4>1. staged \in Candidate
        BY <2>1 DEF IInv, Types
      <4> QED
        BY <2>1, <2>4, <3>2, <4>1 DEF Candidate, Payload
    <3> QED
      BY <3>1, <3>2
  <2>6. planned \in Plan
    BY <2>5 DEF IInv, Types, Plan
  <2>7. IsSound(planned)
    <3>1. planned.base = pointer /\ planned.payload = p
      OBVIOUS
    <3> QED
      BY <2>4, <2>5, <3>1 DEF IInv, Files, IsSound
  <2>8. /\ UNCHANGED <<lockVars, candidate, journal, phase, manifest, pointer, adopted>>
    BY <2>1 DEF journalVars, storeVars
  <2>9. /\ a \in Places \ (Beginning \cup {"unlock", "sweep"})
        /\ a \notin Activating /\ a \notin Publishing
        /\ a \notin {"swap", "swapback", "adopt", "start"}
        /\ "prepare" \in Commands \ {"off", "begin"}
    BY DEF Places, Beginning, Uses, Phases, Publishing, Activating, Activated, Commands
  <2> HIDE DEF p, a, planned
  <2>10. /\ cmd'[i] = "prepare" /\ at'[i] = a /\ plan'[i] = planned /\ want' = want
    BY <2>1 DEF Load, IInv, Types
  <2>11. PlanIs(i)'
    BY <2>4, <2>6, <2>7, <2>8, <2>9, <2>10 DEF PlanIs, IsSound, IsAdopted, Publishing
  <2>12. Files'
    BY <2>8 DEF IInv, Files, IsSound, IsAdopted
  <2>13. /\ candidate' \in [Installers -> Candidate \cup {None}]
         /\ journal' \in Plan \cup {None} /\ phase' \in Phases
         /\ manifest' \in [Commits -> Payload \cup {None}] /\ pointer' \in Pointer
    BY <2>8 DEF IInv, Types
  <2> QED
    BY <2>1, <2>2, <2>3, <2>6, <2>8, <2>9, <2>11, <2>12, <2>13, StepKeeps
<1> QED
  BY <1>1, <1>2

(* Steps that verify something and go on, or end.                          *)
LEMMA CheckedKeeps ==
    ASSUME IInv, NEW i \in Installers,
           \/ WriteReceipt(i) \/ MoveCandidate(i) \/ PlaceCandidate(i) \/ VerifyInstalled(i)
           \/ Abort(i)
    PROVE  IInv'
<1> USE DEF Records, journalVars, storeVars
<1>1. CASE Refuse(i)
  BY <1>1, RefuseKeeps
<1>2. CASE ~Refuse(i)
  <2>1. /\ \/ at[i] = "receipt" /\ Continue(i, "journaled")
           \/ at[i] \in {"move", "place"} /\ Continue(i, "release_ready")
           \/ at[i] = "verify" /\ Continue(i, "finish")
           \/ cmd[i] = "abort" /\ at[i] = "start" /\ Continue(i, "release")
           \/ End(i)
        /\ UNCHANGED <<lockVars, Records>>
        /\ candidate' = candidate \/ candidate' = WithoutCandidate(txn[i])
    BY <1>2 DEF WriteReceipt, MoveCandidate, PlaceCandidate, VerifyInstalled, Abort
  <2>2. candidate' \in [Installers -> Candidate \cup {None}]
    BY <2>1, CandidatesStay
  <2>3. CASE End(i)
    BY <2>1, <2>2, <2>3, EndKeeps
  <2>4. CASE ~End(i)
    <3>1. at[i] # "unlock" /\ Driving(i)
      BY <2>1, <2>4, PastBegin DEF Beginning
    <3>2. \A a \in {"journaled", "release_ready", "finish", "release"} :
            /\ a \notin Activating /\ a \notin Publishing
            /\ a \in Places \ (Beginning \cup {"unlock", "sweep", "swap", "swapback", "start",
                                               "adopt"})
      BY DEF Places, Beginning, Uses, Phases, Publishing, Activating, Activated
    <3>3. {"receipt", "move", "place", "verify"} \subseteq Uses /\ "release" \notin Uses
      BY DEF Uses, Phases
    <3> QED
      BY <2>1, <2>2, <2>4, <3>1, <3>2, <3>3, ContinueKeeps
  <2> QED
    BY <2>3, <2>4
<1> QED
  BY <1>1, <1>2

LEMMA WriteManifestKeeps ==
    ASSUME IInv, NEW i \in Installers, WriteManifest(i)
    PROVE  IInv'
<1>1. /\ Load(i, cmd[i], "manifested", plan[i]) /\ at[i] = "manifest"
      /\ manifest' = [manifest EXCEPT ![plan[i].payload.commit] = plan[i].payload]
      /\ UNCHANGED <<lockVars, candidate, journal, phase, pointer, adopted>>
  BY DEF WriteManifest, Continue, Goto, journalVars
<1>2. Driving(i) /\ cmd[i] \in Commands \ {"off", "begin"} /\ PlanIs(i)
  BY <1>1, PastBegin, DriverIsAlone DEF IInv, Types, Beginning
<1>3. plan[i] \in Plan
  BY <1>1, <1>2 DEF PlanIs, Uses, Phases
<1>4. plan[i].payload \in Payload /\ plan[i].payload.commit \in Commits
  BY <1>3 DEF Plan, Payload
<1>5. cmd'[i] = cmd[i] /\ at'[i] = "manifested" /\ plan'[i] = plan[i] /\ want' = want
  BY <1>1 DEF Load, IInv, Types
<1>6. PlanIs(i)'
  BY <1>1, <1>2, <1>5 DEF PlanIs, IsSound, IsAdopted, Uses, Phases, Publishing, Activating, Activated
<1>7. Files'
  BY <1>1, <1>4 DEF IInv, Types, Files, IsSound, IsAdopted
<1>8. /\ candidate' \in [Installers -> Candidate \cup {None}]
      /\ journal' \in Plan \cup {None} /\ phase' \in Phases
      /\ manifest' \in [Commits -> Payload \cup {None}] /\ pointer' \in Pointer
  BY <1>1, <1>4 DEF IInv, Types
<1>9. "manifested" \in Places \ (Beginning \cup {"unlock", "sweep"})
  BY DEF Places, Uses, Phases, Publishing, Beginning
<1> QED
  BY <1>1, <1>2, <1>3, <1>6, <1>7, <1>8, <1>9, StepKeeps

(* A journal is written by the plan it holds, and an activation only once  *)
(* the payload was adopted.                                                *)
LEMMA WriteJournalKeeps ==
    ASSUME IInv, NEW i \in Installers, WriteJournal(i)
    PROVE  IInv'
<1>1. /\ at[i] \in Phases /\ journal' = plan[i] /\ phase' = at[i]
      /\ AfterJournal(i, at[i])
      /\ UNCHANGED <<lockVars, candidate, manifest, pointer, adopted>>
  BY DEF WriteJournal, storeVars
<1>2. Driving(i) /\ at[i] # "unlock" /\ cmd[i] \in Commands \ {"off", "begin"} /\ PlanIs(i)
  BY <1>1, PastBegin, DriverIsAlone DEF IInv, Types, Phases, Beginning
<1>3. plan[i] \in Plan /\ IsSound(plan[i])
  BY <1>1, <1>2 DEF PlanIs, Uses
<1>4. PICK c \in {cmd[i], "shell"}, a \in {"own", "manifest", "prepared", "place", "move",
                                           "adopt", "baseline", "committed", "verify"} :
         /\ Load(i, c, a, plan[i])
         /\ a \in Activating => at[i] \in Activated
         /\ a = "adopt" <=> c = "shell" /\ at[i] = "release_ready"
         /\ c = "shell" /\ cmd[i] # "shell" => a = "adopt"
  BY <1>1 DEF AfterJournal, Phases, Continue, Goto, Publishing, Activating, Activated
<1>5. cmd'[i] = c /\ at'[i] = a /\ plan'[i] = plan[i] /\ want' = want
  BY <1>4 DEF Load, IInv, Types
<1>6. PlanIs(i)'
  <2>1. a \in Uses => at[i] \in Uses
    BY <1>1 DEF Uses
  <2>2. a \in Activating => /\ c \in {"commit", "rollback"}
                           /\ plan[i].payload.commit \in adopted
    BY <1>2, <1>4 DEF PlanIs, Publishing, Activating, Activated
  <2>3. c \in {"shell", "publish", "prepare"} /\ a # "adopt" => want[i] \in Commits
    BY <1>1, <1>2, <1>4 DEF PlanIs, Phases
  <2>4. c \in {"publish", "prepare"} /\ pointer.current # None =>
            pointer.current.commit # want[i]
    BY <1>2, <1>4 DEF PlanIs
  <2> QED
    BY <1>1, <1>3, <1>4, <1>5, <2>1, <2>2, <2>3, <2>4
       DEF PlanIs, IsSound, IsAdopted, Publishing
<1>7. Files'
  <2>1. phase' \in Activated => plan[i].payload.commit \in adopted
    BY <1>1, <1>2 DEF PlanIs, Activating
  <2> QED
    BY <1>1, <1>3, <2>1 DEF IInv, Files, IsSound, IsAdopted
<1>8. /\ candidate' \in [Installers -> Candidate \cup {None}]
      /\ journal' \in Plan \cup {None} /\ phase' \in Phases
      /\ manifest' \in [Commits -> Payload \cup {None}] /\ pointer' \in Pointer
  BY <1>1, <1>3 DEF IInv, Types
<1>9. /\ c \in Commands \ {"off", "begin"}
      /\ a \in Places \ (Beginning \cup {"unlock", "sweep"})
  BY <1>2, <1>4 DEF Places, Uses, Phases, Publishing, Beginning, Commands
<1> QED
  BY <1>1, <1>2, <1>3, <1>4, <1>6, <1>7, <1>8, <1>9, StepKeeps

(* recover goes on where the journal's phase says: behind the adoption     *)
(* only when the phase says that it completed.                             *)
LEMMA RecoverKeeps ==
    ASSUME IInv, NEW i \in Installers, Recover(i)
    PROVE  IInv'
<1>1. CASE Refuse(i)
  BY <1>1, RefuseKeeps
<1>2. CASE ~Refuse(i)
  <2>1. /\ cmd[i] = "recover" /\ at[i] = "start"
        /\ Load(i, Resume(phase)[1], Resume(phase)[2], journal) /\ journal # None
        /\ UNCHANGED <<lockVars, candidate, journal, phase, manifest, pointer, adopted>>
    BY <1>2 DEF Recover, storeVars, journalVars
  <2>2. Driving(i) /\ PlanIs(i)
    BY <2>1, PastBegin DEF IInv
  <2>3. phase \in Phases /\ journal \in Plan
    BY <2>1 DEF IInv, Types
  <2>4. PICK c \in {"recover", "shell", "commit"},
             a \in {"own", "manifest", "prepared", "place", "adopt", "start", "finish"} :
           /\ c = Resume(phase)[1] /\ a = Resume(phase)[2]
           /\ a = "start" => c = "commit" /\ phase = "adopted"
           /\ a # "start" => a \in Uses
           /\ c = "commit" => a = "start"
    BY <2>3 DEF Resume, Phases, Uses
  <2>5. cmd'[i] = c /\ at'[i] = a /\ plan'[i] = journal /\ want' = want
    BY <2>1, <2>4 DEF Load, IInv, Types
  <2>6. PlanIs(i)'
    <3>1. IsSound(journal)
      BY <2>1 DEF IInv, Files
    <3>2. c # "recover" => a \in {"adopt", "start"}
      BY <2>3, <2>4 DEF Resume, Phases
    <3>3. a = "start" => journal.payload.commit \in adopted
      BY <2>1, <2>4 DEF IInv, Files, Activated
    <3>4. a \notin Activating \cup {"swap", "swapback"}
      BY DEF Publishing, Activating, Activated
    <3>5. a \in Uses => plan'[i] \in Plan
      BY <2>3, <2>5
    <3> QED
      BY <2>1, <2>4, <2>5, <3>1, <3>2, <3>3, <3>4, <3>5 DEF PlanIs, IsSound, IsAdopted, Publishing
  <2>7. Files'
    BY <2>1 DEF IInv, Files, IsSound, IsAdopted
  <2>8. /\ candidate' \in [Installers -> Candidate \cup {None}]
        /\ journal' \in Plan \cup {None} /\ phase' \in Phases
        /\ manifest' \in [Commits -> Payload \cup {None}] /\ pointer' \in Pointer
    BY <2>1 DEF IInv, Types
  <2>9. /\ c \in Commands \ {"off", "begin"}
        /\ a \in Places \ (Beginning \cup {"unlock", "sweep"})
    BY DEF Places, Uses, Phases, Publishing, Beginning, Commands
  <2> QED
    BY <2>1, <2>2, <2>3, <2>4, <2>6, <2>7, <2>8, <2>9, StepKeeps
<1> QED
  BY <1>1, <1>2

(* commit loads a journal whose payload was adopted.                       *)
LEMMA CommitKeeps ==
    ASSUME IInv, NEW i \in Installers, Commit(i)
    PROVE  IInv'
<1>1. CASE Refuse(i)
  BY <1>1, RefuseKeeps
<1>2. CASE ~Refuse(i)
  <2> DEFINE a == IF phase = "release_ready" THEN "adopted" ELSE "baseline"
  <2>1. /\ cmd[i] = "commit" /\ at[i] = "start"
        /\ Load(i, "commit", a, journal) /\ journal # None
        /\ UNCHANGED <<lockVars, candidate, journal, phase, manifest, pointer, adopted>>
    BY <1>2 DEF Commit, storeVars, journalVars
  <2>2. Driving(i) /\ PlanIs(i)
    BY <2>1, PastBegin DEF IInv
  <2>3. journal \in Plan
    BY <2>1 DEF IInv, Types
  <2>4. /\ a \in Places \ (Beginning \cup {"unlock", "sweep"})
        /\ a \notin Publishing \cup {"swap", "swapback", "start", "adopt"}
        /\ "commit" \in Commands \ {"off", "begin"}
    BY DEF Places, Uses, Phases, Publishing, Beginning, Commands
  <2> HIDE DEF a
  <2>5. cmd'[i] = "commit" /\ at'[i] = a /\ plan'[i] = journal /\ want' = want
    BY <2>1 DEF Load, IInv, Types
  <2>6. PlanIs(i)'
    <3>1. IsSound(journal) /\ journal.payload.commit \in adopted
      BY <2>1, <2>2 DEF IInv, Files, PlanIs
    <3> QED
      BY <2>1, <2>3, <2>4, <2>5, <3>1 DEF PlanIs, IsSound, IsAdopted
  <2>7. Files'
    BY <2>1 DEF IInv, Files, IsSound, IsAdopted
  <2>8. /\ candidate' \in [Installers -> Candidate \cup {None}]
        /\ journal' \in Plan \cup {None} /\ phase' \in Phases
        /\ manifest' \in [Commits -> Payload \cup {None}] /\ pointer' \in Pointer
    BY <2>1 DEF IInv, Types
  <2> QED
    BY <2>1, <2>2, <2>3, <2>4, <2>6, <2>7, <2>8, StepKeeps
<1> QED
  BY <1>1, <1>2

-----------------------------------------------------------------------------
(* The pointer is swapped where the plan found it, or found it swapped.    *)
LEMMA SwitchedIsSound ==
    ASSUME NEW p \in Plan, IsSound(p), p.payload.commit \in adopted
    PROVE  /\ Switched(p) \in Pointer /\ IsAdopted(Switched(p))
           /\ Switched(p).previous # Switched(p).current
           /\ Switched(p).current = p.payload /\ Switched(p).previous = p.base.current
<1>1. /\ Switched(p).current = p.payload /\ Switched(p).previous = p.base.current
  BY DEF Switched
<1>2. p.payload \in Payload /\ p.base \in Pointer
  BY DEF Plan
<1>3. Switched(p) \in Pointer
  BY <1>2 DEF Switched, Pointer
<1> QED
  BY <1>1, <1>3 DEF IsSound, IsAdopted

LEMMA CheckBaselineKeeps ==
    ASSUME IInv, NEW i \in Installers, CheckBaseline(i)
    PROVE  IInv'
<1>1. CASE Refuse(i)
  BY <1>1, RefuseKeeps
<1>2. CASE ~Refuse(i)
  <2>1. /\ at[i] = "baseline" /\ Baseline(plan[i]) /\ Load(i, cmd[i], "swap", plan[i])
        /\ UNCHANGED <<lockVars, candidate, journal, phase, manifest, pointer, adopted>>
    BY <1>2 DEF CheckBaseline, storeVars, journalVars, Continue, Goto
  <2>2. Driving(i) /\ cmd[i] \in Commands \ {"off", "begin"} /\ PlanIs(i)
    BY <2>1, PastBegin, DriverIsAlone DEF IInv, Types, Beginning
  <2>3. cmd'[i] = cmd[i] /\ at'[i] = "swap" /\ plan'[i] = plan[i] /\ want' = want
    BY <2>1 DEF Load, IInv, Types
  <2>4. /\ plan[i] \in Plan /\ IsSound(plan[i]) /\ plan[i].payload.commit \in adopted
        /\ cmd[i] \in {"commit", "rollback"}
    BY <2>1, <2>2 DEF PlanIs, Uses, Publishing, Activating
  <2>5. Baseline(plan[i])'
    BY <2>1, <2>3 DEF Baseline, Switched
  <2>6. PlanIs(i)'
    BY <2>1, <2>2, <2>3, <2>4, <2>5 DEF PlanIs, IsSound, IsAdopted, Publishing
  <2>7. Files'
    BY <2>1 DEF IInv, Files, IsSound, IsAdopted
  <2>8. /\ candidate' \in [Installers -> Candidate \cup {None}]
        /\ journal' \in Plan \cup {None} /\ phase' \in Phases
        /\ manifest' \in [Commits -> Payload \cup {None}] /\ pointer' \in Pointer
    BY <2>1 DEF IInv, Types
  <2>9. "swap" \in Places \ (Beginning \cup {"unlock", "sweep"})
    BY DEF Places, Uses, Beginning
  <2> QED
    BY <2>1, <2>2, <2>4, <2>6, <2>7, <2>8, <2>9, StepKeeps
<1> QED
  BY <1>1, <1>2

LEMMA SwitchPointerKeeps ==
    ASSUME IInv, NEW i \in Installers, SwitchPointer(i)
    PROVE  IInv'
<1>1. /\ at[i] = "swap" /\ pointer' = Switched(plan[i]) /\ Load(i, cmd[i], "switched", plan[i])
      /\ UNCHANGED <<lockVars, candidate, journal, phase, manifest, adopted>>
  BY DEF SwitchPointer, SwitchedPointer, journalVars, Continue, Goto
<1>2. Driving(i) /\ cmd[i] \in Commands \ {"off", "begin"} /\ PlanIs(i)
  BY <1>1, PastBegin, DriverIsAlone DEF IInv, Types, Beginning
<1>3. cmd'[i] = cmd[i] /\ at'[i] = "switched" /\ plan'[i] = plan[i] /\ want' = want
  BY <1>1 DEF Load, IInv, Types
<1>4. /\ plan[i] \in Plan /\ IsSound(plan[i]) /\ plan[i].payload.commit \in adopted
      /\ cmd[i] \in {"commit", "rollback"}
  BY <1>1, <1>2 DEF PlanIs, Uses, Publishing, Activating
<1>5. /\ pointer' \in Pointer /\ IsAdopted(pointer)' /\ pointer'.previous # pointer'.current
  <2>1. PICK p \in Plan : p = plan[i]
    BY <1>4
  <2> QED
    BY <1>1, <1>4, <2>1, SwitchedIsSound DEF IsAdopted
<1>6. PlanIs(i)'
  BY <1>1, <1>2, <1>3, <1>4 DEF PlanIs, IsSound, IsAdopted, Publishing
<1>7. Files'
  BY <1>1, <1>5 DEF IInv, Files, IsSound, IsAdopted
<1>8. /\ candidate' \in [Installers -> Candidate \cup {None}]
      /\ journal' \in Plan \cup {None} /\ phase' \in Phases
      /\ manifest' \in [Commits -> Payload \cup {None}]
  BY <1>1 DEF IInv, Types
<1>9. "switched" \in Places \ (Beginning \cup {"unlock", "sweep"})
  BY DEF Places, Uses, Phases, Publishing, Beginning
<1> QED
  BY <1>1, <1>2, <1>4, <1>5, <1>6, <1>7, <1>8, <1>9, StepKeeps

(* A rollback plans to exchange the two releases it has just read.         *)
LEMMA RollbackKeeps ==
    ASSUME IInv, NEW i \in Installers, Rollback(i)
    PROVE  IInv'
<1> DEFINE planned == [txn |-> txn[i], payload |-> pointer.previous, base |-> pointer]
<1>1. CASE Refuse(i)
  BY <1>1, RefuseKeeps
<1>2. CASE ~Refuse(i)
  <2>1. /\ cmd[i] = "rollback" /\ at[i] = "start" /\ Load(i, "rollback", "swapback", planned)
        /\ pointer.current # None /\ pointer.previous # None
        /\ UNCHANGED <<lockVars, candidate, journal, phase, manifest, pointer, adopted>>
    BY <1>2 DEF Rollback, storeVars, journalVars
  <2>2. Driving(i) /\ PlanIs(i)
    BY <2>1, PastBegin DEF IInv
  <2>3. /\ planned \in Plan /\ IsSound(planned) /\ planned.base = pointer
        /\ planned.payload.commit \in adopted
    BY <2>1 DEF IInv, Types, Files, Plan, Pointer, IsSound, IsAdopted
  <2> HIDE DEF planned
  <2>4. cmd'[i] = "rollback" /\ at'[i] = "swapback" /\ plan'[i] = planned /\ want' = want
    BY <2>1 DEF Load, IInv, Types
  <2>5. PlanIs(i)'
    BY <2>1, <2>3, <2>4 DEF PlanIs, IsSound, IsAdopted, Publishing
  <2>6. Files'
    BY <2>1 DEF IInv, Files, IsSound, IsAdopted
  <2>7. /\ candidate' \in [Installers -> Candidate \cup {None}]
        /\ journal' \in Plan \cup {None} /\ phase' \in Phases
        /\ manifest' \in [Commits -> Payload \cup {None}] /\ pointer' \in Pointer
    BY <2>1 DEF IInv, Types
  <2>8. /\ "swapback" \in Places \ (Beginning \cup {"unlock", "sweep"})
        /\ "rollback" \in Commands \ {"off", "begin"}
    BY DEF Places, Uses, Phases, Publishing, Beginning, Commands
  <2> QED
    BY <2>1, <2>2, <2>3, <2>5, <2>6, <2>7, <2>8, StepKeeps
<1> QED
  BY <1>1, <1>2

LEMMA SwapBackKeeps ==
    ASSUME IInv, NEW i \in Installers, SwapBack(i)
    PROVE  IInv'
<1>1. /\ at[i] = "swapback" /\ pointer' = Switched(plan[i])
      /\ Load(i, cmd[i], "release", plan[i])
      /\ UNCHANGED <<lockVars, candidate, journal, phase, manifest, adopted>>
  BY DEF SwapBack, journalVars, Continue, Goto
<1>2. Driving(i) /\ cmd[i] \in Commands \ {"off", "begin"} /\ PlanIs(i)
  BY <1>1, PastBegin, DriverIsAlone DEF IInv, Types, Beginning
<1>3. cmd'[i] = cmd[i] /\ at'[i] = "release" /\ plan'[i] = plan[i] /\ want' = want
  BY <1>1 DEF Load, IInv, Types
<1>4. /\ plan[i] \in Plan /\ IsSound(plan[i]) /\ plan[i].payload.commit \in adopted
      /\ cmd[i] \in {"commit", "rollback"}
  BY <1>1, <1>2 DEF PlanIs, Uses, Publishing, Activating
<1>5. /\ pointer' \in Pointer /\ IsAdopted(pointer)' /\ pointer'.previous # pointer'.current
  <2>1. PICK p \in Plan : p = plan[i]
    BY <1>4
  <2> QED
    BY <1>1, <1>4, <2>1, SwitchedIsSound DEF IsAdopted
<1>6. PlanIs(i)'
  BY <1>3, <1>4 DEF PlanIs, Uses, Phases, Publishing, Activating, Activated
<1>7. Files'
  BY <1>1, <1>5 DEF IInv, Files, IsSound, IsAdopted
<1>8. /\ candidate' \in [Installers -> Candidate \cup {None}]
      /\ journal' \in Plan \cup {None} /\ phase' \in Phases
      /\ manifest' \in [Commits -> Payload \cup {None}]
  BY <1>1 DEF IInv, Types
<1>9. "release" \in Places \ (Beginning \cup {"unlock", "sweep"})
  BY DEF Places, Uses, Phases, Publishing, Beginning
<1> QED
  BY <1>1, <1>2, <1>4, <1>5, <1>6, <1>7, <1>8, <1>9, StepKeeps

LEMMA UnlinkJournalKeeps ==
    ASSUME IInv, NEW i \in Installers, UnlinkJournal(i)
    PROVE  IInv'
<1>1. /\ at[i] = "finish" /\ journal' = None /\ phase' = "journaled"
      /\ Load(i, cmd[i], "unown", plan[i])
      /\ UNCHANGED <<lockVars, candidate, manifest, pointer, adopted>>
  BY DEF UnlinkJournal, storeVars, Continue, Goto
<1>2. Driving(i) /\ cmd[i] \in Commands \ {"off", "begin"} /\ PlanIs(i)
  BY <1>1, PastBegin, DriverIsAlone DEF IInv, Types, Beginning
<1>3. cmd'[i] = cmd[i] /\ at'[i] = "unown" /\ plan'[i] = plan[i] /\ want' = want
  BY <1>1 DEF Load, IInv, Types
<1>4. PlanIs(i)'
  BY <1>1, <1>2, <1>3 DEF PlanIs, IsSound, IsAdopted, Uses, Publishing, Activating, Activated
<1>5. Files'
  BY <1>1 DEF IInv, Files, IsSound, IsAdopted
<1>6. /\ candidate' \in [Installers -> Candidate \cup {None}]
      /\ journal' \in Plan \cup {None} /\ phase' \in Phases
      /\ manifest' \in [Commits -> Payload \cup {None}] /\ pointer' \in Pointer
      /\ plan[i] \in Plan \cup {None}
  BY <1>1 DEF IInv, Types, Phases
<1>7. "unown" \in Places \ (Beginning \cup {"unlock", "sweep"})
  BY DEF Places, Uses, Phases, Publishing, Beginning
<1> QED
  BY <1>1, <1>2, <1>4, <1>5, <1>6, <1>7, StepKeeps

-----------------------------------------------------------------------------
(* begin.                                                                  *)
LEMMA BeginKeeps ==
    ASSUME IInv, NEW i \in Installers, cmd[i] = "begin", NEW a \in Beginning,
           cmd' = cmd, at' = [at EXCEPT ![i] = a], UNCHANGED <<Records, want, plan>>,
           owner' \in Owner \cup {None}, txn' \in [Installers -> Installers],
           candidate' \in [Installers -> Candidate \cup {None}],
           \A j \in Installers : LockIs(j)', OneGuard'
    PROVE  IInv'
<1>1. Types'
  BY DEF IInv, Types, Records, journalVars, Places
<1>2. at'[i] = a /\ cmd'[i] = "begin" /\ \A j \in Installers \ {i} : at'[j] = at[j]
  BY DEF IInv, Types
<1>3. \A j \in Installers : Located(j)'
  BY <1>2 DEF IInv, Locking, Located, Busy, Beginning
<1>4. Locking'
  BY <1>3 DEF Locking
<1>5. PlanIs(i)'
  BY <1>2 DEF PlanIs, Beginning, Uses, Phases, Publishing, Activating, Activated
<1>6. \A j \in Installers \ {i} : PlanIs(j)'
  BY <1>2, <1>4, OthersPlansStay DEF IInv, Records, journalVars
<1>7. Files'
  BY DEF IInv, Files, IsSound, IsAdopted, Records, journalVars
<1> QED
  BY <1>1, <1>4, <1>5, <1>6, <1>7 DEF IInv

LEMMA BeginFreeKeeps ==
    ASSUME IInv, NEW i \in Installers, BeginFree(i)
    PROVE  IInv'
<1>1. /\ cmd[i] = "begin" /\ ~lockDir /\ ~GuardBusy(i) /\ Continue(i, "acquire")
      /\ UNCHANGED <<lockVars, candidate, Records>>
  BY DEF BeginFree, Records, storeVars
<1>2. /\ cmd' = cmd /\ at' = [at EXCEPT ![i] = "acquire"] /\ plan' = plan
      /\ UNCHANGED <<want, txn>>
  BY <1>1 DEF Continue, Goto, Load, IInv, Types
<1>3. at'[i] = "acquire" /\ \A j \in Installers \ {i} : at'[j] = at[j]
  BY <1>2 DEF IInv, Types
<1>4. \A j \in Installers : LockIs(j) /\ ~Driving(j)
  BY <1>1 DEF IInv, Locking, LockIs
<1>5. \A j \in Installers : ~Driving(j)'
  BY <1>1, <1>2, <1>3, <1>4 DEF Driving
<1>6. \A j \in Installers : LockIs(j)'
  BY <1>1, <1>2, <1>3, <1>4, <1>5 DEF LockIs, lockVars
<1>7. OneGuard'
  BY <1>1, <1>2, <1>3 DEF OneGuard, Guarded, GuardBusy
<1>8. /\ owner' \in Owner \cup {None} /\ txn' \in [Installers -> Installers]
      /\ candidate' \in [Installers -> Candidate \cup {None}]
  BY <1>1, <1>2 DEF IInv, Types, lockVars
<1> QED
  BY <1>1, <1>2, <1>6, <1>7, <1>8, BeginKeeps DEF Beginning

(* The owner of a stale lock is dead, and nobody is giving a lock up.      *)
LEMMA BeginStaleKeeps ==
    ASSUME IInv, NEW i \in Installers, BeginStale(i)
    PROVE  IInv'
<1>1. /\ cmd[i] = "begin" /\ owner # None /\ ~OwnerAlive /\ ~GuardBusy(i)
      /\ at' = [at EXCEPT ![i] = "unlink"] /\ txn' = [txn EXCEPT ![i] = ResumedTxn(i)]
      /\ candidate' = Reaped(i) /\ UNCHANGED <<lockVars, Records, cmd, want, plan>>
  BY DEF BeginStale, Records, storeVars
<1>2. at'[i] = "unlink" /\ \A j \in Installers \ {i} : at'[j] = at[j]
  BY <1>1 DEF IInv, Types
<1>3. \A j \in Installers : ~Driving(j)
  <2> SUFFICES ASSUME NEW j \in Installers, Driving(j)
               PROVE  FALSE
    OBVIOUS
  <2>1. LockIs(j) /\ cmd[j] # "off"
    BY DEF IInv, Locking, Driving
  <2>2. at[j] # "unlock"
    BY <1>1 DEF GuardBusy, Guarded, Driving
  <2>3. owner.pid = j
    BY <2>1, <2>2 DEF LockIs
  <2>4. owner.pid # None
    BY <1>1, <2>3, NoneAssumption
  <2> QED
    BY <1>1, <2>1, <2>3, <2>4 DEF OwnerAlive
<1>4. \A j \in Installers : ~Driving(j)'
  BY <1>1, <1>2, <1>3 DEF Driving
<1>5. \A j \in Installers : LockIs(j)'
  BY <1>1, <1>2, <1>3, <1>4 DEF IInv, Locking, LockIs, lockVars
<1>6. OneGuard'
  BY <1>1, <1>2 DEF OneGuard, Guarded, GuardBusy
<1>7. ResumedTxn(i) \in Installers
  BY <1>1 DEF ResumedTxn, IInv, Types, Plan, Owner
<1>8. /\ owner' \in Owner \cup {None} /\ txn' \in [Installers -> Installers]
      /\ candidate' \in [Installers -> Candidate \cup {None}]
  <2>1. candidate' \in [Installers -> Candidate \cup {None}]
    BY <1>1, CandidatesStay DEF Reaped
  <2> QED
    BY <1>1, <1>7, <2>1 DEF IInv, Types, lockVars
<1> QED
  BY <1>1, <1>5, <1>6, <1>8, BeginKeeps DEF Beginning

LEMMA RemoveStaleKeeps ==
    ASSUME IInv, NEW i \in Installers, UnlinkStaleOwner(i) \/ RemoveStaleLock(i)
    PROVE  IInv'
<1>1. PICK a \in {"rmdir", "acquire"} :
         /\ Continue(i, a) /\ UNCHANGED <<candidate, Records>>
         /\ \/ a = "rmdir" /\ at[i] = "unlink" /\ owner' = None /\ lockDir' = lockDir
            \/ a = "acquire" /\ at[i] = "rmdir" /\ owner' = owner /\ lockDir' = FALSE
  BY DEF UnlinkStaleOwner, RemoveStaleLock, Records, storeVars
<1>2. cmd[i] = "begin" /\ at[i] # "start"
  BY <1>1 DEF IInv, Locking, Located, Busy, Beginning
<1>3. /\ cmd' = cmd /\ at' = [at EXCEPT ![i] = a] /\ plan' = plan /\ UNCHANGED <<want, txn>>
  BY <1>1 DEF Continue, Goto, Load, IInv, Types
<1>4. at'[i] = a /\ \A j \in Installers \ {i} : at'[j] = at[j]
  BY <1>3 DEF IInv, Types
<1>5. \A j \in Installers : LockIs(j) /\ ~Driving(j)
  BY <1>2 DEF IInv, Locking, LockIs
<1>6. \A j \in Installers \ {i} : ~Guarded(j)
  BY <1>2 DEF IInv, Locking, OneGuard, Guarded
<1>7. \A j \in Installers : ~Driving(j)'
  BY <1>1, <1>3, <1>4, <1>5 DEF Driving
<1>8. \A j \in Installers : LockIs(j)'
  BY <1>1, <1>2, <1>3, <1>4, <1>5, <1>6, <1>7 DEF LockIs, Guarded
<1>9. OneGuard'
  BY <1>3, <1>4, <1>6 DEF OneGuard, Guarded
<1>10. /\ owner' \in Owner \cup {None} /\ txn' \in [Installers -> Installers]
       /\ candidate' \in [Installers -> Candidate \cup {None}]
  BY <1>1, <1>3 DEF IInv, Types
<1> QED
  BY <1>1, <1>2, <1>3, <1>8, <1>9, <1>10, BeginKeeps DEF Beginning

LEMMA AcquireKeeps ==
    ASSUME IInv, NEW i \in Installers, Acquire(i)
    PROVE  IInv'
<1>1. /\ at[i] = "acquire" /\ lockDir' = TRUE
      /\ owner' = [txn |-> txn[i], pid |-> i, op |-> Operation(i)]
      /\ End(i) \/ AfterBegin(i)
      /\ UNCHANGED <<candidate, Records>>
  BY DEF Acquire, Records, storeVars
<1>2. cmd[i] = "begin" /\ \A j \in Installers : ~Driving(j)
  <2>1. cmd[i] = "begin"
    BY <1>1 DEF IInv, Locking, Located, Busy, Beginning
  <2> QED
    BY <1>1, <2>1 DEF IInv, Locking, LockIs
<1>3. \A j \in Installers \ {i} : ~Guarded(j)
  BY <1>1, <1>2 DEF IInv, Locking, OneGuard, Guarded
<1>4. PICK c \in {"off", "rollback", "uninstall", "recover", "shell"},
           a \in {"start", "release", "mkdir"}, p \in {plan[i], None} :
         /\ cmd' = [cmd EXCEPT ![i] = c] /\ at' = [at EXCEPT ![i] = a]
         /\ plan' = [plan EXCEPT ![i] = p]
         /\ c # "off" => UNCHANGED <<want, txn>>
         /\ c = "off" => /\ a = "start"
                         /\ want' = [want EXCEPT ![i] = None] /\ txn' = [txn EXCEPT ![i] = i]
         /\ c = "shell" => Operation(i) = "install"
  <2>1. CASE End(i)
    BY <2>1 DEF End
  <2>2. CASE AfterBegin(i)
    <3>1. PICK c \in {"rollback", "uninstall", "recover", "shell"},
               a \in {"start", "release", "mkdir"} :
             Goto(i, c, a) /\ (c = "shell" => Operation(i) = "install")
      BY <2>2 DEF AfterBegin, Operation
    <3> QED
      BY <3>1 DEF Goto, Load
  <2> QED
    BY <1>1, <2>1, <2>2
<1>5. /\ cmd'[i] = c /\ at'[i] = a
      /\ \A j \in Installers \ {i} : /\ cmd'[j] = cmd[j] /\ at'[j] = at[j]
                                     /\ plan'[j] = plan[j] /\ want'[j] = want[j]
  BY <1>4 DEF IInv, Types
<1>6. Types'
  <2>1. owner' \in Owner
    BY <1>1 DEF Owner, Operation, IInv, Types
  <2>2. cmd' \in [Installers -> Commands] /\ at' \in [Installers -> Places]
    BY <1>4 DEF IInv, Types, Commands, Places
  <2>3. /\ want' \in [Installers -> Commits \cup {None, Removal}]
        /\ txn' \in [Installers -> Installers]
        /\ plan' \in [Installers -> Plan \cup {None}]
    BY <1>4 DEF IInv, Types
  <2> QED
    BY <1>1, <2>1, <2>2, <2>3 DEF IInv, Types, Records, journalVars
<1>7. Locking'
  <2>1. \A j \in Installers \ {i} : ~Driving(j)' /\ ~Guarded(j)'
    BY <1>2, <1>3, <1>5 DEF Driving, Guarded
  <2>2. \A j \in Installers : Located(j)'
    BY <1>4, <1>5 DEF IInv, Locking, Located, Busy, Beginning
  <2>3. ~Guarded(i)' /\ cmd'[i] # "begin" /\ at'[i] # "unlock"
    BY <1>5 DEF Guarded
  <2>4. owner'.pid = i
    BY <1>1
  <2>5. LockIs(i)'
    BY <1>1, <2>3, <2>4 DEF LockIs
  <2>6. \A j \in Installers \ {i} : LockIs(j)'
    BY <2>1, <1>5 DEF LockIs, Guarded
  <2>7. OneGuard'
    BY <2>1 DEF OneGuard
  <2> QED
    BY <2>2, <2>5, <2>6, <2>7 DEF Locking
<1>8. PlanIs(i)'
  <2>1. c = "shell" => want'[i] \in Commits
    BY <1>4 DEF Operation, IInv, Types
  <2> QED
    BY <1>5, <2>1 DEF PlanIs, Uses, Phases, Publishing, Activating, Activated
<1>9. \A j \in Installers \ {i} : PlanIs(j)'
  BY <1>1, <1>5, <1>7, OthersPlansStay DEF IInv, Records, journalVars
<1>10. Files'
  BY <1>1 DEF IInv, Files, IsSound, IsAdopted, Records, journalVars
<1> QED
  BY <1>6, <1>7, <1>8, <1>9, <1>10 DEF IInv

(* Giving the lock up: owner.json under the guard, then the directory.     *)
LEMMA ReleaseLockKeeps ==
    ASSUME IInv, NEW i \in Installers, ReleaseLock(i)
    PROVE  IInv'
<1>1. CASE Refuse(i)
  BY <1>1, RefuseKeeps
<1>2. CASE ~Refuse(i)
  <2>1. /\ at[i] = "release" /\ ~GuardBusy(i) /\ owner' = None /\ Continue(i, "unlock")
        /\ UNCHANGED <<lockDir, candidate, Records>>
    BY <1>2 DEF ReleaseLock, Records, storeVars
  <2>2. Driving(i) /\ cmd[i] \notin {"off", "begin"}
    BY <2>1, PastBegin, DriverIsAlone DEF IInv, Beginning
  <2>3. \A j \in Installers \ {i} : ~Driving(j)
    BY <2>2, DriverIsAlone DEF IInv
  <2>4. /\ cmd' = cmd /\ at' = [at EXCEPT ![i] = "unlock"] /\ plan' = plan
        /\ UNCHANGED <<want, txn>>
    BY <2>1 DEF Continue, Goto, Load, IInv, Types
  <2>5. at'[i] = "unlock" /\ \A j \in Installers \ {i} : at'[j] = at[j]
    BY <2>4 DEF IInv, Types
  <2>6. Types'
    BY <2>1, <2>4 DEF IInv, Types, Records, journalVars, Places
  <2>7. \A j \in Installers \ {i} : ~Driving(j)' /\ ~Guarded(j)'
    BY <2>1, <2>3, <2>4, <2>5 DEF Driving, GuardBusy, Guarded
  <2>8. Locking'
    <3>1. \A j \in Installers : Located(j)'
      BY <2>2, <2>4, <2>5 DEF IInv, Locking, Located, Busy, Beginning
    <3>2. LockIs(i)'
      BY <2>1, <2>2, <2>4, <2>5, <2>7 DEF IInv, Locking, LockIs
    <3>3. \A j \in Installers \ {i} : LockIs(j)'
      BY <2>7 DEF LockIs, Guarded
    <3>4. OneGuard'
      BY <2>7 DEF OneGuard
    <3> QED
      BY <3>1, <3>2, <3>3, <3>4 DEF Locking
  <2>9. PlanIs(i)'
    BY <2>1, <2>4, <2>5 DEF IInv, PlanIs, Uses, Phases, Publishing, Activating, Activated, Records
  <2>10. \A j \in Installers \ {i} : PlanIs(j)'
    BY <2>1, <2>4, <2>5, <2>8, OthersPlansStay DEF IInv, Records, journalVars
  <2>11. Files'
    BY <2>1 DEF IInv, Files, IsSound, IsAdopted, Records, journalVars
  <2> QED
    BY <2>6, <2>8, <2>9, <2>10, <2>11 DEF IInv
<1> QED
  BY <1>1, <1>2

LEMMA RemoveLockKeeps ==
    ASSUME IInv, NEW i \in Installers, RemoveLock(i)
    PROVE  IInv'
<1>1. /\ at[i] = "unlock" /\ lockDir' = FALSE /\ owner' = owner
      /\ \/ cmd[i] = "uninstall" /\ Continue(i, "sweep")
         \/ End(i)
      /\ UNCHANGED <<candidate, Records>>
  BY DEF RemoveLock, Records, storeVars
<1>2. Driving(i) /\ \A j \in Installers \ {i} : ~Driving(j) /\ ~Guarded(j)
  <2>1. Driving(i)
    BY <1>1, PastBegin DEF Beginning
  <2> QED
    BY <1>1, <2>1, DriverIsAlone DEF IInv, Locking, OneGuard, Guarded
<1>3. PICK c \in {"off", "uninstall"}, a \in {"start", "sweep"}, p \in {plan[i], None} :
         /\ cmd' = [cmd EXCEPT ![i] = c] /\ at' = [at EXCEPT ![i] = a]
         /\ plan' = [plan EXCEPT ![i] = p]
         /\ c = "off" => /\ a = "start"
                         /\ want' = [want EXCEPT ![i] = None] /\ txn' = [txn EXCEPT ![i] = i]
         /\ c # "off" => a = "sweep" /\ UNCHANGED <<want, txn>>
  BY <1>1 DEF End, Continue, Goto, Load
<1>4. /\ cmd'[i] = c /\ at'[i] = a
      /\ \A j \in Installers \ {i} : /\ cmd'[j] = cmd[j] /\ at'[j] = at[j]
                                     /\ plan'[j] = plan[j] /\ want'[j] = want[j]
  BY <1>3 DEF IInv, Types
<1>5. Types'
  <2>1. cmd' \in [Installers -> Commands] /\ at' \in [Installers -> Places]
    BY <1>3 DEF IInv, Types, Commands, Places
  <2>2. /\ want' \in [Installers -> Commits \cup {None, Removal}]
        /\ txn' \in [Installers -> Installers]
        /\ plan' \in [Installers -> Plan \cup {None}]
    BY <1>3 DEF IInv, Types
  <2> QED
    BY <1>1, <2>1, <2>2 DEF IInv, Types, Records, journalVars
<1>6. \A j \in Installers : ~Driving(j)' /\ ~Guarded(j)'
  BY <1>2, <1>3, <1>4 DEF Driving, Guarded
<1>7. Locking'
  <2>1. \A j \in Installers : Located(j)'
    BY <1>3, <1>4 DEF IInv, Locking, Located, Busy, Beginning
  <2> QED
    BY <1>6, <2>1 DEF Locking, LockIs, OneGuard, Guarded
<1>8. \A j \in Installers : PlanIs(j)'
  BY <1>6, <1>7 DEF Locking, Located, Driving, PlanIs, Busy, Beginning, Uses, Phases,
     Publishing, Activating, Activated
<1>9. Files'
  BY <1>1 DEF IInv, Files, IsSound, IsAdopted, Records, journalVars
<1> QED
  BY <1>5, <1>7, <1>8, <1>9 DEF IInv

-----------------------------------------------------------------------------
(* A run starts: nobody drives it yet, and a lock of an earlier process    *)
(* with its id is no longer taken for its own.                             *)
LEMMA StartsKeep ==
    ASSUME IInv, NEW i \in Installers, cmd[i] = "off",
           cmd' = [cmd EXCEPT ![i] = "begin"], at' = at, plan' = plan,
           NEW c \in Commits \cup {None, Removal}, want' = [want EXCEPT ![i] = c],
           txn' \in [Installers -> Installers],
           owner' = Restarted(i), UNCHANGED <<lockDir, candidate, Records>>
    PROVE  IInv'
<1>1. /\ cmd'[i] = "begin" /\ at'[i] = "start"
      /\ \A j \in Installers \ {i} : cmd'[j] = cmd[j] /\ at'[j] = at[j] /\ want'[j] = want[j]
  BY DEF IInv, Types, Locking, Located
<1>2. Types'
  <2>1. owner' \in Owner \cup {None}
    BY DEF IInv, Types, Restarted, Owner
  <2>2. cmd' \in [Installers -> Commands]
    BY DEF IInv, Types, Commands
  <2> QED
    BY <2>1, <2>2 DEF IInv, Types, Records, journalVars
<1>3. \A j \in Installers : Driving(j)' <=> Driving(j)
  BY <1>1 DEF Driving
<1>4. \A j \in Installers : Guarded(j)' <=> Guarded(j)
  BY <1>1 DEF Guarded
<1>5. Locking'
  <2>1. \A j \in Installers : Located(j)'
    BY <1>1 DEF IInv, Locking, Located, Busy, Beginning
  <2>2. ASSUME NEW j \in Installers
        PROVE  LockIs(j)'
    <3>1. LockIs(j)
      BY DEF IInv, Locking
    <3>2. owner = None => owner' = None
      BY DEF Restarted
    <3>3. Driving(j) => j # i
      BY DEF Driving
    <3>4. Driving(j) /\ owner.pid = j => owner'.pid = j
      BY <3>3 DEF Restarted
    <3> QED
      BY <1>1, <1>3, <3>1, <3>2, <3>3, <3>4 DEF LockIs
  <2>3. OneGuard'
    BY <1>4 DEF IInv, Locking, OneGuard
  <2> QED
    BY <2>1, <2>2, <2>3 DEF Locking
<1>6. PlanIs(i)'
  BY <1>1 DEF PlanIs, Uses, Phases, Publishing, Activating, Activated
<1>7. \A j \in Installers \ {i} : PlanIs(j)'
  BY <1>1, <1>5, OthersPlansStay DEF IInv, Records, journalVars
<1>8. Files'
  BY DEF IInv, Files, IsSound, IsAdopted, Records, journalVars
<1> QED
  BY <1>2, <1>5, <1>6, <1>7, <1>8 DEF IInv

LEMMA StartKeeps ==
    ASSUME IInv, NEW i \in Installers, NEW c \in Commits \cup {None}, Start(i, c)
    PROVE  IInv'
<1>1. txn' \in [Installers -> Installers]
  BY DEF Start, IInv, Types
<1> QED
  BY <1>1, StartsKeep DEF Start, Records, storeVars

LEMMA StartRemovalKeeps ==
    ASSUME IInv, NEW i \in Installers, NEW r \in Installers \cup {None}, StartRemoval(i, r)
    PROVE  IInv'
<1>1. txn' \in [Installers -> Installers]
  BY DEF StartRemoval, IInv, Types
<1> QED
  BY <1>1, StartsKeep DEF StartRemoval, Records, storeVars, vars

-----------------------------------------------------------------------------
(* Nothing of it is in the invariant: what an uninstall keeps outside, the *)
(* bootstrap files, the evidence it compares with, its own counters.       *)
Invariable == <<lockVars, Records, candidate, cmd, at, want, txn, plan>>
LEMMA NothingMoves == IInv /\ UNCHANGED Invariable => IInv'
<1> SUFFICES ASSUME IInv, UNCHANGED Invariable
             PROVE  IInv'
  OBVIOUS
<1>1. Types'
  BY DEF IInv, Types, Invariable, Records, lockVars, journalVars
<1>2. \A j \in Installers : /\ Located(j)' <=> Located(j)
                            /\ Driving(j)' <=> Driving(j)
                            /\ Guarded(j)' <=> Guarded(j)
  BY DEF Located, Busy, Driving, Guarded, Invariable
<1>3. Locking'
  <2>1. \A j \in Installers : LockIs(j)'
    BY <1>2 DEF IInv, Locking, LockIs, Invariable, lockVars
  <2> QED
    BY <1>2, <2>1 DEF IInv, Locking, OneGuard
<1>4. \A j \in Installers : PlanIs(j)'
  BY DEF IInv, PlanIs, IsSound, IsAdopted, Baseline, Switched, Invariable, Records, journalVars
<1>5. Files'
  BY DEF IInv, Files, IsSound, IsAdopted, Invariable, Records, journalVars
<1> QED
  BY <1>1, <1>3, <1>4, <1>5 DEF IInv

(* The steps of an uninstall that remove no record of the installation.    *)
LEMMA UninstallContinues ==
    ASSUME IInv, NEW i \in Installers, cmd[i] = "uninstall",
           \/ FindJournal(i) \/ PlanRemoval(i) \/ JournalRemoval(i)
           \/ ProveRelease(i) \/ CheckpointBefore(i) \/ CheckpointAfter(i)
           \/ RemoveRelease(i) \/ RemoveAsset(i) \/ StageCapability(i)
           \/ CleanUpCapability(i) \/ CommitRemoval(i)
    PROVE  IInv'
<1> DEFINE Working == {"journal", "next", "before", "remove", "after", "release"}
<1>1. /\ at[i] \in {"start", "journal", "next", "before", "remove", "after"}
      /\ \E a \in Working : Continue(i, a)
      /\ UNCHANGED <<lockVars, Records, candidate>>
  <2> USE DEF OfRemoval, Removes, Kept, Others, Records, storeVars, journalVars
  <2>1. CASE FindJournal(i)
    BY <2>1 DEF FindJournal
  <2>2. CASE PlanRemoval(i)
    BY <2>2 DEF PlanRemoval
  <2>3. CASE JournalRemoval(i)
    BY <2>3 DEF JournalRemoval
  <2>4. CASE ProveRelease(i)
    BY <2>4 DEF ProveRelease
  <2>5. CASE CheckpointBefore(i)
    BY <2>5 DEF CheckpointBefore
  <2>6. CASE CheckpointAfter(i)
    BY <2>6 DEF CheckpointAfter
  <2>7. CASE RemoveRelease(i)
    BY <2>7 DEF RemoveRelease
  <2>8. CASE RemoveAsset(i)
    BY <2>8 DEF RemoveAsset
  <2>9. CASE StageCapability(i)
    BY <2>9 DEF StageCapability
  <2>10. CASE CleanUpCapability(i)
    BY <2>10 DEF CleanUpCapability
  <2>11. CASE CommitRemoval(i)
    BY <2>11 DEF CommitRemoval
  <2> QED
    BY <2>1, <2>2, <2>3, <2>4, <2>5, <2>6, <2>7, <2>8, <2>9, <2>10, <2>11
<1>2. Driving(i) /\ at[i] \notin {"unlock", "adopt"}
  BY <1>1, PastBegin
<1>3. candidate' \in [Installers -> Candidate \cup {None}]
  BY <1>1, CandidatesStay
<1>4. \A a \in Working :
        /\ a \notin Uses /\ a \notin Activating /\ a \notin Publishing
        /\ a \in Places \ (Beginning \cup {"unlock", "sweep", "swap", "swapback", "start",
                                           "adopt"})
  BY DEF Places, Beginning, Uses, Phases, Publishing, Activating, Activated
<1> HIDE DEF Working
<1> QED
  BY <1>1, <1>2, <1>3, <1>4, ContinueKeeps

LEMMA RemoveMetadataKeeps ==
    ASSUME IInv, NEW i \in Installers, RemoveMetadata(i)
    PROVE  IInv'
<1>1. /\ cmd[i] = "uninstall" /\ at[i] = "remove" /\ Load(i, cmd[i], "after", plan[i])
      /\ \/ journal' = journal /\ phase' = phase
         \/ journal' = None /\ phase' = "journaled"
      /\ pointer' \in {pointer, [current |-> None, previous |-> None]}
      /\ UNCHANGED <<lockVars, candidate, adopted>>
  BY DEF RemoveMetadata, Removes, OfRemoval, Continue, Goto
<1>2. manifest' = manifest \/ \E c : manifest' = [manifest EXCEPT ![c] = None]
  BY DEF RemoveMetadata
<1>3. Driving(i) /\ cmd[i] \in Commands \ {"off", "begin"} /\ PlanIs(i)
  BY <1>1, PastBegin, DriverIsAlone DEF IInv, Types, Beginning
<1>4. cmd'[i] = "uninstall" /\ at'[i] = "after"
  BY <1>1 DEF Load, IInv, Types
<1>5. PlanIs(i)'
  BY <1>4 DEF PlanIs, Uses, Phases, Publishing, Activating, Activated
<1>6. manifest' \in [Commits -> Payload \cup {None}]
  BY <1>2 DEF IInv, Types
<1>7. pointer' \in Pointer /\ IsAdopted(pointer)' /\
      (pointer'.previous # None => pointer'.previous # pointer'.current)
  BY <1>1 DEF IInv, Types, Files, IsAdopted, Pointer
<1>8. Files'
  <2>1. \A c \in Commits : manifest'[c] # None => manifest'[c].commit = c
    BY <1>2 DEF IInv, Types, Files
  <2>2. journal' # None => journal' = journal /\ phase' = phase
    BY <1>1
  <2> QED
    BY <1>1, <1>7, <2>1, <2>2 DEF IInv, Files, IsSound, IsAdopted
<1>9. /\ candidate' \in [Installers -> Candidate \cup {None}]
      /\ journal' \in Plan \cup {None} /\ phase' \in Phases /\ plan[i] \in Plan \cup {None}
  BY <1>1 DEF IInv, Types, Phases
<1>10. "after" \in Places \ (Beginning \cup {"unlock", "sweep"})
  BY DEF Places, Uses, Phases, Publishing, Beginning
<1> QED
  BY <1>1, <1>3, <1>5, <1>6, <1>7, <1>8, <1>9, <1>10, StepKeeps

LEMMA SweepKeeps ==
    ASSUME IInv, NEW i \in Installers, SweepStaging(i)
    PROVE  IInv'
<1>1. /\ at[i] = "sweep" /\ UNCHANGED <<lockVars, Records, candidate>>
      /\ End(i) \/ Continue(i, "sweep")
  BY DEF SweepStaging, OfRemoval, Records, storeVars
<1>2. CASE End(i)
  BY <1>1, <1>2, CandidatesStay, EndKeeps
<1>3. CASE Continue(i, "sweep")
  <2>1. UNCHANGED Invariable
    BY <1>1, <1>3 DEF Continue, Goto, Load, Invariable, IInv, Types
  <2> QED
    BY <2>1, NothingMoves
<1> QED
  BY <1>1, <1>2, <1>3

-----------------------------------------------------------------------------
LEMMA InitHolds == Init => IInv
<1> SUFFICES ASSUME Init
             PROVE  IInv
  OBVIOUS
<1> USE DEF Init
<1>1. Types
  BY DEF Types, Phases, Pointer, Commands, Places
<1>2. \A i \in Installers : Located(i) /\ ~Driving(i) /\ ~Guarded(i) /\ cmd[i] = "off"
  BY DEF Located, Busy, Beginning, Driving, Guarded
<1>3. Locking
  BY <1>2 DEF Locking, LockIs, OneGuard
<1>4. Files
  BY DEF Files, IsAdopted
<1>5. \A i \in Installers : PlanIs(i)
  BY <1>2, NothingPlanned
<1> QED
  BY <1>1, <1>3, <1>4, <1>5 DEF IInv

LEMMA StepsKeep ==
    ASSUME IInv, NEW i \in Installers, Step(i)
    PROVE  IInv'
<1>1. CASE LockStep(i)
  BY <1>1, RefuseKeeps, BeginFreeKeeps, BeginStaleKeeps, RemoveStaleKeeps, AcquireKeeps,
     ReleaseLockKeeps, RemoveLockKeeps
     DEF LockStep, BeginRefused
<1>2. CASE ShellStep(i)
  BY <1>2, ShellKeeps
<1>3. CASE PrepareStep(i)
  <2>1. Publish(i) \/ FinishPublication(i) => cmd[i] = "publish"
    BY DEF Publish, FinishPublication, IInv, PlanIs, Publishing
  <2> QED
    BY <1>3, <2>1, RefuseKeeps, LocalKeeps, PublicationKeeps, PrepareKeeps, CheckedKeeps,
       WriteManifestKeeps
       DEF PrepareStep, PublishRefused
<1>4. CASE WriteJournal(i)
  BY <1>4, WriteJournalKeeps
<1>5. CASE SwitchStep(i)
  BY <1>5, RecoverKeeps, CheckedKeeps, CommitKeeps, CheckBaselineKeeps, SwitchPointerKeeps,
     UnlinkJournalKeeps, LocalKeeps, RollbackKeeps, SwapBackKeeps
     DEF SwitchStep
<1> QED
  BY <1>1, <1>2, <1>3, <1>4, <1>5 DEF Step

LEMMA NextHolds == IInv /\ [RemovalNext]_allVars => IInv'
<1> SUFFICES ASSUME IInv, [RemovalNext]_allVars
             PROVE  IInv'
  OBVIOUS
<1>1. CASE UNCHANGED allVars
  BY <1>1, NothingMoves DEF allVars, vars, Invariable, Records, lockVars, journalVars,
     storeVars, processVars
<1>2. CASE RemovalNext
  <2>1. PICK i \in Installers :
          \/ \E c \in Commits \cup {None} : Start(i, c)
          \/ \E r \in Installers \cup {None} : StartRemoval(i, r)
          \/ RunStep(i) \/ Interrupt(i) \/ Edit
    BY <1>2 DEF RemovalNext
  <2>2. CASE \E c \in Commits \cup {None} : Start(i, c)
    BY <2>2, StartKeeps
  <2>3. CASE \E r \in Installers \cup {None} : StartRemoval(i, r)
    BY <2>3, StartRemovalKeeps
  <2>4. CASE cmd[i] # "off" /\ Step(i)
    BY <2>4, StepsKeep
  <2>5. CASE RemovalStep(i)
    BY <2>5, RefuseKeeps, UninstallContinues, RemoveMetadataKeeps, SweepKeeps
       DEF RemovalStep, RemovalRefused
  <2>9. CASE ResumeRefused(i)
    BY <2>9, RefuseKeeps DEF ResumeRefused
  <2>6. CASE Stop(i)
    BY <2>6, StopKeeps
  <2>7. CASE CleanUpFails(i)
    BY <2>7, CandidatesStay, EndKeeps DEF CleanUpFails, Records, storeVars
  <2>8. CASE Edit
    BY <2>8, NothingMoves DEF Edit, Invariable, Records, processVars
  <2> QED
    BY <2>1, <2>2, <2>3, <2>4, <2>5, <2>6, <2>7, <2>8, <2>9 DEF RunStep, Interrupt
<1> QED
  BY <1>1, <1>2

-----------------------------------------------------------------------------
(* "One lock": however many installers, rollbacks and uninstalls are       *)
(* started, interrupted and started again, never do two of them work on    *)
(* the installation at once.                                               *)
THEOREM OneRunDrives == RemovalSpec => []OneDriver
<1>1. IInv => OneDriver
  BY LockingMeansOneDriver DEF IInv
<1> QED
  BY <1>1, InitHolds, NextHolds, PTL DEF RemovalSpec, RemovalInit

(* Adoption commits before activation: whatever a launcher may start, and  *)
(* whatever a rollback may go back to, has been adopted.                   *)
THEOREM ActiveReleasesAreAdopted == RemovalSpec => []ActiveIsAdopted
<1>1. IInv => ActiveIsAdopted
  BY DEF IInv, Files, IsAdopted, ActiveIsAdopted
<1> QED
  BY <1>1, InitHolds, NextHolds, PTL DEF RemovalSpec, RemovalInit

(* Who writes current.json.                                                *)
LEMMA WhoMovesThePointer ==
    ASSUME NEW i \in Installers, RunStep(i), pointer' # pointer
    PROVE  SwitchPointer(i) \/ SwapBack(i) \/ RemoveMetadata(i)
<1> USE DEF storeVars
<1>1. CASE RemovalStep(i)
  <2> USE DEF Kept, Others
  <2>1. ~FindJournal(i) /\ ~PlanRemoval(i) /\ ~JournalRemoval(i) /\ ~RemovalRefused(i)
    BY DEF FindJournal, PlanRemoval, JournalRemoval, RemovalRefused, Refuse
  <2>2. ~ProveRelease(i) /\ ~CheckpointBefore(i) /\ ~CheckpointAfter(i) /\ ~RemoveRelease(i)
    BY DEF ProveRelease, CheckpointBefore, CheckpointAfter, RemoveRelease
  <2>3. ~RemoveAsset(i) /\ ~StageCapability(i) /\ ~CleanUpCapability(i) /\ ~CommitRemoval(i)
    BY DEF RemoveAsset, StageCapability, CleanUpCapability, CommitRemoval
  <2>4. ~SweepStaging(i)
    BY DEF SweepStaging
  <2> QED
    BY <1>1, <2>1, <2>2, <2>3, <2>4 DEF RemovalStep
<1>2. CASE Step(i)
  <2>1. ~LockStep(i)
    BY DEF LockStep, BeginRefused, BeginFree, BeginStale, UnlinkStaleOwner, RemoveStaleLock,
       Acquire, ReleaseLock, RemoveLock, Refuse
  <2>2. ~ShellStep(i)
    BY DEF ShellStep, MakeCandidate, Clone, Compare, Adopt, Refuse
  <2>3. ~PrepareStep(i)
    BY DEF PrepareStep, Publish, PublishRefused, CheckPublication, SaveOriginal, PlaceAsset,
       RecordPublication, FinishPublication, Prepare, DiscardCandidate, WriteReceipt, Own,
       WriteManifest, MoveCandidate, Refuse
  <2>4. ~WriteJournal(i)
    BY DEF WriteJournal
  <2>5. SwitchStep(i) => SwitchPointer(i) \/ SwapBack(i)
    BY DEF SwitchStep, Recover, PlaceCandidate, Commit, CheckBaseline, VerifyInstalled,
       UnlinkJournal, UnlinkOwnership, Rollback, Abort, Refuse
  <2> QED
    BY <1>2, <2>1, <2>2, <2>3, <2>4, <2>5 DEF Step
<1>3. ~ResumeRefused(i)
  BY DEF ResumeRefused, Refuse
<1> QED
  BY <1>1, <1>2, <1>3 DEF RunStep

(* An installation keeps what ReleasePointer promises its launchers: the   *)
(* current release changes at once from one to another, the release it     *)
(* replaces is then the previous one, a rollback exchanges the two, an     *)
(* uninstall removes both - and an installer that recovers a switch which  *)
(* already happened does not switch again.                                 *)
THEOREM PointerIsAtomic == RemovalSpec => ActivationIsAtomic
<1> USE DEF Launchers!Next, Launchers!vars
<1>1. RemovalInit => Launchers!Init
  BY DEF RemovalInit, Init, Launchers!Init
<1>2. IInv /\ [RemovalNext]_allVars => [Launchers!Next]_(Launchers!vars)
  <2> SUFFICES ASSUME IInv, RemovalNext, pointer' # pointer
               PROVE  Launchers!Next \/ UNCHANGED Launchers!vars
    BY DEF allVars, vars, storeVars
  <2>1. PICK i \in Installers : RunStep(i)
    BY DEF RemovalNext, Start, StartRemoval, Interrupt, Edit, CleanUpFails, Stop, storeVars
  <2>2. PlanIs(i)
    BY DEF IInv
  <2>3. CASE SwitchPointer(i)
    <3>1. /\ at[i] = "swap" /\ pointer' = Switched(plan[i])
      BY <2>3 DEF SwitchPointer, SwitchedPointer
    <3>2. /\ plan[i] \in Plan /\ plan[i].payload # plan[i].base.current
          /\ Baseline(plan[i])
      BY <2>2, <3>1 DEF PlanIs, IsSound, Uses
    <3>3. pointer = plan[i].base
      BY <3>1, <3>2 DEF Baseline
    <3>4. /\ pointer'.current = plan[i].payload /\ pointer'.previous = pointer.current
      BY <3>1, <3>3 DEF Switched
    <3>5. plan[i].payload \in Payload
      BY <3>2 DEF Plan
    <3> QED
      BY <3>2, <3>3, <3>4, <3>5 DEF Launchers!Activate
  <2>4. CASE SwapBack(i)
    <3>1. at[i] = "swapback" /\ pointer' = Switched(plan[i]) /\ pointer = plan[i].base
      BY <2>2, <2>4 DEF SwapBack, PlanIs
    <3>2. plan[i] \in Plan /\ plan[i].payload # plan[i].base.current
      BY <2>2, <3>1 DEF PlanIs, IsSound, Uses
    <3>3. /\ pointer'.current = plan[i].payload /\ pointer'.previous = pointer.current
      BY <3>1 DEF Switched
    <3>4. plan[i].payload \in Payload
      BY <3>2 DEF Plan
    <3> QED
      BY <3>1, <3>2, <3>3, <3>4 DEF Launchers!Activate
  <2>5. CASE RemoveMetadata(i)
    <3>1. pointer' = [current |-> None, previous |-> None]
      BY <2>5 DEF RemoveMetadata
    <3> QED
      BY <3>1 DEF Launchers!Remove
  <2> QED
    BY <2>1, <2>3, <2>4, <2>5, WhoMovesThePointer
<1> QED
  BY <1>1, <1>2, InitHolds, NextHolds, PTL
     DEF RemovalSpec, RemovalInit, ActivationIsAtomic, Launchers!Spec

-----------------------------------------------------------------------------
(* Types of the files, and where a run is in the publication.              *)
FileTypes ==
    /\ asset \in [Assets -> Contents \cup {None}]
    /\ backup \in [Assets -> Contents \cup {None}]
    /\ layout \in Layout \cup {None}
    /\ release \in [Commits -> Release \cup {None}]
    /\ receipt \in [Commits -> Payload \cup {None}]
    /\ staging \in [Installers -> Recovery \cup {None}]
PublishingIs(i) ==
    /\ at[i] \in Publishing => layout # None
    /\ at[i] = "saved" => Unsaved # {}
    /\ at[i] = "placed" => Unpublished # {}

-----------------------------------------------------------------------------
(* What install leaves of a journal.                                       *)
Staged(p) == /\ candidate[p.txn] = p.payload /\ release[p.payload.commit] = None
             /\ receipt[p.payload.commit] = p.payload
Placeable(p) == /\ manifest[p.payload.commit] = p.payload
                /\ receipt[p.payload.commit] = p.payload
                /\ {candidate[p.txn], release[p.payload.commit]} \ {None} = {p.payload}
Canonical(p) == candidate[p.txn] = None /\ Verified(p.payload)

Late == {"release_ready", "adopted", "switched", "committed"}
JournalIs == journal # None =>
    /\ Installed /\ Baseline(journal)
    /\ phase # "journaled" => journal.txn \in ownership
    /\ phase \in {"journaled", "owned", "manifested"} => Staged(journal)
    /\ phase = "manifested" => manifest[journal.payload.commit] = journal.payload
    /\ phase = "prepared" => Placeable(journal)
    /\ phase \in Late => Canonical(journal)
    /\ phase \in {"switched", "committed"} => pointer = Switched(journal)

(* What the place of a run says.                                           *)
Unjournaled == Publishing \cup {"mkdir", "clone", "compare", "readopt", "retain", "reown",
                                "receipt", "journaled", "unown", "swapback"}
Preparing == {"retain", "reown", "receipt", "journaled"}
Following == {"own", "owned", "manifest", "manifested", "prepared", "move", "place", "adopt",
              "adopted", "baseline", "swap", "switched", "committed", "verify", "finish"}
PhaseAt(i) ==
    /\ at[i] \in {"own", "owned"} => phase = "journaled"
    /\ at[i] \in {"manifest", "manifested"} => phase = "owned"
    /\ at[i] = "prepared" => phase = "manifested"
    /\ at[i] \in {"move", "place"} => phase = "prepared"
    /\ at[i] \in {"adopt", "adopted"} => phase = "release_ready"
    /\ at[i] \in {"baseline", "swap", "switched"} => phase = "adopted"
    /\ at[i] = "committed" => phase = "switched"
    /\ at[i] = "verify" => phase = "committed"
    /\ at[i] = "finish" => phase \in {"switched", "committed"}
PreparedAt(i) ==
    /\ at[i] \in Preparing \cup {"release_ready"} => plan[i].txn = txn[i] /\ Installed
    /\ at[i] \in Preparing => plan[i].base = pointer
    /\ at[i] = "receipt" => /\ candidate[txn[i]] = plan[i].payload
                            /\ release[plan[i].payload.commit] = None
    /\ at[i] = "journaled" => Staged(plan[i])
    /\ at[i] \in {"retain", "reown"} => Verified(plan[i].payload)
    /\ at[i] = "reown" => candidate[txn[i]] = None
FollowedAt(i) ==
    /\ at[i] \in Following => journal = plan[i]
    /\ at[i] \in {"own", "owned", "manifest", "manifested", "prepared", "move", "place"} =>
          plan[i].txn = txn[i]
    /\ at[i] = "owned" => txn[i] \in ownership
    /\ at[i] = "manifested" => manifest[plan[i].payload.commit] = plan[i].payload
    /\ at[i] = "release_ready" =>
          /\ txn[i] \in ownership /\ Canonical(plan[i])
          /\ IF journal = None THEN plan[i].base = pointer
             ELSE journal = plan[i] /\ phase = "prepared"
    /\ at[i] = "switched" => pointer = Switched(plan[i])
StepIs(i) ==
    /\ cmd[i] = "publish" => at[i] \in Publishing \cup {"start"}
    /\ at[i] \in Unjournaled => journal = None
    /\ cmd[i] \in {"publish", "abort"} /\ at[i] = "start" => journal = None
    /\ cmd[i] = "commit" /\ at[i] = "start" => phase \in {"release_ready", "adopted"}
    /\ PhaseAt(i) /\ PreparedAt(i) /\ FollowedAt(i)
RecoveryInv == JournalIs /\ \A i \in Installers : StepIs(i)

-----------------------------------------------------------------------------
(* How the runs that remove and the runs that install are told apart.      *)
Shape(i) ==
    /\ cmd[i] = "off" => txn[i] = i /\ resumed[i] = None
    /\ cmd[i] = "begin" /\ at[i] = "start" /\ resumed[i] # None => txn[i] = resumed[i]
    /\ cmd[i] = "begin" /\ at[i] = "start" /\ resumed[i] = None => txn[i] = i
    /\ want[i] # Removal => resumed[i] = None
    /\ plan[i] # None => plan[i].txn = txn[i] /\ Busy(i)
    /\ Busy(i) => (cmd[i] = "uninstall" <=> want[i] = Removal)
    /\ cmd[i] = "uninstall" => at[i] \in {"start", "journal", "next", "before", "remove", "after",
                                          "release", "unlock", "sweep"}
    /\ at[i] \in {"journal", "next", "before", "remove", "after", "sweep"} => cmd[i] = "uninstall"
Shapes == resumed \in [Installers -> Installers \cup {None}] /\ \A i \in Installers : Shape(i)

(* A recovery directory: once it is committed, everything is removed; and  *)
(* when nobody else changed the installation, what still stands of it is   *)
(* still to be removed.                                                    *)
Lists(t, kind, n) == \E m \in n..Len(staging[t].plan) : staging[t].plan[m].kind = kind
Remains(t, n) ==
    /\ journal # None => Lists(t, "journal", n)
    /\ layout # None => Installed /\ Lists(t, "layout", n)
Progressing(t) ==
    /\ Journaled(t) /\ staging[t].journal.committed =>
          staging[t].journal.done >= Len(staging[t].plan)
    /\ Journaled(t) /\ t \notin disturbed => Remains(t, staging[t].journal.done + 1)
    /\ t \in disturbed => staging[t] # None

(* Where a run is in its uninstall.                                        *)
Swept(t) == staging[t] = None \/ (Journaled(t) /\ staging[t].journal.committed)
Unfinished(t) == Journaled(t) /\ ~staging[t].journal.committed
RemovalAt(i) ==
    /\ at[i] = "journal" => /\ staging[txn[i]] # None /\ staging[txn[i]].journal = None
                            /\ Remains(txn[i], 1)
    /\ at[i] = "next" => staging[txn[i]] = None \/ Journaled(txn[i])
    /\ at[i] \in {"before", "remove", "after"} =>
          Unfinished(txn[i]) /\ staging[txn[i]].journal.done < Len(staging[txn[i]].plan)
    /\ at[i] = "after" /\ txn[i] \notin disturbed =>
          Remains(txn[i], staging[txn[i]].journal.done + 2)
    /\ at[i] \in {"release", "unlock"} /\ resumed[i] \in {None, txn[i]} => Swept(txn[i])
    /\ at[i] = "sweep" => Swept(txn[i])

(* A run that sweeps has given up the lock.  The next one may carry on     *)
(* under the same id, but finds its uninstall still complete.              *)
Spent(t) == \E j \in Installers : at[j] = "sweep" /\ txn[j] = t
Unused(i) == cmd[i] = "begin" /\ at[i] = "start" /\ resumed[i] = None =>
    /\ staging[i] = None /\ (journal # None => journal.txn # i)
    /\ \A j \in Installers \ {i} : txn[j] # i
Entered(i) == at[i] # "sweep" /\ ((cmd[i] = "begin" /\ at[i] # "start") \/ Busy(i))
Identified(i) == Entered(i) /\ Spent(txn[i]) =>
    IF want[i] = Removal THEN layout = None \/ Journaled(txn[i]) ELSE txn[i] \in disturbed
PendingIdentified == journal # None /\ Spent(journal.txn) => journal.txn \in disturbed

RemovalInv ==
    /\ FileTypes
    /\ \A t \in Installers : Progressing(t)
    /\ \A i \in Installers : /\ PublishingIs(i) /\ Unused(i) /\ Identified(i)
                             /\ cmd[i] = "uninstall" => RemovalAt(i)
    /\ PendingIdentified

(* An uninstall that was begun, and may have left a journal behind that    *)
(* cannot be recovered, is still there to be resumed.                      *)
Suspended == \E t \in Installers : Journaled(t) /\ (t \in disturbed \/ ~staging[t].journal.committed)
Inv == /\ IInv /\ Shapes
       /\ Overrun \/ (RemovalInv /\ (Suspended \/ RecoveryInv))

-----------------------------------------------------------------------------
(* A run that is not past begin has no place that says anything.           *)
LEMMA IdleSaysNothing ==
    ASSUME NEW i \in Installers, Located(i)', ~Driving(i)'
    PROVE  StepIs(i)'
  BY DEF Located, Driving, Busy, Beginning, StepIs, PhaseAt, PreparedAt, FollowedAt,
     Unjournaled, Publishing, Preparing, Following

(* Where a run is after it moved on, and everybody else is where they      *)
(* were.                                                                   *)
LEMMA Moves ==
    ASSUME IInv, NEW i \in Installers, NEW c, NEW a, NEW p, Load(i, c, a, p)
    PROVE  /\ cmd'[i] = c /\ at'[i] = a /\ plan'[i] = p /\ txn' = txn /\ want' = want
           /\ \A j \in Installers \ {i} : cmd'[j] = cmd[j] /\ at'[j] = at[j]
  BY DEF IInv, Types, Load

(* A step of a run past begin is that run's and the journal's alone.       *)
LEMMA OneMoves ==
    ASSUME IInv, IInv', NEW i \in Installers, Driving(i),
           \A j \in Installers \ {i} : cmd'[j] = cmd[j] /\ at'[j] = at[j],
           JournalIs', StepIs(i)'
    PROVE  RecoveryInv'
<1>1. ASSUME NEW j \in Installers \ {i}
      PROVE  StepIs(j)'
  <2>1. ~Driving(j)
    BY DriverIsAlone DEF IInv
  <2>2. ~Driving(j)' /\ Located(j)'
    BY <2>1 DEF Driving, IInv, Locking
  <2> QED
    BY <2>2, IdleSaysNothing
<1> QED
  BY <1>1 DEF RecoveryInv

(* What the invariant says of the run that works on the installation.      *)
LEMMA AtWork ==
    ASSUME IInv, RecoveryInv, NEW i \in Installers, Driving(i)
    PROVE  StepIs(i) /\ JournalIs /\ PlanIs(i)
  BY DEF RecoveryInv, IInv

(* The files that the invariant is about.                                  *)
Written == <<candidate, layout, journal, phase, ownership, receipt, manifest, release, pointer>>

(* What a journal promises is about these files.                           *)
LEMMA FilesStay ==
    ASSUME JournalIs, UNCHANGED Written
    PROVE  JournalIs'
  BY DEF JournalIs, Written, Installed, Baseline, Switched, Staged, Placeable, Canonical,
     Verified, VerifiedRelease

(* A run goes on and has changed no file.                                  *)
LEMMA GoesOn ==
    ASSUME IInv, IInv', RecoveryInv, NEW i \in Installers, Driving(i),
           NEW c, NEW a, NEW p, Load(i, c, a, p), UNCHANGED Written,
           cmd'[i] = c /\ at'[i] = a /\ plan'[i] = p /\ txn' = txn => StepIs(i)'
    PROVE  RecoveryInv'
  BY Moves, OneMoves, FilesStay DEF RecoveryInv

(* A run ends.                                                             *)
LEMMA Ends ==
    ASSUME IInv, IInv', RecoveryInv, NEW i \in Installers, End(i), UNCHANGED Written
    PROVE  RecoveryInv'
<1>1. /\ cmd'[i] = "off" /\ at'[i] = "start"
      /\ \A j \in Installers \ {i} : /\ cmd'[j] = cmd[j] /\ at'[j] = at[j]
                                     /\ plan'[j] = plan[j] /\ txn'[j] = txn[j]
  BY DEF End, IInv, Types
<1>2. StepIs(i)'
  <2>1. ~Driving(i)' /\ Located(i)'
    BY <1>1 DEF Driving, IInv, Locking
  <2> QED
    BY <2>1, IdleSaysNothing
<1>3. ASSUME NEW j \in Installers \ {i}
      PROVE  StepIs(j)'
  <2>1. StepIs(j)
    BY DEF RecoveryInv
  <2>2. PhaseAt(j)'
    BY <1>1, <2>1 DEF StepIs, PhaseAt, Written
  <2>3. PreparedAt(j)'
    BY <1>1, <2>1 DEF StepIs, PreparedAt, Written, Installed, Staged, Verified, VerifiedRelease
  <2>4. FollowedAt(j)'
    BY <1>1, <2>1 DEF StepIs, FollowedAt, Written, Canonical, Verified, VerifiedRelease, Switched
  <2> QED
    BY <1>1, <2>1, <2>2, <2>3, <2>4 DEF StepIs, Written
<1> QED
  BY <1>2, <1>3, FilesStay DEF RecoveryInv

(* A run that works where no journal is pending leaves none.               *)
LEMMA NothingPending ==
    ASSUME IInv, IInv', RecoveryInv, NEW i \in Installers, Driving(i),
           \A j \in Installers \ {i} : cmd'[j] = cmd[j] /\ at'[j] = at[j],
           journal' = None, StepIs(i)'
    PROVE  RecoveryInv'
  BY OneMoves DEF JournalIs

-----------------------------------------------------------------------------
(* The trap of the shell removes a candidate before it is journaled.       *)
LEMMA TrapFindsNoJournal ==
    ASSUME IInv, RecoveryInv, NEW i \in Installers, Trapped(i)
    PROVE  Driving(i) /\ journal = None
<1>1. cmd[i] \in {"publish", "shell"} /\ at[i] # "sweep"
  BY DEF Trapped, IInv, Locking, Located
<1>2. Driving(i)
  BY <1>1, PastBegin
<1> QED
  BY <1>2, AtWork DEF Trapped, StepIs, Unjournaled

(* A run ends, and its trap may remove a candidate that no journal is      *)
(* about.                                                                  *)
LEMMA TrapRecovers ==
    ASSUME IInv, IInv', RecoveryInv, NEW i \in Installers, End(i),
           \/ UNCHANGED Written
           \/ Trapped(i) /\ UNCHANGED journal
    PROVE  RecoveryInv'
<1>1. CASE UNCHANGED Written
  BY <1>1, Ends
<1>2. CASE Trapped(i) /\ UNCHANGED journal
  <2>1. Driving(i) /\ journal' = None
    BY <1>2, TrapFindsNoJournal
  <2>2. /\ cmd'[i] = "off" /\ at'[i] = "start"
        /\ \A j \in Installers \ {i} : cmd'[j] = cmd[j] /\ at'[j] = at[j]
    BY DEF End, IInv, Types
  <2>3. StepIs(i)'
    BY <2>2, IdleSaysNothing DEF Driving, IInv, Locking
  <2> QED
    BY <2>1, <2>2, <2>3, NothingPending
<1> QED
  BY <1>1, <1>2

(* A refusal leaves the journal as it is,                                  *)
LEMMA RefuseRecovers ==
    ASSUME IInv, IInv', RecoveryInv, NEW i \in Installers, Refuse(i)
    PROVE  RecoveryInv'
  BY TrapRecovers DEF Refuse, Written, bootVars, journalVars, storeVars

(* and so does an interruption.                                            *)
LEMMA StopRecovers ==
    ASSUME IInv, IInv', RecoveryInv, NEW i \in Installers, Stop(i)
    PROVE  RecoveryInv'
  BY TrapRecovers DEF Stop, Written, bootVars, journalVars, storeVars

(* The stable bootstrap is published before there is a journal.            *)
LEMMA PublicationRecovers ==
    ASSUME IInv, IInv', RecoveryInv, NEW i \in Installers,
           \/ CheckPublication(i) \/ SaveOriginal(i) \/ PlaceAsset(i) \/ RecordPublication(i)
           \/ Publish(i) \/ FinishPublication(i)
    PROVE  RecoveryInv'
<1>1. /\ at[i] \in Publishing \/ (cmd[i] = "publish" /\ at[i] = "start")
      /\ \/ \E a \in Publishing : Load(i, cmd[i], a, plan[i])
         \/ Load(i, "prepare", "start", plan[i])
      /\ UNCHANGED journal
  BY DEF CheckPublication, SaveOriginal, PlaceAsset, RecordPublication, Publish,
     FinishPublication, Publishing, Continue, Goto, journalVars
<1>2. Driving(i)
  BY <1>1, PastBegin DEF Publishing, Beginning
<1>3. journal = None
  BY <1>1, <1>2, AtWork DEF StepIs, Unjournaled
<1>4. PICK c \in {cmd[i], "prepare"}, a \in Publishing \cup {"start"} :
        /\ Load(i, c, a, plan[i]) /\ (a = "start" => c = "prepare")
  BY <1>1 DEF Publishing
<1>5. /\ cmd'[i] = c /\ at'[i] = a
      /\ \A j \in Installers \ {i} : cmd'[j] = cmd[j] /\ at'[j] = at[j]
  BY <1>4, Moves
<1>6. StepIs(i)'
  BY <1>1, <1>3, <1>4, <1>5 DEF StepIs, PhaseAt, PreparedAt, FollowedAt, Publishing, Preparing,
     Following
<1> QED
  BY <1>1, <1>2, <1>3, <1>5, <1>6, NothingPending

-----------------------------------------------------------------------------
(* The shell stages a candidate, and adopts what has been placed.          *)
LEMMA ShellRecovers ==
    ASSUME IInv, IInv', RecoveryInv, NEW i \in Installers, ShellStep(i)
    PROVE  RecoveryInv'
<1>1. cmd[i] = "shell" /\ at[i] # "sweep"
  BY DEF ShellStep, MakeCandidate, Clone, Compare, Adopt
<1>2. Driving(i) /\ StepIs(i)
  BY <1>1, PastBegin, AtWork
<1>3. CASE Refuse(i)
  BY <1>3, RefuseRecovers
<1>4. CASE ~Refuse(i) /\ at[i] # "adopt"
  <2>1. journal = None /\ journal' = None
    BY <1>2, <1>4 DEF ShellStep, MakeCandidate, Clone, Compare, Adopt, StepIs, Unjournaled,
       journalVars
  <2>2. PICK c \in {"shell", "publish", "abort"}, a \in {"clone", "compare", "readopt", "start"} :
          Load(i, c, a, plan[i]) /\ (a = "start" <=> c # "shell")
    BY <1>1, <1>4 DEF ShellStep, MakeCandidate, Clone, Compare, Adopt, Continue, Goto
  <2>3. /\ cmd'[i] = c /\ at'[i] = a
        /\ \A j \in Installers \ {i} : cmd'[j] = cmd[j] /\ at'[j] = at[j]
    BY <2>2, Moves
  <2>4. StepIs(i)'
    BY <2>1, <2>2, <2>3 DEF StepIs, PhaseAt, PreparedAt, FollowedAt, Preparing, Following
  <2> QED
    BY <1>2, <2>1, <2>3, <2>4, NothingPending
<1>5. CASE at[i] = "adopt"
  <2>1. /\ Load(i, "commit", "start", plan[i]) /\ UNCHANGED Written
    BY <1>5 DEF ShellStep, MakeCandidate, Clone, Compare, Adopt, Goto, Written, bootVars,
       journalVars, storeVars
  <2>2. phase' = "release_ready"
    BY <1>2, <1>5, <2>1 DEF StepIs, PhaseAt, Written
  <2>3. cmd'[i] = "commit" /\ at'[i] = "start" => StepIs(i)'
    BY <2>2 DEF StepIs, PhaseAt, PreparedAt, FollowedAt, Unjournaled, Publishing, Preparing,
       Following
  <2> QED
    BY <1>2, <2>1, <2>3, GoesOn
<1> QED
  BY <1>3, <1>4, <1>5

-----------------------------------------------------------------------------
(* prepare finds either the release of its commit, or its candidate and no *)
(* release: what it then journals is on the disk.                          *)
LEMMA PrepareRecovers ==
    ASSUME IInv, IInv', RecoveryInv, NEW i \in Installers, Prepare(i)
    PROVE  RecoveryInv'
<1>1. CASE Refuse(i)
  BY <1>1, RefuseRecovers
<1>2. CASE ~Refuse(i)
  <2> DEFINE c == want[i]
             p == IF IsRetained(c) THEN release[c] ELSE candidate[txn[i]]
             a == IF IsRetained(c) THEN "retain" ELSE "receipt"
             planned == [txn |-> txn[i], payload |-> p, base |-> pointer]
  <2>1. /\ Load(i, "prepare", a, planned) /\ UNCHANGED Written
        /\ candidate[txn[i]] # None /\ candidate[txn[i]].commit = c
        /\ Installed /\ journal = None
        /\ IsRetained(c) => VerifiedRelease(c)
    BY <1>2 DEF Prepare, Written, bootVars, journalVars, storeVars
  <2>2. cmd[i] = "prepare" /\ at[i] = "start"
    BY DEF Prepare
  <2>3. Driving(i) /\ c \in Commits
    BY <2>2, PastBegin DEF IInv, PlanIs
  <2>4. p.commit = c
    <3>1. IsRetained(c) => release[c] = manifest[c] /\ manifest[c] # None
      BY <2>1 DEF VerifiedRelease
    <3> QED
      BY <2>1, <2>3, <3>1 DEF IInv, Files
  <2>5. /\ planned.txn = txn[i] /\ planned.payload = p /\ planned.base = pointer
        /\ planned.payload.commit = c
    BY <2>4
  <2>6. /\ a = "retain" => Verified(p)
        /\ a = "receipt" => candidate[txn[i]] = p /\ release[c] = None
        /\ a \in {"retain", "receipt"}
    BY <2>1, <2>4 DEF Verified, IsRetained
  <2> HIDE DEF p, a, planned
  <2>7. ASSUME cmd'[i] = "prepare", at'[i] = a, plan'[i] = planned, txn' = txn
        PROVE  StepIs(i)'
    <3>1. UNCHANGED <<candidate, layout, journal, manifest, release, receipt, pointer>>
      BY <2>1 DEF Written
    <3>2. PhaseAt(i)' /\ FollowedAt(i)'
      BY <2>6, <2>7 DEF PhaseAt, FollowedAt, Following
    <3>3. Installed' /\ (a = "retain" => Verified(plan[i].payload)')
      BY <2>1, <2>5, <2>6, <2>7, <3>1 DEF Installed, Verified, VerifiedRelease
    <3>4. PreparedAt(i)'
      BY <2>5, <2>6, <2>7, <3>1, <3>3 DEF PreparedAt, Preparing
    <3> QED
      BY <2>1, <2>6, <2>7, <3>1, <3>2, <3>4 DEF StepIs
  <2> QED
    BY <2>1, <2>3, <2>7, GoesOn
<1> QED
  BY <1>1, <1>2

(* A retained release: the candidate goes before there is a journal.       *)
LEMMA DiscardRecovers ==
    ASSUME IInv, IInv', RecoveryInv, NEW i \in Installers, DiscardCandidate(i)
    PROVE  RecoveryInv'
<1>1. /\ at[i] = "retain" /\ Load(i, cmd[i], "reown", plan[i])
      /\ candidate' = WithoutCandidate(txn[i])
      /\ UNCHANGED <<layout, journal, phase, receipt, manifest, release, pointer>>
  BY DEF DiscardCandidate, Continue, Goto, bootVars, journalVars, storeVars
<1>2. Driving(i) /\ StepIs(i)
  BY <1>1, PastBegin, AtWork DEF Beginning
<1>3. /\ cmd'[i] = cmd[i] /\ at'[i] = "reown" /\ plan'[i] = plan[i] /\ txn' = txn
      /\ \A j \in Installers \ {i} : cmd'[j] = cmd[j] /\ at'[j] = at[j]
  BY <1>1, Moves
<1>4. candidate'[txn[i]] = None
  BY <1>1 DEF WithoutCandidate, IInv, Types
<1>5. journal = None /\ journal' = None
  BY <1>1, <1>2 DEF StepIs, Unjournaled
<1>6. PreparedAt(i)'
  BY <1>1, <1>2, <1>3, <1>4 DEF StepIs, PreparedAt, Preparing, Installed, Verified,
     VerifiedRelease
<1>7. StepIs(i)'
  BY <1>1, <1>2, <1>3, <1>5, <1>6 DEF StepIs, PhaseAt, FollowedAt, Following, Publishing
<1> QED
  BY <1>2, <1>3, <1>5, <1>7, NothingPending

(* The receipt of what is about to be journaled.                           *)
LEMMA ReceiptRecovers ==
    ASSUME IInv, IInv', FileTypes, RecoveryInv, NEW i \in Installers, WriteReceipt(i)
    PROVE  RecoveryInv'
<1>1. CASE Refuse(i)
  BY <1>1, RefuseRecovers
<1>2. CASE ~Refuse(i)
  <2> DEFINE p == plan[i].payload
  <2>1. /\ at[i] = "receipt" /\ Load(i, cmd[i], "journaled", plan[i])
        /\ receipt' = [receipt EXCEPT ![p.commit] = p]
        /\ UNCHANGED <<candidate, layout, journal, phase, manifest, release, pointer>>
    BY <1>2 DEF WriteReceipt, Continue, Goto, bootVars, journalVars
  <2>2. Driving(i) /\ StepIs(i) /\ PlanIs(i)
    BY <2>1, PastBegin, AtWork DEF Beginning
  <2>3. /\ cmd'[i] = cmd[i] /\ at'[i] = "journaled" /\ plan'[i] = plan[i] /\ txn' = txn
        /\ \A j \in Installers \ {i} : cmd'[j] = cmd[j] /\ at'[j] = at[j]
    BY <2>1, Moves
  <2>4. journal = None /\ journal' = None
    BY <2>1, <2>2 DEF StepIs, Unjournaled
  <2>5. p.commit \in Commits
    BY <2>1, <2>2 DEF PlanIs, Uses, Plan, Payload
  <2>6. receipt'[p.commit] = p
    BY <2>1, <2>5 DEF FileTypes
  <2>7. PreparedAt(i)'
    BY <2>1, <2>2, <2>3, <2>6 DEF StepIs, PreparedAt, Preparing, Installed, Staged
  <2>8. StepIs(i)'
    BY <2>1, <2>2, <2>3, <2>4, <2>7 DEF StepIs, PhaseAt, FollowedAt, Following, Publishing
  <2> QED
    BY <2>2, <2>3, <2>4, <2>8, NothingPending
<1> QED
  BY <1>1, <1>2

(* The ownership file, of a new journal or again.                          *)
LEMMA OwnRecovers ==
    ASSUME IInv, IInv', RecoveryInv, NEW i \in Installers, Own(i)
    PROVE  RecoveryInv'
<1> DEFINE a == IF at[i] = "own" THEN "owned" ELSE "release_ready"
<1>1. /\ at[i] \in {"own", "reown"} /\ Load(i, cmd[i], a, plan[i])
      /\ ownership' = ownership \cup {txn[i]}
      /\ UNCHANGED <<candidate, layout, journal, phase, receipt, manifest, release, pointer>>
  BY DEF Own, Continue, Goto, bootVars, journalVars, storeVars
<1>2. Driving(i) /\ StepIs(i) /\ JournalIs
  BY <1>1, PastBegin, AtWork DEF Beginning
<1>3. /\ cmd'[i] = cmd[i] /\ at'[i] = a /\ plan'[i] = plan[i] /\ txn' = txn
      /\ \A j \in Installers \ {i} : cmd'[j] = cmd[j] /\ at'[j] = at[j]
  BY <1>1, Moves
<1>4. JournalIs'
  BY <1>1, <1>2 DEF JournalIs, Installed, Baseline, Switched, Staged, Placeable, Canonical,
     Verified, VerifiedRelease
<1>5. CASE at[i] = "own"
  <2>1. FollowedAt(i)' /\ PhaseAt(i)' /\ PreparedAt(i)'
    BY <1>1, <1>2, <1>3, <1>5 DEF StepIs, PhaseAt, PreparedAt, FollowedAt, Following, Preparing
  <2>2. StepIs(i)'
    BY <1>1, <1>2, <1>3, <1>5, <2>1 DEF StepIs, Unjournaled, Publishing
  <2> QED
    BY <1>2, <1>3, <1>4, <2>2, OneMoves
<1>6. CASE at[i] = "reown"
  <2>1. PhaseAt(i)' /\ PreparedAt(i)'
    BY <1>1, <1>2, <1>3, <1>6 DEF StepIs, PhaseAt, PreparedAt, Preparing, Installed
  <2>2. FollowedAt(i)'
    BY <1>1, <1>2, <1>3, <1>6 DEF StepIs, PreparedAt, FollowedAt, Following, Preparing,
       Unjournaled, Canonical, Verified, VerifiedRelease
  <2>3. StepIs(i)'
    BY <1>1, <1>2, <1>3, <1>6, <2>1, <2>2 DEF StepIs, Unjournaled, Publishing
  <2> QED
    BY <1>2, <1>3, <1>4, <2>3, OneMoves
<1> QED
  BY <1>1, <1>5, <1>6

(* The manifest of the journaled payload.                                  *)
LEMMA ManifestRecovers ==
    ASSUME IInv, IInv', RecoveryInv, NEW i \in Installers, WriteManifest(i)
    PROVE  RecoveryInv'
<1> DEFINE p == plan[i].payload
<1>1. /\ at[i] = "manifest" /\ Load(i, cmd[i], "manifested", plan[i])
      /\ manifest' = [manifest EXCEPT ![p.commit] = p]
      /\ UNCHANGED <<candidate, layout, journal, phase, ownership, receipt, release, pointer>>
  BY DEF WriteManifest, Continue, Goto, bootVars, journalVars
<1>2. Driving(i) /\ StepIs(i) /\ JournalIs /\ PlanIs(i)
  BY <1>1, PastBegin, AtWork DEF Beginning
<1>3. /\ cmd'[i] = cmd[i] /\ at'[i] = "manifested" /\ plan'[i] = plan[i] /\ txn' = txn
      /\ \A j \in Installers \ {i} : cmd'[j] = cmd[j] /\ at'[j] = at[j]
  BY <1>1, Moves
<1>4. p.commit \in Commits
  BY <1>1, <1>2 DEF PlanIs, Uses, Plan, Payload
<1>5. manifest'[p.commit] = p
  BY <1>1, <1>4 DEF IInv, Types
<1>6. journal = plan[i] /\ phase = "owned" /\ plan[i].txn = txn[i]
  BY <1>1, <1>2 DEF StepIs, PhaseAt, FollowedAt, Following
<1>7. JournalIs'
  BY <1>1, <1>2, <1>6 DEF JournalIs, Installed, Baseline, Switched, Staged, Late
<1>8. StepIs(i)'
  BY <1>1, <1>2, <1>3, <1>5, <1>6 DEF StepIs, PhaseAt, PreparedAt, FollowedAt, Following, Preparing,
     Unjournaled, Publishing
<1> QED
  BY <1>2, <1>3, <1>7, <1>8, OneMoves

-----------------------------------------------------------------------------
(* A candidate becomes the release of its commit.                          *)
LEMMA PlacingRecovers ==
    ASSUME IInv, IInv', FileTypes, RecoveryInv, NEW i \in Installers,
           MoveCandidate(i) \/ PlaceCandidate(i)
    PROVE  RecoveryInv'
<1> DEFINE p == plan[i].payload
<1>1. CASE Refuse(i)
  BY <1>1, RefuseRecovers
<1>2. CASE ~Refuse(i)
  <2>1. /\ at[i] \in {"move", "place"}
        /\ \/ release' = [release EXCEPT ![p.commit] = p]
           \/ /\ release' = [release EXCEPT ![p.commit] = candidate[txn[i]]]
              /\ candidate[txn[i]] # None /\ release[p.commit] = None
        /\ candidate' = WithoutCandidate(txn[i])
        /\ End(i) \/ Load(i, cmd[i], "release_ready", plan[i])
        /\ UNCHANGED <<layout, journal, phase, ownership, receipt, manifest, pointer>>
    BY <1>2 DEF MoveCandidate, PlaceCandidate, Continue, Goto, bootVars, journalVars
  <2>2. Driving(i) /\ StepIs(i) /\ JournalIs /\ PlanIs(i)
    BY <2>1, PastBegin, AtWork DEF Beginning
  <2>3. journal = plan[i] /\ phase = "prepared" /\ plan[i].txn = txn[i]
    BY <2>1, <2>2 DEF StepIs, PhaseAt, FollowedAt, Following
  <2>4. plan[i] \in Plan /\ p \in Payload /\ p.commit \in Commits /\ txn[i] \in Installers
    BY <2>1, <2>2 DEF PlanIs, Uses, Plan, Payload, IInv, Types
  <2>5. p # None
    BY <2>4, AbsenceAssumption
  <2>6. candidate'[txn[i]] = None
    BY <2>1, <2>4 DEF WithoutCandidate, IInv, Types
  <2>7. Placeable(plan[i]) /\ txn[i] \in ownership /\ Installed
    BY <2>2, <2>3, <2>4, AbsenceAssumption DEF JournalIs
  <2>8. release'[p.commit] = p /\ manifest[p.commit] = p /\ receipt[p.commit] = p
    BY <2>1, <2>3, <2>4, <2>5, <2>7 DEF Placeable, FileTypes
  <2>9. JournalIs'
    <3>1. /\ journal' = plan[i] /\ phase' = "prepared" /\ Installed'
          /\ Baseline(journal)' /\ journal'.txn \in ownership'
      BY <2>1, <2>2, <2>3, <2>4, <2>7, AbsenceAssumption DEF JournalIs, Installed, Baseline,
         Switched
    <3>2. Placeable(journal)'
      BY <2>1, <2>3, <2>5, <2>6, <2>8, <3>1 DEF Placeable
    <3> QED
      BY <3>1, <3>2 DEF JournalIs, Late
  <2>10. CASE End(i)
    <3>1. /\ cmd'[i] = "off" /\ at'[i] = "start"
          /\ \A j \in Installers \ {i} : cmd'[j] = cmd[j] /\ at'[j] = at[j]
      BY <2>10 DEF End, IInv, Types
    <3>2. StepIs(i)'
      BY <3>1, IdleSaysNothing DEF Driving, IInv, Locking
    <3> QED
      BY <2>2, <2>9, <3>1, <3>2, OneMoves
  <2>11. CASE Load(i, cmd[i], "release_ready", plan[i])
    <3>1. /\ cmd'[i] = cmd[i] /\ at'[i] = "release_ready" /\ plan'[i] = plan[i] /\ txn' = txn
          /\ \A j \in Installers \ {i} : cmd'[j] = cmd[j] /\ at'[j] = at[j]
      BY <2>11, Moves
    <3>2. Canonical(plan[i])' /\ Installed'
      BY <2>1, <2>3, <2>5, <2>6, <2>7, <2>8, <3>1 DEF Canonical, Verified, VerifiedRelease,
         Installed
    <3>3. PhaseAt(i)' /\ PreparedAt(i)'
      BY <2>1, <2>3, <3>1, <3>2 DEF PhaseAt, PreparedAt, Preparing
    <3>4. journal' = plan'[i] /\ journal' # None /\ phase' = "prepared" /\ txn'[i] \in ownership'
      BY <2>1, <2>3, <2>4, <2>7, <3>1, AbsenceAssumption
    <3>5. FollowedAt(i)'
      BY <3>1, <3>2, <3>4 DEF FollowedAt, Following
    <3>6. StepIs(i)'
      BY <2>1, <2>2, <3>1, <3>3, <3>5 DEF StepIs, Unjournaled, Publishing
    <3> QED
      BY <2>2, <2>9, <3>1, <3>6, OneMoves
  <2> QED
    BY <2>1, <2>10, <2>11
<1> QED
  BY <1>1, <1>2

(* Each phase is written when what it says is on the disk.                 *)
LEMMA JournalWritesRecover ==
    ASSUME IInv, IInv', RecoveryInv, NEW i \in Installers, WriteJournal(i)
    PROVE  RecoveryInv'
<1>1. /\ at[i] \in Phases /\ journal' = plan[i] /\ phase' = at[i]
      /\ AfterJournal(i, at[i])
      /\ UNCHANGED <<candidate, layout, ownership, receipt, manifest, release, pointer>>
  BY DEF WriteJournal, bootVars, storeVars
<1>2. Driving(i) /\ StepIs(i) /\ JournalIs /\ PlanIs(i)
  BY <1>1, PastBegin, AtWork DEF Phases, Beginning
<1>3. plan[i] \in Plan /\ plan[i] # None
  BY <1>1, <1>2, AbsenceAssumption DEF PlanIs, Uses
<1>4. at[i] \notin {"journaled", "release_ready"} => journal = plan[i]
  BY <1>1, <1>2 DEF StepIs, FollowedAt, Following, Phases
<1>5. JournalIs'
  <2>1. CASE at[i] = "journaled"
    BY <1>1, <1>2, <2>1 DEF StepIs, PreparedAt, Preparing, JournalIs, Installed, Baseline,
       Staged, Late
  <2>2. CASE at[i] = "release_ready"
    <3>1. /\ plan[i].txn \in ownership /\ Canonical(plan[i]) /\ Installed
          /\ plan[i].base = pointer \/ (journal = plan[i] /\ Baseline(plan[i]))
      BY <1>2, <1>3, <2>2 DEF StepIs, PreparedAt, FollowedAt, JournalIs
    <3> QED
      BY <1>1, <2>2, <3>1 DEF JournalIs, Installed, Baseline, Switched, Canonical, Verified,
         VerifiedRelease, Late
  <2>3. CASE at[i] \in {"owned", "manifested", "prepared"}
    <3>1. journal = plan[i] /\ phase \in {"journaled", "owned", "manifested"}
      BY <1>2, <1>4, <2>3 DEF StepIs, PhaseAt
    <3>2. Installed /\ Baseline(plan[i]) /\ Staged(plan[i])
      BY <1>2, <1>3, <3>1 DEF JournalIs
    <3>3. plan[i].txn \in ownership
      BY <1>2, <1>3, <2>3, <3>1 DEF JournalIs, StepIs, PhaseAt, FollowedAt
    <3>4. /\ Installed' /\ journal' = plan[i] /\ Baseline(journal)' /\ Staged(journal)'
          /\ journal'.txn \in ownership'
      BY <1>1, <3>2, <3>3 DEF Installed, Baseline, Switched, Staged
    <3>5. at[i] \in {"manifested", "prepared"} =>
             manifest[plan[i].payload.commit] = plan[i].payload
      BY <1>2, <1>3, <3>1, <2>3 DEF StepIs, PhaseAt, FollowedAt, JournalIs
    <3>6. at[i] = "prepared" => Placeable(journal)'
      BY <1>1, <1>3, <3>2, <3>5, AbsenceAssumption DEF Plan, Staged, Placeable
    <3> QED
      BY <1>1, <2>3, <3>4, <3>5, <3>6 DEF JournalIs, Late
  <2>4. CASE at[i] \in {"adopted", "switched", "committed"}
    BY <1>1, <1>2, <1>3, <1>4, <2>4 DEF StepIs, PhaseAt, FollowedAt, JournalIs, Installed,
       Baseline, Switched, Canonical, Verified, VerifiedRelease, Late
  <2> QED
    BY <1>1, <2>1, <2>2, <2>3, <2>4 DEF Phases
<1>6. PICK c \in {cmd[i], "shell"}, a \in {"own", "manifest", "prepared", "place", "move",
                                           "adopt", "baseline", "committed", "verify"} :
        /\ Load(i, c, a, plan[i])
        /\ \/ at[i] = "journaled" /\ a = "own"
           \/ at[i] = "owned" /\ a = "manifest"
           \/ at[i] = "manifested" /\ a = "prepared"
           \/ at[i] = "prepared" /\ a = IF cmd[i] = "recover" THEN "place" ELSE "move"
           \/ at[i] = "release_ready" /\ a = "adopt"
           \/ at[i] = "adopted" /\ a = "baseline"
           \/ at[i] = "switched" /\ a = "committed"
           \/ at[i] = "committed" /\ a = "verify"
  <2>1. CASE at[i] \in {"journaled", "owned", "manifested"}
    BY <1>1, <2>1 DEF AfterJournal, Continue, Goto
  <2>2. CASE at[i] = "prepared"
    BY <1>1, <2>2 DEF AfterJournal, Continue, Goto
  <2>3. CASE at[i] \in {"release_ready", "adopted", "switched", "committed"}
    BY <1>1, <2>3 DEF AfterJournal, Continue, Goto
  <2> QED
    BY <1>1, <2>1, <2>2, <2>3 DEF Phases
<1>7. /\ cmd'[i] = c /\ at'[i] = a /\ plan'[i] = plan[i] /\ txn' = txn
      /\ \A j \in Installers \ {i} : cmd'[j] = cmd[j] /\ at'[j] = at[j]
  <2>1. Load(i, c, a, plan[i])
    BY <1>6
  <2> QED
    BY <2>1, Moves
<1>8. StepIs(i)'
  <2>1. PhaseAt(i)' /\ PreparedAt(i)'
    BY <1>1, <1>6, <1>7 DEF PhaseAt, PreparedAt, Preparing, Phases
  <2>2. at[i] \in {"journaled", "owned", "manifested", "prepared"} => plan[i].txn = txn[i]
    BY <1>1, <1>2 DEF StepIs, PreparedAt, FollowedAt, Preparing
  <2>3. at[i] = "owned" => txn[i] \in ownership
    BY <1>2 DEF StepIs, FollowedAt
  <2>4. FollowedAt(i)'
    BY <1>1, <1>6, <1>7, <2>2, <2>3 DEF FollowedAt, Following, Phases
  <2>5. cmd[i] # "publish"
    BY <1>1, <1>2 DEF StepIs, Publishing, Phases
  <2> QED
    BY <1>1, <1>6, <1>7, <2>1, <2>4, <2>5 DEF StepIs, Unjournaled, Publishing
<1> QED
  BY <1>2, <1>5, <1>7, <1>8, OneMoves

-----------------------------------------------------------------------------
(* recover, commit and rollback read the journal, and follow it.           *)
LEMMA RecoverRecovers ==
    ASSUME IInv, IInv', RecoveryInv, NEW i \in Installers, Recover(i)
    PROVE  RecoveryInv'
<1>1. CASE Refuse(i)
  BY <1>1, RefuseRecovers
<1>2. CASE ~Refuse(i)
  <2>1. /\ cmd[i] = "recover" /\ at[i] = "start" /\ journal # None /\ journal.txn = txn[i]
        /\ Load(i, Resume(phase)[1], Resume(phase)[2], journal) /\ UNCHANGED Written
    BY <1>2 DEF Recover, Written, bootVars, journalVars, storeVars
  <2>2. Driving(i) /\ phase \in Phases
    BY <2>1, PastBegin DEF IInv, Types
  <2>3. PICK c \in {"recover", "shell", "commit"}, a \in Places :
          /\ Load(i, c, a, journal)
          /\ a = "own" => phase = "journaled"
          /\ a = "manifest" => phase = "owned"
          /\ a = "prepared" => phase = "manifested"
          /\ a = "place" => phase = "prepared"
          /\ a = "adopt" => phase = "release_ready"
          /\ a = "start" => phase = "adopted"
          /\ a = "finish" => phase \in {"switched", "committed"}
          /\ a \in {"own", "manifest", "prepared", "place", "adopt", "start", "finish"}
    BY <2>1, <2>2 DEF Resume, Phases, Places, Uses
  <2>4. ASSUME cmd'[i] = c, at'[i] = a, plan'[i] = journal, txn' = txn
        PROVE  StepIs(i)'
    BY <2>1, <2>3, <2>4 DEF StepIs, PhaseAt, PreparedAt, FollowedAt, Unjournaled, Publishing,
       Preparing, Following, Written
  <2> QED
    BY <2>1, <2>2, <2>3, <2>4, GoesOn
<1> QED
  BY <1>1, <1>2

(* commit goes on from a journal whose payload is in its place.            *)
LEMMA CommitRecovers ==
    ASSUME IInv, IInv', RecoveryInv, NEW i \in Installers, Commit(i)
    PROVE  RecoveryInv'
<1>1. CASE Refuse(i)
  BY <1>1, RefuseRecovers
<1>2. CASE ~Refuse(i)
  <2>1. /\ cmd[i] = "commit" /\ at[i] = "start"
        /\ Load(i, "commit", IF phase = "release_ready" THEN "adopted" ELSE "baseline", journal)
        /\ UNCHANGED Written
    BY <1>2 DEF Commit, Written, bootVars, journalVars, storeVars
  <2>2. Driving(i) /\ StepIs(i)
    BY <2>1, PastBegin, AtWork
  <2>3. PICK a \in {"adopted", "baseline"} :
          /\ Load(i, "commit", a, journal)
          /\ a = "adopted" => phase = "release_ready"
          /\ a = "baseline" => phase = "adopted"
    BY <2>1, <2>2 DEF StepIs
  <2>4. ASSUME cmd'[i] = "commit", at'[i] = a, plan'[i] = journal, txn' = txn
        PROVE  StepIs(i)'
    BY <2>1, <2>3, <2>4 DEF StepIs, PhaseAt, PreparedAt, FollowedAt, Unjournaled, Publishing,
       Preparing, Following, Written
  <2> QED
    BY <2>1, <2>2, <2>3, <2>4, GoesOn
<1> QED
  BY <1>1, <1>2

(* The checks of commit change nothing.                                    *)
LEMMA ChecksRecover ==
    ASSUME IInv, IInv', RecoveryInv, NEW i \in Installers, CheckBaseline(i) \/ VerifyInstalled(i)
    PROVE  RecoveryInv'
<1>1. CASE Refuse(i)
  BY <1>1, RefuseRecovers
<1>2. CASE ~Refuse(i)
  <2>1. PICK a \in {"swap", "finish"} :
          /\ Load(i, cmd[i], a, plan[i]) /\ UNCHANGED Written
          /\ at[i] = IF a = "swap" THEN "baseline" ELSE "verify"
    BY <1>2 DEF CheckBaseline, VerifyInstalled, Written, bootVars, journalVars, storeVars,
       Continue, Goto
  <2>2. Driving(i) /\ StepIs(i)
    BY <2>1, PastBegin, AtWork DEF Beginning
  <2>3. /\ cmd[i] # "publish" /\ journal = plan[i]
        /\ phase = IF a = "swap" THEN "adopted" ELSE "committed"
    BY <2>1, <2>2 DEF StepIs, PhaseAt, FollowedAt, Following, Publishing
  <2>4. ASSUME cmd'[i] = cmd[i], at'[i] = a, plan'[i] = plan[i], txn' = txn
        PROVE  StepIs(i)'
    BY <2>1, <2>3, <2>4 DEF StepIs, PhaseAt, PreparedAt, FollowedAt, Unjournaled, Publishing,
       Preparing, Following, Written
  <2> QED
    BY <2>1, <2>2, <2>4, GoesOn
<1> QED
  BY <1>1, <1>2

(* The pointer switches to what the journal says.                          *)
LEMMA SwitchRecovers ==
    ASSUME IInv, IInv', RecoveryInv, NEW i \in Installers, SwitchPointer(i)
    PROVE  RecoveryInv'
<1>1. /\ at[i] = "swap" /\ pointer' = Switched(plan[i]) /\ Load(i, cmd[i], "switched", plan[i])
      /\ UNCHANGED <<candidate, layout, journal, phase, ownership, receipt, manifest, release>>
  BY DEF SwitchPointer, SwitchedPointer, Continue, Goto, bootVars, journalVars
<1>2. Driving(i) /\ StepIs(i) /\ JournalIs
  BY <1>1, PastBegin, AtWork DEF Beginning
<1>3. /\ cmd'[i] = cmd[i] /\ at'[i] = "switched" /\ plan'[i] = plan[i]
      /\ \A j \in Installers \ {i} : cmd'[j] = cmd[j] /\ at'[j] = at[j]
  BY <1>1, Moves
<1>4. cmd[i] # "publish" /\ journal = plan[i] /\ phase = "adopted"
  BY <1>1, <1>2 DEF StepIs, PhaseAt, FollowedAt, Following, Publishing
<1>5. pointer' = Switched(plan'[i])
  BY <1>1, <1>3
<1>6. StepIs(i)'
  BY <1>1, <1>3, <1>4, <1>5 DEF StepIs, PhaseAt, PreparedAt, FollowedAt, Unjournaled, Publishing,
     Preparing, Following
<1>7. JournalIs'
  BY <1>1, <1>2, <1>4 DEF JournalIs, Installed, Baseline, Switched, Canonical, Verified,
     VerifiedRelease, Late
<1> QED
  BY <1>2, <1>3, <1>6, <1>7, OneMoves

(* Where the journal is removed, and where there was none.                 *)
LEMMA UnlinkRecovers ==
    ASSUME IInv, IInv', RecoveryInv, NEW i \in Installers,
           UnlinkJournal(i) \/ UnlinkOwnership(i) \/ Rollback(i) \/ SwapBack(i) \/ Abort(i)
    PROVE  RecoveryInv'
<1>1. CASE Refuse(i)
  BY <1>1, RefuseRecovers
<1>2. CASE ~Refuse(i)
  <2>1. /\ \/ at[i] \in {"finish", "unown", "swapback"}
           \/ cmd[i] \in {"rollback", "abort"} /\ at[i] = "start"
        /\ at[i] \in {"unown", "swapback"} => journal' = journal
        /\ at[i] \notin {"unown", "swapback"} => journal' = None
    BY <1>2 DEF UnlinkJournal, UnlinkOwnership, Rollback, SwapBack, Abort, journalVars
  <2>2. PICK a \in {"unown", "release", "swapback"}, p \in {plan[i], plan'[i]} :
          Load(i, cmd[i], a, p)
    <3>1. ASSUME Rollback(i)
          PROVE  \E p : p = plan'[i] /\ Load(i, cmd[i], "swapback", p)
      <4>1. Load(i, "rollback", "swapback",
                 [txn |-> txn[i], payload |-> pointer.previous, base |-> pointer])
        BY <1>2, <3>1 DEF Rollback
      <4> QED
        BY <3>1, <4>1, Moves DEF Rollback
    <3> QED
      BY <1>2, <3>1 DEF UnlinkJournal, UnlinkOwnership, SwapBack, Abort, Continue, Goto
  <2>3. Driving(i) /\ StepIs(i)
    BY <2>1, PastBegin, AtWork DEF Beginning
  <2>4. /\ cmd'[i] = cmd[i] /\ at'[i] = a
        /\ \A j \in Installers \ {i} : cmd'[j] = cmd[j] /\ at'[j] = at[j]
    BY <2>2, Moves
  <2>5. journal' = None /\ cmd[i] # "publish"
    BY <2>1, <2>3 DEF StepIs, Unjournaled, Publishing
  <2>6. StepIs(i)'
    BY <2>4, <2>5 DEF StepIs, PhaseAt, PreparedAt, FollowedAt, Preparing, Following
  <2> QED
    BY <2>3, <2>4, <2>5, <2>6, NothingPending
<1> QED
  BY <1>1, <1>2

-----------------------------------------------------------------------------
(* Runs that start, and the lock.                                          *)
LEMMA StartsRecover ==
    ASSUME IInv, IInv', RecoveryInv, NEW i \in Installers, Fresh(i),
           cmd[i] = "off", cmd' = [cmd EXCEPT ![i] = "begin"], at' = at, plan' = plan,
           \A j \in Installers \ {i} : txn'[j] = txn[j], ownership' = ownership \ {i},
           UNCHANGED <<candidate, layout, journal, phase, receipt, manifest, release, pointer>>
    PROVE  RecoveryInv'
<1>1. JournalIs'
  BY DEF RecoveryInv, JournalIs, Fresh, Installed, Baseline, Switched, Staged, Placeable,
     Canonical, Verified, VerifiedRelease
<1>2. StepIs(i)'
  <2>1. ~Driving(i)' /\ Located(i)'
    BY DEF Driving, IInv, Locking, Types
  <2> QED
    BY <2>1, IdleSaysNothing
<1>3. ASSUME NEW j \in Installers \ {i}
      PROVE  StepIs(j)'
  <2>1. StepIs(j)
    BY DEF RecoveryInv
  <2>2. /\ cmd'[j] = cmd[j] /\ at'[j] = at[j] /\ plan'[j] = plan[j] /\ txn'[j] = txn[j]
        /\ txn[j] # i
    BY DEF IInv, Types, Fresh
  <2>3. PhaseAt(j)' /\ PreparedAt(j)'
    BY <2>1, <2>2 DEF StepIs, PhaseAt, PreparedAt, Installed, Staged, Verified, VerifiedRelease
  <2>4. FollowedAt(j)'
    BY <2>1, <2>2 DEF StepIs, FollowedAt, Canonical, Verified, VerifiedRelease, Switched
  <2> QED
    BY <2>1, <2>2, <2>3, <2>4 DEF StepIs
<1> QED
  BY <1>1, <1>2, <1>3 DEF RecoveryInv

(* While a run takes the lock, no run is past begin.                       *)
LEMMA NobodySaysAnything ==
    ASSUME IInv', \A j \in Installers : ~Driving(j)', JournalIs'
    PROVE  RecoveryInv'
<1>1. ASSUME NEW j \in Installers
      PROVE  StepIs(j)'
  BY IdleSaysNothing DEF IInv, Locking
<1> QED
  BY <1>1 DEF RecoveryInv

(* While a lock is taken over, the journal and its candidate stay.         *)
LEMMA BeginRecovers ==
    ASSUME IInv, IInv', RecoveryInv, NEW i \in Installers,
           BeginFree(i) \/ BeginStale(i) \/ UnlinkStaleOwner(i) \/ RemoveStaleLock(i)
    PROVE  RecoveryInv'
<1>1. at'[i] \in Beginning
  BY DEF BeginFree, BeginStale, UnlinkStaleOwner, RemoveStaleLock, Continue, Goto, Load, IInv,
     Types, Beginning
<1>2. \A j \in Installers : ~Driving(j)'
  BY <1>1 DEF IInv, Locking, Located, LockIs, Busy, Beginning
<1>3. /\ UNCHANGED <<layout, journal, phase, ownership, receipt, manifest, release, pointer>>
      /\ journal # None => UNCHANGED candidate
  BY DEF BeginFree, BeginStale, UnlinkStaleOwner, RemoveStaleLock, bootVars, journalVars,
     storeVars, Reaped
<1>4. JournalIs'
  <2>1. CASE journal = None
    BY <1>3, <2>1 DEF JournalIs
  <2>2. CASE journal # None
    BY <1>3, <2>2, FilesStay DEF RecoveryInv, Written
  <2> QED
    BY <2>1, <2>2
<1> QED
  BY <1>2, <1>4, NobodySaysAnything

(* The lock is taken, and a stale pending layout goes.                     *)
LEMMA AcquireRecovers ==
    ASSUME IInv, IInv', FileTypes, RecoveryInv, NEW i \in Installers, Acquire(i)
    PROVE  RecoveryInv'
<1>1. /\ at[i] = "acquire"
      /\ \/ End(i) /\ UNCHANGED layout
         \/ /\ AfterBegin(i)
            /\ layout' = IF Installed THEN Committed(layout) ELSE layout
      /\ UNCHANGED <<candidate, journal, phase, ownership, receipt, manifest, release, pointer>>
  BY DEF Acquire, journalVars, storeVars
<1>2. cmd[i] = "begin" /\ \A j \in Installers : ~Driving(j)
  BY <1>1 DEF IInv, Locking, Located, LockIs, Busy, Beginning
<1>3. JournalIs'
  <2>1. CASE UNCHANGED layout
    BY <1>1, <2>1, FilesStay DEF RecoveryInv, Written
  <2>2. CASE layout' = Committed(layout) /\ Installed
    <3>1. layout' \in Layout /\ layout'.state = "ready"
      BY <2>2 DEF FileTypes, Installed, Committed, Layout
    <3>2. Installed'
      BY <3>1, AbsenceAssumption DEF Installed
    <3> QED
      BY <1>1, <3>2 DEF RecoveryInv, JournalIs, Baseline, Switched, Staged, Placeable,
         Canonical, Verified, VerifiedRelease
  <2> QED
    BY <1>1, <2>1, <2>2
<1>4. ASSUME NEW j \in Installers \ {i}
      PROVE  StepIs(j)'
  <2>1. cmd'[j] = cmd[j] /\ at'[j] = at[j]
    BY <1>1 DEF End, AfterBegin, Goto, Load, IInv, Types
  <2>2. ~Driving(j)' /\ Located(j)'
    BY <1>2, <2>1 DEF Driving, IInv, Locking
  <2> QED
    BY <2>2, IdleSaysNothing
<1>5. StepIs(i)'
  <2>1. CASE End(i)
    BY <2>1, IdleSaysNothing DEF End, Driving, IInv, Locking, Types
  <2>2. CASE AfterBegin(i)
    <3>1. PICK c \in {"rollback", "uninstall", "recover", "shell"}, a \in {"start", "release", "mkdir"} :
            /\ Load(i, c, a, plan[i]) /\ (a = "mkdir" => c = "shell" /\ ~(Installed /\ journal # None))
      BY <2>2 DEF AfterBegin, Goto
    <3>2. a = "mkdir" => journal = None
      BY <3>1 DEF RecoveryInv, JournalIs
    <3>3. cmd'[i] = c /\ at'[i] = a
      BY <3>1, Moves
    <3> QED
      BY <1>1, <3>1, <3>2, <3>3 DEF StepIs, PhaseAt, PreparedAt, FollowedAt, Unjournaled,
         Publishing, Preparing, Following
  <2> QED
    BY <1>1, <2>1, <2>2
<1> QED
  BY <1>3, <1>4, <1>5 DEF RecoveryInv

(* The lock is given up.                                                   *)
LEMMA UnlockRecovers ==
    ASSUME IInv, IInv', RecoveryInv, NEW i \in Installers, ReleaseLock(i) \/ RemoveLock(i)
    PROVE  RecoveryInv'
<1>1. \/ at[i] \in {"release", "unlock"} /\ UNCHANGED Written
      \/ Refuse(i)
  BY DEF ReleaseLock, RemoveLock, Written, bootVars, journalVars, storeVars
<1>2. CASE Refuse(i)
  BY <1>2, RefuseRecovers
<1>3. CASE ~Refuse(i)
  <2>1. Driving(i) /\ StepIs(i)
    BY <1>1, <1>3, PastBegin, AtWork DEF Beginning
  <2>2. cmd[i] # "publish"
    BY <1>1, <1>3, <2>1 DEF StepIs, Publishing
  <2>3. CASE End(i)
    BY <1>1, <1>3, <2>3, Ends
  <2>4. ASSUME NEW a \in {"unlock", "sweep"}, Load(i, cmd[i], a, plan[i])
        PROVE  RecoveryInv'
    <3>1. ASSUME cmd'[i] = cmd[i], at'[i] = a
          PROVE  StepIs(i)'
      BY <2>2, <3>1 DEF StepIs, PhaseAt, PreparedAt, FollowedAt, Unjournaled, Publishing,
         Preparing, Following
    <3> QED
      BY <1>1, <1>3, <2>1, <2>4, <3>1, GoesOn
  <2> QED
    BY <1>3, <2>3, <2>4 DEF ReleaseLock, RemoveLock, Continue, Goto
<1> QED
  BY <1>2, <1>3

-----------------------------------------------------------------------------
(* Every step of an installer.                                             *)
LEMMA StepRecovers ==
    ASSUME IInv, IInv', FileTypes, RecoveryInv, NEW i \in Installers, Step(i)
    PROVE  RecoveryInv'
<1>1. CASE LockStep(i)
  BY <1>1, RefuseRecovers, BeginRecovers, AcquireRecovers, UnlockRecovers
     DEF LockStep, BeginRefused
<1>2. CASE ShellStep(i)
  BY <1>2, ShellRecovers
<1>3. CASE PrepareStep(i)
  BY <1>3, RefuseRecovers, PublicationRecovers, PrepareRecovers, DiscardRecovers,
     ReceiptRecovers, OwnRecovers, ManifestRecovers, PlacingRecovers
     DEF PrepareStep, PublishRefused
<1>4. CASE WriteJournal(i)
  BY <1>4, JournalWritesRecover
<1>5. CASE SwitchStep(i)
  BY <1>5, RecoverRecovers, PlacingRecovers, CommitRecovers, ChecksRecover, SwitchRecovers,
     UnlinkRecovers
     DEF SwitchStep
<1> QED
  BY <1>1, <1>2, <1>3, <1>4, <1>5 DEF Step

(* What the invariant says of a journal is what recover and commit ask     *)
(* for.                                                                    *)
LEMMA WhatIsLeftIsRecoverable ==
    ASSUME Types, JournalIs
    PROVE  JournalIsRecoverable
<1> SUFFICES ASSUME journal # None
             PROVE  Recoverable(journal)
  BY DEF JournalIsRecoverable
<1>1. phase \in Phases /\ journal \in Plan /\ journal.payload # None
  BY AbsenceAssumption DEF Types, Plan
<1>2. JournalReadable /\ Baseline(journal)
  BY DEF JournalIs, JournalReadable
<1>3. CASE phase \in {"journaled", "owned", "manifested"}
  <2>1. Staged(journal)
    BY <1>3 DEF JournalIs
  <2> QED
    BY <1>1, <1>2, <1>3, <2>1 DEF Recoverable, LocationsOwned, Resumable, Staged
<1>4. CASE phase = "prepared"
  <2>1. Placeable(journal)
    BY <1>4 DEF JournalIs
  <2> QED
    BY <1>1, <1>2, <1>4, <2>1 DEF Recoverable, LocationsOwned, Resumable, Placeable
<1>5. CASE phase \in Late
  <2>1. Canonical(journal) /\ (phase \in {"switched", "committed"} => pointer = Switched(journal))
    BY <1>5 DEF JournalIs
  <2>2. LocationsOwned(journal)
    BY <2>1 DEF LocationsOwned, Canonical, Verified, VerifiedRelease
  <2>3. Verified(journal.payload)
    BY <2>1 DEF Canonical
  <2>4. phase \in {"switched", "committed"} => pointer.current = journal.payload
    BY <2>1 DEF Switched
  <2>5. Resumable(journal)
    BY <1>5, <2>1, <2>3, <2>4 DEF Resumable, Late
  <2> QED
    BY <1>2, <2>2, <2>5 DEF Recoverable
<1> QED
  BY <1>1, <1>3, <1>4, <1>5 DEF Phases, Late

-----------------------------------------------------------------------------
(* How an installer or a rollback goes on past begin: in a command and at  *)
(* a place of its own, with a plan that has its id.                        *)
RunCommands == Commands \ {"off", "begin", "uninstall"}
RunPlaces == Places \ (Beginning \cup {"unlock", "journal", "next", "before", "remove", "after",
                                       "sweep"})
Proceeds(i) ==
    /\ Driving(i) /\ cmd[i] # "uninstall"
    /\ \/ End(i)
       \/ \E c \in RunCommands, a \in RunPlaces : \E p :
             Load(i, c, a, p) /\ (p = plan[i] \/ p.txn = txn[i])

(* A place that only installs and rollbacks have.                          *)
LEMMA OwnPlace ==
    ASSUME IInv, Shapes, NEW i \in Installers,
           \/ at[i] \in Uses \cup Publishing \cup {"mkdir", "clone", "compare", "readopt"}
           \/ at[i] = "start" /\ cmd[i] \in RunCommands
    PROVE  Driving(i) /\ cmd[i] \in RunCommands
<1>1. Driving(i)
  BY PastBegin DEF Beginning, Uses, Phases, Publishing, RunCommands
<1>2. cmd[i] \in Commands \ {"off", "begin"}
  BY <1>1, DriverIsAlone DEF IInv, Types
<1>3. cmd[i] # "uninstall"
  BY DEF Shapes, Shape, Uses, Phases, Publishing, RunCommands
<1> QED
  BY <1>1, <1>2, <1>3 DEF RunCommands

(* A run that keeps its plan keeps the id in it.                           *)
LEMMA ProceedsWithPlan ==
    ASSUME NEW i \in Installers, Driving(i), cmd[i] \in RunCommands,
           NEW c \in RunCommands, NEW a \in RunPlaces, Load(i, c, a, plan[i])
    PROVE  Proceeds(i)
  BY DEF Proceeds, RunCommands

(* The steps of the shell, of prepare and the publication, of a journal    *)
(* write,                                                                  *)
LEMMA ShellProceeds ==
    ASSUME IInv, Shapes, NEW i \in Installers, ShellStep(i)
    PROVE  Proceeds(i)
<1>1. /\ cmd[i] = "shell" /\ at[i] \in {"mkdir", "clone", "compare", "readopt", "adopt"}
      /\ End(i) \/ \E c \in {"shell", "publish", "abort", "commit"},
                      a \in {"clone", "compare", "readopt", "start"} : Load(i, c, a, plan[i])
  BY DEF ShellStep, MakeCandidate, Clone, Compare, Adopt, Continue, Goto, Refuse
<1>2. Driving(i) /\ cmd[i] \in RunCommands
  BY <1>1, OwnPlace DEF Uses
<1>3. {"clone", "compare", "readopt", "start"} \subseteq RunPlaces
  BY DEF RunPlaces, Places, Beginning
<1>4. {"shell", "publish", "abort", "commit"} \subseteq RunCommands
  BY DEF RunCommands, Commands
<1> QED
  BY <1>1, <1>2, <1>3, <1>4, ProceedsWithPlan DEF Proceeds, RunCommands

LEMMA PrepareProceeds ==
    ASSUME IInv, Shapes, NEW i \in Installers, PrepareStep(i)
    PROVE  Proceeds(i)
<1>1. /\ \/ at[i] \in Publishing \cup {"retain", "receipt", "own", "reown", "manifest", "move"}
         \/ at[i] = "start" /\ cmd[i] \in {"publish", "prepare"}
  BY DEF PrepareStep, Publish, PublishRefused, CheckPublication, SaveOriginal, PlaceAsset,
     RecordPublication, FinishPublication, Prepare, DiscardCandidate, WriteReceipt, Own,
     WriteManifest, MoveCandidate, Publishing
<1>2. Driving(i) /\ cmd[i] \in RunCommands
  BY <1>1, OwnPlace DEF Uses, RunCommands, Commands
<1>3. CASE End(i)
  BY <1>2, <1>3 DEF Proceeds, RunCommands
<1>4. CASE Prepare(i) /\ ~End(i)
  <2>1. PICK a \in {"retain", "receipt"}, q \in {release[want[i]], candidate[txn[i]]} :
          Load(i, "prepare", a, [txn |-> txn[i], payload |-> q, base |-> pointer])
    BY <1>4 DEF Prepare, Refuse
  <2> QED
    BY <1>2, <2>1 DEF Proceeds, RunCommands, RunPlaces, Places, Beginning, Uses, Commands
<1>5. CASE ~Prepare(i) /\ ~End(i)
  <2>1. \E c \in {cmd[i], "prepare"},
           a \in Publishing \cup {"start", "reown", "journaled", "owned", "release_ready",
                                  "manifested"} : Load(i, c, a, plan[i])
    BY <1>5 DEF PrepareStep, Publish, PublishRefused, CheckPublication, SaveOriginal, PlaceAsset,
       RecordPublication, FinishPublication, DiscardCandidate, WriteReceipt, Own,
       WriteManifest, MoveCandidate, Continue, Goto, Refuse, Publishing
  <2>2. Publishing \cup {"start", "reown", "journaled", "owned", "release_ready", "manifested"}
          \subseteq RunPlaces
    BY DEF RunPlaces, Places, Beginning, Publishing, Uses, Phases
  <2> QED
    BY <1>2, <2>1, <2>2, ProceedsWithPlan DEF RunCommands, Commands
<1> QED
  BY <1>3, <1>4, <1>5

LEMMA JournalProceeds ==
    ASSUME IInv, Shapes, NEW i \in Installers, WriteJournal(i)
    PROVE  Proceeds(i)
<1>1. Driving(i) /\ cmd[i] \in RunCommands
  BY OwnPlace DEF WriteJournal, Uses
<1>2. \E c \in {cmd[i], "shell"}, a \in Uses : Load(i, c, a, plan[i])
  BY DEF WriteJournal, AfterJournal, Phases, Continue, Goto, Uses
<1>3. Uses \subseteq RunPlaces
  BY DEF RunPlaces, Places, Beginning, Uses, Phases
<1> QED
  BY <1>1, <1>2, <1>3, ProceedsWithPlan DEF RunCommands, Commands

(* and those of recover, commit, abort and rollback.                       *)
LEMMA SwitchProceeds ==
    ASSUME IInv, Shapes, NEW i \in Installers, SwitchStep(i)
    PROVE  Proceeds(i)
<1>1. \/ at[i] \in {"place", "baseline", "swap", "verify", "finish", "unown", "swapback"}
      \/ at[i] = "start" /\ cmd[i] \in {"recover", "commit", "rollback", "abort"}
  BY DEF SwitchStep, Recover, PlaceCandidate, Commit, CheckBaseline, SwitchPointer,
     VerifyInstalled, UnlinkJournal, UnlinkOwnership, Rollback, SwapBack, Abort
<1>2. Driving(i) /\ cmd[i] \in RunCommands
  BY <1>1, OwnPlace DEF Uses, RunCommands, Commands
<1>3. CASE End(i)
  BY <1>2, <1>3 DEF Proceeds, RunCommands
<1>4. CASE (Recover(i) \/ Commit(i)) /\ ~End(i)
  <2>1. \E c \in {"recover", "shell", "commit"}, a \in Uses \cup {"start"} :
          Load(i, c, a, journal) /\ journal.txn = txn[i]
    <3>1. CASE Recover(i)
      <4>1. /\ phase \in Phases /\ journal.txn = txn[i]
            /\ Load(i, Resume(phase)[1], Resume(phase)[2], journal)
        BY <1>4, <3>1 DEF Recover, Refuse, IInv, Types
      <4>2. PICK c \in {"recover", "shell", "commit"}, a \in Uses \cup {"start"} :
              Resume(phase)[1] = c /\ Resume(phase)[2] = a
        BY <4>1 DEF Resume, Phases, Uses
      <4> QED
        BY <4>1, <4>2
    <3>2. CASE Commit(i)
      BY <1>4, <3>2 DEF Commit, Refuse, Uses, Phases
    <3> QED
      BY <1>4, <3>1, <3>2
  <2>2. Uses \cup {"start"} \subseteq RunPlaces
    BY DEF RunPlaces, Places, Beginning, Uses, Phases
  <2>3. {"recover", "shell", "commit"} \subseteq RunCommands
    BY DEF RunCommands, Commands
  <2> QED
    <3>1. cmd[i] # "uninstall"
      BY <1>2 DEF RunCommands
    <3>2. \E c \in RunCommands, a \in RunPlaces : Load(i, c, a, journal) /\ journal.txn = txn[i]
      BY <2>1, <2>2, <2>3
    <3> QED
      BY <1>2, <3>1, <3>2, Zenon DEF Proceeds
<1>5. CASE Rollback(i) /\ ~End(i)
  <2>1. /\ Load(i, "rollback", "swapback",
                [txn |-> txn[i], payload |-> pointer.previous, base |-> pointer])
        /\ pointer.previous # None
    BY <1>5 DEF Rollback, Refuse
  <2> QED
    BY <1>2, <2>1 DEF Proceeds, RunCommands, RunPlaces, Places, Beginning, Uses, Commands
<1>6. CASE ~(Recover(i) \/ Commit(i) \/ Rollback(i)) /\ ~End(i)
  <2>1. \E a \in {"release_ready", "swap", "switched", "finish", "unown", "release"} :
          Load(i, cmd[i], a, plan[i])
    BY <1>6 DEF SwitchStep, PlaceCandidate, CheckBaseline, SwitchPointer, VerifyInstalled,
       UnlinkJournal, UnlinkOwnership, SwapBack, Abort, Continue, Goto, Refuse
  <2>2. {"release_ready", "swap", "switched", "finish", "unown", "release"} \subseteq RunPlaces
    BY DEF RunPlaces, Places, Beginning, Uses, Phases
  <2> QED
    BY <1>2, <2>1, <2>2, ProceedsWithPlan
<1> QED
  BY <1>3, <1>4, <1>5, <1>6

-----------------------------------------------------------------------------
(* Shapes is inductive.                                                    *)
LEMMA EndShapes ==
    ASSUME IInv, Shapes, NEW i \in Installers, End(i)
    PROVE  Shapes'
<1>1. resumed' \in [Installers -> Installers \cup {None}]
  BY DEF End, Shapes
<1>2. Shape(i)'
  <2>1. /\ cmd'[i] = "off" /\ at'[i] = "start" /\ txn'[i] = i /\ resumed'[i] = None
        /\ plan'[i] = None /\ want'[i] = None
    BY DEF End, IInv, Types, Shapes
  <2> QED
    BY <2>1, NoneAssumption DEF Shape, Busy
<1>3. ASSUME NEW j \in Installers \ {i}
      PROVE  Shape(j)'
  <2>1. /\ cmd'[j] = cmd[j] /\ at'[j] = at[j] /\ txn'[j] = txn[j] /\ resumed'[j] = resumed[j]
        /\ plan'[j] = plan[j] /\ want'[j] = want[j]
    BY DEF End, IInv, Types, Shapes
  <2> QED
    BY <2>1 DEF Shapes, Shape, Busy
<1> QED
  BY <1>1, <1>2, <1>3 DEF Shapes

(* A run goes on in a command and at a place of its kind.                  *)
LEMMA LoadShapes ==
    ASSUME IInv, Shapes, NEW i \in Installers, Busy(i), NEW c, NEW a, NEW p, Load(i, c, a, p),
           p = plan[i] \/ p.txn = txn[i],
           \/ cmd[i] # "uninstall" /\ c \in RunCommands /\ a \in RunPlaces
           \/ /\ cmd[i] = "uninstall" /\ c = cmd[i]
              /\ a \in {"journal", "next", "before", "remove", "after", "release", "unlock", "sweep"}
           \/ c = cmd[i] /\ a = "unlock"
    PROVE  Shapes'
<1>1. /\ cmd'[i] = c /\ at'[i] = a /\ plan'[i] = p
      /\ UNCHANGED <<want, txn, resumed>>
      /\ \A j \in Installers \ {i} : cmd'[j] = cmd[j] /\ at'[j] = at[j] /\ plan'[j] = plan[j]
  BY DEF Load, IInv, Types
<1>2. Shape(i)'
  <2>1. c \notin {"off", "begin"}
    BY DEF Busy, RunCommands
  <2> QED
    BY <1>1, <2>1 DEF Shapes, Shape, Busy, RunCommands, RunPlaces
<1>3. ASSUME NEW j \in Installers \ {i}
      PROVE  Shape(j)'
  BY <1>1 DEF Shapes, Shape, Busy
<1> QED
  BY <1>1, <1>2, <1>3 DEF Shapes

LEMMA ProceedsShapes ==
    ASSUME IInv, Shapes, NEW i \in Installers, Proceeds(i)
    PROVE  Shapes'
<1>1. Busy(i)
  BY DEF Proceeds, Driving, Busy
<1> QED
  BY <1>1, EndShapes, LoadShapes DEF Proceeds

(* A run takes or gives up the lock.                                       *)
LEMMA LockShapes ==
    ASSUME IInv, Shapes, NEW i \in Installers, LockStep(i)
    PROVE  Shapes'
<1>1. CASE End(i)
  BY <1>1, EndShapes
<1>2. CASE ~End(i) /\ (BeginFree(i) \/ BeginStale(i) \/ UnlinkStaleOwner(i) \/ RemoveStaleLock(i))
  <2>1. /\ cmd[i] = "begin" /\ cmd'[i] = "begin" /\ at'[i] \in Beginning /\ plan'[i] = plan[i]
        /\ want' = want /\ resumed' = resumed
        /\ \A j \in Installers \ {i} : /\ cmd'[j] = cmd[j] /\ at'[j] = at[j] /\ txn'[j] = txn[j]
                                       /\ plan'[j] = plan[j]
    BY <1>2 DEF BeginFree, BeginStale, UnlinkStaleOwner, RemoveStaleLock, Continue, Goto, Load,
       IInv, Types, Locking, Located, Busy, Beginning
  <2>2. Shape(i)'
    BY <2>1 DEF Shapes, Shape, Busy, Beginning
  <2>3. ASSUME NEW j \in Installers \ {i}
        PROVE  Shape(j)'
    BY <2>1 DEF Shapes, Shape, Busy
  <2> QED
    BY <2>1, <2>2, <2>3 DEF Shapes
<1>3. CASE Acquire(i) /\ ~End(i)
  <2>1. at[i] = "acquire" /\ AfterBegin(i)
    BY <1>3 DEF Acquire
  <2>2. cmd[i] = "begin" /\ plan[i] = None
    BY <2>1 DEF IInv, Locking, Located, Busy, Beginning, Shapes, Shape
  <2>3. PICK c \in {"rollback", "uninstall", "recover", "shell"}, a \in {"start", "release", "mkdir"} :
          /\ Load(i, c, a, plan[i]) /\ (c = "uninstall" <=> want[i] = Removal)
          /\ c = "uninstall" => a # "mkdir"
    BY <2>1, NoneAssumption DEF AfterBegin, Operation, Goto
  <2>4. /\ cmd'[i] = c /\ at'[i] = a /\ plan'[i] = None
        /\ UNCHANGED <<want, txn, resumed>>
        /\ \A j \in Installers \ {i} : cmd'[j] = cmd[j] /\ at'[j] = at[j] /\ plan'[j] = plan[j]
    BY <2>2, <2>3 DEF Load, IInv, Types
  <2>5. Shape(i)'
    BY <2>2, <2>3, <2>4 DEF Shapes, Shape, Busy
  <2>6. ASSUME NEW j \in Installers \ {i}
        PROVE  Shape(j)'
    BY <2>4 DEF Shapes, Shape, Busy
  <2> QED
    BY <2>4, <2>5, <2>6 DEF Shapes
<1>4. CASE (ReleaseLock(i) \/ RemoveLock(i)) /\ ~End(i)
  <2>1. Busy(i)
    BY <1>4 DEF ReleaseLock, RemoveLock, Refuse, IInv, Locking, Located, Busy, Beginning
  <2>2. \/ Load(i, cmd[i], "unlock", plan[i])
        \/ cmd[i] = "uninstall" /\ Load(i, cmd[i], "sweep", plan[i])
    BY <1>4 DEF ReleaseLock, RemoveLock, Continue, Goto, Refuse
  <2> QED
    BY <2>1, <2>2, LoadShapes
<1> QED
  BY <1>1, <1>2, <1>3, <1>4 DEF LockStep, BeginRefused, Refuse

(* A run begins.                                                           *)
LEMMA StartShapes ==
    ASSUME IInv, Shapes, NEW i \in Installers,
           \/ \E c \in Commits \cup {None} : Start(i, c)
           \/ \E r \in Installers \cup {None} : StartRemoval(i, r)
    PROVE  Shapes'
<1>1. cmd[i] = "off" /\ at[i] = "start" /\ txn[i] = i /\ resumed[i] = None /\ plan[i] = None
  BY DEF Start, StartRemoval, IInv, Locking, Located, Shapes, Shape, Types, Busy
<1>2. /\ cmd'[i] = "begin" /\ at' = at /\ plan' = plan
      /\ \A j \in Installers \ {i} : /\ cmd'[j] = cmd[j] /\ txn'[j] = txn[j]
                                     /\ want'[j] = want[j] /\ resumed'[j] = resumed[j]
  BY DEF Start, StartRemoval, IInv, Types, Shapes
<1>3. /\ resumed' \in [Installers -> Installers \cup {None}]
      /\ resumed'[i] = None => txn'[i] = i
      /\ resumed'[i] # None => txn'[i] = resumed'[i] /\ want'[i] = Removal
  BY <1>1, NoneAssumption DEF Start, StartRemoval, IInv, Types, Shapes
<1>4. Shape(i)'
  BY <1>1, <1>2, <1>3 DEF Shape, Busy
<1>5. ASSUME NEW j \in Installers \ {i}
      PROVE  Shape(j)'
  BY <1>2 DEF Shapes, Shape, Busy
<1> QED
  BY <1>3, <1>4, <1>5 DEF Shapes

(* An uninstall goes on or ends.                                           *)
LEMMA RemovalShapes ==
    ASSUME IInv, Shapes, NEW i \in Installers, RemovalStep(i)
    PROVE  Shapes'
<1>1. CASE End(i)
  BY <1>1, EndShapes
<1>2. CASE ~End(i)
  <2>1. cmd[i] = "uninstall" /\ Busy(i)
    BY DEF RemovalStep, Busy
  <2>2. \E a \in {"journal", "next", "before", "remove", "after", "release", "sweep"} :
          Load(i, cmd[i], a, plan[i])
    BY <1>2, <2>1 DEF RemovalStep, FindJournal, PlanRemoval, JournalRemoval, RemovalRefused, Refuse,
       ProveRelease, CheckpointBefore, CheckpointAfter, RemoveRelease, RemoveMetadata,
       RemoveAsset, StageCapability, CleanUpCapability, CommitRemoval, SweepStaging, Continue, Goto
  <2> QED
    BY <2>1, <2>2, LoadShapes
<1> QED
  BY <1>1, <1>2

(* Runs that remove and runs that install stay apart, whatever happens.    *)
LEMMA ShapesHold == IInv /\ Shapes /\ [RemovalNext]_allVars => Shapes'
<1> SUFFICES ASSUME IInv, Shapes, [RemovalNext]_allVars
             PROVE  Shapes'
  OBVIOUS
<1>1. CASE UNCHANGED processVars
  BY <1>1 DEF processVars, Shapes, Shape, Busy
<1>2. CASE RemovalNext
  <2>1. PICK i \in Installers :
          \/ \E c \in Commits \cup {None} : Start(i, c)
          \/ \E r \in Installers \cup {None} : StartRemoval(i, r)
          \/ RunStep(i) \/ Interrupt(i) \/ Edit
    BY <1>2 DEF RemovalNext
  <2>2. CASE Step(i)
    BY <2>2, LockShapes, ShellProceeds, PrepareProceeds, JournalProceeds, SwitchProceeds,
       ProceedsShapes DEF Step
  <2>3. CASE ResumeRefused(i) \/ Stop(i) \/ CleanUpFails(i)
    BY <2>3, EndShapes DEF ResumeRefused, Refuse, Stop, CleanUpFails
  <2>4. CASE Edit
    BY <2>4, <1>1 DEF Edit
  <2> QED
    BY <2>1, <2>2, <2>3, <2>4, StartShapes, RemovalShapes DEF RunStep, Interrupt
<1> QED
  BY <1>1, <1>2 DEF allVars, vars

-----------------------------------------------------------------------------
(* The plan of an uninstall is a sequence of actions that has all that     *)
(* matters to a pending journal.                                           *)
LEMMA FunctionsAreSeqs ==
    ASSUME NEW S, NEW n \in Nat, NEW f \in [1..n -> S]
    PROVE  f \in Seq(S)
  BY SeqDef

(* A finite set can be listed.                                             *)
LEMMA SetToSeqIsASeq ==
    ASSUME NEW S, IsFiniteSet(S)
    PROVE  SetToSeq(S) \in Seq(S)
<1>1. Cardinality(S) \in Nat /\ ExistsBijection(1..Cardinality(S), S)
  BY FS_CardinalityType
<1>2. PICK f \in [1..Cardinality(S) -> S] : IsInjective(f)
  BY <1>1 DEF ExistsBijection, Bijection, Injection
<1>3. SetToSeq(S) \in [1..Cardinality(S) -> S]
  BY <1>2 DEF SetToSeq
<1> QED
  BY <1>1, <1>3, FunctionsAreSeqs

(* The actions of a list of files are a list of actions.                   *)
LEMMA ActionsAreASeq ==
    ASSUME NEW kind, NEW T, NEW s \in Seq(T),
           \A x \in T : [kind |-> kind, of |-> x] \in Action
    PROVE  Actions(kind, s) \in Seq(Action)
<1>1. Len(s) \in Nat /\ DOMAIN s = 1..Len(s) /\ \A n \in 1..Len(s) : s[n] \in T
  BY LenProperties, ElementOfSeq
<1>2. Actions(kind, s) \in [1..Len(s) -> Action]
  BY <1>1 DEF Actions
<1> QED
  BY <1>1, <1>2, FunctionsAreSeqs

Has(s, kind) == \E m \in 1..Len(s) : s[m].kind = kind

(* Two lists of actions make one, and none is lost.                        *)
LEMMA ConcatIsASeq ==
    ASSUME NEW s \in Seq(Action), NEW t \in Seq(Action)
    PROVE  /\ s \o t \in Seq(Action)
           /\ \A kind : Has(s, kind) \/ Has(t, kind) => Has(s \o t, kind)
<1>1. /\ s \o t \in Seq(Action) /\ Len(s \o t) = Len(s) + Len(t)
      /\ \A m \in 1..Len(s) + Len(t) :
            (s \o t)[m] = IF m <= Len(s) THEN s[m] ELSE t[m - Len(s)]
  BY ConcatProperties
<1>2. Len(s) \in Nat /\ Len(t) \in Nat
  BY LenProperties
<1>3. ASSUME NEW kind, NEW m \in 1..Len(s), s[m].kind = kind
      PROVE  Has(s \o t, kind)
  <2>1. m \in 1..Len(s \o t) /\ (s \o t)[m] = s[m]
    BY <1>1, <1>2, <1>3
  <2> QED
    BY <1>3, <2>1 DEF Has
<1>4. ASSUME NEW kind, NEW m \in 1..Len(t), t[m].kind = kind
      PROVE  Has(s \o t, kind)
  <2>1. m + Len(s) \in 1..Len(s \o t) /\ (s \o t)[m + Len(s)] = t[m]
    BY <1>1, <1>2, <1>4
  <2> QED
    BY <1>4, <2>1 DEF Has
<1> QED
  BY <1>1, <1>3, <1>4 DEF Has

(* A list of one action.                                                   *)
LEMMA OneAction ==
    ASSUME NEW kind \in {"stage", "pointer", "layout", "journal", "cleanup"}
    PROVE  Actions(kind, <<None>>) \in Seq(Action) /\ Has(Actions(kind, <<None>>), kind)
<1>1. <<None>> \in Seq({None}) /\ Len(<<None>>) = 1 /\ DOMAIN <<None>> = 1..1 /\ <<None>>[1] = None
  OBVIOUS
<1>2. Actions(kind, <<None>>) \in Seq(Action)
  BY <1>1, ActionsAreASeq DEF Action
<1>3. Actions(kind, <<None>>) = [n \in 1..1 |-> [kind |-> kind, of |-> <<None>>[n]]]
  BY <1>1 DEF Actions
<1>4. DOMAIN Actions(kind, <<None>>) = 1..1
  BY <1>3
<1>5. Len(Actions(kind, <<None>>)) = 1
  <2>1. DOMAIN Actions(kind, <<None>>) = 1..Len(Actions(kind, <<None>>))
        /\ Len(Actions(kind, <<None>>)) \in Nat
    BY <1>2, LenProperties
  <2> QED
    BY <1>4, <2>1
<1>6. Actions(kind, <<None>>)[1].kind = kind
  BY <1>3
<1> QED
  BY <1>2, <1>5, <1>6 DEF Has

(* The actions that remove a set of assets.                                *)
LEMMA AssetActionsAreASeq ==
    ASSUME NEW S \in SUBSET Assets
    PROVE  AssetActions(S) \in Seq(Action)
<1>1. IsFiniteSet(S \ Displaced) /\ IsFiniteSet(S \cap Displaced)
  BY FiniteAssumption, FS_Subset
<1>2. SetToSeq(S \ Displaced) \in Seq(S \ Displaced) /\ SetToSeq(S \cap Displaced) \in Seq(S \cap Displaced)
  BY <1>1, SetToSeqIsASeq
<1>3. Actions("asset", SetToSeq(S \ Displaced)) \in Seq(Action)
  BY <1>2, ActionsAreASeq DEF Action
<1>4. Actions("restore", SetToSeq(S \cap Displaced)) \in Seq(Action)
  BY <1>2, ActionsAreASeq DEF Action
<1> QED
  BY <1>3, <1>4, ConcatIsASeq DEF AssetActions

(* What is recorded of the releases, release by release.                   *)
LEMMA ManifestsAt ==
    ASSUME NEW T, NEW s \in Seq(T)
    PROVE  /\ Len(s) \in Nat /\ DOMAIN ManifestActions(s) = 1..2 * Len(s)
           /\ \A k \in 1..Len(s) :
                 /\ s[k] \in T
                 /\ 2 * k \in 1..2 * Len(s)
                 /\ ManifestActions(s)[2 * k - 1] = [kind |-> "manifest", of |-> s[k]]
                 /\ ManifestActions(s)[2 * k] = [kind |-> "receipt", of |-> s[k]]
           /\ \A n \in 1..2 * Len(s) : \E k \in 1..Len(s) : n = 2 * k - 1 \/ n = 2 * k
<1> DEFINE p == Len(s)
           m == ManifestActions(s)
<1>1. p \in Nat /\ \A k \in 1..p : s[k] \in T
  BY LenProperties, ElementOfSeq
<1>2. /\ DOMAIN m = 1..2 * p
      /\ \A n \in 1..2 * p : m[n] = [kind |-> IF n % 2 = 1 THEN "manifest" ELSE "receipt",
                                    of |-> s[(n + 1) \div 2]]
  BY DEF ManifestActions
<1> HIDE DEF p, m
<1>3. ASSUME NEW k \in 1..p
      PROVE  /\ 2 * k - 1 \in 1..2 * p /\ 2 * k \in 1..2 * p
             /\ (2 * k - 1) % 2 = 1 /\ (2 * k) % 2 # 1
             /\ (2 * k - 1 + 1) \div 2 = k /\ (2 * k + 1) \div 2 = k
  BY <1>1
<1>4. ASSUME NEW k \in 1..p
      PROVE  /\ m[2 * k - 1] = [kind |-> "manifest", of |-> s[k]]
             /\ m[2 * k] = [kind |-> "receipt", of |-> s[k]]
  BY <1>2, <1>3
<1>5. ASSUME NEW n \in 1..2 * p
      PROVE  \E k \in 1..p : n = 2 * k - 1 \/ n = 2 * k
  <2>1. /\ (n + 1) \div 2 \in 1..p
        /\ n = 2 * ((n + 1) \div 2) - 1 \/ n = 2 * ((n + 1) \div 2)
    BY <1>1
  <2> QED
    BY <2>1
<1> QED
  BY <1>1, <1>2, <1>3, <1>4, <1>5 DEF p, m

LEMMA ManifestsAreASeq ==
    ASSUME NEW T, NEW s \in Seq(T), NEW A,
           \A x \in T : [kind |-> "manifest", of |-> x] \in A /\ [kind |-> "receipt", of |-> x] \in A
    PROVE  ManifestActions(s) \in Seq(A) /\ Len(ManifestActions(s)) = 2 * Len(s)
<1> DEFINE p == Len(s)
           m == ManifestActions(s)
<1>1. /\ p \in Nat /\ DOMAIN m = 1..2 * p
      /\ \A k \in 1..p : m[2 * k - 1] \in A /\ m[2 * k] \in A
      /\ \A n \in 1..2 * p : \E k \in 1..p : n = 2 * k - 1 \/ n = 2 * k
  <2>1. /\ \A k \in 1..p : /\ s[k] \in T
                            /\ m[2 * k - 1] = [kind |-> "manifest", of |-> s[k]]
                            /\ m[2 * k] = [kind |-> "receipt", of |-> s[k]]
        /\ p \in Nat /\ DOMAIN m = 1..2 * p
        /\ \A n \in 1..2 * p : \E k \in 1..p : n = 2 * k - 1 \/ n = 2 * k
    BY ManifestsAt
  <2> HIDE DEF p, m
  <2> QED
    BY <2>1
<1>2. m = [n \in 1..2 * p |-> m[n]]
  BY DEF ManifestActions
<1> HIDE DEF p, m
<1>3. \A n \in 1..2 * p : m[n] \in A
  BY <1>1
<1>4. m \in [1..2 * p -> A] /\ 2 * p \in Nat
  BY <1>1, <1>2, <1>3
<1>5. m \in Seq(A)
  BY <1>4, FunctionsAreSeqs
<1>6. Len(m) \in Nat /\ DOMAIN m = 1..Len(m)
  BY <1>5, LenProperties
<1>7. Len(m) = 2 * p
  <2> DEFINE q == Len(m)
  <2>1. /\ q < 2 * p => 2 * p \in 1..2 * p /\ 2 * p \notin 1..q
        /\ 2 * p < q => q \in 1..q /\ q \notin 1..2 * p
    BY <1>1, <1>6
  <2> QED
    BY <1>1, <1>6, <2>1
<1> QED
  BY <1>5, <1>7 DEF p, m

(* A plan of an uninstall is a list of actions; it has the layout in it,   *)
(* and the journal there is.                                               *)
LEMMA RemovalPlanIsComplete ==
    /\ RemovalPlan \in Seq(Action)
    /\ Has(RemovalPlan, "layout")
    /\ journal # None => Has(RemovalPlan, "journal")
<1> DEFINE s1 == Actions("stage", <<None>>)
           s2 == Actions("release", ReleasesToRemove)
           s3 == ManifestActions(ReleasesToRemove)
           s4 == Actions("pointer", <<None>>)
           s5 == AssetActions(Owned \ Retained)
           s6 == Actions("layout", <<None>>)
           s7 == IF journal = None THEN <<>> ELSE Actions("journal", <<None>>)
           s8 == Actions("cleanup", <<None>>)
           s9 == AssetActions(Owned \cap Retained)
<1>1. /\ s1 \in Seq(Action) /\ s4 \in Seq(Action) /\ s6 \in Seq(Action) /\ s8 \in Seq(Action)
      /\ Has(s6, "layout")
  BY OneAction
<1>2. s7 \in Seq(Action) /\ (journal # None => Has(s7, "journal"))
  BY OneAction
<1>3. s2 \in Seq(Action) /\ s3 \in Seq(Action)
  <2> DEFINE R == {c \in Commits : release[c] # None}
  <2>1. IsFiniteSet(R)
    BY FiniteAssumption, FS_Subset
  <2>2. ReleasesToRemove \in Seq(R)
    BY <2>1, SetToSeqIsASeq DEF ReleasesToRemove
  <2>3. Actions("release", ReleasesToRemove) \in Seq(Action)
    BY <2>2, ActionsAreASeq DEF Action
  <2>4. ManifestActions(ReleasesToRemove) \in Seq(Action)
    BY <2>2, ManifestsAreASeq DEF Action
  <2> QED
    BY <2>3, <2>4
<1>4. s5 \in Seq(Action) /\ s9 \in Seq(Action)
  BY AssetActionsAreASeq DEF Owned
<1> HIDE DEF s1, s2, s3, s4, s5, s6, s7, s8, s9
<1>5. s1 \o s2 \in Seq(Action)
  BY <1>1, <1>3, ConcatIsASeq
<1>6. (s1 \o s2) \o s3 \in Seq(Action)
  BY <1>3, <1>5, ConcatIsASeq
<1>7. ((s1 \o s2) \o s3) \o s4 \in Seq(Action)
  BY <1>1, <1>6, ConcatIsASeq
<1>8. (((s1 \o s2) \o s3) \o s4) \o s5 \in Seq(Action)
  BY <1>4, <1>7, ConcatIsASeq
<1> DEFINE t6 == ((((s1 \o s2) \o s3) \o s4) \o s5) \o s6
           t7 == t6 \o s7
           t8 == t7 \o s8
           t9 == t8 \o s9
<1>9. t6 \in Seq(Action) /\ Has(t6, "layout")
  BY <1>1, <1>8, ConcatIsASeq
<1> HIDE DEF t6
<1>10. t7 \in Seq(Action) /\ Has(t7, "layout") /\ (journal # None => Has(t7, "journal"))
  BY <1>2, <1>9, ConcatIsASeq
<1> HIDE DEF t7
<1>11. t8 \in Seq(Action) /\ Has(t8, "layout") /\ (journal # None => Has(t8, "journal"))
  BY <1>1, <1>10, ConcatIsASeq
<1> HIDE DEF t8
<1>12. t9 \in Seq(Action) /\ Has(t9, "layout") /\ (journal # None => Has(t9, "journal"))
  BY <1>4, <1>11, ConcatIsASeq
<1>13. RemovalPlan = t9
  BY DEF RemovalPlan, s1, s2, s3, s4, s5, s6, s7, s8, s9, t6, t7, t8, t9
<1> QED
  BY <1>12, <1>13

-----------------------------------------------------------------------------
(* The types of the files, step by step of an installer.                   *)
Typed == FileTypes /\ \A i \in Installers : PublishingIs(i)
Finds(i) == at[i] \in {"next", "before", "remove", "after"} =>
    staging[txn[i]] = None \/ Journaled(txn[i])
FileVars == <<asset, backup, layout, release, receipt, staging>>

(* A run that is not past begin is not in a publication.                   *)
LEMMA NotPublishing ==
    ASSUME NEW i \in Installers, Located(i), ~Driving(i)
    PROVE  at[i] \notin Publishing
  BY DEF Located, Driving, Busy, Beginning, Publishing

(* Types stay when the files do,                                           *)
LEMMA UntouchedFilesTyped ==
    ASSUME Typed, NEW i \in Installers, UNCHANGED FileVars, at'[i] \notin Publishing,
           \A j \in Installers \ {i} : at'[j] = at[j]
    PROVE  Typed'
<1>1. FileTypes'
  BY DEF Typed, FileTypes, FileVars
<1>2. ASSUME NEW j \in Installers
      PROVE  PublishingIs(j)'
  BY DEF Typed, PublishingIs, FileVars, Publishing, Unsaved, Unpublished
<1> QED
  BY <1>1, <1>2 DEF Typed

(* and when the run that has the lock writes what has its type.            *)
LEMMA DrivenFilesTyped ==
    ASSUME IInv, IInv', NEW i \in Installers, Driving(i), FileTypes', PublishingIs(i)',
           \A j \in Installers \ {i} : at'[j] = at[j]
    PROVE  Typed'
<1>1. ASSUME NEW j \in Installers \ {i}
      PROVE  PublishingIs(j)'
  <2>1. ~Driving(j) /\ Located(j)
    BY DriverIsAlone DEF IInv, Locking
  <2>2. at'[j] \notin Publishing
    BY <2>1, NotPublishing
  <2> QED
    BY <2>2 DEF PublishingIs, Publishing
<1> QED
  BY <1>1 DEF Typed

(* What a publication reads has its type.                                  *)
LEMMA LayoutTyped ==
    ASSUME IInv, Typed, NEW i \in Installers, at[i] \in Publishing
    PROVE  /\ layout \in Layout /\ layout # None
           /\ at[i] = "saved" => (CHOOSE a \in Unsaved : TRUE) \in Assets
           /\ at[i] = "placed" => (CHOOSE a \in Unpublished : TRUE) \in Assets
           /\ Unsaved \subseteq Assets /\ Unpublished \subseteq Assets
  BY DEF Typed, FileTypes, PublishingIs, Unsaved, Unpublished

(* What a publication writes has its type,                                 *)
LEMMA PublicationTyped ==
    ASSUME IInv, IInv', Typed, NEW i \in Installers,
           \/ CheckPublication(i) \/ SaveOriginal(i) \/ PlaceAsset(i) \/ RecordPublication(i)
           \/ Publish(i) \/ FinishPublication(i)
    PROVE  Typed'
<1>0. /\ at[i] \in Publishing \/ (cmd[i] = "publish" /\ at[i] = "start")
      /\ \E c, a : Load(i, c, a, plan[i])
  BY DEF CheckPublication, SaveOriginal, PlaceAsset, RecordPublication, Publish,
     FinishPublication, Publishing, Continue, Goto
<1>1. UNCHANGED <<staging, release, receipt>> /\ \A j \in Installers \ {i} : at'[j] = at[j]
  <2>1. UNCHANGED <<staging, release, receipt>>
    BY DEF CheckPublication, SaveOriginal, PlaceAsset, RecordPublication, Publish,
       FinishPublication, bootVars, storeVars
  <2> QED
    BY <1>0, <2>1, Moves
<1>2. Driving(i)
  BY <1>0, PastBegin DEF Publishing, Beginning
<1> USE <1>1, DrivenFilesTyped, <1>2
<1>3. CASE Publish(i)
  <2>1. cmd[i] = "publish" /\ want[i] \in Commits
    BY <1>3, <1>2 DEF Publish, IInv, PlanIs
  <2>2. NewLayout(AssetsOf[want[i]]) \in Layout
    BY <2>1 DEF NewLayout, Layout, Contents, Typed, FileTypes
  <2>3. FileTypes' /\ (at'[i] = "check" => layout' # None) /\ at'[i] \in {"check", "start"}
    BY <1>3, <2>2, AbsenceAssumption DEF Publish, Typed, FileTypes, Continue, Goto, Load, IInv,
       Types, Installed
  <2> QED
    BY <2>3 DEF PublishingIs, Publishing
<1>4. CASE CheckPublication(i)
  <2>1. at[i] = "check" /\ at'[i] = "save" /\ UNCHANGED FileVars
    BY <1>4 DEF CheckPublication, Continue, Goto, Load, IInv, Types, bootVars, storeVars, FileVars
  <2>2. FileTypes' /\ layout' # None
    BY <2>1, LayoutTyped DEF Typed, FileTypes, FileVars, Publishing
  <2> QED
    BY <2>1, <2>2 DEF PublishingIs, Publishing
<1>5. CASE SaveOriginal(i)
  <2>1. /\ at[i] = "save" /\ at'[i] \in {"place_asset", "saved"} /\ UNCHANGED <<asset, layout>>
        /\ at'[i] = "saved" => Unsaved # {}
        /\ \/ backup' = backup
           \/ \E a \in Unsaved : backup' = [backup EXCEPT ![a] = layout.original[a]]
    BY <1>5 DEF SaveOriginal, Continue, Goto, Load, IInv, Types
  <2>2. layout \in Layout /\ layout # None /\ Unsaved \subseteq Assets
    BY <2>1, LayoutTyped DEF Publishing
  <2>3. \A a \in Assets : layout.original[a] \in Contents \cup {None}
    BY <2>2 DEF Layout
  <2>4. backup' \in [Assets -> Contents \cup {None}]
    BY <2>1, <2>2, <2>3 DEF Typed, FileTypes
  <2>5. FileTypes'
    BY <2>1, <2>4 DEF Typed, FileTypes
  <2>6. PublishingIs(i)'
    BY <2>1, <2>2 DEF PublishingIs, Unsaved
  <2> QED
    BY <2>5, <2>6
<1>6. CASE PlaceAsset(i)
  <2>1. /\ at[i] = "place_asset" /\ at'[i] \in {"publishing", "placed"} /\ UNCHANGED <<backup, layout>>
        /\ at'[i] = "placed" => Unpublished # {}
        /\ \/ asset' = asset
           \/ \E a \in Assets : asset' = [asset EXCEPT ![a] = layout.assets]
    BY <1>6 DEF PlaceAsset, Unpublished, Continue, Goto, Load, IInv, Types
  <2>2. layout # None /\ layout.assets \in Contents
    BY <2>1, LayoutTyped DEF Publishing, Layout
  <2>3. FileTypes'
    BY <2>1, <2>2 DEF Typed, FileTypes
  <2>4. PublishingIs(i)'
    BY <2>1, <2>2 DEF PublishingIs, Unpublished
  <2> QED
    BY <2>3, <2>4
<1>7. CASE RecordPublication(i)
  <2>1. /\ at[i] \in {"saved", "placed"} /\ at'[i] \in {"save", "place_asset"}
        /\ UNCHANGED <<asset, backup>>
        /\ layout' = IF at[i] = "saved"
                     THEN [layout EXCEPT !.saved = @ \cup {CHOOSE a \in Unsaved : TRUE}]
                     ELSE [layout EXCEPT !.published = @ \cup {CHOOSE a \in Unpublished : TRUE}]
    <3>1. PICK a \in {"save", "place_asset"} : Load(i, cmd[i], a, plan[i])
      BY <1>7 DEF RecordPublication, Continue, Goto
    <3>2. at'[i] \in {"save", "place_asset"}
      BY <3>1, Moves
    <3> QED
      BY <1>7, <3>2 DEF RecordPublication
  <2>2. /\ layout \in Layout
        /\ at[i] = "saved" => (CHOOSE a \in Unsaved : TRUE) \in Assets
        /\ at[i] = "placed" => (CHOOSE a \in Unpublished : TRUE) \in Assets
    BY <2>1, LayoutTyped DEF Publishing
  <2>3. layout' \in Layout
    BY <2>1, <2>2 DEF Layout
  <2>4. FileTypes' /\ layout' # None
    BY <2>1, <2>3, AbsenceAssumption DEF Typed, FileTypes
  <2> QED
    BY <2>1, <2>4 DEF PublishingIs
<1>8. CASE FinishPublication(i)
  <2>1. /\ at[i] \in {"publishing", "unpend"} /\ at'[i] \in {"unpend", "start"}
        /\ UNCHANGED <<asset, backup>>
        /\ layout' \in {[layout EXCEPT !.state = "both"], Committed(layout)}
    BY <1>8 DEF FinishPublication, Continue, Goto, Load, IInv, Types
  <2>2. layout \in Layout
    BY <2>1, LayoutTyped DEF Publishing
  <2>3. layout' \in Layout
    BY <2>1, <2>2 DEF Layout, Committed
  <2>4. FileTypes' /\ layout' # None
    BY <2>1, <2>3, AbsenceAssumption DEF Typed, FileTypes
  <2> QED
    BY <2>1, <2>4 DEF PublishingIs
<1> QED
  BY <1>3, <1>4, <1>5, <1>6, <1>7, <1>8

(* and so has what a candidate becomes.                                    *)
LEMMA CandidatesTyped ==
    ASSUME IInv, IInv', Typed, NEW i \in Installers,
           MoveCandidate(i) \/ PlaceCandidate(i) \/ WriteReceipt(i)
    PROVE  Typed'
<1>1. at[i] \in {"move", "place", "receipt"}
  BY DEF MoveCandidate, PlaceCandidate, WriteReceipt
<1>2. Driving(i) /\ PlanIs(i)
  BY <1>1, PastBegin DEF Beginning, IInv
<1>3. /\ plan[i].payload \in Payload /\ plan[i].payload \in Release
      /\ candidate[txn[i]] # None => candidate[txn[i]] \in Release
  BY <1>1, <1>2 DEF PlanIs, Uses, Plan, Payload, Release, Candidate, IInv, Types
<1>4. /\ at'[i] \notin Publishing /\ \A j \in Installers \ {i} : at'[j] = at[j]
      /\ UNCHANGED <<asset, backup, layout, staging>>
      /\ \/ UNCHANGED <<release, receipt>>
         \/ /\ receipt' = receipt
            /\ \E c \in Commits : release' = [release EXCEPT ![c] = plan[i].payload]
         \/ /\ receipt' = receipt /\ candidate[txn[i]] # None
            /\ \E c \in Commits : release' = [release EXCEPT ![c] = candidate[txn[i]]]
         \/ /\ release' = release
            /\ \E c \in Commits : receipt' = [receipt EXCEPT ![c] = plan[i].payload]
  <2>1. CASE MoveCandidate(i)
    BY <1>3, <2>1 DEF MoveCandidate, Refuse, End, Continue, Goto, Load, IInv, Types, bootVars,
       storeVars, Publishing, Payload
  <2>2. CASE PlaceCandidate(i)
    <3>1. plan[i].payload.commit \in Commits
      BY <1>3 DEF Payload
    <3>2. /\ receipt' = receipt
          /\ release' \in {release, [release EXCEPT ![plan[i].payload.commit] = plan[i].payload]}
      BY <2>2 DEF PlaceCandidate, Refuse, bootVars, storeVars
    <3>3. /\ at'[i] \notin Publishing /\ \A j \in Installers \ {i} : at'[j] = at[j]
          /\ UNCHANGED <<asset, backup, layout, staging>>
      <4>1. \E c \in {"release_ready", "start"} : at' = [at EXCEPT ![i] = c]
        BY <2>2 DEF PlaceCandidate, Refuse, End, Continue, Goto, Load
      <4>2. UNCHANGED <<asset, backup, layout, staging>>
        BY <2>2 DEF PlaceCandidate, Refuse, bootVars
      <4> QED
        BY <4>1, <4>2 DEF IInv, Types, Publishing
    <3> QED
      BY <3>1, <3>2, <3>3
  <2>3. CASE WriteReceipt(i)
    BY <1>3, <2>3 DEF WriteReceipt, Refuse, End, Continue, Goto, Load, IInv, Types, bootVars,
       storeVars, Publishing, Payload
  <2> QED
    BY <2>1, <2>2, <2>3
<1>5. FileTypes'
  BY <1>3, <1>4 DEF Typed, FileTypes
<1> QED
  BY <1>2, <1>4, <1>5, DrivenFilesTyped DEF PublishingIs, Publishing

(* Every step of an installer keeps the types of the files.                *)
LEMMA StepTyped ==
    ASSUME IInv, IInv', Typed, NEW i \in Installers, Step(i)
    PROVE  Typed'
<1>1. CASE \E c, a, p : Load(i, c, a, p) /\ a \notin Publishing /\ UNCHANGED FileVars
  <2>1. at'[i] \notin Publishing /\ \A j \in Installers \ {i} : at'[j] = at[j]
    BY <1>1, Moves
  <2> QED
    BY <1>1, <2>1, UntouchedFilesTyped
<1>2. CASE End(i) /\ UNCHANGED FileVars
  <2>1. at'[i] \notin Publishing /\ \A j \in Installers \ {i} : at'[j] = at[j]
    BY <1>2 DEF End, IInv, Types, Publishing
  <2> QED
    BY <1>2, <2>1, UntouchedFilesTyped
<1> USE DEF bootVars, storeVars, FileVars
<1>3. CASE Refuse(i)
  BY <1>3, <1>2 DEF Refuse
<1>4. CASE LockStep(i) /\ ~Acquire(i)
  <2>1. CASE BeginStale(i)
    <3>1. at'[i] \notin Publishing /\ \A j \in Installers \ {i} : at'[j] = at[j]
      BY <2>1 DEF BeginStale, IInv, Types, Publishing
    <3> QED
      BY <2>1, <3>1, UntouchedFilesTyped DEF BeginStale
  <2> QED
    BY <1>1, <1>2, <1>3, <1>4, <2>1 DEF LockStep, BeginRefused, BeginFree, UnlinkStaleOwner,
       RemoveStaleLock, ReleaseLock, RemoveLock, Continue, Goto, Publishing
<1>5. CASE Acquire(i)
  <2>1. /\ at[i] = "acquire" /\ at'[i] \notin Publishing
        /\ \A j \in Installers \ {i} : at'[j] = at[j]
        /\ UNCHANGED <<asset, backup, staging, release, receipt>>
        /\ layout' = layout \/ (Installed /\ layout' = Committed(layout))
    BY <1>5 DEF Acquire, AfterBegin, Goto, Load, End, IInv, Types, Publishing
  <2>2. \A j \in Installers : ~Driving(j)
    BY <2>1 DEF IInv, Locking, Located, LockIs, Busy, Beginning
  <2>3. FileTypes'
    BY <2>1 DEF Typed, FileTypes, Installed, Committed, Layout
  <2>4. ASSUME NEW j \in Installers
        PROVE  PublishingIs(j)'
    <3>1. at'[j] \notin Publishing
      BY <2>1, <2>2, NotPublishing DEF IInv, Locking
    <3> QED
      BY <3>1 DEF PublishingIs, Publishing
  <2> QED
    BY <2>3, <2>4 DEF Typed
<1>6. CASE ShellStep(i)
  <2>1. Refuse(i) \/ \E c \in Commands, a \in {"clone", "compare", "readopt", "start"} :
                         Load(i, c, a, plan[i]) /\ UNCHANGED FileVars
    BY <1>6 DEF ShellStep, MakeCandidate, Clone, Compare, Adopt, Continue, Goto, Commands
  <2> QED
    BY <1>1, <1>3, <2>1 DEF Publishing
<1>7. CASE Prepare(i) \/ DiscardCandidate(i) \/ Own(i) \/ WriteManifest(i)
  <2>1. Refuse(i) \/ \E c, a, p : /\ Load(i, c, a, p) /\ UNCHANGED FileVars
                                  /\ a \in {"retain", "receipt", "reown", "owned", "release_ready",
                                            "manifested"}
    <3>1. CASE Prepare(i) /\ ~Refuse(i)
      BY <3>1 DEF Prepare
    <3>2. CASE ~Prepare(i)
      BY <1>7, <3>2 DEF DiscardCandidate, Own, WriteManifest, Continue, Goto
    <3> QED
      BY <3>1, <3>2
  <2> QED
    BY <1>1, <1>3, <2>1 DEF Publishing
<1>8. CASE PrepareStep(i)
  BY <1>3, <1>7, <1>8, PublicationTyped, CandidatesTyped DEF PrepareStep, PublishRefused
<1>9. CASE WriteJournal(i)
  BY <1>1, <1>9 DEF WriteJournal, AfterJournal, Phases, Continue, Goto, Publishing
<1>10. CASE Recover(i)
  <2>1. CASE ~Refuse(i)
    <3>1. Resume(phase)[2] \notin Publishing
      BY DEF Resume, IInv, Types, Phases, Publishing
    <3> QED
      BY <1>1, <1>10, <2>1, <3>1 DEF Recover
  <2> QED
    BY <1>3, <2>1
<1>11. CASE SwitchStep(i) /\ ~PlaceCandidate(i) /\ ~Recover(i)
  <2>1. Refuse(i) \/ \E c, a, p : /\ Load(i, c, a, p) /\ UNCHANGED FileVars
                                  /\ a \in {"adopted", "baseline", "swap", "switched", "finish",
                                            "unown", "swapback", "release"}
    <3>1. CASE Commit(i) /\ ~Refuse(i)
      BY <3>1 DEF Commit
    <3>2. CASE Rollback(i) /\ ~Refuse(i)
      BY <3>2 DEF Rollback
    <3>3. CASE ~Commit(i) /\ ~Rollback(i)
      BY <1>11, <3>3 DEF SwitchStep, CheckBaseline, SwitchPointer, VerifyInstalled,
         UnlinkJournal, UnlinkOwnership, SwapBack, Abort, Continue, Goto
    <3> QED
      BY <3>1, <3>2, <3>3
  <2> QED
    BY <1>1, <1>3, <2>1 DEF Publishing
<1>12. CASE SwitchStep(i)
  BY <1>10, <1>11, <1>12, CandidatesTyped
<1> QED
  BY <1>4, <1>5, <1>6, <1>8, <1>9, <1>12 DEF Step

-----------------------------------------------------------------------------
(* The types of the files, step by step of an uninstall.                   *)
LEMMA DirectoryTyped ==
    ASSUME NEW s \in Recovery
    PROVE  /\ s.journal # None => s.journal \in Progress /\ s.journal.done \in Nat
           /\ s.plan \in Seq(Action) /\ Len(s.plan) \in Nat
           /\ \A n \in 1..Len(s.plan) : s.plan[n] \in Action
           /\ [s EXCEPT !.whole = FALSE] \in Recovery
           /\ \A k \in {"part", "skills"} : [s EXCEPT !.skills = k] \in Recovery
           /\ \A c \in Commits : [s EXCEPT !.proofs = @ \cup {c}] \in Recovery
           /\ \A w \in Witness, j \in Progress : [s EXCEPT !.was = w, !.journal = j] \in Recovery
           /\ s.journal # None =>
                 /\ [s EXCEPT !.journal.begun = TRUE] \in Recovery
                 /\ [s EXCEPT !.journal.begun = FALSE, !.journal.done = @ + 1] \in Recovery
                 /\ [s EXCEPT !.journal.committed = TRUE] \in Recovery
<1>1. s.journal # None => s.journal \in Progress /\ s.journal.done \in Nat
  BY DEF Recovery, Progress
<1>2. s.plan \in Seq(Action) /\ Len(s.plan) \in Nat /\ \A n \in 1..Len(s.plan) : s.plan[n] \in Action
  BY LenProperties, ElementOfSeq DEF Recovery
<1>3. /\ [s EXCEPT !.whole = FALSE] \in Recovery
      /\ \A k \in {"part", "skills"} : [s EXCEPT !.skills = k] \in Recovery
      /\ \A w \in Witness, j \in Progress : [s EXCEPT !.was = w, !.journal = j] \in Recovery
  BY DEF Recovery
<1>4. \A c \in Commits : [s EXCEPT !.proofs = @ \cup {c}] \in Recovery
  BY DEF Recovery
<1>5. ASSUME NEW j \in Progress
      PROVE  [s EXCEPT !.journal = j] \in Recovery
  BY DEF Recovery
<1>6. ASSUME s.journal # None
      PROVE  /\ [s.journal EXCEPT !.begun = TRUE] \in Progress
             /\ [s.journal EXCEPT !.begun = FALSE, !.done = @ + 1] \in Progress
             /\ [s.journal EXCEPT !.committed = TRUE] \in Progress
  <2>1. s.journal \in Progress /\ s.journal.done + 1 \in Nat
    BY <1>1, <1>6
  <2>2. ASSUME NEW q \in Progress, NEW n \in Nat
        PROVE  /\ [q EXCEPT !.begun = TRUE] \in Progress
               /\ [q EXCEPT !.begun = FALSE, !.done = n] \in Progress
               /\ [q EXCEPT !.committed = TRUE] \in Progress
    BY DEF Progress
  <2> QED
    BY <2>1, <2>2
<1>7. /\ [s EXCEPT !.journal.begun = TRUE] = [s EXCEPT !.journal = [s.journal EXCEPT !.begun = TRUE]]
      /\ [s EXCEPT !.journal.begun = FALSE, !.journal.done = @ + 1]
            = [s EXCEPT !.journal = [s.journal EXCEPT !.begun = FALSE, !.done = @ + 1]]
      /\ [s EXCEPT !.journal.committed = TRUE]
            = [s EXCEPT !.journal = [s.journal EXCEPT !.committed = TRUE]]
  BY DEF Recovery
<1> QED
  BY <1>1, <1>2, <1>3, <1>4, <1>5, <1>6, <1>7

(* The evidence an uninstall records has its type.                         *)
LEMMA EvidenceTyped == IInv /\ FileTypes => Evidence \in Witness
  BY DEF IInv, Types, FileTypes, Evidence, Witness

(* The lines of a removal that is under way.                               *)
LEMMA Underway ==
    ASSUME FileTypes, NEW t \in Installers, Journaled(t)
    PROVE  /\ staging[t] \in Recovery /\ staging[t].journal \in Progress
           /\ staging[t].journal.done \in Nat /\ Len(staging[t].plan) \in Nat
  BY DirectoryTyped DEF Journaled, FileTypes

(* What the invariant says of a run that is in its uninstall.              *)
LEMMA AtRemoval ==
    ASSUME IInv, Shapes, RemovalInv, NEW i \in Installers, RemovalStep(i)
    PROVE  /\ RemovalAt(i) /\ Typed /\ txn[i] \in Installers /\ cmd[i] = "uninstall"
           /\ staging[txn[i]] # None => staging[txn[i]] \in Recovery
           /\ \A j \in Installers : RemovalInv => Progressing(j)
  BY DEF RemovalStep, RemovalInv, Typed, FileTypes, IInv, Types

(* The current action is one, of a commit or of an asset.                  *)
LEMMA CurrentIs ==
    ASSUME FileTypes, NEW i \in Installers, txn[i] \in Installers, Journaled(txn[i]),
           staging[txn[i]].journal.done < Len(staging[txn[i]].plan)
    PROVE  /\ Current(i) \in Action
           /\ Current(i).kind \in {"release", "manifest", "receipt"} => Current(i).of \in Commits
           /\ Current(i).kind \in {"asset", "restore"} => Current(i).of \in Assets
<1>1. /\ staging[txn[i]] \in Recovery /\ staging[txn[i]].journal.done \in Nat
      /\ Len(staging[txn[i]].plan) \in Nat
  BY Underway
<1>2. Current(i) \in Action
  <2>1. staging[txn[i]].journal.done + 1 \in 1..Len(staging[txn[i]].plan)
    BY <1>1
  <2>2. \A n \in 1..Len(staging[txn[i]].plan) : staging[txn[i]].plan[n] \in Action
    BY <1>1, DirectoryTyped
  <2> QED
    BY <2>1, <2>2 DEF Current
<1> QED
  BY <1>2 DEF Action

LEMMA RemovalFinds ==
    ASSUME IInv, Shapes, RemovalInv
    PROVE  Typed /\ \A i \in Installers : Finds(i)
<1> SUFFICES ASSUME NEW i \in Installers, at[i] \in {"next", "before", "remove", "after"}
             PROVE  staging[txn[i]] = None \/ Journaled(txn[i])
  BY DEF RemovalInv, Typed, Finds
<1>1. cmd[i] = "uninstall"
  BY DEF Shapes, Shape, IInv, Locking, Located, Busy, Beginning
<1> QED
  BY <1>1 DEF RemovalInv, RemovalAt, Unfinished

(* What a step writes into its recovery directory.                         *)
LEMMA DirectoryStaysTyped ==
    ASSUME IInv, Typed, NEW i \in Installers, Finds(i), RemovalStep(i)
    PROVE  staging' \in [Installers -> Recovery \cup {None}]
<1>1. /\ FileTypes /\ txn[i] \in Installers
      /\ staging[txn[i]] # None => staging[txn[i]] \in Recovery
  BY DEF IInv, Types, Typed, FileTypes
<1>2. ASSUME NEW s \in Recovery \cup {None}, Stage(i, s)
      PROVE  staging' \in [Installers -> Recovery \cup {None}]
  BY <1>1, <1>2 DEF Stage, FileTypes
<1>3. CASE UNCHANGED staging
  BY <1>1, <1>3 DEF FileTypes
<1>4. CASE PlanRemoval(i)
  <2>1. [plan |-> RemovalPlan, journal |-> None, was |-> None, proofs |-> {}, skills |-> None,
         whole |-> TRUE] \in Recovery
    BY RemovalPlanIsComplete DEF Recovery
  <2> QED
    BY <1>2, <1>4, <2>1 DEF PlanRemoval
<1>5. CASE JournalRemoval(i)
  <2>1. staging[txn[i]] \in Recovery
    BY <1>1, <1>5 DEF JournalRemoval, Intact
  <2>2. Evidence \in Witness /\ [done |-> 0, begun |-> FALSE, committed |-> FALSE] \in Progress
    BY <1>1, EvidenceTyped DEF Progress
  <2> QED
    BY <1>2, <1>5, <2>1, <2>2, DirectoryTyped DEF JournalRemoval
<1>6. ASSUME Journaled(txn[i])
      PROVE  staging[txn[i]] \in Recovery /\ staging[txn[i]].journal # None
  BY <1>1, <1>6, Underway DEF Journaled
<1>7. ASSUME HasNext(i), at[i] \in {"next", "remove"}
      PROVE  Journaled(txn[i])
  BY <1>7 DEF HasNext, Intact, Finds
<1>8. CASE ProveRelease(i)
  <2>1. HasNext(i) /\ at[i] = "next" /\ Current(i).kind = "release"
    BY <1>8 DEF ProveRelease, OfRemoval, Checked, ToProve
  <2>2. Journaled(txn[i]) /\ Current(i).of \in Commits
    BY <1>1, <1>7, <2>1, CurrentIs DEF HasNext
  <2> QED
    BY <1>2, <1>6, <1>8, <2>2, DirectoryTyped DEF ProveRelease
<1>9. CASE CheckpointBefore(i)
  <2>1. Journaled(txn[i])
    BY <1>9 DEF CheckpointBefore, OfRemoval, Checked, HasNext, Intact, Finds
  <2> QED
    BY <1>2, <1>6, <1>9, <2>1, DirectoryTyped DEF CheckpointBefore
<1>10. CASE CheckpointAfter(i)
  <2>1. Journaled(txn[i])
    BY <1>10 DEF CheckpointAfter, OfRemoval, Intact, Finds
  <2> QED
    BY <1>2, <1>6, <1>10, <2>1, DirectoryTyped DEF CheckpointAfter
<1>11. CASE StageCapability(i)
  <2>1. Journaled(txn[i])
    BY <1>7, <1>11 DEF StageCapability, Removes, OfRemoval, Checked
  <2>2. PICK k \in {"part", "skills"} : Stage(i, [staging[txn[i]] EXCEPT !.skills = k])
    BY <1>11 DEF StageCapability
  <2> QED
    BY <1>2, <1>6, <2>1, <2>2, DirectoryTyped
<1>12. CASE CommitRemoval(i)
  <2>1. Journaled(txn[i])
    BY <1>12 DEF CommitRemoval, OfRemoval, Intact, Finds
  <2> QED
    BY <1>2, <1>6, <1>12, <2>1, DirectoryTyped DEF CommitRemoval
<1>13. CASE SweepStaging(i)
  <2>1. \/ Stage(i, None)
        \/ Intact(txn[i]) /\ Stage(i, [staging[txn[i]] EXCEPT !.whole = FALSE])
    BY <1>13 DEF SweepStaging
  <2> QED
    BY <1>1, <1>2, <2>1, DirectoryTyped DEF Intact
<1>14. CASE RemovalRefused(i) \/ FindJournal(i) \/ RemoveRelease(i) \/ RemoveMetadata(i)
            \/ RemoveAsset(i) \/ CleanUpCapability(i)
  <2>1. UNCHANGED staging
    BY <1>14 DEF RemovalRefused, Refuse, FindJournal, RemoveRelease, RemoveMetadata, RemoveAsset,
       CleanUpCapability, bootVars
  <2> QED
    BY <1>3, <2>1
<1> QED
  BY <1>4, <1>5, <1>8, <1>9, <1>10, <1>11, <1>12, <1>13, <1>14 DEF RemovalStep

(* Where an uninstall goes.                                                *)
LEMMA RemovalMoves ==
    ASSUME IInv, NEW i \in Installers, RemovalStep(i)
    PROVE  \/ End(i) /\ (SweepStaging(i) \/ Refuse(i))
           \/ \E a \in {"journal", "next", "before", "remove", "after", "release", "sweep"} :
                 Load(i, "uninstall", a, plan[i]) /\ (a = "sweep" <=> at[i] = "sweep")
<1>1. cmd[i] = "uninstall"
  BY DEF RemovalStep
<1> QED
  BY <1>1 DEF RemovalStep, FindJournal, PlanRemoval, JournalRemoval, RemovalRefused, Refuse,
     ProveRelease, CheckpointBefore, CheckpointAfter, RemoveRelease, RemoveMetadata,
     RemoveAsset, StageCapability, CleanUpCapability, CommitRemoval, SweepStaging, Continue, Goto,
     OfRemoval, Removes

(* Every step of an uninstall keeps the types of the files.                *)
LEMMA RemovalTyped ==
    ASSUME IInv, IInv', Typed, NEW i \in Installers, Finds(i), RemovalStep(i)
    PROVE  Typed'
<1>1. Typed /\ txn[i] \in Installers /\ cmd[i] = "uninstall"
  BY DEF RemovalStep, IInv, Types
<1>2. staging' \in [Installers -> Recovery \cup {None}]
  BY DirectoryStaysTyped
<1>3. at'[i] \notin Publishing /\ \A j \in Installers \ {i} : at'[j] = at[j]
  <2>1. CASE End(i)
    BY <2>1 DEF End, IInv, Types, Publishing
  <2>2. CASE ~End(i)
    <3>1. PICK a \in {"journal", "next", "before", "remove", "after", "release", "sweep"} :
             Load(i, "uninstall", a, plan[i])
      BY <2>2, RemovalMoves
    <3> QED
      BY <3>1, Moves DEF Publishing
  <2> QED
    BY <2>1, <2>2
<1>4. ASSUME FileTypes', layout' = layout
      PROVE  Typed'
  <2>1. ASSUME NEW j \in Installers
        PROVE  PublishingIs(j)'
    BY <1>1, <1>3, <1>4 DEF Typed, PublishingIs, Publishing, Unsaved, Unpublished
  <2> QED
    BY <1>4, <2>1 DEF Typed
<1>5. CASE UNCHANGED <<asset, backup, layout, release, receipt>>
  BY <1>1, <1>2, <1>4, <1>5 DEF Typed, FileTypes
<1>6. ASSUME Checked(i), at[i] = "remove"
      PROVE  /\ Current(i).kind = "release" => Current(i).of \in Commits
             /\ Current(i).kind \in {"asset", "restore"} => Current(i).of \in Assets
  BY <1>1, <1>6, CurrentIs DEF Checked, HasNext, Intact, Finds, Typed
<1>7. CASE RemoveRelease(i)
  <2>1. /\ UNCHANGED <<asset, backup, layout, receipt>>
        /\ \/ release' = [release EXCEPT ![Current(i).of] = None]
           \/ release[Current(i).of] # None /\ release' = [release EXCEPT ![Current(i).of] = Rubble(@)]
    BY <1>7 DEF RemoveRelease, bootVars
  <2>2. \A r \in Release : Rubble(r) \in Release
    BY DEF Rubble, Release
  <2>3. release' \in [Commits -> Release \cup {None}]
    BY <1>1, <2>1, <2>2 DEF Typed, FileTypes
  <2> QED
    BY <1>1, <1>2, <1>4, <2>1, <2>3 DEF Typed, FileTypes
<1>8. CASE RemoveMetadata(i)
  <2>1. /\ UNCHANGED <<asset, backup, release>>
        /\ layout' \in {layout, None}
        /\ receipt' = receipt \/ receipt' = [receipt EXCEPT ![Current(i).of] = None]
        /\ at[i] = "remove"
    BY <1>8 DEF RemoveMetadata, Removes, OfRemoval
  <2>2. FileTypes'
    BY <1>1, <1>2, <2>1 DEF Typed, FileTypes
  <2>3. Driving(i)
    BY <1>1, <2>1 DEF Driving
  <2> QED
    BY <1>3, <2>2, <2>3, DrivenFilesTyped DEF PublishingIs, Publishing
<1>9. CASE RemoveAsset(i)
  <2>1. /\ UNCHANGED <<layout, release, receipt>> /\ Current(i).of \in Assets
        /\ \/ asset' = asset
           \/ \E f \in {None, backup[Current(i).of]} : asset' = [asset EXCEPT ![Current(i).of] = f]
        /\ backup' = backup \/ backup' = [backup EXCEPT ![Current(i).of] = None]
    BY <1>6, <1>9 DEF RemoveAsset, Removes, OfRemoval, storeVars
  <2>2. FileTypes'
    BY <1>1, <1>2, <2>1 DEF Typed, FileTypes
  <2> QED
    BY <1>4, <2>1, <2>2
<1> QED
  BY <1>5, <1>7, <1>8, <1>9 DEF RemovalStep, FindJournal, PlanRemoval, JournalRemoval, RemovalRefused,
     Refuse, ProveRelease, CheckpointBefore, CheckpointAfter, StageCapability, CleanUpCapability,
     CommitRemoval, SweepStaging, Kept, Others, bootVars, storeVars

(* What the user writes has its type.                                      *)
LEMMA EditTyped ==
    ASSUME Typed, Edit
    PROVE  Typed'
<1>1. /\ UNCHANGED <<layout, backup, staging, receipt, at>>
      /\ \/ release' = release /\ \E a \in Assets : asset' = [asset EXCEPT ![a] = "edited"]
         \/ UNCHANGED <<asset, release>>
         \/ /\ asset' = asset
            /\ \E c \in Commits : release[c] # None /\ release' = [release EXCEPT ![c] = Edited(@)]
  BY DEF Edit, processVars
<1>2. asset' \in [Assets -> Contents \cup {None}]
  BY <1>1 DEF Typed, FileTypes, Contents
<1>3. \A r \in Release : Edited(r) \in Release
  BY DEF Edited, Release
<1>4. release' \in [Commits -> Release \cup {None}]
  BY <1>1, <1>3 DEF Typed, FileTypes
<1>5. FileTypes'
  BY <1>1, <1>2, <1>4 DEF Typed, FileTypes
<1> QED
  BY <1>1, <1>5 DEF Typed, PublishingIs, Publishing, Unsaved, Unpublished

(* The types of the files are an invariant.                                *)
LEMMA TypedHolds ==
    ASSUME IInv, IInv', Typed, \A i \in Installers : Finds(i), [RemovalNext]_allVars
    PROVE  Typed'
<1>1. Typed
  OBVIOUS
<1>2. CASE UNCHANGED <<FileVars, at>>
  BY <1>1, <1>2 DEF Typed, FileTypes, PublishingIs, FileVars, Unsaved, Unpublished
<1>3. CASE RemovalNext
  <2>1. PICK i \in Installers :
          \/ \E c \in Commits \cup {None} : Start(i, c)
          \/ \E r \in Installers \cup {None} : StartRemoval(i, r)
          \/ RunStep(i) \/ Interrupt(i) \/ Edit
    BY <1>3 DEF RemovalNext
  <2>2. CASE (\E c \in Commits \cup {None} : Start(i, c)) \/ \E r \in Installers \cup {None} : StartRemoval(i, r)
    BY <1>2, <2>2 DEF Start, StartRemoval, FileVars, bootVars, storeVars
  <2>3. CASE ResumeRefused(i) \/ Stop(i) \/ CleanUpFails(i)
    <3>1. End(i) /\ UNCHANGED FileVars
      BY <2>3 DEF ResumeRefused, Refuse, Stop, CleanUpFails, FileVars, bootVars, storeVars
    <3>2. at'[i] \notin Publishing /\ \A j \in Installers \ {i} : at'[j] = at[j]
      BY <3>1 DEF End, IInv, Types, Publishing
    <3> QED
      BY <1>1, <3>1, <3>2, UntouchedFilesTyped
  <2>4. CASE Edit
    BY <1>1, <2>4, EditTyped
  <2> QED
    BY <1>1, <2>1, <2>2, <2>3, <2>4, StepTyped, RemovalTyped DEF RunStep, Interrupt
<1> QED
  BY <1>2, <1>3 DEF allVars, vars, processVars, FileVars, bootVars, storeVars

-----------------------------------------------------------------------------
(* How the invariant of the removals survives: one run moves, and nobody   *)
(* else's place is touched.                                                *)
Alone(i) == \A j \in Installers \ {i} :
    /\ cmd'[j] = cmd[j] /\ at'[j] = at[j] /\ want'[j] = want[j]
    /\ txn'[j] = txn[j] /\ resumed'[j] = resumed[j]
Calm(i) == at'[i] = "sweep" => at[i] = "sweep" /\ txn'[i] = txn[i]
Disturbs == disturbed \subseteq disturbed' /\ disturbed' \subseteq disturbed \cup Planned
LayoutLasts == layout' # None => layout # None /\ (Installed => Installed')
Installs(i) == Driving(i) /\ want[i] # Removal

(* Nobody begins to sweep in a calm step.                                  *)
LEMMA SpentShrinks ==
    ASSUME NEW i \in Installers, Alone(i), Calm(i)
    PROVE  \A t : Spent(t)' => Spent(t)
  BY DEF Alone, Calm, Spent

(* Past begin, or replacing a stale lock: nobody else is past begin.       *)
LEMMA EnteredIsAlone ==
    ASSUME IInv, NEW i \in Installers, NEW j \in Installers \ {i}, Entered(j)
    PROVE  ~Driving(i)
<1>1. CASE Busy(j)
  <2>1. Driving(j)
    BY <1>1 DEF Entered, Busy, Driving
  <2> QED
    BY <2>1, DriverIsAlone DEF IInv
<1>2. CASE ~Busy(j)
  BY <1>2 DEF Entered, IInv, Locking, LockIs
<1> QED
  BY <1>1, <1>2

(* An uninstall has the lock, or has given it up to sweep.                 *)
LEMMA DrivenUninstall ==
    ASSUME NEW j \in Installers, cmd[j] = "uninstall"
    PROVE  Driving(j) \/ at[j] = "sweep"
  BY DEF Driving

LEMMA LayoutKept == layout' = layout => LayoutLasts
  BY DEF LayoutLasts, Installed

(* The recovery directories stay as they are.                              *)
LEMMA StagingStays ==
    ASSUME IInv, Shapes, RemovalInv, NEW i \in Installers, Alone(i), Calm(i), Disturbs,
           staging' = staging, Typed',
           \/ (journal' # None => journal # None) /\ LayoutLasts
           \/ Installs(i) /\ Planned \subseteq disturbed',
           journal' # None => \/ journal # None /\ journal'.txn = journal.txn
                              \/ Installs(i) /\ journal'.txn = txn[i],
           txn'[i] \in {i, txn[i]} \cup Planned \/ (journal # None /\ txn'[i] = journal.txn),
           Unused(i)', Identified(i)', cmd'[i] = "uninstall" => RemovalAt(i)'
    PROVE  RemovalInv'
<1>1. \A t : Spent(t)' => Spent(t)
  BY SpentShrinks
<1>2. ASSUME NEW t \in Installers
      PROVE  Progressing(t)'
  <2>1. Progressing(t)
    BY DEF RemovalInv
  <2>2. staging[t] # None => t \in Planned
    BY DEF Planned
  <2>3. ASSUME Journaled(t), t \notin disturbed'
        PROVE  Remains(t, staging[t].journal.done + 1)'
    <3>1. t \in Planned
      BY <2>2, <2>3 DEF Journaled
    <3>2. (journal' # None => journal # None) /\ LayoutLasts
      BY <2>3, <3>1
    <3>3. Remains(t, staging[t].journal.done + 1)
      BY <2>1, <2>3 DEF Progressing, Disturbs
    <3> QED
      BY <3>2, <3>3 DEF Remains, Lists, LayoutLasts
  <2>4. t \in disturbed' => staging'[t] # None
    BY <2>1 DEF Progressing, Disturbs, Planned
  <2>5. Journaled(t)' => Journaled(t)
    BY DEF Journaled
  <2> QED
    BY <2>1, <2>3, <2>4, <2>5 DEF Progressing
<1>3. ASSUME NEW j \in Installers \ {i}
      PROVE  Unused(j)'
  <2> SUFFICES ASSUME cmd[j] = "begin", at[j] = "start", resumed[j] = None
               PROVE  /\ staging[j] = None /\ (journal' # None => journal'.txn # j)
                      /\ \A k \in Installers \ {j} : txn'[k] # j
    BY DEF Unused, Alone
  <2>1. /\ staging[j] = None /\ (journal # None => journal.txn # j)
        /\ \A k \in Installers \ {j} : txn[k] # j
    BY DEF RemovalInv, Unused
  <2>2. j \notin Planned
    BY <2>1 DEF Planned
  <2>3. txn'[i] # j
    BY <2>1, <2>2
  <2> QED
    BY <2>1, <2>3 DEF Alone
<1>4. ASSUME NEW j \in Installers \ {i}
      PROVE  Identified(j)'
  <2> SUFFICES ASSUME Entered(j), Spent(txn[j])
               PROVE  IF want[j] = Removal THEN layout' = None \/ Journaled(txn[j]) ELSE txn[j] \in disturbed'
    BY <1>1 DEF Identified, Entered, Busy, Alone, Journaled
  <2>1. IF want[j] = Removal THEN layout = None \/ Journaled(txn[j]) ELSE txn[j] \in disturbed
    BY DEF RemovalInv, Identified
  <2>2. layout' # None => layout # None
    BY EnteredIsAlone DEF Installs, LayoutLasts
  <2> QED
    BY <2>1, <2>2 DEF Disturbs
<1>5. ASSUME NEW j \in Installers \ {i}, cmd'[j] = "uninstall"
      PROVE  RemovalAt(j)'
  <2>1. cmd[j] = "uninstall" /\ RemovalAt(j)
    BY <1>5 DEF RemovalInv, Alone
  <2>2. /\ at'[j] = at[j] /\ txn'[j] = txn[j] /\ resumed'[j] = resumed[j]
    BY DEF Alone
  <2>3. CASE at[j] = "sweep"
    BY <2>1, <2>2, <2>3 DEF RemovalAt, Swept, Journaled
  <2>4. CASE Driving(j)
    <3>1. (journal' # None => journal # None) /\ LayoutLasts
      BY <2>4, DriverIsAlone DEF Installs, IInv
    <3>2. \A n : Remains(txn[j], n) => Remains(txn[j], n)'
      BY <2>2, <3>1 DEF Remains, Lists, LayoutLasts
    <3>3. Remains(txn[j], 1) => Remains(txn[j], 1)'
      BY <3>2
    <3>4. Remains(txn[j], staging[txn[j]].journal.done + 2)
            => Remains(txn[j], staging[txn[j]].journal.done + 2)'
      BY <3>1, <2>2 DEF Remains, Lists, LayoutLasts
    <3>5. txn[j] \in disturbed => txn'[j] \in disturbed'
      BY <2>2 DEF Disturbs
    <3> QED
      BY <2>1, <2>2, <3>3, <3>4, <3>5 DEF RemovalAt, Swept, Unfinished, Journaled
  <2> QED
    BY <2>1, <2>3, <2>4, DrivenUninstall
<1>6. PendingIdentified'
  <2> SUFFICES ASSUME journal' # None, Spent(journal'.txn)
               PROVE  journal'.txn \in disturbed'
    BY <1>1 DEF PendingIdentified
  <2>1. CASE journal # None /\ journal'.txn = journal.txn
    BY <2>1 DEF RemovalInv, PendingIdentified, Disturbs
  <2>2. CASE Installs(i) /\ journal'.txn = txn[i]
    <3>1. Entered(i)
      BY <2>2 DEF Installs, Driving, Entered, Busy
    <3> QED
      BY <2>2, <3>1 DEF RemovalInv, Identified, Installs, Disturbs
  <2> QED
    BY <2>1, <2>2
<1> QED
  BY <1>2, <1>3, <1>4, <1>5, <1>6 DEF RemovalInv, Typed

(* The run that drives writes its own recovery directory.                  *)
LEMMA StagingWritten ==
    ASSUME IInv, Shapes, RemovalInv, NEW i \in Installers, Driving(i), cmd[i] = "uninstall",
           Alone(i), txn'[i] = txn[i], want'[i] = want[i], cmd'[i] = cmd[i],
           at'[i] # "sweep", Disturbs, Typed',
           layout' = layout, journal' = journal,
           \A t \in Installers \ {txn[i]} : staging'[t] = staging[t], staging'[txn[i]] # None,
           Progressing(txn[i])', RemovalAt(i)', Journaled(txn[i]) => Journaled(txn[i])',
           Spent(txn[i]) => Swept(txn[i])'
    PROVE  RemovalInv'
<1>0. txn[i] \in Installers /\ Calm(i)
  BY DEF IInv, Types, Calm
<1>1. \A t : Spent(t)' => Spent(t)
  BY <1>0, SpentShrinks
<1>2. ASSUME NEW t \in Installers \ {txn[i]}
      PROVE  Progressing(t)'
  <2>1. Progressing(t) /\ staging'[t] = staging[t]
    BY DEF RemovalInv
  <2>2. t \in disturbed' => staging'[t] # None
    BY <2>1 DEF Progressing, Disturbs, Planned
  <2>3. t \notin disturbed' => t \notin disturbed
    BY DEF Disturbs
  <2> QED
    BY <2>1, <2>2, <2>3 DEF Progressing, Journaled, Remains, Lists, Installed
<1>3. ASSUME NEW j \in Installers
      PROVE  Unused(j)'
  <2>1. CASE j = i
    BY <2>1 DEF Unused
  <2>2. CASE j # i
    BY <1>0, <2>2 DEF RemovalInv, Unused, Alone
  <2> QED
    BY <2>1, <2>2
<1>4. ASSUME NEW j \in Installers
      PROVE  Identified(j)'
  <2>1. CASE j = i
    <3>1. Entered(i)
      BY DEF Driving, Entered, Busy
    <3>2. want[i] = Removal
      BY DEF Shapes, Shape, Busy
    <3>3. Identified(i)
      BY DEF RemovalInv
    <3> QED
      BY <1>1, <2>1, <3>1, <3>2, <3>3 DEF Identified
  <2>2. CASE j # i
    <3>1. ~Entered(j)
      BY <2>2, EnteredIsAlone
    <3> QED
      BY <2>2, <3>1 DEF Identified, Entered, Alone, Busy
  <2> QED
    BY <2>1, <2>2
<1>5. ASSUME NEW j \in Installers, cmd'[j] = "uninstall"
      PROVE  RemovalAt(j)'
  <2>1. CASE j = i
    BY <2>1
  <2>2. CASE j # i
    <3>1. /\ at[j] = "sweep" /\ at'[j] = "sweep" /\ txn'[j] = txn[j] /\ RemovalAt(j)
          /\ txn[j] \in Installers
      BY <1>5, <2>2, DrivenUninstall, DriverIsAlone DEF Alone, RemovalInv, IInv, Types
    <3>2. CASE txn[j] = txn[i]
      <4>1. Swept(txn[i])'
        BY <3>1, <3>2 DEF Spent
      <4>2. Swept(txn[j])'
        BY <4>1, <3>1, <3>2 DEF Swept, Journaled
      <4> QED
        BY <3>1, <4>2 DEF RemovalAt
    <3>3. CASE txn[j] # txn[i]
      <4>1. staging'[txn[j]] = staging[txn[j]] /\ Swept(txn[j])
        BY <3>1, <3>3 DEF RemovalAt
      <4> QED
        BY <3>1, <4>1 DEF RemovalAt, Swept, Journaled
    <3> QED
      BY <3>2, <3>3
  <2> QED
    BY <2>1, <2>2
<1>6. PendingIdentified'
  BY <1>1 DEF RemovalInv, PendingIdentified, Disturbs
<1> QED
  BY <1>0, <1>2, <1>3, <1>4, <1>5, <1>6 DEF RemovalInv, Typed

(* What is left of a recovery directory that nobody disturbed.             *)
LEMMA SweptIsDone ==
    ASSUME Shapes, RemovalInv, NEW t \in Installers, t \notin disturbed, Swept(t), staging[t] # None
    PROVE  journal = None /\ layout = None
<1>1. Journaled(t) /\ staging[t].journal.committed /\ Progressing(t)
  BY DEF Swept, RemovalInv
<1>2. /\ staging[t].journal.done >= Len(staging[t].plan) /\ Remains(t, staging[t].journal.done + 1)
      /\ staging[t].journal.done \in Nat /\ Len(staging[t].plan) \in Nat
  BY <1>1, Underway DEF Progressing, RemovalInv
<1>3. ~Lists(t, "journal", staging[t].journal.done + 1) /\ ~Lists(t, "layout", staging[t].journal.done + 1)
  BY <1>2 DEF Lists
<1> QED
  BY <1>2, <1>3 DEF Remains

(* A sweep takes a part of the recovery directory away,                    *)
LEMMA SweepBegins ==
    ASSUME IInv, Shapes, RemovalInv, Typed', NEW i \in Installers, SweepStaging(i), Intact(txn[i])
    PROVE  RemovalInv'
<1>1. /\ UNCHANGED <<journal, layout, disturbed>>
      /\ Stage(i, [staging[txn[i]] EXCEPT !.whole = FALSE]) /\ Load(i, cmd[i], "sweep", plan[i])
      /\ at[i] = "sweep"
  BY DEF SweepStaging, journalVars, Continue, Goto, OfRemoval
<1>2. UNCHANGED <<cmd, at, want, txn, resumed>>
  BY <1>1 DEF Load, IInv, Types
<1>3. staging[txn[i]] \in Recovery /\ staging \in [Installers -> Recovery \cup {None}]
  BY DEF Intact, RemovalInv, FileTypes, IInv, Types
<1>4. \A t \in Installers : /\ staging'[t] = None <=> staging[t] = None
                            /\ staging'[t].journal = staging[t].journal
                            /\ staging'[t].plan = staging[t].plan
  BY <1>1, <1>3, RecoveryAssumption DEF Stage, Recovery, IInv, Types
<1>5. \A t \in Installers : /\ Journaled(t)' <=> Journaled(t)
                            /\ \A n : Remains(t, n)' <=> Remains(t, n)
  BY <1>1, <1>4 DEF Journaled, Remains, Lists, Installed
<1>6. \A t \in Installers : Progressing(t)'
  <2> SUFFICES ASSUME NEW t \in Installers
               PROVE  Progressing(t)'
    OBVIOUS
  <2>1. Remains(t, staging[t].journal.done + 1)' <=> Remains(t, staging[t].journal.done + 1)
    BY <1>1, <1>4 DEF Remains, Lists, Installed
  <2> QED
    BY <1>1, <1>4, <1>5, <2>1 DEF Progressing, RemovalInv
<1>7. ASSUME NEW j \in Installers, cmd[j] = "uninstall"
      PROVE  RemovalAt(j)'
  <2>1. RemovalAt(j) /\ txn[j] \in Installers
    BY <1>7 DEF RemovalInv, IInv, Types
  <2>0. /\ staging'[txn[j]].plan = staging[txn[j]].plan /\ txn'[j] = txn[j]
        /\ staging'[txn[j]].journal = staging[txn[j]].journal
    BY <1>2, <1>4, <2>1
  <2>2. /\ Remains(txn[j], 1)' <=> Remains(txn[j], 1)
        /\ Remains(txn[j], staging[txn[j]].journal.done + 2)'
              <=> Remains(txn[j], staging[txn[j]].journal.done + 2)
    BY <1>1, <2>0 DEF Remains, Lists, Installed
  <2>3. /\ staging'[txn[j]] = None <=> staging[txn[j]] = None
        /\ staging'[txn[j]].journal = staging[txn[j]].journal
        /\ staging'[txn[j]].plan = staging[txn[j]].plan
    BY <1>4, <2>1
  <2> QED
    BY <1>1, <1>2, <2>1, <2>2, <2>3 DEF RemovalAt, Swept, Unfinished, Journaled
<1>8. \A t : Spent(t)' <=> Spent(t)
  BY <1>2 DEF Spent
<1>9. ASSUME NEW j \in Installers
      PROVE  Unused(j)' /\ Identified(j)'
  <2>1. txn[j] \in Installers
    BY DEF IInv, Types
  <2>2. Unused(j)'
    BY <1>1, <1>2, <1>4 DEF RemovalInv, Unused
  <2> QED
    BY <1>1, <1>2, <1>5, <1>8, <2>1, <2>2 DEF RemovalInv, Identified, Entered, Busy
<1>10. PendingIdentified'
  BY <1>1, <1>8 DEF RemovalInv, PendingIdentified
<1> QED
  BY <1>2, <1>6, <1>7, <1>9, <1>10 DEF RemovalInv, Typed

(* and then the rest: one that nobody disturbed has left nothing behind.   *)
LEMMA SweepEnds ==
    ASSUME IInv, Shapes, RemovalInv, Typed', NEW i \in Installers, SweepStaging(i),
           ~Intact(txn[i]), txn[i] \notin disturbed
    PROVE  RemovalInv'
<1>1. /\ UNCHANGED <<journal, layout, disturbed>> /\ Stage(i, None) /\ End(i) /\ at[i] = "sweep"
      /\ cmd[i] = "uninstall"
  BY DEF SweepStaging, journalVars, OfRemoval
<1>2. /\ cmd'[i] = "off" /\ at'[i] = "start" /\ txn'[i] = i /\ Alone(i)
  BY <1>1 DEF End, Alone, IInv, Types, Shapes
<1>3. \A t : Spent(t)' => Spent(t)
  BY <1>2, SpentShrinks DEF Calm
<1>4. Unused(i)' /\ Identified(i)'
  BY <1>2 DEF Unused, Identified, Entered, Busy
<1>5. txn[i] \in Installers /\ Swept(txn[i]) /\ staging \in [Installers -> Recovery \cup {None}]
  BY <1>1 DEF IInv, Types, RemovalInv, RemovalAt, FileTypes
<1>6. CASE staging[txn[i]] = None
  <2>1. staging' = staging
    BY <1>1, <1>5, <1>6 DEF Stage
  <2> QED
    BY <1>1, <1>2, <1>4, <2>1, LayoutKept, StagingStays DEF Calm, Disturbs
<1>7. CASE staging[txn[i]] # None
  <2>1. journal = None /\ layout = None
    BY <1>5, <1>7, SweptIsDone
  <2>2. /\ \A t \in Installers \ {txn[i]} : staging'[t] = staging[t]
        /\ staging'[txn[i]] = None
    BY <1>1, <1>5 DEF Stage
  <2>3. ASSUME NEW t \in Installers
        PROVE  Progressing(t)'
    <3>1. CASE t = txn[i]
      BY <1>1, <2>2, <3>1 DEF Progressing, Journaled
    <3>2. CASE t # txn[i]
      <4>1. staging'[t] = staging[t] /\ Progressing(t)
        BY <2>2, <3>2 DEF RemovalInv
      <4> QED
        BY <1>1, <4>1 DEF Progressing, Journaled, Remains, Lists, Installed
    <3> QED
      BY <3>1, <3>2
  <2>4. ASSUME NEW j \in Installers \ {i}
        PROVE  Unused(j)' /\ Identified(j)'
    <3>1. Unused(j)'
      <4>1. staging[j] = None => staging'[j] = None
        BY <2>2
      <4> QED
        BY <1>1, <1>2, <4>1 DEF RemovalInv, Unused, Alone
    <3> QED
      BY <1>1, <1>2, <1>3, <2>1, <3>1 DEF RemovalInv, Identified, Entered, Busy, Alone
  <2>5. ASSUME NEW j \in Installers, cmd'[j] = "uninstall"
        PROVE  RemovalAt(j)'
    <3>1. /\ j # i /\ at'[j] = at[j] /\ txn'[j] = txn[j] /\ resumed'[j] = resumed[j]
          /\ RemovalAt(j) /\ txn[j] \in Installers
      BY <1>2, <2>5 DEF Alone, RemovalInv, IInv, Types
    <3>2. CASE txn[j] = txn[i]
      <4>1. staging'[txn[j]] = None /\ at[j] \notin {"journal", "before", "remove", "after"}
        BY <1>5, <1>7, <2>2, <3>1, <3>2 DEF RemovalAt, Swept, Unfinished, Journaled
      <4> QED
        BY <3>1, <4>1 DEF RemovalAt, Swept
    <3>3. CASE txn[j] # txn[i]
      <4>1. staging'[txn[j]] = staging[txn[j]]
        BY <2>2, <3>1, <3>3
      <4>2. /\ Remains(txn[j], 1) => Remains(txn[j], 1)'
            /\ Remains(txn[j], staging[txn[j]].journal.done + 2)
                  => Remains(txn[j], staging[txn[j]].journal.done + 2)'
        BY <1>1, <3>1, <4>1 DEF Remains, Lists, Installed
      <4> QED
        BY <1>1, <3>1, <4>1, <4>2 DEF RemovalAt, Swept, Unfinished, Journaled
    <3> QED
      BY <3>2, <3>3
  <2>6. PendingIdentified'
    BY <1>1, <2>1 DEF PendingIdentified
  <2> QED
    BY <1>4, <2>3, <2>4, <2>5, <2>6 DEF RemovalInv, Typed
<1> QED
  BY <1>6, <1>7

(* The lock goes, and the sweeping begins.                                 *)
LEMMA LockGoes ==
    ASSUME IInv, Shapes, RemovalInv, Typed', NEW i \in Installers, RemoveLock(i), at'[i] = "sweep",
           UNCHANGED disturbed
    PROVE  RemovalInv'
<1>1. /\ at[i] = "unlock" /\ cmd[i] = "uninstall" /\ resumed[i] \in {None, txn[i]}
      /\ Load(i, cmd[i], "sweep", plan[i]) /\ UNCHANGED <<journal, layout, staging>>
      /\ Journaled(txn[i])
  BY DEF RemoveLock, End, Continue, Goto, IInv, Types, bootVars, journalVars
<1>2. /\ cmd' = cmd /\ txn' = txn /\ want' = want /\ resumed' = resumed
      /\ \A j \in Installers \ {i} : at'[j] = at[j]
  BY <1>1 DEF Load, IInv, Types
<1>3. Driving(i) /\ txn[i] \in Installers
  BY <1>1 DEF Driving, IInv, Types
<1>4. Swept(txn[i]) /\ Progressing(txn[i])
  BY <1>1, <1>3 DEF RemovalInv, RemovalAt
<1>5. \A t \in Installers : Spent(t)' => Spent(t) \/ t = txn[i]
  BY <1>2 DEF Spent
<1>6. \A t \in Installers : Progressing(t)'
  BY <1>1 DEF RemovalInv, Progressing, Journaled, Remains, Lists, Installed
<1>7. ASSUME NEW j \in Installers
      PROVE  Unused(j)' /\ Identified(j)'
  <2>1. Unused(j)'
    BY <1>1, <1>2 DEF RemovalInv, Unused
  <2>2. j # i => ~Entered(j)
    BY <1>3, EnteredIsAlone
  <2>3. ~Entered(j)'
    BY <1>2, <2>2 DEF Entered, Busy
  <2> QED
    BY <2>1, <2>3 DEF Identified
<1>8. ASSUME NEW j \in Installers, cmd'[j] = "uninstall"
      PROVE  RemovalAt(j)'
  <2>1. CASE j = i
    BY <1>1, <1>2, <1>4, <2>1 DEF RemovalAt, Swept, Journaled
  <2>2. CASE j # i
    <3>1. RemovalAt(j) /\ at'[j] = at[j]
      BY <1>2, <1>8, <2>2 DEF RemovalInv
    <3>2. /\ Remains(txn[j], 1) => Remains(txn[j], 1)'
          /\ Remains(txn[j], staging[txn[j]].journal.done + 2)
                => Remains(txn[j], staging[txn[j]].journal.done + 2)'
      BY <1>1, <1>2 DEF Remains, Lists, Installed
    <3> QED
      BY <1>1, <1>2, <3>1, <3>2 DEF RemovalAt, Swept, Unfinished, Journaled
  <2> QED
    BY <2>1, <2>2
<1>9. PendingIdentified'
  <2> SUFFICES ASSUME journal # None, Spent(journal.txn)'
               PROVE  journal.txn \in disturbed
    BY <1>1 DEF PendingIdentified
  <2>1. journal.txn \in Installers
    BY DEF IInv, Types, Plan
  <2>2. CASE journal.txn = txn[i] /\ staging[txn[i]] # None
    BY <1>3, <1>4, <2>2, SweptIsDone
  <2>3. staging[txn[i]] # None
    BY <1>1 DEF Journaled
  <2>4. CASE Spent(journal.txn)
    BY <2>4 DEF RemovalInv, PendingIdentified
  <2> QED
    BY <1>1, <1>5, <2>1, <2>2, <2>3, <2>4
<1> QED
  BY <1>6, <1>7, <1>8, <1>9 DEF RemovalInv, Typed

-----------------------------------------------------------------------------
(* The steps of the installers leave the removals as the invariant says.   *)
LEMMA NoticedDisturbs == Noticed => Disturbs
  BY DEF Noticed, Disturbs

(* A run ends.                                                             *)
LEMMA EndHolds ==
    ASSUME IInv, Shapes, RemovalInv, Typed', NEW i \in Installers, End(i), Disturbs,
           UNCHANGED <<staging, journal, layout>>
    PROVE  RemovalInv'
<1>1. /\ cmd'[i] = "off" /\ at'[i] = "start" /\ txn'[i] = i /\ Alone(i)
  BY DEF End, Alone, IInv, Types, Shapes
<1>2. Calm(i) /\ Unused(i)' /\ Identified(i)'
  BY <1>1 DEF Calm, Unused, Identified, Entered, Busy
<1> QED
  BY <1>1, <1>2, LayoutKept, StagingStays

(* An entered run goes on under its id.                                    *)
LEMMA EnteredStays ==
    ASSUME IInv, Shapes, RemovalInv, NEW i \in Installers, Entered(i), Alone(i), Disturbs,
           txn'[i] = txn[i], want'[i] = want[i], staging' = staging,
           want[i] = Removal => (layout' # None => layout # None), at'[i] # "sweep"
    PROVE  Identified(i)'
<1>1. \A t : Spent(t)' => Spent(t)
  BY SpentShrinks DEF Calm
<1> QED
  BY <1>1 DEF RemovalInv, Identified, Journaled, Disturbs

(* An installer never writes a recovery directory,                         *)
LEMMA StagingUntouched ==
    ASSUME NEW i \in Installers, Step(i)
    PROVE  staging' = staging
<1>1. CASE LockStep(i)
  BY <1>1 DEF LockStep, BeginRefused, BeginFree, BeginStale, UnlinkStaleOwner, RemoveStaleLock,
     Acquire, ReleaseLock, RemoveLock, Refuse, bootVars
<1>2. CASE ShellStep(i) \/ WriteJournal(i)
  BY <1>2 DEF ShellStep, MakeCandidate, Clone, Compare, Adopt, WriteJournal, Refuse, bootVars
<1>3. CASE PrepareStep(i)
  BY <1>3 DEF PrepareStep, Publish, PublishRefused, CheckPublication, SaveOriginal, PlaceAsset,
     RecordPublication, FinishPublication, Prepare, DiscardCandidate, WriteReceipt, Own,
     WriteManifest, MoveCandidate, Refuse, bootVars
<1>4. CASE SwitchStep(i)
  BY <1>4 DEF SwitchStep, Recover, PlaceCandidate, Commit, CheckBaseline, SwitchPointer,
     VerifyInstalled, UnlinkJournal, UnlinkOwnership, Rollback, SwapBack, Abort, Refuse, bootVars
<1> QED
  BY <1>1, <1>2, <1>3, <1>4 DEF Step

(* and the journal it writes has its own id.                               *)
LEMMA JournalIsOwn ==
    ASSUME IInv, Shapes, NEW i \in Installers,
           ShellStep(i) \/ PrepareStep(i) \/ WriteJournal(i) \/ SwitchStep(i)
    PROVE  journal' # None => journal' = journal \/ journal'.txn = txn[i]
<1>1. CASE ShellStep(i)
  BY <1>1 DEF ShellStep, MakeCandidate, Clone, Compare, Adopt, Refuse, journalVars
<1>2. CASE WriteJournal(i)
  <2>1. plan[i] # None /\ journal' = plan[i]
    BY <1>2, AbsenceAssumption DEF WriteJournal, IInv, PlanIs, Uses
  <2> QED
    BY <2>1 DEF Shapes, Shape
<1>3. CASE PrepareStep(i)
  BY <1>3 DEF PrepareStep, Publish, PublishRefused, CheckPublication, SaveOriginal, PlaceAsset,
     RecordPublication, FinishPublication, Prepare, DiscardCandidate, WriteReceipt, Own,
     WriteManifest, MoveCandidate, Refuse, journalVars
<1>4. CASE SwitchStep(i)
  BY <1>4 DEF SwitchStep, Recover, PlaceCandidate, Commit, CheckBaseline, SwitchPointer,
     VerifyInstalled, UnlinkJournal, UnlinkOwnership, Rollback, SwapBack, Abort, Refuse, journalVars
<1> QED
  BY <1>1, <1>2, <1>3, <1>4

(* The steps of an installer that has the lock.                            *)
LEMMA InstallerHolds ==
    ASSUME IInv, Shapes, RemovalInv, Typed', NEW i \in Installers, Noticed,
           ShellStep(i) \/ PrepareStep(i) \/ WriteJournal(i) \/ SwitchStep(i)
    PROVE  RemovalInv'
<1>1. Proceeds(i)
  BY ShellProceeds, PrepareProceeds, JournalProceeds, SwitchProceeds
<1>2. Driving(i) /\ cmd[i] # "uninstall" /\ Busy(i) /\ want[i] # Removal /\ Entered(i)
  BY <1>1, DriverIsAlone DEF Proceeds, Shapes, Shape, Driving, Busy, Entered
<1>3. /\ Alone(i) /\ txn'[i] \in {i, txn[i]}
      /\ \/ cmd'[i] = "off" /\ at'[i] = "start"
         \/ /\ cmd'[i] \in RunCommands /\ at'[i] \in RunPlaces /\ txn'[i] = txn[i]
            /\ want'[i] = want[i]
  <2>1. CASE End(i)
    BY <2>1 DEF End, Alone, IInv, Types, Shapes
  <2>2. CASE \E c \in RunCommands, a \in RunPlaces : \E p : Load(i, c, a, p)
    BY <2>2 DEF Load, Alone, IInv, Types
  <2> QED
    BY <1>1, <2>1, <2>2 DEF Proceeds
<1>4. Calm(i) /\ at'[i] # "sweep" /\ cmd'[i] \notin {"begin", "uninstall"}
  BY <1>3 DEF Calm, RunPlaces, RunCommands
<1>5. staging' = staging /\ Disturbs
  BY StagingUntouched, NoticedDisturbs DEF Step
<1>6. journal' # None => \/ journal # None /\ journal'.txn = journal.txn
                         \/ Installs(i) /\ journal'.txn = txn[i]
  BY <1>2, JournalIsOwn DEF Installs
<1>7. \/ (journal' # None => journal # None) /\ LayoutLasts
      \/ Installs(i) /\ Planned \subseteq disturbed'
  BY <1>2 DEF Noticed, Installation, journalVars, Installs, LayoutLasts, Installed
<1>8. Unused(i)'
  BY <1>4 DEF Unused
<1>9. Identified(i)'
  <2>1. CASE cmd'[i] = "off"
    BY <2>1 DEF Identified, Entered, Busy
  <2>2. CASE txn'[i] = txn[i] /\ want'[i] = want[i]
    BY <1>2, <1>3, <1>4, <1>5, <2>2, EnteredStays
  <2> QED
    BY <1>3, <2>1, <2>2
<1> QED
  BY <1>3, <1>4, <1>5, <1>6, <1>7, <1>8, <1>9, StagingStays

(* A run finds no lock or a stale one, whose id it may take over.          *)
LEMMA BeginHolds ==
    ASSUME IInv, Shapes, RemovalInv, Typed', NEW i \in Installers, Noticed, ~Lost(i),
           BeginFree(i) \/ BeginStale(i)
    PROVE  RemovalInv'
<1>1. /\ cmd[i] = "begin" /\ at[i] = "start" /\ UNCHANGED <<journal, layout, staging>>
      /\ cmd' = cmd /\ want' = want /\ resumed' = resumed
      /\ at'[i] \in {"acquire", "unlink"} /\ \A j \in Installers \ {i} : at'[j] = at[j] /\ txn'[j] = txn[j]
      /\ txn'[i] = txn[i] \/ (owner # None /\ txn'[i] = ResumedTxn(i))
  BY DEF BeginFree, BeginStale, Continue, Goto, Load, IInv, Types, bootVars, journalVars
<1>2. Alone(i) /\ Calm(i) /\ Disturbs
  BY <1>1, NoticedDisturbs DEF Alone, Calm
<1>3. \A t : Spent(t)' => Spent(t)
  BY <1>2, SpentShrinks
<1>4. Spent(txn[i]) => Journaled(txn[i]) /\ want[i] = Removal
  <2>1. CASE resumed[i] = None
    BY <1>1, <2>1 DEF RemovalInv, Unused, Shapes, Shape, Spent
  <2>2. CASE resumed[i] # None
    BY <1>1, <2>2 DEF Lost, Shapes, Shape
  <2> QED
    BY <2>1, <2>2
<1>5. txn[i] \in {i} \cup Planned
  <2>1. CASE resumed[i] = None
    BY <1>1, <2>1 DEF Shapes, Shape
  <2>2. CASE resumed[i] # None
    BY <1>1, <2>2 DEF Lost, Shapes, Shape, Journaled, Planned
  <2> QED
    BY <2>1, <2>2
<1>6. ASSUME journal # None, txn'[i] = journal.txn
      PROVE  Identified(i)'
  <2> SUFFICES ASSUME Spent(journal.txn)
               PROVE  IF want[i] = Removal THEN Journaled(journal.txn) ELSE journal.txn \in disturbed
    BY <1>1, <1>2, <1>3, <1>6 DEF Identified, Journaled, Disturbs
  <2>1. journal.txn \in disturbed /\ journal.txn \in Installers
    BY <1>6 DEF RemovalInv, PendingIdentified, IInv, Types, Plan
  <2>2. staging[journal.txn] # None
    BY <2>1 DEF RemovalInv, Progressing
  <2>3. Swept(journal.txn)
    <3>1. PICK j \in Installers : at[j] = "sweep" /\ txn[j] = journal.txn
      BY DEF Spent
    <3>2. cmd[j] = "uninstall"
      BY <3>1 DEF Shapes, Shape
    <3> QED
      BY <3>1, <3>2 DEF RemovalInv, RemovalAt
  <2> QED
    BY <2>1, <2>2, <2>3 DEF Swept
<1>7. ASSUME txn'[i] = txn[i]
      PROVE  Identified(i)'
  BY <1>1, <1>3, <1>4, <1>7 DEF Identified, Journaled
<1>8. ASSUME ResumesRemoval(i), txn'[i] = owner.txn
      PROVE  Identified(i)'
  BY <1>1, <1>8 DEF Identified, ResumesRemoval, Journaled
<1>9. \/ journal # None /\ txn'[i] = journal.txn
      \/ txn'[i] = txn[i]
      \/ owner # None /\ ResumesRemoval(i) /\ txn'[i] = owner.txn
  BY <1>1 DEF ResumedTxn
<1>10. owner # None /\ ResumesRemoval(i) => owner.txn \in Planned
  BY DEF IInv, Types, Owner, ResumesRemoval, Journaled, Planned
<1>11. Unused(i)' /\ cmd'[i] # "uninstall"
  BY <1>1 DEF Unused
<1>12. Identified(i)'
  BY <1>6, <1>7, <1>8, <1>9
<1>13. txn'[i] \in {i, txn[i]} \cup Planned \/ (journal # None /\ txn'[i] = journal.txn)
  BY <1>9, <1>10
<1> QED
  BY <1>1, <1>2, <1>11, <1>12, <1>13, LayoutKept, StagingStays

(* A run replaces a stale lock, takes the lock or gives it up.             *)
LEMMA LockHolds ==
    ASSUME IInv, Shapes, RemovalInv, Typed', NEW i \in Installers, Noticed,
           \/ UnlinkStaleOwner(i) \/ RemoveStaleLock(i) \/ Acquire(i) \/ ReleaseLock(i)
           \/ RemoveLock(i)
    PROVE  RemovalInv'
<1>1. Disturbs /\ UNCHANGED <<journal, staging>>
  BY NoticedDisturbs DEF UnlinkStaleOwner, RemoveStaleLock, Acquire, ReleaseLock, RemoveLock, Refuse,
     bootVars, journalVars
<1>2. (layout' # None <=> layout # None) /\ LayoutLasts
  <2>1. CASE Acquire(i)
    <3>1. layout' = layout \/ (Installed /\ layout' = Committed(layout))
      BY <2>1 DEF Acquire
    <3>2. layout \in Layout \cup {None}
      BY DEF RemovalInv, FileTypes
    <3>3. layout # None => Committed(layout) \in Layout /\ Committed(layout).state # "pending"
      BY <3>2 DEF Committed, Layout
    <3> QED
      BY <3>1, <3>3, AbsenceAssumption DEF Installed, LayoutLasts
  <2>2. CASE ~Acquire(i)
    BY <2>2 DEF UnlinkStaleOwner, RemoveStaleLock, ReleaseLock, RemoveLock, Refuse, bootVars,
       LayoutLasts, Installed
  <2> QED
    BY <2>1, <2>2
<1>3. CASE End(i)
  <2>1. /\ cmd'[i] = "off" /\ at'[i] = "start" /\ txn'[i] = i /\ Alone(i)
    BY <1>3 DEF End, Alone, IInv, Types, Shapes
  <2>2. Calm(i) /\ Unused(i)' /\ Identified(i)'
    BY <2>1 DEF Calm, Unused, Identified, Entered, Busy
  <2> QED
    BY <1>1, <1>2, <2>1, <2>2, StagingStays
<1>4. Entered(i)
  <2>1. CASE at[i] \in Beginning
    BY <2>1 DEF Beginning, Entered, Busy, IInv, Locking, Located
  <2>2. CASE at[i] \in {"release", "unlock"}
    BY <2>2 DEF Beginning, Entered, Busy, IInv, Locking, Located
  <2> QED
    BY <2>1, <2>2 DEF UnlinkStaleOwner, RemoveStaleLock, Acquire, ReleaseLock, RemoveLock, Beginning
<1>5. ASSUME NEW c, NEW a, Load(i, c, a, plan[i]), a # "sweep",
             c = "begin" => a # "start", c = "uninstall" => RemovalAt(i)'
      PROVE  RemovalInv'
  <2>0. /\ cmd'[i] = c /\ at'[i] = a /\ txn' = txn /\ want' = want
        /\ \A j \in Installers \ {i} : cmd'[j] = cmd[j] /\ at'[j] = at[j]
    BY <1>5, Moves
  <2>1. /\ cmd'[i] = c /\ at'[i] = a /\ txn' = txn /\ want' = want /\ resumed' = resumed /\ Alone(i)
    BY <1>5, <2>0 DEF Load, Alone
  <2>2. Calm(i) /\ Unused(i)' /\ Identified(i)'
    BY <1>1, <1>2, <1>4, <1>5, <2>1, EnteredStays DEF Calm, Unused
  <2> QED
    BY <1>1, <1>2, <1>5, <2>1, <2>2, StagingStays
<1>6. CASE UnlinkStaleOwner(i) \/ RemoveStaleLock(i)
  <2>1. cmd[i] = "begin"
    BY <1>6 DEF UnlinkStaleOwner, RemoveStaleLock, Beginning, IInv, Locking, Located, Busy
  <2> QED
    BY <1>5, <1>6, <2>1 DEF UnlinkStaleOwner, RemoveStaleLock, Continue, Goto
<1>7. CASE Acquire(i) /\ ~End(i)
  <2>1. PICK c \in {"rollback", "uninstall", "recover", "shell"}, a \in {"start", "release", "mkdir"} :
          Load(i, c, a, plan[i]) /\ (c = "uninstall" /\ a = "release" => resumed[i] \notin {None, txn[i]})
                                 /\ (c = "uninstall" => a # "mkdir")
    BY <1>7 DEF Acquire, AfterBegin, Goto
  <2>2. at'[i] = a /\ txn' = txn /\ resumed' = resumed
    BY <2>1 DEF Load, IInv, Types
  <2>3. c = "uninstall" => RemovalAt(i)'
    BY <2>1, <2>2 DEF RemovalAt
  <2> QED
    BY <1>5, <2>1, <2>3
<1>8. CASE ReleaseLock(i) /\ ~End(i)
  <2>1. at[i] = "release" /\ Load(i, cmd[i], "unlock", plan[i])
    BY <1>8 DEF ReleaseLock, Refuse, Continue, Goto
  <2>2. at'[i] = "unlock" /\ txn' = txn /\ resumed' = resumed
    BY <2>1 DEF Load, IInv, Types
  <2>3. cmd[i] = "uninstall" => RemovalAt(i)'
    BY <1>1, <2>1, <2>2 DEF RemovalInv, RemovalAt, Swept, Journaled
  <2>4. cmd[i] # "begin"
    BY <2>1 DEF IInv, Locking, Located, Beginning
  <2> QED
    BY <1>5, <2>1, <2>3, <2>4
<1>9. CASE RemoveLock(i) /\ ~End(i)
  <2>1. at'[i] = "sweep"
    BY <1>9, Moves DEF RemoveLock, Continue, Goto
  <2>2. disturbed' = disturbed
    BY <1>9 DEF Noticed, RemoveLock, Installation, bootVars
  <2> QED
    BY <1>9, <2>1, <2>2, LockGoes
<1> QED
  BY <1>3, <1>6, <1>7, <1>8, <1>9

(* Every step of an installer.                                             *)
LEMMA StepHolds ==
    ASSUME IInv, Shapes, RemovalInv, Typed', NEW i \in Installers, Noticed, ~Lost(i), Step(i)
    PROVE  RemovalInv'
<1>1. CASE BeginRefused(i)
  <2>1. End(i) /\ UNCHANGED <<staging, journal, layout>>
    BY <1>1 DEF BeginRefused, Refuse, bootVars, journalVars
  <2> QED
    BY <2>1, NoticedDisturbs, EndHolds
<1> QED
  BY <1>1, BeginHolds, LockHolds, InstallerHolds DEF Step, LockStep

(* A run begins, under an id of its own or to resume an uninstall.         *)
LEMMA StartHolds ==
    ASSUME IInv, Shapes, RemovalInv, Typed', NEW i \in Installers,
           \/ \E c \in Commits \cup {None} : Start(i, c) /\ Noticed
           \/ \E r \in Installers \cup {None} : StartRemoval(i, r)
    PROVE  RemovalInv'
<1>1. /\ cmd[i] = "off" /\ at[i] = "start" /\ txn[i] = i /\ resumed[i] = None
  BY DEF Start, StartRemoval, Shapes, Shape, IInv, Locking, Located
<1>2. /\ Fresh(i) /\ cmd'[i] = "begin" /\ at' = at /\ UNCHANGED <<journal, layout, staging>>
      /\ \A j \in Installers \ {i} : /\ cmd'[j] = cmd[j] /\ txn'[j] = txn[j]
                                     /\ want'[j] = want[j] /\ resumed'[j] = resumed[j]
      /\ resumed'[i] = None => txn'[i] = i
      /\ txn'[i] = i \/ Journaled(txn'[i])
  BY <1>1 DEF Start, StartRemoval, Resumes, IInv, Types, Shapes, bootVars, journalVars
<1>3. Alone(i) /\ Calm(i) /\ txn'[i] \in {i} \cup Planned
  <2>1. txn'[i] \in Installers
    BY <1>1 DEF Start, StartRemoval, IInv, Types
  <2> QED
    BY <1>1, <1>2, <2>1 DEF Alone, Calm, Journaled, Planned
<1>4. Disturbs
  BY NoticedDisturbs DEF StartRemoval, removalVars, Disturbs
<1>5. Identified(i)'
  BY <1>1, <1>2 DEF Identified, Entered, Busy
<1>6. Unused(i)'
  BY <1>2 DEF Unused, Fresh
<1> QED
  BY <1>2, <1>3, <1>4, <1>5, <1>6, LayoutKept, StagingStays

-----------------------------------------------------------------------------
(* The steps of an uninstall.                                              *)
LEMMA SpentIsSwept ==
    ASSUME Shapes, RemovalInv, NEW t, Spent(t)
    PROVE  Swept(t)
<1>1. PICK j \in Installers : at[j] = "sweep" /\ txn[j] = t
  BY DEF Spent
<1>2. cmd[j] = "uninstall"
  BY <1>1 DEF Shapes, Shape
<1> QED
  BY <1>1, <1>2 DEF RemovalInv, RemovalAt

(* What is still to be removed after the current action.                   *)
LEMMA RemainsAfter ==
    ASSUME RemovalInv, NEW i \in Installers, txn[i] \in Installers, Journaled(txn[i]),
           staging[txn[i]].journal.done < Len(staging[txn[i]].plan), txn[i] \notin disturbed,
           staging'[txn[i]].plan = staging[txn[i]].plan, txn'[i] = txn[i],
           staging'[txn[i]].journal = staging[txn[i]].journal,
           journal' # None => journal # None /\ Current(i).kind # "journal",
           LayoutLasts, layout' # None => ~(Installed /\ Current(i).kind = "layout")
    PROVE  Remains(txn[i], staging[txn[i]].journal.done + 2)'
<1> DEFINE d == staging[txn[i]].journal.done
<1>1. d \in Nat /\ Len(staging[txn[i]].plan) \in Nat /\ Remains(txn[i], d + 1)
  BY Underway DEF RemovalInv, Progressing
<1>2. ASSUME NEW kind, Lists(txn[i], kind, d + 1), Current(i).kind # kind
      PROVE  Lists(txn[i], kind, d + 2)
  <2>1. PICK m \in d + 1..Len(staging[txn[i]].plan) : staging[txn[i]].plan[m].kind = kind
    BY <1>2 DEF Lists
  <2>2. m # d + 1
    BY <1>2, <2>1 DEF Current
  <2>3. m \in d + 2..Len(staging[txn[i]].plan)
    BY <1>1, <2>2
  <2> QED
    BY <2>1, <2>3 DEF Lists
<1>3. /\ journal' # None => Lists(txn[i], "journal", d + 2)
      /\ layout' # None => Installed' /\ Lists(txn[i], "layout", d + 2)
  BY <1>1, <1>2 DEF Remains, LayoutLasts
<1>. DEFINE plans == staging'[txn[i]].plan
<1>4. \A kind : (\E m \in d + 2..Len(plans) : plans[m].kind = kind) <=> Lists(txn[i], kind, d + 2)
  BY DEF Lists
<1>5. staging'[txn'[i]].plan = plans /\ staging'[txn'[i]].journal.done = d
  OBVIOUS
<1> QED
  BY <1>3, <1>4, <1>5 DEF Remains, Lists

(* An action is carried out: what is left is what comes after it.          *)
LEMMA RemovingHolds ==
    ASSUME IInv, Shapes, RemovalInv, Typed', NEW i \in Installers, RemovalStep(i),
           RemoveRelease(i) \/ RemoveMetadata(i) \/ RemoveAsset(i) \/ CleanUpCapability(i)
    PROVE  RemovalInv'
<1>1. /\ cmd[i] = "uninstall" /\ at[i] = "remove" /\ RemovalAt(i) /\ txn[i] \in Installers
      /\ Checked(i) /\ UNCHANGED <<staging, disturbed>>
      /\ \E a \in {"remove", "after"} : Load(i, "uninstall", a, plan[i])
  BY AtRemoval DEF RemovalStep, RemoveRelease, RemoveMetadata, RemoveAsset, CleanUpCapability,
     Removes, OfRemoval, bootVars, removalVars, Continue, Goto
<1>2. /\ journal' # None => journal # None /\ Current(i).kind # "journal"
      /\ layout' # None => layout # None /\ ~(Installed /\ Current(i).kind = "layout")
      /\ journal' # None => journal' = journal
      /\ LayoutLasts
  BY DEF RemoveRelease, RemoveMetadata, RemoveAsset, CleanUpCapability, Removes, bootVars,
     journalVars, LayoutLasts, Installed
<1>3. /\ at'[i] \in {"remove", "after"} /\ cmd'[i] = "uninstall" /\ Alone(i)
      /\ txn' = txn /\ want' = want /\ resumed' = resumed
  BY <1>1 DEF Load, Alone, IInv, Types
<1>4. Entered(i) /\ Disturbs /\ Calm(i) /\ Unused(i)'
  BY <1>1, <1>3 DEF Entered, Busy, Disturbs, Calm, Unused
<1>5. Identified(i)'
  BY <1>1, <1>2, <1>3, <1>4, EnteredStays
<1>6. RemovalAt(i)'
  <2>1. Unfinished(txn[i]) /\ staging[txn[i]].journal.done < Len(staging[txn[i]].plan)
    BY <1>1 DEF RemovalAt
  <2>2. txn[i] \notin disturbed => Remains(txn[i], staging[txn[i]].journal.done + 2)'
    BY <1>1, <1>2, <1>3, <2>1, RemainsAfter DEF Unfinished
  <2> QED
    BY <1>1, <1>3, <2>1, <2>2 DEF RemovalAt, Unfinished, Journaled, Remains, Lists, Installed
<1> QED
  BY <1>1, <1>2, <1>3, <1>4, <1>5, <1>6, StagingStays

(* A journal is found and resumed.                                         *)
LEMMA FindHolds ==
    ASSUME IInv, Shapes, RemovalInv, Typed', NEW i \in Installers, RemovalStep(i), FindJournal(i)
    PROVE  RemovalInv'
<1>1. /\ cmd[i] = "uninstall" /\ at[i] = "start" /\ txn[i] \in Installers /\ Journaled(txn[i])
      /\ UNCHANGED <<staging, journal, layout>> /\ Load(i, "uninstall", "next", plan[i])
  BY AtRemoval DEF FindJournal, OfRemoval, Others, journalVars, Continue, Goto
<1>2. /\ at'[i] = "next" /\ cmd'[i] = "uninstall" /\ Alone(i)
      /\ txn' = txn /\ want' = want /\ resumed' = resumed
  BY <1>1 DEF Load, Alone, IInv, Types
<1>3. Entered(i) /\ Disturbs /\ Calm(i) /\ Unused(i)'
  BY <1>1, <1>2 DEF Entered, Busy, Disturbs, Calm, Unused, FindJournal, Supersede
<1>4. Identified(i)'
  BY <1>1, <1>2, <1>3, EnteredStays
<1>5. RemovalAt(i)'
  BY <1>1, <1>2 DEF RemovalAt, Journaled
<1> QED
  BY <1>1, <1>2, <1>3, <1>4, <1>5, LayoutKept, StagingStays

(* What every write of an uninstall to its recovery directory is.          *)
LEMMA WriterIs ==
    ASSUME IInv, Shapes, RemovalInv, NEW i \in Installers, RemovalStep(i),
           \/ PlanRemoval(i) \/ JournalRemoval(i) \/ ProveRelease(i) \/ CheckpointBefore(i)
           \/ CheckpointAfter(i) \/ StageCapability(i) \/ CommitRemoval(i)
    PROVE  /\ Driving(i) /\ cmd[i] = "uninstall" /\ cmd' = cmd /\ txn' = txn /\ want' = want
           /\ resumed' = resumed /\ Alone(i) /\ txn[i] \in Installers
           /\ at[i] \in {"start", "journal", "next", "before", "remove", "after"}
           /\ at'[i] \in {"journal", "next", "before", "remove", "after", "release"}
           /\ layout' = layout /\ journal' = journal /\ Disturbs
           /\ \A t \in Installers \ {txn[i]} : staging'[t] = staging[t]
           /\ RemovalAt(i)
<1>1. /\ cmd[i] = "uninstall" /\ txn[i] \in Installers /\ RemovalAt(i)
  BY AtRemoval
<1>2. /\ at[i] \in {"start", "journal", "next", "before", "remove", "after"}
      /\ \E a \in {"journal", "next", "before", "remove", "after", "release"} :
            Load(i, "uninstall", a, plan[i])
      /\ \E s : Stage(i, s)
      /\ UNCHANGED <<layout, journal>>
  BY <1>1 DEF PlanRemoval, JournalRemoval, ProveRelease, CheckpointBefore, CheckpointAfter,
     StageCapability, CommitRemoval, OfRemoval, Removes, Continue, Goto, Kept, Others, journalVars
<1>3. Disturbs
  BY DEF PlanRemoval, JournalRemoval, ProveRelease, CheckpointBefore, CheckpointAfter,
     StageCapability, CommitRemoval, Kept, Supersede, Disturbs
<1>4. /\ cmd' = cmd /\ txn' = txn /\ want' = want /\ resumed' = resumed /\ Alone(i)
      /\ at'[i] \in {"journal", "next", "before", "remove", "after", "release"}
  BY <1>1, <1>2 DEF Load, Alone, IInv, Types
<1>5. \A t \in Installers \ {txn[i]} : staging'[t] = staging[t]
  BY <1>2 DEF Stage, RemovalInv, FileTypes
<1>6. Driving(i)
  BY <1>1, <1>2 DEF Driving
<1> QED
  BY <1>1, <1>2, <1>3, <1>4, <1>5, <1>6

(* A plan is made: it has everything in it that stands.                    *)
LEMMA PlanHolds ==
    ASSUME IInv, Shapes, RemovalInv, Typed', NEW i \in Installers, RemovalStep(i), PlanRemoval(i)
    PROVE  RemovalInv'
<1>1. /\ Driving(i) /\ cmd[i] = "uninstall" /\ cmd' = cmd /\ txn' = txn /\ want' = want
      /\ Alone(i) /\ txn[i] \in Installers /\ layout' = layout /\ journal' = journal /\ Disturbs
      /\ \A t \in Installers \ {txn[i]} : staging'[t] = staging[t]
  BY WriterIs
<1>2. /\ at'[i] = "journal" /\ disturbed' = disturbed
      /\ staging[txn[i]] = None /\ layout # None /\ Installed /\ ~Journaled(txn[i])
  BY DEF PlanRemoval, Removable, Installed, Kept, Continue, Goto, Load, IInv, Types
<1>3. staging'[txn[i]] = [plan |-> RemovalPlan, journal |-> None, was |-> None, proofs |-> {},
                          skills |-> None, whole |-> TRUE]
  BY <1>1 DEF PlanRemoval, Stage, RemovalInv, FileTypes
<1>4. staging'[txn[i]] # None
  <2>1. staging'[txn[i]] \in Recovery
    BY <1>3, RemovalPlanIsComplete DEF Recovery
  <2> QED
    BY <2>1, RecoveryAssumption
<1>5. ~Spent(txn[i])
  <2>1. want[i] = Removal /\ Entered(i)
    BY <1>1 DEF Shapes, Shape, Busy, Entered, Driving
  <2> QED
    BY <1>2, <2>1 DEF RemovalInv, Identified
<1>6. Progressing(txn[i])'
  BY <1>1, <1>3, <1>4 DEF Progressing, Journaled
<1>7. RemovalAt(i)'
  <2>1. /\ staging'[txn[i]].journal = None /\ staging'[txn[i]].plan = RemovalPlan
        /\ Has(RemovalPlan, "layout") /\ (journal # None => Has(RemovalPlan, "journal"))
    BY <1>3, RemovalPlanIsComplete
  <2>2. Remains(txn[i], 1)'
    BY <1>1, <1>2, <2>1 DEF Remains, Lists, Installed, Has
  <2> QED
    BY <1>1, <1>2, <1>4, <2>1, <2>2 DEF RemovalAt
<1> QED
  BY <1>1, <1>2, <1>4, <1>5, <1>6, <1>7, StagingWritten

(* The plan is journaled.                                                  *)
LEMMA JournalHolds ==
    ASSUME IInv, Shapes, RemovalInv, Typed', NEW i \in Installers, RemovalStep(i), JournalRemoval(i)
    PROVE  RemovalInv'
<1>1. /\ Driving(i) /\ cmd[i] = "uninstall" /\ cmd' = cmd /\ txn' = txn /\ want' = want
      /\ Alone(i) /\ txn[i] \in Installers /\ layout' = layout /\ journal' = journal /\ Disturbs
      /\ \A t \in Installers \ {txn[i]} : staging'[t] = staging[t]
      /\ RemovalAt(i)
  BY WriterIs
<1>2. at[i] = "journal" /\ at'[i] = "next"
  BY DEF JournalRemoval, OfRemoval, Continue, Goto, Load, IInv, Types
<1>3. staging[txn[i]] \in Recovery /\ staging[txn[i]].journal = None /\ Remains(txn[i], 1)
  BY <1>1, <1>2 DEF RemovalAt, RemovalInv, FileTypes
<1>4. staging'[txn[i]] = [staging[txn[i]] EXCEPT
          !.was = Evidence, !.journal = [done |-> 0, begun |-> FALSE, committed |-> FALSE]]
  BY <1>1 DEF JournalRemoval, Stage, RemovalInv, FileTypes
<1>5. /\ staging'[txn[i]].plan = staging[txn[i]].plan
      /\ staging'[txn[i]].journal = [done |-> 0, begun |-> FALSE, committed |-> FALSE]
  BY <1>3, <1>4 DEF Recovery
<1>6. staging'[txn[i]] # None /\ staging'[txn[i]].journal # None
  <2>1. staging'[txn[i]] \in Recovery \cup {None} /\ [staging[txn[i]] EXCEPT
          !.was = Evidence, !.journal = [done |-> 0, begun |-> FALSE, committed |-> FALSE]] \in Recovery
    <3>1. Evidence \in Witness /\ [done |-> 0, begun |-> FALSE, committed |-> FALSE] \in Progress
      BY EvidenceTyped DEF Progress, RemovalInv
    <3> QED
      BY <1>1, <1>3, <3>1, DirectoryTyped DEF Typed, FileTypes
  <2>2. staging'[txn[i]].journal \in Progress
    BY <1>5 DEF Progress
  <2> QED
    BY <1>4, <2>1, <2>2, RecoveryAssumption
<1>7. ~Spent(txn[i])
  BY <1>3, SpentIsSwept, RecoveryAssumption DEF Swept, Journaled
<1>8. Remains(txn[i], 1)'
  BY <1>1, <1>3, <1>5 DEF Remains, Lists, Installed
<1>9. Progressing(txn[i])'
  BY <1>1, <1>5, <1>6, <1>8 DEF Progressing, Remains, Lists, Installed
<1>10. RemovalAt(i)'
  BY <1>1, <1>2, <1>6 DEF RemovalAt, Journaled
<1>11. ~Journaled(txn[i])
  BY <1>3 DEF Journaled
<1> QED
  BY <1>1, <1>2, <1>6, <1>7, <1>9, <1>10, <1>11, StagingWritten

(* A checkpoint before an action, or a proof, or a copy that is kept.      *)
LEMMA CheckpointHolds ==
    ASSUME IInv, Shapes, RemovalInv, Typed', NEW i \in Installers, RemovalStep(i),
           ProveRelease(i) \/ CheckpointBefore(i) \/ StageCapability(i)
    PROVE  RemovalInv'
<1>1. /\ Driving(i) /\ cmd[i] = "uninstall" /\ cmd' = cmd /\ txn' = txn /\ want' = want
      /\ Alone(i) /\ txn[i] \in Installers /\ layout' = layout /\ journal' = journal /\ Disturbs
      /\ \A t \in Installers \ {txn[i]} : staging'[t] = staging[t]
      /\ RemovalAt(i)
  BY WriterIs
<1>2. /\ at[i] \in {"next", "before", "remove"} /\ at'[i] \in {"before", "remove", "after"}
      /\ at'[i] = "after" => Checked(i) /\ Current(i).kind = "stage"
      /\ at[i] # "before" => Checked(i)
      /\ disturbed' = disturbed
  BY <1>1 DEF ProveRelease, CheckpointBefore, StageCapability, OfRemoval, Removes, Kept, Continue, Goto,
     Load, IInv, Types
<1>3. /\ Journaled(txn[i]) /\ staging[txn[i]].journal.done < Len(staging[txn[i]].plan)
      /\ staging[txn[i]] \in Recovery
  BY <1>1, <1>2, Underway DEF RemovalAt, Checked, HasNext, Intact, Unfinished, RemovalInv
<1>4. ~staging[txn[i]].journal.committed /\ staging[txn[i]].journal \in Progress
      /\ staging[txn[i]].journal.done \in Nat /\ Len(staging[txn[i]].plan) \in Nat
  <2>1. staging[txn[i]].journal.done \in Nat /\ Len(staging[txn[i]].plan) \in Nat
        /\ staging[txn[i]].journal \in Progress
    BY <1>3, Underway, DirectoryTyped DEF RemovalInv, Journaled
  <2>2. staging[txn[i]].journal.committed =>
            staging[txn[i]].journal.done >= Len(staging[txn[i]].plan)
    BY <1>1, <1>3 DEF RemovalInv, Progressing
  <2>3. ~(staging[txn[i]].journal.done >= Len(staging[txn[i]].plan))
    BY <1>3, <2>1
  <2> QED
    BY <2>1, <2>2, <2>3
<1>5. /\ staging'[txn[i]].plan = staging[txn[i]].plan
      /\ staging'[txn[i]].journal.done = staging[txn[i]].journal.done
      /\ staging'[txn[i]].journal.committed = staging[txn[i]].journal.committed
      /\ staging'[txn[i]].journal # None
      /\ ~CheckpointBefore(i) => staging'[txn[i]].journal = staging[txn[i]].journal
  <2>1. staging \in [Installers -> Recovery \cup {None}]
    BY DEF RemovalInv, FileTypes
  <2>2. CASE CheckpointBefore(i)
    <3>1. staging'[txn[i]] = [staging[txn[i]] EXCEPT !.journal.begun = TRUE]
      BY <1>1, <2>1, <2>2 DEF CheckpointBefore, Stage
    <3>2. /\ staging'[txn[i]].plan = staging[txn[i]].plan
          /\ staging'[txn[i]].journal = [staging[txn[i]].journal EXCEPT !.begun = TRUE]
      BY <1>3, <3>1 DEF Recovery
    <3>3. staging'[txn[i]].journal \in Progress
      BY <1>4, <3>2 DEF Progress
    <3>4. /\ staging'[txn[i]].journal.done = staging[txn[i]].journal.done
          /\ staging'[txn[i]].journal.committed = staging[txn[i]].journal.committed
      BY <1>4, <3>2 DEF Progress
    <3> QED
      BY <2>2, <3>2, <3>3, <3>4, RecoveryAssumption
  <2>3. CASE ~CheckpointBefore(i)
    <3>1. ASSUME ProveRelease(i)
          PROVE  /\ staging'[txn[i]].plan = staging[txn[i]].plan
                 /\ staging'[txn[i]].journal = staging[txn[i]].journal
      <4>1. staging'[txn[i]] = [staging[txn[i]] EXCEPT !.proofs = @ \cup {Current(i).of}]
        BY <1>1, <2>1, <3>1 DEF ProveRelease, Stage
      <4> QED
        BY <1>3, <4>1 DEF Recovery
    <3>2. ASSUME StageCapability(i)
          PROVE  /\ staging'[txn[i]].plan = staging[txn[i]].plan
                 /\ staging'[txn[i]].journal = staging[txn[i]].journal
      <4>1. PICK k : staging'[txn[i]] = [staging[txn[i]] EXCEPT !.skills = k]
        BY <1>1, <2>1, <3>2 DEF StageCapability, Stage
      <4> QED
        BY <1>3, <4>1 DEF Recovery
    <3>3. /\ staging'[txn[i]].plan = staging[txn[i]].plan
          /\ staging'[txn[i]].journal = staging[txn[i]].journal
      BY <2>3, <3>1, <3>2
    <3> QED
      BY <1>3, <3>3 DEF Journaled
  <2> QED
    BY <2>2, <2>3
<1>6. staging'[txn[i]] # None
  <2>1. staging'[txn[i]] \in Recovery \cup {None}
    BY <1>1 DEF Typed, FileTypes
  <2>2. CASE CheckpointBefore(i)
    <3>1. staging'[txn[i]] = [staging[txn[i]] EXCEPT !.journal.begun = TRUE]
      BY <1>1, <2>2 DEF CheckpointBefore, Stage, RemovalInv, FileTypes
    <3> QED
      BY <1>3, <3>1, DirectoryTyped, RecoveryAssumption DEF Journaled
  <2>3. CASE ProveRelease(i)
    <3>1. staging'[txn[i]] = [staging[txn[i]] EXCEPT !.proofs = @ \cup {Current(i).of}]
          /\ Current(i).kind = "release"
      BY <1>1, <2>3 DEF ProveRelease, ToProve, Stage, RemovalInv, FileTypes
    <3>2. Current(i).of \in Commits
      BY <1>1, <1>3, <3>1, CurrentIs DEF RemovalInv
    <3>3. PICK c \in Commits : staging'[txn[i]] = [staging[txn[i]] EXCEPT !.proofs = @ \cup {c}]
      BY <3>1, <3>2
    <3>4. [staging[txn[i]] EXCEPT !.proofs = @ \cup {c}] \in Recovery
      BY <1>3, DirectoryTyped
    <3> QED
      BY <3>3, <3>4, RecoveryAssumption
  <2>4. CASE StageCapability(i)
    <3>1. PICK k \in {"part", "skills"} : staging'[txn[i]] = [staging[txn[i]] EXCEPT !.skills = k]
      BY <1>1, <2>4 DEF StageCapability, Stage, RemovalInv, FileTypes
    <3>2. [staging[txn[i]] EXCEPT !.skills = k] \in Recovery
      BY <1>3, DirectoryTyped
    <3> QED
      BY <3>1, <3>2, RecoveryAssumption
  <2> QED
    BY <2>2, <2>3, <2>4
<1>7. ~Spent(txn[i])
  BY <1>3, <1>4, SpentIsSwept DEF Swept, Journaled
<1>8. Progressing(txn[i])'
  <2>1. Progressing(txn[i])
    BY <1>1 DEF RemovalInv
  <2>2. Remains(txn[i], staging[txn[i]].journal.done + 1)
           => Remains(txn[i], staging[txn[i]].journal.done + 1)'
    BY <1>1, <1>5 DEF Remains, Lists, Installed
  <2> QED
    BY <1>1, <1>2, <1>3, <1>4, <1>5, <1>6, <2>1, <2>2 DEF Progressing, Remains, Lists, Installed
<1>9. RemovalAt(i)'
  <2>1. at'[i] = "after" /\ txn[i] \notin disturbed =>
            Remains(txn[i], staging[txn[i]].journal.done + 2)'
    <3>1. at'[i] = "after" => ~CheckpointBefore(i) /\ Current(i).kind = "stage"
      BY <1>2 DEF CheckpointBefore, Continue, Goto, Load, IInv, Types
    <3> QED
      BY <1>1, <1>3, <1>5, <3>1, LayoutKept, RemainsAfter
  <2>2. Unfinished(txn[i])' /\ staging'[txn[i]].journal.done < Len(staging'[txn[i]].plan)
    BY <1>1, <1>3, <1>4, <1>5, <1>6 DEF Unfinished, Journaled
  <2> QED
    BY <1>1, <1>2, <2>1, <2>2 DEF RemovalAt
<1>10. Journaled(txn[i])'
  BY <1>1, <1>5, <1>6 DEF Journaled
<1> QED
  BY <1>1, <1>2, <1>6, <1>7, <1>8, <1>9, <1>10, StagingWritten

(* A checkpoint after an action.                                           *)
LEMMA AfterHolds ==
    ASSUME IInv, Shapes, RemovalInv, Typed', NEW i \in Installers, RemovalStep(i), CheckpointAfter(i)
    PROVE  RemovalInv' /\ Unfinished(txn[i])'
<1>1. /\ Driving(i) /\ cmd[i] = "uninstall" /\ cmd' = cmd /\ txn' = txn /\ want' = want
      /\ Alone(i) /\ txn[i] \in Installers /\ layout' = layout /\ journal' = journal /\ Disturbs
      /\ \A t \in Installers \ {txn[i]} : staging'[t] = staging[t]
      /\ RemovalAt(i)
  BY WriterIs
<1>2. at[i] = "after" /\ at'[i] = "next" /\ disturbed' = disturbed
  BY DEF CheckpointAfter, OfRemoval, Kept, Continue, Goto, Load, IInv, Types
<1>3. /\ Journaled(txn[i]) /\ ~staging[txn[i]].journal.committed
      /\ staging[txn[i]].journal.done < Len(staging[txn[i]].plan)
      /\ txn[i] \notin disturbed => Remains(txn[i], staging[txn[i]].journal.done + 2)
  BY <1>1, <1>2 DEF RemovalAt, Unfinished
<1>4. staging[txn[i]] \in Recovery /\ staging[txn[i]].journal \in Progress
      /\ staging[txn[i]].journal.done \in Nat
  BY <1>1, <1>3, Underway, DirectoryTyped DEF RemovalInv, Journaled
<1>5. staging'[txn[i]] = [staging[txn[i]] EXCEPT !.journal.begun = FALSE, !.journal.done = @ + 1]
  BY <1>1 DEF CheckpointAfter, Stage, RemovalInv, FileTypes
<1>6. staging'[txn[i]] # None
  BY <1>3, <1>4, <1>5, DirectoryTyped, RecoveryAssumption DEF Journaled
<1>7. /\ staging'[txn[i]].plan = staging[txn[i]].plan
      /\ staging'[txn[i]].journal = [staging[txn[i]].journal EXCEPT !.begun = FALSE, !.done = @ + 1]
  BY <1>4, <1>5 DEF Recovery
<1>8. /\ staging'[txn[i]].journal \in Progress
      /\ staging'[txn[i]].journal.done = staging[txn[i]].journal.done + 1
      /\ staging'[txn[i]].journal.committed = staging[txn[i]].journal.committed
  <2>1. staging[txn[i]].journal.done + 1 \in Nat
    BY <1>4
  <2>2. [staging[txn[i]].journal EXCEPT !.begun = FALSE, !.done = staging[txn[i]].journal.done + 1] \in Progress
    BY <1>4, <2>1 DEF Progress
  <2> QED
    BY <1>4, <1>7, <2>1, <2>2 DEF Progress
<1>9. ~Spent(txn[i])
  BY <1>3, SpentIsSwept DEF Swept, Journaled
<1>10. Journaled(txn[i])'
  BY <1>1, <1>6, <1>8, RecoveryAssumption DEF Journaled
<1>11. Progressing(txn[i])'
  <2>1. staging'[txn[i]].journal.done + 1 = staging[txn[i]].journal.done + 2
    BY <1>4, <1>8
  <2>2. txn[i] \notin disturbed => Remains(txn[i], staging[txn[i]].journal.done + 1)'
    BY <1>1, <1>3, <1>7, <2>1 DEF Remains, Lists, Installed
  <2> QED
    BY <1>1, <1>2, <1>3, <1>6, <1>8, <2>2 DEF Progressing, Remains, Lists, Installed
<1>12. RemovalAt(i)'
  BY <1>1, <1>2, <1>10 DEF RemovalAt, Journaled
<1>13. Unfinished(txn[i])'
  BY <1>1, <1>3, <1>8, <1>10 DEF Unfinished
<1> QED
  BY <1>1, <1>2, <1>6, <1>9, <1>10, <1>11, <1>12, <1>13, StagingWritten

(* An uninstall that has done everything is committed.                     *)
LEMMA CommitHolds ==
    ASSUME IInv, Shapes, RemovalInv, Typed', NEW i \in Installers, RemovalStep(i), CommitRemoval(i)
    PROVE  RemovalInv' /\ Journaled(txn[i]) /\ staging[txn[i]].journal.done >= Len(staging[txn[i]].plan)
<1>1. /\ Driving(i) /\ cmd[i] = "uninstall" /\ cmd' = cmd /\ txn' = txn /\ want' = want
      /\ Alone(i) /\ txn[i] \in Installers /\ layout' = layout /\ journal' = journal /\ Disturbs
      /\ \A t \in Installers \ {txn[i]} : staging'[t] = staging[t]
      /\ RemovalAt(i)
  BY WriterIs
<1>2. /\ at[i] = "next" /\ at'[i] = "release" /\ disturbed' = disturbed
      /\ staging[txn[i]] # None /\ ~(staging[txn[i]].journal.done < Len(staging[txn[i]].plan))
  BY DEF CommitRemoval, OfRemoval, Kept, Continue, Goto, Load, IInv, Types, HasNext, Intact
<1>3. Journaled(txn[i])
  BY <1>1, <1>2 DEF RemovalAt
<1>4. /\ staging[txn[i]] \in Recovery /\ staging[txn[i]].journal \in Progress
      /\ staging[txn[i]].journal.done \in Nat /\ Len(staging[txn[i]].plan) \in Nat
  BY <1>1, <1>3, Underway, DirectoryTyped DEF RemovalInv, Journaled
<1>5. staging'[txn[i]] = [staging[txn[i]] EXCEPT !.journal.committed = TRUE]
  BY <1>1 DEF CommitRemoval, Stage, RemovalInv, FileTypes
<1>6. staging'[txn[i]] # None
  BY <1>3, <1>4, <1>5, DirectoryTyped, RecoveryAssumption DEF Journaled
<1>7. /\ staging'[txn[i]].plan = staging[txn[i]].plan
      /\ staging'[txn[i]].journal = [staging[txn[i]].journal EXCEPT !.committed = TRUE]
  BY <1>4, <1>5 DEF Recovery
<1>8. /\ staging'[txn[i]].journal \in Progress
      /\ staging'[txn[i]].journal.done = staging[txn[i]].journal.done
      /\ staging'[txn[i]].journal.committed
  BY <1>4, <1>7 DEF Progress
<1>9. Journaled(txn[i])' /\ Swept(txn[i])'
  BY <1>1, <1>6, <1>8, RecoveryAssumption DEF Journaled, Swept
<1>10. staging[txn[i]].journal.done >= Len(staging[txn[i]].plan)
  BY <1>2, <1>4
<1>11. Progressing(txn[i])'
  <2>1. Progressing(txn[i])
    BY <1>1 DEF RemovalInv
  <2>2. Remains(txn[i], staging[txn[i]].journal.done + 1)
           => Remains(txn[i], staging[txn[i]].journal.done + 1)'
    BY <1>1, <1>7 DEF Remains, Lists, Installed
  <2> QED
    BY <1>1, <1>2, <1>3, <1>6, <1>7, <1>8, <1>10, <2>1, <2>2 DEF Progressing, Remains, Lists, Installed
<1>12. RemovalAt(i)'
  BY <1>1, <1>2, <1>9 DEF RemovalAt, Swept, Journaled
<1> QED
  BY <1>1, <1>2, <1>3, <1>6, <1>9, <1>10, <1>11, <1>12, StagingWritten

(* Every step of an uninstall.                                             *)
LEMMA RemovalHolds ==
    ASSUME IInv, Shapes, RemovalInv, Typed', NEW i \in Installers, RemovalStep(i)
    PROVE  RemovalInv' \/ Overrun'
<1>1. CASE RemovalRefused(i)
  <2>1. End(i) /\ UNCHANGED <<staging, journal, layout, disturbed>>
    BY <1>1 DEF RemovalRefused, Refuse, bootVars, journalVars, removalVars
  <2> QED
    BY <2>1, EndHolds DEF Disturbs
<1>2. CASE SweepStaging(i)
  <2>1. CASE ~Intact(txn[i]) /\ txn[i] \in disturbed
    BY <1>2, <2>1 DEF SweepStaging, Overrun
  <2> QED
    BY <1>2, <2>1, SweepBegins, SweepEnds
<1> QED
  BY <1>1, <1>2, RemovingHolds, FindHolds, PlanHolds, JournalHolds, CheckpointHolds, AfterHolds,
     CommitHolds DEF RemovalStep

-----------------------------------------------------------------------------
(* An overrun is never forgotten, and but for a sweep nothing that was     *)
(* disturbed is.                                                           *)
LEMMA DisturbedStays ==
    ASSUME [RemovalNext]_allVars
    PROVE  disturbed \subseteq disturbed' \/ \E i \in Installers : SweepStaging(i)
<1>1. CASE RemovalNext
  <2>1. PICK i \in Installers :
          \/ \E c \in Commits \cup {None} : Start(i, c) /\ Noticed
          \/ \E r \in Installers \cup {None} : StartRemoval(i, r)
          \/ RunStep(i) \/ Interrupt(i) \/ Edit
    BY <1>1 DEF RemovalNext
  <2>2. CASE RemovalStep(i) /\ ~SweepStaging(i)
    BY <2>2 DEF RemovalStep, FindJournal, PlanRemoval, JournalRemoval, RemovalRefused, ProveRelease,
       CheckpointBefore, CheckpointAfter, RemoveRelease, RemoveMetadata, RemoveAsset,
       StageCapability, CleanUpCapability, CommitRemoval, Supersede, Kept, removalVars
  <2>3. CASE Edit
    BY <2>3 DEF Edit
  <2>4. CASE Noticed
    BY <2>4, NoticedDisturbs DEF Disturbs
  <2>5. CASE ResumeRefused(i) \/ CleanUpFails(i) \/ \E r \in Installers \cup {None} : StartRemoval(i, r)
    BY <2>5 DEF ResumeRefused, CleanUpFails, StartRemoval, removalVars
  <2> QED
    BY <2>1, <2>2, <2>3, <2>4, <2>5 DEF RunStep, Interrupt
<1> QED
  BY <1>1 DEF allVars, removalVars

LEMMA OverrunStays == Overrun /\ [RemovalNext]_allVars /\ Types => Overrun'
<1> SUFFICES ASSUME Overrun, [RemovalNext]_allVars, Types
             PROVE  Overrun'
  OBVIOUS
<1>1. ASSUME NEW i \in Installers, SweepStaging(i)
      PROVE  Overrun'
  <2>1. txn[i] \in Installers
    BY DEF Types
  <2> QED
    BY <1>1, <2>1, NoneAssumption DEF SweepStaging, Overrun
<1> QED
  BY <1>1, DisturbedStays DEF Overrun

(* Neither a run nor what the removals are about changes.                  *)
LEMMA ProcessesStay ==
    ASSUME RemovalInv, Typed', Disturbs,
           UNCHANGED <<staging, journal, layout, cmd, at, want, txn, resumed>>
    PROVE  RemovalInv'
<1>1. ASSUME NEW t \in Installers
      PROVE  Progressing(t)'
  <2>1. Progressing(t)
    BY DEF RemovalInv
  <2>2. t \in disturbed' => staging[t] # None
    BY <2>1 DEF Progressing, Disturbs, Planned
  <2> QED
    BY <2>1, <2>2 DEF Progressing, Disturbs, Journaled, Remains, Lists, Installed
<1>2. ASSUME NEW j \in Installers
      PROVE  Unused(j)' /\ Identified(j)'
  BY DEF RemovalInv, Unused, Identified, Entered, Busy, Spent, Journaled, Disturbs
<1>3. ASSUME NEW j \in Installers, cmd'[j] = "uninstall"
      PROVE  RemovalAt(j)'
  BY <1>3 DEF RemovalInv, RemovalAt, Remains, Lists, Installed, Swept, Unfinished, Journaled, Disturbs
<1>4. PendingIdentified'
  BY DEF RemovalInv, PendingIdentified, Spent, Disturbs
<1> QED
  BY <1>1, <1>2, <1>3, <1>4 DEF RemovalInv, Typed

(* The invariant of the removals is one until an uninstall is overrun.     *)
LEMMA RemovalInvHolds ==
    ASSUME IInv, IInv', Shapes, RemovalInv, [RemovalNext]_allVars
    PROVE  RemovalInv' \/ Overrun'
<1>1. Typed'
  BY RemovalFinds, TypedHolds
<1>2. CASE UNCHANGED allVars
  <2>1. UNCHANGED <<staging, journal, layout, cmd, at, want, txn, resumed>> /\ disturbed' = disturbed
    BY <1>2 DEF allVars, vars, bootVars, journalVars, processVars, removalVars
  <2> QED
    BY <1>1, <2>1, ProcessesStay DEF Disturbs
<1>3. CASE RemovalNext
  <2>1. PICK i \in Installers :
          \/ \E c \in Commits \cup {None} : Start(i, c) /\ Noticed
          \/ \E r \in Installers \cup {None} : StartRemoval(i, r)
          \/ RunStep(i) \/ Interrupt(i) \/ Edit
    BY <1>3 DEF RemovalNext
  <2>2. CASE \/ \E c \in Commits \cup {None} : Start(i, c) /\ Noticed
             \/ \E r \in Installers \cup {None} : StartRemoval(i, r)
    BY <1>1, <2>2, StartHolds
  <2>3. CASE ResumeRefused(i) \/ CleanUpFails(i) \/ (Stop(i) /\ Noticed)
    <3>1. End(i) /\ UNCHANGED <<staging, journal, layout>>
      BY <2>3 DEF ResumeRefused, Refuse, CleanUpFails, Stop, bootVars, journalVars
    <3>2. Disturbs
      BY <2>3, NoticedDisturbs DEF ResumeRefused, CleanUpFails, removalVars, Disturbs
    <3> QED
      BY <1>1, <3>1, <3>2, EndHolds
  <2>4. CASE Edit
    <3>1. /\ UNCHANGED <<staging, journal, layout, cmd, at, want, txn, resumed>>
          /\ disturbed' = disturbed \/ disturbed' = disturbed \cup Planned
      BY <2>4 DEF Edit, journalVars, processVars
    <3> QED
      BY <1>1, <3>1, ProcessesStay DEF Disturbs
  <2> QED
    BY <1>1, <2>1, <2>2, <2>3, <2>4, StepHolds, RemovalHolds DEF RunStep, Interrupt
<1> QED
  BY <1>2, <1>3

-----------------------------------------------------------------------------
(* Either an uninstall is suspended, or what install leaves is recoverable.*)
LEMMA SuspendedStays ==
    ASSUME Suspended, staging' = staging, disturbed \subseteq disturbed'
    PROVE  Suspended'
  BY DEF Suspended, Journaled

(* A place of an uninstall says nothing of an install.                     *)
LEMMA RemovalSaysNothing ==
    ASSUME NEW i \in Installers, cmd'[i] = "uninstall",
           at'[i] \in {"journal", "next", "before", "remove", "after", "release", "sweep"}
    PROVE  StepIs(i)'
  BY DEF StepIs, PhaseAt, PreparedAt, FollowedAt, Unjournaled, Publishing, Preparing, Following

(* Neither a file of an installation nor a run changes.                    *)
LEMMA RunsStay ==
    ASSUME RecoveryInv, UNCHANGED <<Written, cmd, at, plan, txn>>
    PROVE  RecoveryInv'
<1>1. JournalIs'
  BY FilesStay DEF RecoveryInv
<1>2. ASSUME NEW j \in Installers
      PROVE  StepIs(j)'
  <2>1. StepIs(j)
    BY DEF RecoveryInv
  <2>2. PhaseAt(j)'
    BY <2>1 DEF StepIs, PhaseAt, Written
  <2>3. PreparedAt(j)'
    BY <2>1 DEF StepIs, PreparedAt, Written, Installed, Staged, Verified, VerifiedRelease
  <2>4. FollowedAt(j)'
    BY <2>1 DEF StepIs, FollowedAt, Written, Canonical, Verified, VerifiedRelease, Switched
  <2> QED
    BY <2>1, <2>2, <2>3, <2>4 DEF StepIs, Written
<1> QED
  BY <1>1, <1>2 DEF RecoveryInv

(* An uninstall that is under way, and that nobody else is sweeping.       *)
LEMMA RemovalSuspends ==
    ASSUME IInv, IInv', Shapes, RemovalInv, Typed', Suspended, NEW i \in Installers, RemovalStep(i)
    PROVE  Suspended' \/ RecoveryInv' \/ Overrun'
<1>0. txn[i] \in Installers /\ RemovalAt(i) /\ cmd[i] = "uninstall"
  BY AtRemoval
<1>1. PICK t \in Installers : Journaled(t) /\ (t \in disturbed \/ ~staging[t].journal.committed)
  BY DEF Suspended
<1>2. CASE \/ RemovalRefused(i) \/ FindJournal(i) \/ RemoveRelease(i) \/ RemoveMetadata(i)
           \/ RemoveAsset(i) \/ CleanUpCapability(i)
  <2>1. staging' = staging /\ disturbed \subseteq disturbed'
    BY <1>2 DEF RemovalRefused, Refuse, FindJournal, RemoveRelease, RemoveMetadata, RemoveAsset,
       CleanUpCapability, bootVars, removalVars, Supersede
  <2> QED
    BY <2>1, SuspendedStays
<1>3. CASE JournalRemoval(i) \/ CheckpointAfter(i)
  <2>1. CASE JournalRemoval(i)
    <3>1. RemovalAt(i)' /\ at'[i] = "next" /\ txn' = txn /\ staging'[txn[i]] # None
      <4>1. RemovalInv' /\ cmd'[i] = "uninstall" /\ txn' = txn
        BY <1>0, <2>1, JournalHolds, WriterIs
      <4>2. at'[i] = "next" /\ at[i] = "journal"
        BY <2>1 DEF JournalRemoval, OfRemoval, Continue, Goto, Load, IInv, Types
      <4>3. staging[txn[i]] \in Recovery
        BY <1>0, <4>2 DEF RemovalAt, RemovalInv, FileTypes
      <4>4. /\ Evidence \in Witness
            /\ [done |-> 0, begun |-> FALSE, committed |-> FALSE] \in Progress
        BY EvidenceTyped DEF Progress, RemovalInv
      <4>5. staging'[txn[i]] \in Recovery
        BY <1>0, <2>1, <4>3, <4>4, DirectoryTyped DEF JournalRemoval, Stage, RemovalInv, FileTypes
      <4> QED
        BY <4>1, <4>2, <4>5, RecoveryAssumption DEF RemovalInv
    <3>2. Journaled(txn[i])'
      BY <1>0, <3>1 DEF RemovalAt, Journaled
    <3>3. ~staging'[txn[i]].journal.committed
      <4>1. staging[txn[i]] \in Recovery
        BY <1>0, <2>1 DEF JournalRemoval, OfRemoval, RemovalAt, RemovalInv, FileTypes
      <4>2. staging'[txn[i]] = [staging[txn[i]] EXCEPT
                !.was = Evidence, !.journal = [done |-> 0, begun |-> FALSE, committed |-> FALSE]]
        BY <1>0, <2>1 DEF JournalRemoval, Stage, RemovalInv, FileTypes
      <4>3. staging'[txn[i]].journal = [done |-> 0, begun |-> FALSE, committed |-> FALSE]
        BY <4>1, <4>2 DEF Recovery
      <4> QED
        BY <4>3
    <3> QED
      BY <1>0, <3>1, <3>2, <3>3 DEF Suspended, Journaled
  <2>2. CASE CheckpointAfter(i)
    <3>1. Unfinished(txn[i])' /\ txn' = txn
      BY <2>2, AfterHolds, WriterIs
    <3> QED
      BY <1>0, <3>1 DEF Unfinished, Suspended, Journaled
  <2> QED
    BY <1>3, <2>1, <2>2
<1>4. CASE ProveRelease(i) \/ CheckpointBefore(i) \/ StageCapability(i)
  <2>1. RemovalInv' /\ cmd'[i] = "uninstall" /\ txn' = txn
    BY <1>0, <1>4, CheckpointHolds, WriterIs
  <2>2. at'[i] \in {"before", "remove", "after"}
    BY <1>4 DEF ProveRelease, CheckpointBefore, StageCapability, Continue, Goto, Load, IInv, Types
  <2>3. Unfinished(txn[i])'
    BY <2>1, <2>2 DEF RemovalInv, RemovalAt
  <2> QED
    BY <1>0, <2>1, <2>3 DEF Unfinished, Suspended, Journaled
<1>5. CASE PlanRemoval(i)
  <2>1. staging'[t] = staging[t] /\ disturbed' = disturbed
    BY <1>0, <1>1, <1>5, WriterIs DEF PlanRemoval, Kept
  <2> QED
    BY <1>1, <2>1 DEF Suspended, Journaled
<1>6. CASE CommitRemoval(i)
  <2>1. /\ RemovalInv' /\ Journaled(txn[i]) /\ cmd'[i] = "uninstall" /\ txn' = txn /\ Disturbs
        /\ staging[txn[i]].journal.done >= Len(staging[txn[i]].plan)
        /\ \A u \in Installers \ {txn[i]} : staging'[u] = staging[u]
        /\ journal' = journal /\ Driving(i) /\ Alone(i)
    BY <1>0, <1>6, CommitHolds, WriterIs
  <2>2. at'[i] = "release" /\ disturbed' = disturbed
    BY <1>6 DEF CommitRemoval, Kept, Continue, Goto, Load, IInv, Types
  <2>3. CASE t # txn[i]
    BY <1>1, <2>1, <2>2, <2>3 DEF Suspended, Journaled
  <2>4. CASE txn[i] \in disturbed
    <3>1. staging'[txn[i]] = [staging[txn[i]] EXCEPT !.journal.committed = TRUE]
      BY <1>0, <1>6 DEF CommitRemoval, Stage, RemovalInv, FileTypes
    <3>2. staging[txn[i]] \in Recovery /\ staging[txn[i]].journal \in Progress
      BY <1>0, <2>1, Underway, DirectoryTyped DEF RemovalInv, Journaled
    <3>3. staging'[txn[i]] \in Recovery
      BY <2>1, <3>1, <3>2, DirectoryTyped DEF Journaled
    <3>4. staging'[txn[i]].journal = [staging[txn[i]].journal EXCEPT !.committed = TRUE]
      BY <3>1, <3>2 DEF Recovery
    <3>5. staging'[txn[i]].journal \in Progress
      BY <3>2, <3>4 DEF Progress
    <3>6. Journaled(txn[i])'
      BY <2>1, <3>3, <3>5, RecoveryAssumption DEF Journaled
    <3> QED
      BY <1>0, <2>1, <2>2, <2>4, <3>6 DEF Suspended, Journaled
  <2>5. CASE txn[i] \notin disturbed
    <3>1. /\ staging[txn[i]].journal.done \in Nat /\ Len(staging[txn[i]].plan) \in Nat
          /\ Remains(txn[i], staging[txn[i]].journal.done + 1)
      BY <1>0, <2>1, <2>5, Underway DEF RemovalInv, Progressing
    <3>2. journal = None
      BY <2>1, <3>1 DEF Remains, Lists, Installed
    <3>3. JournalIs' /\ StepIs(i)'
      BY <2>1, <2>2, <3>2, RemovalSaysNothing DEF JournalIs
    <3> QED
      BY <2>1, <3>3, OneMoves DEF Alone
  <2> QED
    BY <2>3, <2>4, <2>5
<1>7. CASE SweepStaging(i)
  <2>1. Swept(txn[i]) /\ \A u \in Installers \ {txn[i]} : staging'[u] = staging[u]
    BY <1>0, <1>7 DEF SweepStaging, OfRemoval, RemovalAt, Stage, RemovalInv, FileTypes
  <2>2. CASE ~Intact(txn[i]) /\ txn[i] \in disturbed
    BY <1>7, <2>2 DEF SweepStaging, Overrun
  <2>3. CASE ~(~Intact(txn[i]) /\ txn[i] \in disturbed)
    <3>1. disturbed' = disturbed
      BY <1>7, <2>3 DEF SweepStaging
    <3>2. CASE t # txn[i]
      BY <1>1, <2>1, <3>1, <3>2 DEF Suspended, Journaled
    <3>3. CASE t = txn[i]
      <4>1. Intact(txn[i])
        BY <1>1, <2>1, <2>3, <3>3 DEF Swept, Journaled
      <4>2. staging'[t] = [staging[t] EXCEPT !.whole = FALSE] /\ staging[t] \in Recovery
        BY <1>0, <1>1, <1>7, <3>3, <4>1, Underway DEF SweepStaging, Stage, RemovalInv, FileTypes
      <4>3. /\ [staging[t] EXCEPT !.whole = FALSE] \in Recovery
            /\ [staging[t] EXCEPT !.whole = FALSE].journal = staging[t].journal
        BY <4>2, DirectoryTyped DEF Recovery
      <4> QED
        BY <1>1, <3>1, <4>2, <4>3, RecoveryAssumption DEF Suspended, Journaled
    <3> QED
      BY <3>2, <3>3
  <2> QED
    BY <2>2, <2>3
<1> QED
  BY <1>2, <1>3, <1>4, <1>5, <1>6, <1>7 DEF RemovalStep

(* An uninstall leaves the journal alone, or is suspended.                 *)
LEMMA RemovalRecovers ==
    ASSUME IInv, IInv', Shapes, RemovalInv, RecoveryInv, NEW i \in Installers, RemovalStep(i)
    PROVE  Suspended' \/ RecoveryInv'
<1>0. txn[i] \in Installers /\ RemovalAt(i) /\ cmd[i] = "uninstall"
  BY AtRemoval
<1>1. CASE RemovalRefused(i)
  BY <1>1, RefuseRecovers DEF RemovalRefused
<1>2. CASE RemoveRelease(i) \/ RemoveMetadata(i)
  <2>1. at[i] = "remove" /\ staging' = staging
    BY <1>2 DEF RemoveRelease, RemoveMetadata, Removes, OfRemoval, bootVars
  <2>2. Unfinished(txn[i])
    BY <1>0, <2>1 DEF RemovalAt
  <2> QED
    BY <1>0, <2>1, <2>2 DEF Unfinished, Suspended, Journaled
<1>3. CASE SweepStaging(i)
  <2>1. UNCHANGED Written /\ at[i] = "sweep"
    BY <1>3 DEF SweepStaging, OfRemoval, Written, journalVars, storeVars
  <2>2. CASE End(i)
    BY <2>1, <2>2, Ends
  <2>3. CASE ~End(i)
    <3>1. UNCHANGED <<cmd, at, plan, txn>>
      BY <1>3, <2>1, <2>3 DEF SweepStaging, Continue, Goto, Load, IInv, Types
    <3> QED
      BY <2>1, <3>1, RunsStay
  <2> QED
    BY <2>2, <2>3
<1>4. CASE \/ FindJournal(i) \/ PlanRemoval(i) \/ JournalRemoval(i) \/ ProveRelease(i)
           \/ CheckpointBefore(i) \/ CheckpointAfter(i) \/ RemoveAsset(i) \/ StageCapability(i)
           \/ CleanUpCapability(i) \/ CommitRemoval(i)
  <2>1. /\ UNCHANGED Written /\ at[i] # "sweep"
        /\ \E a \in {"journal", "next", "before", "remove", "after", "release"} :
              Load(i, "uninstall", a, plan[i])
    BY <1>0, <1>4 DEF FindJournal, PlanRemoval, JournalRemoval, ProveRelease, CheckpointBefore,
       CheckpointAfter, RemoveAsset, StageCapability, CleanUpCapability, CommitRemoval, OfRemoval,
       Removes, Continue, Goto, Kept, Others, Written, bootVars, journalVars, storeVars
  <2>2. Driving(i)
    BY <1>0, <2>1 DEF Driving
  <2>3. PICK a \in {"journal", "next", "before", "remove", "after", "release"} :
              Load(i, "uninstall", a, plan[i])
    BY <2>1
  <2>4. cmd'[i] = "uninstall" /\ at'[i] = a => StepIs(i)'
    BY RemovalSaysNothing
  <2> QED
    BY <2>1, <2>2, <2>3, <2>4, GoesOn
<1> QED
  BY <1>1, <1>2, <1>3, <1>4 DEF RemovalStep

(* The user edits a file of no interest to recover, or suspends an         *)
(* uninstall.                                                              *)
LEMMA EditRecovers ==
    ASSUME IInv, RecoveryInv, Edit
    PROVE  Suspended' \/ RecoveryInv'
<1>1. CASE release' = release
  <2>1. UNCHANGED <<Written, cmd, at, plan, txn>>
    BY <1>1 DEF Edit, Written, journalVars, processVars
  <2> QED
    BY <2>1, RunsStay
<1>2. CASE release' # release
  <2>1. /\ \E c \in Commits : Planning(c)
        /\ staging' = staging
    BY <1>2 DEF Edit
  <2> QED
    BY <2>1 DEF Planning, Suspended, Journaled
<1> QED
  BY <1>1, <1>2

(* Every step leaves an uninstall to be resumed, or a journal to be        *)
(* recovered.                                                              *)
LEMMA StillRecoverable ==
    ASSUME IInv, IInv', Shapes, RemovalInv, Suspended \/ RecoveryInv, [RemovalNext]_allVars
    PROVE  Suspended' \/ RecoveryInv' \/ Overrun'
<1>1. Typed' /\ FileTypes
  BY RemovalFinds, TypedHolds DEF RemovalInv
<1>2. CASE UNCHANGED allVars
  <2>1. UNCHANGED <<Written, cmd, at, plan, txn, staging, disturbed>>
    BY <1>2 DEF allVars, vars, Written, bootVars, journalVars, storeVars, processVars, removalVars
  <2>2. CASE Suspended
    BY <2>1, <2>2, SuspendedStays
  <2>3. CASE RecoveryInv
    BY <2>1, <2>3, RunsStay
  <2> QED
    BY <2>2, <2>3
<1>3. CASE RemovalNext
  <2>1. PICK i \in Installers :
          \/ \E c \in Commits \cup {None} : Start(i, c) /\ Noticed
          \/ \E r \in Installers \cup {None} : StartRemoval(i, r)
          \/ RunStep(i) \/ Interrupt(i) \/ Edit
    BY <1>3 DEF RemovalNext
  <2>2. CASE RemovalStep(i)
    BY <1>1, <2>2, RemovalSuspends, RemovalRecovers
  <2>3. CASE ~RemovalStep(i) /\ Suspended
    <3>1. staging' = staging
      BY <2>1, <2>3, StagingUntouched DEF RunStep, ResumeRefused, Refuse, Interrupt, CleanUpFails,
         Stop, Start, StartRemoval, Edit, bootVars
    <3>2. disturbed \subseteq disturbed'
      BY <2>1, <2>3 DEF RunStep, ResumeRefused, Interrupt, CleanUpFails, StartRemoval, Edit, Noticed,
         removalVars
    <3> QED
      BY <2>3, <3>1, <3>2, SuspendedStays
  <2>4. CASE ~RemovalStep(i) /\ RecoveryInv
    <3>1. CASE Edit
      BY <2>4, <3>1, EditRecovers
    <3>2. CASE Step(i)
      BY <1>1, <2>4, <3>2, StepRecovers
    <3>3. CASE ResumeRefused(i) \/ Stop(i)
      BY <2>4, <3>3, RefuseRecovers, StopRecovers DEF ResumeRefused
    <3>4. CASE CleanUpFails(i)
      <4>1. End(i) /\ UNCHANGED Written
        BY <3>4 DEF CleanUpFails, Written, bootVars, journalVars, storeVars
      <4> QED
        BY <2>4, <4>1, Ends
    <3>5. CASE \/ \E c \in Commits \cup {None} : Start(i, c)
               \/ \E r \in Installers \cup {None} : StartRemoval(i, r)
      <4>1. /\ Fresh(i) /\ cmd[i] = "off" /\ cmd' = [cmd EXCEPT ![i] = "begin"] /\ at' = at
            /\ plan' = plan /\ (\A j \in Installers \ {i} : txn'[j] = txn[j])
            /\ ownership' = ownership \ {i}
            /\ UNCHANGED <<candidate, layout, journal, phase, receipt, manifest, release, pointer>>
        BY <3>5 DEF Start, StartRemoval, IInv, Types, bootVars, journalVars, storeVars
      <4> QED
        BY <2>4, <4>1, StartsRecover
    <3> QED
      BY <2>1, <2>4, <3>1, <3>2, <3>3, <3>4, <3>5 DEF RunStep, Interrupt
  <2> QED
    BY <2>2, <2>3, <2>4
<1> QED
  BY <1>2, <1>3

(* The invariant holds in the beginning,                                   *)
LEMMA InvInit == RemovalInit => Inv
<1> SUFFICES ASSUME RemovalInit
             PROVE  Inv
  OBVIOUS
<1>1. IInv
  BY InitHolds DEF RemovalInit
<1> USE DEF RemovalInit, Init
<1>2. Shapes
  BY DEF Shapes, Shape, Busy
<1>3. FileTypes
  BY DEF FileTypes, Contents
<1>4. \A t \in Installers : Progressing(t)
  BY DEF Progressing, Journaled
<1>5. ASSUME NEW i \in Installers
      PROVE  PublishingIs(i) /\ Unused(i) /\ Identified(i) /\ cmd[i] # "uninstall" /\ StepIs(i)
  BY DEF PublishingIs, Publishing, Unused, Identified, Entered, Busy, StepIs, PhaseAt, PreparedAt,
     FollowedAt, Unjournaled, Preparing, Following
<1>6. PendingIdentified /\ JournalIs
  BY DEF PendingIdentified, JournalIs
<1> QED
  BY <1>1, <1>2, <1>3, <1>4, <1>5, <1>6 DEF Inv, RemovalInv, RecoveryInv

(* and every step keeps it.                                                *)
LEMMA InvNext == Inv /\ [RemovalNext]_allVars => Inv'
<1> SUFFICES ASSUME Inv, [RemovalNext]_allVars
             PROVE  Inv'
  OBVIOUS
<1>1. IInv /\ Shapes
  BY DEF Inv
<1>2. IInv' /\ Shapes'
  BY <1>1, NextHolds, ShapesHold
<1>3. CASE Overrun
  <2>1. Overrun'
    BY <1>1, <1>3, OverrunStays DEF IInv
  <2> QED
    BY <1>2, <2>1 DEF Inv
<1>4. CASE ~Overrun
  <2>1. RemovalInv /\ (Suspended \/ RecoveryInv)
    BY <1>4 DEF Inv
  <2>2. RemovalInv' \/ Overrun'
    BY <1>1, <1>2, <2>1, RemovalInvHolds
  <2>3. Suspended' \/ RecoveryInv' \/ Overrun'
    BY <1>1, <1>2, <2>1, StillRecoverable
  <2> QED
    BY <1>2, <2>2, <2>3 DEF Inv
<1> QED
  BY <1>3, <1>4

(* Whatever is interrupted, and wherever, by whichever installs, rollbacks *)
(* and uninstalls there are: the journal that stands is one that recover   *)
(* accepts, with a pointer that commit accepts - unless an uninstall that  *)
(* was begun is still there to be resumed, or one was carried out over an  *)
(* installation that had changed since it was planned.                     *)
THEOREM JournalsCanBeRecovered == RemovalSpec => []PendingIsRecoverable
<1>1. Inv => PendingIsRecoverable
  BY WhatIsLeftIsRecoverable DEF Inv, IInv, RecoveryInv, Suspended, PendingIsRecoverable, Removing
<1> QED
  BY <1>1, InvInit, InvNext, PTL DEF RemovalSpec

-----------------------------------------------------------------------------
(* What belongs to the user.  A publication knows that whatever stands in  *)
(* the place of an asset is its own or has been linked into legacy-assets; *)
(* an uninstall has evidence of nothing that the user wrote.               *)
SavedIs == \A a \in Assets : layout.original[a] # None => backup[a] = layout.original[a]
PlacedIs == \A a \in Assets : asset[a] \in {None, layout.assets, layout.original[a]}
KeepingAt(i) ==
    /\ at[i] \in {"save", "saved"} => ValidPublication(layout)
    /\ at[i] = "saved" => \A a \in Assets : a = (CHOOSE b \in Unsaved : TRUE) =>
                              backup[a] = layout.original[a]
    /\ at[i] \in {"place_asset", "placed"} => SavedIs /\ PlacedIs
    /\ at[i] = "journal" => layout # None
Shipped(l) == l.assets \notin UsersData
EvidenceIs(t) == Journaled(t) =>
    /\ Shipped(staging[t].was.layout)
    /\ \A c \in Commits : staging[t].was.release[c] # None =>
                              staging[t].was.release[c].build # Removal
KeepingInv ==
    /\ Typed /\ (layout # None => Shipped(layout))
    /\ \A i \in Installers : Finds(i) /\ KeepingAt(i) /\ EvidenceIs(i)
KeepingPlaces == {"save", "saved", "place_asset", "placed", "journal"}

(* Only a run that has the lock is at one of these places.                 *)
LEMMA OnlyDriversKeep ==
    ASSUME NEW i \in Installers, Located(i), ~Driving(i)
    PROVE  at[i] \notin KeepingPlaces \cup {"next", "before", "remove", "after"}
<1>1. at[i] \in Beginning \cup {"start", "sweep"}
  BY DEF Located, Driving, Busy
<1> QED
  BY <1>1 DEF Beginning, KeepingPlaces

(* What a step of an installer does to the files.                          *)
LEMMA FilesOfAStep ==
    ASSUME NEW i \in Installers, Step(i)
    PROVE  /\ staging' = staging
           /\ asset' = asset \/ PlaceAsset(i)
           /\ backup' = backup \/ SaveOriginal(i)
           /\ release' = release \/ MoveCandidate(i) \/ PlaceCandidate(i)
           /\ \/ layout' = layout
              \/ Publish(i) \/ RecordPublication(i) \/ FinishPublication(i)
              \/ Acquire(i) /\ Installed /\ layout' = Committed(layout)
<1>1. CASE LockStep(i)
  BY <1>1 DEF LockStep, BeginRefused, BeginFree, BeginStale, UnlinkStaleOwner, RemoveStaleLock,
     Acquire, ReleaseLock, RemoveLock, Refuse, bootVars, storeVars
<1>2. CASE ShellStep(i) \/ WriteJournal(i)
  BY <1>2 DEF ShellStep, MakeCandidate, Clone, Compare, Adopt, WriteJournal, Refuse, bootVars,
     storeVars
<1>3. CASE PrepareStep(i)
  <2>1. CASE SaveOriginal(i) \/ PlaceAsset(i) \/ MoveCandidate(i)
    BY <2>1 DEF SaveOriginal, PlaceAsset, MoveCandidate, Refuse, bootVars, storeVars
  <2>2. CASE Publish(i) \/ RecordPublication(i) \/ FinishPublication(i)
    BY <2>2 DEF Publish, RecordPublication, FinishPublication, bootVars, storeVars
  <2>3. CASE PublishRefused(i) \/ CheckPublication(i) \/ Prepare(i) \/ DiscardCandidate(i)
             \/ WriteReceipt(i) \/ Own(i) \/ WriteManifest(i)
    BY <2>3 DEF PublishRefused, CheckPublication, Prepare, DiscardCandidate, WriteReceipt, Own,
       WriteManifest, Refuse, bootVars, storeVars
  <2> QED
    BY <1>3, <2>1, <2>2, <2>3 DEF PrepareStep
<1>4. CASE SwitchStep(i)
  BY <1>4 DEF SwitchStep, Recover, PlaceCandidate, Commit, CheckBaseline, SwitchPointer,
     VerifyInstalled, UnlinkJournal, UnlinkOwnership, Rollback, SwapBack, Abort, Refuse,
     bootVars, storeVars
<1> QED
  BY <1>1, <1>2, <1>3, <1>4 DEF Step

(* Where a publication goes.                                               *)
LEMMA PublicationGoes ==
    ASSUME Types, NEW i \in Installers
    PROVE  /\ CheckPublication(i) => at'[i] = "save" /\ UNCHANGED <<asset, backup, layout>>
           /\ SaveOriginal(i) => IF Unsaved = {} THEN at'[i] = "place_asset" ELSE at'[i] = "saved"
           /\ PlaceAsset(i) => IF Unpublished = {} THEN at'[i] = "publishing" ELSE at'[i] = "placed"
           /\ RecordPublication(i) => at'[i] = IF at[i] = "saved" THEN "save" ELSE "place_asset"
<1>1. ASSUME NEW a, Continue(i, a)
      PROVE  at'[i] = a
  BY <1>1 DEF Continue, Goto, Load, Types
<1>2. CheckPublication(i) => at'[i] = "save" /\ UNCHANGED <<asset, backup, layout>>
  BY <1>1 DEF CheckPublication, bootVars
<1>3. SaveOriginal(i) => IF Unsaved = {} THEN at'[i] = "place_asset" ELSE at'[i] = "saved"
  BY <1>1 DEF SaveOriginal
<1>4. PlaceAsset(i) => IF Unpublished = {} THEN at'[i] = "publishing" ELSE at'[i] = "placed"
  BY <1>1 DEF PlaceAsset
<1>5. RecordPublication(i) => at'[i] = IF at[i] = "saved" THEN "save" ELSE "place_asset"
  BY <1>1 DEF RecordPublication
<1> QED
  BY <1>2, <1>3, <1>4, <1>5

(* Any other step of an installer goes to none of these places.            *)
Publicly(i) == CheckPublication(i) \/ SaveOriginal(i) \/ PlaceAsset(i) \/ RecordPublication(i)
LEMMA OthersGoElsewhere ==
    ASSUME IInv, NEW i \in Installers, Step(i), ~Publicly(i)
    PROVE  at'[i] \notin KeepingPlaces \cup {"next", "before", "remove", "after"}
<1> DEFINE Elsewhere == Places \ (KeepingPlaces \cup {"next", "before", "remove", "after"})
<1>1. CASE End(i)
  BY <1>1 DEF End, IInv, Types, KeepingPlaces
<1>2. CASE \E c, p : \E a \in Elsewhere : Load(i, c, a, p)
  BY <1>2, Moves
<1>3. CASE Refuse(i)
  BY <1>1, <1>3 DEF Refuse
<1> HIDE DEF Elsewhere
<1>4. CASE LockStep(i)
  <2>1. CASE BeginStale(i)
    BY <2>1 DEF BeginStale, IInv, Types, KeepingPlaces
  <2>2. CASE Acquire(i) \/ BeginFree(i) \/ UnlinkStaleOwner(i) \/ RemoveStaleLock(i)
             \/ ReleaseLock(i) \/ RemoveLock(i)
    <3>1. End(i) \/ \E c : \E a \in {"start", "mkdir", "release", "acquire", "rmdir", "unlock", "sweep"} :
                       Load(i, c, a, plan[i])
      BY <2>2 DEF Acquire, AfterBegin, BeginFree, UnlinkStaleOwner, RemoveStaleLock, ReleaseLock,
         RemoveLock, Refuse, Continue, Goto
    <3>2. {"start", "mkdir", "release", "acquire", "rmdir", "unlock", "sweep"} \subseteq Elsewhere
      BY DEF Elsewhere, Places, Beginning, KeepingPlaces
    <3> QED
      BY <1>1, <1>2, <3>1, <3>2
  <2> QED
    BY <1>3, <1>4, <2>1, <2>2 DEF LockStep, BeginRefused
<1>5. CASE ShellStep(i)
  <2>1. Refuse(i) \/ \E c : \E a \in {"clone", "compare", "readopt", "start"} : Load(i, c, a, plan[i])
    BY <1>5 DEF ShellStep, MakeCandidate, Clone, Compare, Adopt, Continue, Goto
  <2>2. {"clone", "compare", "readopt", "start"} \subseteq Elsewhere
    BY DEF Elsewhere, Places, KeepingPlaces
  <2> QED
    BY <1>2, <1>3, <2>1, <2>2
<1>6. CASE PrepareStep(i)
  <2>1. CASE Prepare(i) /\ ~Refuse(i)
    <3>1. \E p : \E a \in {"retain", "receipt"} : Load(i, "prepare", a, p)
      BY <2>1 DEF Prepare
    <3>2. {"retain", "receipt"} \subseteq Elsewhere
      BY DEF Elsewhere, Places, Uses, KeepingPlaces
    <3> QED
      BY <1>2, <3>1, <3>2
  <2>2. CASE ~Prepare(i) /\ ~Refuse(i)
    <3>1. \E c : \E a \in {"check", "unpend", "start", "reown", "journaled", "owned",
                           "release_ready", "manifested"} : Load(i, c, a, plan[i])
      BY <1>6, <2>2 DEF PrepareStep, Publicly, Publish, PublishRefused, FinishPublication,
         DiscardCandidate, WriteReceipt, Own, WriteManifest, MoveCandidate, Continue, Goto
    <3>2. {"check", "unpend", "start", "reown", "journaled", "owned", "release_ready", "manifested"}
             \subseteq Elsewhere
      BY DEF Elsewhere, Places, Uses, Phases, Publishing, KeepingPlaces
    <3> QED
      BY <1>2, <3>1, <3>2
  <2> QED
    BY <1>3, <2>1, <2>2
<1>7. CASE WriteJournal(i) \/ SwitchStep(i)
  <2>1. CASE WriteJournal(i)
    <3>1. \E c : \E a \in {"own", "manifest", "prepared", "place", "move", "adopt", "baseline",
                           "committed", "verify"} : Load(i, c, a, plan[i])
      BY <2>1 DEF WriteJournal, AfterJournal, Phases, Continue, Goto
    <3>2. {"own", "manifest", "prepared", "place", "move", "adopt", "baseline", "committed", "verify"}
             \subseteq Elsewhere
      BY DEF Elsewhere, Places, Uses, Phases, KeepingPlaces
    <3> QED
      BY <1>2, <3>1, <3>2
  <2>2. CASE Recover(i) /\ ~Refuse(i)
    <3>1. Load(i, Resume(phase)[1], Resume(phase)[2], journal) /\ phase \in Phases
      BY <2>2 DEF Recover, IInv, Types
    <3>2. Resume(phase)[2] \in {"own", "manifest", "prepared", "place", "adopt", "start", "finish"}
      BY <3>1 DEF Resume, Phases
    <3>3. {"own", "manifest", "prepared", "place", "adopt", "start", "finish"} \subseteq Elsewhere
      BY DEF Elsewhere, Places, Uses, Phases, KeepingPlaces
    <3> QED
      BY <1>2, <3>1, <3>2, <3>3
  <2>3. CASE Commit(i) /\ ~Refuse(i)
    <3>1. \E a \in {"adopted", "baseline"} : Load(i, "commit", a, journal)
      BY <2>3 DEF Commit
    <3>2. {"adopted", "baseline"} \subseteq Elsewhere
      BY DEF Elsewhere, Places, Uses, Phases, KeepingPlaces
    <3> QED
      BY <1>2, <3>1, <3>2
  <2>4. CASE Rollback(i) /\ ~Refuse(i)
    <3>1. \E p : Load(i, "rollback", "swapback", p)
      BY <2>4 DEF Rollback
    <3>2. "swapback" \in Elsewhere
      BY DEF Elsewhere, Places, Uses, KeepingPlaces
    <3> QED
      BY <1>2, <3>1, <3>2
  <2>5. CASE SwitchStep(i) /\ ~Recover(i) /\ ~Commit(i) /\ ~Rollback(i) /\ ~Refuse(i) /\ ~End(i)
    <3>1. \E c : \E a \in {"release_ready", "swap", "switched", "finish", "unown", "release"} :
             Load(i, c, a, plan[i])
      BY <2>5 DEF SwitchStep, PlaceCandidate, CheckBaseline, SwitchPointer, VerifyInstalled,
         UnlinkJournal, UnlinkOwnership, SwapBack, Abort, Continue, Goto
    <3>2. {"release_ready", "swap", "switched", "finish", "unown", "release"} \subseteq Elsewhere
      BY DEF Elsewhere, Places, Uses, Phases, KeepingPlaces
    <3> QED
      BY <1>2, <3>1, <3>2
  <2> QED
    BY <1>1, <1>3, <1>7, <2>1, <2>2, <2>3, <2>4, <2>5
<1> QED
  BY <1>4, <1>5, <1>6, <1>7 DEF Step

-----------------------------------------------------------------------------
(* How what belongs to the user is kept, step by step of an installer.     *)
AtStays(i) == \A j \in Installers \ {i} : at'[j] = at[j] /\ txn'[j] = txn[j]

LEMMA OthersStay ==
    ASSUME IInv, Shapes, NEW i \in Installers, Step(i)
    PROVE  AtStays(i)
<1>1. CASE End(i)
  BY <1>1 DEF End, IInv, Types, AtStays
<1>2. CASE \E c, a, p : Load(i, c, a, p)
  BY <1>2, Moves DEF AtStays
<1>3. CASE LockStep(i)
  <2>1. CASE BeginStale(i)
    BY <2>1 DEF BeginStale, IInv, Types, AtStays
  <2> QED
    BY <1>1, <1>2, <1>3, <2>1 DEF LockStep, BeginRefused, BeginFree, UnlinkStaleOwner,
       RemoveStaleLock, Acquire, AfterBegin, ReleaseLock, RemoveLock, Refuse, Continue, Goto
<1>4. CASE ~LockStep(i)
  <2>1. Proceeds(i)
    BY <1>4, ShellProceeds, PrepareProceeds, JournalProceeds, SwitchProceeds DEF Step
  <2> QED
    BY <1>1, <1>2, <2>1 DEF Proceeds
<1> QED
  BY <1>3, <1>4

(* The invariant stays when one run moves, and only it can tell.           *)
LEMMA KeepingStays ==
    ASSUME IInv, IInv', KeepingInv, Typed', NEW i \in Installers, AtStays(i), staging' = staging,
           layout' # None => Shipped(layout)',
           \/ UNCHANGED <<asset, backup, layout>>
           \/ Driving(i)
           \/ \A j \in Installers : ~Driving(j),
           KeepingAt(i)', Finds(i)'
    PROVE  KeepingInv'
<1>1. ASSUME NEW j \in Installers
      PROVE  EvidenceIs(j)'
  BY DEF KeepingInv, EvidenceIs, Journaled, Shipped
<1>2. ASSUME NEW j \in Installers \ {i}
      PROVE  Finds(j)'
  BY DEF KeepingInv, Finds, Journaled, AtStays
<1>3. ASSUME NEW j \in Installers \ {i}
      PROVE  KeepingAt(j)'
  <2>1. CASE UNCHANGED <<asset, backup, layout>>
    BY <2>1 DEF KeepingInv, KeepingAt, AtStays, ValidPublication, Unsaved, SavedIs, PlacedIs
  <2>2. CASE ~Driving(j)
    <3>1. at'[j] \notin KeepingPlaces
      BY <2>2, OnlyDriversKeep DEF AtStays, IInv, Locking
    <3> QED
      BY <3>1 DEF KeepingAt, KeepingPlaces
  <2> QED
    BY <2>1, <2>2, DriverIsAlone DEF IInv
<1> QED
  BY <1>1, <1>2, <1>3 DEF KeepingInv

(* What a layout says of the assets that a commit ships.                   *)
LEMMA LayoutsShip ==
    ASSUME IInv, KeepingInv, NEW i \in Installers, Step(i)
    PROVE  layout' # None => Shipped(layout)'
<1>1. layout # None => layout \in Layout /\ Shipped(layout)
  BY DEF KeepingInv, Typed, FileTypes
<1>2. CASE layout' = layout
  BY <1>1, <1>2 DEF Shipped
<1>3. CASE Publish(i)
  <2>1. want[i] \in Commits
    BY <1>3 DEF Publish, IInv, PlanIs
  <2>2. NewLayout(AssetsOf[want[i]]).assets \notin UsersData
    BY <2>1, ContentsAssumption DEF NewLayout, UsersData
  <2> QED
    BY <1>2, <1>3, <2>2 DEF Publish, Shipped
<1>4. CASE RecordPublication(i) \/ FinishPublication(i)
  <2>1. at[i] \in Publishing
    BY <1>4 DEF RecordPublication, FinishPublication, Publishing
  <2>2. layout \in Layout /\ Shipped(layout)
    BY <1>1, <2>1, LayoutTyped DEF KeepingInv
  <2>3. layout'.assets = layout.assets
    BY <1>4, <2>2 DEF RecordPublication, FinishPublication, Committed, Layout
  <2> QED
    BY <2>2, <2>3 DEF Shipped
<1>5. CASE Installed /\ layout' = Committed(layout)
  <2>1. layout'.assets = layout.assets
    BY <1>1, <1>5 DEF Installed, Committed, Layout
  <2> QED
    BY <1>1, <1>5, <2>1 DEF Shipped, Installed
<1> QED
  BY <1>2, <1>3, <1>4, <1>5, FilesOfAStep

(* A publication goes on.                                                  *)
LEMMA PublicationSpares ==
    ASSUME IInv, KeepingInv, NEW i \in Installers, Publicly(i)
    PROVE  KeepingAt(i)' /\ Finds(i)' /\ Driving(i)
<1>0. /\ at[i] \in Publishing /\ Driving(i) /\ KeepingAt(i) /\ Types
      /\ layout \in Layout /\ Unsaved \subseteq Assets /\ Unpublished \subseteq Assets
      /\ backup \in [Assets -> Contents \cup {None}] /\ asset \in [Assets -> Contents \cup {None}]
  <2>1. at[i] \in Publishing
    BY DEF Publicly, CheckPublication, SaveOriginal, PlaceAsset, RecordPublication, Publishing
  <2>2. Driving(i)
    BY <2>1, PastBegin DEF Publishing, Beginning
  <2>3. Typed /\ KeepingAt(i)
    BY DEF KeepingInv
  <2>4. layout \in Layout /\ Unsaved \subseteq Assets /\ Unpublished \subseteq Assets
    BY <2>1, <2>3, LayoutTyped
  <2>5. /\ backup \in [Assets -> Contents \cup {None}] /\ asset \in [Assets -> Contents \cup {None}]
        /\ Types
    BY <2>3 DEF Typed, FileTypes, IInv
  <2> QED
    BY <2>1, <2>2, <2>3, <2>4, <2>5
<1>1. ASSUME at'[i] \in {"save", "saved", "place_asset", "placed", "publishing"},
             at'[i] \in {"save", "saved"} => ValidPublication(layout)',
             at'[i] = "saved" => \A a \in Assets : a = (CHOOSE b \in Unsaved' : TRUE) =>
                                     backup'[a] = layout'.original[a],
             at'[i] \in {"place_asset", "placed"} => SavedIs' /\ PlacedIs'
      PROVE  KeepingAt(i)' /\ Finds(i)' /\ Driving(i)
  BY <1>0, <1>1 DEF KeepingAt, Finds
<1>2. CASE CheckPublication(i)
  <2>1. at'[i] = "save" /\ UNCHANGED <<asset, backup, layout>> /\ ValidPublication(layout)
    BY <1>0, <1>2, PublicationGoes DEF CheckPublication
  <2> QED
    BY <1>1, <2>1 DEF ValidPublication
<1>3. CASE SaveOriginal(i)
  <2>1. at[i] = "save" /\ UNCHANGED <<asset, layout>> /\ ValidPublication(layout)
    BY <1>0, <1>3 DEF SaveOriginal, KeepingAt
  <2>2. CASE Unsaved = {}
    <3>1. at'[i] = "place_asset" /\ backup' = backup
      BY <1>0, <1>3, <2>2, PublicationGoes DEF SaveOriginal
    <3>2. SavedIs /\ PlacedIs
      BY <2>1, <2>2 DEF ValidPublication, Unsaved, SavedIs, PlacedIs
    <3> QED
      BY <1>1, <2>1, <3>1, <3>2 DEF SavedIs, PlacedIs
  <2>3. CASE Unsaved # {}
    <3> DEFINE b == CHOOSE a \in Unsaved : TRUE
    <3>1. /\ at'[i] = "saved" /\ b \in Assets
          /\ backup' = [backup EXCEPT ![b] = layout.original[b]]
      BY <1>0, <1>3, <2>3, PublicationGoes DEF SaveOriginal
    <3>2. b = CHOOSE a \in Unsaved' : TRUE
      BY <2>1 DEF Unsaved
    <3> HIDE DEF b
    <3>3. /\ backup'[b] = layout.original[b]
          /\ \A a \in Assets \ {b} : backup'[a] = backup[a]
      BY <1>0, <3>1
    <3>4. ValidPublication(layout)'
      BY <2>1, <3>3 DEF ValidPublication
    <3> QED
      BY <1>1, <2>1, <3>1, <3>2, <3>3, <3>4
  <2> QED
    BY <2>2, <2>3
<1>4. CASE PlaceAsset(i)
  <2>1. at[i] = "place_asset" /\ UNCHANGED <<backup, layout>> /\ SavedIs /\ PlacedIs
    BY <1>0, <1>4 DEF PlaceAsset, KeepingAt
  <2>2. CASE Unpublished = {}
    BY <1>0, <1>1, <1>4, <2>2, PublicationGoes
  <2>3. CASE Unpublished # {}
    <3>1. at'[i] = "placed" /\ \E a \in Assets : asset' = [asset EXCEPT ![a] = layout.assets]
      BY <1>0, <1>4, <2>3, PublicationGoes DEF PlaceAsset
    <3>2. SavedIs' /\ PlacedIs'
      BY <1>0, <2>1, <3>1 DEF SavedIs, PlacedIs
    <3> QED
      BY <1>1, <3>1, <3>2
  <2> QED
    BY <2>2, <2>3
<1>5. CASE RecordPublication(i)
  <2>1. at[i] \in {"saved", "placed"} /\ UNCHANGED <<asset, backup>>
    BY <1>5 DEF RecordPublication
  <2>2. CASE at[i] = "saved"
    <3> DEFINE b == CHOOSE a \in Unsaved : TRUE
    <3>1. /\ at'[i] = "save" /\ layout' = [layout EXCEPT !.saved = @ \cup {b}]
          /\ ValidPublication(layout) /\ (b \in Assets => backup[b] = layout.original[b])
      BY <1>0, <1>5, <2>2, PublicationGoes DEF RecordPublication, KeepingAt
    <3> HIDE DEF b
    <3>2. /\ layout'.original = layout.original /\ layout'.assets = layout.assets
          /\ layout'.published = layout.published /\ layout'.saved = layout.saved \cup {b}
      BY <1>0, <3>1 DEF Layout
    <3>3. ValidPublication(layout)'
      BY <2>1, <3>1, <3>2 DEF ValidPublication
    <3> QED
      BY <1>1, <3>1, <3>3
  <2>3. CASE at[i] = "placed"
    <3>1. at'[i] = "place_asset" /\ SavedIs /\ PlacedIs
      BY <1>0, <1>5, <2>3, PublicationGoes DEF KeepingAt
    <3>2. layout'.original = layout.original /\ layout'.assets = layout.assets
      BY <1>0, <1>5, <2>3 DEF RecordPublication, Layout
    <3> QED
      BY <1>1, <2>1, <3>1, <3>2 DEF SavedIs, PlacedIs
  <2> QED
    BY <2>1, <2>2, <2>3
<1> QED
  BY <1>2, <1>3, <1>4, <1>5 DEF Publicly

(* Every step of an installer keeps the invariant,                         *)
LEMMA InstallersKeep ==
    ASSUME IInv, IInv', Shapes, KeepingInv, Typed', NEW i \in Installers, Step(i)
    PROVE  KeepingInv'
<1>1. AtStays(i) /\ staging' = staging /\ (layout' # None => Shipped(layout)')
  BY OthersStay, FilesOfAStep, LayoutsShip
<1>2. CASE Publicly(i)
  <2>1. KeepingAt(i)' /\ Finds(i)' /\ Driving(i)
    BY <1>2, PublicationSpares
  <2> QED
    BY <1>1, <2>1, KeepingStays
<1>3. CASE ~Publicly(i)
  <2>1. KeepingAt(i)' /\ Finds(i)'
    BY <1>3, OthersGoElsewhere DEF KeepingAt, Finds, KeepingPlaces
  <2>2. asset' = asset /\ backup' = backup
    BY <1>3, FilesOfAStep DEF Publicly
  <2>3. CASE layout' = layout
    BY <1>1, <2>1, <2>2, <2>3, KeepingStays
  <2>4. CASE Publish(i) \/ FinishPublication(i)
    <3>1. at[i] \in {"publishing", "unpend"} \/ (cmd[i] = "publish" /\ at[i] = "start")
      BY <2>4 DEF Publish, FinishPublication
    <3>2. Driving(i)
      BY <3>1, PastBegin DEF Beginning
    <3> QED
      BY <1>1, <2>1, <3>2, KeepingStays
  <2>5. CASE Acquire(i)
    <3>1. \A j \in Installers : ~Driving(j)
      BY <2>5 DEF Acquire, IInv, Locking, Located, LockIs, Busy, Beginning
    <3> QED
      BY <1>1, <2>1, <3>1, KeepingStays
  <2> QED
    BY <1>3, <2>3, <2>4, <2>5, FilesOfAStep DEF Publicly
<1> QED
  BY <1>2, <1>3

(* and what the user wrote.                                                *)
LEMMA InstallersSpare ==
    ASSUME IInv, KeepingInv, NEW i \in Installers, Step(i), skills' = skills
    PROVE  KeepsUsersData
<1>1. /\ backup \in [Assets -> Contents \cup {None}] /\ asset \in [Assets -> Contents \cup {None}]
      /\ release \in [Commits -> Release \cup {None}] /\ None \notin UsersData /\ KeepingAt(i)
  BY ContentsAssumption DEF KeepingInv, Typed, FileTypes, UsersData
<1>2. \A a \in Assets : backup[a] \in UsersData => backup'[a] = backup[a]
  <2>1. CASE backup' = backup
    BY <2>1
  <2>2. CASE SaveOriginal(i) /\ backup' # backup
    <3> DEFINE b == CHOOSE a \in Unsaved : TRUE
    <3>1. /\ Unsaved # {} /\ backup' = [backup EXCEPT ![b] = layout.original[b]]
          /\ ValidPublication(layout)
      BY <1>1, <2>2 DEF SaveOriginal, KeepingAt
    <3>2. b \in Unsaved
      BY <3>1
    <3> HIDE DEF b
    <3>3. backup[b] \in {None, layout.original[b]}
      BY <3>1, <3>2 DEF ValidPublication, Unsaved
    <3> QED
      BY <1>1, <3>1, <3>3
  <2> QED
    BY <2>1, <2>2, FilesOfAStep
<1>3. \A a \in Assets : asset[a] \in UsersData => asset[a] \in {asset'[a], backup'[a]}
  <2>1. CASE asset' = asset
    BY <2>1
  <2>2. CASE PlaceAsset(i)
    <3>1. SavedIs /\ PlacedIs /\ backup' = backup /\ layout # None
      BY <1>1, <2>2, LayoutTyped DEF PlaceAsset, KeepingAt, KeepingInv, Publishing
    <3>2. layout.assets \notin UsersData
      BY <3>1 DEF KeepingInv, Shipped
    <3> QED
      BY <1>1, <3>1, <3>2 DEF SavedIs, PlacedIs
  <2> QED
    BY <2>1, <2>2, FilesOfAStep
<1>4. \A c \in Commits : release[c] # None /\ release[c].build = Removal => release'[c] = release[c]
  <2>1. CASE release' = release
    BY <2>1
  <2>2. CASE MoveCandidate(i) /\ release' # release
    <3>1. PICK d : release[d] = None /\ \E f : release' = [release EXCEPT ![d] = f]
      BY <2>2 DEF MoveCandidate, Refuse, storeVars
    <3> QED
      BY <1>1, <3>1
  <2>3. CASE PlaceCandidate(i) /\ release' # release
    <3> DEFINE p == plan[i].payload
    <3>1. p.build \in Installers
      <4>1. plan[i] \in Plan
        BY <2>3 DEF PlaceCandidate, IInv, PlanIs, Uses
      <4> QED
        BY <4>1 DEF Plan, Payload
    <3> HIDE DEF p
    <3>2. /\ release[p.commit] \in {None, p} /\ release' = [release EXCEPT ![p.commit] = p]
      BY <2>3 DEF PlaceCandidate, Refuse, storeVars, p
    <3> QED
      BY <1>1, <3>1, <3>2, NoneAssumption
  <2> QED
    BY <2>1, <2>2, <2>3, FilesOfAStep
<1> QED
  BY <1>2, <1>3, <1>4 DEF KeepsUsersData

-----------------------------------------------------------------------------
(* How what belongs to the user is kept, step by step of an uninstall.     *)

(* What happens to a recovery directory: a plan has no evidence yet, and   *)
(* the journal that comes with it keeps it.                                *)
LEMMA RemovalStaging ==
    ASSUME IInv, Typed, NEW i \in Installers, Finds(i), RemovalStep(i), NEW t \in Installers
    PROVE  /\ JournalRemoval(i) /\ t = txn[i] => Journaled(t)'
           /\ \/ staging'[t] = staging[t] \/ staging'[t] = None
              \/ PlanRemoval(i) /\ ~Journaled(t)'
              \/ JournalRemoval(i) /\ Journaled(t)' /\ staging'[t].was = Evidence
              \/ /\ staging'[t].was = staging[t].was
                 /\ staging[t] # None /\ (Journaled(t)' <=> Journaled(t))
<1>0. /\ staging \in [Installers -> Recovery \cup {None}] /\ txn[i] \in Installers /\ FileTypes
      /\ staging' \in [Installers -> Recovery \cup {None}]
  BY DirectoryStaysTyped DEF Typed, FileTypes, IInv, Types
<1>1. ASSUME NEW s, Stage(i, s)
      PROVE  staging'[t] = IF t = txn[i] THEN s ELSE staging[t]
  BY <1>0, <1>1 DEF Stage
<1>2. CASE t # txn[i] /\ \E s : Stage(i, s)
  BY <1>1, <1>2
<1>3. ASSUME UNCHANGED staging
      PROVE  staging'[t] = staging[t]
  BY <1>3
<1>4. CASE t = txn[i] /\ PlanRemoval(i) /\ ~JournalRemoval(i)
  <2>1. staging'[t] = [plan |-> RemovalPlan, journal |-> None, was |-> None, proofs |-> {},
                       skills |-> None, whole |-> TRUE]
    BY <1>1, <1>4 DEF PlanRemoval
  <2> QED
    BY <1>4, <2>1 DEF Journaled
<1>5. CASE t = txn[i] /\ JournalRemoval(i)
  <2> DEFINE j == [done |-> 0, begun |-> FALSE, committed |-> FALSE]
  <2>1. staging'[t] = [staging[t] EXCEPT !.was = Evidence, !.journal = j] /\ staging[t] \in Recovery
    BY <1>0, <1>1, <1>5 DEF JournalRemoval, Intact
  <2>2. Evidence \in Witness /\ j \in Progress
    BY <1>0, EvidenceTyped DEF Progress
  <2> HIDE DEF j
  <2>3. staging'[t].was = Evidence /\ staging'[t].journal = j
    BY <2>1 DEF Recovery
  <2>4. [staging[t] EXCEPT !.was = Evidence, !.journal = j] \in Recovery
    <3>1. ASSUME NEW s \in Recovery, NEW w \in Witness, NEW q \in Progress
          PROVE  [s EXCEPT !.was = w, !.journal = q] \in Recovery
      BY DirectoryTyped, Zenon
    <3> QED
      BY <2>1, <2>2, <3>1
  <2>5. staging'[t] \in Recovery
    BY <2>1, <2>4
  <2> QED
    BY <1>5, <2>2, <2>3, <2>5, RecoveryAssumption DEF Journaled
<1>6. ASSUME staging[t] \in Recovery, staging'[t] \in Recovery,
             staging'[t].was = staging[t].was, (staging'[t].journal # None <=> staging[t].journal # None)
      PROVE  /\ staging'[t].was = staging[t].was
             /\ staging[t] # None /\ (Journaled(t)' <=> Journaled(t))
  BY <1>6, RecoveryAssumption DEF Journaled
<1>7. CASE /\ t = txn[i] /\ ~JournalRemoval(i)
           /\ (ProveRelease(i) \/ StageCapability(i) \/ (SweepStaging(i) /\ Intact(t)))
  <2>1. /\ staging[t] \in Recovery
        /\ \/ \E p : staging'[t] = [staging[t] EXCEPT !.proofs = p]
           \/ \E k : staging'[t] = [staging[t] EXCEPT !.skills = k]
           \/ staging'[t] = [staging[t] EXCEPT !.whole = FALSE]
    BY <1>0, <1>1, <1>7 DEF ProveRelease, StageCapability, SweepStaging, Removes, Checked, HasNext, Intact
  <2>2. staging'[t].was = staging[t].was /\ staging'[t].journal = staging[t].journal
    BY <2>1 DEF Recovery
  <2>3. staging'[t] = None \/ staging'[t] \in Recovery
    BY <1>0
  <2> QED
    BY <1>6, <1>7, <2>1, <2>2, <2>3
<1>8. CASE /\ t = txn[i] /\ ~JournalRemoval(i)
           /\ (CheckpointBefore(i) \/ CheckpointAfter(i) \/ CommitRemoval(i))
  <2>1. staging[t] \in Recovery /\ staging[t].journal # None /\ staging[t].journal \in Progress
    <3>1. Intact(t) /\ at[i] \in {"next", "before", "after"}
      BY <1>8 DEF CheckpointBefore, CheckpointAfter, CommitRemoval, OfRemoval, Checked, HasNext
    <3>2. Journaled(t)
      BY <1>8, <3>1 DEF Intact, Finds
    <3> QED
      BY <1>0, <3>2, Underway DEF Journaled
  <2>2. \/ staging'[t] = [staging[t] EXCEPT !.journal.begun = TRUE]
        \/ staging'[t] = [staging[t] EXCEPT !.journal.begun = FALSE, !.journal.done = @ + 1]
        \/ staging'[t] = [staging[t] EXCEPT !.journal.committed = TRUE]
    BY <1>1, <1>8 DEF CheckpointBefore, CheckpointAfter, CommitRemoval
  <2>3. /\ staging'[t].was = staging[t].was
        /\ \/ staging'[t].journal = [staging[t].journal EXCEPT !.begun = TRUE]
           \/ staging'[t].journal = [staging[t].journal EXCEPT !.begun = FALSE, !.done = @ + 1]
           \/ staging'[t].journal = [staging[t].journal EXCEPT !.committed = TRUE]
    BY <2>1, <2>2 DEF Recovery
  <2>4. staging'[t] \in Recovery /\ staging'[t].journal # None
    <3>1. ASSUME NEW s \in Recovery, s.journal # None
          PROVE  /\ [s EXCEPT !.journal.begun = TRUE] \in Recovery
                 /\ [s EXCEPT !.journal.begun = FALSE, !.journal.done = @ + 1] \in Recovery
                 /\ [s EXCEPT !.journal.committed = TRUE] \in Recovery
      BY <3>1, DirectoryTyped, Zenon
    <3>2. staging'[t] \in Recovery
      BY <2>1, <2>2, <3>1
    <3>3. staging[t].journal.done + 1 \in Nat
      BY <2>1 DEF Progress
    <3>4. staging'[t].journal \in Progress
      BY <2>1, <2>3, <3>3 DEF Progress
    <3> QED
      BY <3>2, <3>4, RecoveryAssumption
  <2> QED
    BY <1>6, <1>8, <2>1, <2>3, <2>4
<1>9. CASE t = txn[i] /\ ~JournalRemoval(i) /\ SweepStaging(i) /\ ~Intact(t)
  BY <1>1, <1>9 DEF SweepStaging
<1>10. CASE /\ ~JournalRemoval(i)
            /\ \/ RemovalRefused(i) \/ FindJournal(i) \/ RemoveRelease(i) \/ RemoveMetadata(i)
               \/ RemoveAsset(i) \/ CleanUpCapability(i)
  <2>1. UNCHANGED staging
    BY <1>10 DEF RemovalRefused, Refuse, FindJournal, RemoveRelease, RemoveMetadata, RemoveAsset,
       CleanUpCapability, bootVars
  <2> QED
    BY <1>3, <1>10, <2>1
<1>11. CASE \/ PlanRemoval(i) \/ JournalRemoval(i) \/ ProveRelease(i) \/ CheckpointBefore(i)
            \/ CheckpointAfter(i) \/ StageCapability(i) \/ CommitRemoval(i) \/ SweepStaging(i)
  <2>1. \E s : Stage(i, s)
    BY <1>11 DEF PlanRemoval, JournalRemoval, ProveRelease, CheckpointBefore,
       CheckpointAfter, StageCapability, CommitRemoval, SweepStaging
  <2>2. CASE t = txn[i]
    BY <1>4, <1>5, <1>7, <1>8, <1>9, <1>11, <2>2
  <2> QED
    BY <1>2, <2>1, <2>2
<1> QED
  BY <1>10, <1>11 DEF RemovalStep

(* A step of an uninstall moves one run, and only a plan is followed by a  *)
(* journal.                                                                *)
LEMMA RemovalGoes ==
    ASSUME IInv, Typed, NEW i \in Installers, Finds(i), RemovalStep(i)
    PROVE  /\ AtStays(i) /\ cmd[i] = "uninstall" /\ txn[i] \in Installers
           /\ at'[i] \notin KeepingPlaces \ {"journal"}
           /\ at'[i] = "journal" => PlanRemoval(i)
           /\ at'[i] \in {"next", "before", "remove", "after"} =>
                 /\ txn'[i] = txn[i] /\ at[i] # "sweep" /\ ~PlanRemoval(i)
                 /\ at[i] \in {"start", "journal", "next", "before", "remove", "after"}
                 /\ at[i] = "start" => FindJournal(i)
                 /\ at[i] = "journal" => JournalRemoval(i)
<1>1. cmd[i] = "uninstall" /\ txn[i] \in Installers
  BY DEF RemovalStep, IInv, Types
<1>2. CASE End(i)
  <2>1. at'[i] = "start" /\ \A j \in Installers \ {i} : at'[j] = at[j] /\ txn'[j] = txn[j]
    BY <1>2 DEF End, IInv, Types
  <2> QED
    BY <1>1, <2>1 DEF AtStays, KeepingPlaces
<1>3. CASE ~End(i)
  <2>1. PICK a \in {"journal", "next", "before", "remove", "after", "release", "sweep"} :
           Load(i, "uninstall", a, plan[i]) /\ (a = "sweep" <=> at[i] = "sweep")
    BY <1>3, RemovalMoves
  <2>2. at'[i] = a /\ txn' = txn /\ \A j \in Installers \ {i} : at'[j] = at[j]
    BY <2>1, Moves
  <2>3. ASSUME NEW b, Continue(i, b)
        PROVE  at'[i] = b
    BY <2>3 DEF Continue, Goto, Load, IInv, Types
  <2>4. PlanRemoval(i) => at'[i] = "journal" /\ at[i] = "start"
    BY <2>3 DEF PlanRemoval, OfRemoval
  <2>5. JournalRemoval(i) \/ FindJournal(i) => at'[i] = "next" /\ at[i] \in {"start", "journal"}
    BY <2>3 DEF JournalRemoval, FindJournal, OfRemoval
  <2>6. FindJournal(i) => at[i] = "start"
    BY DEF FindJournal, OfRemoval
  <2>7. JournalRemoval(i) => at[i] = "journal"
    BY DEF JournalRemoval, OfRemoval
  <2>8. ASSUME ProveRelease(i) \/ CheckpointBefore(i) \/ CheckpointAfter(i) \/ CommitRemoval(i)
        PROVE  at[i] \in {"next", "before", "after"} /\ at'[i] # "journal"
    BY <2>3, <2>8 DEF ProveRelease, CheckpointBefore, CheckpointAfter, CommitRemoval, OfRemoval
  <2>9. ASSUME \/ RemoveRelease(i) \/ RemoveMetadata(i) \/ RemoveAsset(i) \/ StageCapability(i)
               \/ CleanUpCapability(i)
        PROVE  at[i] = "remove" /\ at'[i] # "journal"
    <3>1. at[i] = "remove"
      BY <2>9 DEF RemoveRelease, RemoveMetadata, RemoveAsset, StageCapability, CleanUpCapability,
         Removes, OfRemoval
    <3>2. Continue(i, "remove") \/ Continue(i, "after")
      BY <2>9 DEF RemoveRelease, RemoveMetadata, RemoveAsset, StageCapability, CleanUpCapability
    <3> QED
      BY <2>3, <3>1, <3>2
  <2>10. SweepStaging(i) => at[i] = "sweep"
    BY DEF SweepStaging, OfRemoval
  <2>11. ~RemovalRefused(i)
    BY <1>3 DEF RemovalRefused, Refuse
  <2>12. /\ at'[i] = "journal" => PlanRemoval(i)
         /\ at'[i] \in {"next", "before", "remove", "after"} =>
               /\ at[i] # "sweep" /\ ~PlanRemoval(i)
               /\ at[i] \in {"start", "journal", "next", "before", "remove", "after"}
               /\ at[i] = "start" => FindJournal(i)
               /\ at[i] = "journal" => JournalRemoval(i)
    BY <2>1, <2>2, <2>4, <2>5, <2>6, <2>7, <2>8, <2>9, <2>10, <2>11 DEF RemovalStep
  <2> QED
    BY <1>1, <2>2, <2>12 DEF AtStays, KeepingPlaces
<1> QED
  BY <1>2, <1>3

(* Every step of an uninstall keeps the invariant: the evidence it takes   *)
(* is of releases as they were built.                                      *)
LEMMA RemovalKeeps ==
    ASSUME IInv, IInv', KeepingInv, Typed', NEW i \in Installers, RemovalStep(i)
    PROVE  KeepingInv'
<1>0. Typed /\ Finds(i) /\ KeepingAt(i)
  BY DEF KeepingInv
<1>1. /\ AtStays(i) /\ cmd[i] = "uninstall" /\ txn[i] \in Installers
      /\ at'[i] \notin KeepingPlaces \ {"journal"}
      /\ at'[i] = "journal" => PlanRemoval(i)
      /\ at'[i] \in {"next", "before", "remove", "after"} =>
            /\ txn'[i] = txn[i] /\ at[i] # "sweep" /\ ~PlanRemoval(i)
            /\ at[i] \in {"start", "journal", "next", "before", "remove", "after"}
            /\ at[i] = "start" => FindJournal(i)
            /\ at[i] = "journal" => JournalRemoval(i)
  BY <1>0, RemovalGoes
<1>2. layout' \in {layout, None}
  BY DEF RemovalStep, RemovalRefused, Refuse, FindJournal, PlanRemoval, JournalRemoval, ProveRelease,
     CheckpointBefore, CheckpointAfter, RemoveRelease, RemoveMetadata, RemoveAsset,
     StageCapability, CleanUpCapability, CommitRemoval, SweepStaging, Kept, Others, bootVars
<1>3. ASSUME NEW t \in Installers
      PROVE  EvidenceIs(t)'
  <2>1. EvidenceIs(t)
    BY DEF KeepingInv
  <2>2. \/ staging'[t] = staging[t] \/ staging'[t] = None
        \/ PlanRemoval(i) /\ ~Journaled(t)'
        \/ JournalRemoval(i) /\ Journaled(t)' /\ staging'[t].was = Evidence
        \/ /\ staging'[t].was = staging[t].was
           /\ staging[t] # None /\ (Journaled(t)' <=> Journaled(t))
    BY <1>0, RemovalStaging
  <2>3. CASE JournalRemoval(i) /\ staging'[t].was = Evidence
    <3>1. layout # None /\ OwnedReleases
      BY <1>0, <2>3 DEF JournalRemoval, OfRemoval, KeepingAt
    <3>2. Shipped(layout)
      BY <3>1 DEF KeepingInv
    <3>3. ASSUME NEW c \in Commits, release[c] # None
          PROVE  release[c].build # Removal
      <4>1. release[c] \in Payload
        BY <3>1, <3>3 DEF OwnedReleases, VerifiedRelease, IInv, Types
      <4> QED
        BY <4>1, NoneAssumption DEF Payload
    <3>4. staging'[t].was.layout = layout /\ staging'[t].was.release = release
      BY <2>3 DEF Evidence
    <3> QED
      BY <3>2, <3>3, <3>4 DEF EvidenceIs, Shipped
  <2> QED
    BY <2>1, <2>2, <2>3 DEF EvidenceIs, Journaled, Shipped
<1>4. KeepingAt(i)'
  <2>1. at'[i] = "journal" => layout' # None
    BY <1>1 DEF PlanRemoval, Removable, Installed, Kept, Others
  <2> QED
    BY <1>1, <2>1 DEF KeepingAt, KeepingPlaces
<1>5. ASSUME NEW t \in Installers, staging[t] = None \/ Journaled(t), ~PlanRemoval(i)
      PROVE  staging'[t] = None \/ Journaled(t)'
  BY <1>0, <1>5, RemovalStaging DEF Journaled
<1>6. Finds(i)'
  <2> SUFFICES ASSUME at'[i] \in {"next", "before", "remove", "after"}
               PROVE  Finds(i)'
    BY DEF Finds
  <2>1. PICK t \in Installers : t = txn[i] /\ t = txn'[i]
    BY <1>1
  <2>2. CASE at[i] = "journal"
    BY <1>0, <1>1, <2>1, <2>2, RemovalStaging DEF Finds, Journaled
  <2>3. CASE at[i] # "journal"
    <3>1. staging[t] = None \/ Journaled(t)
      BY <1>0, <1>1, <2>1, <2>3 DEF Finds, FindJournal
    <3> QED
      BY <1>1, <1>5, <2>1, <3>1 DEF Finds, Journaled
  <2> QED
    BY <2>2, <2>3
<1>7. ASSUME NEW j \in Installers \ {i}
      PROVE  KeepingAt(j)' /\ Finds(j)'
  <2>1. at'[j] = at[j] /\ txn'[j] = txn[j] /\ txn[j] \in Installers /\ KeepingAt(j) /\ Finds(j)
    BY <1>1 DEF AtStays, KeepingInv, IInv, Types
  <2>2. CASE at[i] = "sweep"
    <3>1. UNCHANGED <<asset, backup, layout>> /\ ~PlanRemoval(i)
      BY <2>2 DEF RemovalStep, RemovalRefused, FindJournal, PlanRemoval, JournalRemoval,
         ProveRelease, CheckpointBefore, CheckpointAfter, RemoveRelease, RemoveMetadata,
         RemoveAsset, StageCapability, CleanUpCapability, CommitRemoval, SweepStaging,
         OfRemoval, Removes, Refuse, bootVars
    <3>2. KeepingAt(j)'
      BY <2>1, <3>1 DEF KeepingAt, ValidPublication, Unsaved, SavedIs, PlacedIs
    <3>3. Finds(j)'
      BY <1>5, <2>1, <3>1 DEF Finds, Journaled
    <3> QED
      BY <3>2, <3>3
  <2>3. CASE at[i] # "sweep"
    <3>1. Driving(i)
      BY <1>1, <2>3 DEF Driving
    <3>2. ~Driving(j) /\ Located(j)
      BY <3>1, DriverIsAlone DEF IInv, Locking
    <3>3. at'[j] \notin KeepingPlaces \cup {"next", "before", "remove", "after"}
      BY <2>1, <3>2, OnlyDriversKeep
    <3> QED
      BY <3>3 DEF KeepingAt, Finds, KeepingPlaces
  <2> QED
    BY <2>2, <2>3
<1>8. layout' # None => Shipped(layout)'
  BY <1>2 DEF KeepingInv, Shipped
<1> QED
  BY <1>3, <1>4, <1>6, <1>7, <1>8 DEF KeepingInv

(* What an uninstall removes is not the user's: it is what the evidence    *)
(* says, and the user's own comes back from its backup.                    *)
LEMMA RemovalSpares ==
    ASSUME IInv, KeepingInv, NEW i \in Installers, RemovalStep(i)
    PROVE  KeepsUsersData
<1>1. /\ backup \in [Assets -> Contents \cup {None}] /\ asset \in [Assets -> Contents \cup {None}]
      /\ release \in [Commits -> Release \cup {None}] /\ None \notin UsersData
      /\ txn[i] \in Installers /\ FileTypes
  BY ContentsAssumption DEF KeepingInv, Typed, FileTypes, UsersData, IInv, Types
<1>2. ASSUME Checked(i), at[i] = "remove"
      PROVE  /\ Journaled(txn[i]) /\ EvidenceIs(txn[i])
             /\ ValidAction(staging[txn[i]], Current(i), Begun(staging[txn[i]].journal, staging[txn[i]].journal.done + 1))
             /\ Current(i).kind = "release" => Current(i).of \in Commits
             /\ Current(i).kind \in {"asset", "restore"} => Current(i).of \in Assets
  <2>1. HasNext(i) /\ Journaled(txn[i])
    BY <1>2 DEF Checked, HasNext, Intact, KeepingInv, Finds
  <2>2. EvidenceIs(txn[i])
    BY <1>1 DEF KeepingInv
  <2>3. ValidAction(staging[txn[i]], Current(i), Begun(staging[txn[i]].journal, staging[txn[i]].journal.done + 1))
    BY <1>2 DEF Checked, Executable, Current
  <2> QED
    BY <1>1, <2>1, <2>2, <2>3, CurrentIs DEF HasNext
<1>3. CASE UNCHANGED <<asset, backup, release, skills>>
  BY <1>3 DEF KeepsUsersData
<1>4. CASE RemoveRelease(i)
  <2> DEFINE c == Current(i).of
             w == staging[txn[i]].was.release[c]
  <2>1. /\ UNCHANGED <<asset, backup, skills>> /\ Checked(i) /\ at[i] = "remove"
        /\ Current(i).kind = "release"
        /\ \E f : release' = [release EXCEPT ![c] = f]
    BY <1>4 DEF RemoveRelease, Removes, OfRemoval, bootVars, removalVars
  <2>2. c \in Commits /\ (w # None => w.build # Removal)
    BY <1>2, <2>1 DEF EvidenceIs
  <2>3. release[c] \in {w, None} \/ release[c] = Rubble(w)
    BY <1>2, <2>1 DEF ValidAction, Stands
  <2> HIDE DEF c, w
  <2>4. release[c] # None => release[c].build # Removal
    BY <2>2, <2>3, NoneAssumption DEF Rubble
  <2>5. \A d \in Commits : release[d] # None /\ release[d].build = Removal => release'[d] = release[d]
    BY <1>1, <2>1, <2>2, <2>4
  <2> QED
    BY <2>1, <2>5 DEF KeepsUsersData
<1>5. CASE RemoveAsset(i)
  <2> DEFINE a == Current(i).of
             w == staging[txn[i]].was
  <2>1. /\ UNCHANGED <<release, skills>> /\ Checked(i) /\ at[i] = "remove"
        /\ Current(i).kind \in {"asset", "restore"}
    BY <1>5 DEF RemoveAsset, Removes, OfRemoval, storeVars, removalVars
  <2>2. a \in Assets /\ w.layout.assets \notin UsersData
    BY <1>2, <2>1 DEF EvidenceIs, Shipped
  <2>3. CASE Current(i).kind = "asset"
    <3>1. asset[a] \in {w.layout.assets, None}
      BY <1>2, <2>1, <2>3 DEF ValidAction, Stands
    <3>2. backup' = backup /\ \E f : asset' = [asset EXCEPT ![a] = f]
      BY <1>5, <2>3 DEF RemoveAsset
    <3> HIDE DEF a, w
    <3>3. \A d \in Assets : asset[d] \in UsersData => asset'[d] = asset[d]
      BY <1>1, <2>2, <3>1, <3>2
    <3> QED
      BY <2>1, <3>2, <3>3 DEF KeepsUsersData
  <2>4. CASE Current(i).kind = "restore"
    <3>1. backup[a] # None => asset[a] \in {w.layout.assets, None}
      BY <1>2, <2>1, <2>4 DEF ValidAction, ValidRestore, Stands
    <3>2. CASE backup[a] = None
      BY <1>5, <2>1, <2>4, <3>2 DEF RemoveAsset, KeepsUsersData
    <3>3. CASE backup[a] # None
      <4>1. \/ asset' = [asset EXCEPT ![a] = None] /\ backup' = backup
            \/ /\ asset' = [asset EXCEPT ![a] = backup[a]]
               /\ backup' = [backup EXCEPT ![a] = None]
        BY <1>5, <2>4, <3>3 DEF RemoveAsset
      <4> HIDE DEF a, w
      <4>2. \A d \in Assets : asset[d] \in UsersData => asset'[d] = asset[d]
        BY <1>1, <2>2, <3>1, <3>3, <4>1
      <4>3. \A d \in Assets : backup[d] \in UsersData => backup[d] \in {asset'[d], backup'[d]}
        BY <1>1, <2>2, <4>1
      <4> QED
        BY <2>1, <4>2, <4>3 DEF KeepsUsersData
    <3> QED
      BY <3>2, <3>3
  <2> QED
    BY <2>1, <2>3, <2>4
<1>6. CASE CleanUpCapability(i)
  <2>1. /\ UNCHANGED <<asset, backup, release>> /\ Checked(i) /\ at[i] = "remove"
        /\ Current(i).kind = "cleanup"
        /\ skills' = IF skills = staging[txn[i]].skills THEN None ELSE skills
    BY <1>6 DEF CleanUpCapability, Removes, OfRemoval, bootVars, storeVars
  <2>2. staging[txn[i]].skills = "skills"
    BY <1>2, <2>1 DEF ValidAction
  <2> QED
    BY <2>1, <2>2 DEF KeepsUsersData
<1>7. CASE \/ FindJournal(i) \/ PlanRemoval(i) \/ JournalRemoval(i) \/ RemovalRefused(i)
           \/ ProveRelease(i) \/ CheckpointBefore(i) \/ CheckpointAfter(i) \/ RemoveMetadata(i)
           \/ StageCapability(i) \/ CommitRemoval(i) \/ SweepStaging(i)
  BY <1>3, <1>7 DEF FindJournal, PlanRemoval, JournalRemoval, RemovalRefused, Refuse, ProveRelease,
     CheckpointBefore, CheckpointAfter, RemoveMetadata, StageCapability, CommitRemoval,
     SweepStaging, Kept, Others, bootVars, storeVars, removalVars
<1> QED
  BY <1>4, <1>5, <1>6, <1>7 DEF RemovalStep

-----------------------------------------------------------------------------
(* The user edits what an installer is not at work on,                     *)
LEMMA EditKeeps ==
    ASSUME IInv, KeepingInv, Edit
    PROVE  KeepingInv' /\ KeepsUsersData
<1>1. /\ UNCHANGED <<layout, backup, staging, cmd, at, txn>> /\ Typed'
      /\ \A j \in Installers : cmd[j] \in {"off", "begin"} \/ at[j] = "remove"
  BY EditTyped DEF Edit, processVars, OfRemoval, KeepingInv
<1>2. ASSUME NEW j \in Installers
      PROVE  KeepingAt(j)' /\ Finds(j)' /\ EvidenceIs(j)'
  <2>1. at'[j] \notin KeepingPlaces
    BY <1>1 DEF IInv, Locking, Located, Beginning, KeepingPlaces
  <2> QED
    BY <1>1, <2>1 DEF KeepingInv, KeepingAt, KeepingPlaces, Finds, EvidenceIs, Journaled, Shipped
<1>3. KeepingInv'
  BY <1>1, <1>2 DEF KeepingInv, Shipped
<1>4. /\ asset \in [Assets -> Contents \cup {None}]
      /\ release \in [Commits -> Release \cup {None}]
  BY DEF KeepingInv, Typed, FileTypes
<1>5. \A r \in Release : r.build = Removal => Edited(r) = r
  BY DEF Edited, Release
<1>6. \A c \in Commits : release[c] # None /\ release[c].build = Removal => release'[c] = release[c]
  <2>1. \/ release' = release
        \/ \E c \in Commits : release[c] # None /\ release' = [release EXCEPT ![c] = Edited(@)]
    BY DEF Edit
  <2> QED
    BY <1>4, <1>5, <2>1
<1>7. \A a \in Assets : asset[a] \in UsersData => asset'[a] \in {asset[a], "edited"}
  <2>1. asset' = asset \/ \E a \in Assets : asset' = [asset EXCEPT ![a] = "edited"]
    BY DEF Edit
  <2> QED
    BY <1>4, <2>1
<1>8. skills = "edited" => skills' = "edited"
  BY DEF Edit
<1> QED
  BY <1>1, <1>3, <1>6, <1>7, <1>8 DEF KeepsUsersData

(* and a run that begins or ends leaves everything where it is.            *)
LEMMA IdleKeeps ==
    ASSUME IInv, IInv', KeepingInv, Typed', NEW i \in Installers, AtStays(i), at'[i] = "start",
           UNCHANGED <<asset, backup, layout, staging, release, skills>>
    PROVE  KeepingInv' /\ KeepsUsersData
<1>1. KeepingAt(i)' /\ Finds(i)' /\ (layout' # None => Shipped(layout)')
  BY DEF KeepingAt, Finds, KeepingInv, Shipped
<1>2. KeepingInv'
  BY <1>1, KeepingStays
<1> QED
  BY <1>2 DEF KeepsUsersData

(* The invariant holds in the beginning,                                   *)
LEMMA KeepingInit == RemovalInit => KeepingInv
  BY DEF RemovalInit, Init, KeepingInv, Typed, FileTypes, PublishingIs, Publishing, Contents, Finds,
     KeepingAt, EvidenceIs, Journaled

(* and every step keeps it, and what belongs to the user.                  *)
LEMMA KeepingNext ==
    ASSUME IInv, IInv', Shapes, KeepingInv, [RemovalNext]_allVars
    PROVE  KeepingInv' /\ [KeepsUsersData]_allVars
<1>1. Typed'
  BY TypedHolds DEF KeepingInv
<1>2. CASE UNCHANGED allVars
  <2>1. UNCHANGED <<asset, backup, layout, staging, at, txn>>
    BY <1>2 DEF allVars, vars, bootVars, processVars
  <2>2. ASSUME NEW j \in Installers
        PROVE  KeepingAt(j)' /\ Finds(j)' /\ EvidenceIs(j)'
    BY <2>1 DEF KeepingInv, KeepingAt, Finds, EvidenceIs, Journaled, Shipped, ValidPublication,
       Unsaved, SavedIs, PlacedIs
  <2> QED
    BY <1>1, <1>2, <2>1, <2>2 DEF KeepingInv, Shipped
<1>3. CASE RemovalNext
  <2>1. PICK i \in Installers :
          \/ \E c \in Commits \cup {None} : Start(i, c) /\ Noticed
          \/ \E r \in Installers \cup {None} : StartRemoval(i, r)
          \/ RunStep(i) \/ Interrupt(i) \/ Edit
    BY <1>3 DEF RemovalNext
  <2>2. CASE Edit
    BY <2>2, EditKeeps
  <2>3. CASE \/ \E c \in Commits \cup {None} : Start(i, c) /\ Noticed
             \/ \E r \in Installers \cup {None} : StartRemoval(i, r)
    <3>1. /\ cmd[i] = "off" /\ at' = at /\ UNCHANGED <<asset, backup, layout, staging, release, skills>>
          /\ txn' = txn \/ \E r : txn' = [txn EXCEPT ![i] = r]
      BY <2>3 DEF Start, StartRemoval, Noticed, bootVars, storeVars, removalVars
    <3>2. at'[i] = "start" /\ AtStays(i)
      BY <3>1 DEF AtStays, IInv, Types, Locking, Located
    <3> QED
      BY <1>1, <3>1, <3>2, IdleKeeps
  <2>4. CASE ResumeRefused(i) \/ Interrupt(i)
    <3>1. End(i) /\ UNCHANGED <<asset, backup, layout, staging, release, skills>>
      BY <2>4 DEF ResumeRefused, Refuse, Interrupt, CleanUpFails, Stop, Noticed, bootVars, storeVars,
         removalVars
    <3>2. at'[i] = "start" /\ AtStays(i)
      BY <3>1 DEF End, AtStays, IInv, Types
    <3> QED
      BY <1>1, <3>1, <3>2, IdleKeeps
  <2>5. CASE RemovalStep(i)
    BY <1>1, <2>5, RemovalKeeps, RemovalSpares
  <2>6. CASE Step(i) /\ Noticed
    BY <1>1, <2>6, InstallersKeep, InstallersSpare DEF Noticed
  <2> QED
    BY <2>1, <2>2, <2>3, <2>4, <2>5, <2>6 DEF RunStep
<1> QED
  BY <1>2, <1>3

(* Whatever is installed, rolled back, uninstalled, interrupted and        *)
(* resumed: a file that the user wrote or edited, in the place of a        *)
(* bootstrap asset, in the place of the capability or inside a release, is *)
(* not deleted, and not replaced but by its owner or after it was linked   *)
(* into legacy-assets, which it only leaves to come back.                  *)
THEOREM UsersDataIsKept == RemovalSpec => NothingOfTheUserIsLost
<1> DEFINE Both == IInv /\ Shapes /\ KeepingInv
<1>1. RemovalInit => Both
  <2>1. RemovalInit => IInv /\ Shapes
    BY InvInit DEF Inv
  <2> QED
    BY <2>1, KeepingInit
<1>2. Both /\ [RemovalNext]_allVars => Both' /\ [KeepsUsersData]_allVars
  BY NextHolds, ShapesHold, KeepingNext
<1> QED
  BY <1>1, <1>2, PTL DEF RemovalSpec, NothingOfTheUserIsLost
-----------------------------------------------------------------------------
(* What an uninstall can be resumed for.  Its plan names every place once, *)
(* the capability first, and the receipt of a release after the release.   *)
PlaceOf(act) == <<IF act.kind = "restore" THEN "asset" ELSE act.kind, act.of>>
Once(s) == \A m, n \in 1..Len(s) : PlaceOf(s[m]) = PlaceOf(s[n]) => m = n
ReceiptFollows(s) == \A n \in 1..Len(s) : s[n].kind = "release" =>
    \E m \in n + 1..Len(s) : s[m].kind = "receipt" /\ s[m].of = s[n].of
StagesFirst(s) == Len(s) > 0 /\ s[1].kind = "stage"
WellPlanned(s) == Once(s) /\ ReceiptFollows(s) /\ StagesFirst(s)

(* What a plan may remove: the assets of a set, those that were displaced, *)
(* and the releases there are.                                             *)
ToRemove(kinds, A) == {act \in Action :
    /\ act.kind \in kinds
    /\ act.kind \in {"asset", "restore"} => act.of \in A
    /\ act.kind = "restore" => act.of \in Displaced
    /\ act.kind = "release" => release[act.of] # None}

(* A list of a set names each of its elements once.                        *)
LEMMA SetToSeqIsInjective ==
    ASSUME NEW S, IsFiniteSet(S)
    PROVE  /\ SetToSeq(S) \in Seq(S)
           /\ \A m, n \in 1..Len(SetToSeq(S)) : SetToSeq(S)[m] = SetToSeq(S)[n] => m = n
<1>1. Cardinality(S) \in Nat /\ ExistsBijection(1..Cardinality(S), S)
  BY FS_CardinalityType
<1>2. PICK f \in [1..Cardinality(S) -> S] : IsInjective(f)
  <2>1. PICK f \in [1..Cardinality(S) -> S] :
           \A m, n \in 1..Cardinality(S) : f[m] = f[n] => m = n
    BY <1>1 DEF ExistsBijection, Bijection, Injection, IsInjective
  <2> QED
    BY <2>1 DEF IsInjective
<1>3. SetToSeq(S) \in [1..Cardinality(S) -> S] /\ IsInjective(SetToSeq(S))
  BY <1>2 DEF SetToSeq
<1>4. SetToSeq(S) \in Seq(S)
  BY <1>1, <1>3, FunctionsAreSeqs
<1>5. DOMAIN SetToSeq(S) = 1..Len(SetToSeq(S))
  BY <1>4, LenProperties
<1> QED
  BY <1>3, <1>4, <1>5 DEF IsInjective

(* The actions that remove the files of such a list.                       *)
LEMMA ActionsAt ==
    ASSUME NEW kind, NEW T, NEW s \in Seq(T)
    PROVE  /\ DOMAIN Actions(kind, s) = 1..Len(s) /\ Len(s) \in Nat
           /\ \A n \in 1..Len(s) : /\ s[n] \in T /\ Actions(kind, s)[n].kind = kind
                                   /\ Actions(kind, s)[n].of = s[n]
<1>1. Len(s) \in Nat /\ DOMAIN s = 1..Len(s) /\ \A n \in 1..Len(s) : s[n] \in T
  BY LenProperties, ElementOfSeq
<1> QED
  BY <1>1 DEF Actions

LEMMA ActionsOnce ==
    ASSUME NEW kind, NEW T, NEW s \in Seq(T), NEW A,
           \A m, n \in 1..Len(s) : s[m] = s[n] => m = n,
           \A x \in T : [kind |-> kind, of |-> x] \in ToRemove({kind}, A)
    PROVE  Actions(kind, s) \in Seq(ToRemove({kind}, A)) /\ Once(Actions(kind, s))
<1>1. /\ DOMAIN Actions(kind, s) = 1..Len(s) /\ Len(s) \in Nat
      /\ \A n \in 1..Len(s) : /\ s[n] \in T /\ Actions(kind, s)[n].kind = kind
                              /\ Actions(kind, s)[n].of = s[n]
  BY ActionsAt
<1>2. Actions(kind, s) \in [1..Len(s) -> ToRemove({kind}, A)]
  BY <1>1 DEF Actions
<1>3. Actions(kind, s) \in Seq(ToRemove({kind}, A))
  BY <1>1, <1>2, FunctionsAreSeqs
<1>4. 1..Len(Actions(kind, s)) = 1..Len(s)
  BY <1>1, <1>3, LenProperties
<1>5. Once(Actions(kind, s))
  BY <1>1, <1>4 DEF Once, PlaceOf
<1> QED
  BY <1>3, <1>5

LEMMA ManifestsOnce ==
    ASSUME NEW T, NEW s \in Seq(T), NEW A,
           \A m, n \in 1..Len(s) : s[m] = s[n] => m = n,
           \A x \in T : [kind |-> "manifest", of |-> x] \in A /\ [kind |-> "receipt", of |-> x] \in A
    PROVE  /\ ManifestActions(s) \in Seq(A) /\ Len(ManifestActions(s)) = 2 * Len(s)
           /\ Once(ManifestActions(s))
<1> DEFINE p == Len(s)
           w == ManifestActions(s)
<1>1. w \in Seq(A) /\ Len(w) = 2 * p
  BY ManifestsAreASeq
<1>2. /\ p \in Nat
      /\ \A k \in 1..p : w[2 * k - 1] = [kind |-> "manifest", of |-> s[k]]
                         /\ w[2 * k] = [kind |-> "receipt", of |-> s[k]]
      /\ \A n \in 1..2 * p : \E k \in 1..p : n = 2 * k - 1 \/ n = 2 * k
  BY ManifestsAt
<1> HIDE DEF p, w
<1>3. ASSUME NEW m \in 1..2 * p, NEW n \in 1..2 * p, PlaceOf(w[m]) = PlaceOf(w[n])
      PROVE  m = n
  <2>1. PICK j \in 1..p : m = 2 * j - 1 \/ m = 2 * j
    BY <1>2
  <2>2. PICK k \in 1..p : n = 2 * k - 1 \/ n = 2 * k
    BY <1>2
  <2>0. \A x : /\ PlaceOf([kind |-> "manifest", of |-> x]) = <<"manifest", x>>
               /\ PlaceOf([kind |-> "receipt", of |-> x]) = <<"receipt", x>>
    BY DEF PlaceOf
  <2>3. /\ m = 2 * j - 1 => PlaceOf(w[m]) = <<"manifest", s[j]>>
        /\ m = 2 * j => PlaceOf(w[m]) = <<"receipt", s[j]>>
    BY <1>2, <2>0
  <2>4. /\ n = 2 * k - 1 => PlaceOf(w[n]) = <<"manifest", s[k]>>
        /\ n = 2 * k => PlaceOf(w[n]) = <<"receipt", s[k]>>
    BY <1>2, <2>0
  <2>5. s[j] = s[k] /\ (m = 2 * j <=> n = 2 * k)
    BY <1>3, <2>1, <2>2, <2>3, <2>4
  <2>6. j = k
    BY <2>5 DEF p
  <2> QED
    BY <2>1, <2>2, <2>5, <2>6
<1> QED
  BY <1>1, <1>3 DEF Once, p, w

LEMMA ActionsLength ==
    ASSUME NEW kind, NEW T, NEW s \in Seq(T), Actions(kind, s) \in Seq(Action)
    PROVE  Len(Actions(kind, s)) = Len(s)
<1> DEFINE p == Len(Actions(kind, s))
           q == Len(s)
<1>1. DOMAIN Actions(kind, s) = 1..p /\ p \in Nat
  BY LenProperties
<1>2. DOMAIN Actions(kind, s) = 1..q /\ q \in Nat
  BY ActionsAt
<1> HIDE DEF p, q
<1>3. (p < q => q \in 1..q /\ q \notin 1..p) /\ (q < p => p \in 1..p /\ p \notin 1..q)
  BY <1>1, <1>2
<1>4. p = q
  BY <1>1, <1>2, <1>3
<1> QED
  BY <1>4 DEF p, q

(* A list of a set is one of a larger set.                                 *)
LEMMA SeqsGrow ==
    ASSUME NEW A, NEW B, A \subseteq B, NEW s \in Seq(A)
    PROVE  s \in Seq(B)
<1>1. Len(s) \in Nat /\ s \in [1..Len(s) -> B]
  BY LenProperties, ElementOfSeq
<1> QED
  BY <1>1, FunctionsAreSeqs

(* A list after another one,                                               *)
LEMMA ConcatAt ==
    ASSUME NEW A, NEW B, NEW s \in Seq(A), NEW t \in Seq(B)
    PROVE  /\ s \o t \in Seq(A \cup B)
           /\ Len(s) \in Nat /\ Len(t) \in Nat /\ Len(s \o t) = Len(s) + Len(t)
           /\ \A n \in 1..Len(s) : (s \o t)[n] = s[n] /\ s[n] \in A
           /\ \A n \in 1..Len(t) : (s \o t)[Len(s) + n] = t[n] /\ t[n] \in B
<1>1. s \in Seq(A \cup B) /\ t \in Seq(A \cup B)
  <2>1. A \subseteq A \cup B /\ B \subseteq A \cup B
    OBVIOUS
  <2> QED
    BY <2>1, SeqsGrow
<1>2. /\ s \o t \in Seq(A \cup B) /\ Len(s \o t) = Len(s) + Len(t)
      /\ \A m \in 1..Len(s) + Len(t) :
            (s \o t)[m] = IF m <= Len(s) THEN s[m] ELSE t[m - Len(s)]
  BY <1>1, ConcatProperties
<1>3. /\ Len(s) \in Nat /\ Len(t) \in Nat
      /\ \A n \in 1..Len(s) : s[n] \in A
      /\ \A n \in 1..Len(t) : t[n] \in B
  BY LenProperties, ElementOfSeq
<1> DEFINE u == s \o t
           p == Len(s)
           q == Len(t)
<1>4. /\ p \in Nat /\ q \in Nat
      /\ \A m \in 1..p + q : u[m] = IF m <= p THEN s[m] ELSE t[m - p]
  BY <1>2, <1>3
<1> HIDE DEF u, p, q
<1>5. \A n \in 1..p : u[n] = s[n]
  BY <1>4
<1>6. ASSUME NEW n \in 1..q
      PROVE  u[p + n] = t[n]
  <2>1. p + n \in 1..p + q /\ ~(p + n <= p) /\ p + n - p = n
    BY <1>4
  <2> QED
    BY <1>4, <2>1
<1> QED
  BY <1>2, <1>3, <1>5, <1>6 DEF u, p, q

(* and two lists of actions that share no place.                           *)
LEMMA ConcatOnce ==
    ASSUME NEW A, NEW B, NEW s \in Seq(A), NEW t \in Seq(B), Once(s), Once(t),
           \A x \in A, y \in B : PlaceOf(x) # PlaceOf(y)
    PROVE  Once(s \o t)
<1> DEFINE u == s \o t
           p == Len(s)
           q == Len(t)
<1>1. /\ p \in Nat /\ q \in Nat /\ Len(u) = p + q
      /\ \A n \in 1..p : u[n] = s[n] /\ s[n] \in A
      /\ \A n \in 1..q : u[p + n] = t[n] /\ t[n] \in B
  BY ConcatAt
<1>2. /\ \A m, n \in 1..p : PlaceOf(s[m]) = PlaceOf(s[n]) => m = n
      /\ \A m, n \in 1..q : PlaceOf(t[m]) = PlaceOf(t[n]) => m = n
  BY DEF Once
<1> HIDE DEF u, p, q
<1>3. ASSUME NEW n \in 1..Len(u)
      PROVE  n \in 1..p \/ \E k \in 1..q : n = p + k
  <2>1. n <= p \/ (n - p \in 1..q /\ n = p + (n - p))
    BY <1>1
  <2> QED
    BY <1>1, <2>1
<1>4. ASSUME NEW m \in 1..Len(u), NEW n \in 1..Len(u), PlaceOf(u[m]) = PlaceOf(u[n])
      PROVE  m = n
  <2>1. CASE m \in 1..p /\ n \in 1..p
    BY <1>1, <1>2, <1>4, <2>1
  <2>2. ASSUME NEW k \in 1..q, NEW l \in 1..q, m = p + k, n = p + l
        PROVE  m = n
    <3>1. k = l
      BY <1>1, <1>2, <1>4, <2>2
    <3> QED
      BY <2>2, <3>1
  <2>3. ASSUME NEW k \in 1..q, (m \in 1..p /\ n = p + k) \/ (n \in 1..p /\ m = p + k)
        PROVE  FALSE
    <3>1. u[p + k] \in B /\ (u[m] \in A \/ u[n] \in A)
      BY <1>1, <2>3
    <3> QED
      BY <1>1, <1>4, <2>3, <3>1
  <2> QED
    BY <1>3, <2>1, <2>2, <2>3
<1> QED
  BY <1>4 DEF Once, u

(* What does not begin a plan and removes no release keeps it well planned.*)
LEMMA PlanGoesOn ==
    ASSUME NEW A, NEW B, NEW s \in Seq(A), NEW t \in Seq(B), WellPlanned(s), Once(t),
           \A x \in A, y \in B : PlaceOf(x) # PlaceOf(y),
           \A y \in B : y.kind # "release"
    PROVE  WellPlanned(s \o t)
<1> DEFINE u == s \o t
           p == Len(s)
           q == Len(t)
<1>1. /\ p \in Nat /\ q \in Nat /\ Len(u) = p + q
      /\ \A n \in 1..p : u[n] = s[n] /\ s[n] \in A
      /\ \A n \in 1..q : u[p + n] = t[n] /\ t[n] \in B
  BY ConcatAt
<1>2. /\ p > 0 /\ s[1].kind = "stage"
      /\ \A n \in 1..p : s[n].kind = "release" =>
            \E m \in n + 1..p : s[m].kind = "receipt" /\ s[m].of = s[n].of
  BY DEF WellPlanned, StagesFirst, ReceiptFollows
<1>3. Once(u)
  BY ConcatOnce DEF WellPlanned
<1> HIDE DEF u, p, q
<1>4. StagesFirst(u)
  <2>1. 1 \in 1..p
    BY <1>1, <1>2
  <2> QED
    BY <1>1, <1>2, <2>1 DEF StagesFirst
<1>5. ASSUME NEW n \in 1..Len(u), u[n].kind = "release"
      PROVE  \E m \in n + 1..Len(u) : u[m].kind = "receipt" /\ u[m].of = u[n].of
  <2>1. n \in 1..p
    <3>1. n \in 1..p \/ (n - p \in 1..q /\ n = p + (n - p))
      BY <1>1
    <3>2. n - p \in 1..q => u[p + (n - p)] = t[n - p] /\ t[n - p] \in B
      BY <1>1
    <3>3. n - p \in 1..q /\ n = p + (n - p) => u[n] \in B
      BY <3>2
    <3>4. u[n] \notin B
      BY <1>5
    <3> QED
      BY <3>1, <3>3, <3>4
  <2>2. PICK m \in n + 1..p : s[m].kind = "receipt" /\ s[m].of = s[n].of
    BY <1>1, <1>2, <1>5, <2>1
  <2>3. m \in 1..p /\ m \in n + 1..Len(u)
    BY <1>1, <2>1, <2>2
  <2> QED
    BY <1>1, <2>1, <2>2, <2>3
<1>6. ReceiptFollows(u)
  BY <1>5 DEF ReceiptFollows
<1> QED
  BY <1>3, <1>4, <1>6 DEF WellPlanned, u

(* Removals of different kinds, or of different assets, share no place.    *)
LEMMA RemovalsAreApart ==
    ASSUME NEW K, NEW L, NEW A, NEW B, K \cap L \subseteq {"asset", "restore"}, A \cap B = {},
           "restore" \in K => "asset" \in K, "restore" \in L => "asset" \in L,
           NEW x \in ToRemove(K, A), NEW y \in ToRemove(L, B)
    PROVE  PlaceOf(x) # PlaceOf(y)
<1>1. /\ x.kind \in K /\ (x.kind \in {"asset", "restore"} => x.of \in A)
      /\ y.kind \in L /\ (y.kind \in {"asset", "restore"} => y.of \in B)
  BY DEF ToRemove
<1> QED
  BY <1>1 DEF PlaceOf

(* So a plan goes on with a list of them.                                  *)
LEMMA RemovalsGoOn ==
    ASSUME NEW K, NEW L, NEW A, NEW B, K \cap L \subseteq {"asset", "restore"}, A \cap B = {},
           "restore" \in K => "asset" \in K, "restore" \in L => "asset" \in L, "release" \notin L,
           NEW s \in Seq(ToRemove(K, A)), NEW t \in Seq(ToRemove(L, B)), WellPlanned(s), Once(t)
    PROVE  s \o t \in Seq(ToRemove(K \cup L, A \cup B)) /\ WellPlanned(s \o t)
<1>1. \A x \in ToRemove(K, A), y \in ToRemove(L, B) : PlaceOf(x) # PlaceOf(y)
  BY RemovalsAreApart
<1>2. \A y \in ToRemove(L, B) : y.kind # "release"
  BY DEF ToRemove
<1>3. WellPlanned(s \o t)
  BY <1>1, <1>2, PlanGoesOn
<1>4. s \o t \in Seq(ToRemove(K, A) \cup ToRemove(L, B))
  BY ConcatAt
<1>5. ToRemove(K, A) \cup ToRemove(L, B) \subseteq ToRemove(K \cup L, A \cup B)
  BY DEF ToRemove
<1>6. s \o t \in Seq(ToRemove(K \cup L, A \cup B))
  <2>1. PICK X, Y, u : /\ X = ToRemove(K, A) \cup ToRemove(L, B)
                       /\ Y = ToRemove(K \cup L, A \cup B) /\ u = s \o t
    OBVIOUS
  <2>2. X \subseteq Y /\ u \in Seq(X)
    BY <1>4, <1>5, <2>1
  <2>3. u \in Seq(Y)
    BY <2>2, SeqsGrow
  <2> QED
    BY <2>1, <2>3
<1> QED
  BY <1>3, <1>6

(* The actions of which a plan has one.                                    *)
LEMMA OneRemoval ==
    ASSUME NEW kind \in {"stage", "pointer", "layout", "journal", "cleanup"}
    PROVE  /\ Actions(kind, <<None>>) \in Seq(ToRemove({kind}, {})) /\ Once(Actions(kind, <<None>>))
           /\ Len(Actions(kind, <<None>>)) = 1 /\ Actions(kind, <<None>>)[1].kind = kind
<1> DEFINE l == <<None>>
           T == {None}
           E == {}
<1>1. l \in Seq(T) /\ Len(l) = 1
  OBVIOUS
<1>2. \A m, n \in 1..Len(l) : l[m] = l[n] => m = n
  BY <1>1
<1>3. \A x \in T : [kind |-> kind, of |-> x] \in ToRemove({kind}, E)
  BY DEF ToRemove, Action
<1> HIDE DEF l, T, E
<1>4. Actions(kind, l) \in Seq(ToRemove({kind}, E)) /\ Once(Actions(kind, l))
  BY <1>1, <1>2, <1>3, ActionsOnce
<1>5. Actions(kind, l)[1].kind = kind
  <2>1. l \in Seq(T) /\ 1 \in 1..Len(l)
    BY <1>1
  <2>2. \A n \in 1..Len(l) : Actions(kind, l)[n].kind = kind
    BY <2>1, ActionsAt
  <2> QED
    BY <2>1, <2>2
<1>6. Len(Actions(kind, l)) = Len(l)
  <2>1. ToRemove({kind}, E) \subseteq Action
    BY DEF ToRemove
  <2>2. Actions(kind, l) \in Seq(Action)
    BY <1>4, <2>1, SeqsGrow
  <2> QED
    BY <1>1, <2>2, ActionsLength
<1> QED
  BY <1>1, <1>4, <1>5, <1>6 DEF l, E

(* The removals of a set of assets.                                        *)
LEMMA AssetsOnce ==
    ASSUME NEW S \in SUBSET Assets
    PROVE  AssetActions(S) \in Seq(ToRemove({"asset", "restore"}, S)) /\ Once(AssetActions(S))
<1> DEFINE A == S \ Displaced
           B == S \cap Displaced
           K == {"asset"}
           L == {"restore"}
           a == SetToSeq(A)
           b == SetToSeq(B)
           s == Actions("asset", a)
           t == Actions("restore", b)
<1>1. IsFiniteSet(A) /\ IsFiniteSet(B)
  BY FiniteAssumption, FS_Subset
<1>2. /\ a \in Seq(A) /\ \A m, n \in 1..Len(a) : a[m] = a[n] => m = n
      /\ b \in Seq(B) /\ \A m, n \in 1..Len(b) : b[m] = b[n] => m = n
  BY <1>1, SetToSeqIsInjective
<1>3. /\ \A x \in A : [kind |-> "asset", of |-> x] \in ToRemove(K, A)
      /\ \A x \in B : [kind |-> "restore", of |-> x] \in ToRemove(L, B)
  BY DEF ToRemove, Action
<1> HIDE DEF A, B, a, b
<1>4. s \in Seq(ToRemove(K, A)) /\ Once(s)
  BY <1>2, <1>3, ActionsOnce
<1>5. t \in Seq(ToRemove(L, B)) /\ Once(t)
  BY <1>2, <1>3, ActionsOnce
<1>6. \A x \in ToRemove(K, A), y \in ToRemove(L, B) : PlaceOf(x) # PlaceOf(y)
  <2>1. A \cap B = {}
    BY DEF A, B
  <2> QED
    BY <2>1 DEF ToRemove, PlaceOf
<1>7. ToRemove(K, A) \cup ToRemove(L, B) \subseteq ToRemove({"asset", "restore"}, S)
  BY DEF ToRemove, A, B
<1>8. AssetActions(S) = s \o t
  BY DEF AssetActions, A, B, a, b
<1> HIDE DEF s, t, K, L
<1>9. Once(s \o t)
  BY <1>4, <1>5, <1>6, ConcatOnce
<1>10. s \o t \in Seq(ToRemove(K, A) \cup ToRemove(L, B))
  BY <1>4, <1>5, ConcatAt
<1> QED
  BY <1>7, <1>8, <1>9, <1>10, SeqsGrow

(* A plan begins with the capability, the releases and what is recorded of *)
(* them.                                                                   *)
LEMMA PlanBegins ==
    LET s == Actions("stage", <<None>>) \o Actions("release", ReleasesToRemove)
                \o ManifestActions(ReleasesToRemove) IN
    s \in Seq(ToRemove({"stage", "release", "manifest", "receipt"}, {})) /\ WellPlanned(s)
<1> DEFINE R == {c \in Commits : release[c] # None}
           l == ReleasesToRemove
           p == Len(l)
           E == {}
           K1 == {"stage"}
           K2 == {"release"}
           K3 == {"manifest", "receipt"}
           s1 == Actions("stage", <<None>>)
           s2 == Actions("release", l)
           m == ManifestActions(l)
           b == s1 \o s2
           s == b \o m
<1>1. l \in Seq(R) /\ \A k, n \in 1..Len(l) : l[k] = l[n] => k = n
  <2>1. IsFiniteSet(R)
    BY FiniteAssumption, FS_Subset
  <2> QED
    BY <2>1, SetToSeqIsInjective DEF ReleasesToRemove
<1>2. /\ \A x \in R : [kind |-> "release", of |-> x] \in ToRemove(K2, E)
      /\ \A x \in R : [kind |-> "manifest", of |-> x] \in ToRemove(K3, E)
      /\ \A x \in R : [kind |-> "receipt", of |-> x] \in ToRemove(K3, E)
  BY DEF ToRemove, Action
<1>3. s1 \in Seq(ToRemove(K1, E)) /\ Once(s1) /\ Len(s1) = 1 /\ s1[1].kind = "stage"
  BY OneRemoval
<1>4. \A n \in 1..p : s2[n].of = l[n]
  BY <1>1, ActionsAt
<1> HIDE DEF R, l, E
<1>5. s2 \in Seq(ToRemove(K2, E)) /\ Once(s2)
  BY <1>1, <1>2, ActionsOnce
<1>6. Len(s2) = p /\ p \in Nat
  <2>1. ToRemove(K2, E) \subseteq Action
    BY DEF ToRemove
  <2>2. s2 \in Seq(Action)
    BY <1>5, <2>1, SeqsGrow
  <2> QED
    BY <1>1, <2>2, ActionsLength, LenProperties
<1> DEFINE A1 == ToRemove(K1, E)
           A2 == ToRemove(K2, E)
           Y == ToRemove(K3, E)
<1>7. /\ \A x \in A1, y \in A2 : PlaceOf(x) # PlaceOf(y)
      /\ \A x \in A1 \cup A2, y \in Y : PlaceOf(x) # PlaceOf(y)
      /\ \A x \in Y : x.kind # "release"
  BY DEF ToRemove, PlaceOf
<1>8. A1 \cup A2 \cup Y \subseteq ToRemove({"stage", "release", "manifest", "receipt"}, E)
  BY DEF ToRemove
<1>9. m \in Seq(Y) /\ Once(m) /\ Len(m) = 2 * p
  BY <1>1, <1>2, ManifestsOnce
<1>10. \A k \in 1..p : /\ 2 * k \in 1..2 * p
                       /\ m[2 * k].kind = "receipt" /\ m[2 * k].of = l[k]
  <2>1. \A k \in 1..p : 2 * k \in 1..2 * p /\ m[2 * k] = [kind |-> "receipt", of |-> l[k]]
    BY <1>1, ManifestsAt
  <2> HIDE DEF m, p
  <2>2. ASSUME NEW k \in 1..p
        PROVE  m[2 * k].kind = "receipt" /\ m[2 * k].of = l[k]
    <3>1. PICK x : x = m[2 * k]
      OBVIOUS
    <3>2. x = [kind |-> "receipt", of |-> l[k]]
      BY <2>1, <3>1
    <3>3. x.kind = "receipt" /\ x.of = l[k]
      BY <3>2
    <3> QED
      BY <3>1, <3>3
  <2> QED
    BY <2>1, <2>2
<1> HIDE DEF s1, s2, m, A1, A2, Y, p
<1>11. /\ b \in Seq(A1 \cup A2) /\ Len(b) = 1 + p /\ Once(b)
       /\ b[1].kind = "stage"
       /\ \A n \in 1..p : b[1 + n] = s2[n]
  <2>1. s1 \in Seq(A1) /\ s2 \in Seq(A2)
    BY <1>3, <1>5 DEF A1, A2
  <2>2. /\ b \in Seq(A1 \cup A2) /\ Len(b) = Len(s1) + Len(s2)
        /\ \A n \in 1..Len(s1) : b[n] = s1[n]
        /\ \A n \in 1..Len(s2) : b[Len(s1) + n] = s2[n]
    BY <2>1, ConcatAt
  <2>3. Once(b)
    BY <1>3, <1>5, <1>7, <2>1, ConcatOnce
  <2>4. 1 \in 1..Len(s1)
    BY <1>3
  <2> QED
    BY <1>3, <1>6, <2>2, <2>3, <2>4
<1> HIDE DEF b
<1> DEFINE X == A1 \cup A2
<1>13. /\ s \in Seq(X \cup Y) /\ Len(s) = Len(b) + Len(m)
       /\ \A n \in 1..Len(b) : s[n] = b[n] /\ b[n] \in X
       /\ \A n \in 1..Len(m) : s[Len(b) + n] = m[n] /\ m[n] \in Y
  <2>1. b \in Seq(X) /\ m \in Seq(Y)
    BY <1>9, <1>11
  <2> HIDE DEF X
  <2> QED
    BY <2>1, ConcatAt
<1>14. Once(s)
  BY <1>7, <1>9, <1>11, ConcatOnce
<1> HIDE DEF s
<1> DEFINE q == Len(s)
<1>15. q = 1 + p + 2 * p
  BY <1>6, <1>9, <1>11, <1>13
<1> HIDE DEF q
<1>16. s[1].kind = "stage" /\ q > 0
  <2>1. 1 \in 1..Len(b)
    BY <1>6, <1>11
  <2> QED
    BY <1>6, <1>11, <1>13, <1>15, <2>1
<1>17. \A k \in 1..p : s[1 + p + 2 * k].kind = "receipt" /\ s[1 + p + 2 * k].of = l[k]
  BY <1>9, <1>10, <1>11, <1>13
<1>18. ASSUME NEW n \in 1..q, s[n].kind = "release"
       PROVE  \E k \in 1..p : n = 1 + k /\ s[n].of = l[k]
  <2>1. n \in 1..1 + p
    <3> DEFINE r == n - (1 + p)
    <3>1. n \in 1..1 + p \/ (r \in 1..2 * p /\ n = 1 + p + r)
      BY <1>6, <1>15
    <3>2. r \in 1..2 * p => s[1 + p + r] = m[r] /\ m[r] \in Y
      BY <1>9, <1>11, <1>13
    <3> HIDE DEF r
    <3> QED
      BY <1>7, <1>18, <3>1, <3>2
  <2>2. n # 1
    BY <1>16, <1>18
  <2>3. n - 1 \in 1..p /\ n = 1 + (n - 1)
    BY <1>6, <2>1, <2>2
  <2>4. s[n] = s2[n - 1]
    <3>1. n \in 1..Len(b)
      BY <1>11, <2>1
    <3>2. b[1 + (n - 1)] = s2[n - 1]
      BY <1>11, <2>3
    <3> QED
      BY <1>13, <2>3, <3>1, <3>2
  <2>5. s2[n - 1].of = l[n - 1]
    BY <1>4, <2>3
  <2> QED
    BY <2>3, <2>4, <2>5
<1>19. ReceiptFollows(s)
  <2> SUFFICES ASSUME NEW n \in 1..q, s[n].kind = "release"
               PROVE  \E k \in n + 1..q : s[k].kind = "receipt" /\ s[k].of = s[n].of
    BY DEF ReceiptFollows, q
  <2>1. PICK k \in 1..p : n = 1 + k /\ s[n].of = l[k]
    BY <1>18
  <2>2. 1 + p + 2 * k \in n + 1..q
    BY <1>6, <1>15, <2>1
  <2> QED
    BY <1>17, <2>1, <2>2
<1>20. WellPlanned(s)
  BY <1>14, <1>16, <1>19 DEF WellPlanned, StagesFirst, q
<1>21. s \in Seq(ToRemove({"stage", "release", "manifest", "receipt"}, E))
  BY <1>8, <1>13, SeqsGrow
<1>22. s = Actions("stage", <<None>>) \o Actions("release", ReleasesToRemove)
                \o ManifestActions(ReleasesToRemove)
  BY DEF s, b, m, s1, s2, l
<1> QED
  BY <1>20, <1>21, <1>22 DEF E

(* A plan is well planned, and removes what there is.                      *)
Removals == {"stage", "release", "manifest", "receipt", "pointer", "asset", "restore", "layout",
             "journal", "cleanup"}
LEMMA PlansAreWell == RemovalPlan \in Seq(ToRemove(Removals, Owned)) /\ WellPlanned(RemovalPlan)
<1> DEFINE E == {}
           A == Owned \ Retained
           B == Owned \cap Retained
           K1 == {"stage", "release", "manifest", "receipt"}
           AR == {"asset", "restore"}
           P == {"pointer"}
           L == {"layout"}
           J == {"journal"}
           C == {"cleanup"}
           K2 == K1 \cup P
           K3 == K2 \cup AR
           K4 == K3 \cup L
           K5 == K4 \cup J
           K6 == K5 \cup C
           K7 == K6 \cup AR
           s1 == Actions("stage", <<None>>) \o Actions("release", ReleasesToRemove)
                    \o ManifestActions(ReleasesToRemove)
           r2 == Actions("pointer", <<None>>)
           r3 == AssetActions(A)
           r4 == Actions("layout", <<None>>)
           r5 == IF journal = None THEN <<>> ELSE Actions("journal", <<None>>)
           r6 == Actions("cleanup", <<None>>)
           r7 == AssetActions(B)
           s2 == s1 \o r2
           s3 == s2 \o r3
           s4 == s3 \o r4
           s5 == s4 \o r5
           s6 == s5 \o r6
           s7 == s6 \o r7
<1>1. s1 \in Seq(ToRemove(K1, E)) /\ WellPlanned(s1)
  BY PlanBegins
<1>2. /\ r2 \in Seq(ToRemove(P, E)) /\ Once(r2) /\ r4 \in Seq(ToRemove(L, E)) /\ Once(r4)
      /\ r6 \in Seq(ToRemove(C, E)) /\ Once(r6)
  BY OneRemoval
<1>3. r3 \in Seq(ToRemove(AR, A)) /\ Once(r3) /\ r7 \in Seq(ToRemove(AR, B)) /\ Once(r7)
  <2>1. A \in SUBSET Assets /\ B \in SUBSET Assets
    BY DEF Owned
  <2> HIDE DEF A, B
  <2> QED
    BY <2>1, AssetsOnce
<1>4. r5 \in Seq(ToRemove(J, E)) /\ Once(r5)
  <2>1. CASE journal = None
    <3>1. r5 = <<>>
      BY <2>1
    <3>2. <<>> \in Seq(ToRemove(J, E)) /\ Once(<<>>)
      BY DEF Once
    <3> QED
      BY <3>1, <3>2
  <2>2. CASE journal # None
    <3>1. r5 = Actions("journal", <<None>>)
      BY <2>2
    <3> QED
      BY <3>1, OneRemoval
  <2> QED
    BY <2>1, <2>2
<1>5. /\ E \cup E = E /\ E \cap E = E /\ E = {} /\ E \cup A = A /\ A \cup E = A /\ E \cap A = {}
      /\ A \cap E = {} /\ A \cap B = {} /\ A \cup B = Owned
  OBVIOUS
<1>6. /\ K1 \cap P = {} /\ "restore" \notin K1 /\ "restore" \notin P /\ "release" \notin P
      /\ K2 \cap AR = {} /\ "restore" \notin K2 /\ "asset" \in AR /\ "release" \notin AR
      /\ K3 \cap L = {} /\ "asset" \in K3 /\ "restore" \notin L /\ "release" \notin L
      /\ K4 \cap J = {} /\ "asset" \in K4 /\ "restore" \notin J /\ "release" \notin J
      /\ K5 \cap C = {} /\ "asset" \in K5 /\ "restore" \notin C /\ "release" \notin C
      /\ K6 \cap AR \subseteq {"asset", "restore"} /\ "asset" \in K6
  OBVIOUS
<1>7. K7 = Removals
  BY DEF Removals
<1> HIDE DEF E, A, B, K1, P, AR, L, J, C, s1, r2, r3, r4, r5, r6, r7
<1>8. s2 \in Seq(ToRemove(K2, E)) /\ WellPlanned(s2)
  <2>1. s1 \o r2 \in Seq(ToRemove(K1 \cup P, E \cup E)) /\ WellPlanned(s1 \o r2)
    BY <1>1, <1>2, <1>5, <1>6, RemovalsGoOn
  <2> QED
    BY <1>5, <2>1
<1> HIDE DEF K2, s2
<1>9. s3 \in Seq(ToRemove(K3, A)) /\ WellPlanned(s3)
  <2>1. s2 \o r3 \in Seq(ToRemove(K2 \cup AR, E \cup A)) /\ WellPlanned(s2 \o r3)
    BY <1>3, <1>5, <1>6, <1>8, RemovalsGoOn
  <2> QED
    BY <1>5, <2>1
<1> HIDE DEF K3, s3
<1>10. s4 \in Seq(ToRemove(K4, A)) /\ WellPlanned(s4)
  <2>1. s3 \o r4 \in Seq(ToRemove(K3 \cup L, A \cup E)) /\ WellPlanned(s3 \o r4)
    BY <1>2, <1>5, <1>6, <1>9, RemovalsGoOn
  <2> QED
    BY <1>5, <2>1
<1> HIDE DEF K4, s4
<1>11. s5 \in Seq(ToRemove(K5, A)) /\ WellPlanned(s5)
  <2>1. s4 \o r5 \in Seq(ToRemove(K4 \cup J, A \cup E)) /\ WellPlanned(s4 \o r5)
    BY <1>4, <1>5, <1>6, <1>10, RemovalsGoOn
  <2> QED
    BY <1>5, <2>1
<1> HIDE DEF K5, s5
<1>12. s6 \in Seq(ToRemove(K6, A)) /\ WellPlanned(s6)
  <2>1. s5 \o r6 \in Seq(ToRemove(K5 \cup C, A \cup E)) /\ WellPlanned(s5 \o r6)
    BY <1>2, <1>5, <1>6, <1>11, RemovalsGoOn
  <2> QED
    BY <1>5, <2>1
<1> HIDE DEF K6, s6
<1>13. s7 \in Seq(ToRemove(K7, Owned)) /\ WellPlanned(s7)
  <2>1. s6 \o r7 \in Seq(ToRemove(K6 \cup AR, A \cup B)) /\ WellPlanned(s6 \o r7)
    BY <1>3, <1>5, <1>6, <1>12, RemovalsGoOn
  <2> QED
    BY <1>5, <2>1
<1>14. RemovalPlan = s7
  BY DEF RemovalPlan, s1, s2, s3, s4, s5, s6, s7, r2, r3, r4, r5, r6, r7, A, B
<1> QED
  BY <1>7, <1>13, <1>14

-----------------------------------------------------------------------------
(* The rest of a plan is still valid, action by action.                    *)
ValidAt(t, n) ==
    \/ staging[t].plan[n].kind = "cleanup"
    \/ ValidAction(staging[t], staging[t].plan[n], Begun(staging[t].journal, n))
RestIsValid(t) ==
    \A n \in staging[t].journal.done + 1..Len(staging[t].plan) : ValidAt(t, n)

(* A release is removed after its Git entries were recorded, and those     *)
(* were recorded for the release that the receipt is of.                   *)
ReleaseActions(t) ==
    {n \in 1..Len(staging[t].plan) : staging[t].plan[n].kind = "release"}
Witnessed(t) == \A n \in ReleaseActions(t) :
    LET c == staging[t].plan[n].of IN
    /\ staging[t].was.release[c] # None /\ staging[t].was.receipt[c] = staging[t].was.release[c]
    /\ Begun(staging[t].journal, n) => c \in staging[t].proofs
CapabilityIs(t) == staging[t].journal.done > 0 => staging[t].skills = "skills"

(* An uninstall that nobody disturbed, and that is not complete.           *)
Unfollowed(t) == t \notin disturbed /\ Unfinished(t)
Continues(t) == Unfollowed(t) =>
    /\ staging[t].whole /\ layout \in {None, staging[t].was.layout}
    /\ WellPlanned(staging[t].plan) /\ Witnessed(t) /\ CapabilityIs(t) /\ RestIsValid(t)

(* What a run that is in its uninstall knows.                              *)
Working == {"journal", "next", "before", "remove", "after"}
WorksAt(i) ==
    /\ at[i] = "journal" => /\ staging[txn[i]].plan = RemovalPlan /\ SavedIs
                            /\ staging[txn[i]].whole /\ staging[txn[i]].skills = None
    /\ at[i] \in Working \ {"journal"} => Planned \subseteq disturbed \cup {txn[i]}
    /\ at[i] = "before" /\ Current(i).kind = "release" => Current(i).of \in staging[txn[i]].proofs
    /\ at[i] \in {"remove", "after"} => staging[txn[i]].journal.begun
    /\ at[i] = "after" /\ Unfollowed(txn[i]) /\ staging[txn[i]].journal.done = 0 =>
          staging[txn[i]].skills = "skills"
ResumeInv == \A i \in Installers : Continues(i) /\ WorksAt(i)

(* That is why it can be resumed.                                          *)
LEMMA WhatContinuesIsResumable ==
    ASSUME FileTypes, NEW t \in Installers, Continues(t), Unfollowed(t)
    PROVE  /\ Readable(t)
           /\ staging[t].journal.done < Len(staging[t].plan) =>
                 Executable(staging[t], staging[t].journal.done + 1)
<1> DEFINE s == staging[t]
           k == staging[t].journal.done
<1>1. /\ s.whole /\ layout \in {None, s.was.layout} /\ WellPlanned(s.plan) /\ Witnessed(t)
      /\ CapabilityIs(t) /\ RestIsValid(t) /\ Journaled(t)
  BY DEF Continues, Unfollowed, Unfinished
<1>2. k \in Nat /\ Len(s.plan) \in Nat
  BY <1>1, Underway
<1>3. ASSUME NEW n \in k + 1..Len(s.plan)
      PROVE  (s.plan[n].kind = "cleanup" /\ k = 0) \/ ValidAction(s, s.plan[n], Begun(s.journal, n))
  <2>1. ValidAt(t, n)
    BY <1>1 DEF RestIsValid
  <2>2. CASE s.plan[n].kind = "cleanup" /\ k # 0
    <3>1. s.skills = "skills"
      BY <1>1, <1>2, <2>2 DEF CapabilityIs
    <3> QED
      BY <2>2, <3>1 DEF ValidAction
  <2> QED
    BY <2>1, <2>2 DEF ValidAt
<1>4. Readable(t)
  BY <1>1, <1>3 DEF Readable, Journaled, LayoutFile, Installed
<1>5. ASSUME k < Len(s.plan)
      PROVE  Executable(s, k + 1)
  <2>1. k + 1 \in k + 1..Len(s.plan) /\ k + 1 \in 1..Len(s.plan)
    BY <1>2, <1>5
  <2>2. ValidAction(s, s.plan[k + 1], Begun(s.journal, k + 1))
    <3>1. k = 0 => s.plan[k + 1].kind = "stage"
      BY <1>1 DEF WellPlanned, StagesFirst
    <3> QED
      BY <1>3, <2>1, <3>1
  <2>3. ASSUME s.plan[k + 1].kind = "release", release[s.plan[k + 1].of] # None
        PROVE  Provable(s, s.plan[k + 1].of)
    <3> DEFINE c == s.plan[k + 1].of
    <3>1. /\ s.was.release[c] # None /\ s.was.receipt[c] = s.was.release[c]
          /\ Begun(s.journal, k + 1) => c \in s.proofs
      BY <1>1, <2>1, <2>3 DEF Witnessed, ReleaseActions
    <3>2. PICK m \in k + 1 + 1..Len(s.plan) : s.plan[m].kind = "receipt" /\ s.plan[m].of = c
      BY <1>1, <2>1, <2>3 DEF WellPlanned, ReceiptFollows
    <3>3. m \in k + 1..Len(s.plan) /\ ~Begun(s.journal, m)
      BY <1>2, <3>2 DEF Begun
    <3>4. ValidAction(s, s.plan[m], Begun(s.journal, m))
      BY <1>3, <3>2, <3>3
    <3>5. Stands(receipt[s.plan[m].of], s.was.receipt[s.plan[m].of], Begun(s.journal, m))
      BY <3>2, <3>4 DEF ValidAction
    <3>6. receipt[c] = s.was.receipt[c]
      BY <3>2, <3>3, <3>5 DEF Stands
    <3>7. ~Begun(s.journal, k + 1) => release[c] = s.was.release[c]
      BY <2>2, <2>3 DEF ValidAction, Stands
    <3> QED
      BY <3>1, <3>6, <3>7 DEF Provable
  <2> QED
    BY <2>2, <2>3 DEF Executable
<1> QED
  BY <1>4, <1>5

-----------------------------------------------------------------------------
(* What it depends on.                                                     *)
LEMMA ValidStays ==
    ASSUME UNCHANGED Installation, NEW t, NEW n, staging'[t] = staging[t], ValidAt(t, n)
    PROVE  ValidAt(t, n)'
<1>1. UNCHANGED <<layout, asset, backup, receipt, manifest, release, pointer, journal, phase>>
  BY DEF Installation, storeVars, journalVars
<1> QED
  BY <1>1 DEF ValidAt, ValidAction, Stands, ValidRestore, ValidStage, LayoutFile, Installed

LEMMA ContinuesStays ==
    ASSUME UNCHANGED Installation, NEW t, staging'[t] = staging[t], Continues(t),
           t \in disturbed => t \in disturbed' \/ ~Unfinished(t)
    PROVE  Continues(t)'
<1>1. /\ layout' = layout /\ (Unfinished(t)' <=> Unfinished(t)) /\ (Unfollowed(t)' => Unfollowed(t))
  BY DEF Installation, Unfinished, Journaled, Unfollowed
<1>2. (Witnessed(t)' <=> Witnessed(t)) /\ (CapabilityIs(t)' <=> CapabilityIs(t))
  BY DEF Witnessed, ReleaseActions, CapabilityIs
<1>3. RestIsValid(t) => RestIsValid(t)'
  BY ValidStays DEF RestIsValid
<1> QED
  BY <1>1, <1>2, <1>3 DEF Continues

(* The plan and the backups of a run that is about to write its journal.   *)
LEMMA PlanStays ==
    ASSUME UNCHANGED Installation
    PROVE  RemovalPlan' = RemovalPlan /\ (SavedIs' <=> SavedIs)
<1>1. UNCHANGED <<layout, asset, backup, release, journal>>
  BY DEF Installation, storeVars, journalVars
<1> QED
  BY <1>1 DEF RemovalPlan, AssetActions, Owned, Displaced, ReleasesToRemove, ManifestActions, SavedIs

LEMMA WorksStays ==
    ASSUME UNCHANGED Installation, NEW i, at'[i] = at[i], txn'[i] = txn[i],
           staging'[txn[i]] = staging[txn[i]], WorksAt(i),
           Planned' \subseteq Planned /\ disturbed \subseteq disturbed'
    PROVE  WorksAt(i)'
<1>1. RemovalPlan' = RemovalPlan /\ (SavedIs' <=> SavedIs)
  BY PlanStays
<1>2. (Unfollowed(txn[i])' => Unfollowed(txn[i])) /\ Current(i)' = Current(i)
  BY DEF Unfollowed, Unfinished, Journaled, Current
<1> HIDE DEF RemovalPlan
<1>3. at'[i] = "journal" => /\ staging'[txn'[i]].plan = RemovalPlan' /\ SavedIs'
                            /\ staging'[txn'[i]].whole /\ staging'[txn'[i]].skills = None
  BY <1>1 DEF WorksAt
<1>4. at'[i] \in Working \ {"journal"} => Planned' \subseteq disturbed' \cup {txn'[i]}
  BY DEF WorksAt
<1>5. /\ at'[i] = "before" /\ Current(i)'.kind = "release" => Current(i)'.of \in staging'[txn'[i]].proofs
      /\ at'[i] \in {"remove", "after"} => staging'[txn'[i]].journal.begun
  BY <1>2 DEF WorksAt
<1>6. at'[i] = "after" /\ Unfollowed(txn[i])' /\ staging'[txn'[i]].journal.done = 0 =>
          staging'[txn'[i]].skills = "skills"
  BY <1>2 DEF WorksAt
<1> QED
  BY <1>3, <1>4, <1>5, <1>6 DEF WorksAt

-----------------------------------------------------------------------------
(* A run that is in its uninstall has the lock.                            *)
LEMMA WorkersDrive ==
    ASSUME IInv, Shapes, NEW i \in Installers, at[i] \in Working
    PROVE  Driving(i) /\ cmd[i] = "uninstall"
<1>1. cmd[i] = "uninstall"
  BY DEF Shapes, Shape, Working, IInv, Locking, Located, Busy, Beginning
<1> QED
  BY <1>1 DEF Driving, Working

(* Nothing changes but where runs are, and nobody begins an uninstall.     *)
LEMMA IdleResumes ==
    ASSUME ResumeInv, UNCHANGED <<Installation, staging>>, disturbed \subseteq disturbed',
           \A j \in Installers : (at'[j] = at[j] /\ txn'[j] = txn[j]) \/ at'[j] \notin Working
    PROVE  ResumeInv'
<1>1. UNCHANGED Installation /\ staging' = staging /\ Planned' = Planned
  BY DEF Planned
<1>2. ASSUME NEW t \in Installers
      PROVE  Continues(t)'
  BY <1>1, ContinuesStays DEF ResumeInv
<1>3. ASSUME NEW j \in Installers
      PROVE  WorksAt(j)'
  <2>1. CASE at'[j] = at[j] /\ txn'[j] = txn[j]
    <3>1. WorksAt(j)
      BY DEF ResumeInv
    <3> QED
      BY <1>1, <2>1, <3>1, WorksStays
  <2>2. CASE at'[j] \notin Working
    BY <2>2 DEF WorksAt, Working
  <2> QED
    BY <2>1, <2>2
<1> QED
  BY <1>2, <1>3 DEF ResumeInv

(* The installation changes, and everybody who has planned is disturbed.   *)
LEMMA DisturbedResumes ==
    ASSUME staging' = staging, Planned \subseteq disturbed',
           \A j \in Installers : at'[j] \notin Working
                \/ (at'[j] = "remove" /\ at[j] = "remove" /\ txn'[j] = txn[j] /\ WorksAt(j))
    PROVE  ResumeInv'
<1>1. Planned' \subseteq disturbed'
  BY DEF Planned
<1>2. ASSUME NEW t \in Installers
      PROVE  Continues(t)'
  <2>1. Unfinished(t)' => t \in Planned'
    BY DEF Unfinished, Journaled, Planned
  <2> QED
    BY <1>1, <2>1 DEF Continues, Unfollowed
<1>3. ASSUME NEW j \in Installers
      PROVE  WorksAt(j)'
  <2>1. CASE at'[j] \notin Working
    BY <2>1 DEF WorksAt, Working
  <2>2. CASE at'[j] = "remove" /\ at[j] = "remove" /\ txn'[j] = txn[j] /\ WorksAt(j)
    BY <1>1, <2>2 DEF WorksAt
  <2> QED
    BY <2>1, <2>2
<1> QED
  BY <1>2, <1>3 DEF ResumeInv

(* A step of an installer goes to no uninstall, and changes the            *)
(* installation only when nobody is in one.                                *)
LEMMA InstallersStayOut ==
    ASSUME IInv, Shapes, NEW i \in Installers, Step(i)
    PROVE  /\ at'[i] \notin Working
           /\ ~UNCHANGED Installation => \A j \in Installers \ {i} : ~Driving(j)
<1>1. at'[i] \notin Working
  <2>1. CASE Publicly(i)
    BY <2>1, PublicationGoes DEF IInv, Publicly, Working
  <2> QED
    BY <2>1, OthersGoElsewhere DEF KeepingPlaces, Working
<1>2. ASSUME ~LockStep(i)
      PROVE  Driving(i)
  BY <1>2, ShellProceeds, PrepareProceeds, JournalProceeds, SwitchProceeds DEF Step, Proceeds
<1>3. CASE LockStep(i) /\ ~Acquire(i)
  BY <1>1, <1>3 DEF LockStep, BeginRefused, BeginFree, BeginStale, UnlinkStaleOwner, RemoveStaleLock,
     ReleaseLock, RemoveLock, Refuse, bootVars, Installation
<1>4. CASE Acquire(i)
  <2>1. cmd[i] = "begin" /\ at[i] # "start"
    BY <1>4 DEF Acquire, IInv, Locking, Located, Busy, Beginning
  <2> QED
    BY <1>1, <2>1 DEF IInv, Locking, LockIs
<1> QED
  BY <1>1, <1>2, <1>3, <1>4, DriverIsAlone DEF IInv

LEMMA InstallersResume ==
    ASSUME IInv, Shapes, ResumeInv, NEW i \in Installers, Step(i), Noticed
    PROVE  ResumeInv'
<1>1. /\ at'[i] \notin Working /\ AtStays(i) /\ staging' = staging
      /\ ~UNCHANGED Installation => \A j \in Installers \ {i} : ~Driving(j)
  BY InstallersStayOut, OthersStay, StagingUntouched
<1>2. CASE UNCHANGED Installation
  <2>1. \A j \in Installers : (at'[j] = at[j] /\ txn'[j] = txn[j]) \/ at'[j] \notin Working
    BY <1>1 DEF AtStays
  <2>2. disturbed' = disturbed
    BY <1>2 DEF Noticed
  <2> QED
    BY <1>1, <1>2, <2>1, <2>2, IdleResumes
<1>3. CASE ~UNCHANGED Installation
  <2>1. \A j \in Installers : at'[j] \notin Working
    BY <1>1, <1>3, WorkersDrive DEF AtStays
  <2>2. Planned \subseteq disturbed'
    BY <1>3 DEF Noticed
  <2> QED
    BY <1>1, <2>1, <2>2, DisturbedResumes
<1> QED
  BY <1>2, <1>3

(* Runs begin and end, and the user edits.                                 *)
LEMMA EndResumes ==
    ASSUME IInv, ResumeInv, NEW i \in Installers, End(i), UNCHANGED <<Installation, staging>>,
           disturbed \subseteq disturbed'
    PROVE  ResumeInv'
<1>1. \A j \in Installers : (at'[j] = at[j] /\ txn'[j] = txn[j]) \/ at'[j] \notin Working
  BY DEF End, IInv, Types, Working
<1> QED
  BY <1>1, IdleResumes

LEMMA StartResumes ==
    ASSUME IInv, ResumeInv, NEW i \in Installers,
           \/ \E c \in Commits \cup {None} : Start(i, c) /\ Noticed
           \/ \E r \in Installers \cup {None} : StartRemoval(i, r)
    PROVE  ResumeInv'
<1>1. /\ cmd[i] = "off" /\ at' = at /\ \A j \in Installers \ {i} : txn'[j] = txn[j]
  BY DEF Start, StartRemoval, IInv, Types
<1>2. UNCHANGED Installation /\ staging' = staging
  BY DEF Start, StartRemoval, Installation, bootVars
<1>3. disturbed' = disturbed
  BY <1>2 DEF StartRemoval, Noticed, removalVars
<1>4. at[i] \notin Working
  BY <1>1 DEF IInv, Locking, Located, Working
<1> QED
  BY <1>1, <1>2, <1>3, <1>4, IdleResumes

LEMMA EditResumes ==
    ASSUME IInv, Shapes, ResumeInv, Edit
    PROVE  ResumeInv'
<1>1. at' = at /\ txn' = txn /\ staging' = staging
  BY DEF Edit, processVars
<1>2. CASE UNCHANGED <<asset, release, disturbed>>
  <2>1. UNCHANGED Installation
    BY <1>2 DEF Edit, Installation, storeVars, journalVars
  <2> QED
    BY <1>1, <1>2, <2>1, IdleResumes
<1>3. CASE disturbed' = disturbed \cup Planned
  <2>1. ASSUME NEW j \in Installers, at[j] \in Working
        PROVE  at[j] = "remove"
    BY <2>1, WorkersDrive DEF Edit, OfRemoval
  <2> QED
    BY <1>1, <1>3, <2>1, DisturbedResumes DEF ResumeInv
<1> QED
  BY <1>2, <1>3 DEF Edit

-----------------------------------------------------------------------------
(* A step of an uninstall disturbs no other: the others were superseded,   *)
(* or nothing of the installation changes.                                 *)
LEMMA OneResumes ==
    ASSUME IInv, Shapes, RemovalInv, ResumeInv, NEW i \in Installers, RemovalStep(i), Driving(i),
           NEW T \in Installers, txn[i] = T,
           \A t \in Installers \ {T} : staging'[t] = staging[t],
           disturbed \subseteq disturbed',
           UNCHANGED Installation \/ at[i] \in Working \ {"journal"},
           Continues(T)', WorksAt(i)'
    PROVE  ResumeInv'
<1>1. AtStays(i)
  BY RemovalFinds, RemovalGoes
<1>2. ASSUME NEW t \in Installers \ {T}
      PROVE  Continues(t)'
  <2>1. staging'[t] = staging[t] /\ (t \in disturbed => t \in disturbed') /\ Continues(t)
    BY DEF ResumeInv
  <2>2. CASE UNCHANGED Installation
    BY <2>1, <2>2, ContinuesStays
  <2>3. CASE at[i] \in Working \ {"journal"}
    <3>1. Planned \subseteq disturbed \cup {T}
      BY <2>3 DEF ResumeInv, WorksAt
    <3>2. Unfinished(t)' => t \in Planned
      BY <2>1 DEF Unfinished, Journaled, Planned
    <3>3. ~Unfollowed(t)'
      BY <3>1, <3>2 DEF Unfollowed
    <3> QED
      BY <3>3 DEF Continues
  <2> QED
    BY <2>2, <2>3
<1>3. ASSUME NEW j \in Installers \ {i}
      PROVE  WorksAt(j)'
  <2>1. at'[j] \notin Working
    BY <1>1, WorkersDrive, DriverIsAlone DEF AtStays, IInv
  <2> QED
    BY <2>1 DEF WorksAt, Working
<1>4. \A t \in Installers : Continues(t)'
  BY <1>2
<1>5. \A j \in Installers : WorksAt(j)'
  BY <1>3
<1> QED
  BY <1>4, <1>5 DEF ResumeInv

(* Where an uninstall goes on.                                             *)
LEMMA RemovalProceeds ==
    ASSUME IInv, NEW i \in Installers, NEW a, Continue(i, a)
    PROVE  at'[i] = a /\ txn' = txn
  BY DEF Continue, Goto, Load, IInv, Types

(* An uninstall finds its journal.                                         *)
LEMMA FoundResumes ==
    ASSUME IInv, Shapes, RemovalInv, ResumeInv, NEW i \in Installers, RemovalStep(i), FindJournal(i)
    PROVE  ResumeInv'
<1>0. PICK T \in Installers : txn[i] = T
  BY DEF IInv, Types
<1>1. at'[i] = "next" /\ txn' = txn
  <2>1. Continue(i, "next")
    BY DEF FindJournal
  <2> QED
    BY <2>1, RemovalProceeds
<1>2. staging' = staging /\ UNCHANGED Installation /\ disturbed' = disturbed \cup (Planned \ {T})
  BY <1>0 DEF FindJournal, Supersede, Others, Installation, storeVars, journalVars
<1>3. Driving(i)
  BY DrivenUninstall DEF FindJournal, OfRemoval
<1>4. Continues(T)'
  <2>1. Continues(T)
    BY DEF ResumeInv
  <2> QED
    BY <1>2, <2>1, ContinuesStays
<1>5. WorksAt(i)'
  <2>1. Planned' \subseteq disturbed' \cup {T}
    BY <1>2 DEF Planned
  <2> QED
    BY <1>0, <1>1, <2>1 DEF WorksAt
<1> QED
  BY <1>0, <1>2, <1>3, <1>4, <1>5, OneResumes

(* It makes a plan.                                                        *)
LEMMA PlannedResumes ==
    ASSUME IInv, Shapes, RemovalInv, ResumeInv, NEW i \in Installers, RemovalStep(i), PlanRemoval(i)
    PROVE  ResumeInv'
<1>0. PICK T \in Installers : txn[i] = T
  BY DEF IInv, Types
<1>1. Driving(i) /\ \A t \in Installers \ {T} : staging'[t] = staging[t]
  BY <1>0, WriterIs
<1>2. at'[i] = "journal" /\ txn' = txn
  <2>1. Continue(i, "journal")
    BY DEF PlanRemoval
  <2> QED
    BY <2>1, RemovalProceeds
<1>3. disturbed' = disturbed /\ UNCHANGED Installation
  BY DEF PlanRemoval, Kept, Others, Installation, storeVars, journalVars
<1>4. staging'[T] = [plan |-> RemovalPlan, journal |-> None, was |-> None, proofs |-> {},
                     skills |-> None, whole |-> TRUE]
  BY <1>0 DEF PlanRemoval, Stage, RemovalInv, FileTypes
<1>5. RemovalPlan' = RemovalPlan /\ (SavedIs' <=> SavedIs)
  BY <1>3, PlanStays
<1>6. SavedIs
  BY DEF PlanRemoval, Removable, SavedIs
<1> HIDE DEF RemovalPlan
<1>7. /\ staging'[T].plan = RemovalPlan /\ staging'[T].whole
      /\ staging'[T].skills = None /\ staging'[T].journal = None
  BY <1>4
<1>8. WorksAt(i)'
  BY <1>0, <1>2, <1>5, <1>6, <1>7 DEF WorksAt
<1>9. Continues(T)'
  BY <1>7 DEF Continues, Unfollowed, Unfinished, Journaled
<1> QED
  BY <1>0, <1>1, <1>3, <1>8, <1>9, OneResumes

(* What is planned is as the evidence says: every action is valid,         *)
LEMMA EvidenceIsValid ==
    ASSUME SavedIs, LayoutFile = layout, NEW A, A \subseteq Owned, NEW act \in ToRemove(Removals, A),
           NEW s, s.was = Evidence, s.skills = None, act.kind # "cleanup"
    PROVE  ValidAction(s, act, FALSE)
<1>1. /\ s.was.layout = layout /\ s.was.release = release /\ s.was.manifest = manifest
      /\ s.was.receipt = receipt /\ s.was.pointer = pointer /\ s.was.pending = <<journal, phase>>
  BY DEF Evidence
<1>2. /\ act.kind \in {"stage", "release", "manifest", "receipt", "pointer", "asset", "restore", "layout",
                       "journal"}
      /\ act.kind \in {"asset", "restore"} => act.of \in Owned
      /\ act.kind = "restore" => act.of \in Displaced
  BY DEF ToRemove, Removals
<1>3. CASE act.kind \in {"stage", "release", "manifest", "receipt", "pointer", "layout", "journal"}
  BY <1>1, <1>3 DEF ValidAction, Stands, ValidStage
<1>4. CASE act.kind = "asset"
  BY <1>1, <1>2, <1>4 DEF ValidAction, Stands, Owned
<1>5. CASE act.kind = "restore"
  <2>1. backup[act.of] = layout.original[act.of] /\ backup[act.of] # None /\ asset[act.of] = layout.assets
    BY <1>2, <1>5 DEF Displaced, Owned, SavedIs
  <2>2. ValidRestore(act.of, s.was, FALSE)
    BY <1>1, <2>1 DEF ValidRestore, Stands
  <2> QED
    BY <1>5, <2>2 DEF ValidAction
<1> QED
  BY <1>2, <1>3, <1>4, <1>5

(* The directory is journaled.                                             *)
LEMMA ActionStays ==
    ASSUME UNCHANGED Installation, NEW s, NEW act, NEW b, ValidAction(s, act, b)
    PROVE  ValidAction(s, act, b)'
<1>1. UNCHANGED <<layout, asset, backup, receipt, manifest, release, pointer, journal, phase>>
  BY DEF Installation, storeVars, journalVars
<1> QED
  BY <1>1 DEF ValidAction, Stands, ValidRestore, ValidStage, LayoutFile, Installed

LEMMA JournalResumes ==
    ASSUME IInv, Shapes, RemovalInv, ResumeInv, NEW i \in Installers, RemovalStep(i), JournalRemoval(i)
    PROVE  ResumeInv'
<1>0. PICK T \in Installers : txn[i] = T
  BY DEF IInv, Types
<1>1. Driving(i) /\ \A t \in Installers \ {T} : staging'[t] = staging[t]
  BY <1>0, WriterIs
<1>2. at'[i] = "next" /\ txn' = txn
  <2>1. Continue(i, "next")
    BY DEF JournalRemoval
  <2> QED
    BY <2>1, RemovalProceeds
<1>3. UNCHANGED Installation /\ disturbed' = disturbed \cup (Planned \ {T})
  BY <1>0 DEF JournalRemoval, Supersede, Others, Installation, storeVars, journalVars
<1>4. /\ staging[T].plan = RemovalPlan /\ SavedIs /\ staging[T].whole /\ staging[T].skills = None
      /\ OwnedReleases
  BY <1>0 DEF ResumeInv, WorksAt, JournalRemoval, OfRemoval
<1> HIDE DEF RemovalPlan
<1>5. PICK s : s = staging'[T]
  OBVIOUS
<1>6. /\ s.plan = RemovalPlan /\ s.whole /\ s.skills = None /\ s.was = Evidence
      /\ s.journal.done = 0 /\ ~s.journal.begun
  <2>1. staging[T] \in Recovery
    BY <1>0, AtRemoval DEF JournalRemoval, Intact
  <2>2. s = [staging[T] EXCEPT !.was = Evidence,
                 !.journal = [done |-> 0, begun |-> FALSE, committed |-> FALSE]]
    BY <1>0, <1>5 DEF JournalRemoval, Stage, RemovalInv, FileTypes
  <2>3. /\ s.plan = staging[T].plan /\ s.whole = staging[T].whole /\ s.skills = staging[T].skills
        /\ s.was = Evidence /\ s.journal = [done |-> 0, begun |-> FALSE, committed |-> FALSE]
    BY <2>1, <2>2 DEF Recovery
  <2> QED
    BY <1>4, <2>3
<1>7. /\ s.plan \in Seq(ToRemove(Removals, Owned)) /\ WellPlanned(s.plan)
      /\ \A n \in 1..Len(s.plan) : s.plan[n] \in ToRemove(Removals, Owned)
  <2>1. s.plan \in Seq(ToRemove(Removals, Owned)) /\ WellPlanned(s.plan)
    BY <1>6, PlansAreWell
  <2> QED
    BY <2>1, ElementOfSeq
<1>8. s.was.layout = layout /\ s.was.release = release /\ s.was.receipt = receipt
  BY <1>6 DEF Evidence
<1>9. WorksAt(i)'
  <2>1. Planned' \subseteq disturbed' \cup {T}
    BY <1>1, <1>3 DEF Planned
  <2> QED
    BY <1>0, <1>2, <2>1 DEF WorksAt
<1>10. \A n : ~Begun(s.journal, n)
  BY <1>6 DEF Begun
<1>11. LayoutFile = layout
  BY AtRemoval DEF JournalRemoval, OfRemoval, RemovalAt, Remains, LayoutFile
<1>12. Witnessed(T)'
  <2>1. ASSUME NEW n \in 1..Len(s.plan), s.plan[n].kind = "release"
        PROVE  release[s.plan[n].of] # None /\ receipt[s.plan[n].of] = release[s.plan[n].of]
    <3>1. release[s.plan[n].of] # None /\ s.plan[n].of \in Commits
      BY <1>7, <2>1 DEF ToRemove, Action
    <3> QED
      BY <1>4, <3>1 DEF OwnedReleases, VerifiedRelease
  <2> QED
    BY <1>5, <1>8, <1>10, <2>1 DEF Witnessed, ReleaseActions
<1>13. RestIsValid(T)'
  <2> SUFFICES ASSUME NEW n \in 1..Len(s.plan)
               PROVE  ValidAt(T, n)'
    BY <1>5, <1>6 DEF RestIsValid
  <2>1. CASE s.plan[n].kind = "cleanup"
    BY <1>5, <2>1 DEF ValidAt
  <2>2. CASE s.plan[n].kind # "cleanup"
    <3>1. ValidAction(s, s.plan[n], FALSE)
      BY <1>4, <1>6, <1>7, <1>11, <2>2, EvidenceIsValid
    <3>2. PICK act : act = s.plan[n]
      OBVIOUS
    <3>3. ValidAction(s, act, FALSE)'
      BY <1>3, <3>1, <3>2, ActionStays
    <3>4. Begun(s.journal, n) = FALSE
      BY <1>6 DEF Begun
    <3> QED
      BY <1>5, <3>2, <3>3, <3>4 DEF ValidAt
  <2> QED
    BY <2>1, <2>2
<1>14. Continues(T)'
  <2>1. staging'[T].whole /\ layout' \in {None, staging'[T].was.layout} /\ WellPlanned(staging'[T].plan)
    BY <1>3, <1>5, <1>6, <1>7, <1>8 DEF Installation
  <2>2. CapabilityIs(T)'
    BY <1>5, <1>6 DEF CapabilityIs
  <2> QED
    BY <1>12, <1>13, <2>1, <2>2 DEF Continues
<1> QED
  BY <1>0, <1>1, <1>3, <1>9, <1>14, OneResumes

-----------------------------------------------------------------------------
(* What a checkpoint or a proof writes.                                    *)
LEMMA WrittenIs ==
    ASSUME NEW s \in Recovery
    PROVE  /\ \A p : LET w == [s EXCEPT !.proofs = p] IN
                 /\ w.plan = s.plan /\ w.was = s.was /\ w.whole = s.whole /\ w.skills = s.skills
                 /\ w.journal = s.journal /\ w.proofs = p
           /\ \A k : LET w == [s EXCEPT !.skills = k] IN
                 /\ w.plan = s.plan /\ w.was = s.was /\ w.whole = s.whole /\ w.skills = k
                 /\ w.journal = s.journal /\ w.proofs = s.proofs
           /\ \A j : LET w == [s EXCEPT !.journal = j] IN
                 /\ w.plan = s.plan /\ w.was = s.was /\ w.whole = s.whole /\ w.skills = s.skills
                 /\ w.journal = j /\ w.proofs = s.proofs
  BY DEF Recovery

LEMMA CheckpointIs ==
    ASSUME NEW s \in Recovery, s.journal \in Progress, NEW w
    PROVE  /\ w = [s EXCEPT !.journal.begun = TRUE] =>
              /\ w.plan = s.plan /\ w.was = s.was /\ w.whole = s.whole /\ w.skills = s.skills
              /\ w.proofs = s.proofs /\ w.journal.begun /\ w.journal.done = s.journal.done
              /\ w.journal.committed = s.journal.committed
           /\ w = [s EXCEPT !.journal.begun = FALSE, !.journal.done = @ + 1] =>
              /\ w.plan = s.plan /\ w.was = s.was /\ w.whole = s.whole /\ w.skills = s.skills
              /\ w.proofs = s.proofs /\ ~w.journal.begun /\ w.journal.done = s.journal.done + 1
              /\ w.journal.committed = s.journal.committed
           /\ w = [s EXCEPT !.journal.committed = TRUE] => w.journal.committed
<1> DEFINE j == s.journal
           b == [j EXCEPT !.begun = TRUE]
           d == [j EXCEPT !.begun = FALSE, !.done = @ + 1]
           c == [j EXCEPT !.committed = TRUE]
<1>1. /\ [s EXCEPT !.journal.begun = TRUE] = [s EXCEPT !.journal = b]
      /\ [s EXCEPT !.journal.begun = FALSE, !.journal.done = @ + 1] = [s EXCEPT !.journal = d]
      /\ [s EXCEPT !.journal.committed = TRUE] = [s EXCEPT !.journal = c]
  BY DEF Recovery
<1>2. /\ b.begun /\ b.done = j.done /\ b.committed = j.committed
      /\ ~d.begun /\ d.done = j.done + 1 /\ d.committed = j.committed
      /\ c.committed
  BY DEF Progress
<1> HIDE DEF b, c, d
<1>3. \A q : LET x == [s EXCEPT !.journal = q] IN
                 /\ x.plan = s.plan /\ x.was = s.was /\ x.whole = s.whole /\ x.skills = s.skills
                 /\ x.journal = q /\ x.proofs = s.proofs
  BY WrittenIs
<1>4. ASSUME NEW q, w = [s EXCEPT !.journal = q]
      PROVE  /\ w.plan = s.plan /\ w.was = s.was /\ w.whole = s.whole /\ w.skills = s.skills
             /\ w.journal = q /\ w.proofs = s.proofs
  BY <1>3, <1>4
<1>5. ASSUME w = [s EXCEPT !.journal.begun = TRUE]
      PROVE  /\ w.plan = s.plan /\ w.was = s.was /\ w.whole = s.whole /\ w.skills = s.skills
             /\ w.journal = b /\ w.proofs = s.proofs
  BY <1>1, <1>4, <1>5
<1>6. ASSUME w = [s EXCEPT !.journal.begun = FALSE, !.journal.done = @ + 1]
      PROVE  /\ w.plan = s.plan /\ w.was = s.was /\ w.whole = s.whole /\ w.skills = s.skills
             /\ w.journal = d /\ w.proofs = s.proofs
  BY <1>1, <1>4, <1>6
<1>7. ASSUME w = [s EXCEPT !.journal.committed = TRUE]
      PROVE  w.journal = c
  BY <1>1, <1>4, <1>7
<1>8. w = [s EXCEPT !.journal.begun = TRUE] =>
              /\ w.plan = s.plan /\ w.was = s.was /\ w.whole = s.whole /\ w.skills = s.skills
              /\ w.proofs = s.proofs /\ w.journal.begun /\ w.journal.done = s.journal.done
              /\ w.journal.committed = s.journal.committed
  BY <1>2, <1>5 DEF j
<1>9. w = [s EXCEPT !.journal.begun = FALSE, !.journal.done = @ + 1] =>
              /\ w.plan = s.plan /\ w.was = s.was /\ w.whole = s.whole /\ w.skills = s.skills
              /\ w.proofs = s.proofs /\ ~w.journal.begun /\ w.journal.done = s.journal.done + 1
              /\ w.journal.committed = s.journal.committed
  BY <1>2, <1>6 DEF j
<1>10. w = [s EXCEPT !.journal.committed = TRUE] => w.journal.committed
  BY <1>2, <1>7
<1> QED
  BY <1>8, <1>9, <1>10

(* The current place of a run that has one.                                *)
LEMMA WriterHas ==
    ASSUME IInv, Shapes, RemovalInv, NEW i \in Installers, RemovalStep(i),
           NEW T \in Installers, txn[i] = T, Intact(T), at[i] \in Working \ {"journal"}
    PROVE  /\ staging[T] \in Recovery /\ staging[T].journal \in Progress /\ Journaled(T)
           /\ staging[T].journal.done \in Nat /\ Len(staging[T].plan) \in Nat
<1>1. Finds(i) /\ FileTypes
  BY RemovalFinds DEF Typed
<1>2. Journaled(T)
  BY <1>1 DEF Finds, Intact, Working
<1> QED
  BY <1>1, <1>2, Underway

(* A plan only removes.                                                    *)
LEMMA RemovalsOnly ==
    ASSUME FileTypes, NEW t \in Installers, Journaled(t)
    PROVE  \A n \in staging[t].journal.done + 1..Len(staging[t].plan) :
              /\ n \in 1..Len(staging[t].plan) /\ staging[t].plan[n] \in Action
              /\ staging[t].plan[n].kind \in Removals
<1>1. /\ staging[t] \in Recovery /\ staging[t].journal.done \in Nat
      /\ Len(staging[t].plan) \in Nat
  BY Underway
<1>2. \A n \in 1..Len(staging[t].plan) : staging[t].plan[n] \in Action
  BY <1>1, DirectoryTyped
<1>3. \A act \in Action : act.kind \in Removals
  BY DEF Action, Removals
<1> QED
  BY <1>1, <1>2, <1>3

(* More was recorded, or begun, or done.                                   *)
LEMMA ActionGrows ==
    ASSUME UNCHANGED Installation, NEW s, NEW w, w.was = s.was, NEW act, act.kind \in Removals \ {"cleanup"},
           NEW b, NEW d, b => d, w.skills = s.skills \/ act.kind # "stage" \/ d, ValidAction(s, act, b)
    PROVE  ValidAction(w, act, d)'
<1>1. UNCHANGED <<layout, asset, backup, receipt, manifest, release, pointer, journal, phase>>
  BY DEF Installation, storeVars, journalVars
<1>2. CASE act.kind \in {"release", "manifest", "receipt", "pointer", "asset", "layout", "journal"}
  BY <1>1, <1>2 DEF ValidAction, Stands, LayoutFile, Installed
<1>3. CASE act.kind = "restore"
  BY <1>1, <1>3 DEF ValidAction, ValidRestore, Stands
<1>4. CASE act.kind = "stage"
  BY <1>1, <1>4 DEF ValidAction, ValidStage
<1> QED
  BY <1>2, <1>3, <1>4 DEF Removals

LEMMA ValidGrows ==
    ASSUME UNCHANGED Installation, NEW t, NEW n, staging[t].plan[n].kind \in Removals,
           staging'[t].plan = staging[t].plan, staging'[t].was = staging[t].was,
           Begun(staging[t].journal, n) => Begun(staging'[t].journal, n),
           \/ staging'[t].skills = staging[t].skills \/ staging[t].plan[n].kind # "stage"
           \/ Begun(staging'[t].journal, n),
           ValidAt(t, n)
    PROVE  ValidAt(t, n)'
<1>1. CASE staging[t].plan[n].kind = "cleanup"
  BY <1>1 DEF ValidAt
<1>2. CASE staging[t].plan[n].kind # "cleanup"
  <2>1. PICK s, w, act : s = staging[t] /\ w = staging'[t] /\ act = staging[t].plan[n]
    OBVIOUS
  <2>2. PICK b, d : b = Begun(s.journal, n) /\ d = Begun(w.journal, n)
    OBVIOUS
  <2>3. ValidAction(s, act, b)
    BY <1>2, <2>1, <2>2 DEF ValidAt
  <2>4. ValidAction(w, act, d)'
    BY <1>2, <2>1, <2>2, <2>3, ActionGrows
  <2> QED
    BY <2>1, <2>2, <2>4 DEF ValidAt
<1> QED
  BY <1>1, <1>2

LEMMA ContinuesGrows ==
    ASSUME FileTypes, UNCHANGED Installation, NEW t \in Installers, Continues(t),
           Unfollowed(t)' => Unfollowed(t),
           staging'[t].plan = staging[t].plan, staging'[t].was = staging[t].was,
           staging'[t].whole = staging[t].whole,
           Unfollowed(t) /\ Unfollowed(t)' => Witnessed(t)' /\ CapabilityIs(t)',
           Unfollowed(t) => \A n \in staging'[t].journal.done + 1..Len(staging[t].plan) :
              /\ n \in staging[t].journal.done + 1..Len(staging[t].plan)
              /\ Begun(staging[t].journal, n) => Begun(staging'[t].journal, n)
              /\ \/ staging'[t].skills = staging[t].skills \/ staging[t].plan[n].kind # "stage"
                 \/ Begun(staging'[t].journal, n)
    PROVE  Continues(t)'
<1> SUFFICES ASSUME Unfollowed(t), Unfollowed(t)'
             PROVE  /\ staging'[t].whole /\ layout' \in {None, staging'[t].was.layout}
                    /\ WellPlanned(staging'[t].plan) /\ RestIsValid(t)'
  BY DEF Continues
<1>1. /\ staging'[t].whole /\ layout' \in {None, staging'[t].was.layout}
      /\ WellPlanned(staging'[t].plan) /\ RestIsValid(t)
  BY DEF Continues, Installation
<1>2. ASSUME NEW n \in staging'[t].journal.done + 1..Len(staging[t].plan)
      PROVE  ValidAt(t, n)'
  <2>1. ValidAt(t, n)
    BY <1>1 DEF RestIsValid
  <2>2. staging[t].plan[n].kind \in Removals
    BY RemovalsOnly DEF Unfollowed, Unfinished
  <2> QED
    BY <2>1, <2>2, ValidGrows
<1> QED
  BY <1>1, <1>2 DEF RestIsValid

(* A run goes on in its plan.                                              *)
LEMMA WorksOn ==
    ASSUME ResumeInv, NEW i \in Installers, NEW T \in Installers, txn[i] = T, txn' = txn,
           at[i] \in Working \ {"journal"}, at'[i] # "journal",
           \A t \in Installers \ {T} : staging'[t] = staging[t], disturbed' = disturbed,
           at'[i] = "before" /\ Current(i)'.kind = "release" => Current(i)'.of \in staging'[T].proofs,
           at'[i] \in {"remove", "after"} => staging'[T].journal.begun,
           at'[i] = "after" /\ Unfollowed(T)' /\ staging'[T].journal.done = 0 =>
              staging'[T].skills = "skills"
    PROVE  WorksAt(i)'
<1>1. Planned' \subseteq disturbed' \cup {T}
  BY DEF Planned, ResumeInv, WorksAt
<1> QED
  BY <1>1 DEF WorksAt

(* Git entries are recorded.                                               *)
LEMMA ProofResumes ==
    ASSUME IInv, Shapes, RemovalInv, ResumeInv, NEW i \in Installers, RemovalStep(i), ProveRelease(i)
    PROVE  ResumeInv'
<1>0. PICK T \in Installers : txn[i] = T
  BY DEF IInv, Types
<1>1. Driving(i) /\ \A t \in Installers \ {T} : staging'[t] = staging[t]
  BY <1>0, WriterIs
<1>2. at'[i] = "before" /\ txn' = txn
  <2>1. Continue(i, "before")
    BY DEF ProveRelease
  <2> QED
    BY <2>1, RemovalProceeds
<1>3. UNCHANGED Installation /\ disturbed' = disturbed /\ at[i] \in Working \ {"journal"} /\ Intact(T)
  BY <1>0 DEF ProveRelease, Kept, Others, Installation, storeVars, journalVars, OfRemoval, Working,
     Checked, HasNext
<1>4. /\ staging[T] \in Recovery /\ staging[T].journal.done \in Nat /\ Len(staging[T].plan) \in Nat
      /\ FileTypes /\ Continues(T)
  BY <1>0, <1>3, WriterHas DEF ResumeInv, RemovalInv
<1>5. /\ staging'[T].plan = staging[T].plan /\ staging'[T].was = staging[T].was
      /\ staging'[T].whole = staging[T].whole /\ staging'[T].skills = staging[T].skills
      /\ staging'[T].journal = staging[T].journal
      /\ staging'[T].proofs = staging[T].proofs \cup {Current(i).of}
  <2>1. PICK p : p = staging[T].proofs \cup {Current(i).of}
    OBVIOUS
  <2>2. staging'[T] = [staging[T] EXCEPT !.proofs = p]
    BY <1>0, <1>4, <2>1 DEF ProveRelease, Stage, FileTypes
  <2> QED
    BY <1>4, <2>1, <2>2, WrittenIs
<1>6. Current(i)' = Current(i)
  BY <1>0, <1>2, <1>5 DEF Current
<1>7. WorksAt(i)'
  BY <1>0, <1>1, <1>2, <1>3, <1>5, <1>6, WorksOn
<1>8. Unfollowed(T)' => Unfollowed(T)
  BY <1>3, <1>4, <1>5, RecoveryAssumption DEF Unfollowed, Unfinished, Journaled
<1>9. Unfollowed(T) => Witnessed(T)' /\ CapabilityIs(T)'
  BY <1>4, <1>5 DEF Continues, Witnessed, ReleaseActions, CapabilityIs
<1>10. Continues(T)'
  BY <1>3, <1>4, <1>5, <1>8, <1>9, ContinuesGrows
<1> QED
  BY <1>0, <1>1, <1>3, <1>7, <1>10, OneResumes

(* An action begins: if it is of a release, its Git entries were recorded. *)
LEMMA BeginningIsWitnessed ==
    ASSUME ResumeInv, NEW i \in Installers, NEW T \in Installers, txn[i] = T, CheckpointBefore(i),
           Unfollowed(T), staging[T].journal.done \in Nat, Len(staging[T].plan) \in Nat,
           staging[T].journal.done < Len(staging[T].plan), Current(i).kind = "release"
    PROVE  Current(i).of \in staging[T].proofs
<1>1. CASE at[i] = "before"
  BY <1>1 DEF ResumeInv, WorksAt
<1>2. CASE at[i] = "next"
  <2> DEFINE k == staging[T].journal.done + 1
             c == Current(i).of
  <2>1. /\ Witnessed(T) /\ k \in ReleaseActions(T) /\ Current(i) = staging[T].plan[k]
    BY DEF ResumeInv, Continues, ReleaseActions, Current
  <2>2. staging[T].was.release[c] # None /\ (Begun(staging[T].journal, k) => c \in staging[T].proofs)
    BY <2>1 DEF Witnessed
  <2>3. ValidAction(staging[T], Current(i), Begun(staging[T].journal, k)) /\ ~ToProve(i)
    BY <1>2, <2>1 DEF CheckpointBefore, OfRemoval, Checked, Executable
  <2>4. release[c] = None \/ c \in staging[T].proofs
    BY <2>3 DEF ToProve
  <2>5. release[c] = None => Begun(staging[T].journal, k)
    BY <2>2, <2>3 DEF ValidAction, Stands
  <2> QED
    BY <2>2, <2>4, <2>5
<1> QED
  BY <1>1, <1>2 DEF CheckpointBefore, OfRemoval

LEMMA BeginningResumes ==
    ASSUME IInv, Shapes, RemovalInv, ResumeInv, NEW i \in Installers, RemovalStep(i),
           CheckpointBefore(i)
    PROVE  ResumeInv'
<1>0. PICK T \in Installers : txn[i] = T
  BY DEF IInv, Types
<1>1. Driving(i) /\ \A t \in Installers \ {T} : staging'[t] = staging[t]
  BY <1>0, WriterIs
<1>2. at'[i] = "remove" /\ txn' = txn
  <2>1. Continue(i, "remove")
    BY DEF CheckpointBefore
  <2> QED
    BY <2>1, RemovalProceeds
<1>3. UNCHANGED Installation /\ disturbed' = disturbed /\ at[i] \in Working \ {"journal"} /\ Intact(T)
  BY <1>0 DEF CheckpointBefore, Kept, Others, Installation, storeVars, journalVars, OfRemoval, Working,
     Checked, HasNext
<1>4. /\ staging[T] \in Recovery /\ staging[T].journal \in Progress /\ Journaled(T)
      /\ staging[T].journal.done \in Nat /\ Len(staging[T].plan) \in Nat
      /\ FileTypes /\ Continues(T)
  BY <1>0, <1>3, WriterHas DEF ResumeInv, RemovalInv
<1>5. /\ staging'[T].plan = staging[T].plan /\ staging'[T].was = staging[T].was
      /\ staging'[T].whole = staging[T].whole /\ staging'[T].skills = staging[T].skills
      /\ staging'[T].proofs = staging[T].proofs
      /\ staging'[T].journal.begun /\ staging'[T].journal.done = staging[T].journal.done
      /\ staging'[T].journal.committed = staging[T].journal.committed
  <2>1. staging'[T] = [staging[T] EXCEPT !.journal.begun = TRUE]
    BY <1>0, <1>4 DEF CheckpointBefore, Stage, FileTypes
  <2>2. PICK s, w : s = staging[T] /\ w = staging'[T]
    OBVIOUS
  <2>3. s \in Recovery /\ s.journal \in Progress
    BY <1>4, <2>2
  <2>4. w = [s EXCEPT !.journal.begun = TRUE] =>
           /\ w.plan = s.plan /\ w.was = s.was /\ w.whole = s.whole /\ w.skills = s.skills
           /\ w.proofs = s.proofs /\ w.journal.begun /\ w.journal.done = s.journal.done
           /\ w.journal.committed = s.journal.committed
    BY <2>3, CheckpointIs
  <2>5. w = [s EXCEPT !.journal.begun = TRUE]
    BY <2>1, <2>2
  <2> QED
    BY <2>2, <2>4, <2>5
<1>6. WorksAt(i)'
  BY <1>0, <1>1, <1>2, <1>3, <1>5, WorksOn
<1>7. Unfollowed(T)' => Unfollowed(T)
  BY <1>3, <1>4, <1>5 DEF Unfollowed, Unfinished
<1>8. staging[T].journal.done < Len(staging[T].plan)
  <2>1. RemovalAt(i)
    BY AtRemoval
  <2> QED
    BY <1>0, <2>1 DEF CheckpointBefore, RemovalAt, OfRemoval, Checked, HasNext
<1>9. ASSUME Unfollowed(T)
      PROVE  Witnessed(T)' /\ CapabilityIs(T)'
  <2>1. Current(i).kind = "release" => Current(i).of \in staging[T].proofs
    BY <1>0, <1>4, <1>8, <1>9, BeginningIsWitnessed
  <2>2. Witnessed(T) /\ CapabilityIs(T)
    BY <1>4, <1>9 DEF Continues
  <2>3. ReleaseActions(T)' = ReleaseActions(T) /\ CapabilityIs(T)'
    BY <1>5, <2>2 DEF ReleaseActions, CapabilityIs
  <2>4. ASSUME NEW n \in ReleaseActions(T), Begun(staging'[T].journal, n)
        PROVE  staging[T].plan[n].of \in staging[T].proofs
    <3>1. n = staging[T].journal.done + 1 /\ staging[T].plan[n].kind = "release"
      BY <1>5, <2>4 DEF Begun, ReleaseActions
    <3>2. Current(i) = staging[T].plan[n]
      BY <1>0, <3>1 DEF Current
    <3> QED
      BY <2>1, <3>1, <3>2
  <2>5. Witnessed(T)'
    BY <1>5, <2>2, <2>3, <2>4 DEF Witnessed
  <2> QED
    BY <2>3, <2>5
<1>10. \A n : Begun(staging[T].journal, n) => Begun(staging'[T].journal, n)
  BY <1>5 DEF Begun
<1>11. Continues(T)'
  BY <1>3, <1>4, <1>5, <1>7, <1>9, <1>10, ContinuesGrows
<1> QED
  BY <1>0, <1>1, <1>3, <1>6, <1>11, OneResumes

(* An action was carried out.                                              *)
LEMMA AfterResumes ==
    ASSUME IInv, Shapes, RemovalInv, ResumeInv, NEW i \in Installers, RemovalStep(i),
           CheckpointAfter(i)
    PROVE  ResumeInv'
<1>0. PICK T \in Installers : txn[i] = T
  BY DEF IInv, Types
<1>1. Driving(i) /\ \A t \in Installers \ {T} : staging'[t] = staging[t]
  BY <1>0, WriterIs
<1>2. at'[i] = "next" /\ txn' = txn
  <2>1. Continue(i, "next")
    BY DEF CheckpointAfter
  <2> QED
    BY <2>1, RemovalProceeds
<1>3. UNCHANGED Installation /\ disturbed' = disturbed /\ at[i] = "after" /\ Intact(T)
  BY <1>0 DEF CheckpointAfter, Kept, Others, Installation, storeVars, journalVars, OfRemoval
<1>4. at[i] \in Working \ {"journal"}
  BY <1>3 DEF Working
<1>5. /\ staging[T] \in Recovery /\ staging[T].journal \in Progress /\ Journaled(T)
      /\ staging[T].journal.done \in Nat /\ Len(staging[T].plan) \in Nat
      /\ FileTypes /\ Continues(T) /\ WorksAt(i)
  BY <1>0, <1>3, <1>4, WriterHas DEF ResumeInv, RemovalInv
<1>6. /\ staging'[T].plan = staging[T].plan /\ staging'[T].was = staging[T].was
      /\ staging'[T].whole = staging[T].whole /\ staging'[T].skills = staging[T].skills
      /\ staging'[T].proofs = staging[T].proofs
      /\ ~staging'[T].journal.begun /\ staging'[T].journal.done = staging[T].journal.done + 1
      /\ staging'[T].journal.committed = staging[T].journal.committed
  <2>1. staging'[T] = [staging[T] EXCEPT !.journal.begun = FALSE, !.journal.done = @ + 1]
    BY <1>0, <1>5 DEF CheckpointAfter, Stage, FileTypes
  <2>2. PICK s, w : s = staging[T] /\ w = staging'[T]
    OBVIOUS
  <2>3. s \in Recovery /\ s.journal \in Progress
    BY <1>5, <2>2
  <2>4. w = [s EXCEPT !.journal.begun = FALSE, !.journal.done = @ + 1]
    BY <2>1, <2>2
  <2>5. /\ w.plan = s.plan /\ w.was = s.was /\ w.whole = s.whole
        /\ w.skills = s.skills /\ w.proofs = s.proofs
        /\ ~w.journal.begun /\ w.journal.done = s.journal.done + 1
        /\ w.journal.committed = s.journal.committed
    BY <2>3, <2>4, CheckpointIs
  <2> QED
    BY <2>2, <2>5
<1>7. WorksAt(i)'
  BY <1>0, <1>1, <1>2, <1>3, <1>4, WorksOn
<1>8. Unfollowed(T)' => Unfollowed(T)
  BY <1>3, <1>5, <1>6 DEF Unfollowed, Unfinished
<1>9. ASSUME Unfollowed(T)
      PROVE  Witnessed(T)' /\ CapabilityIs(T)'
  <2>1. Witnessed(T) /\ CapabilityIs(T)
    BY <1>5, <1>9 DEF Continues
  <2>2. Witnessed(T)'
    BY <1>6, <2>1 DEF Witnessed, ReleaseActions, Begun
  <2>3. staging[T].skills = "skills"
    BY <1>0, <1>3, <1>5, <1>9, <2>1 DEF CapabilityIs, WorksAt
  <2> QED
    BY <1>6, <2>2, <2>3 DEF CapabilityIs
<1>10. \A n \in staging'[T].journal.done + 1..Len(staging[T].plan) :
          /\ n \in staging[T].journal.done + 1..Len(staging[T].plan)
          /\ ~Begun(staging[T].journal, n)
  BY <1>5, <1>6 DEF Begun
<1>11. Continues(T)'
  BY <1>3, <1>5, <1>6, <1>8, <1>9, <1>10, ContinuesGrows
<1> QED
  BY <1>0, <1>1, <1>3, <1>7, <1>11, OneResumes

(* A run that is at an action.                                             *)
LEMMA RemovingIs ==
    ASSUME IInv, Shapes, RemovalInv, ResumeInv, NEW i \in Installers, RemovalStep(i),
           NEW T \in Installers, txn[i] = T, NEW kind, Removes(i, kind)
    PROVE  /\ at[i] = "remove" /\ at[i] \in Working \ {"journal"} /\ Driving(i) /\ Intact(T)
           /\ staging[T] \in Recovery /\ staging[T].journal \in Progress /\ Journaled(T)
           /\ staging[T].journal.done \in Nat /\ Len(staging[T].plan) \in Nat
           /\ staging[T].journal.done < Len(staging[T].plan) /\ staging[T].journal.begun
           /\ Current(i) = staging[T].plan[staging[T].journal.done + 1] /\ Current(i).kind = kind
           /\ ValidAction(staging[T], Current(i), TRUE) /\ FileTypes /\ Continues(T)
           /\ Current(i) \in Action
<1>1. /\ at[i] = "remove" /\ at[i] \in Working \ {"journal"} /\ Driving(i) /\ Intact(T)
      /\ Current(i) = staging[T].plan[staging[T].journal.done + 1] /\ Current(i).kind = kind
      /\ FileTypes /\ Continues(T)
  BY DEF Removes, OfRemoval, Working, Driving, Checked, HasNext, Current, ResumeInv, RemovalInv
<1>2. /\ staging[T] \in Recovery /\ staging[T].journal \in Progress /\ Journaled(T)
      /\ staging[T].journal.done \in Nat /\ Len(staging[T].plan) \in Nat
  BY <1>1, WriterHas
<1>3. /\ staging[T].journal.done < Len(staging[T].plan) /\ staging[T].journal.begun
      /\ ValidAction(staging[T], Current(i), Begun(staging[T].journal, staging[T].journal.done + 1))
  BY <1>1 DEF Removes, Checked, HasNext, Executable, Current, ResumeInv, WorksAt
<1>4. Begun(staging[T].journal, staging[T].journal.done + 1) = TRUE
  BY <1>3 DEF Begun
<1>5. Current(i) \in Action
  BY <1>1, <1>2, <1>3, CurrentIs
<1> QED
  BY <1>1, <1>2, <1>3, <1>4, <1>5

(* The capability is staged first.                                         *)
LEMMA StagedFirst ==
    ASSUME FileTypes, NEW t \in Installers, Journaled(t), WellPlanned(staging[t].plan),
           NEW n \in 1..Len(staging[t].plan), staging[t].plan[n].kind = "stage"
    PROVE  n = 1
<1>1. staging[t] \in Recovery /\ Len(staging[t].plan) \in Nat
  BY Underway
<1>2. 1 \in 1..Len(staging[t].plan) /\ staging[t].plan[1].kind = "stage"
  BY <1>1 DEF WellPlanned, StagesFirst
<1>3. \A m \in 1..Len(staging[t].plan) : staging[t].plan[m] \in Action
  BY <1>1, DirectoryTyped
<1>4. \A act \in Action : act.kind = "stage" => act.of = None
  BY DEF Action
<1>5. PlaceOf(staging[t].plan[n]) = PlaceOf(staging[t].plan[1])
  BY <1>2, <1>3, <1>4 DEF PlaceOf
<1> QED
  BY <1>2, <1>5 DEF WellPlanned, Once

LEMMA StageResumes ==
    ASSUME IInv, Shapes, RemovalInv, ResumeInv, NEW i \in Installers, RemovalStep(i),
           StageCapability(i)
    PROVE  ResumeInv'
<1>0. PICK T \in Installers : txn[i] = T
  BY DEF IInv, Types
<1>1. Driving(i) /\ \A t \in Installers \ {T} : staging'[t] = staging[t]
  BY <1>0, WriterIs
<1> DEFINE here == staging[T].skills = None
<1>2. at'[i] = (IF here THEN "remove" ELSE "after") /\ txn' = txn
  <2>1. PICK a : a = IF here THEN "remove" ELSE "after"
    OBVIOUS
  <2>2. Continue(i, a)
    BY <1>0, <2>1 DEF StageCapability
  <2> QED
    BY <2>1, <2>2, RemovalProceeds
<1>3. UNCHANGED Installation /\ disturbed' = disturbed /\ Removes(i, "stage")
  BY DEF StageCapability, Kept, Others, Installation, storeVars, journalVars
<1>4. /\ at[i] = "remove" /\ at[i] \in Working \ {"journal"} /\ Driving(i)
      /\ staging[T] \in Recovery /\ staging[T].journal \in Progress /\ Journaled(T)
      /\ staging[T].journal.done \in Nat /\ Len(staging[T].plan) \in Nat
      /\ staging[T].journal.done < Len(staging[T].plan) /\ staging[T].journal.begun
      /\ Current(i) = staging[T].plan[staging[T].journal.done + 1] /\ Current(i).kind = "stage"
      /\ FileTypes /\ Continues(T)
  BY <1>0, <1>3, RemovingIs
<1>5. /\ staging'[T].plan = staging[T].plan /\ staging'[T].was = staging[T].was
      /\ staging'[T].whole = staging[T].whole /\ staging'[T].journal = staging[T].journal
      /\ staging'[T].skills = (IF here THEN "part" ELSE "skills")
      /\ staging'[T].proofs = staging[T].proofs
  <2>1. PICK k : k = IF here THEN "part" ELSE "skills"
    OBVIOUS
  <2>2. staging'[T] = [staging[T] EXCEPT !.skills = k]
    BY <1>0, <1>4, <2>1 DEF StageCapability, Stage, FileTypes, Recovery
  <2> QED
    BY <1>4, <2>1, <2>2, WrittenIs
<1>6. WorksAt(i)'
  BY <1>0, <1>1, <1>2, <1>3, <1>4, <1>5, WorksOn
<1>7. Unfollowed(T)' => Unfollowed(T)
  BY <1>3, <1>4, <1>5 DEF Unfollowed, Unfinished
<1>8. ASSUME Unfollowed(T)
      PROVE  /\ Witnessed(T)' /\ CapabilityIs(T)'
             /\ \A n \in staging[T].journal.done + 1..Len(staging[T].plan) :
                   staging[T].plan[n].kind # "stage" \/ Begun(staging[T].journal, n)
  <2>1. Witnessed(T) /\ WellPlanned(staging[T].plan)
    BY <1>4, <1>8 DEF Continues
  <2>2. staging[T].journal.done + 1 \in 1..Len(staging[T].plan)
    BY <1>4
  <2>3. staging[T].journal.done + 1 = 1
    BY <1>4, <2>1, <2>2, StagedFirst
  <2>4. staging[T].journal.done = 0
    BY <1>4, <2>3
  <2>5. ASSUME NEW n \in 1..Len(staging[T].plan), staging[T].plan[n].kind = "stage"
        PROVE  Begun(staging[T].journal, n)
    <3>1. n = 1
      BY <1>4, <2>1, <2>5, StagedFirst
    <3> QED
      BY <1>4, <2>4, <3>1 DEF Begun
  <2> QED
    BY <1>5, <2>1, <2>4, <2>5 DEF Witnessed, ReleaseActions, CapabilityIs
<1>9. Continues(T)'
  BY <1>3, <1>4, <1>5, <1>7, <1>8, ContinuesGrows
<1> QED
  BY <1>0, <1>1, <1>3, <1>6, <1>9, OneResumes

(* The uninstall is complete.                                              *)
LEMMA CommitResumes ==
    ASSUME IInv, Shapes, RemovalInv, ResumeInv, NEW i \in Installers, RemovalStep(i),
           CommitRemoval(i)
    PROVE  ResumeInv'
<1>0. PICK T \in Installers : txn[i] = T
  BY DEF IInv, Types
<1>1. Driving(i) /\ \A t \in Installers \ {T} : staging'[t] = staging[t]
  BY <1>0, WriterIs
<1>2. at'[i] = "release"
  <2>1. Continue(i, "release")
    BY DEF CommitRemoval
  <2> QED
    BY <2>1, RemovalProceeds
<1>3. UNCHANGED Installation /\ disturbed' = disturbed /\ at[i] \in Working \ {"journal"} /\ Intact(T)
  BY <1>0 DEF CommitRemoval, Kept, Others, Installation, storeVars, journalVars, OfRemoval, Working
<1>4. staging[T] \in Recovery /\ staging[T].journal \in Progress /\ FileTypes
  BY <1>0, <1>3, WriterHas DEF RemovalInv
<1>5. staging'[T].journal.committed
  <2>1. PICK s, w : s = staging[T] /\ w = staging'[T]
    OBVIOUS
  <2>2. s \in Recovery /\ s.journal \in Progress /\ w = [s EXCEPT !.journal.committed = TRUE]
    BY <1>0, <1>4, <2>1 DEF CommitRemoval, Stage, FileTypes
  <2>3. w.journal.committed
    BY <2>2, CheckpointIs
  <2> QED
    BY <2>1, <2>3
<1>6. Continues(T)'
  BY <1>5 DEF Continues, Unfollowed, Unfinished
<1>7. WorksAt(i)'
  BY <1>2 DEF WorksAt, Working
<1> QED
  BY <1>0, <1>1, <1>3, <1>6, <1>7, OneResumes

-----------------------------------------------------------------------------
(* What an action removes, no action after it is about.                    *)
Apart(a, b) ==
    /\ b.kind # "stage" /\ PlaceOf(a) # PlaceOf(b)
    /\ a.kind \in {"pointer", "layout", "journal", "cleanup"} => b.kind # a.kind

LEMMA RestIsApart ==
    ASSUME FileTypes, NEW t \in Installers, Journaled(t), WellPlanned(staging[t].plan),
           NEW n \in staging[t].journal.done + 2..Len(staging[t].plan)
    PROVE  /\ n \in staging[t].journal.done + 1..Len(staging[t].plan)
           /\ ~Begun(staging[t].journal, n) /\ staging[t].plan[n] \in Action
           /\ Apart(staging[t].plan[staging[t].journal.done + 1], staging[t].plan[n])
<1> DEFINE k == staging[t].journal.done + 1
           p == staging[t].plan
<1>1. /\ staging[t] \in Recovery /\ staging[t].journal.done \in Nat /\ Len(p) \in Nat
  BY Underway
<1>2. k \in 1..Len(p) /\ n \in 1..Len(p) /\ n \in k..Len(p) /\ n # k /\ n # 1
  BY <1>1
<1>3. \A m \in 1..Len(p) : p[m] \in Action
  BY <1>1, DirectoryTyped
<1>4. PlaceOf(p[k]) # PlaceOf(p[n])
  BY <1>2 DEF WellPlanned, Once
<1>5. p[n].kind # "stage"
  BY <1>2, StagedFirst
<1>6. \A act \in Action : act.kind \in {"pointer", "layout", "journal", "cleanup"} => act.of = None
  BY DEF Action
<1>7. p[k].kind \in {"pointer", "layout", "journal", "cleanup"} => p[n].kind # p[k].kind
  BY <1>2, <1>3, <1>4, <1>6 DEF PlaceOf
<1> QED
  BY <1>2, <1>3, <1>4, <1>5, <1>7 DEF Apart, Begun

(* So what is removed leaves the rest of the plan valid.                   *)
LEMMA RemovalContinues ==
    ASSUME FileTypes, NEW t \in Installers, Continues(t), Journaled(t), staging' = staging,
           disturbed' = disturbed, layout' \in {layout, None},
           NEW s, s = staging[t], s.journal.begun, s.journal.done < Len(s.plan),
           NEW a, a = s.plan[s.journal.done + 1],
           ValidAction(s, a, TRUE)',
           \A b \in Action : Apart(a, b) /\ ValidAction(s, b, FALSE) => ValidAction(s, b, FALSE)'
    PROVE  Continues(t)'
<1> SUFFICES ASSUME Unfollowed(t)'
             PROVE  /\ staging'[t].whole /\ layout' \in {None, staging'[t].was.layout}
                    /\ WellPlanned(staging'[t].plan) /\ Witnessed(t)' /\ CapabilityIs(t)'
                    /\ RestIsValid(t)'
  BY DEF Continues
<1>1. Unfollowed(t) /\ staging'[t] = s
  BY DEF Unfollowed, Unfinished, Journaled
<1>2. /\ staging'[t].whole /\ layout' \in {None, staging'[t].was.layout}
      /\ WellPlanned(s.plan) /\ WellPlanned(staging'[t].plan)
      /\ Witnessed(t)' /\ CapabilityIs(t)' /\ RestIsValid(t)
  BY <1>1 DEF Continues, Witnessed, ReleaseActions, CapabilityIs
<1>3. s.journal.done \in Nat /\ Len(s.plan) \in Nat
  BY Underway
<1>4. ASSUME NEW n \in s.journal.done + 1..Len(s.plan)
      PROVE  ValidAt(t, n)'
  <2>1. CASE n = s.journal.done + 1
    <3>1. Begun(s.journal, n) = TRUE
      BY <2>1 DEF Begun
    <3>2. s.plan[n] = a
      BY <2>1
    <3> QED
      BY <1>1, <3>1, <3>2 DEF ValidAt
  <2>2. CASE n # s.journal.done + 1
    <3>1. n \in s.journal.done + 2..Len(s.plan)
      BY <1>3, <2>2
    <3>2. PICK b \in Action : b = s.plan[n] /\ Apart(a, b) /\ Begun(s.journal, n) = FALSE
      BY <1>2, <3>1, RestIsApart DEF Begun
    <3>3. b.kind = "cleanup" \/ ValidAction(s, b, FALSE)
      BY <1>2, <3>2 DEF RestIsValid, ValidAt
    <3>4. b.kind = "cleanup" \/ ValidAction(s, b, FALSE)'
      BY <3>2, <3>3
    <3> QED
      BY <1>1, <3>2, <3>4 DEF ValidAt
  <2> QED
    BY <2>1, <2>2
<1>5. RestIsValid(t)'
  BY <1>1, <1>4 DEF RestIsValid
<1> QED
  BY <1>2, <1>5

LEMMA RemovalGoesOn ==
    ASSUME IInv, Shapes, RemovalInv, ResumeInv, NEW i \in Installers, RemovalStep(i),
           NEW T \in Installers, txn[i] = T, NEW kind, kind # "stage", Removes(i, kind),
           staging' = staging, disturbed' = disturbed,
           NEW a \in {"remove", "after"}, Continue(i, a), Continues(T)'
    PROVE  ResumeInv'
<1>1. /\ at[i] \in Working \ {"journal"} /\ Driving(i) /\ Journaled(T)
      /\ staging[T].journal.done \in Nat /\ Len(staging[T].plan) \in Nat
      /\ staging[T].journal.begun /\ Current(i).kind = kind /\ Continues(T)
      /\ Current(i) = staging[T].plan[staging[T].journal.done + 1]
  BY RemovingIs
<1>2. at'[i] = a /\ txn' = txn
  BY RemovalProceeds
<1>3. \A t \in Installers \ {T} : staging'[t] = staging[t]
  OBVIOUS
<1>4. ~(Unfollowed(T)' /\ staging'[T].journal.done = 0)
  BY <1>1 DEF Continues, Unfollowed, Unfinished, Journaled, WellPlanned, StagesFirst
<1>5. WorksAt(i)'
  BY <1>1, <1>2, <1>3, <1>4, WorksOn
<1> QED
  BY <1>1, <1>3, <1>5, OneResumes

(* A part of a release is removed, or the rest of it.                      *)
LEMMA ReleaseResumes ==
    ASSUME IInv, Shapes, RemovalInv, ResumeInv, NEW i \in Installers, RemovalStep(i),
           RemoveRelease(i)
    PROVE  ResumeInv'
<1>0. PICK T \in Installers : txn[i] = T
  BY DEF IInv, Types
<1>1. /\ Removes(i, "release") /\ staging' = staging /\ disturbed' = disturbed /\ layout' = layout
      /\ UNCHANGED <<asset, backup, receipt, manifest, pointer, journal, phase>>
  BY DEF RemoveRelease, bootVars, journalVars, removalVars
<1>2. PICK s, a : s = staging[T] /\ a = Current(i)
  OBVIOUS
<1>3. /\ s.journal.begun /\ s.journal.done < Len(s.plan) /\ a = s.plan[s.journal.done + 1]
      /\ a.kind = "release" /\ ValidAction(s, a, TRUE) /\ FileTypes /\ Continues(T) /\ Journaled(T)
      /\ a \in Action
  BY <1>0, <1>1, <1>2, RemovingIs
<1>4. PICK c \in Commits : c = a.of
  BY <1>3 DEF Action
<1>5. \/ release' = [release EXCEPT ![c] = None] /\ Continue(i, "after")
      \/ /\ release[c] \notin {None, Rubble(s.was.release[c])}
         /\ release' = [release EXCEPT ![c] = Rubble(@)] /\ Continue(i, "remove")
  BY <1>0, <1>2, <1>4 DEF RemoveRelease
<1>6. release \in [Commits -> Release \cup {None}]
  BY <1>3 DEF FileTypes
<1>7. /\ release'[c] = None \/ release'[c] = Rubble(s.was.release[c])
      /\ \A d \in Commits \ {c} : release'[d] = release[d]
  <2>1. release[c] \in {None, s.was.release[c], Rubble(s.was.release[c])}
    BY <1>3, <1>4 DEF ValidAction, Stands
  <2>2. /\ release'[c] = None \/ (release'[c] = Rubble(release[c]) /\ release[c] = s.was.release[c])
        /\ \A d \in Commits \ {c} : release'[d] = release[d]
    BY <1>5, <1>6, <2>1
  <2> QED
    BY <2>2
<1>8. ValidAction(s, a, TRUE)'
  BY <1>3, <1>4, <1>7 DEF ValidAction, Stands
<1>9. ASSUME NEW b \in Action, Apart(a, b), ValidAction(s, b, FALSE)
      PROVE  ValidAction(s, b, FALSE)'
  <2>1. b.kind = "release" => b.of \in Commits \ {c}
    BY <1>3, <1>4, <1>9 DEF Apart, PlaceOf, Action
  <2>2. b.kind = "release" => release'[b.of] = release[b.of]
    BY <1>7, <2>1
  <2>3. b.kind # "stage" /\ b.kind \in Removals
    BY <1>9 DEF Apart, Action, Removals
  <2>4. CASE b.kind = "release"
    BY <1>9, <2>2, <2>4 DEF ValidAction, Stands
  <2>5. CASE b.kind \in Removals \ {"release", "stage"}
    BY <1>1, <1>9, <2>5 DEF ValidAction, Stands, ValidRestore, Removals, LayoutFile, Installed
  <2> QED
    BY <2>3, <2>4, <2>5
<1>10. Continues(T)'
  BY <1>1, <1>2, <1>3, <1>8, <1>9, RemovalContinues
<1> QED
  BY <1>0, <1>1, <1>5, <1>10, RemovalGoesOn

(* A capability is cleaned up.                                             *)
LEMMA CleanUpResumes ==
    ASSUME IInv, Shapes, RemovalInv, ResumeInv, NEW i \in Installers, RemovalStep(i),
           CleanUpCapability(i)
    PROVE  ResumeInv'
<1>0. PICK T \in Installers : txn[i] = T
  BY DEF IInv, Types
<1>1. /\ Removes(i, "cleanup") /\ Continue(i, "after") /\ staging' = staging
      /\ UNCHANGED Installation /\ disturbed' = disturbed
  BY DEF CleanUpCapability, bootVars, Installation
<1>2. Continues(T)'
  <2>1. Continues(T) /\ staging'[T] = staging[T]
    BY <1>1 DEF ResumeInv
  <2> QED
    BY <1>1, <2>1, ContinuesStays
<1> QED
  BY <1>0, <1>1, <1>2, RemovalGoesOn

(* What is recorded of a release, the pointer, the layout, a journal goes. *)
LEMMA MetadataResumes ==
    ASSUME IInv, Shapes, RemovalInv, ResumeInv, NEW i \in Installers, RemovalStep(i),
           RemoveMetadata(i)
    PROVE  ResumeInv'
<1> DEFINE Kinds == {"manifest", "receipt", "pointer", "layout", "journal"}
<1>0. PICK T \in Installers : txn[i] = T
  BY DEF IInv, Types
<1>1. PICK kind \in Kinds : Removes(i, kind)
  BY DEF RemoveMetadata
<1>2. /\ Continue(i, "after") /\ staging' = staging /\ disturbed' = disturbed
      /\ UNCHANGED <<asset, backup, release>>
  BY DEF RemoveMetadata, removalVars
<1>3. PICK s, a : s = staging[T] /\ a = Current(i)
  OBVIOUS
<1>4. /\ s.journal.begun /\ s.journal.done < Len(s.plan) /\ a = s.plan[s.journal.done + 1]
      /\ a.kind = kind /\ ValidAction(s, a, TRUE) /\ FileTypes /\ Continues(T) /\ Journaled(T)
      /\ a \in Action
  BY <1>0, <1>1, <1>3, RemovingIs
<1>5. /\ manifest' = IF kind = "manifest" THEN [manifest EXCEPT ![a.of] = None] ELSE manifest
      /\ receipt' = IF kind = "receipt" THEN [receipt EXCEPT ![a.of] = None] ELSE receipt
      /\ pointer' = IF kind = "pointer" THEN [current |-> None, previous |-> None] ELSE pointer
      /\ layout' = IF kind = "layout" /\ Installed THEN None ELSE layout
      /\ journal' = IF kind = "journal" THEN None ELSE journal
      /\ phase' = IF kind = "journal" THEN "journaled" ELSE phase
  BY <1>3, <1>4 DEF RemoveMetadata
<1>6. /\ manifest \in [Commits -> Payload \cup {None}] /\ receipt \in [Commits -> Payload \cup {None}]
      /\ kind \in {"manifest", "receipt"} => a.of \in Commits
  BY <1>4 DEF FileTypes, IInv, Types, Action
<1>7. ValidAction(s, a, TRUE)'
  <2>1. CASE kind = "manifest"
    <3>1. manifest'[a.of] = None
      BY <1>5, <1>6, <2>1
    <3> QED
      BY <1>4, <2>1, <3>1 DEF ValidAction, Stands
  <2>2. CASE kind = "receipt"
    <3>1. receipt'[a.of] = None
      BY <1>5, <1>6, <2>2
    <3> QED
      BY <1>4, <2>2, <3>1 DEF ValidAction, Stands
  <2>3. CASE kind = "pointer"
    <3>1. pointer'.current = None
      BY <1>5, <2>3
    <3> QED
      BY <1>4, <2>3, <3>1 DEF ValidAction
  <2>4. CASE kind = "layout"
    BY <1>4, <1>5, <2>4 DEF ValidAction, Stands, LayoutFile, Installed
  <2>5. CASE kind = "journal"
    BY <1>4, <1>5, <2>5 DEF ValidAction
  <2> QED
    BY <1>1, <2>1, <2>2, <2>3, <2>4, <2>5
<1>8. ASSUME NEW b \in Action, Apart(a, b), ValidAction(s, b, FALSE)
      PROVE  ValidAction(s, b, FALSE)'
  <2>1. /\ b.kind # "stage" /\ b.kind \in Removals
        /\ kind \in {"pointer", "layout", "journal"} => b.kind # kind
        /\ kind \in {"manifest", "receipt"} /\ b.kind = kind => b.of # a.of
        /\ b.kind \in {"manifest", "receipt"} => b.of \in Commits
    BY <1>4, <1>8 DEF Apart, PlaceOf, Action, Removals
  <2>2. CASE b.kind = "manifest"
    <3>1. manifest'[b.of] = manifest[b.of]
      BY <1>5, <1>6, <2>1, <2>2
    <3> QED
      BY <1>8, <2>2, <3>1 DEF ValidAction, Stands
  <2>3. CASE b.kind = "receipt"
    <3>1. receipt'[b.of] = receipt[b.of]
      BY <1>5, <1>6, <2>1, <2>3
    <3> QED
      BY <1>8, <2>3, <3>1 DEF ValidAction, Stands
  <2>4. CASE b.kind \in {"pointer", "layout", "journal"}
    <3>1. kind # b.kind
      BY <2>1, <2>4
    <3>2. /\ b.kind = "pointer" => pointer' = pointer
          /\ b.kind = "layout" => layout' = layout
          /\ b.kind = "journal" => journal' = journal /\ phase' = phase
      BY <1>5, <3>1
    <3> QED
      BY <1>8, <2>4, <3>2 DEF ValidAction, Stands, LayoutFile, Installed
  <2>5. CASE b.kind \in {"release", "asset", "restore", "cleanup"}
    BY <1>2, <1>8, <2>5 DEF ValidAction, Stands, ValidRestore
  <2> QED
    BY <2>1, <2>2, <2>3, <2>4, <2>5 DEF Removals
<1>9. layout' \in {layout, None}
  BY <1>5
<1>10. Continues(T)'
  BY <1>2, <1>3, <1>4, <1>7, <1>8, <1>9, RemovalContinues
<1> QED
  BY <1>0, <1>1, <1>2, <1>10, RemovalGoesOn

(* An asset is removed, or the file it displaced restored.                 *)
LEMMA AssetResumes ==
    ASSUME IInv, Shapes, RemovalInv, ResumeInv, NEW i \in Installers, RemovalStep(i), RemoveAsset(i)
    PROVE  ResumeInv'
<1>0. PICK T \in Installers : txn[i] = T
  BY DEF IInv, Types
<1>1. PICK kind \in {"asset", "restore"} : Removes(i, kind)
  BY DEF RemoveAsset
<1>2. /\ staging' = staging /\ disturbed' = disturbed /\ layout' = layout
      /\ UNCHANGED <<receipt, manifest, release, pointer, journal, phase>>
  BY DEF RemoveAsset, storeVars, journalVars, removalVars
<1>3. PICK s, a : s = staging[T] /\ a = Current(i)
  OBVIOUS
<1>4. /\ s.journal.begun /\ s.journal.done < Len(s.plan) /\ a = s.plan[s.journal.done + 1]
      /\ a.kind = kind /\ ValidAction(s, a, TRUE) /\ FileTypes /\ Continues(T) /\ Journaled(T)
      /\ a \in Action
  BY <1>0, <1>1, <1>3, RemovingIs
<1>5. PICK f \in Assets : f = a.of
  BY <1>4 DEF Action
<1>6. /\ asset \in [Assets -> Contents \cup {None}] /\ backup \in [Assets -> Contents \cup {None}]
  BY <1>4 DEF FileTypes
<1>7. \/ /\ kind = "restore" /\ backup[f] = None /\ UNCHANGED <<asset, backup>> /\ Continue(i, "after")
      \/ /\ kind = "restore" /\ asset[f] # None /\ backup[f] # None /\ Continue(i, "remove")
         /\ asset' = [asset EXCEPT ![f] = None] /\ UNCHANGED backup
      \/ /\ kind = "restore" /\ asset[f] = None /\ backup[f] # None /\ Continue(i, "after")
         /\ asset' = [asset EXCEPT ![f] = backup[f]] /\ backup' = [backup EXCEPT ![f] = None]
      \/ /\ kind = "asset" /\ Continue(i, "after")
         /\ asset' = [asset EXCEPT ![f] = None] /\ UNCHANGED backup
  BY <1>1, <1>3, <1>4, <1>5 DEF RemoveAsset
<1>8. \A g \in Assets \ {f} : asset'[g] = asset[g] /\ backup'[g] = backup[g]
  BY <1>6, <1>7
<1>9. ValidAction(s, a, TRUE)'
  <2>1. CASE kind = "asset"
    <3>1. asset'[f] = None
      BY <1>6, <1>7, <2>1
    <3> QED
      BY <1>4, <1>5, <2>1, <3>1 DEF ValidAction, Stands
  <2>2. CASE kind = "restore"
    <3>1. ValidRestore(f, s.was, TRUE)
      BY <1>4, <1>5, <2>2 DEF ValidAction
    <3>2. \/ backup'[f] = backup[f] /\ (asset'[f] = asset[f] \/ (backup[f] # None /\ asset'[f] = None))
          \/ backup[f] # None /\ backup'[f] = None /\ asset'[f] = backup[f]
      BY <1>6, <1>7, <2>2
    <3>3. ValidRestore(f, s.was, TRUE)'
      BY <3>1, <3>2 DEF ValidRestore, Stands
    <3> QED
      BY <1>4, <1>5, <2>2, <3>3 DEF ValidAction
  <2> QED
    BY <1>1, <2>1, <2>2
<1>10. ASSUME NEW b \in Action, Apart(a, b), ValidAction(s, b, FALSE)
       PROVE  ValidAction(s, b, FALSE)'
  <2>1. /\ b.kind # "stage" /\ b.kind \in Removals
        /\ b.kind \in {"asset", "restore"} => b.of \in Assets \ {f}
    BY <1>1, <1>4, <1>5, <1>10 DEF Apart, PlaceOf, Action, Removals
  <2>2. CASE b.kind \in {"asset", "restore"}
    <3>1. asset'[b.of] = asset[b.of] /\ backup'[b.of] = backup[b.of]
      BY <1>8, <2>1, <2>2
    <3> QED
      BY <1>10, <2>2, <3>1 DEF ValidAction, Stands, ValidRestore
  <2>3. CASE b.kind \in {"release", "manifest", "receipt", "pointer", "layout", "journal", "cleanup"}
    BY <1>2, <1>10, <2>3 DEF ValidAction, Stands, LayoutFile, Installed
  <2> QED
    BY <2>1, <2>2, <2>3 DEF Removals
<1>11. Continues(T)'
  BY <1>2, <1>3, <1>4, <1>9, <1>10, RemovalContinues
<1> QED
  BY <1>0, <1>1, <1>2, <1>7, <1>11, RemovalGoesOn

(* A recovery directory goes once its uninstall is complete, and nobody    *)
(* else is at an action of it.                                             *)
LEMMA SweepResumes ==
    ASSUME IInv, Shapes, RemovalInv, ResumeInv, NEW i \in Installers, RemovalStep(i), SweepStaging(i)
    PROVE  ResumeInv' \/ Overrun'
<1>0. PICK T \in Installers : txn[i] = T
  BY DEF IInv, Types
<1>1. /\ Swept(T) /\ AtStays(i) /\ UNCHANGED Installation /\ FileTypes /\ at[i] = "sweep"
      /\ \A t \in Installers \ {T} : staging'[t] = staging[t]
  <2>1. RemovalAt(i) /\ AtStays(i) /\ FileTypes
    BY RemovalFinds, RemovalGoes, AtRemoval DEF RemovalInv
  <2>2. \E s : Stage(i, s)
    BY DEF SweepStaging
  <2> QED
    BY <1>0, <2>1, <2>2
       DEF SweepStaging, OfRemoval, RemovalAt, Installation, storeVars, journalVars, Stage, FileTypes
<1>2. CASE ~Intact(T) /\ T \in disturbed
  BY <1>0, <1>2 DEF SweepStaging, Overrun
<1>3. CASE Intact(T) \/ T \notin disturbed
  <2>1. disturbed' = disturbed
    BY <1>0, <1>3 DEF SweepStaging
  <2>2. /\ staging'[T] = None \/ (staging[T] # None /\ staging'[T].journal = staging[T].journal)
        /\ at'[i] \notin Working
    <3>1. CASE Intact(T)
      <4>1. staging[T] # None /\ staging'[T] = [staging[T] EXCEPT !.whole = FALSE]
        BY <1>0, <1>1, <3>1 DEF SweepStaging, Stage, Intact, FileTypes
      <4>2. staging'[T].journal = staging[T].journal
        BY <1>1, <4>1 DEF FileTypes, Recovery
      <4>3. Continue(i, "sweep")
        BY <1>0, <3>1 DEF SweepStaging
      <4> QED
        BY <4>1, <4>2, <4>3, RemovalProceeds DEF Working
    <3>2. CASE ~Intact(T)
      <4>1. staging'[T] = None /\ End(i)
        BY <1>0, <1>1, <3>2 DEF SweepStaging, Stage, FileTypes
      <4> QED
        BY <4>1 DEF End, IInv, Types, Working
    <3> QED
      BY <3>1, <3>2
  <2>3. Planned' \subseteq Planned
    BY <1>1, <2>2 DEF Planned
  <2>4. ASSUME NEW t \in Installers
        PROVE  Continues(t)'
    <3>1. CASE t = T
      <4>1. ~Unfinished(T)'
        BY <1>1, <2>2, <3>1 DEF Unfinished, Journaled, Swept
      <4> QED
        BY <3>1, <4>1 DEF Continues, Unfollowed
    <3>2. CASE t # T
      <4>1. Continues(t) /\ staging'[t] = staging[t]
        BY <1>1, <3>2 DEF ResumeInv
      <4> QED
        BY <1>1, <2>1, <4>1, ContinuesStays
    <3> QED
      BY <3>1, <3>2
  <2>5. ASSUME NEW j \in Installers \ {i}
        PROVE  WorksAt(j)'
    <3>1. at'[j] = at[j] /\ txn'[j] = txn[j] /\ txn[j] \in Installers /\ WorksAt(j)
      BY <1>1 DEF AtStays, ResumeInv, IInv, Types
    <3>2. CASE txn[j] # T
      <4>1. staging'[txn[j]] = staging[txn[j]]
        BY <1>1, <3>1, <3>2
      <4> QED
        BY <1>1, <2>1, <2>3, <3>1, <4>1, WorksStays
    <3>3. CASE txn[j] = T /\ at[j] \in Working
      <4>1. RemovalAt(j)
        BY <3>3, WorkersDrive DEF RemovalInv
      <4>2. at[j] = "next"
        BY <1>1, <3>3, <4>1 DEF RemovalAt, Swept, Unfinished, Journaled, Working
      <4>3. Planned' \subseteq disturbed' \cup {T}
        BY <2>1, <2>3, <3>1, <3>3, <4>2 DEF WorksAt, Working
      <4> QED
        BY <3>1, <3>3, <4>2, <4>3 DEF WorksAt
    <3>4. CASE at[j] \notin Working
      BY <3>1, <3>4 DEF WorksAt, Working
    <3> QED
      BY <3>2, <3>3, <3>4
  <2>6. WorksAt(i)'
    BY <2>2 DEF WorksAt, Working
  <2>7. \A t \in Installers : Continues(t)'
    BY <2>4
  <2>8. \A j \in Installers : WorksAt(j)'
    BY <2>5, <2>6
  <2> QED
    BY <2>7, <2>8 DEF ResumeInv
<1> QED
  BY <1>2, <1>3

-----------------------------------------------------------------------------
(* Every step of an uninstall keeps what the next one needs,               *)
LEMMA RemovalResumes ==
    ASSUME IInv, Shapes, RemovalInv, ResumeInv, NEW i \in Installers, RemovalStep(i)
    PROVE  ResumeInv' \/ Overrun'
<1>1. CASE RemovalRefused(i)
  <2>1. End(i) /\ UNCHANGED <<Installation, staging>> /\ disturbed' = disturbed
    BY <1>1 DEF RemovalRefused, Refuse, bootVars, Installation, removalVars
  <2> QED
    BY <2>1, EndResumes
<1> QED
  BY <1>1, FoundResumes, PlannedResumes, JournalResumes, ProofResumes, BeginningResumes, AfterResumes,
     ReleaseResumes, MetadataResumes, AssetResumes, StageResumes, CleanUpResumes, CommitResumes,
     SweepResumes DEF RemovalStep

(* and so does every other step.                                           *)
LEMMA ResumeNext ==
    ASSUME IInv, Shapes, RemovalInv, ResumeInv, [RemovalNext]_allVars
    PROVE  ResumeInv' \/ Overrun'
<1>1. CASE UNCHANGED allVars
  <2>1. UNCHANGED <<Installation, staging>> /\ at' = at /\ txn' = txn /\ disturbed' = disturbed
    BY <1>1 DEF allVars, vars, bootVars, processVars, removalVars, Installation
  <2> QED
    BY <2>1, IdleResumes
<1>2. CASE RemovalNext
  <2>1. PICK i \in Installers :
          \/ \E c \in Commits \cup {None} : Start(i, c) /\ Noticed
          \/ \E r \in Installers \cup {None} : StartRemoval(i, r)
          \/ RunStep(i) \/ Interrupt(i) \/ Edit
    BY <1>2 DEF RemovalNext
  <2>2. CASE \/ \E c \in Commits \cup {None} : Start(i, c) /\ Noticed
             \/ \E r \in Installers \cup {None} : StartRemoval(i, r)
    BY <2>2, StartResumes
  <2>3. CASE ResumeRefused(i) \/ CleanUpFails(i) \/ (Stop(i) /\ Noticed)
    <3>1. End(i) /\ UNCHANGED <<Installation, staging>>
      BY <2>3 DEF ResumeRefused, Refuse, CleanUpFails, Stop, bootVars, Installation
    <3>2. disturbed' = disturbed
      BY <2>3, <3>1 DEF ResumeRefused, CleanUpFails, removalVars, Noticed
    <3> QED
      BY <3>1, <3>2, EndResumes
  <2> QED
    BY <2>1, <2>2, <2>3, EditResumes, InstallersResume, RemovalResumes DEF RunStep, Interrupt
<1> QED
  BY <1>1, <1>2

(* Wherever an uninstall is interrupted, and whoever installs, rolls back, *)
(* uninstalls or edits in between: as long as nobody changed what it is to *)
(* remove, its journal is accepted again and its next action can be        *)
(* carried out - unless an uninstall was carried out over an installation  *)
(* that had changed since it was planned.                                  *)
THEOREM RemovalsCanBeResumed == RemovalSpec => []RemovalIsResumable
<1> DEFINE Both == Inv /\ (Overrun \/ ResumeInv)
<1>1. RemovalInit => Both
  <2>1. RemovalInit => ResumeInv
    BY DEF RemovalInit, Init, ResumeInv, Continues, Unfollowed, Unfinished, Journaled, WorksAt, Working
  <2> QED
    BY <2>1, InvInit
<1>2. Both /\ [RemovalNext]_allVars => Both'
  <2> SUFFICES ASSUME Inv, Overrun \/ ResumeInv, [RemovalNext]_allVars
               PROVE  Inv' /\ (Overrun' \/ ResumeInv')
    OBVIOUS
  <2>1. Inv'
    BY InvNext
  <2>2. CASE Overrun
    BY <2>1, <2>2, OverrunStays DEF Inv, IInv
  <2>3. CASE ~Overrun
    BY <2>1, <2>3, ResumeNext DEF Inv
  <2> QED
    BY <2>2, <2>3
<1>3. Both => RemovalIsResumable
  <2> SUFFICES ASSUME Inv, ResumeInv, ~Overrun, NEW t \in Installers \ disturbed, Unfinished(t)
               PROVE  /\ Readable(t)
                      /\ staging[t].journal.done < Len(staging[t].plan) =>
                            Executable(staging[t], staging[t].journal.done + 1)
    BY DEF RemovalIsResumable, Unfinished
  <2>1. FileTypes /\ Continues(t) /\ Unfollowed(t)
    BY DEF Inv, RemovalInv, ResumeInv, Unfollowed
  <2> QED
    BY <2>1, WhatContinuesIsResumable
<1> QED
  BY <1>1, <1>2, <1>3, PTL DEF RemovalSpec
=============================================================================
