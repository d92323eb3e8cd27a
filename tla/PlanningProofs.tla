--------------------------- MODULE PlanningProofs ---------------------------
(***************************************************************************)
(* What a planning session and its delivery keep, for any number of        *)
(* sessions, packages, issues, crashes and failures: the conversation of   *)
(* the user, the package a session is bound to and the issues finished in  *)
(* it, and the lease under which files change.                             *)
(*                                                                         *)
(* The inductive invariant says for every session what the place it is at  *)
(* promises (PlaceIs): its checkouts exist, it holds the lease of the one  *)
(* it works in, the transfer it is inside has a target nobody else leases, *)
(* and a restored conversation is the one in the catalog.                  *)
(* Spares says that the package a transfer builds and may yet take away,   *)
(* its rollback outside the transaction included, is one no pointer refers *)
(* to but those of sessions that bound it in between (astray).             *)
(***************************************************************************)
EXTENDS PlanningDelivery, TLAPS

Places == {"off", "menu", "bind", "republish", "preflight", "prompt", "probe",
           "handoff", "rerun", "transfer", "copy", "undo", "restore", "reread", "run",
           "review"}
Leased == {"menu", "republish", "preflight", "prompt", "probe"}
Undoing == {"undo", "restore"}
Targeted == {"rerun", "transfer", "copy", "undo", "restore", "reread", "run", "review"}
Delivering == {"handoff"} \cup Targeted

Named == Packages \cup {"none"}
Contents == [has : SUBSET Files, done : SUBSET Issues]
Rows == [at : Checkouts \cup {"none"}, thread : Nat, settings : BOOLEAN,
         pointer : [at : Checkouts, package : Named]]
Jobs == [repo : Checkouts \cup {"none"}, thread : Nat, started : BOOLEAN,
         failed : BOOLEAN, restored : BOOLEAN, known : SUBSET Packages,
         package : Named, to : Checkouts \cup {"none"}, todo : SUBSET Files,
         backup : Contents, copies : BOOLEAN, selected : SUBSET Issues,
         blocked : BOOLEAN]

DiskOK ==
    /\ disk \in [Checkouts -> [Packages -> Contents]]
    /\ exists \subseteq Checkouts
    /\ \A c \in Checkouts \ exists, p \in Packages : disk[c][p].has = {}

Types ==
    /\ DiskOK
    /\ row \in [Sessions -> Rows]
    /\ lease \in [Checkouts -> Sessions \cup {NoSession}]
    /\ txn \in Sessions \cup {NoSession}
    /\ pc \in [Sessions -> Places]
    /\ job \in [Sessions -> Jobs]
    /\ minted \in Nat
    /\ astray \subseteq Sessions

PlaceIs(s) ==
    /\ pc[s] # "off" => job[s].repo \in exists
    /\ pc[s] \in Targeted => job[s].to \in exists
    /\ pc[s] \in Delivering \cup {"republish"} => job[s].package \in Packages
    /\ pc[s] \in Leased => lease[job[s].repo] = s
    /\ pc[s] \in {"reread", "run", "review"} => lease[job[s].to] = s
    /\ pc[s] = "copy" <=> txn = s
    /\ pc[s] = "copy" => /\ lease[job[s].to] \in {NoSession, s}
                         /\ job[s].todo # {} => job[s].copies
    /\ pc[s] = "restore" => job[s].copies
    /\ job[s].restored =>
         job[s].started /\ job[s].thread # NoThread /\ row[s].thread = job[s].thread

PointerIs(s) == row[s].pointer.package \in Packages \/ row[s].pointer = NoPointer

Spares(s) ==
    pc[s] \in {"copy", "undo", "restore", "reread"} /\ job[s].copies =>
        \A z \in Sessions \ astray :
            row[z].pointer = Target(s) => pc[s] = "reread" /\ z = s

IInv == /\ Types
        /\ PointersReferToFiles
        /\ \A s \in Sessions : PlaceIs(s) /\ PointerIs(s) /\ Spares(s)

-----------------------------------------------------------------------------
(* The shape of every step.                                                *)

(* A step of s leaves the others where they are and what they hold.        *)
Alone(s) ==
    /\ \A z \in Sessions \ {s} : /\ pc'[z] = pc[z] /\ job'[z] = job[z]
                                 /\ row'[z] = row[z]
    /\ \A z \in Sessions \ {s} : /\ txn' = z <=> txn = z
                                 /\ \A c \in Checkouts : lease'[c] = z <=> lease[c] = z
    /\ txn \in Sessions \ {s} =>
         \A c \in Checkouts : lease[c] = NoSession => lease'[c] = NoSession
    /\ exists \subseteq exists'

(* It leaves the targets of their transfers without a new pointer, or is   *)
(* astray from now on.                                                     *)
Shuns(s) ==
    \/ row'[s].pointer = row[s].pointer /\ astray \subseteq astray'
    \/ /\ astray \subseteq astray' \cup {s}
       /\ \A z \in Sessions \ {s} :
             /\ pc[z] \in {"copy", "reread"} => row'[s].pointer.at # job[z].to
             /\ pc[z] \in Undoing /\ job[z].copies /\ row'[s].pointer = Target(z) =>
                  s \in astray'

LEMMA StepKeeps ==
    ASSUME IInv, NEW s \in Sessions, Types', Alone(s), Shuns(s),
           PlaceIs(s)', PointerIs(s)', Spares(s)', PointersReferToFiles'
    PROVE  IInv'
<1> DEFINE Z == Sessions \ {s}
<1>1. ASSUME NEW z \in Z PROVE PlaceIs(z)'
  <2>1. PlaceIs(z) BY DEF IInv
  <2>2. /\ pc'[z] = pc[z] /\ job'[z] = job[z] /\ row'[z] = row[z]
        /\ (txn' = z <=> txn = z) /\ exists \subseteq exists'
        /\ \A c \in Checkouts : lease'[c] = z <=> lease[c] = z
        /\ txn = z => \A c \in Checkouts : lease[c] = NoSession => lease'[c] = NoSession
    BY DEF Alone
  <2>3. exists \subseteq Checkouts BY DEF IInv, Types, DiskOK
  <2>4. pc[z] \in Leased => pc[z] # "off" BY DEF Leased
  <2>5. pc[z] \in {"reread", "run", "review", "copy"} => pc[z] \in Targeted BY DEF Targeted
  <2>. QED BY <2>1, <2>2, <2>3, <2>4, <2>5 DEF PlaceIs
<1>2. ASSUME NEW z \in Z PROVE PointerIs(z)'
  BY DEF IInv, PointerIs, Alone
<1>3. ASSUME NEW z \in Z PROVE Spares(z)'
  <2>1. Spares(z) /\ pc'[z] = pc[z] /\ job'[z] = job[z] /\ row'[z] = row[z]
    BY DEF IInv, Alone
  <2>2. Target(z)' = Target(z) BY <2>1 DEF Target
  <2>3. Target(z).at = job[z].to BY DEF Target
  <2>. SUFFICES ASSUME pc[z] \in {"copy", "undo", "restore", "reread"}, job[z].copies,
                       NEW y \in Sessions \ astray', row'[y].pointer = Target(z)
                PROVE  pc[z] = "reread" /\ y = z
    BY <2>1, <2>2 DEF Spares
  <2>4. CASE y = s
    <3>1. row'[s].pointer.at = job[z].to BY <2>3, <2>4
    <3>2. row'[s].pointer = row[s].pointer /\ astray \subseteq astray'
      BY <2>4, <3>1 DEF Shuns, Undoing
    <3>. QED BY <2>1, <2>4, <3>2 DEF Spares
  <2>5. CASE y # s
    <3>1. row'[y] = row[y] /\ y \notin astray BY <2>5 DEF Alone, Shuns
    <3>. QED BY <2>1, <3>1 DEF Spares
  <2>. QED BY <2>4, <2>5
<1>. QED BY <1>1, <1>2, <1>3 DEF IInv

(* Pointers stay sound while no package they refer to is taken away.       *)
LEMMA PointersStay ==
    ASSUME IInv, astray \subseteq astray',
           \A z \in Sessions : row'[z].pointer = row[z].pointer,
           \A z \in Sessions \ astray', c \in Checkouts, p \in Packages :
              row[z].pointer = [at |-> c, package |-> p] /\ Pair(c, p) => Pair(c, p)'
    PROVE  PointersReferToFiles'
<1>. SUFFICES ASSUME NEW z \in Sessions \ astray', row'[z].pointer # NoPointer
              PROVE  {"prd", "index"} \subseteq
                         disk'[row'[z].pointer.at][row'[z].pointer.package].has
  BY DEF PointersReferToFiles, Pair
<1>. DEFINE c == row[z].pointer.at
            p == row[z].pointer.package
<1>1. row'[z].pointer = row[z].pointer OBVIOUS
<1>2. Pair(c, p) /\ p \in Packages
  BY <1>1 DEF IInv, PointersReferToFiles, PointerIs
<1>3. row[z].pointer \in [at : Checkouts, package : Named] BY DEF IInv, Types, Rows
<1>4. c \in Checkouts /\ row[z].pointer = [at |-> c, package |-> p] BY <1>3
<1>. HIDE DEF c, p
<1>5. {"prd", "index"} \subseteq disk'[c][p].has BY <1>2, <1>4 DEF Pair
<1>. QED BY <1>1, <1>5 DEF c, p

KeepsPairs ==
    \A c \in Checkouts, p \in Packages : Pair(c, p) => Pair(c, p)'

(* The assignments every action is made of.                                *)
LEMMA JobMoves ==
    ASSUME Types, NEW s \in Sessions, NEW j \in Jobs, job' = [job EXCEPT ![s] = j]
    PROVE  /\ job' \in [Sessions -> Jobs] /\ job'[s] = j
           /\ \A z \in Sessions \ {s} : job'[z] = job[z]
BY DEF Types

LEMMA PlaceMoves ==
    ASSUME Types, NEW s \in Sessions, NEW l \in Places, Goto(s, l)
    PROVE  /\ pc' \in [Sessions -> Places] /\ pc'[s] = l
           /\ \A z \in Sessions \ {s} : pc'[z] = pc[z]
BY DEF Types, Goto

(* A step that leaves lease, transaction and pointers alone.               *)
LEMMA WorkKeeps ==
    ASSUME IInv, NEW s \in Sessions,
           UNCHANGED <<lease, txn, astray>>,
           DiskOK', KeepsPairs, exists \subseteq exists', minted' \in Nat,
           pc' \in [Sessions -> Places], \A z \in Sessions \ {s} : pc'[z] = pc[z],
           job' \in [Sessions -> Jobs], \A z \in Sessions \ {s} : job'[z] = job[z],
           row' \in [Sessions -> Rows], \A z \in Sessions \ {s} : row'[z] = row[z],
           row'[s].pointer = row[s].pointer,
           PlaceIs(s)', Spares(s)'
    PROVE  IInv'
<1>1. Types' BY DEF IInv, Types
<1>2. Alone(s) BY DEF Alone
<1>3. Shuns(s) BY DEF Shuns
<1>4. PointerIs(s)' BY DEF IInv, PointerIs
<1>5. \A z \in Sessions : row'[z].pointer = row[z].pointer OBVIOUS
<1>7. PointersReferToFiles' BY <1>5, PointersStay DEF KeepsPairs
<1>. QED BY <1>1, <1>2, <1>3, <1>4, <1>7, StepKeeps

LEMMA EmptyIsTyped == Empty \in Contents /\ NoJob \in Jobs /\ ~NoJob.restored
BY DEF Empty, Contents, NoJob, Jobs, Named, NoThread

(* The worker of s ends, whatever else the step does to the files.         *)
LEMMA EndKeeps ==
    ASSUME IInv, NEW s \in Sessions, Ends(s), row' = row,
           DiskOK', exists' = exists, minted' \in Nat,
           txn' \in {txn, NoSession}, txn' # s, txn \in Sessions \ {s} => txn' = txn,
           astray \subseteq astray', astray' \subseteq Sessions,
           PointersReferToFiles'
    PROVE  IInv'
<1>. USE PlanningAssumption
<1>1. Types BY DEF IInv
<1>2. /\ pc' \in [Sessions -> Places] /\ pc'[s] = "off"
      /\ \A z \in Sessions \ {s} : pc'[z] = pc[z]
  BY <1>1, PlaceMoves DEF Ends, Places
<1>3. /\ job' \in [Sessions -> Jobs] /\ job'[s] = NoJob
      /\ \A z \in Sessions \ {s} : job'[z] = job[z]
  BY <1>1, JobMoves, EmptyIsTyped DEF Ends
<1>4. /\ lease' \in [Checkouts -> Sessions \cup {NoSession}]
      /\ \A c \in Checkouts : lease'[c] = IF lease[c] = s THEN NoSession ELSE lease[c]
  BY <1>1 DEF Types, Ends, Freed
<1>5. Types' BY <1>1, <1>2, <1>3, <1>4 DEF Types
<1>6. Alone(s) BY <1>1, <1>2, <1>3, <1>4 DEF Alone, Types
<1>7. Shuns(s) BY DEF Shuns
<1>8. PlaceIs(s)'
  BY <1>2, <1>3, EmptyIsTyped DEF PlaceIs, Leased, Targeted, Delivering
<1>9. PointerIs(s)' BY DEF IInv, PointerIs
<1>10. Spares(s)' BY <1>2 DEF Spares
<1>. QED BY <1>5, <1>6, <1>7, <1>8, <1>9, <1>10, StepKeeps

LEMMA QuietEndKeeps ==
    ASSUME IInv, NEW s \in Sessions, Ends(s), UNCHANGED <<files, row, astray>>,
           minted' = minted,
           txn' \in {txn, NoSession}, txn' # s, txn \in Sessions \ {s} => txn' = txn
    PROVE  IInv'
<1>1. DiskOK' /\ minted' \in Nat /\ exists' = exists
      /\ row' = row /\ astray' = astray /\ astray \subseteq Sessions
  BY DEF IInv, Types, DiskOK, files
<1>2. PointersReferToFiles' BY PointersStay, <1>1 DEF Pair, files
<1>. QED BY <1>1, <1>2, EndKeeps

(* publish_workflow, from a place whose checkout the session leases.       *)
LEMMA PublishesKeeps ==
    ASSUME IInv, NEW s \in Sessions, NEW p \in Packages, Publishes(s, p),
           pc[s] \in Leased, UNCHANGED <<files, lease, txn, minted>>
    PROVE  IInv'
<1>. USE PlanningAssumption
<1>. DEFINE c == job[s].repo
            q == [at |-> c, package |-> p]
            j == [NoJob EXCEPT !.repo = c, !.package = p]
            r == [row[s] EXCEPT !.pointer = q, !.thread = NoThread, !.settings = FALSE]
<1>1. Types /\ PlaceIs(s) BY DEF IInv
<1>2. c \in exists /\ c \in Checkouts /\ lease[c] = s /\ txn = NoSession
  BY <1>1 DEF PlaceIs, Leased, Types, DiskOK, Publishes, Locked
<1>3. j \in Jobs /\ j.repo = c /\ j.package = p /\ ~j.restored
  BY <1>2, EmptyIsTyped DEF Jobs, Named, NoJob
<1>4. row[s] \in Rows BY <1>1 DEF Types
<1>5. r \in Rows /\ r.pointer = q BY <1>2, <1>4 DEF Rows, Named, NoThread
<1>6. job' = [job EXCEPT ![s] = j] BY DEF Publishes
<1>7. row' = [row EXCEPT ![s] = r] BY DEF Publishes
<1>8. q.at = c /\ q.package = p OBVIOUS
<1>. HIDE DEF j, r, q
<1>9. /\ job' \in [Sessions -> Jobs] /\ job'[s] = j
      /\ \A z \in Sessions \ {s} : job'[z] = job[z]
  BY <1>1, <1>3, <1>6, JobMoves
<1>10. /\ row' \in [Sessions -> Rows] /\ row'[s] = r
       /\ \A z \in Sessions \ {s} : row'[z] = row[z]
  BY <1>1, <1>5, <1>7 DEF Types
<1>11. /\ pc' \in [Sessions -> Places] /\ pc'[s] = "handoff"
       /\ \A z \in Sessions \ {s} : pc'[z] = pc[z]
  BY <1>1, PlaceMoves DEF Publishes, Places
<1>12. /\ disk' = disk /\ exists' = exists /\ lease' = lease /\ txn' = txn
       /\ minted' = minted
  BY DEF files
<1>astray. /\ astray' = IF Threatened(s, q) THEN astray \cup {s} ELSE astray \ {s}
      /\ astray' \subseteq Sessions /\ astray \subseteq astray' \cup {s}
  BY <1>1 DEF Publishes, Binds, Types, q
<1>13. Types' BY <1>1, <1>9, <1>10, <1>11, <1>12, <1>astray DEF Types, DiskOK
<1>14. Alone(s) BY <1>9, <1>10, <1>11, <1>12 DEF Alone
<1>15. Shuns(s)
  <2>1. ASSUME NEW z \in Sessions \ {s}, pc[z] \in {"copy", "reread"}
        PROVE  c # job[z].to
    <3>1. PlaceIs(z) BY DEF IInv
    <3>. QED BY <1>2, <2>1, <3>1 DEF PlaceIs
  <2>2. row'[s].pointer = q BY <1>5, <1>10
  <2>3. ASSUME NEW z \in Sessions \ {s}, pc[z] \in Undoing, job[z].copies, q = Target(z)
        PROVE  s \in astray'
    <3>1. Threatened(s, q) BY <2>3 DEF Threatened, Undoing
    <3>. QED BY <3>1, <1>astray
  <2>. QED BY <1>8, <1>astray, <2>1, <2>2, <2>3 DEF Shuns
<1>16. PlaceIs(s)'
  BY <1>2, <1>3, <1>9, <1>11, <1>12 DEF PlaceIs, Leased, Targeted
<1>17. PointerIs(s)' BY <1>5, <1>8, <1>10 DEF PointerIs
<1>18. Spares(s)' BY <1>11 DEF Spares
<1>19. PointersReferToFiles'
  <2>1. Pair(c, p) BY DEF Publishes
  <2>2. row'[s].pointer.at = c /\ row'[s].pointer.package = p BY <1>5, <1>8, <1>10
  <2>3. PointersReferToFiles BY DEF IInv
  <2>4. \A z \in Sessions \ {s} : z \notin astray' => z \notin astray BY <1>astray
  <2>. QED BY <2>1, <2>2, <2>3, <2>4, <1>10, <1>12 DEF PointersReferToFiles, Pair
<1>. QED BY <1>13, <1>14, <1>15, <1>16, <1>17, <1>18, <1>19, StepKeeps

-----------------------------------------------------------------------------
(* One lemma per action.                                                   *)

LEMMA InitHolds == Init => IInv
<1>. SUFFICES ASSUME Init PROVE IInv OBVIOUS
<1>. USE PlanningAssumption
<1>1. Whole \in Contents /\ Empty.has = {}
  BY DEF Whole, Contents, Empty
<1>2. DiskOK
  <2>1. disk \in [Checkouts -> [Packages -> Contents]]
    BY <1>1, EmptyIsTyped DEF Init
  <2>. QED BY <2>1, <1>1 DEF Init, DiskOK, Checkouts, Sources
<1>3. NoRow \in Rows /\ NoRow.pointer = NoPointer
  BY DEF NoRow, Rows, NoPointer, Named, Checkouts, Sources, NoThread
<1>4. Types
  BY <1>2, <1>3, EmptyIsTyped DEF Types, Init, Places
<1>5. PointersReferToFiles BY <1>3 DEF PointersReferToFiles, Init
<1>6. ASSUME NEW s \in Sessions PROVE PlaceIs(s) /\ PointerIs(s) /\ Spares(s)
  BY <1>3, EmptyIsTyped
  DEF Init, PlaceIs, PointerIs, Spares, Leased, Delivering, Targeted, Undoing
<1>. QED BY <1>4, <1>5, <1>6 DEF IInv

LEMMA LaunchKeeps ==
    ASSUME IInv, NEW s \in Sessions, NEW c \in Checkouts, Launch(s, c)
    PROVE  IInv'
<1>. USE PlanningAssumption
<1>. DEFINE old == row[s]
            j == [NoJob EXCEPT !.repo = c, !.thread = old.thread,
                               !.started = old.thread # NoThread,
                               !.restored = old.thread # NoThread,
                               !.package = old.pointer.package]
            r == [old EXCEPT !.at = c]
            l == IF old = NoRow THEN "menu"
                 ELSE IF old.pointer = NoPointer THEN "bind" ELSE "republish"
<1>1. Types /\ PlaceIs(s) /\ PointerIs(s) BY DEF IInv
<1>2. old \in Rows BY <1>1 DEF Types
<1>3. /\ c \in exists /\ lease[c] = NoSession /\ txn = NoSession /\ pc[s] = "off"
      /\ lease' = [lease EXCEPT ![c] = s] /\ row' = [row EXCEPT ![s] = r]
      /\ job' = [job EXCEPT ![s] = j] /\ Goto(s, l)
      /\ UNCHANGED <<disk, exists, txn, minted, astray>>
  BY DEF Launch, Locked, files
<1>4. /\ j \in Jobs /\ j.repo = c /\ j.package = old.pointer.package
      /\ j.restored => j.started /\ j.thread # NoThread
      /\ j.thread = old.thread
  BY <1>2, EmptyIsTyped DEF Jobs, NoJob, Rows
<1>5. r \in Rows /\ r.pointer = old.pointer /\ r.thread = old.thread
  BY <1>2 DEF Rows
<1>6. l \in Places /\ l \in {"menu", "bind", "republish"}
      /\ (l = "republish" => old.pointer # NoPointer)
  BY DEF Places
<1>. HIDE DEF j, r, l
<1>7. /\ job' \in [Sessions -> Jobs] /\ job'[s] = j
      /\ \A z \in Sessions \ {s} : job'[z] = job[z]
  BY <1>1, <1>3, <1>4, JobMoves
<1>8. /\ row' \in [Sessions -> Rows] /\ row'[s] = r
      /\ \A z \in Sessions \ {s} : row'[z] = row[z]
  BY <1>1, <1>3, <1>5 DEF Types
<1>9. /\ pc' \in [Sessions -> Places] /\ pc'[s] = l
      /\ \A z \in Sessions \ {s} : pc'[z] = pc[z]
  BY <1>1, <1>3, <1>6, PlaceMoves
<1>10. /\ lease' \in [Checkouts -> Sessions \cup {NoSession}] /\ lease'[c] = s
       /\ \A d \in Checkouts \ {c} : lease'[d] = lease[d]
  BY <1>1, <1>3 DEF Types
<1>11. Types' BY <1>1, <1>3, <1>7, <1>8, <1>9, <1>10 DEF Types, DiskOK
<1>12. Alone(s) BY <1>3, <1>7, <1>8, <1>9, <1>10 DEF Alone
<1>13. Shuns(s) BY <1>3, <1>5, <1>8 DEF Shuns
<1>14. PlaceIs(s)'
  BY <1>1, <1>3, <1>4, <1>5, <1>6, <1>7, <1>8, <1>9, <1>10
  DEF PlaceIs, PointerIs, Leased, Targeted, Delivering
<1>15. PointerIs(s)' BY <1>1, <1>5, <1>8 DEF PointerIs
<1>16. Spares(s)' BY <1>6, <1>9 DEF Spares
<1>17. PointersReferToFiles'
  <2>1. \A z \in Sessions : row'[z].pointer = row[z].pointer BY <1>5, <1>8
  <2>. QED BY <1>3, <2>1, PointersStay DEF Pair
<1>. QED BY <1>11, <1>12, <1>13, <1>14, <1>15, <1>16, <1>17, StepKeeps

LEMMA RepublishKeeps ==
    ASSUME IInv, NEW s \in Sessions, Republish(s) PROVE IInv'
<1>. USE PlanningAssumption
<1>1. Types /\ PlaceIs(s) /\ pc[s] = "republish" BY DEF IInv, Republish
<1>2. CASE Publishes(s, job[s].package) /\ UNCHANGED lease
  <2>1. job[s].package \in Packages BY <1>1 DEF PlaceIs
  <2>2. UNCHANGED <<files, lease, txn, minted>> BY <1>2 DEF Republish
  <2>. QED BY <1>1, <1>2, <2>1, <2>2, PublishesKeeps DEF Leased
<1>3. CASE Ends(s) /\ UNCHANGED <<row, astray>>
  <2>1. UNCHANGED <<files, row, astray>> /\ minted' = minted /\ txn' = txn
    BY <1>3 DEF Republish
  <2>2. txn' # s BY <1>1, <2>1 DEF PlaceIs
  <2>3. txn' \in {txn, NoSession} BY <2>1
  <2>. QED BY <1>3, <2>1, <2>2, <2>3, QuietEndKeeps
<1>. QED BY <1>2, <1>3 DEF Republish

LEMMA ResumeUnfinishedKeeps ==
    ASSUME IInv, NEW s \in Sessions, ResumeUnfinished(s) PROVE IInv'
<1>1. PICK p \in Packages : Publishes(s, p)
  BY DEF ResumeUnfinished, Candidates
<1>2. pc[s] \in Leased /\ UNCHANGED <<files, lease, txn, minted>>
  BY DEF ResumeUnfinished, Leased
<1>. QED BY <1>1, <1>2, PublishesKeeps

LEMMA DoneByHandKeeps ==
    ASSUME IInv, NEW s \in Sessions, DoneByHand(s) PROVE IInv'
<1>1. PICK p \in Packages : Publishes(s, p) BY DEF DoneByHand
<1>2. pc[s] \in Leased /\ UNCHANGED <<files, lease, txn, minted>>
  BY DEF DoneByHand, Leased
<1>. QED BY <1>1, <1>2, PublishesKeeps

LEMMA QuitKeeps ==
    ASSUME IInv, NEW s \in Sessions, Quit(s) PROVE IInv'
<1>1. PlaceIs(s) /\ pc[s] # "copy" BY DEF IInv, Quit
<1>2. txn' = txn /\ txn' # s BY <1>1 DEF PlaceIs, Quit
<1>3. txn' \in {txn, NoSession} BY <1>2
<1>. QED BY <1>2, <1>3, QuietEndKeeps DEF Quit

LEMMA CrashKeeps ==
    ASSUME IInv, NEW s \in Sessions, Crash(s) PROVE IInv'
<1>1. txn' \in {txn, NoSession} /\ txn' # s /\ (txn \in Sessions \ {s} => txn' = txn)
  BY PlanningAssumption DEF Crash
<1>. QED BY <1>1, QuietEndKeeps DEF Crash

LEMMA FilesStay ==
    ASSUME Types, UNCHANGED files
    PROVE  DiskOK' /\ KeepsPairs /\ exists \subseteq exists'
BY DEF Types, DiskOK, files, KeepsPairs, Pair

(* A new worktree appears whole; a checkout that exists is left alone.     *)
LEMMA CheckOutKeeps ==
    ASSUME Types, NEW r \in Checkouts, NEW c \in Checkouts, CheckOut(r, c)
    PROVE  /\ DiskOK' /\ KeepsPairs /\ exists \subseteq exists' /\ c \in exists'
           /\ \A d \in exists : disk'[d] = disk[d]
<1>1. exists' = exists \cup {c} BY DEF CheckOut
<1>2. CASE c \in exists
  BY <1>1, <1>2 DEF CheckOut, Types, DiskOK, KeepsPairs, Pair
<1>3. CASE c \notin exists
  <2>1. PICK committed \in SUBSET Packages :
           disk' = [disk EXCEPT ![c] = [p \in Packages |->
                      IF p \in committed THEN disk[r][p] ELSE Empty]]
    BY <1>3 DEF CheckOut
  <2>. DEFINE new == [p \in Packages |-> IF p \in committed THEN disk[r][p] ELSE Empty]
  <2>2. new \in [Packages -> Contents]
    BY EmptyIsTyped DEF Types, DiskOK
  <2>. HIDE DEF new
  <2>3. /\ disk' \in [Checkouts -> [Packages -> Contents]]
        /\ \A d \in Checkouts \ {c} : disk'[d] = disk[d]
    BY <2>1, <2>2 DEF Types, DiskOK, new
  <2>4. \A p \in Packages : ~Pair(c, p) BY <1>3 DEF Pair, Types, DiskOK
  <2>5. DiskOK' BY <1>1, <2>3 DEF Types, DiskOK
  <2>6. KeepsPairs BY <2>3, <2>4 DEF KeepsPairs, Pair
  <2>. QED BY <1>1, <1>3, <2>3, <2>5, <2>6 DEF Types, DiskOK
<1>. QED BY <1>2, <1>3

LEMMA BranchStrategyKeeps ==
    ASSUME IInv, NEW s \in Sessions, BranchStrategy(s) PROVE IInv'
<1>. USE PlanningAssumption
<1>1. Types /\ PlaceIs(s) /\ pc[s] = "menu" BY DEF IInv, BranchStrategy
<1>2. PICK c \in {job[s].repo, "tree"} :
         CheckOut(job[s].repo, c) /\ job' = [job EXCEPT ![s].repo = c]
  BY DEF BranchStrategy
<1>3. job[s].repo \in exists /\ job[s].repo \in Checkouts /\ c \in Checkouts
  BY <1>1, <1>2 DEF PlaceIs, Types, DiskOK, Checkouts
<1>4. /\ DiskOK' /\ KeepsPairs /\ exists \subseteq exists' /\ c \in exists'
  BY <1>1, <1>2, <1>3, CheckOutKeeps
<1>. DEFINE j == [job[s] EXCEPT !.repo = c]
<1>5. j \in Jobs /\ j.repo = c /\ j.restored = job[s].restored
      /\ j.started = job[s].started /\ j.thread = job[s].thread
  <2>1. job[s] \in Jobs BY <1>1 DEF Types
  <2>2. j \in Jobs BY <1>3, <2>1 DEF Jobs
  <2>. QED BY <2>1, <2>2 DEF Jobs
<1>6. job' = [job EXCEPT ![s] = j] BY <1>2
<1>. HIDE DEF j
<1>7. /\ job' \in [Sessions -> Jobs] /\ job'[s] = j
      /\ \A z \in Sessions \ {s} : job'[z] = job[z]
  BY <1>1, <1>5, <1>6, JobMoves
<1>8. /\ pc' \in [Sessions -> Places] /\ pc'[s] = "bind"
      /\ \A z \in Sessions \ {s} : pc'[z] = pc[z]
  BY <1>1, PlaceMoves DEF BranchStrategy, Places
<1>9. UNCHANGED <<row, lease, txn, minted, astray>>
  BY DEF BranchStrategy
<1>10. PlaceIs(s)'
  BY <1>1, <1>4, <1>5, <1>7, <1>8, <1>9 DEF PlaceIs, Leased, Targeted, Delivering
<1>11. Spares(s)' BY <1>8 DEF Spares
<1>12. minted' \in Nat /\ row' \in [Sessions -> Rows] BY <1>1, <1>9 DEF Types
<1>. QED BY <1>4, <1>7, <1>8, <1>9, <1>10, <1>11, <1>12, WorkKeeps

LEMMA BindPlanningKeeps ==
    ASSUME IInv, NEW s \in Sessions, BindPlanning(s) PROVE IInv'
<1>. USE PlanningAssumption
<1>. DEFINE c == job[s].repo
            j == [job[s] EXCEPT !.known = Baseline(s)]
            r == [row[s] EXCEPT !.at = c]
<1>1. Types /\ PlaceIs(s) /\ PointerIs(s) /\ pc[s] = "bind" /\ txn = NoSession
  BY DEF IInv, BindPlanning, Locked
<1>2. c \in exists /\ c \in Checkouts BY <1>1 DEF PlaceIs, Types, DiskOK
<1>3. CASE Conflict(s, c)
  <2>1. Ends(s) /\ UNCHANGED <<row, files, txn, minted, astray>>
    BY <1>3 DEF BindPlanning
  <2>. QED BY <1>1, <2>1, QuietEndKeeps
<1>4. CASE ~Conflict(s, c)
  <2>1. /\ job' = [job EXCEPT ![s].known = Baseline(s)]
        /\ lease' = Moved(s, c) /\ row' = [row EXCEPT ![s].at = c]
        /\ Goto(s, "preflight")
        /\ UNCHANGED <<files, txn, minted, astray>>
    BY <1>4 DEF BindPlanning
  <2>2. /\ j \in Jobs /\ j.repo = c /\ j.restored = job[s].restored
        /\ j.started = job[s].started /\ j.thread = job[s].thread
    BY <1>1 DEF Types, Jobs, Baseline, Snapshot
  <2>3. r \in Rows /\ r.pointer = row[s].pointer /\ r.thread = row[s].thread
    BY <1>1, <1>2 DEF Types, Rows
  <2>4. job' = [job EXCEPT ![s] = j] /\ row' = [row EXCEPT ![s] = r] BY <2>1
  <2>. HIDE DEF j, r
  <2>5. /\ job' \in [Sessions -> Jobs] /\ job'[s] = j
        /\ \A z \in Sessions \ {s} : job'[z] = job[z]
    BY <1>1, <2>2, <2>4, JobMoves
  <2>6. /\ row' \in [Sessions -> Rows] /\ row'[s] = r
        /\ \A z \in Sessions \ {s} : row'[z] = row[z]
    BY <1>1, <2>3, <2>4 DEF Types
  <2>7. /\ pc' \in [Sessions -> Places] /\ pc'[s] = "preflight"
        /\ \A z \in Sessions \ {s} : pc'[z] = pc[z]
    BY <1>1, <2>1, PlaceMoves DEF Places
  <2>8. /\ lease' \in [Checkouts -> Sessions \cup {NoSession}] /\ lease'[c] = s
        /\ \A d \in Checkouts, z \in Sessions \ {s} : lease'[d] = z <=> lease[d] = z
    BY <1>1, <1>2, <1>4, <2>1 DEF Types, Moved, Freed, Conflict
  <2>9. Types' BY <1>1, <2>1, <2>5, <2>6, <2>7, <2>8, FilesStay DEF Types
  <2>10. Alone(s) BY <1>1, <2>1, <2>5, <2>6, <2>7, <2>8 DEF Alone, files
  <2>11. Shuns(s) BY <2>1, <2>3, <2>6 DEF Shuns
  <2>12. PlaceIs(s)'
    BY <1>1, <1>2, <2>1, <2>2, <2>3, <2>5, <2>6, <2>7, <2>8
    DEF PlaceIs, Targeted, Delivering, files
  <2>13. PointerIs(s)' BY <1>1, <2>3, <2>6 DEF PointerIs
  <2>14. Spares(s)' BY <2>7 DEF Spares
  <2>15. PointersReferToFiles'
    <3>1. \A z \in Sessions : row'[z].pointer = row[z].pointer BY <2>3, <2>6
    <3>. QED BY <2>1, <3>1, PointersStay DEF Pair, files
  <2>. QED BY <2>9, <2>10, <2>11, <2>12, <2>13, <2>14, <2>15, StepKeeps
<1>. QED BY <1>3, <1>4

LEMMA PreflightKeeps ==
    ASSUME IInv, NEW s \in Sessions, Preflight(s) PROVE IInv'
<1>1. Types /\ PlaceIs(s) /\ pc[s] = "preflight" BY DEF IInv, Preflight
<1>. DEFINE r == [row[s] EXCEPT !.settings = TRUE]
<1>2. r \in Rows /\ r.pointer = row[s].pointer /\ r.thread = row[s].thread
  BY <1>1 DEF Types, Rows
<1>3. row' = [row EXCEPT ![s] = r] BY DEF Preflight
<1>. HIDE DEF r
<1>4. /\ row' \in [Sessions -> Rows] /\ row'[s] = r
      /\ \A z \in Sessions \ {s} : row'[z] = row[z]
  BY <1>1, <1>2, <1>3 DEF Types
<1>5. /\ pc' \in [Sessions -> Places] /\ pc'[s] = "prompt"
      /\ \A z \in Sessions \ {s} : pc'[z] = pc[z]
  BY <1>1, PlaceMoves DEF Preflight, Places
<1>6. UNCHANGED <<files, job, lease, txn, minted, astray>>
  BY DEF Preflight
<1>7. DiskOK' /\ KeepsPairs /\ exists \subseteq exists' BY <1>1, <1>6, FilesStay
<1>8. PlaceIs(s)'
  BY <1>1, <1>2, <1>4, <1>5, <1>6
  DEF PlaceIs, Leased, Targeted, Delivering, files
<1>9. Spares(s)' BY <1>5 DEF Spares
<1>10. minted' \in Nat /\ job' \in [Sessions -> Jobs] BY <1>1, <1>6 DEF Types
<1>. QED BY <1>2, <1>4, <1>5, <1>6, <1>7, <1>8, <1>9, <1>10, WorkKeeps

(* What a turn may report: of a restored conversation, only its own name.  *)
LEMMA ParsedIs ==
    ASSUME NEW j \in Jobs, minted \in Nat, NEW t \in Parsed(j)
    PROVE  /\ t \in Nat
           /\ j.restored /\ j.started /\ j.thread # NoThread => t = j.thread
<1>1. j.thread \in Nat BY DEF Jobs
<1>. QED BY <1>1 DEF Parsed, Fresh, NoThread

(* What a turn changes of the session that takes it.                       *)
Speaks(s) ==
    /\ job' \in [Sessions -> Jobs] /\ \A z \in Sessions \ {s} : job'[z] = job[z]
    /\ row' \in [Sessions -> Rows] /\ \A z \in Sessions \ {s} : row'[z] = row[z]
    /\ row'[s].pointer = row[s].pointer /\ minted' \in Nat
    /\ job'[s].repo = job[s].repo /\ job'[s].restored = job[s].restored
    /\ job[s].restored => /\ job'[s].started /\ job'[s].thread = job[s].thread
                          /\ row'[s].thread = row[s].thread

LEMMA TurnKeeps ==
    ASSUME IInv, NEW s \in Sessions, Turn(s) PROVE IInv'
<1>1. Types /\ PlaceIs(s) /\ pc[s] = "prompt" BY DEF IInv, Turn
<1>. DEFINE c == job[s].repo
            old == job[s]
<1>2. old \in Jobs /\ row[s] \in Rows /\ minted \in Nat BY <1>1 DEF Types
<1>. DEFINE known(p, w) == IF w = {} THEN old.known ELSE old.known \ {p}
<1>3. PICK p \in Packages, w \in Written :
         /\ Adds(c, p, w)
         /\ \/ \E t \in Parsed(old) :
                  /\ minted' = IF t > minted THEN t ELSE minted
                  /\ row' = [row EXCEPT ![s].thread = IF t = NoThread THEN @ ELSE t]
                  /\ job' = [job EXCEPT ![s] =
                               [@ EXCEPT !.thread = t, !.started = TRUE,
                                         !.failed = FALSE, !.known = known(p, w)]]
            \/ /\ job' = [job EXCEPT ![s] =
                            [@ EXCEPT !.failed = TRUE, !.known = known(p, w)]]
               /\ UNCHANGED <<minted, row>>
  BY DEF Turn, Heard
<1>. DEFINE left == known(p, w)
<1>4. left \in SUBSET Packages BY <1>2 DEF Jobs
<1>. HIDE DEF known, left
<1>5. c \in exists /\ c \in Checkouts /\ lease[c] = s
  BY <1>1 DEF PlaceIs, Leased, Types, DiskOK
<1>6. DiskOK' /\ KeepsPairs /\ exists' = exists
  <2>1. disk' = [disk EXCEPT ![c][p].has = @ \cup w] /\ exists' = exists
    BY <1>3 DEF Adds
  <2>2. w \subseteq Files BY DEF Written, Files
  <2>. DEFINE new == [disk[c][p] EXCEPT !.has = @ \cup w]
              pack == [disk[c] EXCEPT ![p] = new]
  <2>3. disk' = [disk EXCEPT ![c] = pack] BY <2>1
  <2>4. disk[c][p] \in Contents /\ disk[c] \in [Packages -> Contents]
    BY <1>1, <1>5 DEF Types, DiskOK
  <2>5. new \in Contents /\ disk[c][p].has \subseteq new.has BY <2>2, <2>4 DEF Contents
  <2>. HIDE DEF new
  <2>6. /\ pack \in [Packages -> Contents] /\ pack[p] = new
        /\ \A q \in Packages \ {p} : pack[q] = disk[c][q]
    BY <2>4, <2>5
  <2>. HIDE DEF pack
  <2>7. /\ disk' \in [Checkouts -> [Packages -> Contents]] /\ disk'[c] = pack
        /\ \A d \in Checkouts \ {c} : disk'[d] = disk[d]
    BY <1>1, <1>5, <2>3, <2>6 DEF Types, DiskOK
  <2>8. DiskOK' BY <1>1, <1>5, <2>1, <2>7 DEF Types, DiskOK
  <2>9. KeepsPairs BY <2>5, <2>6, <2>7 DEF KeepsPairs, Pair
  <2>. QED BY <2>1, <2>8, <2>9
<1>7. Speaks(s)
  <2>1. ASSUME NEW t \in Parsed(old),
               minted' = IF t > minted THEN t ELSE minted,
               row' = [row EXCEPT ![s].thread = IF t = NoThread THEN @ ELSE t],
               job' = [job EXCEPT ![s] =
                         [@ EXCEPT !.thread = t, !.started = TRUE,
                                   !.failed = FALSE, !.known = left]]
        PROVE  Speaks(s)
    <3>. DEFINE j == [old EXCEPT !.thread = t, !.started = TRUE, !.failed = FALSE,
                                 !.known = left]
                r == [row[s] EXCEPT !.thread = IF t = NoThread THEN @ ELSE t]
    <3>1. t \in Nat /\ (old.restored => t = old.thread /\ t # NoThread
                                        /\ row[s].thread = old.thread)
      BY <1>1, <1>2, ParsedIs DEF PlaceIs
    <3>2. j \in Jobs /\ j.repo = c /\ j.restored = old.restored /\ j.started /\ j.thread = t
      BY <1>2, <1>4, <3>1 DEF Jobs
    <3>3. r \in Rows /\ r.pointer = row[s].pointer
          /\ (r.thread = IF t = NoThread THEN row[s].thread ELSE t)
      BY <1>2, <3>1 DEF Rows
    <3>4. job' = [job EXCEPT ![s] = j] /\ row' = [row EXCEPT ![s] = r]
      BY <2>1
    <3>. HIDE DEF j, r
    <3>5. /\ job' \in [Sessions -> Jobs] /\ job'[s] = j
          /\ \A z \in Sessions \ {s} : job'[z] = job[z]
      BY <1>1, <3>2, <3>4, JobMoves
    <3>6. /\ row' \in [Sessions -> Rows] /\ row'[s] = r
          /\ \A z \in Sessions \ {s} : row'[z] = row[z]
      BY <1>1, <3>3, <3>4 DEF Types
    <3>7. minted' \in Nat BY <1>2, <2>1, <3>1
    <3>. QED BY <3>1, <3>2, <3>3, <3>5, <3>6, <3>7 DEF Speaks
  <2>2. ASSUME job' = [job EXCEPT ![s] =
                         [@ EXCEPT !.failed = TRUE, !.known = left]],
               UNCHANGED <<minted, row>>
        PROVE  Speaks(s)
    <3>. DEFINE j == [old EXCEPT !.failed = TRUE, !.known = left]
    <3>1. /\ j \in Jobs /\ j.repo = c /\ j.restored = old.restored
          /\ j.started = old.started /\ j.thread = old.thread
      BY <1>2, <1>4 DEF Jobs
    <3>2. job' = [job EXCEPT ![s] = j] BY <2>2
    <3>. HIDE DEF j
    <3>3. /\ job' \in [Sessions -> Jobs] /\ job'[s] = j
          /\ \A z \in Sessions \ {s} : job'[z] = job[z]
      BY <1>1, <3>1, <3>2, JobMoves
    <3>. QED BY <1>1, <2>2, <3>1, <3>3 DEF PlaceIs, Types, Speaks
  <2>. QED BY <1>3, <2>1, <2>2 DEF left
<1>8. /\ pc' \in [Sessions -> Places] /\ pc'[s] = "probe"
      /\ \A z \in Sessions \ {s} : pc'[z] = pc[z]
  BY <1>1, PlaceMoves DEF Turn, Places
<1>9. UNCHANGED <<lease, txn, astray>> BY DEF Turn
<1>10. PlaceIs(s)'
  BY <1>1, <1>5, <1>6, <1>7, <1>8, <1>9
  DEF PlaceIs, Leased, Targeted, Delivering, Speaks
<1>11. Spares(s)' BY <1>8 DEF Spares
<1>12. exists \subseteq exists' BY <1>6
<1>. QED BY <1>6, <1>7, <1>8, <1>9, <1>10, <1>11, <1>12, WorkKeeps DEF Speaks

LEMMA ProbeKeeps ==
    ASSUME IInv, NEW s \in Sessions, Probe(s) PROVE IInv'
<1>1. Types /\ PlaceIs(s) /\ pc[s] = "probe" BY DEF IInv, Probe
<1>2. UNCHANGED <<files, lease, txn, minted>> BY DEF Probe
<1>3. ASSUME NEW p \in Packages, Publishes(s, p) PROVE IInv'
  <2>1. pc[s] \in Leased BY <1>1 DEF Leased
  <2>. QED BY <1>2, <1>3, <2>1, PublishesKeeps
<1>4. ASSUME Goto(s, "prompt"), UNCHANGED <<row, job, astray>> PROVE IInv'
  <2>1. /\ pc' \in [Sessions -> Places] /\ pc'[s] = "prompt"
        /\ \A z \in Sessions \ {s} : pc'[z] = pc[z]
    BY <1>1, <1>4, PlaceMoves DEF Places
  <2>2. DiskOK' /\ KeepsPairs /\ exists \subseteq exists' BY <1>1, <1>2, FilesStay
  <2>3. PlaceIs(s)'
    BY <1>1, <1>2, <1>4, <2>1 DEF PlaceIs, Leased, Targeted, Delivering, files
  <2>4. Spares(s)' BY <2>1 DEF Spares
  <2>5. minted' \in Nat /\ job' \in [Sessions -> Jobs] /\ row' \in [Sessions -> Rows]
    BY <1>1, <1>2, <1>4 DEF Types
  <2>. QED BY <1>2, <1>4, <2>1, <2>2, <2>3, <2>4, <2>5, WorkKeeps
<1>. QED BY <1>3, <1>4 DEF Probe, Offered

(* One package of one checkout changes.                                    *)
Writes(c, p, new) == disk' = [disk EXCEPT ![c][p] = new]

LEMMA FilesMove ==
    ASSUME Types, NEW c \in exists, NEW p \in Packages, NEW new \in Contents,
           Writes(c, p, new), exists' = exists
    PROVE  /\ DiskOK' /\ disk'[c][p] = new
           /\ \A d \in Checkouts, q \in Packages :
                 d # c \/ q # p => disk'[d][q] = disk[d][q]
<1>. DEFINE pack == [disk[c] EXCEPT ![p] = new]
<1>1. c \in Checkouts /\ disk[c] \in [Packages -> Contents] BY DEF Types, DiskOK
<1>2. disk' = [disk EXCEPT ![c] = pack] BY DEF Writes
<1>3. /\ pack \in [Packages -> Contents] /\ pack[p] = new
      /\ \A q \in Packages \ {p} : pack[q] = disk[c][q]
  BY <1>1
<1>. HIDE DEF pack
<1>4. /\ disk' \in [Checkouts -> [Packages -> Contents]] /\ disk'[c] = pack
      /\ \A d \in Checkouts \ {c} : disk'[d] = disk[d]
  BY <1>1, <1>2, <1>3 DEF Types, DiskOK
<1>5. DiskOK' BY <1>4 DEF Types, DiskOK
<1>6. disk'[c][p] = new BY <1>3, <1>4
<1>7. \A d \in Checkouts, q \in Packages :
         d # c \/ q # p => disk'[d][q] = disk[d][q]
  BY <1>3, <1>4
<1>. QED BY <1>5, <1>6, <1>7

(* What a transfer does to the package of its target, copying or undoing,  *)
(* nobody else is bound to.                                                *)
LEMMA TargetMoves ==
    ASSUME IInv, NEW s \in Sessions, pc[s] \in {"copy", "undo", "restore", "reread"},
           job[s].copies, NEW new \in Contents,
           Writes(job[s].to, job[s].package, new),
           exists' = exists, row' = row, astray \subseteq astray',
           pc[s] = "reread" => s \in astray'
    PROVE  /\ DiskOK' /\ PointersReferToFiles'
           /\ \A z \in Sessions \ astray', d \in Checkouts, q \in Packages :
                 row[z].pointer = [at |-> d, package |-> q] => disk'[d][q] = disk[d][q]
<1>. DEFINE c == job[s].to
            p == job[s].package
<1>1. Types /\ PlaceIs(s) /\ Spares(s) BY DEF IInv
<1>2. c \in exists /\ p \in Packages
  BY <1>1 DEF PlaceIs, Targeted, Delivering, Undoing
<1>3. Writes(c, p, new) OBVIOUS
<1>4. Target(s) = [at |-> c, package |-> p] BY DEF Target
<1>. HIDE DEF c, p
<1>5. /\ DiskOK' /\ disk'[c][p] = new
      /\ \A d \in Checkouts, q \in Packages :
            d # c \/ q # p => disk'[d][q] = disk[d][q]
  BY <1>1, <1>2, <1>3, FilesMove
<1>6. ASSUME NEW z \in Sessions \ astray', NEW d \in Checkouts, NEW q \in Packages,
             row[z].pointer = [at |-> d, package |-> q]
      PROVE  disk'[d][q] = disk[d][q]
  <2>1. CASE d # c \/ q # p BY <1>5, <2>1
  <2>2. CASE d = c /\ q = p
    <3>1. row[z].pointer = Target(s) BY <1>4, <1>6, <2>2
    <3>2. pc[s] = "reread" /\ z = s BY <1>1, <3>1 DEF Spares
    <3>. QED BY <3>2
  <2>. QED BY <2>1, <2>2
<1>7. PointersReferToFiles' BY <1>6, PointersStay DEF Pair
<1>. QED BY <1>5, <1>6, <1>7

(* What every write of a transfer is.                                      *)
LEMMA TransferWrites ==
    ASSUME IInv, NEW s \in Sessions,
           CopyFails(s) \/ (UndoFiles(s) /\ job[s].copies) \/ PutBack(s)
             \/ (RereadFails(s) /\ job[s].copies) \/ \E f \in Files : CopyFile(s, f)
    PROVE  /\ pc[s] \in {"copy", "undo", "restore", "reread"} /\ job[s].copies
           /\ \E new \in Contents : Writes(job[s].to, job[s].package, new)
           /\ exists' = exists /\ row' = row /\ astray \subseteq astray'
           /\ pc[s] = "reread" => s \in astray'
<1>. DEFINE c == job[s].to
            p == job[s].package
            now == disk[c][p]
            old == job[s].backup
            from == disk[job[s].repo][p]
<1>1. Types /\ PlaceIs(s) /\ job[s] \in Jobs BY DEF IInv, Types
<1>2. pc[s] \in {"copy", "undo", "restore", "reread"} /\ job[s].copies
  BY <1>1 DEF CopyFails, UndoFiles, PutBack, RereadFails, CopyFile, PlaceIs, Undoing
<1>3. c \in exists /\ p \in Packages /\ job[s].repo \in exists
  BY <1>1, <1>2 DEF PlaceIs, Targeted, Delivering, Undoing
<1>4. now \in Contents /\ old \in Contents /\ from \in Contents /\ Empty \in Contents
  BY <1>1, <1>3, EmptyIsTyped DEF Types, DiskOK, Jobs
<1>5. exists' = exists /\ row' = row /\ astray \subseteq astray'
      /\ (pc[s] = "reread" => s \in astray')
  BY DEF CopyFails, UndoFiles, PutBack, RereadFails, CopyFile
<1>6. \A S : S \subseteq Files => Copied(now, from, S) \in Contents
  BY <1>4 DEF Copied, Contents
<1>7. Copied(now, old, old.has) \in Contents BY <1>4 DEF Copied, Contents
<1>8. CASE CopyFails(s)
  <2>1. Writes(c, p, old) BY <1>8 DEF CopyFails, RestoresUnderLock, Writes
  <2>. QED BY <1>2, <1>4, <1>5, <2>1
<1>9. CASE UndoFiles(s) /\ job[s].copies
  <2>1. Writes(c, p, Empty) BY <1>9 DEF UndoFiles, Writes
  <2>. QED BY <1>2, <1>4, <1>5, <2>1
<1>10. CASE PutBack(s)
  <2>1. Writes(c, p, Copied(now, old, old.has)) BY <1>10 DEF PutBack, Writes
  <2>. QED BY <1>2, <1>5, <1>7, <2>1
<1>11. CASE RereadFails(s) /\ job[s].copies
  <2>1. Writes(c, p, old) BY <1>11 DEF RereadFails, Writes
  <2>. QED BY <1>2, <1>4, <1>5, <2>1
<1>12. ASSUME NEW f \in Files, CopyFile(s, f)
       PROVE  \E new \in Contents : Writes(c, p, new)
  <2>1. Writes(c, p, Copied(now, from, {f})) BY <1>12 DEF CopyFile, Writes
  <2>2. {f} \subseteq Files OBVIOUS
  <2>. QED BY <1>6, <2>1, <2>2
<1>13. \E new \in Contents : Writes(c, p, new)
  BY <1>2, <1>5, <1>8, <1>9, <1>10, <1>11, <1>12
<1>. QED BY <1>2, <1>5, <1>13

LEMMA CopyFailsKeeps ==
    ASSUME IInv, NEW s \in Sessions, CopyFails(s) PROVE IInv'
<1>1. Types /\ PlaceIs(s) /\ pc[s] = "copy" BY DEF IInv, CopyFails
<1>2. /\ Ends(s) /\ row' = row /\ exists' = exists
      /\ astray' = astray /\ minted' = minted /\ txn' = NoSession
  BY DEF CopyFails
<1>3. DiskOK' /\ PointersReferToFiles' BY TransferWrites, TargetMoves
<1>4. txn = s BY <1>1 DEF PlaceIs
<1>5. txn' # s BY <1>2, PlanningAssumption
<1>6. minted' \in Nat /\ astray' \subseteq Sessions BY <1>1, <1>2 DEF Types
<1>. QED BY <1>2, <1>3, <1>4, <1>5, <1>6, EndKeeps

LEMMA TransferRollsBackKeeps ==
    ASSUME IInv, NEW s \in Sessions, TransferRollsBack(s) PROVE IInv'
<1>. USE PlanningAssumption
<1>1. Types /\ PlaceIs(s) /\ PointerIs(s) /\ Spares(s) /\ pc[s] = "copy" /\ txn = s
  BY DEF IInv, TransferRollsBack, PlaceIs
<1>2. /\ txn' = NoSession /\ Goto(s, "undo")
      /\ UNCHANGED <<disk, exists, row, lease, job, minted, astray>>
  BY DEF TransferRollsBack, files
<1>3. /\ pc' \in [Sessions -> Places] /\ pc'[s] = "undo"
      /\ \A z \in Sessions \ {s} : pc'[z] = pc[z]
  BY <1>1, <1>2, PlaceMoves DEF Places
<1>4. Types' BY <1>1, <1>2, <1>3 DEF Types, DiskOK
<1>5. Alone(s) BY <1>1, <1>2, <1>3 DEF Alone
<1>6. Shuns(s) BY <1>2 DEF Shuns
<1>7. PlaceIs(s)'
  BY <1>1, <1>2, <1>3 DEF PlaceIs, Leased, Targeted, Delivering, Undoing
<1>8. PointerIs(s)' BY <1>1, <1>2 DEF PointerIs
<1>9. Target(s)' = Target(s) BY <1>2 DEF Target
<1>10. Spares(s)' BY <1>1, <1>2, <1>3, <1>9 DEF Spares, Undoing
<1>11. PointersReferToFiles' BY <1>2, PointersStay DEF Pair
<1>. QED BY <1>4, <1>5, <1>6, <1>7, <1>8, <1>10, <1>11, StepKeeps

LEMMA UndoFilesKeeps ==
    ASSUME IInv, NEW s \in Sessions, UndoFiles(s) PROVE IInv'
<1>. USE PlanningAssumption
<1>1. Types /\ PlaceIs(s) /\ PointerIs(s) /\ Spares(s) /\ pc[s] = "undo" /\ txn # s
  BY DEF IInv, UndoFiles, PlaceIs
<1>2. UNCHANGED <<exists, row, txn, minted, astray>> BY DEF UndoFiles
<1>3. CASE ~job[s].copies
  <2>1. Ends(s) /\ UNCHANGED files BY <1>2, <1>3 DEF UndoFiles, files
  <2>. QED BY <1>1, <1>2, <2>1, QuietEndKeeps
<1>4. CASE job[s].copies
  <2>1. Goto(s, "restore") /\ UNCHANGED <<lease, job>> BY <1>4 DEF UndoFiles
  <2>2. DiskOK' /\ PointersReferToFiles' BY <1>4, TransferWrites, TargetMoves
  <2>3. /\ pc' \in [Sessions -> Places] /\ pc'[s] = "restore"
        /\ \A z \in Sessions \ {s} : pc'[z] = pc[z]
    BY <1>1, <2>1, PlaceMoves DEF Places
  <2>4. Types' BY <1>1, <1>2, <2>1, <2>2, <2>3 DEF Types
  <2>5. Alone(s) BY <1>1, <1>2, <2>1, <2>3 DEF Alone
  <2>6. Shuns(s) BY <1>2 DEF Shuns
  <2>7. PlaceIs(s)'
    BY <1>1, <1>2, <1>4, <2>1, <2>3 DEF PlaceIs, Leased, Targeted, Delivering, Undoing
  <2>8. PointerIs(s)' BY <1>1, <1>2 DEF PointerIs
  <2>9. Target(s)' = Target(s) BY <2>1 DEF Target
  <2>10. Spares(s)' BY <1>1, <1>2, <2>1, <2>3, <2>9 DEF Spares, Undoing
  <2>. QED BY <2>2, <2>4, <2>5, <2>6, <2>7, <2>8, <2>10, StepKeeps
<1>. QED BY <1>3, <1>4

LEMMA PutBackKeeps ==
    ASSUME IInv, NEW s \in Sessions, PutBack(s) PROVE IInv'
<1>1. Types /\ PlaceIs(s) /\ pc[s] = "restore" BY DEF IInv, PutBack
<1>2. /\ Ends(s) /\ row' = row /\ exists' = exists
      /\ astray' = astray /\ minted' = minted /\ txn' = txn
  BY DEF PutBack
<1>3. DiskOK' /\ PointersReferToFiles' BY TransferWrites, TargetMoves
<1>4. txn' # s BY <1>1, <1>2 DEF PlaceIs
<1>5. minted' \in Nat /\ astray' \subseteq Sessions BY <1>1, <1>2 DEF Types
<1>6. txn' \in {txn, NoSession} BY <1>2
<1>. QED BY <1>2, <1>3, <1>4, <1>5, <1>6, EndKeeps

LEMMA RereadFailsKeeps ==
    ASSUME IInv, NEW s \in Sessions, RereadFails(s) PROVE IInv'
<1>1. Types /\ PlaceIs(s) /\ pc[s] = "reread" BY DEF IInv, RereadFails
<1>2. Ends(s) /\ UNCHANGED <<exists, row, txn, minted>> BY DEF RereadFails
<1>3. txn' # s /\ txn' \in {txn, NoSession} BY <1>1, <1>2 DEF PlaceIs
<1>4. CASE ~job[s].copies
  <2>1. UNCHANGED <<files, astray>> BY <1>2, <1>4 DEF RereadFails, files
  <2>. QED BY <1>2, <1>3, <2>1, QuietEndKeeps
<1>5. CASE job[s].copies
  <2>1. astray' = astray \cup {s} BY <1>5 DEF RereadFails
  <2>2. DiskOK' /\ PointersReferToFiles' BY <1>5, TransferWrites, TargetMoves
  <2>3. minted' \in Nat /\ astray' \subseteq Sessions /\ astray \subseteq astray'
    BY <1>1, <1>2, <2>1 DEF Types
  <2>. QED BY <1>2, <1>3, <2>2, <2>3, EndKeeps
<1>. QED BY <1>4, <1>5

LEMMA MergeFollowupKeeps ==
    ASSUME IInv, NEW s \in Sessions, MergeFollowup(s) PROVE IInv'
<1>1. Types /\ PlaceIs(s) /\ pc[s] = "review" BY DEF IInv, MergeFollowup
<1>. DEFINE c == job[s].repo
            t == job[s].to
            merged == [p \in Packages |-> Join(disk[c][p], disk[t][p])]
<1>2. c \in exists /\ t \in exists /\ c \in Checkouts /\ t \in Checkouts
  BY <1>1 DEF PlaceIs, Targeted, Types, DiskOK
<1>3. /\ Ends(s) /\ UNCHANGED <<exists, row, txn, minted, astray>>
      /\ disk' = [disk EXCEPT ![c] = merged]
  BY DEF MergeFollowup
<1>4. merged \in [Packages -> Contents]
  BY <1>1, <1>2 DEF Types, DiskOK, Join, Contents
<1>5. \A p \in Packages : disk[c][p].has \subseteq merged[p].has
  BY <1>1, <1>2 DEF Types, DiskOK, Join, Contents
<1>. HIDE DEF merged
<1>6. /\ disk' \in [Checkouts -> [Packages -> Contents]] /\ disk'[c] = merged
      /\ \A d \in Checkouts \ {c} : disk'[d] = disk[d]
  BY <1>1, <1>2, <1>3, <1>4 DEF Types, DiskOK
<1>7. DiskOK' BY <1>1, <1>2, <1>3, <1>6 DEF Types, DiskOK
<1>8. PointersReferToFiles' BY <1>3, <1>5, <1>6, PointersStay DEF Pair
<1>9. txn' # s /\ minted' \in Nat /\ astray' \subseteq Sessions
  BY <1>1, <1>3 DEF PlaceIs, Types
<1>10. txn' \in {txn, NoSession} BY <1>3
<1>. QED BY <1>3, <1>7, <1>8, <1>9, <1>10, EndKeeps

LEMMA StartDeliveryKeeps ==
    ASSUME IInv, NEW s \in Sessions, StartDelivery(s) PROVE IInv'
<1>. USE PlanningAssumption
<1>. DEFINE old == job[s]
            todo == Pending(old.repo, old.package)
<1>1. Types /\ PlaceIs(s) /\ pc[s] \in {"handoff", "rerun"} /\ txn # s
  BY DEF IInv, StartDelivery, PlaceIs
<1>2. UNCHANGED <<row, txn, minted, astray>>
  BY DEF StartDelivery
<1>3. CASE Ends(s) /\ UNCHANGED files
  BY <1>1, <1>2, <1>3, QuietEndKeeps
<1>4. ASSUME NEW c \in {old.repo, "tree"}, CheckOut(old.repo, c), pc[s] = "rerun" => c = old.to,
             job' = [job EXCEPT ![s].selected = todo, ![s].to = c,
                                ![s].blocked = FALSE],
             Goto(s, "transfer"), UNCHANGED lease
      PROVE  IInv'
  <2>1. /\ old.repo \in exists /\ old.repo \in Checkouts
        /\ old.package \in Packages /\ c \in Checkouts
    BY <1>1, <1>4 DEF PlaceIs, Delivering, Targeted, Types, DiskOK, Checkouts
  <2>2. /\ DiskOK' /\ KeepsPairs /\ exists \subseteq exists' /\ c \in exists'
    BY <1>1, <1>4, <2>1, CheckOutKeeps
  <2>3. todo \subseteq Issues BY DEF Pending, Listed
  <2>. HIDE DEF todo
  <2>. DEFINE j == [old EXCEPT !.selected = todo, !.to = c, !.blocked = FALSE]
  <2>4. /\ j \in Jobs /\ j.repo = old.repo /\ j.to = c /\ j.package = old.package
        /\ j.restored = old.restored /\ j.started = old.started /\ j.thread = old.thread
    <3>1. old \in Jobs BY <1>1 DEF Types
    <3>2. j \in Jobs BY <2>1, <2>3, <3>1 DEF Jobs
    <3>. QED BY <3>1, <3>2 DEF Jobs
  <2>5. job' = [job EXCEPT ![s] = j] BY <1>1, <1>4 DEF Types
  <2>. HIDE DEF j
  <2>6. /\ job' \in [Sessions -> Jobs] /\ job'[s] = j
        /\ \A z \in Sessions \ {s} : job'[z] = job[z]
    BY <1>1, <2>4, <2>5, JobMoves
  <2>7. /\ pc' \in [Sessions -> Places] /\ pc'[s] = "transfer"
        /\ \A z \in Sessions \ {s} : pc'[z] = pc[z]
    BY <1>1, <1>4, PlaceMoves DEF Places
  <2>8. PlaceIs(s)'
    BY <1>1, <1>2, <1>4, <2>1, <2>2, <2>4, <2>6, <2>7 DEF PlaceIs, Leased
  <2>9. Spares(s)' BY <2>7 DEF Spares
  <2>10. minted' \in Nat /\ row' \in [Sessions -> Rows] BY <1>1, <1>2 DEF Types
  <2>. QED BY <1>2, <1>4, <2>2, <2>6, <2>7, <2>8, <2>9, <2>10, WorkKeeps
<1>. QED BY <1>3, <1>4 DEF StartDelivery

LEMMA BeginTransferKeeps ==
    ASSUME IInv, NEW s \in Sessions, BeginTransfer(s) PROVE IInv'
<1>. USE PlanningAssumption
<1>. DEFINE old == job[s]
            c == old.to
            p == old.package
<1>1. Types /\ PlaceIs(s) /\ PointerIs(s) /\ pc[s] = "transfer" /\ txn = NoSession
  BY DEF IInv, BeginTransfer, Locked
<1>2. /\ UNCHANGED <<files, row, minted, astray>>
      /\ c \in exists /\ c \in Checkouts /\ p \in Packages
      /\ old.repo \in exists /\ old.repo \in Checkouts
  BY <1>1 DEF BeginTransfer, PlaceIs, Targeted, Delivering, Types, DiskOK
<1>3. CASE Conflict(s, c)
  <2>1. Ends(s) /\ UNCHANGED txn BY <1>3 DEF BeginTransfer
  <2>2. txn' # s /\ txn' \in {txn, NoSession} BY <1>1, <2>1
  <2>. QED BY <1>2, <2>1, <2>2, QuietEndKeeps
<1>4. CASE ~Conflict(s, c)
  <2>. DEFINE copies == ~Prepared(old)
              todo == IF Prepared(old) THEN {} ELSE disk[old.repo][p].has
              backup == disk[c][p]
              j == [old EXCEPT !.backup = backup, !.copies = copies, !.todo = todo]
  <2>1. /\ txn' = s /\ lease' = lease
        /\ job' = [job EXCEPT ![s].backup = backup, ![s].copies = copies,
                              ![s].todo = todo]
        /\ Goto(s, "copy")
    BY <1>4 DEF BeginTransfer
  <2>2. backup \in Contents /\ todo \in SUBSET Files /\ copies \in BOOLEAN
    BY <1>1, <1>2 DEF Types, DiskOK, Contents, Prepared
  <2>3. (copies => ~Pair(c, p)) /\ (todo # {} => copies) BY DEF Prepared
  <2>. HIDE DEF copies, todo, backup
  <2>4. /\ j \in Jobs /\ j.repo = old.repo /\ j.to = c /\ j.package = p
        /\ j.restored = old.restored /\ j.started = old.started /\ j.thread = old.thread
        /\ j.backup = backup /\ j.copies = copies /\ j.todo = todo
    <3>1. old \in Jobs BY <1>1 DEF Types
    <3>2. j \in Jobs BY <2>2, <3>1 DEF Jobs
    <3>. QED BY <3>1, <3>2 DEF Jobs
  <2>5. job' = [job EXCEPT ![s] = j] BY <1>1, <2>1 DEF Types
  <2>. HIDE DEF j
  <2>6. /\ job' \in [Sessions -> Jobs] /\ job'[s] = j
        /\ \A z \in Sessions \ {s} : job'[z] = job[z]
    BY <1>1, <2>4, <2>5, JobMoves
  <2>7. /\ pc' \in [Sessions -> Places] /\ pc'[s] = "copy"
        /\ \A z \in Sessions \ {s} : pc'[z] = pc[z]
    BY <1>1, <2>1, PlaceMoves DEF Places
  <2>8. lease[c] \in {NoSession, s} BY <1>4 DEF Conflict
  <2>10. Types'
    BY <1>1, <1>2, <2>1, <2>6, <2>7, FilesStay DEF Types
  <2>11. Alone(s) BY <1>1, <1>2, <2>1, <2>6, <2>7 DEF Alone, files
  <2>12. Shuns(s) BY <1>2, <2>1 DEF Shuns
  <2>13. PlaceIs(s)'
    BY <1>1, <1>2, <2>1, <2>3, <2>4, <2>6, <2>7, <2>8
    DEF PlaceIs, Leased, files
  <2>14. PointerIs(s)' BY <1>1, <1>2 DEF PointerIs
  <2>15. Spares(s)'
    <3>1. ASSUME copies, NEW z \in Sessions \ astray, row[z].pointer = Target(s)
          PROVE  FALSE
      <4>1. row[z].pointer.at = c /\ row[z].pointer.package = p
        BY <3>1 DEF Target
      <4>2. row[z].pointer # NoPointer
        BY <1>2, <4>1 DEF NoPointer
      <4>. QED BY <2>3, <3>1, <4>1, <4>2 DEF IInv, PointersReferToFiles
    <3>2. Target(s)' = Target(s) BY <2>4, <2>6 DEF Target
    <3>. QED BY <1>2, <2>4, <2>6, <3>1, <3>2 DEF Spares
  <2>16. PointersReferToFiles' BY <1>2, <2>1, PointersStay DEF Pair, files
  <2>. QED BY <2>10, <2>11, <2>12, <2>13, <2>14, <2>15, <2>16, StepKeeps
<1>. QED BY <1>3, <1>4

LEMMA CommitTransferKeeps ==
    ASSUME IInv, NEW s \in Sessions, CommitTransfer(s) PROVE IInv'
<1>. USE PlanningAssumption
<1>. DEFINE c == job[s].to
            p == job[s].package
            r == BoundRow(s)
<1>1. Types /\ PlaceIs(s) /\ Spares(s) /\ pc[s] = "copy" /\ txn = s /\ Pair(c, p)
  BY DEF IInv, CommitTransfer, PlaceIs
<1>2. c \in exists /\ c \in Checkouts /\ p \in Packages /\ lease[c] \in {NoSession, s}
  BY <1>1 DEF PlaceIs, Targeted, Delivering, Types, DiskOK
<1>3. /\ txn' = NoSession /\ lease' = Moved(s, c) /\ row' = [row EXCEPT ![s] = r]
      /\ Goto(s, "reread") /\ UNCHANGED <<disk, exists, job, minted>>
  BY DEF CommitTransfer, files
<1>astray. /\ astray' = IF Threatened(s, Target(s)) THEN astray \cup {s} ELSE astray \ {s}
      /\ astray' \subseteq Sessions /\ astray \subseteq astray' \cup {s}
  BY <1>1 DEF CommitTransfer, Binds, Types
<1>4. r \in Rows /\ r.pointer = Target(s) /\ r.thread = row[s].thread
  <2>1. row[s] \in Rows BY <1>1 DEF Types
  <2>2. c \in Checkouts \cup {"none"} /\ p \in Named BY <1>2 DEF Named
  <2>. QED BY <1>2, <2>1, <2>2 DEF BoundRow, Rows, Target
<1>. HIDE DEF r
<1>5. /\ row' \in [Sessions -> Rows] /\ row'[s] = r
      /\ \A z \in Sessions \ {s} : row'[z] = row[z]
  BY <1>1, <1>3, <1>4 DEF Types
<1>6. /\ pc' \in [Sessions -> Places] /\ pc'[s] = "reread"
      /\ \A z \in Sessions \ {s} : pc'[z] = pc[z]
  BY <1>1, <1>3, PlaceMoves DEF Places
<1>7. /\ lease' \in [Checkouts -> Sessions \cup {NoSession}] /\ lease'[c] = s
      /\ \A d \in Checkouts, z \in Sessions \ {s} : lease'[d] = z <=> lease[d] = z
  BY <1>1, <1>2, <1>3 DEF Types, Moved, Freed
<1>8. Target(s).at = c /\ Target(s).package = p /\ Target(s)' = Target(s)
  BY <1>3 DEF Target
<1>9. Types' BY <1>1, <1>3, <1>5, <1>6, <1>7, <1>astray DEF Types, DiskOK
<1>10. Alone(s) BY <1>1, <1>3, <1>5, <1>6, <1>7 DEF Alone
<1>11. Shuns(s)
  <2>1. ASSUME NEW z \in Sessions \ {s}, pc[z] \in {"copy", "reread"}
        PROVE  c # job[z].to
    <3>1. PlaceIs(z) BY DEF IInv
    <3>. QED BY <1>1, <1>2, <2>1, <3>1 DEF PlaceIs
  <2>2. row'[s].pointer = Target(s) BY <1>4, <1>5
  <2>3. ASSUME NEW z \in Sessions \ {s}, pc[z] \in Undoing, job[z].copies,
               Target(s) = Target(z)
        PROVE  s \in astray'
    <3>1. Threatened(s, Target(s)) BY <2>3 DEF Threatened, Undoing
    <3>. QED BY <3>1, <1>astray
  <2>. QED BY <1>8, <1>astray, <2>1, <2>2, <2>3 DEF Shuns
<1>12. PlaceIs(s)'
  BY <1>1, <1>2, <1>3, <1>4, <1>5, <1>6, <1>7
  DEF PlaceIs, Leased, Targeted, Delivering
<1>13. PointerIs(s)' BY <1>2, <1>4, <1>5, <1>8 DEF PointerIs
<1>14. Spares(s)'
  <2>1. ASSUME job[s].copies, NEW z \in Sessions \ astray', row'[z].pointer = Target(s)
        PROVE  z = s
    <3>1. CASE z # s BY <1>1, <1>5, <1>astray, <2>1, <3>1 DEF Spares
    <3>. QED BY <3>1
  <2>. QED BY <1>3, <1>6, <1>8, <2>1 DEF Spares
<1>15. PointersReferToFiles'
  <2>1. PointersReferToFiles BY DEF IInv
  <2>2. ASSUME NEW z \in Sessions, z \notin astray', row'[z].pointer # NoPointer
        PROVE  Pair(row'[z].pointer.at, row'[z].pointer.package)
    <3>1. CASE z = s BY <1>1, <1>4, <1>5, <1>8, <3>1
    <3>2. CASE z # s BY <1>5, <1>astray, <2>1, <2>2, <3>2 DEF PointersReferToFiles
    <3>. QED BY <3>1, <3>2
  <2>. QED BY <1>3, <2>2 DEF PointersReferToFiles, Pair
<1>. QED BY <1>9, <1>10, <1>11, <1>12, <1>13, <1>14, <1>15, StepKeeps

(* Files are added to a package, or issues finished in it.                 *)
LEMMA FilesGrow ==
    ASSUME Types, NEW c \in exists, NEW p \in Packages, NEW new \in Contents,
           Writes(c, p, new), exists' = exists, disk[c][p].has \subseteq new.has
    PROVE  DiskOK' /\ KeepsPairs
<1>1. /\ DiskOK' /\ disk'[c][p] = new
      /\ \A d \in Checkouts, q \in Packages :
            d # c \/ q # p => disk'[d][q] = disk[d][q]
  BY FilesMove
<1>2. ASSUME NEW d \in Checkouts, NEW q \in Packages, Pair(d, q) PROVE Pair(d, q)'
  <2>1. CASE d # c \/ q # p BY <1>1, <1>2, <2>1 DEF Pair
  <2>2. CASE d = c /\ q = p BY <1>1, <1>2, <2>2 DEF Pair
  <2>. QED BY <2>1, <2>2
<1>. QED BY <1>1, <1>2 DEF KeepsPairs

(* A delivering session moves on, whatever it selected or copied.          *)
LEMMA DeliveryKeeps ==
    ASSUME IInv, NEW s \in Sessions, pc[s] \in {"copy", "run", "review", "reread"},
           NEW l \in {"copy", "run", "review", "rerun"}, (l = "copy") <=> (pc[s] = "copy"),
           NEW j \in Jobs, job' = [job EXCEPT ![s] = j],
           j.repo = job[s].repo, j.to = job[s].to, j.package = job[s].package,
           j.restored = job[s].restored, j.started = job[s].started,
           j.thread = job[s].thread,
           l = "copy" => j.todo \subseteq job[s].todo /\ j.copies = job[s].copies,
           Goto(s, l) \/ (l = pc[s] /\ pc' = pc),
           DiskOK', KeepsPairs, UNCHANGED <<exists, row, lease, txn, minted, astray>>
    PROVE  IInv'
<1>1. Types /\ PlaceIs(s) /\ Spares(s) BY DEF IInv
<1>2. l \in Places BY DEF Places
<1>3. /\ pc' \in [Sessions -> Places] /\ pc'[s] = l
      /\ \A z \in Sessions \ {s} : pc'[z] = pc[z]
  <2>1. CASE Goto(s, l) BY <1>1, <1>2, <2>1, PlaceMoves
  <2>2. CASE l = pc[s] /\ pc' = pc BY <1>1, <2>2 DEF Types
  <2>. QED BY <2>1, <2>2
<1>4. /\ job' \in [Sessions -> Jobs] /\ job'[s] = j
      /\ \A z \in Sessions \ {s} : job'[z] = job[z]
  BY <1>1, JobMoves
<1>5. PlaceIs(s)'
  BY <1>1, <1>3, <1>4 DEF PlaceIs, Leased, Targeted, Delivering
<1>6. Target(s)' = Target(s) BY <1>4 DEF Target
<1>7. Spares(s)' BY <1>1, <1>3, <1>4, <1>6 DEF Spares, Undoing
<1>8. minted' \in Nat /\ row' \in [Sessions -> Rows] BY <1>1 DEF Types
<1>9. exists \subseteq exists' OBVIOUS
<1>. QED BY <1>3, <1>4, <1>5, <1>7, <1>8, <1>9, WorkKeeps

LEMMA CopyFileKeeps ==
    ASSUME IInv, NEW s \in Sessions, NEW f \in Files, CopyFile(s, f) PROVE IInv'
<1>. DEFINE old == job[s]
            c == old.to
            p == old.package
            new == Copied(disk[c][p], disk[old.repo][p], {f})
            j == [old EXCEPT !.todo = @ \ {f}]
<1>1. Types /\ PlaceIs(s) /\ pc[s] = "copy" BY DEF IInv, CopyFile
<1>2. c \in exists /\ p \in Packages /\ old.repo \in exists
  BY <1>1 DEF PlaceIs, Targeted, Delivering
<1>3. UNCHANGED <<exists, row, lease, txn, pc, minted, astray>>
  BY DEF CopyFile
<1>4. Writes(c, p, new) BY DEF CopyFile, Writes
<1>5. new \in Contents /\ disk[c][p].has \subseteq new.has
  <2>1. disk[c][p] \in Contents /\ disk[old.repo][p] \in Contents
    BY <1>1, <1>2 DEF Types, DiskOK
  <2>. QED BY <2>1 DEF Copied, Contents
<1>6. DiskOK' /\ KeepsPairs BY <1>1, <1>2, <1>3, <1>4, <1>5, FilesGrow
<1>7. job' = [job EXCEPT ![s] = j] BY DEF CopyFile
<1>8. old \in Jobs BY <1>1 DEF Types
<1>9. j \in Jobs BY <1>8 DEF Jobs
<1>10. /\ j.repo = old.repo /\ j.to = c /\ j.package = p /\ j.restored = old.restored
       /\ j.started = old.started /\ j.thread = old.thread
       /\ j.todo \subseteq old.todo /\ j.copies = old.copies
  BY <1>8 DEF Jobs
<1>. HIDE DEF j
<1>. QED BY <1>1, <1>3, <1>6, <1>7, <1>9, <1>10, DeliveryKeeps

LEMMA RereadKeeps ==
    ASSUME IInv, NEW s \in Sessions, Reread(s) PROVE IInv'
<1>. DEFINE old == job[s]
            left == old.selected \ disk[old.to][old.package].done
            j == [old EXCEPT !.selected = left, !.backup = Empty, !.copies = FALSE]
<1>1. Types /\ PlaceIs(s) /\ pc[s] = "reread" BY DEF IInv, Reread
<1>2. UNCHANGED <<files, row, txn, minted, astray>> BY DEF Reread
<1>3. CASE Ends(s)
  <2>1. txn' = txn /\ txn' # s BY <1>1, <1>2 DEF PlaceIs
  <2>2. txn' \in {txn, NoSession} BY <2>1
  <2>. QED BY <1>2, <1>3, <2>1, <2>2, QuietEndKeeps
<1>4. CASE /\ job' = [job EXCEPT ![s] = [@ EXCEPT !.selected = left, !.backup = Empty,
                                                 !.copies = FALSE]]
           /\ Goto(s, "run") /\ UNCHANGED lease
  <2>1. job' = [job EXCEPT ![s] = j] BY <1>4
  <2>2. old \in Jobs /\ left \in SUBSET Issues BY <1>1 DEF Types, Jobs
  <2>. HIDE DEF left
  <2>3. j \in Jobs BY <2>2, EmptyIsTyped DEF Jobs
  <2>4. /\ j.repo = old.repo /\ j.to = old.to /\ j.package = old.package
        /\ j.restored = old.restored /\ j.started = old.started /\ j.thread = old.thread
    BY <2>2 DEF Jobs
  <2>. HIDE DEF j
  <2>5. DiskOK' /\ KeepsPairs BY <1>1, <1>2, FilesStay
  <2>6. UNCHANGED <<exists, row, lease, txn, minted, astray>>
    BY <1>2, <1>4 DEF files
  <2>. QED BY <1>1, <1>4, <2>1, <2>3, <2>4, <2>5, <2>6, DeliveryKeeps
<1>. QED BY <1>3, <1>4 DEF Reread

LEMMA CompleteIssueKeeps ==
    ASSUME IInv, NEW s \in Sessions, NEW i \in Issues, CompleteIssue(s, i) PROVE IInv'
<1>. DEFINE old == job[s]
            c == old.to
            p == old.package
            new == [disk[c][p] EXCEPT !.done = @ \cup {i}]
            j == [old EXCEPT !.selected = @ \ {i}]
<1>1. Types /\ PlaceIs(s) /\ pc[s] = "run" BY DEF IInv, CompleteIssue
<1>2. c \in exists /\ p \in Packages BY <1>1 DEF PlaceIs, Targeted, Delivering
<1>3. UNCHANGED <<exists, row, lease, txn, pc, minted, astray>>
  BY DEF CompleteIssue
<1>4. Writes(c, p, new) BY DEF CompleteIssue, Writes
<1>5. new \in Contents /\ disk[c][p].has \subseteq new.has
  <2>1. disk[c][p] \in Contents BY <1>1, <1>2 DEF Types, DiskOK
  <2>. QED BY <2>1 DEF Contents
<1>6. DiskOK' /\ KeepsPairs BY <1>1, <1>2, <1>3, <1>4, <1>5, FilesGrow
<1>7. job' = [job EXCEPT ![s] = j] BY DEF CompleteIssue
<1>8. old \in Jobs BY <1>1 DEF Types
<1>9. j \in Jobs BY <1>8 DEF Jobs
<1>10. /\ j.repo = old.repo /\ j.to = c /\ j.package = p /\ j.restored = old.restored
       /\ j.started = old.started /\ j.thread = old.thread
  BY <1>8 DEF Jobs
<1>. HIDE DEF j
<1>. QED BY <1>1, <1>3, <1>6, <1>7, <1>9, <1>10, DeliveryKeeps

LEMMA IssueFailsKeeps ==
    ASSUME IInv, NEW s \in Sessions, NEW i \in Issues, IssueFails(s, i) PROVE IInv'
<1>. DEFINE old == job[s]
            j == [old EXCEPT !.selected = @ \ {i}, !.blocked = TRUE]
<1>1. Types /\ pc[s] = "run" BY DEF IInv, IssueFails
<1>2. UNCHANGED <<files, row, lease, txn, pc, minted, astray>>
  BY DEF IssueFails
<1>3. old \in Jobs BY <1>1 DEF Types
<1>4. job' = [job EXCEPT ![s] = j] BY <1>1, <1>3 DEF IssueFails, Types, Jobs
<1>5. j \in Jobs BY <1>3 DEF Jobs
<1>6. /\ j.repo = old.repo /\ j.to = old.to /\ j.package = old.package
      /\ j.restored = old.restored /\ j.started = old.started /\ j.thread = old.thread
  BY <1>3 DEF Jobs
<1>. HIDE DEF j
<1>7. DiskOK' /\ KeepsPairs BY <1>1, <1>2, FilesStay
<1>. QED BY <1>1, <1>2, <1>4, <1>5, <1>6, <1>7, DeliveryKeeps DEF files

LEMMA FinishRunKeeps ==
    ASSUME IInv, NEW s \in Sessions, FinishRun(s) PROVE IInv'
<1>1. Types /\ pc[s] = "run" /\ Goto(s, "review") BY DEF IInv, FinishRun
<1>2. UNCHANGED <<files, row, lease, txn, job, minted, astray>>
  BY DEF FinishRun
<1>3. job[s] \in Jobs /\ job' = [job EXCEPT ![s] = job[s]] BY <1>1, <1>2 DEF Types
<1>4. DiskOK' /\ KeepsPairs BY <1>1, <1>2, FilesStay
<1>. QED BY <1>1, <1>2, <1>3, <1>4, DeliveryKeeps DEF files

LEMMA RerunKeeps ==
    ASSUME IInv, NEW s \in Sessions, Rerun(s) PROVE IInv'
<1>1. Types /\ pc[s] = "review" /\ Goto(s, "rerun") BY DEF IInv, Rerun
<1>2. UNCHANGED <<files, row, lease, txn, job, minted, astray>>
  BY DEF Rerun
<1>3. job[s] \in Jobs /\ job' = [job EXCEPT ![s] = job[s]] BY <1>1, <1>2 DEF Types
<1>4. DiskOK' /\ KeepsPairs BY <1>1, <1>2, FilesStay
<1>. QED BY <1>1, <1>2, <1>3, <1>4, DeliveryKeeps DEF files

-----------------------------------------------------------------------------
(* Every step of the specification.                                        *)

Works(s) ==
    \/ \E c \in Checkouts : Launch(s, c)
    \/ Republish(s) \/ ResumeUnfinished(s) \/ BranchStrategy(s)
    \/ BindPlanning(s) \/ Preflight(s) \/ Turn(s) \/ Probe(s)
    \/ DoneByHand(s) \/ Quit(s) \/ StartDelivery(s) \/ BeginTransfer(s)
    \/ \E f \in Files : CopyFile(s, f)
    \/ CopyFails(s) \/ TransferRollsBack(s) \/ UndoFiles(s) \/ PutBack(s)
    \/ CommitTransfer(s) \/ Reread(s) \/ RereadFails(s)
    \/ \E i \in Issues : CompleteIssue(s, i) \/ IssueFails(s, i)
    \/ FinishRun(s) \/ Rerun(s) \/ MergeFollowup(s) \/ Crash(s)

LEMMA NextIsWork == Next <=> \E s \in Sessions : Works(s)
BY DEF Next, Works

LEMMA WorksKeep ==
    ASSUME IInv, NEW s \in Sessions, Works(s) PROVE IInv'
BY LaunchKeeps, RepublishKeeps, ResumeUnfinishedKeeps, BranchStrategyKeeps,
   BindPlanningKeeps, PreflightKeeps, TurnKeeps, ProbeKeeps, DoneByHandKeeps,
   QuitKeeps, StartDeliveryKeeps, BeginTransferKeeps, CopyFileKeeps,
   CopyFailsKeeps, TransferRollsBackKeeps, UndoFilesKeeps, PutBackKeeps,
   CommitTransferKeeps, RereadKeeps, RereadFailsKeeps,
   CompleteIssueKeeps, IssueFailsKeeps, FinishRunKeeps, RerunKeeps,
   MergeFollowupKeeps, CrashKeeps
DEF Works

LEMMA NextHolds == IInv /\ [Next]_vars => IInv'
<1>. SUFFICES ASSUME IInv, [Next]_vars PROVE IInv' OBVIOUS
<1>1. CASE Next BY <1>1, NextIsWork, WorksKeep
<1>2. CASE UNCHANGED vars
  <2>1. UNCHANGED <<disk, exists, row, lease, txn, pc, job, minted, astray>>
    BY <1>2 DEF vars
  <2>2. Types' BY <2>1 DEF IInv, Types, DiskOK
  <2>3. PointersReferToFiles' BY <2>1 DEF IInv, PointersReferToFiles, Pair
  <2>4. ASSUME NEW s \in Sessions PROVE PlaceIs(s)' /\ PointerIs(s)' /\ Spares(s)'
    BY <2>1 DEF IInv, PlaceIs, PointerIs, Spares, Target, Undoing
  <2>. QED BY <2>2, <2>3, <2>4 DEF IInv
<1>. QED BY <1>1, <1>2

LEMMA Invariance == Spec => []IInv
<1>. QED BY InitHolds, NextHolds, PTL DEF Spec

(* A saved pointer refers to a PRD and an index that are in the checkout,  *)
(* whatever transfer fails or is interrupted.                              *)
THEOREM PointersAlwaysReferToFiles == Spec => []PointersReferToFiles
<1>1. IInv => PointersReferToFiles BY DEF IInv
<1>. QED BY <1>1, Invariance, PTL

-----------------------------------------------------------------------------
(* What a step does to the row of its session, and to nobody else's.       *)

KeepsThread(s) ==
    \/ row' = row
    \/ /\ \A z \in Sessions \ {s} : row'[z] = row[z]
       /\ \/ row'[s].thread = row[s].thread
          \/ row'[s].thread = NoThread /\ row'[s].pointer # NoPointer

LEMMA PublishesThread ==
    ASSUME Types, NEW s \in Sessions, NEW p \in Packages, Publishes(s, p)
    PROVE  KeepsThread(s)
<1>1. row[s] \in Rows /\ row \in [Sessions -> Rows] BY DEF Types
<1>2. row' = [row EXCEPT ![s] =
                [@ EXCEPT !.pointer = [at |-> job[s].repo, package |-> p],
                          !.thread = NoThread, !.settings = FALSE]]
  BY DEF Publishes
<1>3. p # "none" BY PlanningAssumption
<1>. QED BY <1>1, <1>2, <1>3 DEF KeepsThread, Rows, NoPointer

LEMMA ThreadsAreKept ==
    ASSUME IInv, NEW s \in Sessions, Works(s), job[s].restored
    PROVE  KeepsThread(s)
<1>1. Types /\ PlaceIs(s) /\ row \in [Sessions -> Rows] /\ row[s] \in Rows
  BY DEF IInv, Types
<1>3. ASSUME NEW c \in Checkouts, Launch(s, c) PROVE KeepsThread(s)
  BY <1>1, <1>3 DEF Launch, KeepsThread, Rows
<1>4. CASE Republish(s)
  <2>1. job[s].package \in Packages
    BY <1>1, <1>4 DEF PlaceIs, Republish, Delivering
  <2>. QED BY <1>1, <1>4, <2>1, PublishesThread DEF Republish, KeepsThread
<1>5. CASE ResumeUnfinished(s) \/ DoneByHand(s)
  BY <1>1, <1>5, PublishesThread DEF ResumeUnfinished, DoneByHand, Candidates
<1>6. CASE Probe(s)
  BY <1>1, <1>6, PublishesThread DEF Probe, Offered, KeepsThread
<1>7. CASE BindPlanning(s) BY <1>1, <1>7 DEF BindPlanning, KeepsThread, Rows
<1>8. CASE Preflight(s) BY <1>1, <1>8 DEF Preflight, KeepsThread, Rows
<1>9. CASE Turn(s)
  <2>1. job[s] \in Jobs /\ minted \in Nat BY <1>1 DEF Types
  <2>2. CASE row' = row BY <2>2 DEF KeepsThread
  <2>3. ASSUME NEW t \in Parsed(job[s]),
               row' = [row EXCEPT ![s].thread = IF t = NoThread THEN @ ELSE t]
        PROVE  KeepsThread(s)
    <3>1. t = job[s].thread /\ job[s].thread = row[s].thread
      BY <1>1, <2>1, ParsedIs DEF PlaceIs
    <3>. QED BY <1>1, <2>3, <3>1 DEF KeepsThread, Rows
  <2>. QED BY <1>9, <2>2, <2>3 DEF Turn, Heard
<1>10. CASE CommitTransfer(s)
  BY <1>1, <1>10 DEF CommitTransfer, BoundRow, KeepsThread, Rows
<1>11. CASE BeginTransfer(s)
  BY <1>11 DEF BeginTransfer, KeepsThread
<1>12. CASE \/ BranchStrategy(s) \/ Quit(s) \/ StartDelivery(s)
            \/ \E f \in Files : CopyFile(s, f)
            \/ CopyFails(s) \/ TransferRollsBack(s) \/ UndoFiles(s) \/ PutBack(s)
            \/ Reread(s) \/ RereadFails(s)
            \/ \E i \in Issues : CompleteIssue(s, i) \/ IssueFails(s, i)
            \/ FinishRun(s) \/ Rerun(s) \/ MergeFollowup(s) \/ Crash(s)
  BY <1>12 DEF BranchStrategy, Quit, StartDelivery, CopyFile, CopyFails,
     TransferRollsBack, UndoFiles, PutBack, Reread, RereadFails, CompleteIssue,
     IssueFails, FinishRun, Rerun, MergeFollowup, Crash,
     KeepsThread
<1>. QED BY <1>3, <1>4, <1>5, <1>6, <1>7, <1>8, <1>9, <1>10, <1>11, <1>12 DEF Works

(* The other sessions are where they were, with what they had.             *)
LEMMA OthersWait ==
    ASSUME IInv, NEW s \in Sessions, Works(s), NEW z \in Sessions \ {s}
    PROVE  pc'[z] = pc[z] /\ job'[z] = job[z] /\ row'[z] = row[z]
<1>1. pc \in [Sessions -> Places] /\ job \in [Sessions -> Jobs]
      /\ row \in [Sessions -> Rows]
  BY DEF IInv, Types
<1>2. ASSUME NEW l, Goto(s, l) PROVE pc'[z] = pc[z] BY <1>1, <1>2 DEF Goto
<1>3. ASSUME Ends(s) PROVE pc'[z] = pc[z] /\ job'[z] = job[z]
  BY <1>1, <1>2, <1>3 DEF Ends
<1>4. ASSUME NEW p \in Packages, Publishes(s, p)
      PROVE  pc'[z] = pc[z] /\ job'[z] = job[z] /\ row'[z] = row[z]
  BY <1>1, <1>2, <1>4 DEF Publishes
<1>5. CASE \/ \E c \in Checkouts : Launch(s, c)
           \/ BranchStrategy(s) \/ Preflight(s) \/ CommitTransfer(s)
           \/ \E f \in Files : CopyFile(s, f)
           \/ \E i \in Issues : CompleteIssue(s, i) \/ IssueFails(s, i)
           \/ FinishRun(s) \/ Rerun(s) \/ TransferRollsBack(s)
  BY <1>1, <1>2, <1>5 DEF Launch, TransferRollsBack, BranchStrategy, Preflight,
     CommitTransfer, CopyFile,
     CompleteIssue, IssueFails, FinishRun, Rerun
<1>6. CASE Turn(s) BY <1>1, <1>2, <1>6 DEF Turn, Heard
<1>7. CASE Quit(s) \/ CopyFails(s) \/ PutBack(s) \/ RereadFails(s) \/ MergeFollowup(s)
           \/ Crash(s)
  BY <1>3, <1>7 DEF Quit, CopyFails, PutBack, RereadFails, MergeFollowup, Crash
<1>undo. CASE UndoFiles(s) BY <1>1, <1>2, <1>3, <1>undo DEF UndoFiles
<1>8. CASE BindPlanning(s) BY <1>1, <1>2, <1>3, <1>8 DEF BindPlanning
<1>9. CASE StartDelivery(s) BY <1>1, <1>2, <1>3, <1>9 DEF StartDelivery
<1>10. CASE BeginTransfer(s) BY <1>1, <1>2, <1>3, <1>10 DEF BeginTransfer
<1>11. CASE Reread(s) BY <1>1, <1>2, <1>3, <1>11 DEF Reread
<1>12. CASE ResumeUnfinished(s) \/ DoneByHand(s)
  BY <1>4, <1>12 DEF ResumeUnfinished, DoneByHand, Candidates
<1>13. CASE Probe(s) BY <1>2, <1>4, <1>13 DEF Probe, Offered
<1>14. CASE Republish(s)
  <2>1. job[s].package \in Packages
    BY <1>14 DEF IInv, PlaceIs, Republish, Delivering
  <2>. QED BY <1>3, <1>4, <1>14, <2>1 DEF Republish
<1>. QED BY <1>5, <1>6, <1>7, <1>8, <1>9, <1>10, <1>11, <1>12, <1>13, <1>14, <1>undo DEF Works

(* The conversation the user resumed stays the one in the catalog, through *)
(* failed turns, retries and crashes, until its package is published.      *)
THEOREM RestoredThreadIsAlwaysKept == Spec => RestoredThreadIsKept
<1>1. ASSUME IInv, [Next]_vars, NEW s \in Sessions, pc[s] # "off", job[s].restored
      PROVE  \/ row'[s].thread = row[s].thread
             \/ row'[s].thread = NoThread /\ row'[s].pointer # NoPointer
  <2>1. CASE UNCHANGED vars BY <2>1 DEF vars
  <2>2. ASSUME NEW z \in Sessions, Works(z)
        PROVE  \/ row'[s].thread = row[s].thread
               \/ row'[s].thread = NoThread /\ row'[s].pointer # NoPointer
    <3>1. CASE z = s BY <1>1, <2>2, <3>1, ThreadsAreKept DEF KeepsThread
    <3>2. CASE z # s BY <1>1, <2>2, <3>2, OthersWait
    <3>. QED BY <3>1, <3>2
  <2>. QED BY <1>1, <2>1, <2>2, NextIsWork
<1>2. IInv /\ [Next]_vars =>
        [\A s \in Sessions :
          (pc[s] # "off" /\ job[s].restored) =>
             \/ row'[s].thread = row[s].thread
             \/ row'[s].thread = NoThread /\ row'[s].pointer # NoPointer]_<<row, pc, job>>
  BY <1>1
<1>. QED BY <1>2, Invariance, PTL DEF Spec, RestoredThreadIsKept

-----------------------------------------------------------------------------
(* Who changes the files.                                                  *)

LEMMA FilesBelongToTheirLease ==
    ASSUME IInv, NEW s \in Sessions, Works(s), NEW c \in exists, disk'[c] # disk[c]
    PROVE  \/ lease[c] = s
           \/ txn = s /\ lease[c] = NoSession
           \/ pc[s] \in {"undo", "restore"} /\ c = job[s].to /\ job[s].copies
           \/ pc[s] = "review" /\ c = job[s].repo
<1>1. Types /\ PlaceIs(s) /\ c \in Checkouts BY DEF IInv, Types, DiskOK
<1>2. ASSUME NEW d \in Checkouts, NEW x, disk' = [disk EXCEPT ![d] = x] PROVE c = d
  BY <1>1, <1>2 DEF Types, DiskOK
<1>3. ASSUME NEW r \in Checkouts, NEW d \in Checkouts, CheckOut(r, d) PROVE FALSE
  BY <1>1, <1>3, CheckOutKeeps
<1>4. CASE Turn(s)
  <2>1. job[s].repo \in Checkouts /\ lease[job[s].repo] = s
    BY <1>1, <1>4 DEF Turn, PlaceIs, Leased, Types, DiskOK
  <2>. QED BY <1>2, <1>4, <2>1 DEF Turn, Adds
<1>5. CASE CopyFails(s) \/ \E f \in Files : CopyFile(s, f)
  <2>1. pc[s] = "copy" BY <1>5 DEF CopyFile, CopyFails
  <2>2. job[s].to \in Checkouts /\ txn = s /\ lease[job[s].to] \in {NoSession, s}
    BY <1>1, <2>1 DEF PlaceIs, Targeted, Types, DiskOK
  <2>. QED BY <1>2, <1>5, <2>2 DEF CopyFile, CopyFails, RestoresUnderLock
<1>6. ASSUME RereadFails(s) \/ \E i \in Issues : CompleteIssue(s, i)
      PROVE  lease[c] = s
  <2>1. pc[s] \in {"reread", "run"} BY <1>6 DEF RereadFails, CompleteIssue
  <2>2. job[s].to \in Checkouts /\ lease[job[s].to] = s
    BY <1>1, <2>1 DEF PlaceIs, Targeted, Types, DiskOK
  <2>. QED BY <1>2, <1>6, <2>2 DEF RereadFails, CompleteIssue
<1>undo. CASE UndoFiles(s) \/ PutBack(s)
  <2>1. pc[s] \in {"undo", "restore"} /\ job[s].copies
    BY <1>1, <1>undo DEF UndoFiles, PutBack, PlaceIs
  <2>2. job[s].to \in Checkouts
    BY <1>1, <2>1 DEF PlaceIs, Targeted, Undoing, Types, DiskOK
  <2>. QED BY <1>2, <1>undo, <2>1, <2>2 DEF UndoFiles, PutBack
<1>7. CASE MergeFollowup(s)
  <2>1. pc[s] = "review" /\ job[s].repo \in Checkouts
    BY <1>1, <1>7 DEF MergeFollowup, PlaceIs, Types, DiskOK
  <2>. QED BY <1>2, <1>7, <2>1 DEF MergeFollowup
<1>8. CASE BranchStrategy(s)
  <2>1. job[s].repo \in Checkouts BY <1>1, <1>8 DEF BranchStrategy, PlaceIs, Types, DiskOK
  <2>. QED BY <1>3, <1>8, <2>1 DEF BranchStrategy, Checkouts
<1>9. CASE StartDelivery(s)
  <2>1. job[s].repo \in Checkouts BY <1>1, <1>9 DEF StartDelivery, PlaceIs, Types, DiskOK
  <2>. QED BY <1>3, <1>9, <2>1 DEF StartDelivery, Checkouts, files
<1>10. CASE \/ \E d \in Checkouts : Launch(s, d)
            \/ Republish(s) \/ ResumeUnfinished(s)
            \/ BindPlanning(s) \/ Preflight(s) \/ Probe(s) \/ DoneByHand(s) \/ Quit(s)
            \/ BeginTransfer(s) \/ TransferRollsBack(s) \/ CommitTransfer(s)
            \/ Reread(s)
            \/ \E i \in Issues : IssueFails(s, i)
            \/ FinishRun(s) \/ Rerun(s) \/ Crash(s)
  BY <1>10 DEF Launch, Republish, ResumeUnfinished, BindPlanning, Preflight, Probe,
     DoneByHand, Quit, BeginTransfer, TransferRollsBack, CommitTransfer, Reread,
     IssueFails, FinishRun,
     Rerun, Crash, files
<1>11. "prd" \in Files BY DEF Files
<1>. QED BY <1>4, <1>5, <1>6, <1>7, <1>8, <1>9, <1>10, <1>11, <1>undo DEF Works

(* The files of a checkout change only under its lease, but for the merge  *)
(* and the files that a rolled-back transfer undoes.                       *)
THEOREM FilesAlwaysChangeUnderTheLease == Spec => FilesChangeUnderTheLease
<1>1. ASSUME IInv, [Next]_vars, NEW c \in exists, disk'[c] # disk[c]
      PROVE  \E s \in Sessions :
                /\ Acts(s)
                /\ \/ lease[c] = s
                   \/ txn = s /\ lease[c] = NoSession
                   \/ pc[s] \in {"undo", "restore"} /\ c = job[s].to /\ job[s].copies
                   \/ pc[s] = "review" /\ c = job[s].repo
  <2>1. PICK s \in Sessions : Works(s) BY <1>1, NextIsWork DEF vars
  <2>2. Acts(s) BY <1>1, <2>1, OthersWait DEF Acts
  <2>. QED BY <1>1, <2>1, <2>2, FilesBelongToTheirLease
<1>2. IInv /\ [Next]_vars =>
        [\A c \in exists : disk'[c] # disk[c] =>
          \E s \in Sessions :
             /\ Acts(s)
             /\ \/ lease[c] = s
                \/ txn = s /\ lease[c] = NoSession
                \/ pc[s] \in {"undo", "restore"} /\ c = job[s].to /\ job[s].copies
                \/ pc[s] = "review" /\ c = job[s].repo]_<<disk, pc, job>>
  BY <1>1
<1>. QED BY <1>2, Invariance, PTL DEF Spec, FilesChangeUnderTheLease

-----------------------------------------------------------------------------
(* What a session is bound to.                                             *)

LEMMA FinishedStays ==
    ASSUME IInv, NEW z \in Sessions, Works(z), NEW s \in Sessions \ astray',
           NEW c \in exists, NEW p \in Packages,
           row[s].pointer = [at |-> c, package |-> p]
    PROVE  disk[c][p].done \subseteq disk'[c][p].done
<1>. DEFINE Stays == disk[c][p].done \subseteq disk'[c][p].done
<1>1. Types /\ PlaceIs(z) /\ c \in Checkouts BY DEF IInv, Types, DiskOK
<1>2. /\ disk[c] \in [Packages -> Contents] /\ disk[c][p] \in Contents
      /\ disk \in [Checkouts -> [Packages -> Contents]]
  BY <1>1 DEF Types, DiskOK
<1>3. ASSUME NEW r \in Checkouts, NEW d \in Checkouts, CheckOut(r, d) PROVE Stays
  BY <1>1, <1>3, CheckOutKeeps
<1>4. ASSUME NEW d \in Checkouts, NEW q \in Packages, NEW new \in Contents,
             disk[d][q].done \subseteq new.done, disk' = [disk EXCEPT ![d][q] = new]
      PROVE  Stays
  <2>1. CASE d = c /\ q = p BY <1>1, <1>2, <1>4, <2>1
  <2>2. CASE d # c \/ q # p BY <1>1, <1>2, <1>4, <2>2
  <2>. QED BY <2>1, <2>2
<1>5. CASE CopyFails(z) \/ (UndoFiles(z) /\ job[z].copies) \/ PutBack(z)
             \/ (RereadFails(z) /\ job[z].copies) \/ \E f \in Files : CopyFile(z, f)
  BY <1>1, <1>5, TransferWrites, TargetMoves
<1>6. CASE Turn(z)
  <2>1. job[z].repo \in Checkouts
    BY <1>1, <1>6 DEF Turn, PlaceIs, Types, DiskOK
  <2>2. PICK q \in Packages, w \in Written : Adds(job[z].repo, q, w)
    BY <1>6 DEF Turn
  <2>. DEFINE new == [disk[job[z].repo][q] EXCEPT !.has = @ \cup w]
  <2>3. w \subseteq Files BY DEF Written, Files
  <2>4. disk[job[z].repo][q] \in Contents BY <1>2, <2>1
  <2>5. new \in Contents /\ new.done = disk[job[z].repo][q].done
    BY <2>3, <2>4 DEF Contents
  <2>6. disk' = [disk EXCEPT ![job[z].repo][q] = new] BY <2>2 DEF Adds
  <2>. HIDE DEF new
  <2>. QED BY <1>4, <2>1, <2>5, <2>6
<1>7. ASSUME NEW i \in Issues, CompleteIssue(z, i) PROVE Stays
  <2>. DEFINE d == job[z].to
              q == job[z].package
              new == [disk[d][q] EXCEPT !.done = @ \cup {i}]
  <2>1. d \in Checkouts /\ q \in Packages
    BY <1>1, <1>7 DEF CompleteIssue, PlaceIs, Targeted, Delivering, Types, DiskOK
  <2>2. disk[d][q] \in Contents BY <1>2, <2>1
  <2>3. new \in Contents /\ disk[d][q].done \subseteq new.done BY <2>2 DEF Contents
  <2>4. disk' = [disk EXCEPT ![d][q] = new] BY <1>7 DEF CompleteIssue
  <2>. HIDE DEF new
  <2>. QED BY <1>4, <2>1, <2>3, <2>4
<1>8. CASE MergeFollowup(z)
  <2>1. job[z].repo \in Checkouts /\ job[z].to \in Checkouts
    BY <1>1, <1>8 DEF MergeFollowup, PlaceIs, Targeted, Types, DiskOK
  <2>2. disk' = [disk EXCEPT ![job[z].repo] =
                   [x \in Packages |-> Join(@[x], disk[job[z].to][x])]]
    BY <1>8 DEF MergeFollowup
  <2>. QED BY <1>1, <1>2, <2>1, <2>2 DEF Join
<1>9. CASE BranchStrategy(z)
  <2>1. job[z].repo \in Checkouts BY <1>1, <1>9 DEF BranchStrategy, PlaceIs, Types, DiskOK
  <2>. QED BY <1>3, <1>9, <2>1 DEF BranchStrategy, Checkouts
<1>10. CASE disk' = disk BY <1>10
<1>11. CASE StartDelivery(z)
  <2>1. job[z].repo \in Checkouts BY <1>1, <1>11 DEF StartDelivery, PlaceIs, Types, DiskOK
  <2>. QED BY <1>3, <1>10, <1>11, <2>1 DEF StartDelivery, Checkouts, files
<1>12. CASE \/ \E d \in Checkouts : Launch(z, d)
            \/ Republish(z) \/ ResumeUnfinished(z)
            \/ BindPlanning(z) \/ Preflight(z) \/ Probe(z) \/ DoneByHand(z) \/ Quit(z)
            \/ BeginTransfer(z) \/ TransferRollsBack(z) \/ CommitTransfer(z)
            \/ (UndoFiles(z) /\ ~job[z].copies) \/ (RereadFails(z) /\ ~job[z].copies)
            \/ Reread(z) \/ \E i \in Issues : IssueFails(z, i)
            \/ FinishRun(z) \/ Rerun(z) \/ Crash(z)
  BY <1>10, <1>12 DEF Launch, Republish, ResumeUnfinished, BindPlanning, Preflight,
     Probe, DoneByHand, Quit, BeginTransfer, TransferRollsBack, CommitTransfer,
     UndoFiles, RereadFails, Reread, IssueFails, FinishRun, Rerun, Crash, files
<1>. QED BY <1>5, <1>6, <1>7, <1>8, <1>9, <1>11, <1>12 DEF Works

(* The package a session is bound to keeps its PRD, its index and what is  *)
(* finished in it, whatever becomes of anybody's transfer.                 *)
THEOREM BoundPackagesAreAlwaysKept == Spec => BoundPackagesAreKept
<1>1. ASSUME IInv, [Next]_vars, NEW s \in Sessions \ (astray \cup astray'),
             row[s].pointer # NoPointer, row'[s].pointer = row[s].pointer
      PROVE  /\ Pair(row[s].pointer.at, row[s].pointer.package)'
             /\ disk[row[s].pointer.at][row[s].pointer.package].done \subseteq
                  disk'[row[s].pointer.at][row[s].pointer.package].done
  <2>. DEFINE q == row[s].pointer
  <2>1. PointersReferToFiles /\ PointersReferToFiles' /\ PointerIs(s) /\ Types
    BY <1>1, NextHolds DEF IInv
  <2>2. Pair(q.at, q.package) BY <1>1, <2>1 DEF PointersReferToFiles
  <2>3. Pair(q.at, q.package)'
    BY <1>1, <2>1 DEF PointersReferToFiles, Pair
  <2>4. q \in [at : Checkouts, package : Named] /\ q.package \in Packages
    BY <1>1, <2>1 DEF Types, Rows, PointerIs
  <2>5. q.at \in exists BY <2>1, <2>2, <2>4 DEF Types, DiskOK, Pair
  <2>6. q = [at |-> q.at, package |-> q.package] BY <2>4
  <2>7. CASE UNCHANGED vars BY <2>3, <2>7 DEF vars
  <2>8. ASSUME NEW z \in Sessions, Works(z)
        PROVE  disk[q.at][q.package].done \subseteq disk'[q.at][q.package].done
    BY <1>1, <2>4, <2>5, <2>6, <2>8, FinishedStays
  <2>. QED BY <1>1, <2>3, <2>7, <2>8, NextIsWork
<1>2. IInv /\ [Next]_vars =>
        [\A s \in Sessions \ (astray \cup astray') :
          LET q == row[s].pointer IN
          q # NoPointer /\ row'[s].pointer = q =>
             /\ Pair(q.at, q.package)'
             /\ disk[q.at][q.package].done \subseteq disk'[q.at][q.package].done
        ]_<<disk, row>>
  BY <1>1
<1>. QED BY <1>2, Invariance, PTL DEF Spec, BoundPackagesAreKept
=============================================================================
