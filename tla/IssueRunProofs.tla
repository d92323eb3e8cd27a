--------------------------- MODULE IssueRunProofs ---------------------------
(***************************************************************************)
(* Proofs about IssueRun, for any package of issues, any bound on rework   *)
(* and attempts, and any number of crashes, edits and retries.             *)
(***************************************************************************)
EXTENDS IssueRun, TLAPS, WellFoundedInduction

Begun == Statuses \ {"PENDING", "READY"}
Judged == {"CHANGES_REQUESTED", "BLOCKED", "FAILED", "COMPLETED"}
Threads == {"idle", "starting", "manifest", "develop", "review", "qa", "advance",
            "drain", "recover", "turn", "cancel"}

Types ==
    /\ deps \in [Issues -> SUBSET Issues]
    /\ issue \in [Issues -> Statuses]
    /\ archive \in [Issues -> [1..MaxAttempts -> Judged \cup {"open"}]]
    /\ cursor \in Attempt \cup {None} /\ unsure \in Attempt \cup {None}
    /\ step \in Phases \cup {"workspace", "finalization"}
    /\ op \in {"idle", "running", "unknown"} /\ doing \in Threads

(* Where the operation thread and the run stand together.                  *)
PlaceIs ==
    /\ doing \in {"starting", "manifest", "develop", "review", "qa", "turn", "recover"} =>
          run = "RUNNING"
    /\ doing = "advance" => run \in {"RUNNING", "PAUSED"}
    /\ step \in {"analysis", "workspace"} \/ doing = "manifest" => cursor = None
    /\ doing = "starting" => step = "workspace"
    /\ doing = "manifest" => step = "development"
    /\ doing = "turn" => step \in Phases
    /\ step \in {"code-review", "qa"} => cursor # None
    /\ step = "development" /\ doing \in {"turn", "recover"} => cursor # None
    /\ step = "qa" => accepted = impl

(* Nothing that waits for the issue under the cursor has begun; an issue   *)
(* that was judged has an attempt in the archive.                          *)
IssueIs ==
    /\ cursor # None =>
          /\ issue[cursor.issue] \in Begun
          /\ \A j \in Issues : cursor.issue \in deps[j] => issue[j] \notin Begun
          /\ issue[cursor.issue] \in Judged => Archived
    /\ \A i \in Issues : issue[i] \in Judged => \E n \in 1..MaxAttempts : archive[i][n] # "open"

(* An item in flight belongs to the turn that runs, or to an attempt that  *)
(* had been archived when its turn ended.                                  *)
ItemIs ==
    op = "running" =>
        /\ run = "RUNNING" /\ step # "finalization"
        /\ \/ doing = "turn"
           \/ cursor # None /\ Archived /\ doing \notin {"advance", "drain"}

(* While the cursor is on the attempt whose operation is unknown, nothing  *)
(* runs; once it has left it, it does not come back.                       *)
UnsureIs ==
    unsure # None =>
        /\ cursor # None
        /\ issue[unsure.issue] \in Begun
        /\ \/ cursor = unsure
           \/ archive[unsure.issue][unsure.number] # "open"
           \/ issue[unsure.issue] \notin Judged /\ cursor.issue # unsure.issue
        /\ cursor = unsure =>
              op = "unknown" /\ doing \in {"idle", "cancel"} /\ step # "finalization"

IInv == Types /\ PlaceIs /\ DependenciesFirst /\ IssueIs /\ ItemIs /\ UnsureIs

-----------------------------------------------------------------------------
(* What the operators of the model return.                                 *)

LEMMA LeastPosition ==
    ASSUME NEW S \in SUBSET Nat, S # {}
    PROVE  \E k \in S : \A j \in S : k <= j
<1> DEFINE Less == OpToRel(<, Nat)
<1>1. PICK k \in S : \A j \in S : <<j, k>> \notin Less
  <2>1. IsWellFoundedOn(Less, Nat)
    BY NatLessThanWellFounded
  <2> QED
    BY <2>1, WFMin
<1>2. ASSUME NEW j \in S, j < k PROVE FALSE
  <2>1. <<j, k>> \in Nat \X Nat /\ <<j, k>>[1] < <<j, k>>[2]
    BY <1>2
  <2>2. <<j, k>> \in Less
    BY <2>1 DEF OpToRel
  <2> QED
    BY <2>2, <1>1
<1> QED
  BY <1>2

LEMMA LargestNumber ==
    ASSUME NEW S \in SUBSET (1..MaxAttempts), S # {}
    PROVE  Max(S) \in S /\ \A n \in S : n <= Max(S)
<1> DEFINE U == {MaxAttempts - n : n \in S}
<1>0. MaxAttempts \in Nat /\ \A n \in S : n \in 1..MaxAttempts
  BY BoundAssumption
<1>1. U \in SUBSET Nat /\ U # {} /\ \A n \in S : MaxAttempts - n \in U
  <2>1. \A n \in S : MaxAttempts - n \in Nat
    BY <1>0
  <2> QED
    BY <2>1
<1>2. \A u \in U : \E m \in S : u = MaxAttempts - m
  OBVIOUS
<1> HIDE DEF U
<1>3. PICK u \in U : \A v \in U : u <= v
  BY <1>1, LeastPosition
<1>m. PICK m \in S : u = MaxAttempts - m
  BY <1>2
<1>4. ASSUME NEW n \in S PROVE m >= n
  <2>1. u <= MaxAttempts - n
    BY <1>1, <1>3
  <2> QED
    BY <2>1, <1>0, <1>m
<1>5. \E x \in S : \A y \in S : x >= y
  BY <1>4
<1>6. Max(S) \in S /\ \A y \in S : Max(S) >= y
  BY <1>5 DEF Max
<1> QED
  BY <1>0, <1>6

(* A new attempt is numbered behind every one that was archived, and       *)
(* behind the cursor's.                                                    *)
LEMMA LatestIs ==
    ASSUME Types, NEW i \in Issues, NEW m \in 1..MaxAttempts,
           archive[i][m] # "open" \/ (cursor # None /\ cursor.issue = i /\ cursor.number = m)
    PROVE  Latest(i) \in 1..MaxAttempts /\ m <= Latest(i)
<1> DEFINE C == IF cursor # None /\ cursor.issue = i THEN {cursor.number} ELSE {}
           S == {n \in 1..MaxAttempts : archive[i][n] # "open"} \cup C
<1>1. C \in SUBSET (1..MaxAttempts)
  BY DEF Types, Attempt
<1>2. S \in SUBSET (1..MaxAttempts) /\ m \in S
  BY <1>1
<1>3. Latest(i) = Max(S)
  BY DEF Latest
<1> HIDE DEF S
<1> QED
  BY <1>2, <1>3, LargestNumber

LEMMA RefreshIs ==
    ASSUME Types
    PROVE  /\ Refresh(issue) \in [Issues -> Statuses]
           /\ \A i \in Issues : issue[i] \in Begun => Refresh(issue)[i] = issue[i]
           /\ \A i \in Issues : issue[i] \notin Begun =>
                 /\ Refresh(issue)[i] \in {"PENDING", "READY"}
                 /\ Refresh(issue)[i] = "READY" => \A d \in deps[i] : issue[d] = "COMPLETED"
  BY DEF Types, Refresh, Statuses, Begun

LEMMA NextReadyIs ==
    ASSUME Types, NextReady # None
    PROVE  /\ NextReady \in Issues /\ issue[NextReady] \notin Begun
           /\ \A d \in deps[NextReady] : issue[d] = "COMPLETED"
<1> DEFINE R == {k \in 1..Len(Order) : Refresh(issue)[Order[k]] = "READY"}
           least == CHOOSE k \in R : \A j \in R : k <= j
<1>1. Len(Order) \in Nat /\ R \in SUBSET Nat
  BY PackageAssumption
<1>2. R # {} /\ NextReady = Order[least]
  BY DEF NextReady
<1>3. least \in R
  BY <1>1, <1>2, LeastPosition
<1> HIDE DEF least
<1>4. NextReady \in Issues /\ Refresh(issue)[NextReady] = "READY"
  BY <1>2, <1>3 DEF Issues
<1> QED
  BY <1>4, RefreshIs DEF Begun

-----------------------------------------------------------------------------
(* The facts about issues, and the three ways in which steps change them.  *)
IssueFacts ==
    /\ deps \in [Issues -> SUBSET Issues]
    /\ issue \in [Issues -> Statuses]
    /\ archive \in [Issues -> [1..MaxAttempts -> Judged \cup {"open"}]]
    /\ cursor \in Attempt \cup {None}
    /\ DependenciesFirst /\ IssueIs

(* The statuses stay, or are refreshed.                                    *)
Stays ==
    /\ issue' = issue \/ issue' = Refresh(issue)
    /\ UNCHANGED <<deps, cursor, archive>>

(* The issue under the cursor changes its status; a judgement is archived, *)
(* or the attempt had been.                                                *)
Moves(status) ==
    /\ cursor # None /\ issue' = [issue EXCEPT ![cursor.issue] = status]
    /\ UNCHANGED <<deps, cursor>>
    /\ \/ archive' = archive /\ (status \in Judged => Archived)
       \/ archive' = [archive EXCEPT ![cursor.issue][cursor.number] = status]
          /\ status \in Judged

(* An attempt at an issue starts; the first one has its cursor later.      *)
Starts(states, i, n) ==
    /\ issue' = [states EXCEPT ![i] = "IN_DEVELOPMENT"]
    /\ cursor' = [issue |-> i, number |-> n] \/ (cursor' = None /\ unsure = None)
    /\ UNCHANGED <<deps, archive>>

(* What nothing undoes.                                                    *)
Keeps ==
    /\ \A i \in Issues : issue[i] \in Begun => issue'[i] \in Begun
    /\ \A i \in Issues, n \in 1..MaxAttempts : archive[i][n] # "open" => archive'[i][n] # "open"

LEMMA StaysHolds ==
    ASSUME Types, IssueFacts, Stays
    PROVE  IssueFacts' /\ Keeps /\ \A i \in Issues : issue[i] \in Begun => issue'[i] = issue[i]
<1>1. /\ issue' \in [Issues -> Statuses]
      /\ \A i \in Issues : issue[i] \in Begun => issue'[i] = issue[i]
      /\ \A i \in Issues : issue[i] \notin Begun => issue'[i] \notin Begun
  BY RefreshIs DEF Stays, IssueFacts, Begun
<1>2. \A i \in Issues : deps[i] \in SUBSET Issues
  BY DEF IssueFacts
<1>3. DependenciesFirst'
  BY <1>1, <1>2 DEF Stays, IssueFacts, DependenciesFirst, Begun, Statuses
<1>4. cursor # None => cursor.issue \in Issues
  BY DEF Types, Attempt
<1>5. IssueIs'
  BY <1>1, <1>4 DEF Stays, IssueFacts, IssueIs, Begun, Judged, Archived
<1> QED
  BY <1>1, <1>3, <1>5 DEF Stays, IssueFacts, Keeps

LEMMA MovesHolds ==
    ASSUME Types, IssueFacts, NEW status \in Begun, Moves(status)
    PROVE  /\ IssueFacts' /\ Keeps
           /\ \A i \in Issues \ {cursor.issue} : issue'[i] = issue[i]
           /\ issue'[cursor.issue] = status
           /\ status \in Judged => Archived'
<1>1. cursor.issue \in Issues /\ cursor.number \in 1..MaxAttempts /\ cursor \in Attempt
  BY DEF Types, Attempt, Moves
<1>2. /\ issue' \in [Issues -> Statuses]
      /\ \A i \in Issues \ {cursor.issue} : issue'[i] = issue[i]
      /\ issue'[cursor.issue] = status
  BY <1>1 DEF Moves, IssueFacts, Begun
<1>3. /\ archive' \in [Issues -> [1..MaxAttempts -> Judged \cup {"open"}]]
      /\ \A i \in Issues, n \in 1..MaxAttempts : archive[i][n] # "open" => archive'[i][n] # "open"
      /\ status \in Judged => archive'[cursor.issue][cursor.number] # "open"
  <2>1. CASE archive' = archive /\ (status \in Judged => Archived)
    BY <2>1 DEF IssueFacts, Archived
  <2>2. CASE /\ archive' = [archive EXCEPT ![cursor.issue][cursor.number] = status]
             /\ status \in Judged
    <3> DEFINE ended == [archive[cursor.issue] EXCEPT ![cursor.number] = status]
    <3>1. \A i \in Issues : archive[i] \in [1..MaxAttempts -> Judged \cup {"open"}]
      BY DEF IssueFacts
    <3>2. /\ ended \in [1..MaxAttempts -> Judged \cup {"open"}]
          /\ ended[cursor.number] # "open"
          /\ \A n \in 1..MaxAttempts : archive[cursor.issue][n] # "open" => ended[n] # "open"
      BY <1>1, <2>2, <3>1 DEF Judged
    <3>3. archive' = [archive EXCEPT ![cursor.issue] = ended]
      BY <2>2
    <3> HIDE DEF ended
    <3> QED
      BY <1>1, <3>2, <3>3 DEF IssueFacts
  <2> QED
    BY <2>1, <2>2 DEF Moves
<1>4. cursor' = cursor /\ deps' = deps /\ cursor # None
  BY DEF Moves
<1>5. \A j \in Issues : cursor.issue \in deps[j] => issue'[j] = issue[j] \/ j = cursor.issue
  BY <1>2
<1>6. issue[cursor.issue] \in Begun /\ \A j \in Issues : cursor.issue \in deps[j] => issue[j] \notin Begun
  BY <1>4 DEF IssueFacts, IssueIs
<1>7. \A j \in Issues : cursor.issue \in deps[j] => issue'[j] \notin Begun
  BY <1>2, <1>6
<1>8. DependenciesFirst'
  <2> SUFFICES ASSUME NEW i \in Issues, issue'[i] \notin {"PENDING", "READY"}, NEW d \in deps[i]
               PROVE  issue'[d] = "COMPLETED"
    BY <1>4 DEF DependenciesFirst
  <2>1. issue[i] \notin {"PENDING", "READY"} /\ issue[i] \in Statuses
    BY <1>2, <1>6 DEF Begun, IssueFacts
  <2>2. issue[d] = "COMPLETED" /\ issue[i] \in Begun /\ d \in Issues
    BY <2>1 DEF IssueFacts, DependenciesFirst, Begun
  <2> QED
    BY <2>2, <1>2, <1>6
<1>9. IssueIs'
  BY <1>1, <1>2, <1>3, <1>4, <1>7 DEF IssueIs, IssueFacts, Archived
<1> QED
  BY <1>1, <1>2, <1>3, <1>4, <1>6, <1>8, <1>9 DEF IssueFacts, Keeps, Archived

LEMMA StartsHolds ==
    ASSUME Types, IssueFacts, NEW states \in {issue, Refresh(issue)},
           NEW i \in Issues, NEW n \in 1..MaxAttempts,
           issue[i] # "COMPLETED", \A d \in deps[i] : issue[d] = "COMPLETED",
           Starts(states, i, n)
    PROVE  /\ IssueFacts' /\ Keeps
           /\ \A j \in Issues \ {i} : issue[j] \in Begun => issue'[j] = issue[j]
           /\ \A j \in Issues \ {i} : issue'[j] = states[j]
           /\ issue'[i] = "IN_DEVELOPMENT"
<1>1. /\ states \in [Issues -> Statuses]
      /\ \A j \in Issues : issue[j] \in Begun => states[j] = issue[j]
      /\ \A j \in Issues : issue[j] \notin Begun => states[j] \notin Begun
  BY RefreshIs DEF IssueFacts, Begun
<1>2. /\ issue' \in [Issues -> Statuses]
      /\ \A j \in Issues \ {i} : issue'[j] = states[j]
      /\ issue'[i] = "IN_DEVELOPMENT"
  BY <1>1 DEF Starts, Statuses
<1>3. /\ cursor' # None => cursor' = [issue |-> i, number |-> n]
      /\ cursor' \in Attempt \cup {None} /\ deps' = deps /\ archive' = archive
  BY DEF Starts, Attempt
<1>4. \A j \in Issues : i \in deps[j] => issue[j] \notin Begun
  BY DEF IssueFacts, DependenciesFirst, Begun
<1>5. \A j \in Issues : i \in deps[j] => issue'[j] \notin Begun
  <2> SUFFICES ASSUME NEW j \in Issues, i \in deps[j] PROVE j # i /\ issue[j] \notin Begun
    BY <1>1, <1>2
  <2> QED
    BY <1>4
<1>6. DependenciesFirst'
  <2> SUFFICES ASSUME NEW j \in Issues, issue'[j] \notin {"PENDING", "READY"}, NEW d \in deps[j]
               PROVE  issue'[d] = "COMPLETED"
    BY <1>3 DEF DependenciesFirst
  <2>1. issue[d] = "COMPLETED" /\ d \in Issues
    BY <1>1, <1>2 DEF IssueFacts, DependenciesFirst, Begun
  <2> QED
    BY <2>1, <1>1, <1>2 DEF Begun, Statuses
<1>7. IssueIs'
  <2>1. (cursor' # None => cursor'.issue = i) /\ "IN_DEVELOPMENT" \in Begun \ Judged
    BY <1>3 DEF Begun, Judged, Statuses
  <2>2. \A j \in Issues : issue'[j] \in Judged => issue[j] \in Judged
    BY <1>1, <1>2, <2>1 DEF Begun, Judged, Statuses
  <2> QED
    BY <1>2, <1>3, <1>5, <2>1, <2>2 DEF IssueIs, IssueFacts
<1>8. "IN_DEVELOPMENT" \in Begun
  BY DEF Begun, Statuses
<1> QED
  BY <1>1, <1>2, <1>3, <1>6, <1>7, <1>8 DEF IssueFacts, Keeps

-----------------------------------------------------------------------------
(* What a step owes beside the statuses, and that it is all it owes.       *)

Moment ==
    /\ step \in Phases \cup {"workspace", "finalization"}
    /\ op \in {"idle", "running", "unknown"} /\ doing \in Threads

Fits ==
    /\ Moment' /\ PlaceIs' /\ ItemIs'
    /\ unsure' \in {unsure, cursor, None}
    /\ unsure' # None /\ cursor' = unsure' =>
          op' = "unknown" /\ doing' \in {"idle", "cancel"} /\ step' # "finalization"

LEMMA IssueFactsOf == IInv => IssueFacts
  BY DEF IInv, Types, IssueFacts

LEMMA StaysFits == ASSUME IInv, Stays, Fits PROVE IInv'
<1>1. IssueFacts' /\ Keeps /\ \A i \in Issues : issue[i] \in Begun => issue'[i] = issue[i]
  BY IssueFactsOf, StaysHolds DEF IInv
<1>2. cursor' = cursor /\ archive' = archive
  BY DEF Stays
<1>3. unsure \in Attempt \cup {None} /\ cursor \in Attempt \cup {None}
  BY DEF IInv, Types
<1>4. UnsureIs'
  <2>1. CASE unsure' = unsure
    BY <2>1, <1>1, <1>2, <1>3 DEF IInv, UnsureIs, Fits, Attempt
  <2>2. CASE unsure' = cursor
    BY <2>2, <1>1, <1>2, <1>3 DEF IInv, IssueIs, UnsureIs, Fits, Attempt, Keeps
  <2> QED
    BY <2>1, <2>2 DEF Fits, UnsureIs
<1> QED
  BY <1>1, <1>3, <1>4 DEF IInv, Types, IssueFacts, Fits, Moment

LEMMA MovesFits ==
    ASSUME IInv, NEW status \in Begun, Moves(status), Fits,
           cursor = unsure => unsure = None
    PROVE  IInv'
<1>1. /\ IssueFacts' /\ Keeps
      /\ \A i \in Issues \ {cursor.issue} : issue'[i] = issue[i]
      /\ issue'[cursor.issue] = status
      /\ status \in Judged => Archived'
  BY IssueFactsOf, MovesHolds DEF IInv
<1>2. cursor' = cursor /\ cursor # None
  BY DEF Moves
<1>3. unsure \in Attempt \cup {None} /\ cursor \in Attempt \cup {None}
  BY DEF IInv, Types
<1>4. UnsureIs'
  <2>1. CASE unsure' = unsure /\ unsure # None
    <3>1. unsure.issue \in Issues /\ unsure.number \in 1..MaxAttempts /\ cursor # unsure
      BY <2>1, <1>3 DEF Attempt
    <3>2. issue[unsure.issue] \in Begun /\ issue'[unsure.issue] \in Begun
      BY <2>1, <3>1, <1>1 DEF IInv, UnsureIs, Keeps
    <3>3. \/ archive[unsure.issue][unsure.number] # "open"
          \/ issue[unsure.issue] \notin Judged /\ cursor.issue # unsure.issue
      BY <2>1, <3>1 DEF IInv, UnsureIs
    <3>4. \/ archive'[unsure.issue][unsure.number] # "open"
          \/ issue'[unsure.issue] \notin Judged /\ cursor.issue # unsure.issue
      BY <3>1, <3>3, <1>1 DEF Keeps
    <3> QED
      BY <2>1, <1>2, <3>1, <3>2, <3>4 DEF UnsureIs
  <2>2. CASE unsure' = cursor
    <3>1. cursor.issue \in Issues /\ issue'[cursor.issue] \in Begun
      BY <1>1, <1>2, <1>3 DEF Attempt
    <3> QED
      BY <2>2, <3>1, <1>2 DEF UnsureIs, Fits
  <2> QED
    BY <2>1, <2>2 DEF Fits, UnsureIs
<1> QED
  BY <1>1, <1>3, <1>4 DEF IInv, Types, IssueFacts, Fits, Moment

(* A new attempt at an issue that had not begun, or that was judged, is    *)
(* not the one whose operation is unknown.                                 *)
LEMMA StartsFits ==
    ASSUME IInv, NEW states \in {issue, Refresh(issue)},
           NEW i \in Issues, NEW n \in 1..MaxAttempts,
           issue[i] # "COMPLETED", \A d \in deps[i] : issue[d] = "COMPLETED",
           issue[i] \in Judged => n = Latest(i) + 1,
           unsure # None => issue[i] \in Judged \/ issue[i] \notin Begun,
           Starts(states, i, n), unsure' = unsure,
           Moment', PlaceIs', ItemIs'
    PROVE  IInv'
<1>1. /\ IssueFacts' /\ Keeps
      /\ \A j \in Issues \ {i} : issue[j] \in Begun => issue'[j] = issue[j]
      /\ issue'[i] = "IN_DEVELOPMENT"
  BY IssueFactsOf, StartsHolds DEF IInv
<1>2. (unsure # None => cursor' = [issue |-> i, number |-> n]) /\ archive' = archive
  BY DEF Starts
<1>3. unsure \in Attempt \cup {None} /\ (unsure # None => cursor' # None)
  BY <1>2, NoneAssumption DEF IInv, Types, Attempt
<1>4. UnsureIs'
  <2> SUFFICES ASSUME unsure # None PROVE UnsureIs'
    BY DEF UnsureIs
  <2>1. unsure.issue \in Issues /\ unsure.number \in 1..MaxAttempts
    BY <1>3 DEF Attempt
  <2>2. issue[unsure.issue] \in Begun
    BY DEF IInv, UnsureIs
  <2>3. issue[unsure.issue] \in Judged =>
            archive[unsure.issue][unsure.number] # "open"
    BY DEF IInv, UnsureIs, IssueIs, Archived
  <2>4. CASE unsure.issue = i
    <3>1. archive[i][unsure.number] # "open" /\ issue[i] \in Judged
      BY <2>2, <2>3, <2>4
    <3>2. unsure.number <= Latest(i) /\ Latest(i) \in 1..MaxAttempts
      BY <2>1, <3>1, LatestIs DEF IInv
    <3>3. cursor'.number # unsure.number
      BY <2>1, <3>1, <3>2, <1>2, BoundAssumption
    <3>4. cursor' # unsure
      BY <1>2, <3>3
    <3>5. issue'[unsure.issue] \in Begun /\ archive'[unsure.issue][unsure.number] # "open"
      BY <1>1, <1>2, <2>4, <3>1 DEF Begun, Statuses
    <3> QED
      BY <1>3, <3>4, <3>5 DEF UnsureIs
  <2>5. CASE unsure.issue # i
    <3>1. issue'[unsure.issue] = issue[unsure.issue] /\ cursor'.issue # unsure.issue
      BY <2>1, <2>2, <2>5, <1>1, <1>2
    <3> QED
      BY <1>2, <1>3, <2>2, <2>3, <3>1 DEF UnsureIs
  <2> QED
    BY <2>4, <2>5
<1> QED
  BY <1>1, <1>3, <1>4 DEF IInv, Types, IssueFacts, Moment

(* Analysis, the workspace, and the user's control of the run.             *)
LEMMA AnalysisSteps ==
    ASSUME IInv,
           \/ AskAnalysis
           \/ \E t \in {"question", "draft"} : AnalysisEnds(t)
           \/ AnalysisFails
           \/ AcceptAnalysis
           \/ PauseAnalysis
           \/ ResumeAnalysis
           \/ RecoverAnalysis
           \/ ResumeWorkspace
           \/ Prepare
           \/ PrepareFails
    PROVE  IInv' /\ issue' = issue
<1> USE DEF savedVars, counters, Stays, Fits, Moment, IInv, Types, PlaceIs, ItemIs,
            Threads, Phases,
            Terminal, MayContinue, Leaves, Settles, Then, Refused, Ignored, Ends, Archived
<1>1. ASSUME AskAnalysis PROVE Stays /\ Fits /\ issue' = issue
  BY <1>1, NoneAssumption DEF AskAnalysis, UnsureIs, Developing
<1>2. ASSUME \E t \in {"question", "draft"} : AnalysisEnds(t) PROVE Stays /\ Fits /\ issue' = issue
  BY <1>2, NoneAssumption DEF AnalysisEnds, UnsureIs, Developing
<1>3. ASSUME AnalysisFails PROVE Stays /\ Fits /\ issue' = issue
  BY <1>3, NoneAssumption DEF AnalysisFails, UnsureIs, Developing
<1>4. ASSUME AcceptAnalysis PROVE Stays /\ Fits /\ issue' = issue
  BY <1>4, NoneAssumption DEF AcceptAnalysis, UnsureIs, Developing
<1>5. ASSUME PauseAnalysis PROVE Stays /\ Fits /\ issue' = issue
  BY <1>5, NoneAssumption DEF PauseAnalysis, UnsureIs, Developing
<1>6. ASSUME ResumeAnalysis PROVE Stays /\ Fits /\ issue' = issue
  BY <1>6, NoneAssumption DEF ResumeAnalysis, UnsureIs, Developing
<1>7. ASSUME RecoverAnalysis PROVE Stays /\ Fits /\ issue' = issue
  BY <1>7, NoneAssumption DEF RecoverAnalysis, UnsureIs, Developing
<1>8. ASSUME ResumeWorkspace PROVE Stays /\ Fits /\ issue' = issue
  BY <1>8, NoneAssumption DEF ResumeWorkspace, UnsureIs, Developing
<1>9. ASSUME Prepare PROVE Stays /\ Fits /\ issue' = issue
  BY <1>9, NoneAssumption DEF Prepare, UnsureIs, Developing
<1>10. ASSUME PrepareFails PROVE Stays /\ Fits /\ issue' = issue
  BY <1>10, NoneAssumption DEF PrepareFails, UnsureIs, Developing
<1> QED
  BY <1>1, <1>2, <1>3, <1>4, <1>5, <1>6, <1>7, <1>8, <1>9, <1>10, StaysFits


(* A turn, and what resumes or leaves one.                                 *)
LEMMA TurnSteps ==
    ASSUME IInv,
           \/ BindThread
           \/ StartTurn
           \/ StartItem
           \/ CompleteItem
           \/ Develop
           \/ DevelopmentPauses
           \/ DevelopmentStalls
           \/ NeedsApproval
           \/ ResumeDevelopment
           \/ ResumeVerification
           \/ StartFresh
           \/ AdvanceDevelops
    PROVE  IInv' /\ issue' = issue
<1> USE DEF savedVars, counters, Stays, Fits, Moment, IInv, Types, PlaceIs, ItemIs,
            Threads, Phases,
            Terminal, MayContinue, Leaves, Settles, Then, Refused, Ignored, Ends, Archived
<1>1. ASSUME BindThread PROVE Stays /\ Fits /\ issue' = issue
  BY <1>1, NoneAssumption DEF BindThread, UnsureIs, Developing
<1>2. ASSUME StartTurn PROVE Stays /\ Fits /\ issue' = issue
  BY <1>2, NoneAssumption DEF StartTurn, UnsureIs, Developing
<1>3. ASSUME StartItem PROVE Stays /\ Fits /\ issue' = issue
  BY <1>3, NoneAssumption DEF StartItem, UnsureIs, Developing
<1>4. ASSUME CompleteItem PROVE Stays /\ Fits /\ issue' = issue
  BY <1>4, NoneAssumption DEF CompleteItem, UnsureIs, Developing
<1>5. ASSUME Develop PROVE Stays /\ Fits /\ issue' = issue
  BY <1>5, NoneAssumption DEF Develop, UnsureIs, Developing
<1>6. ASSUME DevelopmentPauses PROVE Stays /\ Fits /\ issue' = issue
  BY <1>6, NoneAssumption DEF DevelopmentPauses, UnsureIs, Developing
<1>7. ASSUME DevelopmentStalls PROVE Stays /\ Fits /\ issue' = issue
  BY <1>7, NoneAssumption DEF DevelopmentStalls, UnsureIs, Developing
<1>8. ASSUME NeedsApproval PROVE Stays /\ Fits /\ issue' = issue
  BY <1>8, NoneAssumption DEF NeedsApproval, UnsureIs, Developing
<1>9. ASSUME ResumeDevelopment PROVE Stays /\ Fits /\ issue' = issue
  BY <1>9, NoneAssumption DEF ResumeDevelopment, UnsureIs, Developing
<1>10. ASSUME ResumeVerification PROVE Stays /\ Fits /\ issue' = issue
  BY <1>10, NoneAssumption DEF ResumeVerification, UnsureIs, Developing
<1>11. ASSUME StartFresh PROVE Stays /\ Fits /\ issue' = issue
  BY <1>11, NoneAssumption DEF StartFresh, UnsureIs, Developing
<1>12. ASSUME AdvanceDevelops PROVE Stays /\ Fits /\ issue' = issue
  BY <1>12, NoneAssumption DEF AdvanceDevelops, UnsureIs, Developing
<1> QED
  BY <1>1, <1>2, <1>3, <1>4, <1>5, <1>6, <1>7, <1>8, <1>9, <1>10, <1>11, <1>12, StaysFits


(* Finalization, cancellation, edits and the death of the process.         *)
LEMMA ControlSteps ==
    ASSUME IInv,
           \/ Finalize
           \/ CompleteRun
           \/ CancelRun
           \/ CancelLater
           \/ RequestStop
           \/ UserEdit
           \/ Crash
    PROVE  IInv' /\ issue' = issue
<1> USE DEF savedVars, counters, Stays, Fits, Moment, IInv, Types, PlaceIs, ItemIs,
            Threads, Phases,
            Terminal, MayContinue, Leaves, Settles, Then, Refused, Ignored, Ends, Archived
<1>1. ASSUME Finalize PROVE Stays /\ Fits /\ issue' = issue
  BY <1>1, NoneAssumption DEF Finalize, UnsureIs, Developing
<1>2. ASSUME CompleteRun PROVE Stays /\ Fits /\ issue' = issue
  BY <1>2, NoneAssumption DEF CompleteRun, UnsureIs, Developing
<1>3. ASSUME CancelRun PROVE Stays /\ Fits /\ issue' = issue
  BY <1>3, NoneAssumption DEF CancelRun, UnsureIs, Developing
<1>4. ASSUME CancelLater PROVE Stays /\ Fits /\ issue' = issue
  BY <1>4, NoneAssumption DEF CancelLater, UnsureIs, Developing
<1>5. ASSUME RequestStop PROVE Stays /\ Fits /\ issue' = issue
  BY <1>5, NoneAssumption DEF RequestStop, UnsureIs, Developing
<1>6. ASSUME UserEdit PROVE Stays /\ Fits /\ issue' = issue
  BY <1>6, NoneAssumption DEF UserEdit, UnsureIs, Developing
<1>7. ASSUME Crash PROVE Stays /\ Fits /\ issue' = issue
  BY <1>7, NoneAssumption DEF Crash, UnsureIs, Developing
<1> QED
  BY <1>1, <1>2, <1>3, <1>4, <1>5, <1>6, <1>7, StaysFits

-----------------------------------------------------------------------------
(* The ends of an attempt.                                                 *)

(* The operation thread is in the middle of an attempt.                    *)
Busy == cursor # None /\ doing \in {"turn", "recover", "review", "qa"}

LEMMA BusyIsKnown == IInv /\ Busy => (cursor = unsure => unsure = None)
  BY DEF IInv, UnsureIs, Busy

LEMMA UnrecordedEndHolds ==
    ASSUME IInv, Busy, Archived, UnrecordedEnd
    PROVE  IInv' /\ issue' = issue
<1> USE DEF savedVars, counters, Stays, Fits, Moment, IInv, Types, PlaceIs, ItemIs,
            Threads, Then, Archived
<1>1. Stays /\ Fits /\ issue' = issue
  BY BusyIsKnown DEF UnrecordedEnd, Busy
<1> QED
  BY <1>1, StaysFits

(* What is recorded of an attempt that was not archived yet.               *)
LEMMA EndAttemptHolds ==
    ASSUME IInv, Busy, ~Archived, NEW status \in {"BLOCKED", "FAILED"}, NEW end,
           EndAttempt(status, end),
           doing' \in {"idle", "cancel"} \/ (doing' = "advance" /\ doing = "recover")
    PROVE  IInv' /\ issue' = [issue EXCEPT ![cursor.issue] = status]
<1>1. op = "running" => doing = "turn"
  BY DEF IInv, ItemIs
<1>2. status \in Begun /\ status \in Judged
  BY DEF Begun, Judged, Statuses
<1>3. Moves(status)
  BY <1>2 DEF EndAttempt, Moves, Busy
<1>4. Fits
  BY <1>1, BusyIsKnown DEF EndAttempt, Busy, Leaves, Settles, Fits, Moment, IInv, Types,
     PlaceIs, ItemIs, Threads
<1> QED
  BY <1>2, <1>3, <1>4, BusyIsKnown, MovesFits DEF EndAttempt

LEMMA ImplementedHolds ==
    ASSUME IInv, Busy, step = "development", op # "running" \/ doing = "recover", Implemented
    PROVE  IInv' /\ issue' = [issue EXCEPT ![cursor.issue] = "IN_REVIEW"]
<1>1. "IN_REVIEW" \in Begun \ Judged
  BY DEF Begun, Judged, Statuses
<1>2. Moves("IN_REVIEW")
  BY <1>1 DEF Implemented, Moves, Busy
<1>3. Fits
  BY BusyIsKnown DEF Implemented, Busy, Fits, Moment, IInv, Types, PlaceIs, ItemIs,
     Threads, Then, Phases, Archived
<1> QED
  BY <1>1, <1>2, <1>3, BusyIsKnown, MovesFits DEF Implemented

LEMMA AcceptedHolds ==
    ASSUME IInv, Busy, op # "running" \/ doing = "recover", Accepted
    PROVE  IInv' /\ issue' = [issue EXCEPT ![cursor.issue] = "IN_QA"]
<1>1. "IN_QA" \in Begun \ Judged
  BY DEF Begun, Judged, Statuses
<1>2. Moves("IN_QA")
  BY <1>1 DEF Accepted, Moves, Busy
<1>3. Fits
  BY BusyIsKnown DEF Accepted, Busy, Fits, Moment, IInv, Types, PlaceIs, ItemIs, Threads,
     Then, Phases, Archived
<1> QED
  BY <1>1, <1>2, <1>3, BusyIsKnown, MovesFits DEF Accepted

LEMMA RecordedHolds ==
    ASSUME IInv, Busy, ~Archived, op # "running" \/ doing = "recover",
           doing \in {"turn", "recover"},
           NEW status \in {"COMPLETED", "CHANGES_REQUESTED"}, NEW end, Recorded(status, end)
    PROVE  IInv' /\ issue' = [issue EXCEPT ![cursor.issue] = status]
<1>1. status \in Begun /\ status \in Judged
  BY DEF Begun, Judged, Statuses
<1>2. Moves(status)
  BY <1>1 DEF Recorded, Moves, Busy
<1>3. Fits
  BY BusyIsKnown DEF Recorded, Busy, Fits, Moment, IInv, Types, PlaceIs, ItemIs, Threads,
     Then, Phases
<1> QED
  BY <1>1, <1>2, <1>3, BusyIsKnown, MovesFits DEF Recorded

-----------------------------------------------------------------------------
(* An issue is completed only as CompletionIsVerified says.                *)
Completes ==
    \A i \in Issues : issue'[i] = "COMPLETED" /\ issue[i] # "COMPLETED" =>
        impl = tree /\ accepted = tree /\ cursor.issue = i

LEMMA OtherStatusCompletesNothing ==
    ASSUME IInv, NEW i \in Issues, NEW status, status # "COMPLETED",
           issue' = [issue EXCEPT ![i] = status] \/ issue' = [Refresh(issue) EXCEPT ![i] = status]
    PROVE  Completes
<1>1. \A j \in Issues : Refresh(issue)[j] = "COMPLETED" => issue[j] = "COMPLETED"
  BY RefreshIs DEF IInv, Begun, Statuses
<1>2. issue \in [Issues -> Statuses] /\ Refresh(issue) \in [Issues -> Statuses]
  BY RefreshIs DEF IInv, Types
<1> QED
  BY <1>1, <1>2 DEF Completes

LEMMA StaysCompletesNothing ==
    ASSUME IInv, issue' = issue \/ issue' = Refresh(issue) PROVE Completes
  BY RefreshIs DEF IInv, Begun, Statuses, Completes

LEMMA DevelopmentEnds ==
    ASSUME IInv, DevelopmentSucceeds \/ DevelopmentBlocks \/ DevelopmentFails \/ RecoverDevelopment
    PROVE  IInv' /\ Completes
<1>1. cursor # None /\ Busy /\ step = "development" /\ cursor.issue \in Issues
  BY DEF DevelopmentSucceeds, DevelopmentBlocks, DevelopmentFails, RecoverDevelopment,
     Developing,
         Busy, IInv, PlaceIs, Types, Attempt
<1>2. ASSUME Archived, UnrecordedEnd PROVE IInv' /\ Completes
  BY <1>1, <1>2, UnrecordedEndHolds, StaysCompletesNothing
<1>3. ASSUME ~Archived, NEW status \in {"BLOCKED", "FAILED"}, NEW end, EndAttempt(status, end),
             doing' \in {"idle", "cancel"} \/ (doing' = "advance" /\ doing = "recover")
      PROVE  IInv' /\ Completes
  BY <1>1, <1>3, EndAttemptHolds, OtherStatusCompletesNothing
<1>4. ASSUME Implemented, op # "running" \/ doing = "recover" PROVE IInv' /\ Completes
  BY <1>1, <1>4, ImplementedHolds, OtherStatusCompletesNothing
<1>5. CASE DevelopmentSucceeds
  BY <1>4, <1>5 DEF DevelopmentSucceeds
<1>6. CASE DevelopmentBlocks
  BY <1>2, <1>3, <1>6 DEF DevelopmentBlocks, Then
<1>7. CASE DevelopmentFails
  BY <1>2, <1>3, <1>7 DEF DevelopmentFails, Then
<1>8. CASE RecoverDevelopment
  <2>1. CASE Implemented
    BY <2>1, <1>4, <1>8 DEF RecoverDevelopment
  <2>2. CASE IF Archived THEN UnrecordedEnd ELSE EndAttempt("BLOCKED", "BLOCKED") /\ doing' = "advance"
    BY <2>2, <1>2, <1>3, <1>8 DEF RecoverDevelopment
  <2>3. CASE /\ doing' = "turn" /\ UNCHANGED <<savedVars, unsure>>
    <3>1. Stays /\ Fits
      BY <2>3, <1>1, BusyIsKnown
         DEF savedVars, Stays, Fits, Moment, IInv, Types, PlaceIs, ItemIs, Threads,
             Archived, Busy, Phases
    <3> QED
      BY <3>1, StaysFits, StaysCompletesNothing DEF Stays
  <2>4. CASE /\ Leaves("PAUSED") /\ Then("idle")
             /\ UNCHANGED <<deps, step, issue, cursor, archive, impl, accepted>>
    <3>1. Stays /\ Fits
      BY <2>4, <1>1, BusyIsKnown
         DEF Leaves, Settles, Then, Stays, Fits, Moment, IInv, Types, PlaceIs, ItemIs,
             Threads, Phases, Busy
    <3> QED
      BY <3>1, StaysFits, StaysCompletesNothing DEF Stays
  <2> QED
    BY <1>8, <2>1, <2>2, <2>3, <2>4 DEF RecoverDevelopment
<1> QED
  BY <1>5, <1>6, <1>7, <1>8

LEMMA VerificationSteps ==
    ASSUME IInv,
           \/ StartVerification \/ VerificationEnds \/ VerificationBreaks
           \/ VerificationPauses \/ RecoverVerification
    PROVE  IInv' /\ Completes
<1>1. cursor # None => cursor.issue \in Issues
  BY DEF IInv, Types, Attempt
<1>2. ASSUME Busy, Archived, UnrecordedEnd PROVE IInv' /\ Completes
  BY <1>2, UnrecordedEndHolds, StaysCompletesNothing
<1>3. ASSUME Busy, ~Archived, NEW status \in {"BLOCKED", "FAILED"}, NEW end,
             EndAttempt(status, end), doing' \in {"idle", "cancel"}
      PROVE  IInv' /\ Completes
  BY <1>1, <1>3, EndAttemptHolds, OtherStatusCompletesNothing DEF Busy
<1>4. ASSUME Busy, BlockQa PROVE IInv' /\ Completes
  BY <1>2, <1>3, <1>4 DEF BlockQa, Then
<1>5. ASSUME Busy, BlockedOrFailed PROVE IInv' /\ Completes
  BY <1>2, <1>3, <1>5 DEF BlockedOrFailed, Then
<1>6. ASSUME Busy, doing \in {"turn", "recover"}, op # "running" \/ doing = "recover",
             Accepted \/ Verified \/ Returned \/ BlockedOrFailed
      PROVE  IInv' /\ Completes
  <2>1. CASE Accepted
    BY <2>1, <1>1, <1>6, AcceptedHolds, OtherStatusCompletesNothing DEF Busy
  <2>2. CASE Verified
    <3>1. ~Archived /\ Recorded("COMPLETED", "SUCCEEDED") /\ impl = tree /\ step = "qa"
      BY <2>2 DEF Verified, Moved
    <3>2. IInv' /\ issue' = [issue EXCEPT ![cursor.issue] = "COMPLETED"]
      BY <1>6, <3>1, RecordedHolds
    <3>3. accepted = impl
      BY <3>1 DEF IInv, PlaceIs
    <3>4. issue \in [Issues -> Statuses]
      BY DEF IInv, Types
    <3> QED
      BY <3>1, <3>2, <3>3, <3>4 DEF Completes
  <2>3. CASE Returned
    BY <2>3, <1>1, <1>6, RecordedHolds, OtherStatusCompletesNothing DEF Returned, Busy
  <2> QED
    BY <1>5, <1>6, <2>1, <2>2, <2>3
<1>7. CASE StartVerification
  <2>1. CASE step \in {"code-review", "qa"} /\ Prerequisites /\ ~(Moved /\ step = "code-review") /\ Moved
    BY <1>4, <1>7, <2>1 DEF StartVerification, Busy, Prerequisites
  <2>2. CASE ~(step \in {"code-review", "qa"} /\ Prerequisites /\ ~(Moved /\ step = "code-review") /\ Moved)
    <3>1. Stays /\ Fits
      BY <1>7, <2>2, BusyIsKnown
         DEF StartVerification, Refused, Ignored, Then, savedVars, counters, Stays, Fits,
             Moment, IInv, Types,
             PlaceIs, ItemIs, UnsureIs, Threads, Archived, Phases, Prerequisites
    <3> QED
      BY <3>1, StaysFits, StaysCompletesNothing DEF Stays
  <2> QED
    BY <2>1, <2>2
<1>8. ASSUME VerificationEnds \/ VerificationBreaks \/ VerificationPauses PROVE Busy
  BY <1>8 DEF VerificationEnds, VerificationBreaks, VerificationPauses, Verifying, Busy,
     IInv, PlaceIs
<1>9. CASE VerificationEnds
  BY <1>6, <1>8, <1>9 DEF VerificationEnds, Verifying
<1>10. CASE VerificationBreaks
  BY <1>2, <1>3, <1>8, <1>10 DEF VerificationBreaks, Then
<1>11. CASE VerificationPauses
  <2>1. CASE step = "qa" /\ Moved
    BY <1>4, <1>8, <1>11, <2>1 DEF VerificationPauses
  <2>2. CASE ~(step = "qa" /\ Moved)
    <3>1. Stays /\ Fits
      BY <1>8, <1>11, <2>2, BusyIsKnown
         DEF VerificationPauses, Busy, Verifying, Leaves, Settles, Then, counters, Stays,
             Fits, Moment, IInv,
             Types, PlaceIs, ItemIs, Threads, Phases
    <3> QED
      BY <3>1, StaysFits, StaysCompletesNothing DEF Stays
  <2> QED
    BY <2>1, <2>2
<1>12. CASE RecoverVerification
  <2>1. Busy
    BY <1>12 DEF RecoverVerification, Busy, IInv, PlaceIs
  <2> QED
    BY <1>6, <1>12, <2>1 DEF RecoverVerification
<1> QED
  BY <1>7, <1>9, <1>10, <1>11, <1>12

-----------------------------------------------------------------------------
(* The starts of an attempt.                                               *)

LEMMA FirstIssue ==
    ASSUME IInv, PrepareWorkspace \/ SaveManifest
    PROVE  IInv' /\ Completes
<1>1. cursor = None /\ unsure = None /\ op # "running"
  BY DEF PrepareWorkspace, SaveManifest, IInv, PlaceIs, UnsureIs, ItemIs
<1>2. Issues # {} => 1 \in 1..MaxAttempts
  BY BoundAssumption
<1>3. CASE PrepareWorkspace
  <2>1. /\ NextReady \in Issues /\ issue[NextReady] \notin Begun
        /\ \A d \in deps[NextReady] : issue[d] = "COMPLETED"
    BY <1>3, NextReadyIs DEF PrepareWorkspace, IInv
  <2>2. Starts(Refresh(issue), NextReady, 1)
    BY <1>1, <1>3 DEF PrepareWorkspace, Starts
  <2>3. Moment' /\ PlaceIs' /\ ItemIs' /\ unsure' = unsure
    BY <1>1, <1>3 DEF PrepareWorkspace, Moment, IInv, Types, PlaceIs, ItemIs, Threads,
       Phases, counters
  <2>4. issue[NextReady] # "COMPLETED" /\ issue[NextReady] \notin Judged
    BY <2>1 DEF Begun, Judged, Statuses
  <2>5. IInv'
    BY <1>1, <1>2, <2>1, <2>2, <2>3, <2>4, StartsFits
  <2> QED
    BY <1>3, <2>1, <2>5, OtherStatusCompletesNothing DEF PrepareWorkspace
<1>4. CASE SaveManifest
  <2>1. PICK i \in Issues : issue[i] = "IN_DEVELOPMENT" /\ cursor' = [issue |-> i, number |-> 1]
    BY <1>4 DEF SaveManifest
  <2>2. issue' = issue /\ issue \in [Issues -> Statuses]
    BY <1>4 DEF SaveManifest, IInv, Types
  <2>3. Starts(issue, i, 1)
    BY <1>4, <2>1, <2>2 DEF SaveManifest, Starts
  <2>4. Moment' /\ PlaceIs' /\ ItemIs' /\ unsure' = unsure
    BY <1>1, <1>4, <2>1, NoneAssumption, BoundAssumption
       DEF SaveManifest, Moment, IInv, Types, PlaceIs, ItemIs, Threads, counters,
           Attempt, Phases
  <2>5. \A d \in deps[i] : issue[d] = "COMPLETED"
    BY <2>1 DEF IInv, DependenciesFirst
  <2>6. IInv'
    BY <1>1, <1>2, <2>1, <2>3, <2>4, <2>5, StartsFits DEF Judged
  <2> QED
    BY <2>2, <2>6, StaysCompletesNothing
<1> QED
  BY <1>3, <1>4

(* Another attempt at a judged issue, after a return or a consent.         *)
LEMMA AgainHolds ==
    ASSUME IInv, NEW i \in Issues, issue[i] \in Judged \ {"COMPLETED"}, op # "running",
           StartAttempt(issue, i, Latest(i) + 1), doing' \in {"develop", "advance"},
           UNCHANGED <<deps, op, archive, unsure>>
    PROVE  IInv' /\ Completes
<1>1. PICK m \in 1..MaxAttempts : archive[i][m] # "open"
  BY DEF IInv, IssueIs
<1>2. Latest(i) \in 1..MaxAttempts
  BY <1>1, LatestIs DEF IInv
<1> DEFINE n == Latest(i) + 1
<1>3. n \in 1..MaxAttempts
  BY <1>2, BoundAssumption DEF StartAttempt
<1>4. Starts(issue, i, n)
  BY DEF StartAttempt, Starts
<1>5. [issue |-> i, number |-> n] # None
  BY <1>3, NoneAssumption DEF Attempt
<1>6. Moment' /\ PlaceIs' /\ ItemIs'
  BY <1>5 DEF StartAttempt, Moment, IInv, Types, PlaceIs, ItemIs, Threads, Phases
<1>7. \A d \in deps[i] : issue[d] = "COMPLETED"
  BY DEF IInv, DependenciesFirst, Judged
<1> HIDE DEF n
<1>8. IInv'
  BY <1>3, <1>4, <1>6, <1>7, StartsFits DEF n
<1> QED
  BY <1>8, OtherStatusCompletesNothing DEF StartAttempt

LEMMA AdvanceSteps ==
    ASSUME IInv, AdvanceReworks \/ AdvanceTakesNext \/ Authorize
    PROVE  IInv' /\ Completes
<1>1. op # "running"
  BY DEF AdvanceReworks, AdvanceTakesNext, Authorize, IInv, ItemIs
<1>2. CASE AdvanceReworks
  <2>1. cursor # None /\ cursor.issue \in Issues /\ issue[cursor.issue] = "CHANGES_REQUESTED"
    BY <1>2 DEF AdvanceReworks, IInv, Types, Attempt
  <2>2. CASE StartAttempt(issue, cursor.issue, Latest(cursor.issue) + 1) /\ AfterPrepared
    BY <1>1, <2>1, <2>2, AgainHolds DEF AfterPrepared, Judged
  <2>3. CASE /\ issue' = [issue EXCEPT ![cursor.issue] = "BLOCKED"]
             /\ Leaves("PAUSED") /\ doing' = "drain"
             /\ UNCHANGED <<deps, step, cursor, impl, accepted, archive>>
    <3>1. Moves("BLOCKED") /\ "BLOCKED" \in Begun
      BY <2>1, <2>3 DEF Moves, IInv, IssueIs, Judged, Begun, Statuses
    <3>2. cursor = unsure => unsure = None
      BY <1>2 DEF AdvanceReworks, IInv, UnsureIs
    <3>3. Fits
      BY <1>1, <1>2, <2>3, <3>2 DEF AdvanceReworks, Leaves, Settles, Fits, Moment, IInv,
         Types, PlaceIs, ItemIs, Threads
    <3> QED
      BY <2>1, <2>3, <3>1, <3>2, <3>3, MovesFits, OtherStatusCompletesNothing
  <2> QED
    BY <1>2, <2>2, <2>3 DEF AdvanceReworks
<1>3. CASE AdvanceTakesNext
  <2>1. doing \in {"drain", "advance"} /\ DrainOrPause
    BY <1>3 DEF AdvanceTakesNext
  <2>2. CASE StartAttempt(Refresh(issue), NextReady, 1) /\ AfterPrepared /\ NextReady # None
    <3>1. /\ NextReady \in Issues /\ issue[NextReady] \notin Begun
          /\ \A d \in deps[NextReady] : issue[d] = "COMPLETED"
      BY <2>2, NextReadyIs DEF IInv
    <3>2. Starts(Refresh(issue), NextReady, 1) /\ unsure' = unsure
      BY <2>2 DEF StartAttempt, AfterPrepared, Starts
    <3>3. [issue |-> NextReady, number |-> 1] # None /\ 1 \in 1..MaxAttempts
      BY <3>1, NoneAssumption, BoundAssumption DEF Attempt
    <3>4. Moment' /\ PlaceIs' /\ ItemIs'
      BY <1>1, <2>2, <3>3 DEF StartAttempt, AfterPrepared, Moment, IInv, Types, PlaceIs,
         ItemIs, Threads, Phases
    <3>5. issue[NextReady] # "COMPLETED" /\ issue[NextReady] \notin Judged
      BY <3>1 DEF Begun, Judged, Statuses
    <3>6. IInv'
      BY <3>1, <3>2, <3>3, <3>4, <3>5, StartsFits
    <3> QED
      BY <2>2, <3>1, <3>6, OtherStatusCompletesNothing DEF StartAttempt
  <2>3. CASE ~(StartAttempt(Refresh(issue), NextReady, 1) /\ AfterPrepared /\ NextReady # None)
    <3>1. Stays /\ Fits
      BY <1>1, <2>1, <2>3
         DEF DrainOrPause, Refused, Ignored, Leaves, Settles, Then, savedVars, counters,
             Stays, Fits, Moment,
             IInv, Types, PlaceIs, ItemIs, UnsureIs, Threads, Phases
    <3> QED
      BY <3>1, StaysFits, StaysCompletesNothing DEF Stays
  <2> QED
    BY <2>2, <2>3
<1>4. CASE Authorize
  <2>1. PICK i \in Issues : issue[i] \in {"BLOCKED", "FAILED"} /\ StartAttempt(issue, i, Latest(i) + 1)
    BY <1>4 DEF Authorize
  <2> QED
    BY <1>1, <1>4, <2>1, AgainHolds DEF Authorize, Judged
<1> QED
  BY <1>2, <1>3, <1>4

-----------------------------------------------------------------------------
LEMMA InitHolds == Init => IInv
<1> SUFFICES ASSUME Init PROVE IInv
  OBVIOUS
<1>1. deps \in [Issues -> SUBSET Issues]
  BY PackageAssumption DEF Init
<1>2. Types
  BY <1>1 DEF Init, Types, Statuses, Phases, Threads
<1>3. DependenciesFirst
  BY DEF Init, DependenciesFirst
<1> QED
  BY <1>2, <1>3 DEF Init, IInv, PlaceIs, IssueIs, ItemIs, UnsureIs, Judged, Phases

LEMMA NextHolds ==
    ASSUME IInv, [Next]_vars
    PROVE  IInv' /\ Completes
<1>1. CASE UNCHANGED vars
  <2>1. Stays /\ IInv'
    BY <1>1 DEF vars, savedVars, Stays, IInv, Types, PlaceIs, DependenciesFirst, IssueIs,
       ItemIs, UnsureIs, Archived
  <2> QED
    BY <2>1, StaysCompletesNothing DEF Stays
<1>2. CASE User
  BY <1>2, AnalysisSteps, TurnSteps, ControlSteps, AdvanceSteps,
     StaysCompletesNothing DEF User
<1>3. CASE Proceeds
  BY <1>3, AnalysisSteps, TurnSteps, ControlSteps, FirstIssue, AdvanceSteps,
     DevelopmentEnds, VerificationSteps,
     StaysCompletesNothing DEF Proceeds
<1>4. CASE TurnEnds
  BY <1>4, AnalysisSteps, TurnSteps, DevelopmentEnds, VerificationSteps,
     StaysCompletesNothing DEF TurnEnds
<1>5. CASE BindThread \/ StartTurn \/ StartItem \/ CompleteItem
  BY <1>5, TurnSteps, StaysCompletesNothing
<1>6. CASE UserEdit \/ Crash
  BY <1>6, ControlSteps, StaysCompletesNothing
<1> QED
  BY <1>1, <1>2, <1>3, <1>4, <1>5, <1>6 DEF Next

LEMMA IInvAlways == Spec => []IInv
<1>1. IInv /\ [Next]_vars => IInv'
  BY NextHolds
<1> QED
  BY <1>1, InitHolds, PTL DEF Spec

(* scheduler.py: for any package and however attempts end, are reworked,   *)
(* retried or lost, an issue is begun only behind completed dependencies,  *)
(* and none of those is opened again.                                      *)
THEOREM DependenciesAlwaysFirst == Spec => []DependenciesFirst
<1>1. IInv => DependenciesFirst
  BY DEF IInv
<1> QED
  BY <1>1, IInvAlways, PTL

(* recovery.py: however often the process dies, the attempt whose item in  *)
(* flight was lost is neither continued nor recovered; a new attempt has a *)
(* number of its own.                                                      *)
THEOREM UnknownIsNeverReplayed == Spec => []UnknownIsNotReplayed
<1>1. IInv => UnknownIsNotReplayed
  BY DEF IInv, UnsureIs, UnknownIsNotReplayed
<1> QED
  BY <1>1, IInvAlways, PTL

(* _finalize_qa: only the issue under the cursor is ever completed, with   *)
(* the files that were implemented and accepted in the workspace.          *)
THEOREM CompletionIsAlwaysVerified == Spec => CompletionIsVerified
<1>1. IInv /\ [Next]_vars =>
        [\A i \in Issues : issue'[i] = "COMPLETED" /\ issue[i] # "COMPLETED" =>
            impl = tree /\ accepted = tree /\ cursor.issue = i]_vars
  BY NextHolds DEF Completes
<1> QED
  BY <1>1, IInvAlways, PTL DEF Spec, CompletionIsVerified

=============================================================================
