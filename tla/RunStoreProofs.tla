--------------------------- MODULE RunStoreProofs ---------------------------
(***************************************************************************)
(* Proofs about RunStore, for any number of processes, process ids, events *)
(* and leases, and any number of deaths.                                   *)
(***************************************************************************)
EXTENDS RunStore, SequenceTheorems, TLAPS

-----------------------------------------------------------------------------
(* The operators on logs, for any log and snapshot.                        *)
Line == State \cup {Bad}
Regular(l) == \A i \in 1..Len(l) - 1 : l[i].seq = i
Whole(l) == \A i \in 1..Len(l) : l[i].seq = i
Kept(l) == IF l # <<>> /\ ~(l[Len(l)].seq = Len(l)) THEN SubSeq(l, 1, Len(l) - 1) ELSE l
View(s, l) == Newest(s, Kept(l))

LEMMA StateIs ==
    ASSUME NEW s \in State
    PROVE  s.seq \in Nat /\ s.seq \in 1..MaxSeq /\ s # Bad
BY BoundAssumption DEF State, Bad

(* A line in its place is an event.                                        *)
LEMMA EventIs ==
    ASSUME NEW l \in Seq(Line), NEW i \in 1..Len(l), l[i].seq = i
    PROVE  l[i] \in State
<1>1. l[i] \in Line BY ElementOfSeq
<1>2. Bad.seq = 0 BY DEF Bad
<1>3. i \in Nat /\ i # 0 BY LenProperties
<1> QED BY <1>1, <1>2, <1>3 DEF Line

(* What is left of a readable log once a torn line is cut off.             *)
LEMMA KeptIs ==
    ASSUME NEW l \in Seq(Line), Regular(l)
    PROVE  /\ Kept(l) \in Seq(Line) /\ Whole(Kept(l))
           /\ Whole(l) => Kept(l) = l
           /\ ~Whole(l) =>
                /\ l # <<>> /\ Len(l) # 0 /\ Len(Kept(l)) = Len(l) - 1
                /\ \A i \in 1..Len(l) - 1 : Kept(l)[i] = l[i]
<1> DEFINE n == Len(l)
<1>1. n \in Nat /\ (l # <<>> => n # 0) /\ (l = <<>> => n = 0) BY EmptySeq, LenProperties
<1>2. CASE l # <<>> /\ ~(l[n].seq = n)
  <2>1. \A i \in 1..n - 1 : l[i] \in Line BY <1>1, ElementOfSeq
  <2>2. /\ SubSeq(l, 1, n - 1) \in Seq(Line) /\ Len(SubSeq(l, 1, n - 1)) = n - 1
        /\ \A i \in 1..n - 1 : SubSeq(l, 1, n - 1)[i] = l[i]
    <3> HIDE DEF n
    <3>1. 1 \in Int /\ n - 1 \in Int /\ (1 <= n - 1 => (n - 1) - 1 + 1 = n - 1)
          /\ (~(1 <= n - 1) => n - 1 = 0)
      BY <1>1, <1>2
    <3>2. /\ SubSeq(l, 1, n - 1) \in Seq(Line)
          /\ Len(SubSeq(l, 1, n - 1)) = IF 1 <= n - 1 THEN (n - 1) - 1 + 1 ELSE 0
          /\ \A i \in 1..(n - 1) - 1 + 1 : SubSeq(l, 1, n - 1)[i] = l[1 + i - 1]
      BY <2>1, <3>1, SubSeqProperties
    <3> QED BY <3>1, <3>2, <1>1
  <2>3. Kept(l) = SubSeq(l, 1, n - 1) BY <1>2 DEF Kept
  <2>4. ~Whole(l) BY <1>1, <1>2 DEF Whole
  <2> HIDE DEF n
  <2>5. Regular(l) => \A i \in 1..n - 1 : l[i].seq = i BY DEF Regular, n
  <2>6. Whole(Kept(l)) BY <2>2, <2>3, <2>5, <1>1 DEF Whole
  <2> QED BY <2>2, <2>3, <2>4, <2>6, <1>1, <1>2 DEF n
<1>3. CASE ~(l # <<>> /\ ~(l[n].seq = n))
  <2>1. Kept(l) = l BY <1>3 DEF Kept
  <2>2. Whole(l) BY <1>1, <1>3 DEF Whole, Regular
  <2> QED BY <2>1, <2>2
<1> QED BY <1>2, <1>3

(* What a load makes of a snapshot and the events.                         *)
LEMMA NewestIs ==
    ASSUME NEW s \in State, NEW e \in Seq(Line), Whole(e)
    PROVE  /\ Newest(s, e) \in State
           /\ s.seq <= Newest(s, e).seq /\ Len(e) <= Newest(s, e).seq
           /\ Newest(s, e) = s \/ (/\ Newest(s, e).seq = Len(e) /\ s.seq < Len(e))
           /\ Len(e) <= s.seq => Newest(s, e) = s
           /\ Len(e) > s.seq => e # <<>> /\ Newest(s, e) = e[Len(e)]
<1>1. Len(e) \in Nat /\ (e # <<>> => Len(e) # 0) /\ (e = <<>> => Len(e) = 0)
  BY EmptySeq, LenProperties
<1>2. e # <<>> => e[Len(e)].seq = Len(e) /\ e[Len(e)] \in State
  BY <1>1, EventIs DEF Whole
<1>3. s.seq \in Nat /\ s.seq # 0 BY StateIs
<1> QED BY <1>1, <1>2, <1>3 DEF Newest

LEMMA ViewIs ==
    ASSUME NEW s \in State, NEW l \in Seq(Line), Regular(l)
    PROVE  /\ View(s, l) \in State
           /\ s.seq <= View(s, l).seq /\ Len(Kept(l)) <= View(s, l).seq
           /\ View(s, l) = s \/ (View(s, l).seq = Len(Kept(l)) /\ s.seq < Len(Kept(l)))
           /\ Len(Kept(l)) <= s.seq => View(s, l) = s
BY KeptIs, NewestIs DEF View

(* A line begun after a whole log.                                         *)
LEMMA AppendedBad ==
    ASSUME NEW l \in Seq(Line), Whole(l)
    PROVE  /\ Append(l, Bad) \in Seq(Line) /\ Append(l, Bad) # <<>>
           /\ Regular(Append(l, Bad)) /\ Kept(Append(l, Bad)) = l
           /\ Len(Append(l, Bad)) = Len(l) + 1
           /\ Append(l, Bad)[Len(Append(l, Bad))] = Bad
           /\ ~Whole(Append(l, Bad))
<1> DEFINE a == Append(l, Bad)
           n == Len(l)
<1>1. Bad \in Line /\ n \in Nat BY LenProperties DEF Line
<1>2. /\ a \in Seq(Line) /\ Len(a) = n + 1
      /\ \A i \in 1..n : a[i] = l[i]
      /\ a[n + 1] = Bad
  BY <1>1, AppendProperties
<1> HIDE DEF a
<1>3. Bad.seq = 0 BY DEF Bad
<1>4. Regular(a) BY <1>1, <1>2 DEF Regular, Whole
<1>5. ~Whole(a) BY <1>1, <1>2, <1>3 DEF Whole
<1>6. /\ Kept(a) \in Seq(Line) /\ Len(Kept(a)) = n /\ a # <<>>
      /\ \A i \in 1..n : Kept(a)[i] = l[i]
  <2>1. /\ Kept(a) \in Seq(Line) /\ a # <<>> /\ Len(Kept(a)) = Len(a) - 1
        /\ \A i \in 1..Len(a) - 1 : Kept(a)[i] = a[i]
    BY <1>2, <1>4, <1>5, KeptIs
  <2> QED BY <1>1, <1>2, <2>1
<1>7. Kept(a) = l BY <1>6, SeqEqual
<1> QED BY <1>2, <1>4, <1>5, <1>6, <1>7 DEF a

(* The last line of a whole log spoiled.                                   *)
LEMMA SpoiledLast ==
    ASSUME NEW l \in Seq(Line), Whole(l), l # <<>>, NEW a, a = [l EXCEPT ![Len(l)] = Bad]
    PROVE  /\ a \in Seq(Line) /\ a # <<>> /\ Regular(a) /\ ~Whole(a)
           /\ Len(a) = Len(l) /\ Len(Kept(a)) = Len(l) - 1
           /\ a[Len(a)] = Bad
<1> DEFINE n == Len(l)
<1>1. Bad \in Line /\ n \in Nat /\ n # 0 /\ n \in 1..n BY LenProperties, EmptySeq DEF Line
<1>2. /\ a \in Seq(Line) /\ Len(a) = n
      /\ \A i \in 1..n : a[i] = IF i = n THEN Bad ELSE l[i]
  BY <1>1, ExceptSeq
<1> HIDE DEF n
<1>3. Bad.seq = 0 BY DEF Bad
<1>4. \A i \in 1..n : l[i].seq = i BY DEF Whole, n
<1>5. Regular(a) /\ ~Whole(a) BY <1>1, <1>2, <1>3, <1>4 DEF Regular, Whole
<1>6. a # <<>> BY <1>1, <1>2, EmptySeq
<1> QED BY <1>1, <1>2, <1>5, <1>6, KeptIs DEF n

(* The last line of a log that ends in a piece of one completed.           *)
LEMMA CompletedLast ==
    ASSUME NEW l \in Seq(Line), Regular(l), l # <<>>, l[Len(l)] = Bad, NEW w \in State,
           NEW a, a = [l EXCEPT ![Len(l)] = w]
    PROVE  /\ a \in Seq(Line) /\ a # <<>> /\ Regular(a) /\ Len(a) = Len(l)
           /\ Len(Kept(l)) = Len(l) - 1 /\ Len(Kept(a)) >= Len(Kept(l))
           /\ Whole(a) => w.seq = Len(a)
<1> DEFINE n == Len(l)
<1>1. w \in Line /\ n \in Nat /\ n # 0 /\ n \in 1..n BY LenProperties, EmptySeq DEF Line
<1>2. /\ a \in Seq(Line) /\ Len(a) = n
      /\ \A i \in 1..n : a[i] = IF i = n THEN w ELSE l[i]
  BY <1>1, ExceptSeq
<1>3. l[n].seq = 0 BY DEF Bad
<1>4. ~Whole(l) BY <1>1, <1>3 DEF Whole
<1>5. Len(Kept(l)) = n - 1 BY <1>4, KeptIs
<1> HIDE DEF n
<1>6. \A i \in 1..n - 1 : l[i].seq = i BY DEF Regular, n
<1>7. Regular(a) BY <1>1, <1>2, <1>6 DEF Regular
<1>8. a # <<>> BY <1>1, <1>2, EmptySeq
<1>9. Whole(a) => w.seq = Len(a) BY <1>1, <1>2 DEF Whole
<1>10. Len(Kept(a)) = n \/ Len(Kept(a)) = n - 1 BY <1>2, <1>7, KeptIs
<1>11. Len(Kept(a)) >= Len(Kept(l)) BY <1>1, <1>5, <1>10
<1> QED BY <1>2, <1>5, <1>7, <1>8, <1>9, <1>11 DEF n

-----------------------------------------------------------------------------
(* Types.                                                                  *)
Shown == View(snap, log)

LEMMA StoredIsShown == Stored = Shown /\ Events = Kept(log)
BY DEF Stored, Shown, View, Kept, Events, Torn, CompleteEvent

LEMMA StoredIsShownNext == Stored' = Shown' /\ Events' = Kept(log')
BY DEF Stored, Shown, View, Kept, Events, Torn, CompleteEvent

LEMMA TypesBegin == Init => TypeOK
<1> SUFFICES ASSUME NEW p \in Procs, NEW i \in Pids,
                    LET first == [seq |-> 1, by |-> 1, run |-> "idle"]
                    IN  /\ log = <<first>> /\ bare = FALSE /\ snap = first
                        /\ lease = [id |-> 1, pid |-> i]
                        /\ lock = None
                        /\ pid = [q \in Procs |-> IF q = p THEN i ELSE None]
                        /\ mem = [q \in Procs |->
                                    IF q = p
                                    THEN [seq |-> 1, by |-> 1, run |-> "idle", lease |-> 1]
                                    ELSE None]
                        /\ at = [q \in Procs |-> "rest"]
                        /\ work = [q \in Procs |-> None]
                        /\ stream = [q \in Procs |-> "closed"]
                        /\ leases = 1 /\ acked = first /\ deaths = 0
                        /\ vanished = FALSE /\ crossed = FALSE
             PROVE  TypeOK
  BY DEF Init
<1> DEFINE first == [seq |-> 1, by |-> 1, run |-> "idle"]
<1>1. 1 \in 1..MaxSeq /\ 1 \in 1..MaxLeases /\ 0 \in 0..MaxDeaths /\ "idle" \in Runs
  BY BoundAssumption DEF Runs
<1>2. first \in State BY <1>1 DEF State
<1>3. [seq |-> 1, by |-> 1, run |-> "idle", lease |-> 1] \in Memory BY <1>1 DEF Memory
<1>4. log \in Seq(State \cup {Bad})
  <2> HIDE DEF first
  <2>1. log = <<first>> BY DEF first
  <2> QED BY <1>2, <2>1
<1>5. lease \in [id : 1..MaxLeases, pid : Pids] BY <1>1
<1>6. \A q \in Procs : pid[q] = None => mem[q] = None /\ at[q] = "rest" BY NoneAssumption
<1> QED BY <1>1, <1>2, <1>3, <1>4, <1>5, <1>6 DEF TypeOK, Writing, Recording

LEMMA PresentedIs == ASSUME NEW s \in State PROVE Presented(s) \in Runs
BY DEF Presented, State, Runs

LEMMA RecordedIs ==
    ASSUME NEW m \in Memory, NEW want \in Wants, m.seq < MaxSeq
    PROVE  [seq |-> m.seq + 1, by |-> m.lease, run |-> Recorded(m.run, want)] \in State
<1>1. Recorded(m.run, want) \in Runs BY WantsAssumption DEF Recorded, Runs
<1>2. m.seq + 1 \in 1..MaxSeq /\ m.lease \in 1..MaxLeases
  BY BoundAssumption DEF Memory
<1> QED BY <1>1, <1>2 DEF State

LEMMA TypesKeep ==
    ASSUME TypeOK, Regular(log), [Next]_vars,
           \A q \in Procs : Writing(q) => mem[q] # None,
           \A q \in Procs : at[q] = "checked" => Whole(log),
           \A q \in Procs : at[q] = "partial" /\ stream[q] = "line" => log # <<>>,
           bare => log # <<>>
    PROVE  TypeOK'
<1> USE DEF TypeOK, Writing, Recording
<1>w. /\ Watch => vanished' \in BOOLEAN
      /\ log \in Seq(Line) /\ Kept(log) \in Seq(Line) /\ Shown \in State
  BY KeptIs, ViewIs DEF Watch, Line, Shown
<1>1. ASSUME NEW p \in Procs, ReadFiles(p) PROVE TypeOK'
  <2>1. [state |-> Stored, keep |-> Events, torn |-> Torn] \in Load
    BY <1>w, StoredIsShown DEF Load, Line, Torn
  <2>2. work'[p] \in Load /\ at'[p] = "read" /\ \A q \in Procs \ {p} : work'[q] = work[q] /\ at'[q] = at[q]
    BY <1>1, <2>1 DEF ReadFiles
  <2>3. at' \in [Procs -> {"rest", "read"} \cup Recording] BY <1>1 DEF ReadFiles
  <2>4. work' \in [Procs -> Load \cup State \cup {None}] BY <1>1, <2>1 DEF ReadFiles
  <2> QED BY <1>1, <2>2, <2>3, <2>4 DEF ReadFiles, filesVars
<1>2. ASSUME NEW p \in Procs, FinishLoad(p) PROVE TypeOK'
  <2>1. at[p] = "read" /\ work[p] \in Load BY <1>2 DEF FinishLoad
  <2>2. work[p].state \in State /\ work[p].keep \in Seq(State \cup {Bad}) BY <2>1 DEF Load
  <2>3. [seq |-> work[p].state.seq, by |-> work[p].state.by, run |-> Presented(work[p].state),
         lease |-> work[p].state.by] \in Memory
    <3>1. Presented(work[p].state) \in Runs BY <2>2, PresentedIs
    <3>2. work[p].state.seq \in 1..MaxSeq /\ work[p].state.by \in 1..MaxLeases BY <2>2 DEF State
    <3> QED BY <3>1, <3>2 DEF Memory
  <2>4. mem' \in [Procs -> Memory \cup {None}] BY <1>2, <2>3 DEF FinishLoad
  <2>5. log' \in Seq(State \cup {Bad}) /\ bare' \in BOOLEAN BY <1>2, <2>2 DEF FinishLoad
  <2>6. stream' \in [Procs -> {"closed", "line", "glued"}] BY <1>2 DEF FinishLoad
  <2>7. /\ at' \in [Procs -> {"rest", "read"} \cup Recording]
        /\ work' \in [Procs -> Load \cup State \cup {None}]
        /\ at'[p] = "rest" /\ \A q \in Procs \ {p} : work'[q] = work[q] /\ at'[q] = at[q]
    BY <1>2 DEF FinishLoad
  <2>8. vanished' \in BOOLEAN /\ crossed' \in BOOLEAN BY <1>2, <1>w DEF FinishLoad
  <2>9. UNCHANGED <<snap, lease, lock, pid, leases, acked, deaths>> BY <1>2 DEF FinishLoad
  <2>10. pid[p] # None /\ \A q \in Procs \ {p} : mem'[q] = mem[q]
    BY <1>2, <2>1 DEF FinishLoad
  <2> QED BY <2>10, <2>4, <2>5, <2>6, <2>7, <2>8, <2>9
<1>3. ASSUME NEW p \in Procs, TakeLease(p) PROVE TypeOK'
  <2>1. mem[p] \in Memory /\ leases + 1 \in 1..MaxLeases BY <1>3, BoundAssumption DEF TakeLease
  <2>2. [mem[p] EXCEPT !.lease = leases + 1] \in Memory BY <2>1 DEF Memory
  <2>3. mem' = [mem EXCEPT ![p] = [mem[p] EXCEPT !.lease = leases + 1]] BY <1>3 DEF TakeLease
  <2>4. mem' \in [Procs -> Memory \cup {None}] BY <2>2, <2>3
  <2>5. pid[p] \in Pids BY <1>3, NoneAssumption DEF TakeLease
  <2>6. lease' \in [id : 1..MaxLeases, pid : Pids] BY <1>3, <2>1, <2>5 DEF TakeLease
  <2>7. \A q \in Procs \ {p} : mem'[q] = mem[q] BY <2>3
  <2> QED BY <1>3, <2>1, <2>4, <2>5, <2>6, <2>7 DEF TakeLease, filesVars
<1>4. ASSUME NEW p \in Procs, ReleaseLease(p) PROVE TypeOK'
  BY <1>4 DEF ReleaseLease, filesVars
<1>5. ASSUME NEW p \in Procs, NEW want \in Wants, CheckRecord(p, want) PROVE TypeOK'
  <2>1. mem[p] \in Memory /\ mem[p].seq < MaxSeq BY <1>5 DEF CheckRecord, OwnsLease
  <2>2. [seq |-> mem[p].seq + 1, by |-> mem[p].lease, run |-> Recorded(mem[p].run, want)] \in State
    BY <2>1, RecordedIs
  <2>3. work' \in [Procs -> Load \cup State \cup {None}] BY <1>5, <2>2 DEF CheckRecord
  <2>4. /\ at' \in [Procs -> {"rest", "read"} \cup Recording] /\ lock' \in Procs \cup {None}
        /\ stream' \in [Procs -> {"closed", "line", "glued"}]
    BY <1>5 DEF CheckRecord
  <2>5. at'[p] = "checked" /\ work'[p] \in State
        /\ \A q \in Procs \ {p} : work'[q] = work[q] /\ at'[q] = at[q]
    BY <1>5, <2>2 DEF CheckRecord
  <2>6. log' \in Seq(State \cup {Bad}) /\ bare' \in BOOLEAN /\ vanished' \in BOOLEAN
    BY <1>5, <1>w, StoredIsShown DEF CheckRecord, KeptEvents, Line
  <2>7. UNCHANGED <<snap, lease, pid, mem, leases, acked, crossed, deaths>> BY <1>5 DEF CheckRecord
  <2>8. pid[p] # None BY <1>5 DEF CheckRecord, OwnsLease
  <2> QED BY <2>3, <2>4, <2>5, <2>6, <2>7, <2>8
<1>6. ASSUME NEW p \in Procs, StartAppend(p) PROVE TypeOK'
  <2>1. Whole(log) /\ log \in Seq(Line) BY <1>6, <1>w DEF StartAppend
  <2>2. log' \in Seq(State \cup {Bad})
    BY <1>6, <2>1, AppendedBad, SpoiledLast DEF StartAppend, Line
  <2>3. /\ at' \in [Procs -> {"rest", "read"} \cup Recording]
        /\ stream' \in [Procs -> {"closed", "line", "glued"}]
        /\ bare' \in BOOLEAN /\ vanished' \in BOOLEAN
        /\ Writing(p) /\ at'[p] # "read" /\ \A q \in Procs \ {p} : at'[q] = at[q]
    BY <1>6, <1>w DEF StartAppend
  <2>4. UNCHANGED <<snap, lease, lock, pid, mem, work, leases, acked, crossed, deaths>>
    BY <1>6 DEF StartAppend
  <2> QED BY <2>2, <2>3, <2>4
<1>7. ASSUME NEW p \in Procs, AllButNewline(p) PROVE TypeOK'
  <2>1. at[p] = "partial" /\ work[p] \in State BY <1>7 DEF AllButNewline
  <2>2. log' \in Seq(State \cup {Bad}) /\ bare' \in BOOLEAN
    <3>1. CASE stream[p] = "line"
      <4>1. log # <<>> /\ Len(log) \in 1..Len(log)
        BY <2>1, <3>1, EmptySeq, LenProperties
      <4>2. log' = [log EXCEPT ![Len(log)] = work[p]] /\ bare' = TRUE
        BY <1>7, <3>1 DEF AllButNewline
      <4>3. log \in Seq(State \cup {Bad}) /\ work[p] \in State \cup {Bad} BY <2>1
      <4> QED BY <4>1, <4>2, <4>3, ExceptSeq
    <3>2. CASE stream[p] # "line" BY <1>7, <3>2 DEF AllButNewline
    <3> QED BY <3>1, <3>2
  <2>3. /\ at' \in [Procs -> {"rest", "read"} \cup Recording]
        /\ vanished' \in BOOLEAN
        /\ Writing(p) /\ at'[p] # "read" /\ \A q \in Procs \ {p} : at'[q] = at[q]
    BY <1>7, <1>w DEF AllButNewline
  <2>4. UNCHANGED <<snap, lease, lock, pid, mem, work, stream, leases, acked, crossed, deaths>>
    BY <1>7 DEF AllButNewline
  <2> QED BY <2>2, <2>3, <2>4
<1>8. ASSUME NEW p \in Procs, EndAppend(p) PROVE TypeOK'
  <2>3. /\ at' \in [Procs -> {"rest", "read"} \cup Recording]
        /\ stream' \in [Procs -> {"closed", "line", "glued"}] /\ bare' \in BOOLEAN
        /\ Writing(p) /\ at'[p] # "read" /\ \A q \in Procs \ {p} : at'[q] = at[q]
    BY <1>8, <1>w DEF EndAppend
  <2>4. UNCHANGED <<log, snap, lease, lock, pid, mem, work, leases, acked, vanished, crossed, deaths>>
    BY <1>8 DEF EndAppend
  <2> QED BY <2>3, <2>4
<1>9. ASSUME NEW p \in Procs, Leave(p), Writing(p)
      PROVE  /\ at' \in [Procs -> {"rest", "read"} \cup Recording]
             /\ work' \in [Procs -> Load \cup State \cup {None}]
             /\ stream' \in [Procs -> {"closed", "line", "glued"}]
             /\ lock' \in Procs \cup {None}
             /\ at'[p] = "rest" /\ \A q \in Procs \ {p} : at'[q] = at[q]
             /\ \A q \in Procs : at'[q] = "read" => work'[q] \in Load
             /\ \A q \in Procs : at'[q] \in Recording => work'[q] \in State
  BY <1>9 DEF Leave
<1>10. ASSUME NEW p \in Procs, ReturnRecord(p) PROVE TypeOK'
  <2>1. Writing(p) /\ at[p] # "checked" BY <1>10 DEF ReturnRecord, ReplaceSnapshot
  <2>2. work[p] \in State BY <2>1
  <2>3. mem[p] \in Memory BY <2>1
  <2>4. [seq |-> work[p].seq, by |-> work[p].by, run |-> work[p].run, lease |-> mem[p].lease]
            \in Memory
    BY <2>2, <2>3 DEF State, Memory
  <2>5. mem' \in [Procs -> Memory \cup {None}] BY <1>10, <2>4 DEF ReturnRecord
  <2>6. snap' \in State /\ acked' \in State /\ vanished' \in BOOLEAN
    BY <1>10, <1>w, <2>2 DEF ReturnRecord, ReplaceSnapshot
  <2> QED BY <1>9, <1>10, <2>1, <2>5, <2>6 DEF ReturnRecord
<1>11. ASSUME NEW p \in Procs, FailRecord(p) PROVE TypeOK'
  <2>1. Writing(p) /\ work[p] \in State BY <1>11 DEF FailRecord
  <2>2. snap' \in State BY <1>11, <2>1 DEF FailRecord, ReplaceSnapshot
  <2> QED BY <1>9, <1>11, <1>w, <2>1, <2>2 DEF FailRecord
<1>12. ASSUME NEW p \in Procs, Boot(p) PROVE TypeOK'
  <2>1. /\ pid' \in [Procs -> Pids \cup {None}]
        /\ \A q \in Procs : pid'[q] = None => pid[q] = None
    BY <1>12, NoneAssumption DEF Boot
  <2> QED BY <1>12, <2>1 DEF Boot, filesVars
<1>13. ASSUME NEW p \in Procs, Die(p) PROVE TypeOK'
  <2>1. deaths' \in 0..MaxDeaths /\ lock' \in Procs \cup {None}
    BY <1>13, BoundAssumption DEF Die
  <2>2. /\ pid' \in [Procs -> Pids \cup {None}] /\ mem' \in [Procs -> Memory \cup {None}]
        /\ at' \in [Procs -> {"rest", "read"} \cup Recording]
        /\ work' \in [Procs -> Load \cup State \cup {None}]
        /\ stream' \in [Procs -> {"closed", "line", "glued"}]
        /\ mem'[p] = None /\ at'[p] = "rest"
        /\ \A q \in Procs \ {p} :
              pid'[q] = pid[q] /\ mem'[q] = mem[q] /\ at'[q] = at[q] /\ work'[q] = work[q]
    BY <1>13 DEF Die
  <2> QED BY <1>13, <2>1, <2>2 DEF Die, filesVars
<1>14. CASE UNCHANGED vars BY <1>14 DEF vars, filesVars, procVars
<1> QED BY <1>1, <1>2, <1>3, <1>4, <1>5, <1>6, <1>7, <1>8, <1>10, <1>11, <1>12, <1>13, <1>14
        DEF Next

-----------------------------------------------------------------------------
(* The inductive invariant.  A caller that holds a state as old as the     *)
(* stored one holds the stored one; the copy a load took before it repairs *)
(* the log is whole and no longer than what is stored, until two repairs   *)
(* cross; and whoever records is alone under the lock, ahead of the        *)
(* snapshot and, until repairs cross, at least level with the log.         *)
Fits(m, s) == m.seq <= s.seq /\ (m.seq = s.seq => m.by = s.by)

FilesAre ==
    /\ Regular(log) /\ (bare => log # <<>>)
    /\ snap = acked \/ acked.seq < snap.seq

EndStands == ~crossed /\ acked.run = "ended" => Shown = acked

WriterIs(p) ==
    Writing(p) =>
        /\ lock = p /\ mem[p] # None /\ snap.seq < work[p].seq
        /\ at[p] = "checked" => Whole(log)
        /\ (at[p] = "partial" /\ stream[p] # "closed") => (log # <<>> /\ log[Len(log)] = Bad)
        /\ ~crossed => /\ acked.run # "ended" /\ Len(log) <= work[p].seq
                       /\ at[p] = "checked" => Len(log) < work[p].seq

RepairIs(q) ==
    Repairs(q) /\ ~crossed =>
        /\ Len(work[q].keep) <= Shown.seq
        /\ bare /\ Whole(log) => Len(work[q].keep) < Len(log)
        /\ \A p \in Procs : Writing(p) => Len(work[q].keep) < work[p].seq

LoadIs(q) ==
    at[q] = "read" =>
        /\ Whole(work[q].keep)
        /\ ~vanished => /\ Fits(work[q].state, Shown)
                        /\ work[q].torn => Len(work[q].keep) <= Shown.seq

CallerIs(p) ==
    /\ mem[p] # None /\ ~vanished => Fits(mem[p], Shown)
    /\ at[p] = "checked" /\ ~vanished => mem[p].seq = Shown.seq

ProcIs(p) == WriterIs(p) /\ RepairIs(p) /\ LoadIs(p) /\ CallerIs(p)

IInv == TypeOK /\ FilesAre /\ EndStands /\ \A p \in Procs : ProcIs(p)

-----------------------------------------------------------------------------
(* What every step may assume of the files and of what they show.          *)
LEMMA FilesShow ==
    ASSUME IInv
    PROVE  /\ log \in Seq(Line) /\ Len(log) \in Nat /\ Regular(log)
           /\ snap \in State /\ acked \in State /\ Shown \in State
           /\ Kept(log) \in Seq(Line) /\ Whole(Kept(log)) /\ Len(Kept(log)) \in Nat
           /\ snap.seq <= Shown.seq /\ Len(Kept(log)) <= Shown.seq
           /\ Shown = snap \/ (Shown.seq = Len(Kept(log)) /\ snap.seq < Len(Kept(log)))
           /\ Whole(log) => Kept(log) = log
           /\ ~Whole(log) => log # <<>> /\ Len(log) # 0 /\ Len(Kept(log)) = Len(log) - 1
<1>1. log \in Seq(Line) /\ Regular(log) /\ snap \in State /\ acked \in State
  BY DEF IInv, TypeOK, FilesAre, Line
<1> QED BY <1>1, KeptIs, ViewIs, LenProperties DEF Shown

LEMMA ShowsNext ==
    ASSUME TypeOK', Regular(log')
    PROVE  /\ log' \in Seq(Line) /\ Len(log') \in Nat
           /\ snap' \in State /\ acked' \in State /\ Shown' \in State
           /\ Len(Kept(log')) \in Nat
           /\ snap'.seq <= Shown'.seq /\ Len(Kept(log')) <= Shown'.seq
           /\ Shown' = snap' \/ (Shown'.seq = Len(Kept(log')) /\ snap'.seq < Len(Kept(log')))
<1>1. log' \in Seq(Line) /\ snap' \in State /\ acked' \in State BY DEF TypeOK, Line
<1>2. Shown' = View(snap', log') BY DEF Shown
<1>3. Kept(log') \in Seq(Line) BY <1>1, KeptIs
<1> QED BY <1>1, <1>2, <1>3, ViewIs, LenProperties

(* Until something visible was lost, what is shown only moves forward.     *)
Forward == ~vanished' => ~vanished /\ (Shown' = Shown \/ Shown.seq < Shown'.seq)

LEMMA WatchIs ==
    ASSUME Watch, Shown \in State, Shown' \in State
    PROVE  Forward
<1>1. Shown.seq \in Nat /\ Shown'.seq \in Nat BY StateIs
<1>2. SUFFICES ASSUME ~vanished'
               PROVE  ~vanished /\ (Shown' = Shown \/ Shown.seq < Shown'.seq)
  BY DEF Forward
<1>3. vanished' = (vanished \/ (Stored' # Stored /\ Stored'.seq <= Stored.seq)) BY DEF Watch
<1>4. ~(vanished \/ (Stored' # Stored /\ Stored'.seq <= Stored.seq)) BY <1>2, <1>3, Zenon
<1> QED BY <1>1, <1>4, StoredIsShown, StoredIsShownNext

LEMMA LoadStays ==
    ASSUME TypeOK, NEW q \in Procs, LoadIs(q), Forward, Shown \in State, Shown' \in State,
           at'[q] = "read" => at[q] = "read" /\ work'[q] = work[q]
    PROVE  LoadIs(q)'
<1> SUFFICES ASSUME at[q] = "read", work'[q] = work[q] PROVE LoadIs(q)'
  BY DEF LoadIs
<1>1. work[q].state \in State /\ work[q].keep \in Seq(Line) BY DEF TypeOK, Load, Line
<1>2. /\ Shown.seq \in Nat /\ Shown'.seq \in Nat /\ work[q].state.seq \in Nat
      /\ Len(work[q].keep) \in Nat
  BY <1>1, StateIs, LenProperties
<1> QED BY <1>2 DEF LoadIs, Forward, Fits

LEMMA CallerStays ==
    ASSUME TypeOK, NEW q \in Procs, CallerIs(q), Forward, Shown \in State, Shown' \in State,
           mem'[q] = mem[q],
           at'[q] = "checked" => at[q] = "checked" /\ (~vanished' => Shown' = Shown)
    PROVE  CallerIs(q)'
<1>1. mem[q] # None => mem[q].seq \in Nat BY DEF TypeOK, Memory
<1>2. Shown.seq \in Nat /\ Shown'.seq \in Nat BY StateIs
<1> QED BY <1>1, <1>2 DEF CallerIs, Forward, Fits

(* Steps that leave the files alone.                                       *)
LEMMA QuietKeeps ==
    ASSUME IInv, TypeOK', UNCHANGED <<log, bare, snap, acked, vanished, crossed>>,
           \A p \in Procs :
                /\ mem'[p] # None =>
                        mem[p] # None /\ mem'[p].seq = mem[p].seq /\ mem'[p].by = mem[p].by
                /\ \/ at'[p] = "rest"
                   \/ /\ at'[p] = at[p] /\ work'[p] = work[p] /\ stream'[p] = stream[p]
                      /\ Writing(p) => lock' = lock /\ mem'[p] = mem[p]
    PROVE  IInv'
<1>1. Shown' = Shown BY DEF Shown
<1>2. FilesAre' /\ EndStands' BY <1>1 DEF IInv, FilesAre, EndStands
<1>3. ASSUME NEW p \in Procs PROVE ProcIs(p)'
  <2>1. WriterIs(p) /\ RepairIs(p) /\ LoadIs(p) /\ CallerIs(p) BY DEF IInv, ProcIs
  <2>2. WriterIs(p)' BY <2>1 DEF WriterIs, Writing, Recording
  <2>3. \A q \in Procs : Writing(q)' => Writing(q) /\ work'[q] = work[q]
    BY DEF Writing, Recording
  <2>4. RepairIs(p)' BY <1>1, <2>1, <2>3 DEF RepairIs, Repairs
  <2>5. LoadIs(p)' BY <1>1, <2>1 DEF LoadIs
  <2>6. CallerIs(p)'
    <3>1. at'[p] = "checked" => at[p] = "checked" /\ mem'[p] = mem[p]
      BY DEF Writing, Recording
    <3> QED BY <1>1, <2>1, <3>1 DEF CallerIs, Fits
  <2> QED BY <2>2, <2>4, <2>5, <2>6 DEF ProcIs
<1> QED BY <1>2, <1>3 DEF IInv

LEMMA ReadFilesKeeps ==
    ASSUME IInv, TypeOK', NEW p \in Procs, ReadFiles(p)
    PROVE  IInv'
<1>1. /\ UNCHANGED <<log, bare, snap, acked, vanished, crossed, mem, stream, lock>>
      /\ \A q \in Procs \ {p} : at'[q] = at[q] /\ work'[q] = work[q]
      /\ at[p] = "rest" /\ at'[p] = "read"
      /\ work'[p] = [state |-> Shown, keep |-> Kept(log), torn |-> Torn]
  BY StoredIsShown DEF ReadFiles, filesVars, IInv, TypeOK
<1>2. Shown' = Shown BY <1>1 DEF Shown
<1>3. work'[p].state = Shown /\ work'[p].keep = Kept(log) /\ work'[p].torn = Torn BY <1>1
<1>4. Torn <=> ~Whole(log)
  <2>1. Torn => ~Whole(log)
    <3>1. log # <<>> => Len(log) \in 1..Len(log) BY FilesShow, EmptySeq
    <3> QED BY <3>1 DEF Torn, CompleteEvent, Whole
  <2>2. ~Whole(log) => Torn BY FilesShow DEF Torn, CompleteEvent, Whole, Regular
  <2> QED BY <2>1, <2>2
<1>5. FilesAre' /\ EndStands' BY <1>1, <1>2 DEF IInv, FilesAre, EndStands
<1>6. ASSUME NEW q \in Procs PROVE ProcIs(q)'
  <2>1. WriterIs(q) /\ RepairIs(q) /\ LoadIs(q) /\ CallerIs(q) BY DEF IInv, ProcIs
  <2>2. WriterIs(q)' BY <1>1, <2>1 DEF WriterIs, Writing, Recording
  <2>3. \A r \in Procs : Writing(r)' => r # p /\ Writing(r) /\ work'[r] = work[r]
    BY <1>1 DEF Writing, Recording
  <2>4. RepairIs(q)'
    <3>1. CASE q # p BY <1>1, <1>2, <2>1, <2>3, <3>1 DEF RepairIs, Repairs
    <3>2. CASE q = p
      <4> SUFFICES ASSUME ~Whole(log), ~crossed
                   PROVE  /\ Len(Kept(log)) <= Shown.seq
                          /\ \A r \in Procs : Writing(r) => Len(Kept(log)) < work[r].seq
        BY <1>1, <1>2, <1>3, <1>4, <2>3, <3>2 DEF RepairIs, Repairs
      <4>1. ASSUME NEW r \in Procs, Writing(r) PROVE Len(Kept(log)) < work[r].seq
        <5>1. Len(log) <= work[r].seq BY <4>1 DEF IInv, ProcIs, WriterIs
        <5>2. work[r].seq \in Nat BY <4>1, StateIs DEF IInv, TypeOK
        <5> QED BY <5>1, <5>2, FilesShow
      <4> QED BY <4>1, FilesShow
    <3> QED BY <3>1, <3>2
  <2>5. LoadIs(q)'
    <3>1. CASE q # p BY <1>1, <1>2, <2>1, <3>1 DEF LoadIs
    <3>2. CASE q = p
      <4>1. Shown.seq \in Nat BY FilesShow, StateIs
      <4> QED BY <1>1, <1>2, <1>3, <3>2, <4>1, FilesShow DEF LoadIs, Fits
    <3> QED BY <3>1, <3>2
  <2>6. CallerIs(q)' BY <1>1, <1>2, <2>1 DEF CallerIs
  <2> QED BY <2>2, <2>4, <2>5, <2>6 DEF ProcIs
<1> QED BY <1>5, <1>6 DEF IInv

LEMMA FinishLoadKeeps ==
    ASSUME IInv, TypeOK', NEW p \in Procs, FinishLoad(p)
    PROVE  IInv'
<1> DEFINE k == work[p].keep
           s == work[p].state
<1>1. /\ at[p] = "read" /\ at'[p] = "rest" /\ mem'[p].seq = s.seq /\ mem'[p].by = s.by
      /\ \A q \in Procs \ {p} : at'[q] = at[q] /\ work'[q] = work[q] /\ mem'[q] = mem[q]
      /\ UNCHANGED <<snap, lock, acked>>
  BY DEF FinishLoad, IInv, TypeOK
<1>2. /\ work[p] \in Load /\ s \in State /\ k \in Seq(Line) /\ work[p].torn \in BOOLEAN
  BY <1>1 DEF IInv, TypeOK, Load, Line
<1>3. WriterIs(p) /\ RepairIs(p) /\ LoadIs(p) /\ CallerIs(p) BY DEF IInv, ProcIs
<1>4. Whole(k) BY <1>1, <1>3 DEF LoadIs
<1>5. CASE ~work[p].torn
  <2>1. UNCHANGED <<log, bare, stream>> BY <1>5 DEF FinishLoad
  <2>2. Shown' = Shown BY <1>1, <2>1 DEF Shown
  <2>3. vanished' = vanished /\ crossed' = crossed
    <3>1. Stored' = Stored /\ Stored.seq \in Nat
      BY <2>2, FilesShow, StateIs, StoredIsShown, StoredIsShownNext
    <3>2. ~(Stored'.seq < Stored.seq) BY <3>1
    <3>3. /\ vanished' = (vanished \/ (Stored' # Stored /\ Stored'.seq <= Stored.seq))
          /\ crossed' = (\/ crossed
                         \/ Stored'.seq < Stored.seq /\ \E q \in Procs \ {p} : Repairs(q))
      BY DEF FinishLoad, Watch
    <3>4. vanished \in BOOLEAN /\ crossed \in BOOLEAN BY DEF IInv, TypeOK
    <3> QED BY <3>1, <3>2, <3>3, <3>4, Zenon
  <2>4. FilesAre' /\ EndStands' BY <1>1, <2>1, <2>2, <2>3 DEF IInv, FilesAre, EndStands
  <2>5. ASSUME NEW q \in Procs PROVE ProcIs(q)'
    <3>1. WriterIs(q) /\ RepairIs(q) /\ LoadIs(q) /\ CallerIs(q) BY DEF IInv, ProcIs
    <3>2. WriterIs(q)' BY <1>1, <2>1, <2>3, <3>1 DEF WriterIs, Writing, Recording
    <3>3. \A r \in Procs : Writing(r)' => r # p /\ Writing(r) /\ work'[r] = work[r]
      BY <1>1 DEF Writing, Recording
    <3>4. RepairIs(q)' BY <1>1, <2>1, <2>2, <2>3, <3>1, <3>3 DEF RepairIs, Repairs
    <3>5. LoadIs(q)' BY <1>1, <2>2, <2>3, <3>1 DEF LoadIs
    <3>6. CallerIs(q)'
      <4>1. CASE q = p BY <1>1, <1>3, <2>2, <2>3, <4>1 DEF CallerIs, LoadIs, Fits
      <4>2. CASE q # p BY <1>1, <2>2, <2>3, <3>1, <4>2 DEF CallerIs
      <4> QED BY <4>1, <4>2
    <3> QED BY <3>2, <3>4, <3>5, <3>6 DEF ProcIs
  <2> QED BY <2>4, <2>5 DEF IInv
<1>6. CASE work[p].torn
  <2>1. log' = k /\ bare' = FALSE /\ \A q \in Procs : stream'[q] = "closed"
    BY <1>6 DEF FinishLoad
  <2>2. Regular(log') /\ Whole(log') /\ Kept(log') = k
    <3>1. Len(k) \in Nat BY <1>2, LenProperties
    <3>2. Regular(k) BY <1>4, <3>1 DEF Whole, Regular
    <3> QED BY <1>2, <1>4, <2>1, <3>2, KeptIs
  <2>3. /\ Shown' \in State
        /\ Shown' = snap \/ (Shown'.seq = Len(k) /\ snap.seq < Len(k))
        /\ Len(k) \in Nat /\ Shown \in State /\ snap.seq <= Shown.seq
        /\ snap \in State /\ snap.seq \in Nat /\ Shown.seq \in Nat /\ Shown'.seq \in Nat
    BY <1>1, <2>2, ShowsNext, FilesShow, StateIs
  <2>4. Forward
    <3>1. Watch BY DEF FinishLoad
    <3> QED BY <2>3, <3>1, WatchIs
  <2>5. ~crossed' => /\ ~crossed
                     /\ \A q \in Procs \ {p} : Repairs(q) => Shown.seq <= Shown'.seq
    <3> SUFFICES ASSUME ~crossed'
                 PROVE  /\ ~crossed
                        /\ \A q \in Procs \ {p} : Repairs(q) => Shown.seq <= Shown'.seq
      OBVIOUS
    <3>1. crossed' = (\/ crossed
                      \/ Stored'.seq < Stored.seq /\ \E q \in Procs \ {p} : Repairs(q))
      BY DEF FinishLoad
    <3>2. ~crossed /\ ~(Stored'.seq < Stored.seq /\ \E q \in Procs \ {p} : Repairs(q))
      BY <3>1, Zenon
    <3> QED BY <2>3, <3>2, StoredIsShown, StoredIsShownNext
  <2>6. FilesAre' BY <1>1, <2>1, <2>2 DEF IInv, FilesAre
  <2>7. EndStands'
    <3> SUFFICES ASSUME ~crossed', acked.run = "ended" PROVE Shown' = acked
      BY <1>1 DEF EndStands
    <3>1. Shown = acked BY <2>5 DEF IInv, EndStands
    <3>2. snap = acked BY <2>3, <3>1 DEF IInv, FilesAre
    <3>3. Len(k) <= Shown.seq BY <1>1, <1>3, <1>6, <2>5 DEF RepairIs, Repairs
    <3> QED BY <2>3, <3>1, <3>2, <3>3
  <2>8. ASSUME NEW q \in Procs PROVE ProcIs(q)'
    <3>1. WriterIs(q) /\ RepairIs(q) /\ LoadIs(q) /\ CallerIs(q) BY DEF IInv, ProcIs
    <3>2. WriterIs(q)'
      <4> SUFFICES ASSUME Writing(q)' PROVE WriterIs(q)' BY DEF WriterIs
      <4>1. q # p /\ Writing(q) /\ at'[q] = at[q] /\ work'[q] = work[q] /\ mem'[q] = mem[q]
        BY <1>1 DEF Writing, Recording
      <4>2. work[q].seq \in Nat BY <4>1, StateIs DEF IInv, TypeOK
      <4>3. ~crossed' => Len(k) < work[q].seq BY <1>1, <1>3, <1>6, <2>5, <4>1 DEF RepairIs, Repairs
      <4>4. /\ lock' = q /\ mem'[q] # None /\ snap'.seq < work'[q].seq
            /\ ~crossed' => acked'.run # "ended"
        BY <1>1, <2>5, <3>1, <4>1 DEF WriterIs
      <4> QED BY <2>1, <2>2, <2>3, <4>1, <4>2, <4>3, <4>4 DEF WriterIs
    <3>3. \A r \in Procs : Writing(r)' => Writing(r) /\ work'[r] = work[r]
      BY <1>1 DEF Writing, Recording
    <3>4. RepairIs(q)'
      <4> SUFFICES ASSUME Repairs(q)', ~crossed'
                   PROVE  /\ Len(work[q].keep) <= Shown'.seq
                          /\ \A r \in Procs : Writing(r) => Len(work[q].keep) < work[r].seq
        BY <1>1, <2>1, <3>3 DEF RepairIs, Repairs
      <4>1. q # p /\ Repairs(q) BY <1>1 DEF Repairs
      <4>2. Len(work[q].keep) \in Nat BY <4>1, LenProperties DEF Repairs, IInv, TypeOK, Load
      <4> QED BY <2>3, <2>5, <3>1, <4>1, <4>2 DEF RepairIs
    <3>5. LoadIs(q)'
      <4>1. at'[q] = "read" => at[q] = "read" /\ work'[q] = work[q] BY <1>1
      <4>2. TypeOK BY DEF IInv
      <4> QED BY <2>3, <2>4, <3>1, <4>1, <4>2, LoadStays
    <3>6. CallerIs(q)'
      <4>1. CASE q = p
        <5>1. s.seq \in Nat BY <1>2, StateIs
        <5> QED BY <1>1, <1>3, <2>3, <2>4, <4>1, <5>1 DEF CallerIs, LoadIs, Fits, Forward
      <4>2. CASE q # p
        <5>1. ~vanished' => Shown' = Shown
          BY <1>1, <1>3, <1>6, <2>3, <2>4 DEF LoadIs, Forward
        <5>2. TypeOK /\ mem'[q] = mem[q] /\ at'[q] = at[q] BY <1>1, <4>2 DEF IInv
        <5> QED BY <2>3, <2>4, <3>1, <5>1, <5>2, CallerStays
      <4> QED BY <4>1, <4>2
    <3> QED BY <3>2, <3>4, <3>5, <3>6 DEF ProcIs
  <2> QED BY <2>6, <2>7, <2>8 DEF IInv
<1> QED BY <1>2, <1>5, <1>6

(* Nobody records while the lock is free, and two processes never do.      *)
LEMMA OneWriter ==
    ASSUME IInv, NEW p \in Procs, Writing(p) \/ lock = None
    PROVE  \A q \in Procs \ {p} : ~Writing(q)
BY NoneAssumption DEF IInv, ProcIs, WriterIs

LEMMA CheckRecordKeeps ==
    ASSUME IInv, TypeOK', NEW p \in Procs, NEW want \in Wants, CheckRecord(p, want)
    PROVE  IInv'
<1>1. /\ at[p] = "rest" /\ at'[p] = "checked" /\ lock' = p
      /\ \A q \in Procs \ {p} : at'[q] = at[q] /\ work'[q] = work[q]
      /\ work'[p].seq = mem[p].seq + 1
      /\ UNCHANGED <<snap, mem, acked, crossed>>
      /\ mem[p] # None /\ mem[p] \in Memory /\ lock = None
      /\ bare' = (bare /\ ~Torn) /\ log' = Kept(log)
  BY StoredIsShown DEF CheckRecord, OwnsLease, KeptEvents, IInv, TypeOK
<1>2. mem[p].seq = Shown.seq /\ Shown.run # "ended"
  BY StoredIsShown DEF CheckRecord, IsFresh
<1>3. Regular(log') /\ Whole(log') /\ Kept(log') = log'
  <2>1. Regular(Kept(log)) BY FilesShow DEF Whole, Regular
  <2> QED BY <1>1, <2>1, FilesShow, KeptIs
<1>4. Shown' = Shown BY <1>1, <1>3 DEF Shown, View
<1>5. Forward BY <1>4, FilesShow, WatchIs DEF CheckRecord
<1>6. Whole(log) => log' = log BY <1>1, FilesShow
<1>7. bare' => Whole(log) /\ log # <<>>
  <2>1. bare' => bare /\ ~Torn BY <1>1
  <2>2. ~Torn => Whole(log) BY FilesShow DEF Torn, CompleteEvent, Whole, Regular
  <2> QED BY <2>1, <2>2 DEF IInv, FilesAre
<1>8. FilesAre' BY <1>1, <1>3, <1>6, <1>7 DEF IInv, FilesAre
<1>9. EndStands' BY <1>1, <1>4 DEF IInv, EndStands
<1>10. /\ Shown.seq \in Nat /\ snap.seq \in Nat /\ snap.seq <= Shown.seq
       /\ Len(log') <= Shown.seq /\ Len(log') \in Nat
  BY <1>1, FilesShow, StateIs
<1>11. \A q \in Procs \ {p} : ~Writing(q)' BY <1>1, OneWriter DEF Writing
<1>12. ASSUME NEW q \in Procs PROVE ProcIs(q)'
  <2>1. WriterIs(q) /\ RepairIs(q) /\ LoadIs(q) /\ CallerIs(q) BY DEF IInv, ProcIs
  <2>2. WriterIs(q)'
    <3>1. CASE q = p
      <4>1. ~crossed => acked.run # "ended" BY <1>2 DEF IInv, EndStands
      <4> QED BY <1>1, <1>2, <1>3, <1>10, <3>1, <4>1 DEF WriterIs
    <3>2. CASE q # p BY <1>11, <3>2 DEF WriterIs
    <3> QED BY <3>1, <3>2
  <2>3. RepairIs(q)'
    <3> SUFFICES ASSUME Repairs(q)', ~crossed
                 PROVE  /\ Len(work[q].keep) <= Shown.seq
                        /\ bare' => Len(work[q].keep) < Len(log')
                        /\ Len(work[q].keep) < mem[p].seq + 1
      BY <1>1, <1>4, <1>11 DEF RepairIs, Repairs
    <3>1. q # p /\ Repairs(q) BY <1>1 DEF Repairs
    <3>2. Len(work[q].keep) \in Nat BY <3>1, LenProperties DEF Repairs, IInv, TypeOK, Load
    <3>3. bare' => bare BY <1>1
    <3> QED BY <1>2, <1>6, <1>7, <1>10, <2>1, <3>1, <3>2, <3>3 DEF RepairIs
  <2>4. LoadIs(q)' BY <1>1, <1>4, <1>5, <2>1, FilesShow, LoadStays DEF IInv
  <2>5. CallerIs(q)'
    <3>1. CASE q = p BY <1>1, <1>2, <1>4, <1>5, <2>1, <3>1 DEF CallerIs, Fits, Forward
    <3>2. CASE q # p BY <1>1, <1>4, <1>5, <2>1, <3>2, FilesShow, CallerStays DEF IInv
    <3> QED BY <3>1, <3>2
  <2> QED BY <2>2, <2>3, <2>4, <2>5 DEF ProcIs
<1> QED BY <1>8, <1>9, <1>12 DEF IInv

(* The steps of the process that records: what is left to show is what     *)
(* became of the files and of the process itself.                          *)
LEMMA WriterMoves ==
    ASSUME IInv, TypeOK', NEW p \in Procs, Writing(p), FilesAre', EndStands', Forward,
           crossed' = crossed, at'[p] \notin {"checked", "read"},
           Writing(p)' => work'[p] = work[p],
           \A q \in Procs \ {p} : at'[q] = at[q] /\ work'[q] = work[q] /\ mem'[q] = mem[q],
           WriterIs(p)', CallerIs(p)',
           \A q \in Procs : Repairs(q) /\ ~crossed =>
                /\ Len(work[q].keep) <= Shown'.seq
                /\ bare' /\ Whole(log') => Len(work[q].keep) < Len(log')
    PROVE  IInv'
<1>1. \A q \in Procs \ {p} : ~Writing(q) /\ ~Writing(q)'
  BY OneWriter DEF Writing
<1>2. Shown \in State /\ Shown' \in State /\ TypeOK
  BY FilesShow, ShowsNext DEF FilesAre, IInv
<1>3. ASSUME NEW q \in Procs PROVE ProcIs(q)'
  <2>1. WriterIs(q) /\ RepairIs(q) /\ LoadIs(q) /\ CallerIs(q) BY DEF IInv, ProcIs
  <2>2. WriterIs(q)' BY <1>1 DEF WriterIs
  <2>3. RepairIs(q)'
    <3> SUFFICES ASSUME Repairs(q)', ~crossed
                 PROVE  /\ Len(work'[q].keep) <= Shown'.seq
                        /\ bare' /\ Whole(log') => Len(work'[q].keep) < Len(log')
                        /\ Writing(p)' => Len(work'[q].keep) < work'[p].seq
      BY <1>1 DEF RepairIs
    <3>1. q # p /\ Repairs(q) /\ work'[q] = work[q] BY DEF Repairs
    <3> QED BY <2>1, <3>1 DEF RepairIs
  <2>4. LoadIs(q)'
    <3>1. at'[q] = "read" => at[q] = "read" /\ work'[q] = work[q] OBVIOUS
    <3> QED BY <1>2, <2>1, <3>1, LoadStays
  <2>5. CallerIs(q)'
    <3>1. q # p => at'[q] # "checked" BY <1>1 DEF Writing, Recording
    <3> QED BY <1>2, <2>1, <3>1, CallerStays
  <2> QED BY <2>2, <2>3, <2>4, <2>5 DEF ProcIs
<1> QED BY <1>3 DEF IInv

LEMMA StartAppendKeeps ==
    ASSUME IInv, TypeOK', NEW p \in Procs, StartAppend(p)
    PROVE  IInv'
<1>1. /\ at[p] = "checked" /\ at'[p] = "partial" /\ bare' = FALSE
      /\ \A q \in Procs \ {p} : at'[q] = at[q]
      /\ UNCHANGED <<snap, lock, mem, work, acked, crossed>>
  BY DEF StartAppend, IInv, TypeOK
<1>2. Writing(p) /\ WriterIs(p) /\ CallerIs(p) BY <1>1 DEF IInv, ProcIs, Writing, Recording
<1>3. Whole(log) /\ Kept(log) = log BY <1>1, <1>2, FilesShow DEF WriterIs
<1>4. /\ Regular(log') /\ ~Whole(log') /\ log' # <<>> /\ log'[Len(log')] = Bad
      /\ bare => Len(log') = Len(log) /\ Len(Kept(log')) = Len(log) - 1
      /\ ~bare => Len(log') = Len(log) + 1 /\ Kept(log') = log
  <2>1. CASE bare
    <3>1. log # <<>> /\ log' = [log EXCEPT ![Len(log)] = Bad]
      BY <2>1 DEF IInv, FilesAre, StartAppend
    <3> QED BY <1>3, <2>1, <3>1, FilesShow, SpoiledLast
  <2>2. CASE ~bare
    <3>1. log' = Append(log, Bad) BY <2>2 DEF StartAppend
    <3> QED BY <1>3, <2>2, <3>1, FilesShow, AppendedBad
  <2> QED BY <2>1, <2>2
<1>5. /\ Shown' \in State /\ Shown'.seq \in Nat /\ Len(Kept(log')) <= Shown'.seq
      /\ Shown \in State /\ Len(Kept(log')) \in Nat
      /\ ~bare => Shown' = Shown
  <2>1. ~bare => Shown' = Shown BY <1>1, <1>3, <1>4 DEF Shown, View
  <2> QED BY <1>4, <2>1, FilesShow, ShowsNext, StateIs
<1>6. Forward
  <2>1. Watch BY DEF StartAppend
  <2> QED BY <1>5, <2>1, WatchIs
<1>7. FilesAre' BY <1>1, <1>4 DEF IInv, FilesAre
<1>8. EndStands' BY <1>1, <1>2 DEF WriterIs, EndStands
<1>9. WriterIs(p)'
  <2>1. work[p].seq \in Nat BY <1>2, StateIs DEF IInv, TypeOK
  <2>2. Len(log) \in Nat BY FilesShow
  <2>3. ~crossed => Len(log') <= work[p].seq BY <1>1, <1>2, <1>4, <2>1, <2>2 DEF WriterIs
  <2>4. /\ lock' = p /\ mem'[p] # None /\ snap'.seq < work'[p].seq
        /\ ~crossed' => acked'.run # "ended"
    BY <1>1, <1>2 DEF WriterIs
  <2> QED BY <1>1, <1>4, <2>3, <2>4 DEF WriterIs
<1>10. CallerIs(p)'
  <2>1. CallerIs(p) /\ TypeOK /\ mem'[p] = mem[p] /\ at'[p] # "checked"
    BY <1>1, <1>2 DEF IInv
  <2> QED BY <1>5, <1>6, <2>1, CallerStays
<1>11. ASSUME NEW q \in Procs, Repairs(q), ~crossed
       PROVE  Len(work[q].keep) <= Shown'.seq
  <2>1. Len(work[q].keep) \in Nat BY <1>11, LenProperties DEF Repairs, IInv, TypeOK, Load
  <2>2. RepairIs(q) BY DEF IInv, ProcIs
  <2>3. CASE ~bare BY <1>5, <1>11, <2>2, <2>3 DEF RepairIs
  <2>4. CASE bare
    <3>1. Len(work[q].keep) < Len(log) BY <1>3, <1>11, <2>2, <2>4 DEF RepairIs
    <3> QED BY <1>4, <1>5, <2>1, <2>4, <3>1, FilesShow
  <2> QED BY <2>3, <2>4
<1> QED BY <1>1, <1>2, <1>6, <1>7, <1>8, <1>9, <1>10, <1>11, WriterMoves

LEMMA AllButNewlineKeeps ==
    ASSUME IInv, TypeOK', NEW p \in Procs, AllButNewline(p)
    PROVE  IInv'
<1>1. /\ at[p] = "partial" /\ at'[p] = "bare"
      /\ \A q \in Procs \ {p} : at'[q] = at[q]
      /\ UNCHANGED <<snap, lock, mem, work, acked, crossed>>
  BY DEF AllButNewline, IInv, TypeOK
<1>2. Writing(p) /\ WriterIs(p) /\ CallerIs(p) BY <1>1 DEF IInv, ProcIs, Writing, Recording
<1>3. work[p] \in State /\ work[p].seq \in Nat BY <1>2, StateIs DEF IInv, TypeOK
<1>4. /\ Regular(log') /\ (bare' => log' # <<>>) /\ Len(log') = Len(log)
      /\ Len(Kept(log')) >= Len(Kept(log))
      /\ bare' /\ Whole(log') => Len(log') = work[p].seq \/ (bare /\ Whole(log) /\ log' = log)
  <2>1. CASE stream[p] = "line"
    <3>1. log # <<>> /\ log[Len(log)] = Bad BY <1>1, <1>2, <2>1 DEF WriterIs
    <3>2. log' = [log EXCEPT ![Len(log)] = work[p]] BY <2>1 DEF AllButNewline
    <3> QED BY <1>3, <3>1, <3>2, FilesShow, CompletedLast
  <2>2. CASE stream[p] # "line"
    <3>1. log' = log /\ bare' = bare BY <2>2 DEF AllButNewline
    <3> QED BY <3>1, FilesShow DEF IInv, FilesAre
  <2> QED BY <2>1, <2>2
<1>5. /\ Shown' \in State /\ Shown \in State /\ Shown.seq \in Nat /\ Shown'.seq \in Nat
      /\ Shown.seq <= Shown'.seq
  <2>1. snap.seq \in Nat /\ Shown.seq \in Nat /\ Shown'.seq \in Nat
    BY <1>4, FilesShow, ShowsNext, StateIs
  <2>2. Len(Kept(log')) <= Shown'.seq /\ snap.seq <= Shown'.seq BY <1>1, <1>4, ShowsNext
  <2>3. Shown = snap \/ Shown.seq = Len(Kept(log)) BY FilesShow
  <2>4. Len(Kept(log)) \in Nat /\ Len(Kept(log')) \in Nat BY <1>4, FilesShow, ShowsNext
  <2> QED BY <1>4, <2>1, <2>2, <2>3, <2>4, FilesShow, ShowsNext
<1>6. Forward
  <2>1. Watch BY DEF AllButNewline
  <2> QED BY <1>5, <2>1, WatchIs
<1>7. FilesAre' BY <1>1, <1>4 DEF IInv, FilesAre
<1>8. EndStands' BY <1>1, <1>2 DEF WriterIs, EndStands
<1>9. WriterIs(p)' BY <1>1, <1>2, <1>4 DEF WriterIs
<1>10. CallerIs(p)'
  <2>1. CallerIs(p) /\ TypeOK /\ mem'[p] = mem[p] /\ at'[p] # "checked"
    BY <1>1, <1>2 DEF IInv
  <2> QED BY <1>5, <1>6, <2>1, CallerStays
<1>11. ASSUME NEW q \in Procs, Repairs(q), ~crossed
       PROVE  /\ Len(work[q].keep) <= Shown'.seq
              /\ bare' /\ Whole(log') => Len(work[q].keep) < Len(log')
  <2>1. Len(work[q].keep) \in Nat BY <1>11, LenProperties DEF Repairs, IInv, TypeOK, Load
  <2>2. RepairIs(q) BY DEF IInv, ProcIs
  <2> QED BY <1>2, <1>4, <1>5, <1>11, <2>1, <2>2 DEF RepairIs
<1> QED BY <1>1, <1>2, <1>6, <1>7, <1>8, <1>9, <1>10, <1>11, WriterMoves

LEMMA EndAppendKeeps ==
    ASSUME IInv, TypeOK', NEW p \in Procs, EndAppend(p)
    PROVE  IInv'
<1>1. /\ at[p] = "bare" /\ at'[p] = "whole" /\ (bare' => bare) /\ stream'[p] = "closed"
      /\ \A q \in Procs \ {p} : at'[q] = at[q]
      /\ UNCHANGED <<log, snap, lock, mem, work, acked, vanished, crossed>>
  BY DEF EndAppend, IInv, TypeOK
<1>2. Writing(p) /\ WriterIs(p) /\ CallerIs(p) BY <1>1 DEF IInv, ProcIs, Writing, Recording
<1>3. Shown' = Shown BY <1>1 DEF Shown
<1>4. Forward BY <1>1, <1>3 DEF Forward
<1>5. FilesAre' /\ EndStands' BY <1>1, <1>3 DEF IInv, FilesAre, EndStands
<1>6. WriterIs(p)' BY <1>1, <1>2 DEF WriterIs
<1>7. CallerIs(p)' BY <1>1, <1>2, <1>3 DEF CallerIs
<1>8. \A q \in Procs : RepairIs(q) BY DEF IInv, ProcIs
<1>9. \A q \in Procs : Repairs(q) /\ ~crossed =>
          /\ Len(work[q].keep) <= Shown'.seq
          /\ bare' /\ Whole(log') => Len(work[q].keep) < Len(log')
  BY <1>1, <1>3, <1>8 DEF RepairIs
<1> QED BY <1>1, <1>2, <1>4, <1>5, <1>6, <1>7, <1>9, WriterMoves

(* A record that ends, with the new snapshot in place or without it.       *)
LEMMA LeaveKeeps ==
    ASSUME IInv, TypeOK', NEW p \in Procs, Writing(p), Leave(p), Watch,
           UNCHANGED <<log, bare, crossed>>, snap' = work[p] \/ snap' = snap,
           \/ acked' = acked /\ mem' = mem
           \/ /\ acked' = work[p] /\ snap' = work[p]
              /\ mem'[p].seq = work[p].seq /\ mem'[p].by = work[p].by
              /\ \A q \in Procs \ {p} : mem'[q] = mem[q]
    PROVE  IInv'
<1>1. /\ at'[p] = "rest" /\ \A q \in Procs \ {p} : at'[q] = at[q] /\ work'[q] = work[q]
  BY DEF Leave, IInv, TypeOK
<1>2. WriterIs(p) /\ CallerIs(p) BY DEF IInv, ProcIs
<1>3. /\ work[p] \in State /\ work[p].seq \in Nat /\ snap.seq < work[p].seq
  BY <1>2, StateIs DEF IInv, TypeOK, WriterIs
<1>4. snap.seq \in Nat /\ acked.seq \in Nat /\ acked.seq <= snap.seq
  BY FilesShow, StateIs DEF IInv, FilesAre
<1>5. FilesAre' BY <1>3, <1>4 DEF IInv, FilesAre
<1>6. /\ Shown' \in State /\ Shown \in State /\ Shown.seq \in Nat /\ Shown'.seq \in Nat
      /\ Shown' = snap' \/ (Shown'.seq = Len(Kept(log)) /\ snap'.seq < Len(Kept(log)))
      /\ snap'.seq <= Shown'.seq /\ Len(Kept(log)) <= Shown'.seq /\ Len(Kept(log)) \in Nat
  BY <1>5, FilesShow, ShowsNext, StateIs DEF FilesAre
<1>7. Shown.seq <= Shown'.seq
  <2>1. Shown = snap \/ Shown.seq = Len(Kept(log)) BY FilesShow
  <2> QED BY <1>3, <1>4, <1>6, <2>1
<1>8. Forward BY <1>6, WatchIs
<1>9. EndStands'
  <2> SUFFICES ASSUME ~crossed, acked'.run = "ended" PROVE Shown' = acked'
    BY DEF EndStands
  <2>1. acked' = work[p] /\ snap' = work[p] BY <1>2 DEF WriterIs
  <2>2. Len(log) <= work[p].seq /\ Len(Kept(log)) <= Len(log) /\ Len(log) \in Nat
    BY <1>2, FilesShow DEF WriterIs
  <2> QED BY <1>3, <1>6, <2>1, <2>2
<1>10. WriterIs(p)' BY <1>1 DEF WriterIs, Writing, Recording
<1>11. CallerIs(p)'
  <2>1. CASE mem' = mem
    <3>1. TypeOK /\ mem'[p] = mem[p] /\ at'[p] # "checked" BY <1>1, <2>1 DEF IInv
    <3> QED BY <1>2, <1>6, <1>8, <3>1, CallerStays
  <2>2. CASE mem'[p].seq = work[p].seq /\ mem'[p].by = work[p].by /\ snap' = work[p]
    BY <1>1, <1>3, <1>6, <2>2 DEF CallerIs, Fits
  <2> QED BY <2>1, <2>2
<1>12. ASSUME NEW q \in Procs, Repairs(q), ~crossed
       PROVE  /\ Len(work[q].keep) <= Shown'.seq
              /\ bare' /\ Whole(log') => Len(work[q].keep) < Len(log')
  <2>1. Len(work[q].keep) \in Nat BY <1>12, LenProperties DEF Repairs, IInv, TypeOK, Load
  <2>2. RepairIs(q) BY DEF IInv, ProcIs
  <2> QED BY <1>6, <1>7, <1>12, <2>1, <2>2 DEF RepairIs
<1>13. ~Writing(p)' BY <1>1 DEF Writing, Recording
<1>14. \A q \in Procs \ {p} : mem'[q] = mem[q] OBVIOUS
<1> QED BY <1>1, <1>5, <1>8, <1>9, <1>10, <1>11, <1>12, <1>13, <1>14, WriterMoves

-----------------------------------------------------------------------------
(* The invariant holds from the first record on.                           *)
LEMMA HoldsAtFirst == Init => IInv
<1> SUFFICES ASSUME Init PROVE IInv OBVIOUS
<1>1. TypeOK BY TypesBegin
<1> DEFINE first == [seq |-> 1, by |-> 1, run |-> "idle"]
<1>2. /\ log = <<first>> /\ bare = FALSE /\ snap = first /\ acked = first
      /\ \A q \in Procs : at[q] = "rest"
      /\ \A q \in Procs : mem[q] # None => mem[q].seq = 1 /\ mem[q].by = 1
  BY DEF Init
<1>3. first.seq = 1 /\ first.by = 1 /\ first.run = "idle" OBVIOUS
<1>4. first \in State BY <1>1, <1>2 DEF TypeOK
<1> HIDE DEF first
<1>5. Len(log) = 1 /\ log[1] = first /\ log # <<>> BY <1>2
<1>6. Regular(log) /\ Whole(log) BY <1>3, <1>5 DEF Regular, Whole
<1>7. Shown = first
  <2>1. log \in Seq(Line) BY <1>1 DEF TypeOK, Line
  <2>2. Kept(log) = log BY <1>6, <2>1, KeptIs
  <2>3. Len(Kept(log)) <= first.seq
    <3>1. Len(Kept(log)) = 1 /\ first.seq = 1 BY <1>3, <1>5, <2>2
    <3>2. 1 <= 1 OBVIOUS
    <3> QED BY <3>1, <3>2, Zenon
  <2> QED BY <1>2, <1>4, <1>6, <2>1, <2>3, ViewIs DEF Shown
<1>8. FilesAre /\ EndStands BY <1>2, <1>3, <1>6 DEF FilesAre, EndStands
<1>9. ASSUME NEW q \in Procs PROVE ProcIs(q)
  BY <1>2, <1>3, <1>7
  DEF ProcIs, WriterIs, RepairIs, LoadIs, CallerIs, Writing, Recording, Repairs, Fits
<1> QED BY <1>1, <1>8, <1>9 DEF IInv

LEMMA TypesHold == ASSUME IInv, [Next]_vars PROVE TypeOK'
<1>1. \A q \in Procs : WriterIs(q) BY DEF IInv, ProcIs
<1>2. /\ \A q \in Procs : Writing(q) => mem[q] # None
      /\ \A q \in Procs : at[q] = "checked" => Whole(log)
      /\ \A q \in Procs : at[q] = "partial" /\ stream[q] = "line" => log # <<>>
  BY <1>1 DEF WriterIs, Writing, Recording
<1> QED BY <1>2, TypesKeep DEF IInv, FilesAre

LEMMA NextHolds == ASSUME IInv, [Next]_vars PROVE IInv'
<1>1. TypeOK' /\ TypeOK BY TypesHold DEF IInv
<1>2. ASSUME NEW p \in Procs, TakeLease(p) PROVE IInv'
  <2>1. /\ UNCHANGED <<log, bare, snap, acked, vanished, crossed, at, work, stream, lock>>
        /\ at[p] = "rest" /\ mem[p] # None /\ mem[p] \in Memory
        /\ mem' = [mem EXCEPT ![p].lease = leases + 1]
    BY <1>1, <1>2 DEF TakeLease, filesVars, TypeOK
  <2>2. /\ mem'[p].seq = mem[p].seq /\ mem'[p].by = mem[p].by
        /\ \A q \in Procs \ {p} : mem'[q] = mem[q]
    BY <1>1, <2>1 DEF TypeOK, Memory
  <2> QED BY <1>1, <2>1, <2>2, QuietKeeps DEF Writing, Recording
<1>3. ASSUME NEW p \in Procs, ReleaseLease(p) PROVE IInv'
  <2>1. /\ UNCHANGED <<log, bare, snap, acked, vanished, crossed, at, work, stream, lock>>
        /\ at[p] = "rest" /\ mem'[p] = None
        /\ \A q \in Procs \ {p} : mem'[q] = mem[q]
    BY <1>1, <1>3 DEF ReleaseLease, filesVars, TypeOK
  <2> QED BY <1>1, <2>1, QuietKeeps DEF Writing, Recording
<1>4. ASSUME NEW p \in Procs, Boot(p) PROVE IInv'
  BY <1>1, <1>4, QuietKeeps DEF Boot, filesVars
<1>5. ASSUME NEW p \in Procs, Die(p) PROVE IInv'
  <2>1. /\ UNCHANGED <<log, bare, snap, acked, vanished, crossed>>
        /\ at'[p] = "rest" /\ mem'[p] = None
        /\ \A q \in Procs \ {p} : /\ at'[q] = at[q] /\ work'[q] = work[q]
                                   /\ mem'[q] = mem[q] /\ stream'[q] = stream[q]
    BY <1>1, <1>5 DEF Die, filesVars, TypeOK
  <2>2. ASSUME NEW q \in Procs \ {p}, Writing(q) PROVE lock' = lock
    BY <1>5, <2>2 DEF Die, IInv, ProcIs, WriterIs
  <2> QED BY <1>1, <2>1, <2>2, QuietKeeps
<1>6. ASSUME NEW p \in Procs, ReturnRecord(p) PROVE IInv'
  <2>1. Writing(p) BY <1>6 DEF ReturnRecord, ReplaceSnapshot, Writing, Recording
  <2>2. /\ Leave(p) /\ Watch /\ UNCHANGED <<log, bare, crossed>> /\ snap' = work[p]
        /\ acked' = work[p]
        /\ mem'[p].seq = work[p].seq /\ mem'[p].by = work[p].by
        /\ \A q \in Procs \ {p} : mem'[q] = mem[q]
    BY <1>1, <1>6 DEF ReturnRecord, ReplaceSnapshot, TypeOK
  <2> QED BY <1>1, <2>1, <2>2, LeaveKeeps
<1>7. ASSUME NEW p \in Procs, FailRecord(p) PROVE IInv'
  <2>1. /\ Writing(p) /\ Leave(p) /\ Watch /\ UNCHANGED <<log, bare, crossed, mem, acked>>
        /\ snap' = work[p] \/ snap' = snap
    BY <1>7 DEF FailRecord, ReplaceSnapshot
  <2> QED BY <1>1, <2>1, LeaveKeeps
<1>8. CASE UNCHANGED vars
  BY <1>1, <1>8, QuietKeeps DEF vars, filesVars, procVars
<1> QED
  BY <1>1, <1>2, <1>3, <1>4, <1>5, <1>6, <1>7, <1>8, ReadFilesKeeps, FinishLoadKeeps,
     CheckRecordKeeps, StartAppendKeeps, AllButNewlineKeeps, EndAppendKeeps
  DEF Next

LEMMA Invariance == Spec => []IInv
<1>1. Init => IInv BY HoldsAtFirst
<1>2. IInv /\ [Next]_vars => IInv' BY NextHolds
<1> QED BY <1>1, <1>2, PTL DEF Spec

(* However many processes record, load without the lock, die and take over *)
(* the lease: no line of the log but its last is ever torn, out of order   *)
(* or glued, so that load can always recover the run.                      *)
THEOREM LogAlwaysReadable == Spec => []LogStaysReadable
<1>1. IInv => LogStaysReadable
  BY DEF IInv, FilesAre, Regular, LogStaysReadable, Readable, CompleteEvent
<1> QED BY <1>1, Invariance, PTL

(* The stale check of record compares sequence numbers only: while nothing *)
(* visible was taken back, equal numbers are the same state.               *)
THEOREM RecordsAlwaysExtend == Spec => []ExtendsWhatIsStored
<1>1. ASSUME IInv PROVE ExtendsWhatIsStored
  <2> SUFFICES ASSUME NEW p \in Procs, at[p] = "checked", ~vanished
               PROVE  mem[p].seq = Stored.seq /\ mem[p].by = Stored.by
    BY DEF ExtendsWhatIsStored
  <2>1. WriterIs(p) /\ CallerIs(p) BY <1>1 DEF IInv, ProcIs
  <2> QED BY <2>1, StoredIsShown DEF WriterIs, CallerIs, Fits, Writing, Recording
<1> QED BY <1>1, Invariance, PTL

-----------------------------------------------------------------------------
(* What a step does to the promises.                                       *)
LEMMA Promises ==
    ASSUME IInv, [Next]_vars
    PROVE  /\ crossed => crossed'
           /\ \/ acked' = acked
              \/ \E p \in Procs : /\ Writing(p) /\ acked' = work[p] /\ snap' = work[p]
                                  /\ log' = log /\ crossed' = crossed
<1>1. ASSUME NEW p \in Procs, FinishLoad(p) PROVE acked' = acked /\ (crossed => crossed')
  <2>1. crossed' = (\/ crossed
                    \/ Stored'.seq < Stored.seq /\ \E q \in Procs \ {p} : Repairs(q))
    BY <1>1 DEF FinishLoad
  <2>2. crossed => crossed' BY <2>1, Zenon
  <2> QED BY <1>1, <2>2 DEF FinishLoad
<1>2. ASSUME NEW p \in Procs, ReturnRecord(p)
      PROVE  /\ Writing(p) /\ acked' = work[p] /\ snap' = work[p]
             /\ log' = log /\ crossed' = crossed
  BY <1>2 DEF ReturnRecord, ReplaceSnapshot, Writing, Recording
<1>3. ASSUME NEW p \in Procs,
             \/ ReadFiles(p) \/ TakeLease(p) \/ ReleaseLease(p)
             \/ \E want \in Wants : CheckRecord(p, want)
             \/ StartAppend(p) \/ AllButNewline(p) \/ EndAppend(p)
             \/ FailRecord(p) \/ Boot(p) \/ Die(p)
      PROVE  acked' = acked /\ crossed' = crossed
  BY <1>3
  DEF ReadFiles, TakeLease, ReleaseLease, CheckRecord, StartAppend, AllButNewline, EndAppend,
      FailRecord, Boot, Die
<1>4. CASE UNCHANGED vars BY <1>4 DEF vars
<1> QED BY <1>1, <1>2, <1>3, <1>4 DEF Next

LEMMA RegisterBegins == Init => Register!Init
<1> SUFFICES ASSUME Init PROVE Register!Init OBVIOUS
<1>1. IInv BY HoldsAtFirst
<1>2. snap = acked /\ crossed = FALSE /\ Len(log) = 1 /\ snap.seq = 1
  BY DEF Init
<1>3. Shown = snap
  <2>1. Len(Kept(log)) = Len(log) \/ Len(Kept(log)) = Len(log) - 1 BY <1>1, FilesShow
  <2>2. ~(snap.seq < Len(Kept(log)))
    <3>1. Len(Kept(log)) = 1 \/ Len(Kept(log)) = 0 BY <1>2, <2>1
    <3>2. ~(1 < 1) /\ ~(1 < 0) OBVIOUS
    <3> QED BY <1>2, <3>1, <3>2, Zenon
  <2> QED BY <1>1, <2>2, FilesShow
<1> QED BY <1>1, <1>2, <1>3, FilesShow, StoredIsShown DEF Register!Init

LEMMA RegisterMoves ==
    ASSUME IInv, IInv', [Next]_vars
    PROVE  Register!Next \/ UNCHANGED <<Stored, acked, crossed>>
<1>1. /\ Shown \in State /\ snap \in State /\ acked \in State
      /\ Shown.seq \in Nat /\ snap.seq \in Nat /\ acked.seq \in Nat
      /\ Len(Kept(log)) \in Nat /\ Len(Kept(log)) <= Len(log) /\ Len(log) \in Nat
  BY FilesShow, StateIs
<1>2. /\ Shown' \in State /\ snap' \in State /\ acked' \in State
      /\ Shown'.seq \in Nat /\ snap'.seq \in Nat /\ acked'.seq \in Nat
      /\ Shown' = snap' \/ (Shown'.seq = Len(Kept(log')) /\ snap'.seq < Len(Kept(log')))
  BY ShowsNext, StateIs DEF IInv, FilesAre
<1>3. Stored = Shown /\ Stored' = Shown' BY StoredIsShown, StoredIsShownNext
<1>4. Register!NoOlder(Stored', acked')
  <2>1. snap' = acked' \/ acked'.seq < snap'.seq BY DEF IInv, FilesAre
  <2> QED BY <1>2, <1>3, <2>1 DEF Register!NoOlder
<1>5. ASSUME NEW p \in Procs, Writing(p), acked' = work[p], snap' = work[p], log' = log
      PROVE  acked.seq < acked'.seq /\ (~crossed => acked.run # "ended" /\ Shown' = acked')
  <2>1. WriterIs(p) /\ work[p].seq \in Nat BY <1>5, StateIs DEF IInv, ProcIs, TypeOK
  <2>2. acked.seq <= snap.seq BY <1>1 DEF IInv, FilesAre
  <2>3. acked.seq < acked'.seq BY <1>1, <1>5, <2>1, <2>2 DEF WriterIs
  <2>4. ~crossed => acked.run # "ended" /\ Len(log) <= work[p].seq BY <1>5, <2>1 DEF WriterIs
  <2>5. ~crossed => Shown' = acked' BY <1>1, <1>2, <1>5, <2>1, <2>4
  <2> QED BY <2>3, <2>4, <2>5
<1>6. Register!NoOlder(acked', acked) BY <1>5, Promises DEF Register!NoOlder
<1>7. crossed' \in BOOLEAN /\ crossed \in BOOLEAN BY DEF IInv, TypeOK
<1>8. ~crossed' => acked' = acked \/ Shown' = acked' BY <1>5, Promises
<1>9. ASSUME ~crossed', Register!Settled PROVE UNCHANGED <<Stored, acked, crossed>>
  <2>1. ~crossed /\ acked.run = "ended" /\ Shown = acked
    BY <1>3, <1>9, Promises DEF Register!Settled
  <2>2. acked' = acked BY <1>5, <2>1, Promises
  <2>3. Shown' = acked' BY <1>9, <2>1, <2>2 DEF IInv, EndStands
  <2> QED BY <1>3, <1>7, <1>9, <2>1, <2>2, <2>3
<1> QED BY <1>2, <1>3, <1>4, <1>6, <1>7, <1>8, <1>9, Promises DEF Register!Next

(* Every step of the files is a step of the register RunStore promises its *)
(* callers: what a record has returned only gives way to something newer,  *)
(* and until two repairs of the log cross, an ended run stays ended.       *)
THEOREM PromisesAlwaysKept == Spec => KeepsItsPromises
<1>1. Init => Register!Init BY RegisterBegins
<1>2. IInv /\ IInv' /\ [Next]_vars => [Register!Next]_<<Stored, acked, crossed>>
  BY RegisterMoves
<1> QED BY <1>1, <1>2, Invariance, PTL DEF Spec, KeepsItsPromises, Register!Spec
=============================================================================
