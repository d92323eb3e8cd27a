---------------------------- MODULE TurnProofs ----------------------------
(***************************************************************************)
(* Theorems about AppServerTurn, for any number of retries, faults and     *)
(* events: the output an attempt returns is of the turn it asked for, and  *)
(* a turn that has completed is looked up instead of done again.           *)
(*                                                                         *)
(* The inductive invariant says of every message on its way, wherever it   *)
(* waits, that it is still true when it is read: the server's stored       *)
(* status of a turn that is over never changes, and a request has one      *)
(* reply.  No assumption on the constants is needed.                       *)
(***************************************************************************)
EXTENDS AppServerTurn, SequenceTheorems, TLAPS

---------------------------------------------------------------------------
(* What the messages are made of.                                            *)
Statuses == Terminal \cup {"inProgress"}
Methods == {"initialize", "thread", "thread/turns", "turn/start", "turn/interrupt"}
Requests == [id : Nat, method : Methods \cup {"started"}]
Replies == [is : {"response"}, id : Nat, value : Statuses \cup {"ok", "error"}, turn : Nat]
Notes == [is : {"note"}, about : {"file", "done"}, turn : Nat, status : Terminal \cup {"none"}]
Specials == [is : {"request", "closed", "oversized"}]

Stored(t, s) == t \in DOMAIN turns /\ turns[t] = s

(* The end of a turn is announced as it is stored, and stored for good.      *)
SoundNote(n) == n.about = "done" /\ n.turn # 0 => n.status \in Terminal /\ Stored(n.turn, n.status)

(* A reply is of a request that was made and is no longer to be answered; the *)
(* one that is awaited is of the method that was asked for.                   *)
SoundReply(x) ==
  /\ x.id < nextId /\ \A r \in asked : r.id # x.id
  /\ pc = "asking" /\ x.id = awaiting
     => /\ method = "turn/start" => x.turn \in DOMAIN turns
        /\ method = "thread/turns" /\ x.value \in Terminal => Stored(cursor, x.value)

HeardNotes == {n \in Notes : SoundNote(n)}
HeardReplies == {x \in Replies : SoundReply(x)}
Heard == HeardNotes \cup HeardReplies \cup Specials

(* Types; the turn the server works on is stored as being in progress.       *)
Shape ==
  /\ turns \in Seq(Statuses)
  /\ working \in Nat /\ (working # 0 => Stored(working, "inProgress"))
  /\ cursor \in Nat /\ (cursor # 0 => cursor \in DOMAIN turns)
  /\ nextId \in Nat /\ awaiting \in Nat
  /\ recovering \in BOOLEAN /\ stop \in {"none", "pause", "interrupt"}
  /\ method \in Methods \cup {"none"}

(* The output, the replies and the notifications that nobody has consumed.   *)
Heeded ==
  /\ out \in Seq(Heard)
  /\ responses \subseteq HeardReplies
  /\ notes \in Seq(HeardNotes)

(* Which requests the server may hold.                                       *)
Fits(r) ==
  /\ r.id < nextId
  /\ pc = "asking" /\ r.id = awaiting
     => r.method = method \/ (r.method = "started" /\ method = "turn/start")
  /\ r.method = "turn/start" => r.id = awaiting /\ method = "turn/start" /\ working = 0
  /\ r.method = "started" => 1 \in DOMAIN turns
  /\ r.method = "thread/turns" => recovering
Questions ==
  /\ asked \subseteq Requests
  /\ \A r \in asked : Fits(r)
  /\ \A r, q \in asked : r.id = q.id => r = q

(* How far the client is.                                                    *)
Beginning == method \in {"initialize", "thread"} \/ (method = "turn/start" /\ pc = "ask")
Dialogue ==
  /\ pc = "start" => ~up /\ working = 0 /\ asked = {} /\ method = "none"
  /\ Beginning => working = 0 /\ \A r \in asked : r.method \in {"initialize", "thread"}
  /\ recovering => cursor # 0 /\ method \in {"none", "initialize", "thread/turns"}
  /\ method = "thread/turns" => recovering
  /\ pc = "wait" \/ method = "turn/interrupt" => cursor # 0
  /\ pc = "wait" => method = "none"
  /\ pc = "ask" => method # "none"

(* An attempt that asks for a turn has no completed one, or could not know.  *)
Anew == ~recovering /\ (pc = "start" \/ method \in {"initialize", "thread", "turn/start"})
NothingIsRedone ==
  Anew /\ cursor # 0 => working # cursor /\ (turns[cursor] # "completed" \/ missed)

(* What the step is told is what is stored.                                  *)
OutcomeIsStored ==
  /\ pc = "closing" /\ outcome \in Terminal => Stored(cursor, outcome)
  /\ result = "output" => pc = "done" /\ Stored(cursor, "completed")

IInv ==
  Shape /\ Heeded /\ Questions /\ Dialogue /\ NothingIsRedone /\ OutcomeIsStored

---------------------------------------------------------------------------
(* What stays true of a message while the system goes on.                    *)
Grows ==
  /\ DOMAIN turns \subseteq DOMAIN turns'
  /\ \A t \in DOMAIN turns : turns[t] \in Terminal => turns'[t] = turns[t]

GoesOn ==
  /\ nextId' \in Nat /\ nextId' >= nextId
  /\ \A r \in asked' : r.id >= nextId \/ \E q \in asked : q.id = r.id
  /\ pc' = "asking" => \/ awaiting' >= nextId
                       \/ pc = "asking" /\ UNCHANGED <<method, awaiting, cursor>>

LEMMA NotesStaySound ==
  ASSUME Grows PROVE HeardNotes \subseteq HeardNotes'
  BY DEF Grows, HeardNotes, SoundNote, Stored

LEMMA MessagesStaySound ==
  ASSUME Shape, Grows, GoesOn
  PROVE  HeardReplies \subseteq HeardReplies' /\ Heard \subseteq Heard'
<1>1. ASSUME NEW x \in Replies, SoundReply(x)
      PROVE  SoundReply(x)'
  <2>1. x.id \in Nat /\ nextId \in Nat
    BY DEF Replies, Shape
  <2>2. x.id < nextId' /\ \A r \in asked' : r.id # x.id
    BY <1>1, <2>1 DEF SoundReply, GoesOn
  <2>3. ASSUME pc' = "asking", x.id = awaiting'
        PROVE  /\ pc = "asking" /\ x.id = awaiting
               /\ UNCHANGED <<method, cursor>>
    <3>1. ~(awaiting' >= nextId)
      BY <1>1, <2>1, <2>3 DEF SoundReply
    <3> QED
      BY <2>3, <3>1 DEF GoesOn
  <2>4. pc' = "asking" /\ x.id = awaiting'
        => /\ method' = "turn/start" => x.turn \in DOMAIN turns'
           /\ method' = "thread/turns" /\ x.value \in Terminal => Stored(cursor, x.value)'
    BY <1>1, <2>3 DEF SoundReply, Grows, Stored
  <2> QED
    BY <2>2, <2>4 DEF SoundReply
<1>2. HeardReplies \subseteq HeardReplies'
  BY <1>1 DEF HeardReplies
<1> QED
  BY <1>2, NotesStaySound DEF Heard

LEMMA MessagesStayHeard ==
  ASSUME Shape, Grows, GoesOn,
         out' \in Seq(Heard), responses' \subseteq HeardReplies, notes' \in Seq(HeardNotes)
  PROVE  Heeded'
<1>1. out' \in Seq(Heard') /\ notes' \in Seq(HeardNotes')
  BY MessagesStaySound, NotesStaySound, SeqMonotonic
<1> QED
  BY <1>1, MessagesStaySound DEF Heeded

(* A status that is replaced is one of a turn that is not over.              *)
LEMMA TurnsStay ==
  ASSUME turns' = turns PROVE Grows
  BY DEF Grows

LEMMA CutOffGrows ==
  ASSUME Shape, CutOff
  PROVE  /\ Grows /\ turns' \in Seq(Statuses) /\ DOMAIN turns' = DOMAIN turns
         /\ \A t \in DOMAIN turns : turns'[t] = "completed" => turns[t] = "completed"
<1>1. PICK s \in {"inProgress", "interrupted"} :
        turns' = [t \in DOMAIN turns |-> IF t = working THEN s ELSE turns[t]]
  BY DEF CutOff
<1>2. s \in Statuses /\ s # "completed"
  BY <1>1 DEF Statuses, Terminal
<1>3. /\ DOMAIN turns = 1 .. Len(turns) /\ Len(turns) \in Nat
      /\ \A t \in DOMAIN turns : turns[t] \in Statuses
  BY DEF Shape
<1>4. \A t \in DOMAIN turns : t = working => turns[t] \notin Terminal
  BY <1>3 DEF Shape, Stored, Terminal
<1>5. turns' \in Seq(Statuses)
  BY <1>1, <1>2, <1>3, IsASeq
<1> QED
  BY <1>1, <1>2, <1>4, <1>5 DEF Grows

LEMMA StatusReplaced ==
  ASSUME Shape, working # 0, NEW s \in Statuses, turns' = [turns EXCEPT ![working] = s]
  PROVE  /\ Grows /\ turns' \in Seq(Statuses) /\ DOMAIN turns' = DOMAIN turns
         /\ turns'[working] = s
         /\ \A t \in DOMAIN turns : t # working => turns'[t] = turns[t]
<1>1. working \in DOMAIN turns /\ turns[working] = "inProgress"
  BY DEF Shape, Stored
<1>2. turns' \in Seq(Statuses)
  BY <1>1, ExceptSeq DEF Shape
<1> QED
  BY <1>1, <1>2 DEF Shape, Grows, Terminal, Stored

---------------------------------------------------------------------------
(* The server: nothing of the client moves.                                  *)
ClientRests ==
  UNCHANGED <<reading, pc, method, awaiting, tracker, wait, step, recovering, outcome,
              result, missed>>

LEMMA ServerKeeps ==
  ASSUME IInv, up, ClientRests, Grows, turns' \in Seq(Statuses), asked' \subseteq asked,
         working' \in {0, working}, working' # 0 => Stored(working, "inProgress")',
         cursor # 0 /\ turns'[cursor] = "completed"
         => turns[cursor] = "completed" \/ working = cursor,
         out' \in Seq(Heard')
  PROVE  IInv'
<1>1. Shape'
  BY DEF ClientRests, step, tracker, IInv, Shape, Grows
<1>2. GoesOn
  BY DEF ClientRests, step, tracker, GoesOn, IInv, Shape
<1>3. Heeded'
  BY <1>2, MessagesStaySound, NotesStaySound, SeqMonotonic
  DEF ClientRests, tracker, wait, IInv, Heeded
<1>4. Questions'
  BY DEF ClientRests, tracker, IInv, Questions, Fits, Grows, Shape
<1>5. Dialogue'
  BY DEF ClientRests, step, IInv, Dialogue, Beginning, Shape
<1>6. NothingIsRedone'
  BY DEF ClientRests, step, IInv, Shape, Stored, NothingIsRedone, Anew
<1>7. OutcomeIsStored'
  BY DEF ClientRests, step, IInv, OutcomeIsStored, Stored, Grows, Terminal
<1> QED
  BY <1>1, <1>3, <1>4, <1>5, <1>6, <1>7 DEF IInv

(* What the server writes next is heard after what it has written.           *)
LEMMA EmitHeard ==
  ASSUME IInv, Grows, GoesOn, NEW x \in Heard', Emit(x)
  PROVE  out' \in Seq(Heard')
<1>1. out \in Seq(Heard')
  BY MessagesStaySound, SeqMonotonic DEF IInv, Heeded
<1> QED
  BY <1>1, AppendProperties DEF Emit

LEMMA ServerGoesOn ==
  ASSUME IInv, ClientRests, \A r \in asked' : \E q \in asked : q.id = r.id PROVE GoesOn
  BY DEF ClientRests, step, tracker, GoesOn, IInv, Shape

LEMMA SpecialHeard ==
  ASSUME NEW s \in {"request", "closed", "oversized"} PROVE Special(s) \in Heard'
  BY DEF Special, Specials, Heard

LEMMA NoteHeard ==
  ASSUME NEW about \in {"file", "done"}, NEW t \in Nat, NEW s \in Terminal \cup {"none"},
         about = "done" /\ t # 0 => s \in Terminal /\ t \in DOMAIN turns' /\ turns'[t] = s
  PROVE  Note(about, t, s) \in HeardNotes' /\ Note(about, t, s) \in Heard'
<1>1. /\ Note(about, t, s) \in Notes
      /\ Note(about, t, s).about = about /\ Note(about, t, s).turn = t
      /\ Note(about, t, s).status = s
  BY DEF Note, Notes
<1>2. SoundNote(Note(about, t, s))'
  BY <1>1 DEF SoundNote, Stored
<1> QED
  BY <1>1, <1>2 DEF HeardNotes, Heard

LEMMA ReportsKeeps ==
  ASSUME IInv, up, up' = up, ClientRests, Reports PROVE IInv'
<1>1. working # 0 /\ UNCHANGED <<asked, working, turns>> /\ Grows
  BY TurnsStay DEF Reports
<1>2. GoesOn
  BY <1>1, ServerGoesOn
<1>3. PICK x \in Heard' : Emit(x)
  <2>1. CASE Emit(Note("file", working, "none"))
    <3>1. Note("file", working, "none") \in Heard'
      BY NoteHeard DEF IInv, Shape
    <3> QED
      BY <2>1, <3>1
  <2>2. CASE Emit(Note("done", 0, "completed"))
    <3>1. Note("done", 0, "completed") \in Heard'
      BY NoteHeard DEF Terminal
    <3> QED
      BY <2>2, <3>1
  <2>3. CASE Emit(Special("request"))
    BY <2>3, SpecialHeard
  <2> QED
    BY <2>1, <2>2, <2>3 DEF Reports
<1>4. out' \in Seq(Heard')
  BY <1>1, <1>2, <1>3, EmitHeard
<1> QED
  BY <1>1, <1>4, ServerKeeps DEF IInv, Shape, Stored

LEMMA OversizedKeeps ==
  ASSUME IInv, up, up' = up, ClientRests, SendsOversizedLine PROVE IInv'
<1>1. UNCHANGED <<asked, working, turns>> /\ Grows /\ Emit(Special("oversized"))
  BY TurnsStay DEF SendsOversizedLine
<1>2. out' \in Seq(Heard')
  BY <1>1, ServerGoesOn, SpecialHeard, EmitHeard
<1> QED
  BY <1>1, <1>2, ServerKeeps DEF IInv, Shape, Stored

LEMMA EndsKeeps ==
  ASSUME IInv, up, up' = up, ClientRests, Ends PROVE IInv'
<1>1. PICK s \in Terminal :
        /\ working # 0 /\ turns' = [turns EXCEPT ![working] = s] /\ working' = 0
        /\ Emit(Note("done", working, s)) /\ asked' = asked
  BY DEF Ends
<1>2. /\ Grows /\ turns' \in Seq(Statuses) /\ DOMAIN turns' = DOMAIN turns
      /\ turns'[working] = s
      /\ \A t \in DOMAIN turns : t # working => turns'[t] = turns[t]
  BY <1>1, StatusReplaced DEF IInv, Statuses
<1>3. working \in DOMAIN turns /\ working \in Nat
  BY <1>1 DEF IInv, Shape, Stored
<1>4. Note("done", working, s) \in Heard'
  BY <1>2, <1>3, NoteHeard
<1>5. out' \in Seq(Heard')
  BY <1>1, <1>2, <1>4, ServerGoesOn, EmitHeard
<1>6. cursor # 0 /\ turns'[cursor] = "completed" => turns[cursor] = "completed" \/ working = cursor
  BY <1>2 DEF IInv, Shape
<1> QED
  BY <1>1, <1>2, <1>5, <1>6, ServerKeeps

LEMMA CrashesKeeps ==
  ASSUME IInv, up, ClientRests, Crashes PROVE IInv'
<1>1. CutOff /\ asked' = {} /\ working' = 0 /\ Emit(Special("closed"))
  BY DEF Crashes
<1>2. /\ Grows /\ turns' \in Seq(Statuses)
      /\ \A t \in DOMAIN turns : turns'[t] = "completed" => turns[t] = "completed"
  BY <1>1, CutOffGrows DEF IInv
<1>3. out' \in Seq(Heard')
  BY <1>1, <1>2, ServerGoesOn, SpecialHeard, EmitHeard
<1> QED
  BY <1>1, <1>2, <1>3, ServerKeeps DEF IInv, Shape

---------------------------------------------------------------------------
(* An answer: the request it is of is not to be answered again.              *)
LEMMA ReplyHeard ==
  ASSUME NEW id \in Nat, NEW v \in Statuses \cup {"ok", "error"}, NEW t \in Nat,
         id < nextId', \A r \in asked' : r.id # id,
         pc' = "asking" /\ id = awaiting'
         => /\ method' = "turn/start" => t \in DOMAIN turns'
            /\ method' = "thread/turns" /\ v \in Terminal
               => cursor' \in DOMAIN turns' /\ turns'[cursor'] = v
  PROVE  Response(id, v, t) \in Heard'
<1>1. /\ Response(id, v, t) \in Replies
      /\ Response(id, v, t).id = id /\ Response(id, v, t).value = v /\ Response(id, v, t).turn = t
  BY DEF Response, Replies
<1>2. SoundReply(Response(id, v, t))'
  BY <1>1 DEF SoundReply, Stored
<1> QED
  BY <1>1, <1>2 DEF HeardReplies, Heard

LEMMA TurnCount ==
  ASSUME Shape
  PROVE  /\ Len(turns) \in Nat /\ DOMAIN turns = 1 .. Len(turns)
         /\ working # 0 => working \in 1 .. Len(turns)
         /\ cursor # 0 => cursor \in 1 .. Len(turns)
  BY LenProperties DEF Shape, Stored

(* An answer that leaves the turns alone.                                    *)
LEMMA PlainAnswerKeeps ==
  ASSUME IInv, up, up' = up, ClientRests, NEW r \in asked,
         r.method \in {"initialize", "thread", "started", "turn/interrupt"},
         NEW v \in {"ok", "error"}, NEW t \in Nat,
         t = Len(turns) \/ r.method = "turn/interrupt",
         asked' = asked \ {r}, Emit(Response(r.id, v, t)),
         UNCHANGED <<turns, working>>
  PROVE  IInv'
<1>1. Grows /\ GoesOn
  BY TurnsStay, ServerGoesOn
<1>2. r.id \in Nat /\ r.id < nextId /\ \A q \in asked' : q.id # r.id
  BY DEF IInv, Questions, Fits, Requests
<1>3. pc = "asking" /\ r.id = awaiting /\ method = "turn/start"
      => r.method = "started" /\ 1 \in DOMAIN turns
  BY DEF IInv, Questions, Fits
<1>4. Len(turns) \in DOMAIN turns \/ 1 \notin DOMAIN turns
  <2>1. Len(turns) \in Nat /\ DOMAIN turns = 1 .. Len(turns)
    BY TurnCount DEF IInv
  <2>2. \A n \in Nat : 1 \in 1 .. n => n \in 1 .. n
    OBVIOUS
  <2> QED
    BY <2>1, <2>2
<1>5. Response(r.id, v, t) \in Heard'
  <2>1. v \in Statuses \cup {"ok", "error"} /\ v \notin Terminal
    BY DEF Terminal
  <2>2. pc' = "asking" /\ r.id = awaiting' /\ method' = "turn/start" => t \in DOMAIN turns'
    BY <1>3, <1>4 DEF ClientRests
  <2>3. r.id < nextId'
    BY <1>2 DEF ClientRests, tracker
  <2> QED
    BY <1>2, <2>1, <2>2, <2>3, ReplyHeard
<1>6. out' \in Seq(Heard')
  BY <1>1, <1>5, EmitHeard
<1> QED
  BY <1>1, <1>6, ServerKeeps DEF IInv, Shape, Stored

LEMMA LookUpKeeps ==
  ASSUME IInv, up, up' = up, ClientRests, NEW r \in asked, r.method = "thread/turns",
         asked' = asked \ {r}, Emit(Response(r.id, turns[cursor], cursor)),
         working' \in {0} \cup {t \in {cursor} : turns[t] = "inProgress"}, turns' = turns
  PROVE  IInv'
<1>1. Grows /\ GoesOn
  BY TurnsStay, ServerGoesOn
<1>2. r.id \in Nat /\ r.id < nextId /\ \A q \in asked' : q.id # r.id
  BY DEF IInv, Questions, Fits, Requests
<1>3. recovering /\ cursor # 0 /\ cursor \in DOMAIN turns /\ cursor \in Nat
  BY DEF IInv, Questions, Fits, Dialogue, Shape
<1>4. turns[cursor] \in Statuses
  BY <1>3, ElementOfSeq, TurnCount DEF IInv, Shape
<1>5. Response(r.id, turns[cursor], cursor) \in Heard'
  BY <1>2, <1>3, <1>4, ReplyHeard DEF ClientRests, tracker, step, IInv, Dialogue
<1>6. out' \in Seq(Heard')
  BY <1>1, <1>5, EmitHeard
<1>7. Shape'
  BY <1>3 DEF ClientRests, step, tracker, IInv, Shape, Stored
<1>8. Heeded'
  BY <1>1, <1>6, MessagesStaySound, NotesStaySound, SeqMonotonic
  DEF ClientRests, tracker, wait, IInv, Heeded
<1>9. \A q \in asked : q.method # "turn/start"
  BY <1>3 DEF IInv, Questions, Fits, Dialogue
<1>10. ~Beginning
  BY DEF IInv, Dialogue
<1>11. Questions'
  BY <1>9 DEF ClientRests, tracker, IInv, Questions, Fits
<1>12. Dialogue'
  BY <1>10 DEF ClientRests, step, IInv, Dialogue, Beginning
<1>13. NothingIsRedone' /\ OutcomeIsStored'
  BY <1>3 DEF ClientRests, step, IInv, NothingIsRedone, Anew, OutcomeIsStored, Stored
<1> QED
  BY <1>7, <1>8, <1>11, <1>12, <1>13 DEF IInv

(* A turn starts: it is another one than that of the cursor.                 *)
LEMMA StartAnswerKeeps ==
  ASSUME IInv, up, up' = up, ClientRests, NEW r \in asked, r.method = "turn/start",
         turns' = Append(turns, "inProgress"), working' = Len(turns'),
         \/ asked' = asked \ {r} /\ Emit(Response(r.id, "ok", Len(turns')))
         \/ /\ asked' = (asked \ {r}) \cup {[r EXCEPT !.method = "started"]}
            /\ UNCHANGED out
  PROVE  IInv'
<1> DEFINE n == Len(turns) + 1
<1>1. /\ turns' \in Seq(Statuses) /\ Len(turns') = n /\ DOMAIN turns' = 1 .. n
      /\ \A t \in 1 .. Len(turns) : turns'[t] = turns[t]
      /\ turns'[n] = "inProgress"
  BY AppendProperties, LenProperties DEF IInv, Shape, Statuses
<1>2. /\ Len(turns) \in Nat /\ DOMAIN turns = 1 .. Len(turns)
      /\ cursor # 0 => cursor \in 1 .. Len(turns)
  BY TurnCount DEF IInv
<1>3. Grows
  BY <1>1, <1>2 DEF Grows
<1>4. /\ r \in Requests /\ r.id \in Nat /\ r.id < nextId /\ r.id = awaiting /\ method = "turn/start"
      /\ \A q \in asked \ {r} : q.id # r.id
  BY DEF IInv, Questions, Fits, Requests
<1> DEFINE r2 == [r EXCEPT !.method = "started"]
<1>5. r2 \in Requests /\ r2.id = r.id /\ r2.method = "started"
  BY <1>4 DEF Requests
<1>6. GoesOn
  BY <1>5, ServerGoesOn
<1>7. out' \in Seq(Heard')
  <2>1. CASE asked' = asked \ {r} /\ Emit(Response(r.id, "ok", Len(turns')))
    <3>1. Response(r.id, "ok", Len(turns')) \in Heard'
      <4>1. Len(turns') \in Nat /\ Len(turns') \in DOMAIN turns'
        BY <1>1, <1>2
      <4>2. "ok" \in Statuses \cup {"ok", "error"} /\ "ok" \notin Terminal
        BY DEF Terminal
      <4>3. r.id \in Nat /\ r.id < nextId' /\ \A q \in asked' : q.id # r.id
        BY <1>4, <2>1 DEF ClientRests, tracker
      <4> QED
        BY <4>1, <4>2, <4>3, ReplyHeard
    <3> QED
      BY <1>3, <1>6, <2>1, <3>1, EmitHeard
  <2>2. CASE UNCHANGED out
    BY <1>3, <1>6, <2>2, MessagesStaySound, SeqMonotonic DEF IInv, Heeded
  <2> QED
    BY <2>1, <2>2
<1>8. Shape'
  BY <1>1, <1>2 DEF ClientRests, step, tracker, IInv, Shape, Stored
<1>9. Heeded'
  BY <1>3, <1>6, <1>7, MessagesStaySound, NotesStaySound, SeqMonotonic
  DEF ClientRests, tracker, wait, IInv, Heeded
<1>10. \A q \in asked' : q = r2 \/ (q \in asked \ {r} /\ q.method # "turn/start")
  BY <1>4 DEF IInv, Questions, Fits
<1>11. Questions'
  <2>1. asked' \subseteq Requests
    BY <1>5, <1>10 DEF IInv, Questions
  <2>2. \A q, p \in asked' : q.id = p.id => q = p
    BY <1>4, <1>5, <1>10 DEF IInv, Questions
  <2>3. ASSUME NEW q \in asked' PROVE Fits(q)'
    <3>1. CASE q = r2
      BY <1>1, <1>2, <1>4, <1>5, <3>1 DEF Fits, ClientRests, tracker
    <3>2. CASE q \in asked /\ q.method # "turn/start"
      BY <1>1, <1>2, <3>2 DEF Fits, ClientRests, tracker, IInv, Questions
    <3> QED
      BY <1>10, <3>1, <3>2
  <2> QED
    BY <2>1, <2>2, <2>3 DEF Questions
<1>12. ~Beginning /\ pc # "start"
  BY DEF IInv, Dialogue, Beginning
<1>13. Dialogue'
  BY <1>12 DEF ClientRests, step, IInv, Dialogue, Beginning
<1>14. NothingIsRedone'
  BY <1>1, <1>2 DEF ClientRests, step, IInv, NothingIsRedone, Anew
<1>15. OutcomeIsStored'
  BY <1>1, <1>2 DEF ClientRests, step, IInv, OutcomeIsStored, Stored
<1> QED
  BY <1>8, <1>9, <1>11, <1>13, <1>14, <1>15 DEF IInv

LEMMA InterruptAnswerKeeps ==
  ASSUME IInv, up, up' = up, ClientRests, NEW r \in asked, r.method = "turn/interrupt",
         working # 0, asked' = asked \ {r}, working' = 0,
         turns' = [turns EXCEPT ![working] = "interrupted"],
         \E answer, note :
            /\ answer = Response(r.id, "ok", working)
            /\ note = Note("done", working, "interrupted")
            /\ out' \in {out \o <<answer, note>>, out \o <<note, answer>>}
  PROVE  IInv'
<1>1. /\ Grows /\ turns' \in Seq(Statuses) /\ DOMAIN turns' = DOMAIN turns
      /\ turns'[working] = "interrupted"
      /\ \A t \in DOMAIN turns : t # working => turns'[t] = turns[t]
  BY StatusReplaced DEF IInv, Statuses, Terminal
<1>2. GoesOn
  BY ServerGoesOn
<1>3. working \in Nat /\ working \in DOMAIN turns
  BY DEF IInv, Shape, Stored
<1>4. r.id \in Nat /\ r.id < nextId /\ \A q \in asked' : q.id # r.id
  BY DEF IInv, Questions, Fits, Requests
<1>5. Note("done", working, "interrupted") \in Heard'
  BY <1>1, <1>3, NoteHeard DEF Terminal
<1>6. pc = "asking" /\ r.id = awaiting => method = "turn/interrupt"
  BY DEF IInv, Questions, Fits
<1>7. Response(r.id, "ok", working) \in Heard'
  BY <1>3, <1>4, <1>6, ReplyHeard DEF ClientRests, tracker
<1>8. out \in Seq(Heard')
  BY <1>1, <1>2, MessagesStaySound, SeqMonotonic DEF IInv, Heeded
<1>9. out' \in Seq(Heard')
  <2>1. ASSUME NEW x \in Heard', NEW y \in Heard' PROVE out \o <<x, y>> \in Seq(Heard')
    <3>1. <<x, y>> \in Seq(Heard')
      OBVIOUS
    <3> QED
      BY <1>8, <3>1, ConcatProperties
  <2> QED
    BY <1>5, <1>7, <2>1
<1> QED
  BY <1>1, <1>9, ServerKeeps DEF IInv, Shape

LEMMA ServerStepKeeps == ASSUME IInv, Server PROVE IInv'
<1>1. up /\ ClientRests
  BY DEF Server, ClientRests
<1>2. CASE Crashes
  BY <1>1, <1>2, CrashesKeeps
<1>3. CASE up' = up /\ Reports
  BY <1>1, <1>3, ReportsKeeps
<1>4. CASE up' = up /\ Ends
  BY <1>1, <1>4, EndsKeeps
<1>5. CASE up' = up /\ SendsOversizedLine
  BY <1>1, <1>5, OversizedKeeps
<1>6. ASSUME NEW r \in asked, Answer(r), up' = up PROVE IInv'
  <2>1. CASE r.method = "turn/start"
    BY <1>1, <1>6, <2>1, StartAnswerKeeps DEF Answer
  <2>2. CASE r.method \in {"initialize", "thread", "started"}
    <3>1. Len(turns) \in Nat
      BY TurnCount DEF IInv
    <3> QED
      BY <1>1, <1>6, <2>2, <3>1, PlainAnswerKeeps DEF Answer
  <2>3. CASE r.method = "thread/turns"
    BY <1>1, <1>6, <2>3, LookUpKeeps DEF Answer
  <2>4. CASE r.method = "turn/interrupt" /\ working = 0
    BY <1>1, <1>6, <2>4, PlainAnswerKeeps DEF Answer
  <2>5. CASE r.method = "turn/interrupt" /\ working # 0
    BY <1>1, <1>6, <2>5, InterruptAnswerKeeps DEF Answer
  <2> QED
    BY <1>6, <2>1, <2>2, <2>3, <2>4, <2>5 DEF Answer
<1> QED
  BY <1>2, <1>3, <1>4, <1>5, <1>6 DEF Server, Answers

---------------------------------------------------------------------------
(* The client: only the end of an attempt concerns the stored turns.         *)
Frame ==
  UNCHANGED <<turns, working, cursor, awaiting, recovering, stop, missed, result, up>>
Hears ==
  out' \in Seq(Heard) /\ responses' \subseteq HeardReplies /\ notes' \in Seq(HeardNotes)

LEMMA FinishKeeps ==
  ASSUME IInv, Frame, Hears, asked' = asked, nextId' \in {nextId, nextId + 1}, pc # "done",
         NEW o, Finish(o), o \in Terminal => Stored(cursor, o)
  PROVE  IInv'
<1>1. pc' = "closing" /\ outcome' = o /\ method' = method
  BY DEF Finish
<1>2. Shape'
  BY <1>1 DEF Frame, IInv, Shape, Stored
<1>3. Grows /\ GoesOn
  BY <1>1, TurnsStay DEF Frame, GoesOn, IInv, Shape
<1>4. Heeded'
  BY <1>3, MessagesStayHeard DEF Hears, IInv
<1>5. Questions'
  BY <1>1 DEF Frame, IInv, Questions, Fits, Requests, Shape
<1>6. Dialogue' /\ NothingIsRedone'
  BY <1>1 DEF Frame, IInv, Dialogue, Beginning, NothingIsRedone, Anew
<1>7. OutcomeIsStored'
  BY <1>1 DEF Frame, IInv, OutcomeIsStored, Stored
<1> QED
  BY <1>2, <1>4, <1>5, <1>6, <1>7 DEF IInv

(* What the client reads without going anywhere.                             *)
LEMMA StayKeeps ==
  ASSUME IInv, Frame, Hears, asked' = asked, nextId' = nextId, UNCHANGED <<pc, method, outcome>>
  PROVE  IInv'
<1>1. Shape'
  BY DEF Frame, IInv, Shape, Stored
<1>2. Grows /\ GoesOn
  BY TurnsStay DEF Frame, GoesOn, IInv, Shape
<1>3. Heeded'
  BY <1>2, MessagesStayHeard DEF Hears, IInv
<1>4. Questions' /\ Dialogue' /\ NothingIsRedone' /\ OutcomeIsStored'
  BY DEF Frame, IInv, Questions, Fits, Dialogue, Beginning, NothingIsRedone, Anew,
     OutcomeIsStored, Stored
<1> QED
  BY <1>1, <1>3, <1>4 DEF IInv

(* Into the wait for a turn, and out of it to have the turn interrupted.     *)
LEMMA WaitKeeps ==
  ASSUME IInv, Frame, Hears, asked' = asked, nextId' \in {nextId, nextId + 1},
         pc \notin {"start", "done"}, cursor # 0, pc' = "wait", method' = "none",
         \A r \in asked : r.method # "turn/start"
  PROVE  IInv'
<1>1. Shape'
  BY DEF Frame, IInv, Shape, Stored
<1>2. Grows /\ GoesOn
  BY TurnsStay DEF Frame, GoesOn, IInv, Shape
<1>3. Heeded'
  BY <1>2, MessagesStayHeard DEF Hears, IInv
<1>4. Questions'
  BY DEF Frame, IInv, Questions, Fits, Requests, Shape
<1>5. Dialogue' /\ NothingIsRedone' /\ OutcomeIsStored'
  BY DEF Frame, IInv, Dialogue, Beginning, NothingIsRedone, Anew, OutcomeIsStored, Stored
<1> QED
  BY <1>1, <1>3, <1>4, <1>5 DEF IInv

LEMMA InterruptKeeps ==
  ASSUME IInv, Frame, Hears, asked' = asked, nextId' = nextId,
         pc = "wait", ~recovering, Go("ask", "turn/interrupt")
  PROVE  IInv'
<1>1. pc' = "ask" /\ method' = "turn/interrupt" /\ cursor # 0 /\ method = "none"
  BY DEF Go, IInv, Dialogue
<1>2. Shape'
  BY <1>1 DEF Frame, IInv, Shape, Stored, Methods
<1>3. Grows /\ GoesOn
  BY <1>1, TurnsStay DEF Frame, GoesOn, IInv, Shape
<1>4. Heeded'
  BY <1>3, MessagesStayHeard DEF Hears, IInv
<1>5. Questions'
  BY <1>1 DEF Frame, IInv, Questions, Fits
<1>6. Dialogue' /\ NothingIsRedone' /\ OutcomeIsStored'
  BY <1>1 DEF Frame, IInv, Dialogue, Beginning, NothingIsRedone, Anew, OutcomeIsStored, Stored
<1> QED
  BY <1>2, <1>4, <1>5, <1>6 DEF IInv

LEMMA RaiseKeeps ==
  ASSUME IInv, Frame, Hears, asked' = asked, nextId' \in {nextId, nextId + 1},
         pc \notin {"start", "done"}, NEW o, o \notin Terminal, Raise(o)
  PROVE  IInv'
<1>1. CASE Interrupting
  <2>1. cursor # 0 /\ \A r \in asked : r.method # "turn/start"
    BY <1>1 DEF Interrupting, IInv, Dialogue, Questions, Fits
  <2> QED
    BY <1>1, <2>1, WaitKeeps DEF Raise, BackToWait
<1>2. CASE ~Interrupting
  BY <1>2, FinishKeeps DEF Raise
<1> QED
  BY <1>1, <1>2

LEMMA Unheeded ==
  ASSUME IInv, UNCHANGED <<out, responses, notes>> PROVE Hears
  BY DEF Hears, IInv, Heeded

LEMMA StartKeeps == ASSUME IInv, Start PROVE IInv'
<1>1. /\ pc = "start" /\ method = "none" /\ working = 0 /\ asked = {} /\ ~up
      /\ UNCHANGED <<asked, working, awaiting, recovering, missed, result>>
      /\ UNCHANGED <<turns, cursor, stop, nextId, responses, notes>>
  BY DEF Start, IInv, Dialogue, stored, tracker, step
<1>2. CASE Finish("lost") /\ UNCHANGED <<up, out>>
  BY <1>1, <1>2, Unheeded, FinishKeeps DEF Frame, Terminal
<1>3. CASE out' = << >> /\ Go("ask", "initialize")
  <2>1. pc' = "ask" /\ method' = "initialize"
    BY <1>3 DEF Go
  <2>2. Hears
    BY <1>1, <1>3 DEF Hears, IInv, Heeded
  <2>3. Grows /\ GoesOn
    BY <1>1, <2>1, TurnsStay DEF GoesOn, IInv, Shape
  <2>4. Heeded'
    BY <2>2, <2>3, MessagesStayHeard DEF Hears, IInv
  <2>5. Shape'
    BY <1>1, <2>1 DEF IInv, Shape, Stored, Methods
  <2>6. Questions' /\ Dialogue' /\ NothingIsRedone' /\ OutcomeIsStored'
    BY <1>1, <2>1 DEF IInv, Questions, Fits, Dialogue, Beginning, NothingIsRedone, Anew,
       OutcomeIsStored, Stored
  <2> QED
    BY <2>4, <2>5, <2>6 DEF IInv
<1> QED
  BY <1>2, <1>3 DEF Start

LEMMA AskKeeps == ASSUME IInv, Ask PROVE IInv'
<1>1. /\ pc = "ask" /\ nextId' = nextId + 1 /\ Hears
      /\ UNCHANGED <<turns, working, cursor, recovering, stop, missed, result, up, out,
                     responses, notes>>
  BY Unheeded DEF Ask, stored, step
<1>2. CASE ~up
  BY <1>1, <1>2, RaiseKeeps DEF Ask, Frame, Terminal
<1>3. CASE up
  <2>0. PICK q : q = [id |-> nextId, method |-> method]
    OBVIOUS
  <2>1. /\ q.id = nextId /\ q.method = method
        /\ asked' = asked \cup {q} /\ awaiting' = nextId /\ pc' = "asking" /\ method' = method
    BY <1>3, <2>0 DEF Ask, Go
  <2>2. Shape'
    BY <1>1, <2>1 DEF IInv, Shape, Stored
  <2>3. nextId \in Nat /\ \A r \in asked : r.id < nextId /\ r.id \in Nat
    BY DEF IInv, Shape, Questions, Fits, Requests
  <2>4. Grows /\ GoesOn
    BY <1>1, <2>1, <2>3, TurnsStay DEF GoesOn
  <2>5. Heeded'
    BY <1>1, <2>4, MessagesStayHeard DEF Hears, IInv
  <2>6. \A r \in asked : r.method # "turn/start"
    BY <1>1 DEF IInv, Dialogue, Beginning, Questions, Fits
  <2>7. method # "none"
    BY <1>1 DEF IInv, Dialogue
  <2>8. Questions'
    <3>1. asked' \subseteq Requests
      BY <2>0, <2>1, <2>3, <2>7 DEF IInv, Shape, Questions, Requests
    <3>2. \A r, p \in asked' : r.id = p.id => r = p
      BY <2>1, <2>3 DEF IInv, Questions
    <3>3. ASSUME NEW r \in asked PROVE Fits(r)'
      BY <1>1, <2>1, <2>3, <2>6 DEF Fits, IInv, Questions
    <3>4. Fits(q)'
      BY <1>1, <2>1, <2>3 DEF Fits, IInv, Shape, Methods, Dialogue, Beginning
    <3> QED
      BY <2>1, <3>1, <3>2, <3>3, <3>4 DEF Questions
  <2>9. Dialogue'
    BY <1>1, <2>1 DEF IInv, Dialogue, Beginning
  <2>10. NothingIsRedone' /\ OutcomeIsStored'
    BY <1>1, <2>1 DEF IInv, NothingIsRedone, Anew, OutcomeIsStored, Stored
  <2> QED
    BY <2>2, <2>5, <2>8, <2>9, <2>10 DEF IInv
<1> QED
  BY <1>2, <1>3

(* The reply that is awaited, and what it says.                              *)
LEMMA TakeResponseKeeps == ASSUME IInv, TakeResponse PROVE IInv'
<1>1. PICK x \in responses :
        /\ x.id = awaiting /\ responses' = responses \ {x} /\ Answered(x.value, x.turn)
  BY DEF TakeResponse
<1>2. /\ pc = "asking" /\ asked' = asked /\ nextId' = nextId
      /\ UNCHANGED <<turns, working, awaiting, recovering, stop, missed, result, up, out, notes>>
  BY DEF TakeResponse, server, stored
<1>3. /\ Hears
      /\ x \in Replies /\ x.turn \in Nat
      /\ method = "turn/start" => x.turn \in DOMAIN turns
      /\ method = "thread/turns" /\ x.value \in Terminal => Stored(cursor, x.value)
      /\ \A r \in asked : r.id # awaiting
  BY <1>1, <1>2 DEF Hears, IInv, Heeded, HeardReplies, SoundReply, Replies
<1>4. \A r \in asked : r.method # "turn/start"
  BY <1>3 DEF IInv, Questions, Fits
<1>5. CASE x.value = "error"
  BY <1>1, <1>2, <1>3, <1>5, RaiseKeeps DEF Answered, Frame, Terminal
<1>6. CASE InterruptConfirmed
  <2>1. pc' = "wait" /\ method' = "none" /\ cursor' = cursor /\ cursor # 0
    BY <1>6 DEF InterruptConfirmed, Interrupting, BackToWait, IInv, Dialogue
  <2> QED
    BY <1>2, <1>3, <1>4, <2>1, WaitKeeps DEF Frame
<1>7. CASE TurnLookedUp(x.value)
  <2>1. method = "thread/turns" /\ recovering /\ cursor' = cursor /\ cursor # 0 /\ Frame
    BY <1>2, <1>7 DEF TurnLookedUp, IInv, Dialogue, Frame
  <2>2. CASE Go("wait", "none")
    BY <1>2, <1>3, <1>4, <2>1, <2>2, WaitKeeps DEF Go
  <2>3. CASE Finish(x.value)
    BY <1>2, <1>3, <2>1, <2>3, FinishKeeps
  <2> QED
    BY <1>7, <2>2, <2>3 DEF TurnLookedUp
<1>8. CASE TurnStarted(x.turn)
  <2>1. /\ method = "turn/start" /\ pc' = "wait" /\ method' = "none" /\ cursor' = x.turn
        /\ ~recovering /\ x.turn \in DOMAIN turns /\ x.turn # 0
    BY <1>3, <1>8, TurnCount DEF TurnStarted, Go, IInv, Dialogue
  <2>2. Shape'
    BY <1>2, <1>3, <2>1 DEF IInv, Shape, Stored
  <2>3. Grows /\ GoesOn
    BY <1>2, <2>1, TurnsStay DEF GoesOn, IInv, Shape
  <2>4. Heeded'
    BY <1>3, <2>3, MessagesStayHeard DEF Hears, IInv
  <2>5. Questions'
    BY <1>2, <1>4, <2>1 DEF IInv, Questions, Fits
  <2>6. Dialogue' /\ NothingIsRedone' /\ OutcomeIsStored'
    BY <1>2, <2>1 DEF IInv, Dialogue, Beginning, NothingIsRedone, Anew, OutcomeIsStored, Stored
  <2> QED
    BY <2>2, <2>4, <2>5, <2>6 DEF IInv
<1>9. CASE Initialized \/ ThreadBound
  <2>1. /\ pc' = "ask" /\ cursor' = cursor
        /\ \/ method = "initialize" /\ recovering /\ method' = "thread/turns"
           \/ method = "initialize" /\ ~recovering /\ method' = "thread"
           \/ method = "thread" /\ method' = "turn/start"
    BY <1>9 DEF Initialized, ThreadBound, Go
  <2>2. Shape'
    BY <1>2, <2>1 DEF IInv, Shape, Stored, Methods
  <2>3. Grows /\ GoesOn
    BY <1>2, <2>1, TurnsStay DEF GoesOn, IInv, Shape
  <2>4. Heeded'
    BY <1>3, <2>3, MessagesStayHeard DEF Hears, IInv
  <2>5. Questions'
    BY <1>2, <1>4, <2>1 DEF IInv, Questions, Fits
  <2>6. ~(method = "thread" /\ recovering)
    BY DEF IInv, Dialogue
  <2>7. Dialogue'
    BY <1>2, <2>1, <2>6 DEF IInv, Dialogue, Beginning
  <2>8. NothingIsRedone' /\ OutcomeIsStored'
    BY <1>2, <2>1 DEF IInv, NothingIsRedone, Anew, OutcomeIsStored, Stored
  <2> QED
    BY <2>2, <2>4, <2>5, <2>7, <2>8 DEF IInv
<1> QED
  BY <1>1, <1>5, <1>6, <1>7, <1>8, <1>9 DEF Answered

LEMMA TimeoutKeeps == ASSUME IInv, RequestTimesOut PROVE IInv'
<1>1. /\ pc = "asking" /\ Raise("lost") /\ Frame /\ asked' = asked /\ nextId' = nextId /\ Hears
  BY Unheeded DEF RequestTimesOut, Frame, server, stored, step
<1> QED
  BY <1>1, RaiseKeeps DEF Terminal

LEMMA TakeItemKeeps == ASSUME IInv, TakeItem PROVE IInv'
<1>1. PICK item : item = Head(out)
  OBVIOUS
<1>2. /\ pc \in {"asking", "wait"} /\ RouteItem(item) /\ out' = Tail(out) /\ out # << >>
      /\ Frame /\ asked' = asked /\ nextId' = nextId
  BY <1>1 DEF TakeItem, Frame, stored, step
<1>3. item \in Heard /\ out' \in Seq(Heard)
  BY <1>1, <1>2, HeadTailProperties DEF IInv, Heeded
<1>4. item.is = "note" => item \in HeardNotes
  BY <1>3 DEF Heard, HeardReplies, Replies, Specials
<1>5. item.is = "response" => item \in HeardReplies
  BY <1>3 DEF Heard, HeardNotes, Notes, Specials
<1>6. Hears
  <2>1. /\ responses' \in {responses, responses \cup {item}}
        /\ responses' # responses => item.is = "response"
    BY <1>2 DEF RouteItem
  <2>2. notes' = notes \/ (item.is = "note" /\ notes' = Append(notes, item))
    BY <1>2 DEF RouteItem
  <2>3. notes' \in Seq(HeardNotes)
    BY <1>4, <2>2, AppendProperties DEF IInv, Heeded
  <2> QED
    BY <1>3, <1>5, <2>1, <2>3 DEF Hears, IInv, Heeded
<1>7. Unchanged \/ \E o \in {"lost", "error", "approval", "protocol"} : Raise(o)
  BY <1>2 DEF RouteItem, RouteRequest
<1>8. CASE Unchanged
  BY <1>2, <1>6, <1>8, StayKeeps DEF Unchanged
<1>9. CASE \E o \in {"lost", "error", "approval", "protocol"} : Raise(o)
  BY <1>2, <1>6, <1>9, RaiseKeeps DEF Terminal
<1> QED
  BY <1>7, <1>8, <1>9

LEMMA ConsumeKeeps == ASSUME IInv, Consume PROVE IInv'
<1>1. PICK n : n = Head(notes)
  OBVIOUS
<1>2. /\ pc = "wait" /\ notes # << >> /\ notes' = Tail(notes) /\ cursor # 0
      /\ Frame /\ asked' = asked /\ nextId' = nextId /\ UNCHANGED <<out, responses>>
  BY DEF Consume, Frame, server, stored, tracker, step, IInv, Dialogue
<1>3. n \in HeardNotes /\ Hears
  BY <1>1, <1>2, HeadTailProperties DEF IInv, Heeded, Hears
<1>4. CASE n.about = "done" /\ Mine(n)
  <2>1. PICK o \in {"stalled", n.status} : Finish(o)
    BY <1>1, <1>4 DEF Consume
  <2>2. Stored(cursor, n.status) /\ "stalled" \notin Terminal
    BY <1>2, <1>3, <1>4 DEF HeardNotes, SoundNote, Mine, Terminal
  <2> QED
    BY <1>2, <1>3, <2>1, <2>2, FinishKeeps
<1>5. CASE Unchanged
  BY <1>2, <1>3, <1>5, StayKeeps DEF Unchanged
<1>6. CASE CanCheckpoint /\ Go("ask", "turn/interrupt")
  BY <1>2, <1>3, <1>6, InterruptKeeps DEF CanCheckpoint
<1> QED
  BY <1>1, <1>4, <1>5, <1>6 DEF Consume

LEMMA WaitsKeeps == ASSUME IInv, Waits PROVE IInv'
<1>1. /\ pc = "wait" /\ Frame /\ asked' = asked /\ nextId' = nextId /\ Hears
  BY Unheeded DEF Waits, GraceEnds, Checkpoint, Cancel, TurnTimesOut, Idle, Frame, server,
     stored, tracker, step
<1>2. CASE \E o \in {"stalled", "unconfirmed", "lost"} : Finish(o)
  BY <1>1, <1>2, FinishKeeps DEF Terminal
<1>3. CASE ~recovering /\ Go("ask", "turn/interrupt")
  BY <1>1, <1>3, InterruptKeeps
<1> QED
  BY <1>2, <1>3 DEF Waits, GraceEnds, Checkpoint, Cancel, TurnTimesOut, CanCheckpoint, CanCancel

(* The end of a process: what it did not finish is cut off, what it finished *)
(* is not asked for again.                                                   *)
LEMMA CloseKeeps == ASSUME IInv, Close PROVE IInv'
<1>1. /\ pc = "closing" /\ method' = "none" /\ ~up' /\ asked' = {} /\ working' = 0 /\ CutOff
      /\ out' = << >> /\ responses' = {} /\ nextId' = 0 /\ awaiting' = 0 /\ notes' = << >>
      /\ missed' = (missed \/ (recovering /\ outcome = "lost"))
      /\ UNCHANGED <<cursor, stop>>
  BY DEF Close, StopProcess
<1>2. /\ Grows /\ turns' \in Seq(Statuses) /\ DOMAIN turns' = DOMAIN turns
      /\ \A t \in DOMAIN turns : turns'[t] = "completed" => turns[t] = "completed"
  BY <1>1, CutOffGrows DEF IInv
<1>3. \/ FallsBack /\ pc' = "start" /\ recovering' = FALSE /\ result' = result
      \/ pc' = "start" /\ recovering' = (cursor # 0) /\ result' = result
      \/ pc' = "done" /\ result' = ResultOf /\ recovering' = recovering
  BY DEF Close, Recovers
<1>4. Shape'
  BY <1>1, <1>2, <1>3 DEF IInv, Shape, Methods
<1>5. Heeded' /\ Questions'
  BY <1>1 DEF Heeded, Questions
<1>6. Dialogue'
  <2>1. recovering' => cursor # 0
    <3>1. recovering => cursor # 0
      BY DEF IInv, Dialogue
    <3> QED
      BY <1>3, <3>1
  <2> QED
    BY <1>1, <1>3, <2>1 DEF Dialogue, Beginning
<1>7. NothingIsRedone'
  <2>1. SUFFICES ASSUME Anew', cursor # 0
                 PROVE  turns'[cursor] # "completed" \/ missed'
    BY <1>1 DEF NothingIsRedone, IInv, Shape
  <2>2. FallsBack
    BY <1>1, <1>3, <2>1 DEF Anew
  <2>3. CASE outcome = "lost"
    BY <1>1, <2>2, <2>3 DEF FallsBack
  <2>4. CASE outcome \in Terminal \ {"completed"}
    <3>1. Stored(cursor, outcome)
      BY <1>1, <2>4 DEF IInv, OutcomeIsStored
    <3> QED
      BY <1>2, <2>4, <3>1 DEF Stored
  <2> QED
    BY <2>2, <2>3, <2>4 DEF FallsBack
<1>8. OutcomeIsStored'
  <2>1. result # "output"
    BY <1>1 DEF IInv, OutcomeIsStored
  <2>2. CASE result' = ResultOf /\ pc' = "done"
    <3>1. result' = "output" => outcome = "completed"
      BY <2>2 DEF ResultOf, IInv, Shape
    <3>2. outcome = "completed" => Stored(cursor, "completed")
      BY <1>1 DEF IInv, OutcomeIsStored, Terminal
    <3> QED
      BY <1>1, <1>2, <2>2, <3>1, <3>2 DEF OutcomeIsStored, Stored, Grows, Terminal
  <2> QED
    BY <1>3, <2>1, <2>2 DEF OutcomeIsStored
<1> QED
  BY <1>4, <1>5, <1>6, <1>7, <1>8 DEF IInv

LEMMA UserStopsKeeps == ASSUME IInv, UserStops PROVE IInv'
<1>1. /\ UNCHANGED <<turns, working, cursor, awaiting, recovering, missed, result, up, asked,
                     nextId, pc, method, outcome, out, responses, notes>>
      /\ stop' \in {"pause", "interrupt"}
  BY DEF UserStops, server, stored, tracker, wait
<1>2. Shape'
  BY <1>1 DEF IInv, Shape, Stored
<1>3. Grows /\ GoesOn
  BY <1>1, TurnsStay DEF GoesOn, IInv, Shape
<1>4. Heeded'
  BY <1>1, <1>3, MessagesStayHeard DEF IInv, Heeded
<1>5. Questions' /\ Dialogue' /\ NothingIsRedone' /\ OutcomeIsStored'
  BY <1>1 DEF IInv, Questions, Fits, Dialogue, Beginning, NothingIsRedone, Anew,
     OutcomeIsStored, Stored
<1> QED
  BY <1>2, <1>4, <1>5 DEF IInv

---------------------------------------------------------------------------
LEMMA InitIInv == Init => IInv
<1> SUFFICES ASSUME Init PROVE IInv
  OBVIOUS
<1>1. << >> \in Seq(Statuses) /\ << >> \in Seq(Heard) /\ << >> \in Seq(HeardNotes)
  OBVIOUS
<1>2. Shape /\ Heeded
  BY <1>1 DEF Init, Shape, Heeded
<1> QED
  BY <1>2 DEF Init, IInv, Questions, Dialogue, Beginning, NothingIsRedone, OutcomeIsStored

LEMMA NextIInv == ASSUME IInv, [Next]_vars PROVE IInv'
<1>1. CASE Client
  BY <1>1, StartKeeps, AskKeeps, TakeResponseKeeps, TimeoutKeeps, TakeItemKeeps, ConsumeKeeps,
     WaitsKeeps, CloseKeeps DEF Client
<1>2. CASE Server
  BY <1>2, ServerStepKeeps
<1>3. CASE UserStops
  BY <1>3, UserStopsKeeps
<1>4. CASE UNCHANGED vars
  <2>1. Frame /\ Hears /\ UNCHANGED <<asked, nextId, pc, method, outcome>>
    BY <1>4, Unheeded DEF vars, server, stored, tracker, wait, step, Frame
  <2> QED
    BY <2>1, StayKeeps
<1> QED
  BY <1>1, <1>2, <1>3, <1>4 DEF Next

LEMMA SameLength ==
  ASSUME NEW S, NEW s \in Seq(S), NEW t \in Seq(S), DOMAIN s = DOMAIN t
  PROVE  Len(s) = Len(t)
<1>1. Len(s) \in Nat /\ Len(t) \in Nat /\ 1 .. Len(s) = 1 .. Len(t)
  BY LenProperties
<1> QED
  BY <1>1

(* A step that starts a turn answers a request for one.                      *)
LEMMA OnlyAskedTurnsStart ==
  ASSUME IInv, [Next]_vars, Len(turns') > Len(turns)
  PROVE  \E r \in asked : r.method = "turn/start"
<1>1. Len(turns) \in Nat /\ turns' # turns
  BY TurnCount DEF IInv
<1>2. ~CutOff
  <2>1. ASSUME CutOff PROVE Len(turns') = Len(turns)
    <3>1. turns' \in Seq(Statuses) /\ DOMAIN turns' = DOMAIN turns
      BY <2>1, CutOffGrows DEF IInv
    <3>2. turns \in Seq(Statuses)
      BY DEF IInv, Shape
    <3> QED
      BY <3>1, <3>2, SameLength
  <2> QED
    BY <1>1, <2>1
<1>3. \A s \in Statuses : working # 0 => turns' # [turns EXCEPT ![working] = s]
  <2>1. SUFFICES ASSUME NEW s \in Statuses, working # 0, turns' = [turns EXCEPT ![working] = s]
                 PROVE  Len(turns') = Len(turns)
    BY <1>1
  <2>2. turns' \in Seq(Statuses) /\ DOMAIN turns' = DOMAIN turns /\ turns \in Seq(Statuses)
    BY <2>1, StatusReplaced DEF IInv, Shape
  <2> QED
    BY <2>2, SameLength
<1>4. Server
  BY <1>1, <1>2 DEF Next, vars, stored, Client, Start, Ask, TakeResponse, RequestTimesOut, TakeItem,
     Consume, Waits, Close, StopProcess, UserStops
<1>5. ~Ends
  BY <1>3 DEF Ends, Statuses
<1>6. PICK r \in asked : Answer(r)
  BY <1>1, <1>2, <1>4, <1>5 DEF Server, Crashes, Reports, SendsOversizedLine, Answers
<1> QED
  BY <1>1, <1>3, <1>6 DEF Answer, Statuses, Terminal

(* Whatever the server answers, announces or loses, and in whatever order     *)
(* (wait_for_turn and the request tracker of app_server.py): the output an    *)
(* attempt returns is of the turn it asked for, which is stored as completed. *)
THEOREM OutputIsAlwaysOfTheTurn == Spec => []OutputIsOfTheTurn
<1>1. IInv => OutputIsOfTheTurn
  BY TurnCount DEF IInv, OutcomeIsStored, Stored, OutputIsOfTheTurn
<1> QED
  BY <1>1, InitIInv, NextIInv, PTL DEF Spec

(* However often an attempt is retried and its process lost (retry.py and     *)
(* execute(recover) of development.py): a turn that has completed is not      *)
(* asked for again, unless looking it up broke in the transport as well.      *)
THEOREM CompletedTurnIsAlwaysRecovered == Spec => CompletedTurnIsRecovered
<1>1. ASSUME IInv, [Next]_vars
      PROVE  Len(turns') > Len(turns) /\ cursor # 0 => turns[cursor] # "completed" \/ missed
  <2>1. SUFFICES ASSUME Len(turns') > Len(turns), cursor # 0
                 PROVE  turns[cursor] # "completed" \/ missed
    OBVIOUS
  <2>2. Anew
    BY <1>1, <2>1, OnlyAskedTurnsStart DEF IInv, Questions, Fits, Dialogue, Anew
  <2> QED
    BY <1>1, <2>1, <2>2 DEF IInv, NothingIsRedone
<1>2. IInv /\ [Next]_vars
      => [Len(turns') > Len(turns) /\ cursor # 0
          => turns[cursor] # "completed" \/ missed]_vars
  BY <1>1
<1> QED
  BY <1>2, InitIInv, NextIInv, PTL DEF Spec, CompletedTurnIsRecovered
=============================================================================
