---------------------------- MODULE AppServerTurn ----------------------------
(* One attempt of a CodexCLI step (components/*.py) through the App Server     *)
(* client (execution/app_server.py): a child process answers requests in any   *)
(* order and streams notifications and requests of its own; one thread reads   *)
(* them, another one asks, waits, interrupts and closes. A transport failure   *)
(* is retried in a new process, which first looks up the turn of the old one   *)
(* (application/retry.py and `execute` of development.py and review_qa.py).    *)
(*                                                                             *)
(* Abstracted: the contents of messages and outputs; the clock (a deadline may *)
(* pass at any moment, as the approval handler may block for minutes); which   *)
(* turn is asked for is a number, 0 a turn of somebody else (a sub-agent's     *)
(* thread). Named bounds: MaxRetries, MaxFaults and MaxEvents.                 *)
EXTENDS Naturals, Sequences

CONSTANTS MaxRetries,  \* transient retries the Workflow allows
          MaxFaults,   \* bound: crashes of the server and oversized lines
          MaxEvents    \* bound: what a turn reports before it ends

ASSUME TurnAssumption == {MaxRetries, MaxFaults, MaxEvents} \subseteq Nat

VARIABLES
  up, asked, working, wants, out,    \* the server: alive, requests it has not
                                     \* answered, the turn it works on, whether
                                     \* that waits for an approval; its output
  reading,                           \* the thread that reads that output
  turns, faults, events,             \* the stored status of every turn; bounds
  pc, method, awaiting,              \* the client: where it is, what it asked
  pending, responses, nextId,        \* RpcRequestTracker
  notes,                             \* notifications nobody has consumed
  begun, interrupted, expired,       \* wait_for_turn: a file changed, an
                                     \* interrupt was sent, for the checkpoint
  kind, recovering, cursor, retries, \* the step, execute(recover), its cursor
  stop,                              \* the user's pause or interrupt request
  outcome, result,                   \* of this client; of the attempt
  missed                             \* ghost: a recovery the transport broke

server == <<up, asked, working, wants, out, reading>>
stored == <<turns, faults, events>>
tracker == <<pending, responses, nextId>>
wait == <<notes, begun, interrupted, expired>>
step == <<kind, cursor, stop, retries>>
vars == <<server, stored, pc, method, awaiting, tracker, wait, step,
          recovering, outcome, result, missed>>

\* "unusable": completed, with an output the step rejects; "transient": failed,
\* and is_transient_turn_failure
Terminal == {"completed", "unusable", "transient", "failed", "interrupted"}

Init ==
  /\ up = FALSE /\ asked = {} /\ working = 0 /\ wants = FALSE /\ out = << >>
  /\ reading = FALSE
  /\ turns = << >> /\ faults = 0 /\ events = 0
  /\ pc = "start" /\ method = "none" /\ awaiting = 0
  /\ pending = {} /\ responses = {} /\ nextId = 0
  /\ notes = << >> /\ begun = FALSE /\ interrupted = FALSE /\ expired = FALSE
  /\ kind \in {"development", "review", "analysis"}
  /\ recovering = FALSE /\ cursor = 0 /\ retries = 0 /\ stop = "none"
  /\ outcome = "none" /\ result = "none" /\ missed = FALSE

(******************************************************************************)
(* The server                                                                 *)
(******************************************************************************)
Emit(item) == out' = Append(out, item)
Response(id, v, t) == [is |-> "response", id |-> id, value |-> v, turn |-> t]
Note(about, t, s) == [is |-> "note", about |-> about, turn |-> t, status |-> s]
Special(s) == [is |-> s]

\* it answers in any order; the answer to turn/start may come after the turn has
\* reported, or ended, and resuming a thread may continue what was cut off
Answer(r) ==
  \/ /\ r.method = "turn/start"
     /\ turns' = Append(turns, "inProgress") /\ working' = Len(turns')
     /\ \/ asked' = asked \ {r} /\ Emit(Response(r.id, "ok", Len(turns')))
        \/ /\ asked' = (asked \ {r}) \cup {[r EXCEPT !.method = "started"]}
           /\ UNCHANGED out
  \/ /\ r.method \in {"initialize", "thread", "started"}
     /\ asked' = asked \ {r}
     /\ Emit(Response(r.id, "ok", Len(turns)))
     /\ UNCHANGED <<turns, working>>
  \/ /\ r.method = "thread/turns"
     /\ asked' = asked \ {r} /\ Emit(Response(r.id, turns[cursor], cursor))
     /\ working' \in {0} \cup {t \in {cursor} : turns[t] = "inProgress"}
     /\ UNCHANGED turns
  \/ /\ r.method = "turn/interrupt" /\ working = 0
     /\ asked' = asked \ {r} /\ Emit(Response(r.id, "error", 0))
     /\ UNCHANGED <<turns, working>>
  \/ /\ r.method = "turn/interrupt" /\ working # 0
     /\ asked' = asked \ {r} /\ working' = 0
     /\ turns' = [turns EXCEPT ![working] = "interrupted"]
     /\ LET answer == Response(r.id, "ok", working)
            note == Note("done", working, "interrupted")
        IN out' \in {out \o <<answer, note>>, out \o <<note, answer>>}

Answers == /\ \E r \in asked : Answer(r)
           /\ wants' = (wants /\ working' = working)
           /\ UNCHANGED <<faults, events>>

Reports ==
  /\ working # 0 /\ ~wants /\ events < MaxEvents /\ events' = events + 1
  /\ \/ Emit(Note("file", working, "none")) /\ UNCHANGED wants
     \/ Emit(Note("done", 0, "completed")) /\ UNCHANGED wants
     \/ Emit(Special("request")) /\ wants' = TRUE
  /\ UNCHANGED <<asked, working, turns, faults>>

Ends == \E s \in Terminal :
  /\ working # 0 /\ ~wants
  /\ turns' = [turns EXCEPT ![working] = s] /\ working' = 0
  /\ Emit(Note("done", working, s))
  /\ UNCHANGED <<asked, wants, faults, events>>

\* what becomes of the turn of a process that ends
CutOff == \E s \in {"inProgress", "interrupted"} :
  turns' = [t \in DOMAIN turns |-> IF t = working THEN s ELSE turns[t]]

Crashes ==
  /\ faults < MaxFaults /\ faults' = faults + 1
  /\ up' = FALSE /\ asked' = {} /\ working' = 0 /\ wants' = FALSE /\ CutOff
  /\ Emit(Special("closed")) /\ UNCHANGED events

SendsOversizedLine ==
  /\ faults < MaxFaults /\ faults' = faults + 1
  /\ Emit(Special("oversized"))
  /\ UNCHANGED <<asked, working, wants, turns, events>>

Server ==
  /\ up
  /\ \/ Crashes
     \/ UNCHANGED up /\ (Answers \/ Reports \/ Ends \/ SendsOversizedLine)
  /\ UNCHANGED <<reading, pc, method, awaiting, tracker, wait, step, recovering,
                 outcome, result, missed>>

(******************************************************************************)
(* The client: requests and what the reader thread hands over                 *)
(******************************************************************************)
Go(place, m) == pc' = place /\ method' = m /\ UNCHANGED <<outcome, interrupted>>
Finish(o) == /\ pc' = "closing" /\ outcome' = o
             /\ UNCHANGED <<method, interrupted>>

Interrupting == method = "turn/interrupt"
BackToWait == /\ pc' = "wait" /\ method' = "none" /\ interrupted' = TRUE
              /\ UNCHANGED outcome

\* the caller of interrupt_turn goes on whatever the request raises
Raise(o) == IF Interrupting THEN BackToWait ELSE Finish(o)

Start ==
  /\ pc = "start"
  /\ \/ /\ up' = TRUE /\ reading' = TRUE /\ out' = << >>
        /\ Go("ask", "initialize")
     \/ Finish("lost") /\ UNCHANGED <<up, reading, out>>
  /\ UNCHANGED <<asked, working, wants, stored, awaiting, tracker, notes, begun,
                 expired, step, recovering, result, missed>>

Ask ==
  /\ pc = "ask"
  /\ pending' = pending \cup {nextId} /\ nextId' = nextId + 1
  /\ IF up
     THEN /\ asked' = asked \cup {[id |-> nextId, method |-> method]}
          /\ awaiting' = nextId /\ Go("asking", method)
     ELSE Raise("lost") /\ UNCHANGED <<asked, awaiting>>
  /\ UNCHANGED <<up, working, wants, out, reading, stored, responses, notes,
                 begun, expired, step, recovering, result, missed>>

Initialized == /\ method = "initialize"
               /\ Go("ask", IF recovering THEN "thread/turns" ELSE "thread")
               /\ UNCHANGED cursor
ThreadBound == method = "thread" /\ Go("ask", "turn/start") /\ UNCHANGED cursor
TurnStarted(turn) == method = "turn/start" /\ Go("wait", "none") /\ cursor' = turn
TurnLookedUp(status) ==
  /\ method = "thread/turns" /\ UNCHANGED cursor
  /\ IF status = "inProgress" THEN Go("wait", "none") ELSE Finish(status)
InterruptConfirmed == Interrupting /\ BackToWait /\ UNCHANGED cursor

Answered(value, turn) ==
  IF value = "error" THEN Raise("error") /\ UNCHANGED cursor
  ELSE \/ Initialized \/ ThreadBound \/ TurnStarted(turn)
       \/ TurnLookedUp(value) \/ InterruptConfirmed

TakeResponse ==
  /\ pc = "asking"
  /\ \E r \in responses :
       /\ r.id = awaiting
       /\ responses' = responses \ {r} /\ pending' = pending \ {r.id}
       /\ Answered(r.value, r.turn)
  /\ UNCHANGED <<server, stored, awaiting, nextId, notes, begun, expired, kind,
                 stop, retries, recovering, result, missed>>

Unanswered == \A r \in responses : r.id # awaiting

StillPending == pending

RequestTimesOut ==
  /\ pc = "asking" /\ Unanswered /\ pending' = StillPending
  /\ Raise("lost")
  /\ UNCHANGED <<server, stored, awaiting, responses, nextId, notes, begun,
                 expired, step, recovering, result, missed>>

Unchanged == UNCHANGED <<pc, method, outcome, interrupted>>

\* the approval handler answers, or has no answer, or one that is not supported
RouteRequest ==
  \/ ~recovering /\ (IF up THEN /\ wants' = FALSE
                                /\ Unchanged
                     ELSE Raise("lost") /\ UNCHANGED wants)
  \/ ~recovering /\ Raise("error") /\ UNCHANGED wants
  \/ Raise("approval") /\ UNCHANGED wants

Expected(id) == id \in pending /\ \A r \in responses : r.id # id

RouteItem(item) ==
  \/ item.is = "note" /\ notes' = Append(notes, item) /\ Unchanged
     /\ UNCHANGED <<responses, reading, wants>>
  \/ /\ item.is = "response"
     /\ IF Expected(item.id)
        THEN responses' = responses \cup {item} /\ Unchanged
        ELSE Raise("protocol") /\ UNCHANGED responses
     /\ UNCHANGED <<notes, reading, wants>>
  \/ /\ item.is = "request" /\ RouteRequest
     /\ UNCHANGED <<notes, responses, reading>>
  \/ /\ item.is \in {"closed", "oversized"} /\ reading' = FALSE
     /\ Raise(IF item.is = "closed" THEN "lost" ELSE "error")
     /\ UNCHANGED <<notes, responses, wants>>

CanCancel == kind # "analysis" /\ ~recovering /\ ~interrupted
CanCheckpoint == kind = "development" /\ ~recovering /\ ~interrupted

TakeItem ==
  /\ \/ pc = "asking" /\ Unanswered
     \/ pc = "wait" /\ notes = << >> /\ ~(CanCancel /\ stop # "none")
  /\ reading /\ out # << >> /\ out' = Tail(out)
  /\ RouteItem(Head(out))
  /\ UNCHANGED <<up, asked, working, stored, awaiting, pending, nextId, begun,
                 expired, step, recovering, result, missed>>

(******************************************************************************)
(* wait_for_turn                                                              *)
(******************************************************************************)
FaultMine(n) == TRUE
Mine(n) == n.turn = cursor

Consume ==
  /\ pc = "wait" /\ notes # << >> /\ notes' = Tail(notes)
  /\ LET n == Head(notes) IN
     \/ /\ n.about = "done" /\ Mine(n)
        /\ Finish(IF expired THEN "stalled" ELSE n.status)
        /\ UNCHANGED <<begun, expired>>
     \/ /\ ~(n.about = "done" /\ Mine(n))
        /\ begun' = (begun \/ (n.about = "file" /\ Mine(n)))
        /\ \/ Unchanged /\ UNCHANGED expired
           \/ /\ CanCheckpoint /\ ~begun'
              /\ expired' = TRUE /\ Go("ask", "turn/interrupt")
  /\ UNCHANGED <<server, stored, awaiting, tracker, step, recovering, result, missed>>

Idle == pc = "wait" /\ notes = << >>

GraceEnds == /\ Idle /\ interrupted
             /\ Finish(IF expired THEN "stalled" ELSE "unconfirmed")
             /\ UNCHANGED expired

Checkpoint == /\ Idle /\ CanCheckpoint /\ ~begun
              /\ expired' = TRUE /\ Go("ask", "turn/interrupt")

Cancel == /\ Idle /\ CanCancel /\ stop # "none"
          /\ Go("ask", "turn/interrupt") /\ UNCHANGED expired

TurnTimesOut == /\ Idle /\ ~interrupted /\ ~(CanCancel /\ stop # "none")
                /\ Finish("lost") /\ UNCHANGED expired

Waits ==
  /\ GraceEnds \/ Checkpoint \/ Cancel \/ TurnTimesOut
  /\ UNCHANGED <<server, stored, awaiting, tracker, notes, begun, step,
                 recovering, result, missed>>

(******************************************************************************)
(* close, and what the step makes of the outcome                              *)
(******************************************************************************)
Limit == IF kind = "analysis" THEN 0 ELSE MaxRetries
TransientOutcome == outcome = "lost" \/ (outcome = "transient" /\ kind = "development")

\* `execute` of a development step replaces a turn it cannot recover
FallsBack == /\ recovering /\ kind = "development"
             /\ outcome \in (Terminal \ {"completed"}) \cup {"lost"}

\* "failed": the attempt (a run that analyses pauses instead)
ResultOf == CASE outcome = "completed" -> "output"
              [] outcome \in {"approval", "stalled"} -> outcome
              [] outcome \in {"interrupted", "unconfirmed"}
                 /\ stop # "none" /\ ~recovering -> stop
              [] OTHER -> "failed"

FaultRecovers == FALSE
Recovers == cursor # 0

\* its group: it ends on end of input, on SIGTERM or on SIGKILL
StopProcess == up' = FALSE /\ asked' = {} /\ working' = 0 /\ wants' = FALSE /\ CutOff

Close ==
  /\ pc = "closing" /\ method' = "none" /\ outcome' = "none"
  /\ StopProcess /\ reading' = FALSE /\ out' = << >>
  /\ pending' = {} /\ responses' = {} /\ nextId' = 0 /\ awaiting' = 0
  /\ notes' = << >> /\ begun' = FALSE /\ interrupted' = FALSE /\ expired' = FALSE
  /\ \/ /\ FallsBack /\ pc' = "start" /\ recovering' = FALSE
        /\ UNCHANGED <<retries, result>>
     \/ /\ ~FallsBack /\ TransientOutcome /\ retries < Limit
        /\ pc' = "start" /\ retries' = retries + 1
        /\ recovering' = Recovers /\ UNCHANGED result
     \/ /\ ~FallsBack /\ ~(TransientOutcome /\ retries < Limit)
        /\ pc' = "done" /\ result' = ResultOf /\ UNCHANGED <<retries, recovering>>
  /\ missed' = (missed \/ (recovering /\ outcome = "lost"))
  /\ UNCHANGED <<faults, events, kind, cursor, stop>>

UserStops ==
  /\ pc # "done" /\ kind # "analysis" /\ stop = "none"
  /\ stop' \in {"pause", "interrupt"}
  /\ UNCHANGED <<server, stored, pc, method, awaiting, tracker, wait, kind,
                 cursor, retries, recovering, outcome, result, missed>>

Client == \/ Start \/ Ask \/ TakeResponse \/ RequestTimesOut \/ TakeItem
          \/ Consume \/ Waits \/ Close
Next == Client \/ Server \/ UserStops

Spec == Init /\ [][Next]_vars

(******************************************************************************)
(* Properties                                                                 *)
(******************************************************************************)
\* An attempt returns an output only if the turn it asked for is stored as
\* completed: not when somebody else's turn on the connection completes, when a
\* stored status is stale or when the server had to be cut off.
OutputIsOfTheTurn ==
  result = "output" => cursor # 0 /\ turns[cursor] = "completed"

\* Work that is done is not done again: a new turn is started after one that
\* has completed only when looking that one up has failed in the transport.
CompletedTurnIsRecovered ==
  [][Len(turns') > Len(turns) /\ cursor # 0
     => turns[cursor] # "completed" \/ missed]_vars

==============================================================================
