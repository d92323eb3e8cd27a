-------------------------- MODULE CatalogAdmission --------------------------
(***************************************************************************)
(* The execution_requests and execution_claims tables of the catalog       *)
(* implement AdmissionQueue, and a live application that waits in line is  *)
(* served.                                                                 *)
(***************************************************************************)
EXTENDS SessionCatalog

Before == {p \in Requesters \X Requesters : order[p[1]] < order[p[2]]}

Line == INSTANCE AdmissionQueue
          WITH waiting <- Requesters, ahead <- Before, running <- Claimers

(* Queue positions are renumbered from 1 whenever the table empties and    *)
(* are freed in any order by releases, crashes and missing worktrees; even *)
(* so admission is first come, first served and never above the limit      *)
(* (request_execution_capacity and every method that deletes a request).   *)
AdmissionIsFirstComeFirstServed == Line!Spec

-----------------------------------------------------------------------------
(* Fairness: _run_capacity_scheduler polls every request of a running      *)
(* application each 50 ms, and withdraws one whose poll raises; a claim is *)
(* given up once its work ends, pauses or waits for input.                 *)
Poll(o, s) == request[s] = o /\ RequestExecutionCapacity(o, s)

Withdraw(o, s) ==
    /\ request[s] = o /\ ~MayQueue(o, s)
    /\ ReleaseExecutionCapacity(o, s, "FAILED")

GiveUpSlot(o, s) ==
    /\ claim[s] = o
    /\ \E st \in Reported : ReleaseExecutionCapacity(o, s, st)

Fairness ==
    \A o \in Owners, s \in Sessions :
        WF_vars(Poll(o, s)) /\ WF_vars(Withdraw(o, s)) /\ WF_vars(GiveUpSlot(o, s))

FairSpec == Spec /\ Fairness

(* Nobody waits for ever while every application that queues or runs is    *)
(* alive: a request whose session became unavailable or terminal does not  *)
(* block the requests behind it, and the limit may change meanwhile.       *)
LiveQueueAdvances ==
    \A s \in Sessions :
        ~<>[](/\ s \in Requesters
              /\ \A t \in Sessions : {request[t], claim[t]} \subseteq alive \cup {NoOwner})
=============================================================================
