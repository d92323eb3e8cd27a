---------------------------- MODULE MCIssueRun ----------------------------
(* Two issues, the second behind the first or each on its own.  MaxTroubles *)
(* bounds deaths of the process, edits by somebody else and retries         *)
(* together.                                                                *)
EXTENDS IssueRun, TLC
CONSTANTS i1, i2, t1, t2, MaxTroubles
MCOrder == <<i1, i2>>
MCTrees == {t1, t2}
Chain == {[i \in {i1, i2} |-> IF i = i2 THEN {i1} ELSE {}]}

MCNext == Next /\ crashes' + edits' + consents' <= MaxTroubles
MCInit == Init /\ tree = t1
MCSpec == MCInit /\ [][MCNext]_vars /\ WF_vars(Proceeds) /\ WF_vars(TurnEnds)
=============================================================================
