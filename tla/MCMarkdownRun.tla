--------------------------- MODULE MCMarkdownRun ---------------------------
(* Two issues, the second blocked by the first, and the two-step workflow of *)
(* a coder and a reviewer that may send the work back.                       *)
EXTENDS MarkdownRun

CONSTANTS a, b, dev, rev

MCOrder == <<b, a>>
MCNeeds == [i \in {a, b} |-> IF i = b THEN {a} ELSE {}]
MCRoute == [s \in {dev, rev} |-> [o \in StepOutcomes |->
    IF s = dev /\ o = "SUCCEEDED" THEN rev
    ELSE IF s = rev /\ o = "CHANGES_REQUESTED" THEN dev ELSE NoStep]]
MCInputs == [s \in {dev, rev} |-> IF s = rev THEN {dev} ELSE {}]
\* A coder that is blocked ends its issue as one that fails does.  The second
\* issue is there to wait for the first: its reviewer only accepts.
MCAnswers == [i \in {a, b} |-> [s \in {dev, rev} |->
    IF s = dev THEN {"SUCCEEDED", "FAILED"} ELSE IF i = a THEN StepOutcomes ELSE {"SUCCEEDED"}]]
=============================================================================
