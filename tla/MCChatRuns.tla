------------------------------ MODULE MCChatRuns ------------------------------
(* Instances of ChatRuns for TLC. *)
EXTENDS ChatRuns

CONSTANTS h1, h2, h3, a, b, s1, s2

\* The Portal submits request a twice, and b once.
Resubmitted == [h \in Handlers |-> IF h = h3 THEN b ELSE a]

SameSession == [h \in Handlers |-> s1]

\* The second submission of a comes from another session.
OtherSession == [h \in Handlers |-> IF h = h2 THEN s2 ELSE s1]
=============================================================================
