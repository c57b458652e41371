--------------------------- MODULE MCRuntimeTasks ---------------------------
(* Instances of RuntimeTasks for TLC. *)
EXTENDS RuntimeTasks, TLC

CONSTANTS t1, t2, t3, s1, s2

\* Every task in the same session: the contention on one lane.
OneSession == [t \in Tasks |-> s1]

\* Two tasks share a session and the third has none.
MixedSessions == [t \in Tasks |-> IF t = t3 THEN NoSession ELSE s1]

SlotSymmetry == Permutations(Slots)
=============================================================================
