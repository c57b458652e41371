---------------------------- MODULE MCLaneOrder ----------------------------
(* An instance of LaneOrder for TLC. *)
EXTENDS LaneOrder, TLC

CONSTANTS t1, t2, t3, t4, s1

\* Every task in the same session: the contention on one lane.
OneSession == [t \in Tasks |-> s1]

\* The tasks differ by their names only: all may be cancelled, all are of s1.
LaneSymmetry == Permutations(Slots) \cup Permutations(Tasks)
=============================================================================
