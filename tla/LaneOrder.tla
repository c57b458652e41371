------------------------------ MODULE LaneOrder ------------------------------
(***************************************************************************)
(* The order in which a lane of RuntimeTasks starts its tasks.  A task     *)
(* keeps its place by the name it has in the dictionary of its lane, and   *)
(* the record that says when it was admitted is kept elsewhere: the two    *)
(* part where an interrupt drops a task from its lane and leaves its       *)
(* record accepted, and where the record of the owner of a lane is pruned  *)
(* and the same task id is dispatched again.  The history variable names   *)
(* the tasks for which they parted.                                        *)
(***************************************************************************)
EXTENDS RuntimeTasks

VARIABLE stray    \* history: tasks that do not wait at the place of their admission

orderVars == <<vars, stray>>

\* snapshot() of the coordinator finds the task in the lane of its session.
InLane(t) ==
    /\ SessionOf[t] # NoSession
    /\ LET lane == lanes[SessionOf[t]] IN lane.active = t \/ IsPending(lane, t)

\* A task without record or outside its lane is astray.  One that is admitted is not,
\* unless its lane still names its earlier admission; one that comes back to its lane by a
\* repeated request, at the end of the dictionary, remains so.
Watch ==
    stray' = {t \in Tasks :
                \/ records'[t].status = "absent"
                \/ ~InLane(t)'
                \/ IF records'[t].seq # records[t].seq THEN InLane(t) ELSE t \in stray}

OrderSpec == Init /\ stray = Tasks /\ [][Next /\ Watch]_orderVars

\* Only a steer task starts before an accepted task of its session that was
\* admitted earlier, and only before one that queues; but for the tasks astray.
StartsInOrder ==
    [][\A r \in Slots : runs[r].pc = "spawned" /\ runs'[r].pc = "executing" =>
         LET t == runs[r].task IN
         \A u \in Tasks \ stray :
            /\ t \notin stray /\ SessionOf[u] = SessionOf[t]
            /\ records[u].status = "accepted" /\ records[u].seq < records[t].seq
            => records[u].delivery = "queue" /\ records[t].delivery = "steer"]_orderVars
=============================================================================
