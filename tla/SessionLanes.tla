---------------------------- MODULE SessionLanes ----------------------------
(***************************************************************************)
(* The lane of one task session, as RuntimeTaskSessionCoordinator keeps it *)
(* (src/src/runtime/runtime_task_session_coordinator.py).  Every operation *)
(* of the coordinator runs under its RLock, so an operation is one         *)
(* operator from a lane to the lane it leaves behind, with the decision    *)
(* the caller acts on.                                                     *)
(*                                                                         *)
(* A lane has at most one active task; the others wait.  The OrderedDict   *)
(* `pending' is a set of entries, each with the tasks that are ahead of it *)
(* in that dictionary.  A session missing from `_lanes' is the lane Fresh: *)
(* the code drops a lane that has neither an active nor a pending task,    *)
(* and forgets its interrupt.                                              *)
(***************************************************************************)
EXTENDS Naturals

CONSTANTS Tasks,        \* task ids
          None          \* no active task, no task to schedule next

ASSUME NoneAssumption == None \notin Tasks

Deliveries == {"steer", "queue"}

Entries == [task: Tasks, seq: Nat, delivery: Deliveries, ahead: SUBSET Tasks]

\* interrupt = 0 stands for interrupt_seq = None: admitted_seq starts at 1.
Lanes == [active: Tasks \cup {None}, pending: SUBSET Entries,
          interrupt: Nat, stopping: BOOLEAN, blocked: BOOLEAN]

Fresh == [active |-> None, pending |-> {}, interrupt |-> 0,
          stopping |-> FALSE, blocked |-> FALSE]

Waiters(E) == {e.task : e \in E}

IsPending(lane, t) == t \in Waiters(lane.pending)

\* The dictionary that holds the entries E only, in the order they had.
InOrder(E) == {[e EXCEPT !.ahead = @ \cap Waiters(E)] : e \in E}

\* Variant: the last entry, as popitem() would give it.
LatestInstead(E) == {e \in E : \A f \in E : e.task \notin f.ahead}

Earliest(E) == {e \in E : e.ahead \cap Waiters(E) = {}}

Without(lane, t) ==
    [lane EXCEPT !.pending = InOrder({e \in @ : e.task # t})]

AfterInterrupt(lane, seq) == lane.interrupt = 0 \/ seq > lane.interrupt

\* A lane left with no task at all is removed from _lanes.
Dropped(lane) ==
    IF lane.active = None /\ lane.pending = {} THEN Fresh ELSE lane

Activated(lane, t) ==
    [Without(lane, t) EXCEPT !.active = t, !.stopping = FALSE, !.blocked = FALSE]

Enqueued(lane, t, seq, delivery) ==
    IF IsPending(lane, t)
    THEN lane
    ELSE [lane EXCEPT !.pending = @ \cup
             {[task |-> t, seq |-> seq, delivery |-> delivery,
               ahead |-> Waiters(lane.pending)]}]

ScheduleDecision(lane, t, seq) ==
    IF ~AfterInterrupt(lane, seq) THEN "suppressed"
    ELSE IF lane.active = None THEN "start"
    ELSE IF lane.active = t THEN "active"
    ELSE "queued"

Scheduled(lane, t, seq, delivery) ==
    CASE ScheduleDecision(lane, t, seq) = "start"  -> Activated(lane, t)
      [] ScheduleDecision(lane, t, seq) = "queued" -> Enqueued(lane, t, seq, delivery)
      [] OTHER                                     -> lane

HeldForUserInput(lane, t) ==
    IF lane.active = t
    THEN [lane EXCEPT !.blocked = TRUE, !.stopping = FALSE]
    ELSE lane

-----------------------------------------------------------------------------
(* Promotion: entries at or before the interrupt are dropped, then the     *)
(* first steer entry is taken, else the first entry.                       *)

Surviving(lane) == {e \in lane.pending : AfterInterrupt(lane, e.seq)}

Candidates(lane) ==
    LET steers == {e \in Surviving(lane) : e.delivery = "steer"}
    IN  Earliest(IF steers # {} THEN steers ELSE Surviving(lane))

Promoted(lane) ==
    IF Candidates(lane) = {} THEN None
    ELSE (CHOOSE e \in Candidates(lane) : TRUE).task

PromotedNext(lane) ==
    IF Promoted(lane) = None
    THEN [lane EXCEPT !.pending = InOrder(Surviving(lane))]
    ELSE Activated([lane EXCEPT !.pending = InOrder(Surviving(lane))], Promoted(lane))

Released(lane) ==
    [lane EXCEPT !.active = None, !.stopping = FALSE, !.blocked = FALSE]

\* The task complete() returns: the caller is to schedule it.
NextOnComplete(lane, t) ==
    IF lane.active = t THEN Promoted(Released(lane)) ELSE None

Completed(lane, t) ==
    IF lane.active = t
    THEN Dropped(PromotedNext(Released(lane)))
    ELSE Dropped(Without(lane, t))

Higher(m, n) == IF m >= n THEN m ELSE n

\* cancel(): an active task leaves an interrupt behind and takes with it every
\* pending entry admitted at or before it; a pending task just leaves.
Cancelled(lane, t, seq) ==
    IF lane.active = t
    THEN [lane EXCEPT !.interrupt = Higher(@, seq), !.stopping = TRUE, !.blocked = FALSE,
                      !.pending = InOrder({e \in @ : e.seq > seq})]
    ELSE IF IsPending(lane, t)
    THEN Dropped(Without(lane, t))
    ELSE lane
=============================================================================
