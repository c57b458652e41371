------------------------------ MODULE LeaderCycle ------------------------------
(***************************************************************************)
(* Delegation cycles of the leaders of one group                           *)
(* (src/src/runtime/leader_orchestration.py): a cycle reads the budget of  *)
(* the group, prepares the tasks that fit, creates their delegations one   *)
(* by one and then judges its coordination run.  The board of the group,   *)
(* with the delegations and the task agents, is the Portal's; every call   *)
(* to it is an await at which other cycles and the assignees go on.        *)
(***************************************************************************)
EXTENDS Naturals, FiniteSets

CONSTANTS Cycles,    \* calls of run_delegation_cycle
          RunOf,     \* coordination run of a cycle
          MaxTasks,  \* tasks a cycle is given
          Limit,     \* effective_max_parallel_tasks of the group
          Ephemeral, \* tasks with agent_mode "task"
          Invalid    \* tasks without an objective

LeaderAssumption == {MaxTasks, Limit} \subseteq Nat

Places == 1..MaxTasks

Tasks == Cycles \X Places

VARIABLES cycle, \* a cycle: where it is, the tasks it dispatches (give) and has
                 \* handled (next), whether one failed, and what it reports
          board, \* status of the delegation of a task on the Portal, or "none"
          agent, \* task agent made for a task: none, live or deleted
          loose  \* cycles that read no budget, or while another one dispatched

vars == <<cycle, board, agent, loose>>

NewCycle == [pc |-> "idle", give |-> 0, next |-> 1, failed |-> FALSE,
             report |-> "none", verdict |-> "none"]

\* Variant: blocked tasks do not count.
ActiveUnblocked == {"queued", "running"}

\* ACTIVE_TASK_STATUSES
Active == {"queued", "running", "blocked"}

\* A cycle between its look at the budget and its last delegation.
Dispatching(c) == cycle[c].pc \in {"prepare", "dispatch"}

-----------------------------------------------------------------------------
\* Slots left on the board.
Free ==
    LET busy == Cardinality({t \in Tasks : board[t] \in Active})
    IN  IF busy >= Limit THEN 0 ELSE Limit - busy

\* What fits is dispatched, the rest deferred; without an answer from the Portal there is
\* no limit.
Fitting(known) == IF known /\ Free < MaxTasks THEN Free ELSE MaxTasks

\* _load_group_parallelism_budget
LoadBudget(c) ==
    /\ cycle[c].pc = "idle"
    /\ \E known \in BOOLEAN :
         /\ cycle' = [cycle EXCEPT ![c].give = Fitting(known),
                                   ![c].pc = IF Fitting(known) = 0 THEN "judge" ELSE "prepare"]
         /\ loose' = loose \cup
              (IF known /\ \A d \in Cycles : ~Dispatching(d) THEN {} ELSE {c})
    /\ UNCHANGED <<board, agent>>

\* The cycle raises: its request ends in error.
Raise(c) == cycle' = [cycle EXCEPT ![c].pc = "over", ![c].report = "error"]

\* build_delegation_requests_from_task_breakdown
Builds(c) == \A i \in 1..cycle[c].give : <<c, i>> \notin Invalid

\* _prepare_task_for_delegation makes a task agent, or selects an assignee.  All tasks are
\* prepared, and their requests built, before the first delegation.
Prepare(c) ==
    /\ cycle[c].pc = "prepare"
    /\ LET i == cycle[c].next IN
       \/ Raise(c) /\ UNCHANGED agent
       \/ /\ agent' = IF <<c, i>> \in Ephemeral THEN [agent EXCEPT ![<<c, i>>] = "live"] ELSE agent
          /\ IF i < cycle[c].give THEN cycle' = [cycle EXCEPT ![c].next = i + 1]
             ELSE IF Builds(c) THEN cycle' = [cycle EXCEPT ![c].pc = "dispatch", ![c].next = 1]
             ELSE Raise(c)
    /\ UNCHANGED <<board, loose>>

\* Variant: only the last delegation counts.
LastFailed(c, told) == ~told

Failed(c, told) == cycle[c].failed \/ ~told

\* create_delegation: a failure is counted and the next task goes on.  An answer may be
\* lost after the Portal made the delegation.
Dispatch(c) ==
    /\ cycle[c].pc = "dispatch"
    /\ \E created, told \in BOOLEAN :
         /\ told => created
         /\ board' = IF created THEN [board EXCEPT ![<<c, cycle[c].next>>] = "queued"] ELSE board
         /\ cycle' = [cycle EXCEPT
              ![c].failed = Failed(c, told),
              ![c].next = cycle[c].next + 1,
              ![c].pc = IF cycle[c].next = cycle[c].give THEN "judge" ELSE "dispatch"]
    /\ UNCHANGED <<agent, loose>>

\* Statuses of the delegations of a run.
StatusesOf(run) == {board[t] : t \in {u \in Tasks : RunOf[u[1]] = run}} \ {"none"}

\* evaluate_completion_criteria and next_action; prior tells of blockers in the results the
\* leader brought along.
Verdict(seen, prior) ==
    IF prior \/ "blocked" \in seen THEN "blocked"
    ELSE IF seen = {"done"} THEN "complete"
    ELSE IF {"queued", "running"} \cap seen # {} THEN "continue" ELSE "review"

\* A leader has results with blockers from a cycle of its run that found some.
MayBring(c) == {FALSE} \cup
    {cycle[d].verdict = "blocked" : d \in {e \in Cycles : RunOf[e] = RunOf[c]}}

\* load_coordination_run_state sees the delegations of the run (one that is blocked lists its
\* blockers), or the Portal does not answer and it sees none.
Judge(c) ==
    /\ cycle[c].pc = "judge"
    /\ \E seen \in {StatusesOf(RunOf[c]), {}}, prior \in MayBring(c) :
         cycle' = [cycle EXCEPT
              ![c].pc = "over",
              ![c].report = IF cycle[c].failed THEN "error" ELSE "success",
              ![c].verdict = Verdict(seen, prior)]
    /\ UNCHANGED <<board, agent, loose>>

-----------------------------------------------------------------------------
\* The Portal: an assignee goes on with its task.  The agent of a task that is over is
\* deleted (delete_on_terminal).
Assignee(t) ==
    /\ \/ board[t] = "queued" /\ board' = [board EXCEPT ![t] = "running"]
       \/ board[t] = "running" /\ \E s \in {"done", "failed", "blocked"} : board' = [board EXCEPT ![t] = s]
       \/ board[t] = "blocked" /\ board' = [board EXCEPT ![t] = "running"]
    /\ agent' = IF board'[t] \in {"done", "failed"} /\ agent[t] = "live"
                THEN [agent EXCEPT ![t] = "deleted"] ELSE agent
    /\ UNCHANGED <<cycle, loose>>

Init ==
    /\ cycle = [c \in Cycles |-> NewCycle]
    /\ board = [t \in Tasks |-> "none"]
    /\ agent = [t \in Tasks |-> "none"]
    /\ loose = {}

Next ==
    \/ \E c \in Cycles : LoadBudget(c) \/ Prepare(c) \/ Dispatch(c) \/ Judge(c)
    \/ \E t \in Tasks : Assignee(t)

-----------------------------------------------------------------------------
(* Properties                                                              *)

\* Every variable keeps its type.
TypeOK ==
    /\ cycle \in [Cycles -> [pc: {"idle", "prepare", "dispatch", "judge", "over"},
                             give: 0..MaxTasks, next: 1..(MaxTasks + 1), failed: BOOLEAN,
                             report: {"none", "success", "error"},
                             verdict: {"none", "blocked", "complete", "continue", "review"}]]
    /\ board \in [Tasks -> {"none", "queued", "running", "blocked", "done", "failed"}]
    /\ agent \in [Tasks -> {"none", "live", "deleted"}]
    /\ loose \subseteq Cycles

\* The group never works on more tasks than its limit, whichever of them block and go on
\* and whichever delegations fail, unless two cycles dispatched at the same time or one
\* could not read the budget.
BudgetIsKept ==
    loose = {} => Cardinality({t \in Tasks : board[t] \in {"queued", "running", "blocked"}}) <= Limit

\* What a cycle reports is true.  One that raised created no delegation, so that it can be
\* tried again; one that reports success created one for every task it did not defer, and
\* no task agent that is without; and if it calls its run complete as well, all of these
\* are done, whatever the other cycles of the run do.
ReportIsTrue ==
    \A c \in Cycles : cycle[c].pc = "over" =>
        LET own == {<<c, i>> : i \in 1..cycle[c].give} IN
        /\ cycle[c].verdict = "none" => \A t \in own : board[t] = "none"
        /\ cycle[c].report = "success" =>
             /\ \A t \in own : board[t] # "none"
             /\ \A i \in Places : agent[<<c, i>>] # "none" => <<c, i>> \in own
             /\ cycle[c].verdict = "complete" => \A t \in own : board[t] = "done"

\* The cycles of a group keep their budget and report the truth.
CyclesAreSound == BudgetIsKept /\ ReportIsTrue
=============================================================================
