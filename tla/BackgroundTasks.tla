---------------------------- MODULE BackgroundTasks ----------------------------
(***************************************************************************)
(* Background tasks: BackgroundTaskManager                                 *)
(* (src/src/efp_runtime/agents/background_tasks.py) and how an             *)
(* AgentRuntime tells its sessions what became of them                     *)
(* (src/src/efp_runtime/runtime/agent.py).                                 *)
(*                                                                         *)
(* A task is a coroutine around a runner.  cancel() closes the record at   *)
(* once, while the coroutine still unwinds and may yet come up with a      *)
(* result of its own.  The next run of the session appends a message per   *)
(* closed record to the history before it does anything else.              *)
(***************************************************************************)
EXTENDS Naturals, Sequences, Functions

CONSTANTS Tasks,    \* task ids
          Sessions

VARIABLES state,     \* state of a BackgroundTaskRecord, "none" before there is one
          owner,     \* session_id of a record
          order,     \* the records in the order of started_at
          alive,     \* the tasks whose coroutine has not ended
          drained,   \* _drained
          injected,  \* _injected
          reported,  \* what drain_completed returned of a task, in order
          told,      \* the notifications in the history of a session
          unwritten  \* tasks whose notification failed to be appended, or came after one that did

vars == <<state, owner, order, alive, drained, injected, reported, told, unwritten>>

Final == {"completed", "error", "cancelled"}

Nobody == "nobody"

-----------------------------------------------------------------------------
\* start
Start(t, s) ==
    /\ state[t] = "none"
    /\ state' = [state EXCEPT ![t] = "running"]
    /\ owner' = [owner EXCEPT ![t] = s]
    /\ order' = Append(order, t)
    /\ alive' = alive \cup {t}
    /\ UNCHANGED <<drained, injected, reported, told, unwritten>>

\* Variant: the last outcome counts.
LastOutcome(t, outcome) == outcome

\* _finish: a record that is cancelled stays cancelled.
Finished(t, outcome) == IF state[t] = "cancelled" THEN "cancelled" ELSE outcome

\* cancel
Cancel(t) ==
    /\ state[t] = "running"
    /\ state' = [state EXCEPT ![t] = "cancelled"]
    /\ UNCHANGED <<owner, order, alive, drained, injected, reported, told, unwritten>>

\* _run ends: with the state the runner returned, with an error where it raised or
\* returned another one, or cancelled.
End(t, outcome) ==
    /\ t \in alive
    /\ alive' = alive \ {t}
    /\ state' = [state EXCEPT ![t] = Finished(t, outcome)]
    /\ UNCHANGED <<owner, order, drained, injected, reported, told, unwritten>>

-----------------------------------------------------------------------------
\* The final records of session s that are not marked.
Unmarked(s, marked) ==
    {t \in Range(order) : owner[t] = s /\ state[t] \in Final /\ t \notin marked}

Place(t) == CHOOSE k \in DOMAIN order : order[k] = t

\* The records, oldest first.
Oldest(tasks) ==
    {list \in UNION {[1..n -> tasks] : n \in 0..Len(order)} :
        /\ Range(list) = tasks
        /\ \A k, l \in DOMAIN list : k < l => Place(list[k]) < Place(list[l])}

Note(t) == [task |-> t, state |-> state[t]]

Notes(list, n) == [k \in 1..n |-> Note(list[k])]

\* drain_completed
Drain(s) ==
    \E list \in Oldest(Unmarked(s, drained)) :
       /\ list # <<>>
       /\ drained' = drained \cup Range(list)
       /\ reported' = reported \o Notes(list, Len(list))
       /\ UNCHANGED <<state, owner, order, alive, injected, told, unwritten>>

\* Variant: what was drained is not told.
DueOnce(s) == Unmarked(s, drained \cup injected)

Due(s) == Unmarked(s, injected)

\* _inject_pending_background_task_results, at the start of run() and resume(): all due
\* records are marked, then appended one by one; an append that raises ends the run.
Inject(s) ==
    \E list \in Oldest(Due(s)) :
       /\ list # <<>>
       /\ injected' = injected \cup Range(list)
       /\ \E written \in 0..Len(list) :
             /\ told' = [told EXCEPT ![s] = @ \o Notes(list, written)]
             /\ unwritten' = unwritten \cup {list[k] : k \in (written + 1)..Len(list)}
       /\ UNCHANGED <<state, owner, order, alive, drained, reported>>

-----------------------------------------------------------------------------
Init ==
    /\ state = [t \in Tasks |-> "none"] /\ owner = [t \in Tasks |-> Nobody]
    /\ order = <<>> /\ alive = {} /\ drained = {} /\ injected = {}
    /\ reported = <<>> /\ told = [s \in Sessions |-> <<>>] /\ unwritten = {}

Next ==
    \/ \E t \in Tasks :
         \/ \E s \in Sessions : Start(t, s)
         \/ Cancel(t)
         \/ \E outcome \in Final : End(t, outcome)
    \/ \E s \in Sessions : Drain(s) \/ Inject(s)

-----------------------------------------------------------------------------
(* Properties                                                              *)

\* Every variable keeps its type.
TypeOK ==
    /\ state \in [Tasks -> {"none", "running"} \cup Final]
    /\ owner \in [Tasks -> Sessions \cup {Nobody}]
    /\ \A t \in Tasks : state[t] = "none" <=> owner[t] = Nobody
    /\ order \in Seq(Tasks) /\ IsInjective(order)
    /\ alive \cup drained \cup injected \cup unwritten \subseteq Range(order)
    /\ {n.task : n \in Range(reported)} = drained

Told == Range(reported) \cup UNION {Range(told[s]) : s \in Sessions}

\* What a session, or a caller of drain_completed, was told of a task is what its record
\* says for good, even where the runner comes up with a result after the cancellation; and
\* a task is told of to its own session, and once.
ToldIsTrue ==
    /\ \A n \in Told : state[n.task] = n.state
    /\ \A s \in Sessions : \A k \in 1..Len(told[s]) :
         /\ owner[told[s][k].task] = s
         /\ \A l \in 1..Len(told[s]) : told[s][k].task = told[s][l].task => k = l

\* A run that begins knows of every task of its session that is over, whether or not
\* somebody drained them, unless an append failed before.
RunKnowsTasks ==
    [][\A s \in Sessions :
          Inject(s) /\ unwritten' = unwritten
          => \A t \in Tasks : owner[t] = s /\ state[t] \in Final /\ t \notin unwritten
               => \E k \in 1..Len(told'[s]) : told'[s][k].task = t]_vars

\* A session is told of its tasks: all of them, once and truly.
TasksAreTold == []ToldIsTrue /\ RunKnowsTasks
=============================================================================
