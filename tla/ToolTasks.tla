------------------------------- MODULE ToolTasks -------------------------------
(***************************************************************************)
(* The tool tasks of one session: TaskManager (src/src/agents/tasks.py)    *)
(* over ExecutionQueue (src/src/agents/queue.py).                          *)
(*                                                                         *)
(* The n-th submit_tool_task() queues item n and polls for its outcome;    *)
(* enqueue() starts a processor when the session is not marked as running. *)
(* No section under the lock suspends, and get() is called on a queue that *)
(* is not empty only, so a call suspends in an item and in the polling and *)
(* nowhere else.  Nothing in the code calls clear_session().               *)
(***************************************************************************)
EXTENDS Naturals, Sequences, FiniteSets, SequencesExt

CONSTANTS MaxItems,    \* submissions (a bound)
          MaxCompleted \* _max_completed_tasks

VARIABLES task,    \* status of the TaskRecord of an item
          item,    \* what became of an item: its _results or _errors entry
          polling, \* the items whose submitter waits
          queue,   \* _session_queues of the session
          running, \* _running of the session
          proc,    \* the processor: none, about to start, or an item
          done     \* records that are completed or failed, oldest first

vars == <<task, item, polling, queue, running, proc, done>>

Items == 1..MaxItems

Submitted == {i \in Items : item[i] # "none"}

Executing == {i \in Items : item[i] = "executing"}

-----------------------------------------------------------------------------
\* Variant: the newest item is served first.
PutFirst(i) == <<i>> \o queue

Put(i) == Append(queue, i)

\* A processor starts unless there is one; 0 stands for one that has not begun.
Started == running' = TRUE /\ proc' = IF running THEN proc ELSE proc \cup {0}

Submit ==
    \E i \in Items :
        /\ i = Cardinality(Submitted) + 1
        /\ item' = [item EXCEPT ![i] = "queued"]
        /\ task' = [task EXCEPT ![i] = "queued"]
        /\ polling' = polling \cup {i}
        /\ queue' = Put(i)
        /\ Started
        /\ UNCHANGED done

\* _prune_completed_tasks: the newest MaxCompleted stay.
Newest(s) == IF Len(s) <= MaxCompleted THEN s ELSE SubSeq(s, Len(s) - MaxCompleted + 1, Len(s))

\* The submitter finds the outcome, takes it and closes its record.
Answer(i) ==
    /\ i \in polling /\ item[i] \in {"result", "error"}
    /\ polling' = polling \ {i}
    /\ done' = Newest(Append(done, i))
    /\ task' = [j \in Items |->
          IF j \in Range(Append(done, i)) \ Range(done') THEN "pruned"
          ELSE IF j = i THEN IF item[i] = "result" THEN "completed" ELSE "failed"
          ELSE task[j]]
    /\ UNCHANGED <<item, queue, running, proc>>

\* The submitter is cancelled: its item and its record stay as they are.
Leave(i) ==
    /\ i \in polling
    /\ polling' = polling \ {i}
    /\ UNCHANGED <<task, item, queue, running, proc, done>>

\* Variant: the session stays marked as running.
ExitMarked(p) == proc' = proc \ {p} /\ UNCHANGED running

Exit(p) == proc' = proc \ {p} /\ running' = FALSE

\* A processor goes on with the next item, items telling what became of the others.
Serve(p, items) ==
    IF queue = <<>> THEN Exit(p) /\ item' = items /\ UNCHANGED <<task, queue>>
    ELSE LET i == queue[1] IN
         /\ queue' = Tail(queue)
         /\ item' = [items EXCEPT ![i] = "executing"]
         /\ task' = [task EXCEPT ![i] = "running"]
         /\ proc' = (proc \ {p}) \cup {i}
         /\ UNCHANGED running

Begin == 0 \in proc /\ Serve(0, item) /\ UNCHANGED <<polling, done>>

\* The coroutine of an item ends.  A CancelledError ends the processor too: nothing is
\* stored for the submitter, and what is queued waits for the next submission.
End(i) ==
    /\ i \in proc \cap Executing
    /\ \/ \E how \in {"result", "error"} : Serve(i, [item EXCEPT ![i] = how])
       \/ Exit(i) /\ item' = [item EXCEPT ![i] = "lost"] /\ UNCHANGED <<task, queue>>
    /\ UNCHANGED <<polling, done>>

-----------------------------------------------------------------------------
Init ==
    /\ task = [i \in Items |-> "none"] /\ item = [i \in Items |-> "none"]
    /\ polling = {} /\ queue = <<>> /\ running = FALSE /\ proc = {} /\ done = <<>>

Next ==
    \/ Submit \/ Begin
    \/ \E i \in Items : Answer(i) \/ Leave(i) \/ End(i)

-----------------------------------------------------------------------------
(* Properties                                                              *)

\* Every variable keeps its type.
TypeOK ==
    /\ task \in [Items -> {"none", "queued", "running", "completed", "failed", "pruned"}]
    /\ item \in [Items -> {"none", "queued", "executing", "result", "error", "lost"}]
    /\ polling \subseteq Items /\ queue \in Seq(Items) /\ running \in BOOLEAN
    /\ proc \subseteq Items \cup {0} /\ done \in Seq(Items) /\ Len(done) <= MaxCompleted

\* Two items of a session are never executed at once, and none before one that was
\* submitted earlier, whichever submitters leave and whichever items are cancelled.
OneAtATime ==
    \A i, j \in Submitted :
        i < j /\ item[j] # "queued" => item[i] \notin {"queued", "executing"}

\* Every submitter gets the outcome of its item, unless it leaves or an item was
\* cancelled under the processor.
EveryoneIsAnswered ==
    \A i \in Items : i \in polling ~> i \notin polling \/ \E j \in Items : item[j] = "lost"
=============================================================================
