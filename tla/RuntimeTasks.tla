---------------------------- MODULE RuntimeTasks ----------------------------
(***************************************************************************)
(* The asynchronous task service of the gateway: RuntimeTaskTracker (the   *)
(* records and their files), RuntimeTaskSessionCoordinator (one lane per   *)
(* task session, module SessionLanes), the HTTP handlers that dispatch,    *)
(* cancel and answer a task, the background coroutines that execute the    *)
(* tasks, the crash of the process and its startup reconciliation.         *)
(*                                                                         *)
(* The gateway is one asyncio loop and none of the handlers awaits between *)
(* reading a record and acting on it: emit_agent_event never suspends, and *)
(* replace_metadata_keys is synchronous inside.  A handler is therefore    *)
(* one action.  A background coroutine suspends in                         *)
(* execute_runtime_task_request, so it is an action up to that call and    *)
(* another one after it; a cancelled coroutine unwinds some time after the *)
(* request to cancel it, or never runs at all when it had not started.     *)
(***************************************************************************)
EXTENDS SessionLanes, FiniteSets

CONSTANTS Sessions,     \* task sessions
          NoSession,    \* the session key of a task that has none
          SessionOf,    \* [Tasks -> Sessions \cup {NoSession}]
          Slots,        \* live coroutines the model can hold (a bound)
          Done,         \* a background task that is over
          MaxRecords,   \* records the tracker keeps
          LoadMax,      \* records a startup loads
          MaxSeq,       \* admissions before admitted_seq is reset (a bound)
          Faults,       \* what persisting a record may come to
          Requested,    \* deliveries the Portal asks for
          Outcomes,     \* what an execution may return, "waiting" included
          Ends,         \* how the process may end
          Cancellable,  \* tasks the Portal may cancel
          LateAnswers   \* may the Portal answer a card of a task it cancelled?

ASSUME ConstantsAssumption ==
    /\ NoSession \notin Sessions
    /\ SessionOf \in [Tasks -> Sessions \cup {NoSession}]
    /\ None \notin Slots /\ Done \notin Slots /\ None # Done
    /\ MaxRecords \in Nat \ {0} /\ LoadMax \in Nat \ {0} /\ MaxSeq \in Nat
    /\ Faults \subseteq {"none", "omit", "drop", "io"} /\ "none" \in Faults
    /\ Requested \subseteq Deliveries
    /\ Outcomes \subseteq {"success", "error", "blocked", "waiting"}
    /\ Ends \subseteq {"crash", "shutdown"}
    /\ Cancellable \subseteq Tasks
    /\ LateAnswers \in BOOLEAN

VARIABLES records,   \* tracker._records
          files,     \* one JSON file per task under runtime_tasks/
          nextSeq,   \* tracker._next_admitted_seq
          lanes,     \* coordinator._lanes
          runs,      \* the background coroutines of the loop
          mode,      \* "serving", or "stopping" once asyncio.run cancels all
          spent      \* history: was the last permission to execute t used?

vars == <<records, files, nextSeq, lanes, runs, mode, spent>>

-----------------------------------------------------------------------------
(* Records and their files                                                 *)

Active == {"accepted", "running"}
Terminal == {"success", "error", "blocked", "cancelled", "stale"}

Records == [status: Active \cup Terminal \cup {"absent"},
            seq: Nat,
            delivery: Deliveries,
            bg: Slots \cup {None, Done},
            attempt: Slots \cup {None},
            pending: BOOLEAN,        \* a pending permission or question request
            compacted: BOOLEAN,      \* memory holds the compacted payload
            restartStale: BOOLEAN]   \* the payload says replay is disabled

Absent == [status |-> "absent", seq |-> 0, delivery |-> "steer", bg |-> None,
           attempt |-> None, pending |-> FALSE, compacted |-> FALSE,
           restartStale |-> FALSE]

Present(recs) == {t \in Tasks : recs[t].status # "absent"}

\* _record_waiting_for_user
Waiting(rec) == rec.status = "blocked" /\ rec.pending

\* A background task that is not done.
BgLive(rec) == rec.bg \in Slots

Image(rec) == [status |-> rec.status, seq |-> rec.seq, delivery |-> rec.delivery,
               pending |-> rec.pending, restartStale |-> rec.restartStale]

Images == [status: Active \cup Terminal \cup {"absent"}, seq: Nat,
           delivery: Deliveries, pending: BOOLEAN, restartStale: BOOLEAN]

NoFile == Image(Absent)

\* The function f with the value v at x (TLC mishandles an EXCEPT of a function
\* that is still an unevaluated [x \in S |-> e]).
Updated(f, x, v) == [y \in DOMAIN f |-> IF y = x THEN v ELSE f[y]]

\* _persist_record.  "omit": the payload is over the size limit and left out;
\* "drop": not even the minimal record fits; "io": the write fails.
Persisted(dsk, t, rec, fault) ==
    IF rec.compacted THEN dsk
    ELSE CASE fault = "none" -> Updated(dsk, t, Image(rec))
           [] fault = "omit" -> Updated(dsk, t, [Image(rec) EXCEPT !.restartStale = FALSE])
           [] fault = "drop" -> IF rec.status \in Terminal
                                THEN Updated(dsk, t, NoFile) ELSE dsk
           [] OTHER          -> dsk

\* The memory copy is compacted once the full payload is on disk.
Compacted(rec, fault) == [rec EXCEPT !.compacted = @ \/ fault = "none"]

\* prune(): the oldest terminal records go, never one that waits for the user.
Prunable(recs) == {t \in Present(recs) : recs[t].status \in Terminal /\ ~Waiting(recs[t])}

Overflow(recs) ==
    {t \in Prunable(recs) :
        Cardinality({u \in Prunable(recs) : recs[u].seq < recs[t].seq})
            + MaxRecords < Cardinality(Present(recs))}

Pruned(recs) ==
    LET gone == Overflow(recs)
    IN  [t \in Tasks |-> IF t \in gone THEN Absent ELSE recs[t]]

PrunedFiles(recs, dsk) ==
    LET gone == Overflow(recs)
    IN  [t \in Tasks |-> IF t \in gone THEN NoFile ELSE dsk[t]]

Created(seq, delivery) ==
    [Absent EXCEPT !.status = "accepted", !.seq = seq, !.delivery = delivery]

\* Variants of the guard below: without the check of the attempt, without any.
TakesAnyAttempt(rec, status, attempt) ==
    /\ rec.status # "absent"
    /\ rec.status = "cancelled" => status = "cancelled"

TakesAnything(rec, status, attempt) == rec.status # "absent"

\* mark_terminal leaves a cancelled record alone, and one whose current attempt
\* is not the caller's (attempt = None: the caller does not say).
TakesTerminal(rec, status, attempt) ==
    /\ rec.status # "absent"
    /\ rec.status = "cancelled" => status = "cancelled"
    /\ attempt # None => rec.attempt = attempt

Ended(rec, status, pending, restartStale) ==
    [rec EXCEPT !.status = status, !.attempt = None, !.pending = pending,
                !.restartStale = restartStale]

\* Variant: the compacted flag is not reset.
CancelledStillCompacted(rec) ==
    [rec EXCEPT !.status = "cancelled", !.attempt = None, !.restartStale = FALSE]

\* tracker.cancel: the pending request of a task that waited is kept.
CancelledRecord(rec) ==
    [rec EXCEPT !.status = "cancelled", !.attempt = None, !.restartStale = FALSE,
                !.compacted = FALSE]

\* Variant of the next one: the task is taken up again.
ReplayedOnRestart(rec) == [rec EXCEPT !.status = "accepted", !.attempt = None]

\* The record of a task that was active when its process ended.
StaleOnRestart(rec) == Ended(rec, "stale", FALSE, TRUE)

Resumed(rec) ==
    [rec EXCEPT !.status = "accepted", !.bg = None, !.attempt = None, !.pending = FALSE,
                !.compacted = FALSE, !.restartStale = FALSE]

-----------------------------------------------------------------------------
(* Background coroutines                                                   *)

Runs == [pc: {"free", "spawned", "executing"}, task: Tasks \cup {None},
         cancel: BOOLEAN, attempt: Slots \cup {None}]

FreeRun == [pc |-> "free", task |-> None, cancel |-> FALSE, attempt |-> None]

CancelRequested(rns, bg) ==
    IF bg \in Slots THEN [rns EXCEPT ![bg] = [@ EXCEPT !.cancel = TRUE]] ELSE rns

\* A coroutine that nobody asked to cancel and that may still execute its task.
Uncancelled(rns, r) == rns[r].pc # "free" /\ ~rns[r].cancel

-----------------------------------------------------------------------------
(* Scheduling.  The operators below are the tail of a handler: they get    *)
(* the state the handler made so far and fix the next state.               *)

Commit(recs, dsk, lns, rns) ==
    records' = recs /\ files' = dsk /\ lanes' = lns /\ runs' = rns

WaitingIn(s, recs) == {t \in Tasks : SessionOf[t] = s /\ Waiting(recs[t])}

\* Variant: no lane is rehydrated.
NotRehydrated(s, recs, lane) == lane

\* _rehydrate_waiting_runtime_task_session_lane: the lane goes to the task that
\* waits for the user and was admitted first.
Rehydrated(s, recs, lane) ==
    LET first == {t \in WaitingIn(s, recs) :
                    \A u \in WaitingIn(s, recs) : recs[t].seq <= recs[u].seq}
        w     == CHOOSE t \in first : TRUE
    IN  IF lane.active # None \/ first = {} THEN lane
        ELSE HeldForUserInput(Scheduled(lane, w, recs[w].seq, recs[w].delivery), w)

\* Variants: the lane of a task that waits, of a task that runs, is completed.
ReconciledOverWaiting(s, recs, lane) ==
    LET owner == recs[lane.active] IN
    IF lane.active = None THEN Rehydrated(s, recs, lane)
    ELSE IF owner.status = "absent" THEN Rehydrated(s, recs, Fresh)
    ELSE IF owner.status \in Active /\ (BgLive(owner) \/ owner.bg = None) THEN lane
    ELSE Completed(lane, lane.active)

ReconciledOverRunning(s, recs, lane) ==
    LET owner == recs[lane.active] IN
    IF lane.active = None THEN Rehydrated(s, recs, lane)
    ELSE IF owner.status = "absent" THEN Rehydrated(s, recs, Fresh)
    ELSE IF Waiting(owner) \/ (owner.status \in Active /\ owner.bg = None) THEN lane
    ELSE Completed(lane, lane.active)

\* _reconcile_runtime_task_session_lane
Reconciled(s, recs, lane) ==
    LET owner == recs[lane.active] IN
    IF lane.active = None THEN Rehydrated(s, recs, lane)
    ELSE IF owner.status = "absent" THEN Rehydrated(s, recs, Fresh)
    ELSE IF \/ Waiting(owner)
            \/ owner.status \in Active /\ (BgLive(owner) \/ owner.bg = None)
    THEN lane
    ELSE Completed(lane, lane.active)

\* Variant: the background task is not set on the record.
SpawnUnrecorded(t, recs, dsk, lns, rns) ==
    \E r \in {x \in Slots : rns[x].pc = "free"} :
        Commit(recs, dsk, lns, [rns EXCEPT ![r] = [FreeRun EXCEPT !.pc = "spawned", !.task = t]])

Spawn(t, recs, dsk, lns, rns) ==
    \E r \in {x \in Slots : rns[x].pc = "free"} :
        Commit(Updated(recs, t, [recs[t] EXCEPT !.bg = r]), dsk, lns,
               [rns EXCEPT ![r] = [FreeRun EXCEPT !.pc = "spawned", !.task = t]])

\* mark_stale of a task the interrupt of its session suppresses.
Suppress(t, recs, dsk, lns, rns) ==
    LET rec == Ended(recs[t], "stale", FALSE, FALSE) IN
    \E f \in Faults :
        LET recs2 == Updated(recs, t, Compacted(rec, f)) IN
        Commit(Pruned(recs2), PrunedFiles(recs2, Persisted(dsk, t, rec, f)), lns, rns)

ScheduleInLane(t, s, lane, recs, dsk, lns, rns) ==
    LET decision == ScheduleDecision(lane, t, recs[t].seq)
        lns2 == [lns EXCEPT ![s] = Scheduled(lane, t, recs[t].seq, recs[t].delivery)]
    IN  \/ decision = "queued" /\ Commit(recs, dsk, lns2, rns)
        \/ decision = "suppressed" /\ Suppress(t, recs, dsk, lns2, rns)
        \/ decision \in {"start", "active"} /\ Spawn(t, recs, dsk, lns2, rns)

\* _schedule_runtime_task_record
Schedule(t, recs, dsk, lns, rns) ==
    LET s == SessionOf[t] IN
    IF recs[t].status \notin Active \/ BgLive(recs[t])
    THEN Commit(recs, dsk, lns, rns)
    ELSE IF s = NoSession
    THEN Spawn(t, recs, dsk, lns, rns)
    ELSE ScheduleInLane(t, s, Reconciled(s, recs, lns[s]), recs, dsk, lns, rns)

\* _schedule_next_runtime_task_session_record
ScheduleNext(next, recs, dsk, lns, rns) ==
    IF next # None /\ recs[next].status \in Active
    THEN Schedule(next, recs, dsk, lns, rns)
    ELSE Commit(recs, dsk, lns, rns)

\* Variant: the promoted task is not scheduled.
CompleteOnly(t, recs, dsk, rns) ==
    LET s == SessionOf[t] IN
    Commit(recs, dsk, IF s = NoSession THEN lanes ELSE [lanes EXCEPT ![s] = Completed(@, t)], rns)

\* complete() of the lane of t, and the task it promotes scheduled.
Complete(t, recs, dsk, rns) ==
    LET s == SessionOf[t] IN
    IF s = NoSession THEN Commit(recs, dsk, lanes, rns)
    ELSE ScheduleNext(NextOnComplete(lanes[s], t), recs, dsk,
                      [lanes EXCEPT ![s] = Completed(@, t)], rns)

-----------------------------------------------------------------------------
(* HTTP handlers                                                           *)

\* api_tasks_execute for a task id the tracker does not know.
Admit(t, delivery, recs, dsk, rns) ==
    LET rec == Created(nextSeq, delivery) IN
    \E f \in Faults :
        LET recs2 == Updated(recs, t, rec) IN
        /\ nextSeq <= MaxSeq
        /\ nextSeq' = nextSeq + 1
        /\ spent' = [spent EXCEPT ![t] = FALSE]
        /\ Schedule(t, Pruned(recs2), PrunedFiles(recs2, Persisted(dsk, t, rec, f)), lanes, rns)

DispatchNew(t, delivery) ==
    /\ mode = "serving"
    /\ records[t].status = "absent"
    /\ Admit(t, delivery, records, files, runs)
    /\ UNCHANGED mode

\* The record a restart left behind is removed and the task admitted again.
DispatchRestartStale(t, delivery) ==
    /\ mode = "serving"
    /\ records[t].status = "stale" /\ records[t].restartStale
    /\ records[t].delivery = delivery
    /\ Admit(t, delivery, [records EXCEPT ![t] = Absent], [files EXCEPT ![t] = NoFile],
             CancelRequested(runs, records[t].bg))
    /\ UNCHANGED mode

\* The same request again: nothing new is admitted, an active task is scheduled.
DispatchDuplicate(t) ==
    /\ mode = "serving"
    /\ records[t].status \in Active
    /\ Schedule(t, records, files, lanes, runs)
    /\ UNCHANGED <<nextSeq, mode, spent>>

\* api_task_cancel of a task that runs or waits in a lane.
CancelActive(t) ==
    LET s == SessionOf[t]
        rec == CancelledRecord(records[t])
    IN  /\ mode = "serving" /\ t \in Cancellable
        /\ records[t].status \in Active
        /\ \E f \in Faults :
              Commit([records EXCEPT ![t] = Compacted(rec, f)],
                     Persisted(files, t, rec, f),
                     IF s = NoSession THEN lanes
                     ELSE [lanes EXCEPT ![s] = Cancelled(@, t, records[t].seq)],
                     CancelRequested(runs, records[t].bg))
        /\ UNCHANGED <<nextSeq, mode, spent>>

\* api_task_cancel of a task that waits for the user: its lane is completed too.
CancelWaiting(t) ==
    LET s == SessionOf[t]
        rec == CancelledRecord(records[t])
        lane == Cancelled(lanes[s], t, records[t].seq)
    IN  /\ mode = "serving" /\ t \in Cancellable
        /\ Waiting(records[t])
        /\ \E f \in Faults :
              LET recs == [records EXCEPT ![t] = Compacted(rec, f)]
                  dsk  == Persisted(files, t, rec, f)
                  rns  == CancelRequested(runs, records[t].bg)
              IN  IF s = NoSession
                  THEN Commit(recs, dsk, lanes, rns)
                  ELSE ScheduleNext(NextOnComplete(lane, t), recs, dsk,
                                    [lanes EXCEPT ![s] = Completed(lane, t)], rns)
        /\ UNCHANGED <<nextSeq, mode, spent>>

\* api_task_permission_respond and api_task_question_respond look at the pending
\* request only.  LateAnswers is about the Portal, not about the code.
Answer(t) ==
    LET rec == Resumed(records[t]) IN
    /\ mode = "serving"
    /\ records[t].pending
    /\ LateAnswers \/ records[t].status = "blocked"
    /\ spent' = [spent EXCEPT ![t] = FALSE]
    /\ \E f \in Faults :
          Schedule(t, [records EXCEPT ![t] = rec], Persisted(files, t, rec, f), lanes, runs)
    /\ UNCHANGED <<nextSeq, mode>>

-----------------------------------------------------------------------------
(* _run_task_execution_in_background                                       *)

\* The loop runs the coroutine for the first time: mark_running, then the call
\* of execute_runtime_task_request.
BgStart(r) ==
    LET t == runs[r].task
        rec == [records[t] EXCEPT !.status = "running", !.attempt = r]
    IN  /\ runs[r].pc = "spawned" /\ ~runs[r].cancel
        /\ IF records[t].status \in Active
           THEN \E f \in Faults :
                   Commit([records EXCEPT ![t] = rec], Persisted(files, t, rec, f), lanes,
                          [runs EXCEPT ![r] = [@ EXCEPT !.pc = "executing", !.attempt = r]])
           ELSE Commit(records, files, lanes,
                       [runs EXCEPT ![r] = [@ EXCEPT !.pc = "executing",
                                              !.attempt = records[t].attempt]])
        /\ spent' = [spent EXCEPT ![t] = TRUE]
        /\ UNCHANGED <<nextSeq, mode>>

\* The background task r is over for whoever still refers to it.
Detached(recs, r) ==
    [t \in Tasks |-> IF recs[t].bg = r THEN [recs[t] EXCEPT !.bg = Done] ELSE recs[t]]

Freed(r) == [runs EXCEPT ![r] = FreeRun]

\* The finally block of the coroutine.
Finally(t, recs, dsk, rns) ==
    LET s == SessionOf[t] IN
    IF Waiting(recs[t])
    THEN Commit(recs, dsk, IF s = NoSession THEN lanes
                           ELSE [lanes EXCEPT ![s] = HeldForUserInput(@, t)], rns)
    ELSE IF recs[t].status \in Active
    THEN Commit(recs, dsk, lanes, rns)
    ELSE Complete(t, recs, dsk, rns)

\* The call returned, or raised: mark_terminal with the attempt of this run.
BgEnd(r, status, pending) ==
    LET t == runs[r].task
        recs == Detached(records, r)
        rec == Ended(recs[t], status, pending, FALSE)
    IN  /\ runs[r].pc = "executing"
        /\ IF TakesTerminal(recs[t], status, runs[r].attempt)
           THEN \E f \in Faults :
                   LET recs2 == Updated(recs, t, Compacted(rec, f)) IN
                   Finally(t, Pruned(recs2),
                           PrunedFiles(recs2, Persisted(files, t, rec, f)), Freed(r))
           ELSE Finally(t, recs, files, Freed(r))
        /\ UNCHANGED <<nextSeq, mode, spent>>

BgResult(r) ==
    \/ \E status \in Outcomes \ {"waiting"} : BgEnd(r, status, FALSE)
    \/ "waiting" \in Outcomes /\ BgEnd(r, "blocked", TRUE)

\* CancelledError reaches a coroutine that had started.
BgCancelled(r) ==
    LET t == runs[r].task
        recs == Detached(records, r)
        rec == CancelledRecord(recs[t])
    IN  /\ runs[r].pc = "executing" /\ runs[r].cancel
        /\ IF /\ recs[t].status \in Active
              /\ runs[r].attempt # None => recs[t].attempt = runs[r].attempt
           THEN \E f \in Faults :
                   Finally(t, Updated(recs, t, Compacted(rec, f)),
                           Persisted(files, t, rec, f), Freed(r))
           ELSE Finally(t, recs, files, Freed(r))
        /\ UNCHANGED <<nextSeq, mode, spent>>

\* CancelledError before the first step of the coroutine: asyncio closes it, and
\* neither its body nor its finally block ever runs.
BgNeverStarted(r) ==
    /\ runs[r].pc = "spawned" /\ runs[r].cancel
    /\ Commit(Detached(records, r), files, lanes, Freed(r))
    /\ UNCHANGED <<nextSeq, mode, spent>>

-----------------------------------------------------------------------------
(* The end of the process and the next one                                 *)

\* Ctrl+C: the HTTP server is down and asyncio.run cancels every task.
Shutdown ==
    /\ mode = "serving" /\ "shutdown" \in Ends
    /\ mode' = "stopping"
    /\ runs' = [r \in Slots |-> IF runs[r].pc = "free" THEN runs[r]
                                ELSE [runs[r] EXCEPT !.cancel = TRUE]]
    /\ UNCHANGED <<records, files, nextSeq, lanes, spent>>

OnDisk == {t \in Tasks : files[t].status # "absent"}

\* load_persisted_records reads the files in the order of their hashed names:
\* active records displace terminal ones once there are LoadMax of them.
LoadSets ==
    {L \in SUBSET OnDisk :
        /\ Cardinality(L) = IF Cardinality(OnDisk) <= LoadMax
                            THEN Cardinality(OnDisk) ELSE LoadMax
        /\ \A t \in OnDisk \ L, u \in L :
              files[t].status \in Active => files[u].status \in Active}

Loaded(L) ==
    [t \in Tasks |->
        IF t \notin L THEN Absent
        ELSE [status |-> files[t].status, seq |-> files[t].seq,
              delivery |-> files[t].delivery, bg |-> None, attempt |-> None,
              pending |-> files[t].pending, compacted |-> files[t].status \in Terminal,
              restartStale |-> files[t].restartStale]]

\* What writing the stale records back may come to.
ReconcileFaults ==
    {f \in [Tasks -> Faults] : \A t \in Tasks : files[t].status \notin Active => f[t] = "none"}

\* resume_persisted_runtime_tasks in the new process, after a crash at any
\* moment or after a shutdown: waiting tasks get their lanes back, the records
\* of tasks that were active become stale.
Restart ==
    \E L \in LoadSets, fault \in ReconcileFaults :
    LET loaded == Pruned(Loaded(L))
        onDisk == PrunedFiles(Loaded(L), files)
        active(t) == loaded[t].status \in Active
        stale(t) == StaleOnRestart(loaded[t])
        recs == [t \in Tasks |-> IF active(t) THEN Compacted(stale(t), fault[t])
                                 ELSE loaded[t]]
        dsk == [t \in Tasks |-> IF active(t) THEN Persisted(onDisk, t, stale(t), fault[t])[t]
                                ELSE onDisk[t]]
        seqs == {files[t].seq : t \in L}
    IN  /\ mode = "stopping" \/ "crash" \in Ends
        /\ records' = Pruned(recs)
        /\ files' = PrunedFiles(recs, dsk)
        /\ lanes' = [s \in Sessions |-> Rehydrated(s, loaded, Fresh)]
        /\ runs' = [r \in Slots |-> FreeRun]
        /\ nextSeq' \in {n + 1 : n \in seqs \cup {0}} /\ \A m \in seqs : m < nextSeq'
        /\ mode' = "serving"
        /\ spent' = [t \in Tasks |-> TRUE]

-----------------------------------------------------------------------------
Init ==
    /\ records = [t \in Tasks |-> Absent]
    /\ files = [t \in Tasks |-> NoFile]
    /\ nextSeq = 1
    /\ lanes = [s \in Sessions |-> Fresh]
    /\ runs = [r \in Slots |-> FreeRun]
    /\ mode = "serving"
    /\ spent = [t \in Tasks |-> TRUE]

Handler(t) ==
    \/ \E d \in Requested : DispatchNew(t, d) \/ DispatchRestartStale(t, d)
    \/ DispatchDuplicate(t)
    \/ CancelActive(t) \/ CancelWaiting(t)
    \/ Answer(t)

Step(r) == BgStart(r) \/ BgResult(r) \/ BgCancelled(r) \/ BgNeverStarted(r)

Next ==
    \/ \E t \in Tasks : Handler(t)
    \/ \E r \in Slots : Step(r)
    \/ Shutdown
    \/ Restart

Spec == Init /\ [][Next]_vars

\* The loop runs what is ready, an execution ends (provider and tool calls have
\* timeouts), and a process that stops is replaced: no coroutine stays where it
\* is for ever.  This is weak fairness of Step(r), which is enabled whenever the
\* slot is not free and always moves it, written without its ENABLED.
Fairness ==
    /\ \A r \in Slots : []<>(runs[r].pc # "spawned") /\ []<>(runs[r].pc # "executing")
    /\ []<>(mode = "serving")

FairSpec == Spec /\ Fairness

-----------------------------------------------------------------------------
(* Properties                                                              *)

\* Every variable keeps its type: the states the tracker, the coordinator and the
\* loop can be in.
TypeOK ==
    /\ records \in [Tasks -> Records]
    /\ files \in [Tasks -> Images]
    /\ nextSeq \in Nat
    /\ lanes \in [Sessions -> Lanes]
    /\ runs \in [Slots -> Runs]
    /\ mode \in {"serving", "stopping"}
    /\ spent \in [Tasks -> BOOLEAN]

\* One execution per task session: two coroutines that nobody asked to cancel
\* never belong to the same session, nor to the same task.
OneRunPerSession ==
    \A q, r \in Slots :
        /\ q # r
        /\ Uncancelled(runs, q) /\ Uncancelled(runs, r)
        => /\ runs[q].task # runs[r].task
           /\ \/ SessionOf[runs[q].task] # SessionOf[runs[r].task]
              \/ SessionOf[runs[q].task] = NoSession

\* An uncancelled coroutine is the one its record points to, its record is
\* active, and its task owns the lane of its session: a cancel request of the
\* Portal, and the reconciliation of the lane, reach it.
RunIsOwned ==
    \A r \in Slots : Uncancelled(runs, r) =>
        LET t == runs[r].task IN
        /\ records[t].bg = r
        /\ records[t].status = IF runs[r].pc = "spawned" THEN "accepted" ELSE "running"
        /\ runs[r].pc = "executing" => records[t].attempt = r /\ runs[r].attempt = r
        /\ SessionOf[t] # NoSession => lanes[SessionOf[t]].active = t

\* An accepted task that owns a lane has been given a coroutine.
OwnerIsStarted ==
    mode = "serving" => \A s \in Sessions :
        LET t == lanes[s].active IN
        t # None /\ records[t].status = "accepted" => BgLive(records[t])

\* An accepted task has a coroutine or a place in the lane of its session.
AcceptedIsKnown ==
    mode = "serving" => \A t \in Tasks :
        records[t].status = "accepted"
        => \/ BgLive(records[t])
           \/ /\ SessionOf[t] # NoSession
              /\ LET lane == lanes[SessionOf[t]]
                 IN  lane.active = t \/ IsPending(lane, t)

\* What a crash would leave on disk is the record in memory.
DiskMirrorsRecords == \A t \in Tasks : files[t] = Image(records[t])

\* A task id is executed again only after a new admission or an answer: neither
\* a duplicate dispatch nor a restart replays provider and tool calls.
NoReplay ==
    [][\A r \in Slots :
         runs[r].pc = "spawned" /\ runs'[r].pc = "executing" => ~spent[runs[r].task]]_vars

\* An outcome is recorded only for a running task, by the coroutine that holds
\* its current attempt: one that was cancelled and unwinds late writes nothing.
OutcomeByCurrentRun ==
    [][\A t \in Tasks :
         /\ records'[t].status \in {"success", "error", "blocked"}
         /\ records'[t].status # records[t].status
         => /\ records[t].status = "running"
            /\ \E r \in Slots : /\ runs[r].task = t /\ records[t].attempt = r
                               /\ runs[r].pc = "executing"
                               /\ runs'[r].pc # "executing"]_vars

\* A cancelled task stays cancelled until its record goes.
CancelledIsFinal ==
    [][\A t \in Tasks :
         records[t].status = "cancelled" => records'[t].status \in {"cancelled", "absent"}]_vars

\* A restart loses no question the user was asked: the task still waits and the
\* lane of its session is still its own.
RestartKeepsWaiting ==
    [][Restart => \A t \in Tasks :
         Waiting(records[t]) => /\ Waiting(records'[t])
                                /\ \/ SessionOf[t] = NoSession
                                   \/ lanes'[SessionOf[t]].active = t]_vars

\* Every accepted task is eventually executed or settled, unless its session
\* comes to wait for the user.
AcceptedIsServed ==
    \A t \in Tasks :
        records[t].status = "accepted"
        ~> \/ records[t].status # "accepted"
           \/ SessionOf[t] # NoSession /\ WaitingIn(SessionOf[t], records) # {}

-----------------------------------------------------------------------------
(* The contract of the service                                             *)

Phase(rec) ==
    CASE rec.status = "absent"   -> "idle"
      [] rec.status = "accepted" -> "ready"
      [] rec.status = "running"  -> "executing"
      [] Waiting(rec)            -> "parked"
      [] OTHER                   -> "settled"

Contract == INSTANCE TaskContract WITH phase <- [t \in Tasks |-> Phase(records[t])]

\* The service implements its contract: a task moves along its life cycle, a
\* session does one thing at a time, and a restart keeps the tasks that wait for
\* the user.
ImplementsContract == Contract!Spec
=============================================================================
