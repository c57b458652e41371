------------------------- MODULE RuntimeTasksProofs -------------------------
(***************************************************************************)
(* Theorems about RuntimeTasks, for every set of tasks, sessions and slots *)
(* and every bound.  First, whatever fails: its types, the ownership of    *)
(* its coroutines, the exclusion in a session, and that nothing is         *)
(* replayed.  Then what it records of its tasks while no write fails: what *)
(* is on disk, who records an outcome, what becomes of a cancelled task,   *)
(* and that it implements its contract.  Last, whatever fails again, in    *)
(* which order the tasks of a session start.                               *)
(***************************************************************************)
EXTENDS RuntimeTasks, LaneOrder, FiniteSetTheorems, WellFoundedInduction, TLAPS

-----------------------------------------------------------------------------
(* Lanes: what an operation of the coordinator returns and who owns the    *)
(* lane after it.                                                          *)

\* What an operation leaves of the pending entries is well typed (_SessionLane.pending).
LEMMA PendingTyped ==
    ASSUME NEW E \in SUBSET Entries
    PROVE  InOrder(E) \in SUBSET Entries
<1> SUFFICES ASSUME NEW e \in E
             PROVE  [e EXCEPT !.ahead = @ \cap Waiters(E)] \in Entries
    BY DEF InOrder
<1> e \in Entries
    OBVIOUS
<1> QED
    BY DEF Entries

\* Taking a task out of the pending entries keeps a lane well typed.
LEMMA WithoutTyped ==
    ASSUME NEW lane \in Lanes, NEW t \in Tasks
    PROVE  Without(lane, t) \in Lanes /\ Without(lane, t).active = lane.active
<1>1. InOrder({e \in lane.pending : e.task # t}) \in SUBSET Entries
    BY PendingTyped DEF Lanes
<1> QED
    BY <1>1 DEF Without, Lanes

\* Forgetting an empty lane keeps it well typed.
LEMMA DroppedTyped ==
    ASSUME NEW lane \in Lanes
    PROVE  Dropped(lane) \in Lanes /\ Dropped(lane).active = lane.active
BY DEF Dropped, Fresh, Lanes

\* Giving a lane an owner keeps it well typed.
LEMMA ActivatedTyped ==
    ASSUME NEW lane \in Lanes, NEW t \in Tasks
    PROVE  Activated(lane, t) \in Lanes /\ Activated(lane, t).active = t
BY WithoutTyped DEF Activated, Lanes

\* schedule() of a busy lane keeps it well typed.
LEMMA EnqueuedTyped ==
    ASSUME NEW lane \in Lanes, NEW t \in Tasks, NEW seq \in Nat, NEW d \in Deliveries
    PROVE  /\ Enqueued(lane, t, seq, d) \in Lanes
           /\ Enqueued(lane, t, seq, d).active = lane.active
<1>1. Waiters(lane.pending) \in SUBSET Tasks
    BY DEF Waiters, Lanes, Entries
<1>2. [task |-> t, seq |-> seq, delivery |-> d, ahead |-> Waiters(lane.pending)] \in Entries
    BY <1>1 DEF Entries
<1> QED
    BY <1>2 DEF Enqueued, Lanes

\* schedule() keeps a lane well typed, whatever it decides.
LEMMA ScheduledTyped ==
    ASSUME NEW lane \in Lanes, NEW t \in Tasks, NEW seq \in Nat, NEW d \in Deliveries
    PROVE  /\ Scheduled(lane, t, seq, d) \in Lanes
           /\ Scheduled(lane, t, seq, d).active =
                 IF ScheduleDecision(lane, t, seq) = "start" THEN t ELSE lane.active
BY ActivatedTyped, EnqueuedTyped DEF Scheduled, ScheduleDecision

\* hold_for_user_input() keeps a lane well typed.
LEMMA HeldTyped ==
    ASSUME NEW lane \in Lanes, NEW t \in Tasks
    PROVE  /\ HeldForUserInput(lane, t) \in Lanes
           /\ HeldForUserInput(lane, t).active = lane.active
BY DEF HeldForUserInput, Lanes

\* cancel() keeps a lane well typed.
LEMMA CancelledTyped ==
    ASSUME NEW lane \in Lanes, NEW t \in Tasks, NEW seq \in Nat
    PROVE  Cancelled(lane, t, seq) \in Lanes /\ Cancelled(lane, t, seq).active = lane.active
<1>1. InOrder({e \in lane.pending : e.seq > seq}) \in SUBSET Entries
    BY PendingTyped DEF Lanes
<1>2. Higher(lane.interrupt, seq) \in Nat
    BY DEF Higher, Lanes
<1>3. CASE lane.active = t
    BY <1>1, <1>2, <1>3 DEF Cancelled, Lanes
<1>4. CASE lane.active # t
    BY <1>4, WithoutTyped, DroppedTyped DEF Cancelled
<1> QED
    BY <1>3, <1>4

\* Promotion names a task or nobody, and leaves a well typed lane.
LEMMA PromotedTyped ==
    ASSUME NEW lane \in Lanes
    PROVE  /\ Promoted(lane) \in Tasks \cup {None}
           /\ PromotedNext(lane) \in Lanes
<1>1. Surviving(lane) \in SUBSET Entries /\ InOrder(Surviving(lane)) \in SUBSET Entries
    BY PendingTyped DEF Surviving, Lanes
<1>2. Candidates(lane) \in SUBSET Entries
    BY <1>1 DEF Candidates, Earliest
<1>3. Promoted(lane) \in Tasks \cup {None}
    BY <1>2 DEF Promoted, Entries
<1>4. [lane EXCEPT !.pending = InOrder(Surviving(lane))] \in Lanes
    BY <1>1 DEF Lanes
<1> QED
    BY <1>3, <1>4, ActivatedTyped DEF PromotedNext

\* complete() keeps a lane well typed and names a task or nobody.
LEMMA CompletedTyped ==
    ASSUME NEW lane \in Lanes, NEW t \in Tasks
    PROVE  /\ Completed(lane, t) \in Lanes
           /\ lane.active # t => Completed(lane, t).active = lane.active
           /\ NextOnComplete(lane, t) \in Tasks \cup {None}
<1>1. Released(lane) \in Lanes
    BY DEF Released, Lanes
<1> QED
    BY <1>1, PromotedTyped, DroppedTyped, WithoutTyped DEF Completed, NextOnComplete

-----------------------------------------------------------------------------
(* The inductive invariant, of the state a handler has made so far.        *)

Typed(recs, dsk, lns, rns, sp) ==
    /\ recs \in [Tasks -> Records]
    /\ dsk \in [Tasks -> Images]
    /\ lns \in [Sessions -> Lanes]
    /\ rns \in [Slots -> Runs]
    /\ sp \in [Tasks -> BOOLEAN]

\* A coroutine that executes knows its attempt.
RunsSane(rns) ==
    \A r \in Slots :
        /\ rns[r].pc # "free" => rns[r].task \in Tasks
        /\ rns[r].pc = "executing" => rns[r].attempt = r

\* RunIsOwned, of a state in the making.
Owned(recs, lns, rns) ==
    \A r \in Slots : Uncancelled(rns, r) =>
        /\ recs[rns[r].task].bg = r
        /\ recs[rns[r].task].status = IF rns[r].pc = "spawned" THEN "accepted" ELSE "running"
        /\ rns[r].pc = "executing" => recs[rns[r].task].attempt = r
        /\ SessionOf[rns[r].task] # NoSession => lns[SessionOf[rns[r].task]].active = rns[r].task

\* Only a running record has an attempt, and its coroutine is still executing;
\* an active record has no pending request; an accepted one may be executed.
RecordsSane(recs, rns, sp) ==
    \A t \in Tasks :
        /\ recs[t].status # "running" => recs[t].attempt = None
        /\ recs[t].status \in Active => recs[t].pending = FALSE
        /\ recs[t].status = "running" =>
              /\ recs[t].bg \in Slots
              /\ recs[t].attempt = recs[t].bg
              /\ rns[recs[t].bg].pc = "executing" /\ rns[recs[t].bg].task = t
        /\ recs[t].status = "accepted" => sp[t] = FALSE

Good(recs, dsk, lns, rns, sp) ==
    /\ Typed(recs, dsk, lns, rns, sp)
    /\ RunsSane(rns)
    /\ Owned(recs, lns, rns)
    /\ RecordsSane(recs, rns, sp)

IInv == /\ Good(records, files, lanes, runs, spent)
        /\ nextSeq \in Nat
        /\ mode \in {"serving", "stopping"}

\* A record is active, terminal or absent, and only one of these.
LEMMA StatusFacts ==
    /\ "accepted" \in Active /\ "running" \in Active
    /\ Active \cap Terminal = {}
    /\ "absent" \notin Active \cup Terminal
BY DEF Active, Terminal

\* No uncancelled coroutine belongs to a task that is not active, or whose
\* record points to no live coroutine.
LEMMA NoRunOf ==
    ASSUME NEW recs, NEW lns, NEW rns, Owned(recs, lns, rns),
           NEW t \in Tasks, recs[t].status \notin Active \/ ~BgLive(recs[t]),
           NEW r \in Slots, Uncancelled(rns, r)
    PROVE  rns[r].task # t
BY DEF Owned, BgLive, Active

-----------------------------------------------------------------------------
(* Files and pruning                                                       *)

\* _record_to_json gives a well typed file.
LEMMA ImageTyped == \A rec \in Records : Image(rec) \in Images
BY DEF Image, Images, Records

\* A missing record and a missing file are well typed.
LEMMA AbsentTyped == Absent \in Records /\ NoFile \in Images
<1>1. Absent \in Records
    BY DEF Absent, Records, Deliveries
<1> QED
    BY <1>1, ImageTyped DEF NoFile

\* Persisting a record leaves well typed files, whatever the fault.
LEMMA PersistedTyped ==
    ASSUME NEW dsk \in [Tasks -> Images], NEW t \in Tasks, NEW rec \in Records, NEW f
    PROVE  Persisted(dsk, t, rec, f) \in [Tasks -> Images]
<1>1. Image(rec) \in Images /\ NoFile \in Images
    BY ImageTyped, AbsentTyped
<1>2. [Image(rec) EXCEPT !.restartStale = FALSE] \in Images
    BY <1>1 DEF Images
<1>3. \A i \in Images : Updated(dsk, t, i) \in [Tasks -> Images]
    BY DEF Updated
<1> QED
    BY <1>1, <1>2, <1>3 DEF Persisted

\* Compaction keeps a record well typed and changes nothing but its flag.
LEMMA CompactedTyped ==
    ASSUME NEW rec \in Records, NEW f
    PROVE  /\ Compacted(rec, f) \in Records
           /\ Compacted(rec, f).status = rec.status
           /\ Compacted(rec, f).attempt = rec.attempt
           /\ Compacted(rec, f).pending = rec.pending
           /\ Compacted(rec, f).bg = rec.bg
           /\ Compacted(rec, f).seq = rec.seq
           /\ Compacted(rec, f).delivery = rec.delivery
BY DEF Compacted, Records

\* The records the handlers write.
LEMMA EndedTyped ==
    ASSUME NEW rec \in Records, NEW status \in Terminal, NEW p \in BOOLEAN, NEW x \in BOOLEAN
    PROVE  /\ Ended(rec, status, p, x) \in Records
           /\ Ended(rec, status, p, x).status = status
           /\ Ended(rec, status, p, x).attempt = None
BY DEF Ended, Records

\* tracker.cancel gives a well typed, cancelled record without attempt.
LEMMA CancelledRecordTyped ==
    ASSUME NEW rec \in Records
    PROVE  /\ CancelledRecord(rec) \in Records
           /\ CancelledRecord(rec).status = "cancelled"
           /\ CancelledRecord(rec).attempt = None
BY DEF CancelledRecord, Records, Terminal

\* resume_after_user_input gives a well typed accepted record without attempt.
LEMMA ResumedTyped ==
    ASSUME NEW rec \in Records
    PROVE  /\ Resumed(rec) \in Records
           /\ Resumed(rec).status = "accepted"
           /\ Resumed(rec).attempt = None
           /\ Resumed(rec).pending = FALSE
BY DEF Resumed, Records, Active

\* prune() leaves well typed records and files.
LEMMA PrunedTyped ==
    ASSUME NEW recs \in [Tasks -> Records], NEW dsk \in [Tasks -> Images]
    PROVE  /\ Pruned(recs) \in [Tasks -> Records]
           /\ PrunedFiles(recs, dsk) \in [Tasks -> Images]
           /\ \A t \in Tasks : \/ Pruned(recs)[t] = recs[t]
                               \/ Pruned(recs)[t] = Absent /\ recs[t].status \in Terminal
<1>1. Pruned(recs) \in [Tasks -> Records] /\ PrunedFiles(recs, dsk) \in [Tasks -> Images]
    BY AbsentTyped DEF Pruned, PrunedFiles
<1>2. \A t \in Tasks : \/ Pruned(recs)[t] = recs[t]
                       \/ Pruned(recs)[t] = Absent /\ recs[t].status \in Terminal
    BY DEF Pruned, Overflow, Prunable
<1> QED
    BY <1>1, <1>2

\* prune() takes terminal records only, so it disturbs nothing.
LEMMA PrunedGood ==
    ASSUME NEW recs, NEW dsk, NEW lns, NEW rns, NEW sp, Good(recs, dsk, lns, rns, sp)
    PROVE  Good(Pruned(recs), PrunedFiles(recs, dsk), lns, rns, sp)
<1>1. \A t \in Tasks : \/ Pruned(recs)[t] = recs[t]
                       \/ Pruned(recs)[t] = Absent /\ recs[t].status \in Terminal
    BY PrunedTyped DEF Good, Typed
<1>2. /\ Pruned(recs) \in [Tasks -> Records]
      /\ PrunedFiles(recs, dsk) \in [Tasks -> Images]
    BY PrunedTyped DEF Good, Typed
<1>3. Owned(Pruned(recs), lns, rns)
    <2> SUFFICES ASSUME NEW r \in Slots, Uncancelled(rns, r)
                 PROVE  Pruned(recs)[rns[r].task] = recs[rns[r].task]
        BY DEF Good, Owned
    <2>1. rns[r].task \in Tasks
        BY DEF Good, RunsSane, Uncancelled
    <2>2. recs[rns[r].task].status \notin Terminal
        BY DEF Good, Owned, Terminal
    <2> QED
        BY <1>1, <2>1, <2>2
<1>4. RecordsSane(Pruned(recs), rns, sp)
    <2>1. Absent.status = "absent" /\ Absent.attempt = None
        BY DEF Absent
    <2> SUFFICES ASSUME NEW t \in Tasks
                 PROVE  /\ Pruned(recs)[t].status # "running" => Pruned(recs)[t].attempt = None
                        /\ Pruned(recs)[t].status \in Active => Pruned(recs)[t].pending = FALSE
                        /\ Pruned(recs)[t].status = "running" =>
                              /\ Pruned(recs)[t].bg \in Slots
                              /\ Pruned(recs)[t].attempt = Pruned(recs)[t].bg
                              /\ rns[Pruned(recs)[t].bg].pc = "executing"
                              /\ rns[Pruned(recs)[t].bg].task = t
                        /\ Pruned(recs)[t].status = "accepted" => sp[t] = FALSE
        BY DEF RecordsSane
    <2>2. CASE Pruned(recs)[t] = recs[t]
        BY <2>2 DEF Good, RecordsSane
    <2>3. CASE Pruned(recs)[t] = Absent
        BY <2>1, <2>3, StatusFacts
    <2> QED
        BY <1>1, <2>2, <2>3
<1> QED
    BY <1>2, <1>3, <1>4 DEF Good, Typed

-----------------------------------------------------------------------------
(* Scheduling keeps the invariant                                          *)

\* A record that no live coroutine stands behind may be given another one, of
\* no live coroutine, that keeps the record conditions.
LEMMA ReplacedGood ==
    ASSUME NEW recs, NEW dsk, NEW lns, NEW rns, NEW sp, Good(recs, dsk, lns, rns, sp),
           NEW t \in Tasks, \A r \in Slots : Uncancelled(rns, r) => rns[r].task # t,
           NEW dsk2 \in [Tasks -> Images], NEW rec \in Records, NEW sp2 \in [Tasks -> BOOLEAN],
           \A u \in Tasks \ {t} : sp2[u] = sp[u],
           rec.attempt = None, rec.status # "running",
           rec.status = "accepted" => rec.pending = FALSE /\ sp2[t] = FALSE
    PROVE  Good(Updated(recs, t, rec), dsk2, lns, rns, sp2)
<1>1. /\ Updated(recs, t, rec) \in [Tasks -> Records]
      /\ Updated(recs, t, rec)[t] = rec
      /\ \A u \in Tasks \ {t} : Updated(recs, t, rec)[u] = recs[u]
    BY DEF Updated, Good, Typed
<1>2. Owned(Updated(recs, t, rec), lns, rns)
    <2> SUFFICES ASSUME NEW r \in Slots, Uncancelled(rns, r)
                 PROVE  Updated(recs, t, rec)[rns[r].task] = recs[rns[r].task]
        BY DEF Good, Owned
    <2> QED
        BY <1>1 DEF Good, RunsSane, Uncancelled
<1>3. RecordsSane(Updated(recs, t, rec), rns, sp2)
    BY <1>1 DEF Good, RecordsSane, Active
<1> QED
    BY <1>1, <1>2, <1>3 DEF Good, Typed

\* The lane of a session may change hands when no uncancelled coroutine belongs
\* to the session, and change otherwise when it does not change hands.
LEMMA LaneGood ==
    ASSUME NEW recs, NEW dsk, NEW lns, NEW rns, NEW sp, Good(recs, dsk, lns, rns, sp),
           NEW s \in Sessions, NEW lane \in Lanes,
           \/ lane.active = lns[s].active
           \/ \A r \in Slots : Uncancelled(rns, r) => SessionOf[rns[r].task] # s
    PROVE  Good(recs, dsk, [lns EXCEPT ![s] = lane], rns, sp)
<1> DEFINE lns2 == [lns EXCEPT ![s] = lane]
<1>1. lns2 \in [Sessions -> Lanes]
    BY DEF Good, Typed
<1>2. Owned(recs, lns2, rns)
    <2> SUFFICES ASSUME NEW r \in Slots, Uncancelled(rns, r),
                        SessionOf[rns[r].task] # NoSession
                 PROVE  lns2[SessionOf[rns[r].task]].active = rns[r].task
        BY DEF Good, Owned
    <2>1. SessionOf[rns[r].task] \in Sessions
        BY ConstantsAssumption DEF Good, RunsSane, Uncancelled
    <2>2. lns[SessionOf[rns[r].task]].active = rns[r].task
        BY DEF Good, Owned
    <2> QED
        BY <2>1, <2>2 DEF Good, Typed
<1> QED
    BY <1>1, <1>2 DEF Good, Typed

\* Spawning a coroutine for the accepted task that owns its lane keeps the invariant.
LEMMA SpawnGood ==
    ASSUME NEW recs, NEW dsk, NEW lns, NEW rns, NEW sp, Good(recs, dsk, lns, rns, sp),
           NEW t \in Tasks, recs[t].status \in Active, ~BgLive(recs[t]),
           SessionOf[t] # NoSession => lns[SessionOf[t]].active = t,
           Spawn(t, recs, dsk, lns, rns)
    PROVE  /\ Good(records', files', lanes', runs', sp)
           /\ \A q \in Slots : runs'[q].pc = "executing" => rns[q].pc = "executing"
<1>1. PICK r \in Slots :
         /\ rns[r].pc = "free"
         /\ records' = Updated(recs, t, [recs[t] EXCEPT !.bg = r])
         /\ runs' = [rns EXCEPT ![r] = [FreeRun EXCEPT !.pc = "spawned", !.task = t]]
         /\ files' = dsk /\ lanes' = lns
    BY DEF Spawn, Commit
<1>2. recs[t].status = "accepted"
    BY DEF Good, RecordsSane, BgLive, Active
<1>3. /\ [recs[t] EXCEPT !.bg = r] \in Records
      /\ [FreeRun EXCEPT !.pc = "spawned", !.task = t] \in Runs
    <2>1. recs[t] \in Records
        BY DEF Good, Typed
    <2>2. [recs[t] EXCEPT !.bg = r] \in Records
        BY <2>1 DEF Records
    <2>3. [FreeRun EXCEPT !.pc = "spawned", !.task = t] \in Runs
        BY DEF Runs, FreeRun
    <2> QED
        BY <2>2, <2>3
<1>4. /\ records' \in [Tasks -> Records] /\ runs' \in [Slots -> Runs]
      /\ records'[t] = [recs[t] EXCEPT !.bg = r]
      /\ \A u \in Tasks \ {t} : records'[u] = recs[u]
      /\ runs'[r] = [FreeRun EXCEPT !.pc = "spawned", !.task = t]
      /\ \A q \in Slots \ {r} : runs'[q] = rns[q]
    BY <1>1, <1>3 DEF Good, Typed, Updated
<1>5. /\ runs'[r].pc = "spawned" /\ runs'[r].task = t
      /\ records'[t].bg = r /\ records'[t].status = "accepted"
      /\ records'[t].attempt = recs[t].attempt /\ records'[t].pending = recs[t].pending
    BY <1>2, <1>4 DEF FreeRun, Good, Typed, Records
<1>6. RunsSane(runs')
    <2> SUFFICES ASSUME NEW q \in Slots
                 PROVE  /\ runs'[q].pc # "free" => runs'[q].task \in Tasks
                        /\ runs'[q].pc = "executing" => runs'[q].attempt = q
        BY DEF RunsSane
    <2>1. CASE q = r
        BY <2>1, <1>5
    <2>2. CASE q # r
        BY <2>2, <1>4 DEF Good, RunsSane
    <2> QED
        BY <2>1, <2>2
<1>7. Owned(records', lanes', runs')
    <2> SUFFICES ASSUME NEW q \in Slots, Uncancelled(runs', q)
                 PROVE  /\ records'[runs'[q].task].bg = q
                        /\ records'[runs'[q].task].status =
                              IF runs'[q].pc = "spawned" THEN "accepted" ELSE "running"
                        /\ runs'[q].pc = "executing" => records'[runs'[q].task].attempt = q
                        /\ SessionOf[runs'[q].task] # NoSession =>
                              lns[SessionOf[runs'[q].task]].active = runs'[q].task
        BY <1>1 DEF Owned
    <2>1. CASE q = r
        BY <2>1, <1>5
    <2>2. CASE q # r
        <3>1. Uncancelled(rns, q) /\ runs'[q] = rns[q]
            BY <2>2, <1>4 DEF Uncancelled
        <3>2. rns[q].task \in Tasks /\ rns[q].task # t
            BY <3>1, NoRunOf DEF Good, RunsSane, Uncancelled
        <3> QED
            BY <3>1, <3>2, <1>4 DEF Good, Owned
    <2> QED
        BY <2>1, <2>2
<1>8. RecordsSane(records', runs', sp)
    BY <1>1, <1>2, <1>4, <1>5 DEF Good, RecordsSane, Active
<1> QED
    BY <1>1, <1>4, <1>5, <1>6, <1>7, <1>8 DEF Good, Typed

\* Rehydrating keeps a lane well typed and leaves one that has an owner alone.
LEMMA RehydratedTyped ==
    ASSUME NEW recs \in [Tasks -> Records], NEW s, NEW lane \in Lanes
    PROVE  /\ Rehydrated(s, recs, lane) \in Lanes
           /\ lane.active # None => Rehydrated(s, recs, lane) = lane
<1> DEFINE first == {t \in WaitingIn(s, recs) :
                       \A u \in WaitingIn(s, recs) : recs[t].seq <= recs[u].seq}
           w == CHOOSE t \in first : TRUE
<1>1. first \in SUBSET Tasks
    BY DEF WaitingIn
<1>2. CASE lane.active # None \/ first = {}
    BY <1>2 DEF Rehydrated
<1>3. CASE ~(lane.active # None \/ first = {})
    <2>1. w \in Tasks
        BY <1>1, <1>3
    <2>2. recs[w].seq \in Nat /\ recs[w].delivery \in Deliveries
        BY <2>1 DEF Records
    <2> HIDE DEF w
    <2>3. HeldForUserInput(Scheduled(lane, w, recs[w].seq, recs[w].delivery), w) \in Lanes
        BY <2>1, <2>2, ScheduledTyped, HeldTyped
    <2> QED
        BY <1>3, <2>3 DEF Rehydrated, w
<1> QED
    BY <1>2, <1>3

\* No uncancelled coroutine belongs to a task of session s.
SessionIdle(s, rns) == \A r \in Slots : Uncancelled(rns, r) => SessionOf[rns[r].task] # s

\* The session of a lane is idle unless the owner of the lane is active with a
\* live coroutine.
LEMMA IdleLane ==
    ASSUME NEW recs, NEW dsk, NEW lns, NEW rns, NEW sp, Good(recs, dsk, lns, rns, sp),
           NEW s \in Sessions, ~SessionIdle(s, rns)
    PROVE  /\ lns[s].active \in Tasks
           /\ recs[lns[s].active].status \in Active
           /\ BgLive(recs[lns[s].active])
<1>1. PICK r \in Slots : Uncancelled(rns, r) /\ SessionOf[rns[r].task] = s
    BY DEF SessionIdle
<1>2. rns[r].task \in Tasks
    BY <1>1 DEF Good, RunsSane, Uncancelled
<1>3. lns[s].active = rns[r].task
    BY <1>1, ConstantsAssumption DEF Good, Owned
<1>4. recs[rns[r].task].status \in Active /\ recs[rns[r].task].bg = r
    BY <1>1 DEF Good, Owned, Active
<1> QED
    BY <1>2, <1>3, <1>4 DEF BgLive

\* The reconciliation of a lane never takes it from a task that executes.
LEMMA ReconciledKeeps ==
    ASSUME NEW recs, NEW dsk, NEW lns, NEW rns, NEW sp, Good(recs, dsk, lns, rns, sp),
           NEW s \in Sessions
    PROVE  /\ Reconciled(s, recs, lns[s]) \in Lanes
           /\ ~SessionIdle(s, rns) => Reconciled(s, recs, lns[s]) = lns[s]
<1>1. lns[s] \in Lanes /\ recs \in [Tasks -> Records]
    BY DEF Good, Typed
<1>2. lns[s].active \in Tasks \cup {None}
    BY <1>1 DEF Lanes
<1>3. Fresh \in Lanes
    BY DEF Fresh, Lanes
<1>4. Reconciled(s, recs, lns[s]) \in Lanes
    BY <1>1, <1>2, <1>3, RehydratedTyped, CompletedTyped DEF Reconciled
<1>5. ASSUME ~SessionIdle(s, rns) PROVE Reconciled(s, recs, lns[s]) = lns[s]
    <2>1. /\ lns[s].active # None
          /\ recs[lns[s].active].status # "absent"
          /\ recs[lns[s].active].status \in Active /\ BgLive(recs[lns[s].active])
        BY <1>5, IdleLane, NoneAssumption, StatusFacts
    <2> QED
        BY <2>1 DEF Reconciled
<1> QED
    BY <1>4, <1>5

\* What every handler's last step leaves: the invariant, and no coroutine that
\* executes but did not before.
Kept(rns, sp) ==
    /\ Good(records', files', lanes', runs', sp)
    /\ \A q \in Slots : runs'[q].pc = "executing" => rns[q].pc = "executing"

\* A handler that ends in a good state keeps the invariant.
LEMMA CommitKept ==
    ASSUME NEW recs, NEW dsk, NEW lns, NEW rns, NEW sp, Good(recs, dsk, lns, rns, sp),
           Commit(recs, dsk, lns, rns)
    PROVE  Kept(rns, sp)
BY DEF Commit, Kept

\* The suppressed branch of the scheduling keeps the invariant.
LEMMA SuppressKept ==
    ASSUME NEW recs, NEW dsk, NEW lns, NEW rns, NEW sp, Good(recs, dsk, lns, rns, sp),
           NEW t \in Tasks, ~BgLive(recs[t]), Suppress(t, recs, dsk, lns, rns)
    PROVE  Kept(rns, sp)
<1> DEFINE rec == Ended(recs[t], "stale", FALSE, FALSE)
<1>1. PICK f \in Faults :
         LET recs2 == Updated(recs, t, Compacted(rec, f)) IN
         Commit(Pruned(recs2), PrunedFiles(recs2, Persisted(dsk, t, rec, f)), lns, rns)
    BY DEF Suppress
<1>2. recs[t] \in Records
    BY DEF Good, Typed
<1>3. rec \in Records /\ rec.status = "stale" /\ rec.attempt = None
    BY <1>2, EndedTyped DEF Terminal
<1> HIDE DEF rec
<1>4. Persisted(dsk, t, rec, f) \in [Tasks -> Images]
    BY <1>3, PersistedTyped DEF Good, Typed
<1>5. /\ Compacted(rec, f) \in Records /\ Compacted(rec, f).status = "stale"
      /\ Compacted(rec, f).attempt = None
    BY <1>3, CompactedTyped
<1>6. Good(Updated(recs, t, Compacted(rec, f)), Persisted(dsk, t, rec, f), lns, rns, sp)
    <2>1. \A r \in Slots : Uncancelled(rns, r) => rns[r].task # t
        BY NoRunOf DEF Good
    <2>2. sp \in [Tasks -> BOOLEAN]
        BY DEF Good, Typed
    <2> QED
        BY <1>4, <1>5, <2>1, <2>2, ReplacedGood
<1> QED
    BY <1>1, <1>6, PrunedGood, CommitKept

\* _schedule_runtime_task_record keeps the invariant: the lane it starts in is free or its own.
LEMMA ScheduleKept ==
    ASSUME NEW recs, NEW dsk, NEW lns, NEW rns, NEW sp, Good(recs, dsk, lns, rns, sp),
           NEW t \in Tasks, Schedule(t, recs, dsk, lns, rns)
    PROVE  Kept(rns, sp)
<1>1. CASE recs[t].status \notin Active \/ BgLive(recs[t])
    BY <1>1, CommitKept DEF Schedule
<1>2. CASE recs[t].status \in Active /\ ~BgLive(recs[t]) /\ SessionOf[t] = NoSession
    BY <1>2, SpawnGood DEF Schedule, Kept
<1>3. CASE recs[t].status \in Active /\ ~BgLive(recs[t]) /\ SessionOf[t] # NoSession
    <2> DEFINE s == SessionOf[t]
               lane == Reconciled(s, recs, lns[s])
               lane2 == Scheduled(lane, t, recs[t].seq, recs[t].delivery)
               decision == ScheduleDecision(lane, t, recs[t].seq)
               lns2 == [lns EXCEPT ![s] = lane2]
    <2>1. s \in Sessions
        BY <1>3, ConstantsAssumption
    <2>2. /\ \/ decision = "queued" /\ Commit(recs, dsk, lns2, rns)
             \/ decision = "suppressed" /\ Suppress(t, recs, dsk, lns2, rns)
             \/ decision \in {"start", "active"} /\ Spawn(t, recs, dsk, lns2, rns)
        BY <1>3 DEF Schedule, ScheduleInLane
    <2>3. lane \in Lanes /\ (~SessionIdle(s, rns) => lane = lns[s])
        BY <2>1, ReconciledKeeps
    <2>4. recs[t].seq \in Nat /\ recs[t].delivery \in Deliveries
        BY DEF Good, Typed, Records
    <2>5. /\ lane2 \in Lanes
          /\ lane2.active = IF decision = "start" THEN t ELSE lane.active
        <3> HIDE DEF lane
        <3> QED
            BY <2>3, <2>4, ScheduledTyped
    <2>6. /\ decision = "start" => lane.active = None
          /\ decision = "active" => lane.active = t
        BY DEF ScheduleDecision
    <2> HIDE DEF lane, lane2, decision
    <2>7. lane2.active = lns[s].active \/ SessionIdle(s, rns)
        <3> SUFFICES ASSUME ~SessionIdle(s, rns) PROVE decision # "start"
            BY <2>3, <2>5
        <3> QED
            BY <2>1, <2>3, <2>6, IdleLane, NoneAssumption
    <2>8. Good(recs, dsk, lns2, rns, sp)
        BY <2>1, <2>5, <2>7, LaneGood DEF SessionIdle
    <2>9. lns2[s] = lane2
        BY <2>1 DEF Good, Typed
    <2>10. CASE decision = "queued" /\ Commit(recs, dsk, lns2, rns)
        BY <2>8, <2>10, CommitKept
    <2>11. CASE decision = "suppressed" /\ Suppress(t, recs, dsk, lns2, rns)
        BY <1>3, <2>8, <2>11, SuppressKept
    <2>12. CASE decision \in {"start", "active"} /\ Spawn(t, recs, dsk, lns2, rns)
        <3>1. lns2[SessionOf[t]].active = t
            BY <2>5, <2>6, <2>9, <2>12
        <3> HIDE DEF lns2
        <3> QED
            BY <1>3, <2>8, <2>12, <3>1, SpawnGood DEF Kept
    <2> QED
        BY <2>2, <2>10, <2>11, <2>12
<1> QED
    BY <1>1, <1>2, <1>3

\* Scheduling the task a completed lane promoted keeps the invariant.
LEMMA ScheduleNextKept ==
    ASSUME NEW recs, NEW dsk, NEW lns, NEW rns, NEW sp, Good(recs, dsk, lns, rns, sp),
           NEW next \in Tasks \cup {None}, ScheduleNext(next, recs, dsk, lns, rns)
    PROVE  Kept(rns, sp)
BY ScheduleKept, CommitKept DEF ScheduleNext

\* Completing a lane and scheduling the next task keeps the invariant.
LEMMA CompleteKept ==
    ASSUME NEW recs, NEW dsk, NEW rns, NEW sp, Good(recs, dsk, lanes, rns, sp),
           NEW t \in Tasks, recs[t].status \notin Active, Complete(t, recs, dsk, rns)
    PROVE  Kept(rns, sp)
<1>1. CASE SessionOf[t] = NoSession
    BY <1>1, CommitKept DEF Complete
<1>2. CASE SessionOf[t] # NoSession
    <2> DEFINE s == SessionOf[t]
               lane == Completed(lanes[s], t)
    <2>1. s \in Sessions /\ lanes[s] \in Lanes
        BY <1>2, ConstantsAssumption DEF Good, Typed
    <2>2. /\ lane \in Lanes
          /\ lanes[s].active # t => lane.active = lanes[s].active
          /\ NextOnComplete(lanes[s], t) \in Tasks \cup {None}
        BY <2>1, CompletedTyped
    <2>3. lanes[s].active = t => SessionIdle(s, rns)
        BY <2>1, IdleLane
    <2> HIDE DEF lane
    <2>4. Good(recs, dsk, [lanes EXCEPT ![s] = lane], rns, sp)
        BY <2>1, <2>2, <2>3, LaneGood DEF SessionIdle
    <2>5. ScheduleNext(NextOnComplete(lanes[s], t), recs, dsk, [lanes EXCEPT ![s] = lane], rns)
        BY <1>2 DEF Complete, lane
    <2> QED
        BY <2>2, <2>4, <2>5, ScheduleNextKept
<1> QED
    BY <1>1, <1>2

\* The finally block of a coroutine that is over keeps the invariant.
LEMMA FinallyKept ==
    ASSUME NEW recs, NEW dsk, NEW rns, NEW sp, Good(recs, dsk, lanes, rns, sp),
           NEW t \in Tasks, Finally(t, recs, dsk, rns)
    PROVE  Kept(rns, sp)
<1>1. CASE Waiting(recs[t]) /\ SessionOf[t] = NoSession
    BY <1>1, CommitKept DEF Finally
<1>2. CASE Waiting(recs[t]) /\ SessionOf[t] # NoSession
    <2> DEFINE s == SessionOf[t]
               lane == HeldForUserInput(lanes[s], t)
    <2>1. s \in Sessions /\ lanes[s] \in Lanes
        BY <1>2, ConstantsAssumption DEF Good, Typed
    <2>2. lane \in Lanes /\ lane.active = lanes[s].active
        BY <2>1, HeldTyped
    <2>3. Commit(recs, dsk, [lanes EXCEPT ![s] = lane], rns)
        BY <1>2, <2>1 DEF Finally, Good, Typed
    <2> HIDE DEF lane
    <2>4. Good(recs, dsk, [lanes EXCEPT ![s] = lane], rns, sp)
        BY <2>1, <2>2, LaneGood
    <2> QED
        BY <2>3, <2>4, CommitKept
<1>3. CASE ~Waiting(recs[t]) /\ recs[t].status \in Active
    BY <1>3, CommitKept DEF Finally
<1>4. CASE ~Waiting(recs[t]) /\ recs[t].status \notin Active
    BY <1>4, CompleteKept DEF Finally
<1> QED
    BY <1>1, <1>2, <1>3, <1>4

-----------------------------------------------------------------------------
(* The handlers                                                            *)

\* Asking a coroutine to cancel keeps the invariant.
LEMMA CancelRequestedGood ==
    ASSUME NEW recs, NEW dsk, NEW lns, NEW rns, NEW sp, Good(recs, dsk, lns, rns, sp),
           NEW bg
    PROVE  /\ Good(recs, dsk, lns, CancelRequested(rns, bg), sp)
           /\ \A r \in Slots : CancelRequested(rns, bg)[r].pc = rns[r].pc
           /\ \A r \in Slots : Uncancelled(CancelRequested(rns, bg), r)
                               => r # bg /\ Uncancelled(rns, r)
                                  /\ CancelRequested(rns, bg)[r] = rns[r]
<1> DEFINE rns2 == CancelRequested(rns, bg)
<1>1. rns \in [Slots -> Runs]
    BY DEF Good, Typed
<1>2. /\ rns2 \in [Slots -> Runs]
      /\ \A r \in Slots : /\ rns2[r].pc = rns[r].pc
                          /\ rns2[r].task = rns[r].task
                          /\ rns2[r].attempt = rns[r].attempt
                          /\ r # bg => rns2[r] = rns[r]
                          /\ r = bg => rns2[r].cancel = TRUE
    BY <1>1 DEF CancelRequested, Runs
<1>3. \A r \in Slots : Uncancelled(rns2, r) => r # bg /\ Uncancelled(rns, r) /\ rns2[r] = rns[r]
    BY <1>2 DEF Uncancelled
<1>4. RunsSane(rns2)
    BY <1>2 DEF Good, RunsSane
<1>5. Owned(recs, lns, rns2)
    BY <1>3 DEF Good, Owned
<1>6. RecordsSane(recs, rns2, sp)
    <2>1. \A t \in Tasks : recs[t].status = "running" =>
             rns2[recs[t].bg].pc = "executing" /\ rns2[recs[t].bg].task = t
        BY <1>2 DEF Good, RecordsSane
    <2> QED
        BY <2>1 DEF Good, RecordsSane
<1>7. Good(recs, dsk, lns, rns2, sp)
    BY <1>2, <1>4, <1>5, <1>6 DEF Good, Typed
<1> QED
    BY <1>2, <1>3, <1>7

\* One record replaced: the form the handlers use is the form of ReplacedGood.
LEMMA ExceptIsUpdated ==
    \A f, x, v : [f EXCEPT ![x] = v] = Updated(f, x, v)
BY DEF Updated

\* Cancelling keeps the invariant: the coroutine of the task, if any, is asked
\* to cancel in the same step.
LEMMA CancelledGood ==
    ASSUME NEW recs, NEW dsk, NEW lns, NEW rns, NEW sp, Good(recs, dsk, lns, rns, sp),
           NEW t \in Tasks, NEW f
    PROVE  LET rec == CancelledRecord(recs[t]) IN
           Good([recs EXCEPT ![t] = Compacted(rec, f)], Persisted(dsk, t, rec, f), lns,
                CancelRequested(rns, recs[t].bg), sp)
<1> DEFINE rec == CancelledRecord(recs[t])
           rns2 == CancelRequested(rns, recs[t].bg)
<1>1. recs[t] \in Records
    BY DEF Good, Typed
<1>2. rec \in Records /\ rec.status = "cancelled" /\ rec.attempt = None
    BY <1>1, CancelledRecordTyped
<1> HIDE DEF rec
<1>3. /\ Compacted(rec, f) \in Records /\ Compacted(rec, f).status = "cancelled"
      /\ Compacted(rec, f).attempt = None
    BY <1>2, CompactedTyped
<1>4. Persisted(dsk, t, rec, f) \in [Tasks -> Images]
    BY <1>2, PersistedTyped DEF Good, Typed
<1>5. /\ Good(recs, dsk, lns, rns2, sp)
      /\ \A r \in Slots : Uncancelled(rns2, r) =>
            r # recs[t].bg /\ Uncancelled(rns, r) /\ rns2[r] = rns[r]
    BY CancelRequestedGood
<1>6. ASSUME NEW r \in Slots, Uncancelled(rns2, r) PROVE rns2[r].task # t
    <2>1. r # recs[t].bg /\ Uncancelled(rns, r) /\ rns2[r] = rns[r]
        BY <1>5, <1>6
    <2>2. recs[rns[r].task].bg = r
        BY <2>1 DEF Good, Owned
    <2> QED
        BY <2>1, <2>2
<1>7. sp \in [Tasks -> BOOLEAN]
    BY DEF Good, Typed
<1>8. Good(Updated(recs, t, Compacted(rec, f)), Persisted(dsk, t, rec, f), lns, rns2, sp)
    BY <1>3, <1>4, <1>5, <1>6, <1>7, ReplacedGood
<1> QED
    BY <1>8, ExceptIsUpdated DEF rec

\* The end of a slot: whoever still refers to it refers to a task that is done.
LEMMA FreedGood ==
    ASSUME Good(records, files, lanes, runs, spent), NEW r \in Slots,
           \A t \in Tasks : records[t].bg = r => records[t].status # "running"
    PROVE  Good(Detached(records, r), files, lanes, Freed(r), spent)
<1>1. /\ Detached(records, r) \in [Tasks -> Records]
      /\ \A t \in Tasks : records[t].bg # r => Detached(records, r)[t] = records[t]
      /\ \A t \in Tasks : /\ Detached(records, r)[t].status = records[t].status
                          /\ Detached(records, r)[t].attempt = records[t].attempt
                          /\ records[t].pending = FALSE =>
                                Detached(records, r)[t].pending = FALSE
    BY DEF Good, Typed, Detached, Records
<1>2. /\ Freed(r) \in [Slots -> Runs]
      /\ Freed(r)[r].pc = "free"
      /\ \A q \in Slots \ {r} : Freed(r)[q] = runs[q]
    BY DEF Good, Typed, Freed, FreeRun, Runs
<1>3. RunsSane(Freed(r))
    BY <1>2 DEF Good, RunsSane
<1>4. Owned(Detached(records, r), lanes, Freed(r))
    <2> SUFFICES ASSUME NEW q \in Slots, Uncancelled(Freed(r), q)
                 PROVE  /\ Freed(r)[q] = runs[q] /\ Uncancelled(runs, q)
                        /\ Detached(records, r)[runs[q].task] = records[runs[q].task]
        BY DEF Good, Owned
    <2>1. q # r /\ Freed(r)[q] = runs[q] /\ Uncancelled(runs, q)
        BY <1>2 DEF Uncancelled
    <2>2. runs[q].task \in Tasks /\ records[runs[q].task].bg = q
        BY <2>1 DEF Good, Owned, RunsSane, Uncancelled
    <2> QED
        BY <1>1, <2>1, <2>2
<1>5. RecordsSane(Detached(records, r), Freed(r), spent)
    <2>1. \A t \in Tasks : records[t].status = "running" =>
             Detached(records, r)[t] = records[t] /\ records[t].bg # r
        BY <1>1
    <2>2. \A t \in Tasks : records[t].status = "running" =>
             /\ Freed(r)[records[t].bg].pc = "executing"
             /\ Freed(r)[records[t].bg].task = t
        BY <1>2, <2>1 DEF Good, RecordsSane
    <2>3. \A t \in Tasks : records[t].status = "running" =>
             /\ Detached(records, r)[t].bg = records[t].bg
             /\ Detached(records, r)[t].bg \in Slots
             /\ Detached(records, r)[t].attempt = Detached(records, r)[t].bg
        BY <2>1 DEF Good, RecordsSane
    <2>4. \A t \in Tasks :
             /\ Detached(records, r)[t].status # "running" =>
                   Detached(records, r)[t].attempt = None
             /\ Detached(records, r)[t].status \in Active =>
                   Detached(records, r)[t].pending = FALSE
             /\ Detached(records, r)[t].status = "accepted" => spent[t] = FALSE
        <3> SUFFICES ASSUME NEW t \in Tasks
                     PROVE  /\ records[t].status # "running" => records[t].attempt = None
                            /\ records[t].status \in Active => records[t].pending = FALSE
                            /\ records[t].status = "accepted" => spent[t] = FALSE
            BY <1>1
        <3> QED
            BY DEF Good, RecordsSane
    <2>5. \A t \in Tasks : Detached(records, r)[t].status = "running" =>
             /\ Freed(r)[Detached(records, r)[t].bg].pc = "executing"
             /\ Freed(r)[Detached(records, r)[t].bg].task = t
        BY <1>1, <2>2, <2>3
    <2>6. \A t \in Tasks : Detached(records, r)[t].status = "running" =>
             /\ Detached(records, r)[t].bg \in Slots
             /\ Detached(records, r)[t].attempt = Detached(records, r)[t].bg
        BY <1>1, <2>3
    <2> QED
        BY <2>4, <2>5, <2>6 DEF RecordsSane
<1> QED
    BY <1>1, <1>2, <1>3, <1>4, <1>5 DEF Good, Typed

\* A coroutine that executes after the step executed before it.
Quiet == \A q \in Slots : runs'[q].pc = "executing" => runs[q].pc = "executing"

\* Admitting a task with a fresh record keeps the invariant.
LEMMA AdmitKept ==
    ASSUME NEW recs, NEW dsk, NEW rns, Good(recs, dsk, lanes, rns, spent), nextSeq \in Nat,
           NEW t \in Tasks, recs[t].status \notin Active, NEW d \in Deliveries,
           Admit(t, d, recs, dsk, rns)
    PROVE  Kept(rns, spent') /\ nextSeq' \in Nat
<1> DEFINE rec == Created(nextSeq, d)
           sp2 == [spent EXCEPT ![t] = FALSE]
<1>1. PICK f \in Faults :
         /\ nextSeq' = nextSeq + 1 /\ spent' = sp2
         /\ LET recs2 == Updated(recs, t, rec) IN
            Schedule(t, Pruned(recs2), PrunedFiles(recs2, Persisted(dsk, t, rec, f)), lanes, rns)
    BY DEF Admit
<1>2. /\ rec \in Records /\ rec.status = "accepted"
      /\ rec.attempt = None /\ rec.pending = FALSE
    BY DEF Created, Absent, Records, Active
<1> HIDE DEF rec
<1>3. Persisted(dsk, t, rec, f) \in [Tasks -> Images]
    BY <1>2, PersistedTyped DEF Good, Typed
<1>4. /\ sp2 \in [Tasks -> BOOLEAN] /\ sp2[t] = FALSE
      /\ \A u \in Tasks \ {t} : sp2[u] = spent[u]
    BY DEF Good, Typed
<1> HIDE DEF sp2
<1>5. \A r \in Slots : Uncancelled(rns, r) => rns[r].task # t
    BY NoRunOf DEF Good
<1>6. Good(Updated(recs, t, rec), Persisted(dsk, t, rec, f), lanes, rns, sp2)
    BY <1>2, <1>3, <1>4, <1>5, ReplacedGood
<1>7. Kept(rns, sp2)
    BY <1>1, <1>6, PrunedGood, ScheduleKept
<1> QED
    BY <1>1, <1>7

\* A first dispatch keeps the invariant.
LEMMA DispatchNewStep ==
    ASSUME IInv, NEW t \in Tasks, NEW d \in Deliveries, DispatchNew(t, d)
    PROVE  IInv' /\ Quiet
<1>1. records[t].status \notin Active
    BY StatusFacts DEF DispatchNew
<1>2. Kept(runs, spent') /\ nextSeq' \in Nat
    BY <1>1, AdmitKept DEF IInv, DispatchNew
<1> QED
    BY <1>2 DEF IInv, DispatchNew, Kept, Quiet

\* A dispatch of a task that a restart made stale keeps the invariant.
LEMMA DispatchRestartStaleStep ==
    ASSUME IInv, NEW t \in Tasks, NEW d \in Deliveries, DispatchRestartStale(t, d)
    PROVE  IInv' /\ Quiet
<1> DEFINE recs == [records EXCEPT ![t] = Absent]
           dsk == [files EXCEPT ![t] = NoFile]
           rns == CancelRequested(runs, records[t].bg)
<1>1. Good(records, files, lanes, rns, spent)
    BY CancelRequestedGood DEF IInv
<1>2. \A r \in Slots : rns[r].pc = runs[r].pc
    BY CancelRequestedGood DEF IInv
<1>3. \A r \in Slots : Uncancelled(rns, r) => rns[r].task # t
    BY <1>1, NoRunOf DEF DispatchRestartStale, Active, Good
<1>4. /\ Absent \in Records /\ Absent.status = "absent" /\ Absent.attempt = None
      /\ dsk \in [Tasks -> Images] /\ spent \in [Tasks -> BOOLEAN]
    BY AbsentTyped DEF Absent, IInv, Good, Typed
<1> HIDE DEF dsk, rns
<1>5. Good(recs, dsk, lanes, rns, spent)
    <2>1. Good(Updated(records, t, Absent), dsk, lanes, rns, spent)
        BY <1>1, <1>3, <1>4, ReplacedGood
    <2> QED
        BY <2>1, ExceptIsUpdated
<1>6. recs[t].status \notin Active
    BY <1>4, StatusFacts DEF IInv, Good, Typed
<1>7. Admit(t, d, recs, dsk, rns)
    BY DEF DispatchRestartStale, dsk, rns
<1> HIDE DEF recs
<1>8. Kept(rns, spent') /\ nextSeq' \in Nat
    BY <1>5, <1>6, <1>7, AdmitKept DEF IInv
<1> QED
    BY <1>2, <1>8 DEF IInv, DispatchRestartStale, Kept, Quiet

\* A duplicate dispatch keeps the invariant.
LEMMA DispatchDuplicateStep ==
    ASSUME IInv, NEW t \in Tasks, DispatchDuplicate(t)
    PROVE  IInv' /\ Quiet
<1>1. Kept(runs, spent)
    BY ScheduleKept DEF IInv, DispatchDuplicate
<1> QED
    BY <1>1 DEF IInv, DispatchDuplicate, Kept, Quiet

\* Cancelling an active task keeps the invariant.
LEMMA CancelActiveStep ==
    ASSUME IInv, NEW t \in Tasks, CancelActive(t)
    PROVE  IInv' /\ Quiet
<1> DEFINE s == SessionOf[t]
           rec == CancelledRecord(records[t])
           lane == Cancelled(lanes[s], t, records[t].seq)
           lns == IF s = NoSession THEN lanes ELSE [lanes EXCEPT ![s] = lane]
           rns == CancelRequested(runs, records[t].bg)
<1>1. PICK f \in Faults : Commit([records EXCEPT ![t] = Compacted(rec, f)],
                                 Persisted(files, t, rec, f), lns, rns)
    BY DEF CancelActive
<1>2. Good([records EXCEPT ![t] = Compacted(rec, f)], Persisted(files, t, rec, f),
           lanes, rns, spent)
    BY CancelledGood DEF IInv
<1>3. \A r \in Slots : rns[r].pc = runs[r].pc
    BY CancelRequestedGood DEF IInv
<1>4. s # NoSession => s \in Sessions /\ lanes[s] \in Lanes
    BY ConstantsAssumption DEF IInv, Good, Typed
<1>5. records[t].seq \in Nat
    BY DEF IInv, Good, Typed, Records
<1>6. s # NoSession => lane \in Lanes /\ lane.active = lanes[s].active
    BY <1>4, <1>5, CancelledTyped
<1> HIDE DEF rec, rns, lane
<1>7. Good([records EXCEPT ![t] = Compacted(rec, f)], Persisted(files, t, rec, f),
           lns, rns, spent)
    BY <1>2, <1>4, <1>6, LaneGood
<1>8. Kept(rns, spent)
    BY <1>1, <1>7, CommitKept
<1> QED
    BY <1>3, <1>8 DEF IInv, CancelActive, Kept, Quiet

\* Cancelling a task that waits for the user keeps the invariant.
LEMMA CancelWaitingStep ==
    ASSUME IInv, NEW t \in Tasks, CancelWaiting(t)
    PROVE  IInv' /\ Quiet
<1> DEFINE s == SessionOf[t]
           rec == CancelledRecord(records[t])
           lane == Cancelled(lanes[s], t, records[t].seq)
           lane2 == Completed(lane, t)
           rns == CancelRequested(runs, records[t].bg)
           recs(f) == [records EXCEPT ![t] = Compacted(rec, f)]
           dsk(f) == Persisted(files, t, rec, f)
<1>1. PICK f \in Faults :
         IF s = NoSession THEN Commit(recs(f), dsk(f), lanes, rns)
         ELSE ScheduleNext(NextOnComplete(lane, t), recs(f), dsk(f),
                           [lanes EXCEPT ![s] = lane2], rns)
    BY DEF CancelWaiting
<1>2. Good(recs(f), dsk(f), lanes, rns, spent)
    BY CancelledGood DEF IInv
<1>3. \A r \in Slots : rns[r].pc = runs[r].pc
    BY CancelRequestedGood DEF IInv
<1>4. recs(f)[t].status \notin Active
    <2>1. rec \in Records /\ rec.status = "cancelled"
        BY CancelledRecordTyped DEF IInv, Good, Typed
    <2> HIDE DEF rec
    <2>2. Compacted(rec, f).status = "cancelled"
        BY <2>1, CompactedTyped
    <2> QED
        BY <2>2 DEF IInv, Good, Typed, Active
<1> HIDE DEF rec, rns, recs, dsk
<1>5. ASSUME s = NoSession PROVE Kept(rns, spent)
    BY <1>1, <1>2, <1>5, CommitKept
<1>6. ASSUME s # NoSession PROVE Kept(rns, spent)
    <2>1. s \in Sessions /\ lanes[s] \in Lanes /\ records[t].seq \in Nat
        BY <1>6, ConstantsAssumption DEF IInv, Good, Typed, Records
    <2>2. lane \in Lanes /\ lane.active = lanes[s].active
        BY <2>1, CancelledTyped
    <2> HIDE DEF lane
    <2>3. /\ lane2 \in Lanes
          /\ lane.active # t => lane2.active = lane.active
          /\ NextOnComplete(lane, t) \in Tasks \cup {None}
        BY <2>2, CompletedTyped
    <2> HIDE DEF lane2
    <2>4. lanes[s].active = t => SessionIdle(s, rns)
        BY <1>2, <1>4, <2>1, IdleLane
    <2>5. Good(recs(f), dsk(f), [lanes EXCEPT ![s] = lane2], rns, spent)
        BY <1>2, <2>1, <2>2, <2>3, <2>4, LaneGood DEF SessionIdle
    <2> QED
        BY <1>1, <1>6, <2>3, <2>5, ScheduleNextKept
<1>7. Kept(rns, spent)
    BY <1>5, <1>6
<1> QED
    BY <1>3, <1>7 DEF IInv, CancelWaiting, Kept, Quiet

\* An answer of the user keeps the invariant, late or not.
LEMMA AnswerStep ==
    ASSUME IInv, NEW t \in Tasks, Answer(t)
    PROVE  IInv' /\ Quiet
<1> DEFINE rec == Resumed(records[t])
           sp2 == [spent EXCEPT ![t] = FALSE]
<1>1. PICK f \in Faults :
         Schedule(t, [records EXCEPT ![t] = rec], Persisted(files, t, rec, f), lanes, runs)
    BY DEF Answer
<1>2. /\ rec \in Records /\ rec.status = "accepted"
      /\ rec.attempt = None /\ rec.pending = FALSE
    BY ResumedTyped DEF IInv, Good, Typed
<1> HIDE DEF rec
<1>3. Persisted(files, t, rec, f) \in [Tasks -> Images]
    BY <1>2, PersistedTyped DEF IInv, Good, Typed
<1>4. /\ sp2 \in [Tasks -> BOOLEAN] /\ sp2[t] = FALSE
      /\ \A u \in Tasks \ {t} : sp2[u] = spent[u]
    BY DEF IInv, Good, Typed
<1>5. spent' = sp2
    BY DEF Answer
<1> HIDE DEF sp2
<1>6. records[t].status \notin Active
    BY DEF Answer, IInv, Good, RecordsSane
<1>7. \A r \in Slots : Uncancelled(runs, r) => runs[r].task # t
    BY <1>6, NoRunOf DEF IInv, Good
<1>8. Good(records, files, lanes, runs, spent)
    BY DEF IInv
<1>9. Good(Updated(records, t, rec), Persisted(files, t, rec, f), lanes, runs, sp2)
    BY <1>2, <1>3, <1>4, <1>7, <1>8, ReplacedGood
<1>10. Good([records EXCEPT ![t] = rec], Persisted(files, t, rec, f), lanes, runs, sp2)
    BY <1>9, ExceptIsUpdated
<1>11. Kept(runs, sp2)
    BY <1>1, <1>10, ScheduleKept
<1> QED
    BY <1>5, <1>11 DEF IInv, Answer, Kept, Quiet

-----------------------------------------------------------------------------
(* The background coroutines                                               *)

\* An execution that begins has its task's permission, which it uses up.
LEMMA BgStartStep ==
    ASSUME IInv, NEW r \in Slots, BgStart(r)
    PROVE  /\ IInv'
           /\ spent[runs[r].task] = FALSE
           /\ \A q \in Slots \ {r} : runs'[q] = runs[q]
<1> DEFINE t == runs[r].task
           rec == [records[t] EXCEPT !.status = "running", !.attempt = r]
           run == [runs[r] EXCEPT !.pc = "executing", !.attempt = r]
<1>1. Good(records, files, lanes, runs, spent)
    BY DEF IInv
<1>2. Uncancelled(runs, r) /\ t \in Tasks
    BY <1>1 DEF BgStart, Uncancelled, Good, RunsSane
<1>3. /\ records[t].status = "accepted" /\ records[t].bg = r
      /\ records[t].pending = FALSE /\ spent[t] = FALSE
      /\ SessionOf[t] # NoSession => lanes[SessionOf[t]].active = t
    BY <1>1, <1>2 DEF BgStart, Good, Owned, RecordsSane, Active
<1>4. PICK f \in Faults : Commit([records EXCEPT ![t] = rec], Persisted(files, t, rec, f),
                                 lanes, [runs EXCEPT ![r] = run])
    BY <1>3 DEF BgStart, Active
<1>5. records[t] \in Records /\ runs[r] \in Runs
    BY <1>1, <1>2 DEF Good, Typed
<1>6. /\ rec \in Records /\ rec.status = "running" /\ rec.attempt = r
      /\ rec.bg = r /\ rec.pending = FALSE
    BY <1>3, <1>5 DEF Records, Active
<1>7. /\ run \in Runs /\ run.pc = "executing" /\ run.attempt = r
      /\ run.task = t /\ run.cancel = runs[r].cancel
    BY <1>5 DEF Runs
<1> HIDE DEF rec, run
<1>8. /\ records' \in [Tasks -> Records] /\ records'[t] = rec
      /\ \A u \in Tasks \ {t} : records'[u] = records[u]
      /\ runs' \in [Slots -> Runs] /\ runs'[r] = run
      /\ \A q \in Slots \ {r} : runs'[q] = runs[q]
      /\ files' \in [Tasks -> Images] /\ lanes' = lanes
    BY <1>1, <1>2, <1>4, <1>6, <1>7, PersistedTyped DEF Commit, Good, Typed
<1>9. /\ spent' \in [Tasks -> BOOLEAN]
      /\ \A u \in Tasks \ {t} : spent'[u] = spent[u]
    BY <1>1 DEF BgStart, Good, Typed
<1>10. RunsSane(runs')
    BY <1>1, <1>2, <1>7, <1>8 DEF Good, RunsSane
<1>11. Owned(records', lanes', runs')
    <2> SUFFICES ASSUME NEW q \in Slots, Uncancelled(runs', q)
                 PROVE  /\ records'[runs'[q].task].bg = q
                        /\ records'[runs'[q].task].status =
                              IF runs'[q].pc = "spawned" THEN "accepted" ELSE "running"
                        /\ runs'[q].pc = "executing" => records'[runs'[q].task].attempt = q
                        /\ SessionOf[runs'[q].task] # NoSession =>
                              lanes[SessionOf[runs'[q].task]].active = runs'[q].task
        BY <1>8 DEF Owned
    <2>1. CASE q = r
        BY <2>1, <1>3, <1>6, <1>7, <1>8
    <2>2. CASE q # r
        <3>1. Uncancelled(runs, q) /\ runs'[q] = runs[q]
            BY <2>2, <1>8 DEF Uncancelled
        <3>2. runs[q].task \in Tasks /\ records[runs[q].task].bg = q
            BY <3>1, <1>1 DEF Good, Owned, RunsSane, Uncancelled
        <3>3. records'[runs[q].task] = records[runs[q].task]
            BY <2>2, <3>2, <1>3, <1>8
        <3> QED
            BY <3>1, <3>3, <1>1 DEF Good, Owned
    <2> QED
        BY <2>1, <2>2
<1>12. RecordsSane(records', runs', spent')
    <2> SUFFICES ASSUME NEW u \in Tasks
                 PROVE  /\ records'[u].status # "running" => records'[u].attempt = None
                        /\ records'[u].status \in Active => records'[u].pending = FALSE
                        /\ records'[u].status = "running" =>
                              /\ records'[u].bg \in Slots
                              /\ records'[u].attempt = records'[u].bg
                              /\ runs'[records'[u].bg].pc = "executing"
                              /\ runs'[records'[u].bg].task = u
                        /\ records'[u].status = "accepted" => spent'[u] = FALSE
        BY DEF RecordsSane
    <2>1. CASE u = t
        BY <2>1, <1>6, <1>7, <1>8
    <2>2. CASE u # t
        <3>1. records'[u] = records[u] /\ spent'[u] = spent[u]
            BY <2>2, <1>8, <1>9
        <3>2. records[u].status = "running" =>
                 records[u].bg \in Slots /\ runs[records[u].bg].pc = "executing"
            BY <1>1 DEF Good, RecordsSane
        <3>3. records[u].status = "running" => runs'[records[u].bg] = runs[records[u].bg]
            BY <3>2, <1>8 DEF BgStart
        <3> QED
            BY <3>1, <3>3, <1>1 DEF Good, RecordsSane
    <2> QED
        BY <2>1, <2>2
<1>13. Good(records', files', lanes', runs', spent')
    BY <1>1, <1>8, <1>9, <1>10, <1>11, <1>12 DEF Good, Typed
<1> QED
    BY <1>3, <1>8, <1>13 DEF IInv, BgStart

\* The coroutine of t ends and leaves t with a record that is settled.
LEMMA FreedEnding ==
    ASSUME Good(records, files, lanes, runs, spent), NEW r \in Slots, NEW t \in Tasks,
           \A u \in Tasks \ {t} : records[u].bg = r => records[u].status # "running",
           \A q \in Slots \ {r} : Uncancelled(runs, q) => runs[q].task # t,
           NEW rec \in Records, NEW dsk \in [Tasks -> Images],
           rec.attempt = None, rec.status \notin Active
    PROVE  Good(Updated(Detached(records, r), t, rec), dsk, lanes, Freed(r), spent)
<1> DEFINE recs == Updated(Detached(records, r), t, rec)
<1>1. /\ recs \in [Tasks -> Records] /\ recs[t] = rec
      /\ \A u \in Tasks \ {t} : records[u].bg # r => recs[u] = records[u]
      /\ \A u \in Tasks \ {t} : /\ recs[u].status = records[u].status
                                /\ recs[u].attempt = records[u].attempt
                                /\ records[u].pending = FALSE => recs[u].pending = FALSE
    BY DEF Good, Typed, Detached, Updated, Records
<1>2. /\ Freed(r) \in [Slots -> Runs]
      /\ Freed(r)[r].pc = "free"
      /\ \A q \in Slots \ {r} : Freed(r)[q] = runs[q]
    BY DEF Good, Typed, Freed, FreeRun, Runs
<1>3. RunsSane(Freed(r))
    BY <1>2 DEF Good, RunsSane
<1> HIDE DEF recs
<1>4. Owned(recs, lanes, Freed(r))
    <2> SUFFICES ASSUME NEW q \in Slots, Uncancelled(Freed(r), q)
                 PROVE  /\ Freed(r)[q] = runs[q] /\ Uncancelled(runs, q)
                        /\ recs[runs[q].task] = records[runs[q].task]
        BY DEF Good, Owned
    <2>1. q # r /\ Freed(r)[q] = runs[q] /\ Uncancelled(runs, q)
        BY <1>2 DEF Uncancelled
    <2>2. runs[q].task \in Tasks \ {t} /\ records[runs[q].task].bg = q
        BY <2>1 DEF Good, Owned, RunsSane, Uncancelled
    <2> QED
        BY <1>1, <2>1, <2>2
<1>5. RecordsSane(recs, Freed(r), spent)
    <2> SUFFICES ASSUME NEW u \in Tasks
                 PROVE  /\ recs[u].status # "running" => recs[u].attempt = None
                        /\ recs[u].status \in Active => recs[u].pending = FALSE
                        /\ recs[u].status = "running" =>
                              /\ recs[u].bg \in Slots
                              /\ recs[u].attempt = recs[u].bg
                              /\ Freed(r)[recs[u].bg].pc = "executing"
                              /\ Freed(r)[recs[u].bg].task = u
                        /\ recs[u].status = "accepted" => spent[u] = FALSE
        BY DEF RecordsSane
    <2>1. CASE u = t
        BY <2>1, <1>1, StatusFacts
    <2>2. CASE u # t /\ records[u].status = "running"
        <3>1. records[u].bg # r /\ recs[u] = records[u]
            BY <2>2, <1>1
        <3> QED
            BY <2>2, <3>1, <1>2 DEF Good, RecordsSane
    <2>3. CASE u # t /\ records[u].status # "running"
        <3>1. /\ records[u].attempt = None
              /\ records[u].status \in Active => records[u].pending = FALSE
              /\ records[u].status = "accepted" => spent[u] = FALSE
            BY <2>3 DEF Good, RecordsSane
        <3> QED
            BY <2>3, <3>1, <1>1
    <2> QED
        BY <2>1, <2>2, <2>3
<1>6. Good(recs, dsk, lanes, Freed(r), spent)
    BY <1>1, <1>2, <1>3, <1>4, <1>5 DEF Good, Typed
<1> QED
    BY <1>6 DEF recs

\* What a coroutine that executes knows about the records.
LEMMA ExecutingFacts ==
    ASSUME Good(records, files, lanes, runs, spent),
           NEW r \in Slots, runs[r].pc = "executing"
    PROVE  /\ runs[r].task \in Tasks /\ runs[r].attempt = r /\ r # None
           /\ \A u \in Tasks \ {runs[r].task} :
                 records[u].bg = r => records[u].status # "running"
           /\ records[runs[r].task].attempt = r =>
                 /\ records[runs[r].task].status = "running"
                 /\ \A q \in Slots \ {r} : Uncancelled(runs, q) => runs[q].task # runs[r].task
           /\ records[runs[r].task].status = "running" /\ records[runs[r].task].bg = r
              => records[runs[r].task].attempt = r
<1>1. runs[r].task \in Tasks /\ runs[r].attempt = r /\ r # None
    BY ConstantsAssumption DEF Good, RunsSane
<1>2. \A u \in Tasks \ {runs[r].task} : records[u].bg = r => records[u].status # "running"
    BY DEF Good, RecordsSane
<1>3. records[runs[r].task].attempt = r =>
         records[runs[r].task].status = "running" /\ records[runs[r].task].bg = r
    BY <1>1 DEF Good, RecordsSane
<1>4. records[runs[r].task].attempt = r =>
         \A q \in Slots \ {r} : Uncancelled(runs, q) => runs[q].task # runs[r].task
    BY <1>3 DEF Good, Owned
<1>5. records[runs[r].task].status = "running" /\ records[runs[r].task].bg = r
      => records[runs[r].task].attempt = r
    BY <1>1 DEF Good, RecordsSane
<1> QED
    BY <1>1, <1>2, <1>3, <1>4, <1>5

\* Marking a background task done keeps the records well typed.
LEMMA DetachedTyped ==
    ASSUME Good(records, files, lanes, runs, spent), NEW r \in Slots, NEW t \in Tasks
    PROVE  /\ Detached(records, r)[t] \in Records
           /\ Detached(records, r)[t].status = records[t].status
           /\ Detached(records, r)[t].attempt = records[t].attempt
BY DEF Good, Typed, Detached, Records

\* A coroutine that ends, with or without writing its record, keeps the invariant.
LEMMA FinallyStep ==
    ASSUME NEW recs, NEW dsk, NEW r \in Slots, NEW t \in Tasks, IInv,
           Good(recs, dsk, lanes, Freed(r), spent), Finally(t, recs, dsk, Freed(r)),
           UNCHANGED <<nextSeq, mode, spent>>
    PROVE  IInv' /\ Quiet
<1>1. Kept(Freed(r), spent)
    BY FinallyKept
<1>2. \A q \in Slots : Freed(r)[q].pc = "executing" => runs[q].pc = "executing"
    BY DEF Freed, FreeRun, IInv, Good, Typed
<1> QED
    BY <1>1, <1>2 DEF IInv, Kept, Quiet

\* The current attempt alone records an outcome; any other run changes nothing
\* but the slot it leaves.
LEMMA BgEndStep ==
    ASSUME IInv, NEW r \in Slots, NEW status \in {"success", "error", "blocked"},
           NEW pending \in BOOLEAN, BgEnd(r, status, pending)
    PROVE  IInv' /\ Quiet
<1> DEFINE t == runs[r].task
           recs == Detached(records, r)
           rec == Ended(recs[t], status, pending, FALSE)
<1>1. Good(records, files, lanes, runs, spent) /\ runs[r].pc = "executing"
    BY DEF IInv, BgEnd
<1>2. t \in Tasks /\ runs[r].attempt = r /\ r # None
    BY <1>1, ExecutingFacts
<1>3. /\ recs[t] \in Records /\ recs[t].status = records[t].status
      /\ recs[t].attempt = records[t].attempt
    BY <1>1, <1>2, DetachedTyped
<1>4. /\ rec \in Records /\ rec.status = status /\ rec.attempt = None
    BY <1>3 DEF Ended, Records, Terminal
<1>5. CASE TakesTerminal(recs[t], status, runs[r].attempt)
    <2>1. PICK f \in Faults :
             LET recs2 == Updated(recs, t, Compacted(rec, f)) IN
             Finally(t, Pruned(recs2),
                     PrunedFiles(recs2, Persisted(files, t, rec, f)), Freed(r))
        BY <1>5 DEF BgEnd
    <2>2. records[t].attempt = r
        BY <1>2, <1>3, <1>5 DEF TakesTerminal
    <2> HIDE DEF rec
    <2>3. /\ Compacted(rec, f) \in Records /\ Compacted(rec, f).attempt = None
          /\ Compacted(rec, f).status \notin Active
        BY <1>4, CompactedTyped DEF Active
    <2>4. Persisted(files, t, rec, f) \in [Tasks -> Images]
        BY <1>1, <1>2, <1>4, PersistedTyped DEF Good, Typed
    <2>5. Good(Updated(recs, t, Compacted(rec, f)), Persisted(files, t, rec, f),
               lanes, Freed(r), spent)
        BY <1>1, <1>2, <2>2, <2>3, <2>4, ExecutingFacts, FreedEnding
    <2> QED
        BY <1>2, <2>1, <2>5, PrunedGood, FinallyStep DEF BgEnd
<1>6. CASE ~TakesTerminal(recs[t], status, runs[r].attempt)
    <2>1. records[t].status = "running" => records[t].attempt # r
        BY <1>2, <1>3, <1>6 DEF TakesTerminal
    <2>2. \A u \in Tasks : records[u].bg = r => records[u].status # "running"
        BY <1>1, <2>1, ExecutingFacts
    <2>3. Good(recs, files, lanes, Freed(r), spent)
        BY <1>1, <2>2, FreedGood
    <2> QED
        BY <1>2, <1>6, <2>3, FinallyStep DEF BgEnd
<1> QED
    BY <1>5, <1>6

\* A cancelled coroutine that unwinds keeps the invariant.
LEMMA BgCancelledStep ==
    ASSUME IInv, NEW r \in Slots, BgCancelled(r)
    PROVE  IInv' /\ Quiet
<1> DEFINE t == runs[r].task
           recs == Detached(records, r)
           rec == CancelledRecord(recs[t])
<1>1. Good(records, files, lanes, runs, spent) /\ runs[r].pc = "executing"
    BY DEF IInv, BgCancelled
<1>2. t \in Tasks /\ runs[r].attempt = r /\ r # None
    BY <1>1, ExecutingFacts
<1>3. /\ recs[t] \in Records /\ recs[t].status = records[t].status
      /\ recs[t].attempt = records[t].attempt
    BY <1>1, <1>2, DetachedTyped
<1>4. /\ rec \in Records /\ rec.status = "cancelled" /\ rec.attempt = None
    BY <1>3, CancelledRecordTyped
<1>5. CASE records[t].status \in Active /\ records[t].attempt = r
    <2>1. PICK f \in Faults :
             Finally(t, Updated(recs, t, Compacted(rec, f)), Persisted(files, t, rec, f), Freed(r))
        BY <1>2, <1>3, <1>5 DEF BgCancelled
    <2> HIDE DEF rec
    <2>2. /\ Compacted(rec, f) \in Records /\ Compacted(rec, f).attempt = None
          /\ Compacted(rec, f).status \notin Active
        BY <1>4, CompactedTyped DEF Active
    <2>3. Persisted(files, t, rec, f) \in [Tasks -> Images]
        BY <1>1, <1>2, <1>4, PersistedTyped DEF Good, Typed
    <2>4. Good(Updated(recs, t, Compacted(rec, f)), Persisted(files, t, rec, f),
               lanes, Freed(r), spent)
        BY <1>1, <1>2, <1>5, <2>2, <2>3, ExecutingFacts, FreedEnding
    <2> QED
        BY <1>2, <2>1, <2>4, FinallyStep DEF BgCancelled
<1>6. CASE ~(records[t].status \in Active /\ records[t].attempt = r)
    <2>1. Finally(t, recs, files, Freed(r))
        BY <1>2, <1>3, <1>6 DEF BgCancelled
    <2>2. \A u \in Tasks : records[u].bg = r => records[u].status # "running"
        BY <1>1, <1>6, ExecutingFacts, StatusFacts
    <2>3. Good(recs, files, lanes, Freed(r), spent)
        BY <1>1, <2>2, FreedGood
    <2> QED
        BY <1>2, <2>1, <2>3, FinallyStep DEF BgCancelled
<1> QED
    BY <1>5, <1>6

\* A coroutine cancelled before its first step keeps the invariant.
LEMMA BgNeverStartedStep ==
    ASSUME IInv, NEW r \in Slots, BgNeverStarted(r)
    PROVE  IInv' /\ Quiet
<1>1. Good(records, files, lanes, runs, spent)
    BY DEF IInv
<1>2. \A u \in Tasks : records[u].bg = r => records[u].status # "running"
    BY <1>1 DEF BgNeverStarted, Good, RecordsSane
<1>3. Good(Detached(records, r), files, lanes, Freed(r), spent)
    BY <1>1, <1>2, FreedGood
<1>4. Kept(Freed(r), spent)
    BY <1>3, CommitKept DEF BgNeverStarted
<1>5. \A q \in Slots : Freed(r)[q].pc = "executing" => runs[q].pc = "executing"
    BY <1>1 DEF Freed, FreeRun, Good, Typed
<1> QED
    BY <1>4, <1>5 DEF IInv, Kept, Quiet, BgNeverStarted

-----------------------------------------------------------------------------
(* The end of the process                                                  *)

\* Cancelling every coroutine at shutdown keeps the invariant.
LEMMA ShutdownStep ==
    ASSUME IInv, Shutdown
    PROVE  IInv' /\ Quiet
<1>1. Good(records, files, lanes, runs, spent)
    BY DEF IInv
<1>2. /\ runs' \in [Slots -> Runs]
      /\ \A r \in Slots : /\ runs'[r].pc = runs[r].pc
                          /\ runs'[r].task = runs[r].task
                          /\ runs'[r].attempt = runs[r].attempt
                          /\ runs[r].pc # "free" => runs'[r].cancel = TRUE
    <2>1. \A r \in Slots : runs[r] \in Runs
        BY <1>1 DEF Good, Typed
    <2> QED
        BY <2>1 DEF Shutdown, Runs
<1>3. RunsSane(runs')
    BY <1>1, <1>2 DEF Good, RunsSane
<1>4. Owned(records, lanes, runs')
    BY <1>2 DEF Owned, Uncancelled
<1>5. RecordsSane(records, runs', spent)
    <2>1. \A t \in Tasks : records[t].status = "running" =>
             runs'[records[t].bg].pc = "executing" /\ runs'[records[t].bg].task = t
        BY <1>1, <1>2 DEF Good, RecordsSane
    <2> QED
        BY <1>1, <2>1 DEF Good, RecordsSane
<1>6. Good(records, files, lanes, runs', spent)
    BY <1>1, <1>2, <1>3, <1>4, <1>5 DEF Good, Typed
<1> QED
    BY <1>2, <1>6 DEF IInv, Shutdown, Quiet

\* After a restart no record is active and no coroutine exists.
LEMMA RestartStep ==
    ASSUME IInv, Restart
    PROVE  IInv' /\ Quiet
<1> DEFINE loaded(L) == Pruned(Loaded(L))
           onDisk(L) == PrunedFiles(Loaded(L), files)
           active(L, t) == loaded(L)[t].status \in Active
           stale(L, t) == StaleOnRestart(loaded(L)[t])
           recs(L, fault) == [t \in Tasks |->
               IF active(L, t) THEN Compacted(stale(L, t), fault[t]) ELSE loaded(L)[t]]
           dsk(L, fault) == [t \in Tasks |->
               IF active(L, t) THEN Persisted(onDisk(L), t, stale(L, t), fault[t])[t]
               ELSE onDisk(L)[t]]
           seqs(L) == {files[t].seq : t \in L}
<1>1. PICK L \in LoadSets, fault \in ReconcileFaults :
         /\ records' = Pruned(recs(L, fault))
         /\ files' = PrunedFiles(recs(L, fault), dsk(L, fault))
         /\ lanes' = [s \in Sessions |-> Rehydrated(s, loaded(L), Fresh)]
         /\ runs' = [r \in Slots |-> FreeRun]
         /\ nextSeq' \in {n + 1 : n \in seqs(L) \cup {0}}
         /\ mode' = "serving"
         /\ spent' = [t \in Tasks |-> TRUE]
    BY DEF Restart
<1>2. files \in [Tasks -> Images] /\ L \in SUBSET Tasks
    BY DEF IInv, Good, Typed, LoadSets, OnDisk
<1>3. /\ Loaded(L) \in [Tasks -> Records]
      /\ \A t \in Tasks : Loaded(L)[t].attempt = None
    BY <1>2, AbsentTyped DEF Loaded, Images, Records, Absent
<1>4. /\ loaded(L) \in [Tasks -> Records] /\ onDisk(L) \in [Tasks -> Images]
      /\ \A t \in Tasks : loaded(L)[t].attempt = None
    BY <1>2, <1>3, PrunedTyped DEF Absent
<1> HIDE DEF loaded, onDisk
<1>5. \A t \in Tasks : /\ stale(L, t) \in Records /\ stale(L, t).status = "stale"
                      /\ stale(L, t).attempt = None
    BY <1>4, EndedTyped DEF StaleOnRestart, Terminal
<1> HIDE DEF stale
<1>6. \A t \in Tasks : /\ Compacted(stale(L, t), fault[t]) \in Records
                      /\ Compacted(stale(L, t), fault[t]).status = "stale"
                      /\ Compacted(stale(L, t), fault[t]).attempt = None
    BY <1>5, CompactedTyped
<1>7. /\ recs(L, fault) \in [Tasks -> Records]
      /\ \A t \in Tasks : /\ recs(L, fault)[t].status \notin Active
                          /\ recs(L, fault)[t].attempt = None
    BY <1>4, <1>6 DEF Active
<1>8. dsk(L, fault) \in [Tasks -> Images]
    <2>1. \A t \in Tasks : Persisted(onDisk(L), t, stale(L, t), fault[t]) \in [Tasks -> Images]
        BY <1>4, <1>5, PersistedTyped
    <2> QED
        BY <1>4, <2>1
<1> HIDE DEF recs, dsk
<1>9. lanes' \in [Sessions -> Lanes]
    <2>1. Fresh \in Lanes
        BY DEF Fresh, Lanes
    <2> QED
        BY <1>1, <1>4, <2>1, RehydratedTyped
<1>10. /\ runs' \in [Slots -> Runs] /\ spent' \in [Tasks -> BOOLEAN]
       /\ \A r \in Slots : runs'[r].pc = "free"
    BY <1>1 DEF FreeRun, Runs
<1>11. RunsSane(runs') /\ Owned(recs(L, fault), lanes', runs')
    BY <1>10 DEF RunsSane, Owned, Uncancelled
<1>12. RecordsSane(recs(L, fault), runs', spent')
    BY <1>7, StatusFacts DEF RecordsSane
<1>13. Good(recs(L, fault), dsk(L, fault), lanes', runs', spent')
    BY <1>7, <1>8, <1>9, <1>10, <1>11, <1>12 DEF Good, Typed
<1>14. Good(records', files', lanes', runs', spent')
    BY <1>1, <1>13, PrunedGood
<1>15. nextSeq' \in Nat
    BY <1>1, <1>2 DEF Images
<1> QED
    BY <1>1, <1>10, <1>14, <1>15 DEF IInv, Quiet

-----------------------------------------------------------------------------
(* The theorems                                                            *)

\* The invariant holds in a fresh process.
LEMMA InitIInv == Init => IInv
<1> SUFFICES ASSUME Init PROVE IInv
    OBVIOUS
<1>1. Typed(records, files, lanes, runs, spent)
    <2>1. Fresh \in Lanes /\ FreeRun \in Runs
        BY DEF Fresh, Lanes, FreeRun, Runs
    <2> QED
        BY <2>1, AbsentTyped DEF Init, Typed
<1>2. \A r \in Slots : runs[r].pc = "free"
    BY DEF Init, FreeRun
<1>3. \A t \in Tasks : records[t].status = "absent" /\ records[t].attempt = None
    BY DEF Init, Absent
<1>4. RunsSane(runs) /\ Owned(records, lanes, runs)
    BY <1>2 DEF RunsSane, Owned, Uncancelled
<1>5. RecordsSane(records, runs, spent)
    BY <1>3, StatusFacts DEF RecordsSane
<1> QED
    BY <1>1, <1>4, <1>5 DEF Init, IInv, Good

\* No coroutine begins to execute without its task's unused permission.
StartsUnspent ==
    \A r \in Slots :
        runs[r].pc = "spawned" /\ runs'[r].pc = "executing" => ~spent[runs[r].task]

\* Every step keeps the invariant and starts only tasks with an unused admission.
LEMMA NextIInv == IInv /\ [Next]_vars => IInv' /\ StartsUnspent
<1> SUFFICES ASSUME IInv, [Next]_vars PROVE IInv' /\ StartsUnspent
    OBVIOUS
<1>1. Quiet => StartsUnspent
    BY DEF Quiet, StartsUnspent
<1>2. CASE UNCHANGED vars
    BY <1>2 DEF vars, IInv, Good, Typed, RunsSane, Owned, RecordsSane, Uncancelled, StartsUnspent
<1>3. ASSUME NEW t \in Tasks, Handler(t) PROVE IInv' /\ StartsUnspent
    <2>1. Requested \subseteq Deliveries
        BY ConstantsAssumption
    <2> QED
        BY <1>1, <1>3, <2>1, DispatchNewStep, DispatchRestartStaleStep, DispatchDuplicateStep,
           CancelActiveStep, CancelWaitingStep, AnswerStep DEF Handler
<1>4. ASSUME NEW r \in Slots, BgStart(r) PROVE IInv' /\ StartsUnspent
    BY <1>4, BgStartStep DEF StartsUnspent
<1>5. ASSUME NEW r \in Slots, BgResult(r) PROVE IInv' /\ StartsUnspent
    <2>1. Outcomes \ {"waiting"} \subseteq {"success", "error", "blocked"}
        BY ConstantsAssumption
    <2> QED
        BY <1>1, <1>5, <2>1, BgEndStep DEF BgResult
<1>6. ASSUME NEW r \in Slots, BgCancelled(r) \/ BgNeverStarted(r)
      PROVE  IInv' /\ StartsUnspent
    BY <1>1, <1>6, BgCancelledStep, BgNeverStartedStep
<1>7. CASE Shutdown \/ Restart
    BY <1>1, <1>7, ShutdownStep, RestartStep
<1> QED
    BY <1>2, <1>3, <1>4, <1>5, <1>6, <1>7 DEF Next, Step

\* The inductive invariant holds in every reachable state.
LEMMA Invariance == Spec => []IInv
BY InitIInv, NextIInv, PTL DEF Spec

\* The variables keep their types.
THEOREM TypeCorrect == Spec => []TypeOK
<1>1. IInv => TypeOK
    BY DEF IInv, Good, Typed, TypeOK
<1> QED
    BY <1>1, Invariance, PTL

\* Every coroutine that nobody asked to cancel is the one its record points to,
\* and its task owns the lane of its session.
THEOREM RunsAreOwned == Spec => []RunIsOwned
<1>1. IInv => RunIsOwned
    BY DEF IInv, Good, Owned, RunsSane, RunIsOwned
<1> QED
    BY <1>1, Invariance, PTL

\* Mutual exclusion: no session, and no task, has two such coroutines.
THEOREM SessionsAreExclusive == Spec => []OneRunPerSession
<1>1. RunIsOwned => OneRunPerSession
    BY DEF RunIsOwned, OneRunPerSession
<1> QED
    BY <1>1, RunsAreOwned, PTL

\* Nothing is executed twice on one admission or answer: not by a duplicate
\* dispatch, not by a late unwinding, not after a crash, whatever the disk does.
THEOREM NothingIsReplayed == Spec => NoReplay
<1>1. IInv /\ [Next]_vars => [StartsUnspent]_vars
    BY NextIInv
<1> QED
    BY <1>1, Invariance, PTL DEF Spec, NoReplay, StartsUnspent

-----------------------------------------------------------------------------
(* While no write fails                                                    *)

\* Every write succeeds, and a startup loads every record there can be.
NoFaults == Faults = {"none"}
AllLoaded == IsFiniteSet(Tasks) /\ Cardinality(Tasks) <= LoadMax

\* DiskMirrorsRecords, of a state in the making.  A record that was compacted is not
\* written again, so no active one may be.
Mirrors(recs, dsk) ==
    \A t \in Tasks :
        /\ dsk[t] = Image(recs[t])
        /\ recs[t].status \in Active => recs[t].compacted = FALSE
        /\ recs[t].status = "absent" => dsk[t] = NoFile

\* The tail of a handler keeps a status, drops its record, or makes an active one stale.
Settled(recs) ==
    \A t \in Tasks :
        \/ records'[t].status = recs[t].status
        \/ records'[t].status = "absent"
        \/ records'[t].status = "stale" /\ recs[t].status \in Active

Lands(recs, dsk) == Settled(recs) /\ Mirrors(records', files')

-----------------------------------------------------------------------------
(* Records and their files                                                 *)

\* _persist_record of one record that was not compacted.
LEMMA WrittenMirrors ==
    ASSUME NoFaults, NEW f \in Faults, NEW recs \in [Tasks -> Records],
           NEW dsk \in [Tasks -> Images], Mirrors(recs, dsk), NEW t \in Tasks,
           NEW rec \in Records, rec.compacted = FALSE, rec.status # "absent"
    PROVE  /\ Mirrors(Updated(recs, t, rec), Persisted(dsk, t, rec, f))
           /\ rec.status \notin Active =>
                 Mirrors(Updated(recs, t, Compacted(rec, f)), Persisted(dsk, t, rec, f))
<1>1. Persisted(dsk, t, rec, f) = Updated(dsk, t, Image(rec))
    BY DEF Persisted, NoFaults
<1>2. Image(Compacted(rec, f)) = Image(rec) /\ Compacted(rec, f).status = rec.status
    BY DEF Compacted, Image, Records
<1>3. \A x : \A u \in Tasks : /\ Updated(recs, t, x)[u] = IF u = t THEN x ELSE recs[u]
                              /\ Updated(dsk, t, x)[u] = IF u = t THEN x ELSE dsk[u]
    BY DEF Updated
<1> QED
    BY <1>1, <1>2, <1>3 DEF Mirrors

\* prune() removes a record and its file together.
LEMMA PrunedMirrors ==
    ASSUME NEW recs \in [Tasks -> Records], NEW dsk \in [Tasks -> Images], Mirrors(recs, dsk)
    PROVE  Mirrors(Pruned(recs), PrunedFiles(recs, dsk))
<1>1. Absent.compacted = FALSE
    BY DEF Absent
<1>2. \A t \in Tasks : \/ /\ Pruned(recs)[t] = recs[t] /\ PrunedFiles(recs, dsk)[t] = dsk[t]
                       \/ /\ Pruned(recs)[t] = Absent /\ PrunedFiles(recs, dsk)[t] = NoFile
    BY DEF Pruned, PrunedFiles
<1> QED
    BY <1>1, <1>2 DEF Mirrors, NoFile

\* Pruning, as the last thing a handler does to the records.
LEMMA PrunedStatus ==
    ASSUME NEW recs \in [Tasks -> Records], NEW t \in Tasks
    PROVE  \/ Pruned(recs)[t] = recs[t]
           \/ Pruned(recs)[t].status = "absent"
BY DEF Pruned, Absent

-----------------------------------------------------------------------------
(* The tails of the handlers                                               *)

\* A handler that ends.
LEMMA CommitLands ==
    ASSUME NEW recs, NEW dsk, NEW lns, NEW rns, Mirrors(recs, dsk), Commit(recs, dsk, lns, rns)
    PROVE  Lands(recs, dsk)
BY DEF Commit, Lands, Settled

\* A spawned coroutine is not part of the file.
LEMMA SpawnLands ==
    ASSUME NEW recs \in [Tasks -> Records], NEW dsk, NEW lns, NEW rns, NEW t \in Tasks,
           Mirrors(recs, dsk), Spawn(t, recs, dsk, lns, rns)
    PROVE  Lands(recs, dsk)
<1>1. PICK r \in Slots : /\ records' = Updated(recs, t, [recs[t] EXCEPT !.bg = r])
                         /\ files' = dsk
    BY DEF Spawn, Commit
<1>2. /\ [recs[t] EXCEPT !.bg = r].status = recs[t].status
      /\ [recs[t] EXCEPT !.bg = r].compacted = recs[t].compacted
      /\ Image([recs[t] EXCEPT !.bg = r]) = Image(recs[t])
    BY DEF Records, Image
<1>3. \A u \in Tasks : records'[u] = IF u = t THEN [recs[t] EXCEPT !.bg = r] ELSE recs[u]
    BY <1>1 DEF Updated
<1> QED
    BY <1>1, <1>2, <1>3 DEF Lands, Settled, Mirrors

\* A task that is suppressed was active.
LEMMA SuppressLands ==
    ASSUME NoFaults, NEW recs \in [Tasks -> Records], NEW dsk \in [Tasks -> Images],
           NEW lns, NEW rns, NEW t \in Tasks, recs[t].status \in Active,
           Mirrors(recs, dsk), Suppress(t, recs, dsk, lns, rns)
    PROVE  Lands(recs, dsk)
<1> DEFINE rec == Ended(recs[t], "stale", FALSE, FALSE)
           recs2(f) == Updated(recs, t, Compacted(rec, f))
<1>1. PICK f \in Faults : /\ records' = Pruned(recs2(f))
                          /\ files' = PrunedFiles(recs2(f), Persisted(dsk, t, rec, f))
    BY DEF Suppress, Commit
<1>2. rec \in Records /\ rec.status = "stale" /\ rec.compacted = FALSE
    BY ZenonT(60) DEF Ended, Records, Terminal, Mirrors
<1> HIDE DEF rec
<1>3. /\ Compacted(rec, f) \in Records /\ Compacted(rec, f).status = "stale"
      /\ Persisted(dsk, t, rec, f) \in [Tasks -> Images]
    BY <1>2, CompactedTyped, PersistedTyped
<1>4. Mirrors(recs2(f), Persisted(dsk, t, rec, f))
    BY <1>2, WrittenMirrors DEF Active
<1>5. /\ recs2(f) \in [Tasks -> Records]
      /\ \A u \in Tasks : recs2(f)[u] = IF u = t THEN Compacted(rec, f) ELSE recs[u]
    BY <1>3 DEF Updated
<1> HIDE DEF recs2
<1>6. Mirrors(records', files')
    BY <1>1, <1>3, <1>4, <1>5, PrunedMirrors
<1> QED
    BY <1>1, <1>3, <1>5, <1>6, PrunedStatus DEF Lands, Settled

\* _schedule_runtime_task_record
LEMMA ScheduleLands ==
    ASSUME NoFaults, NEW recs \in [Tasks -> Records], NEW dsk \in [Tasks -> Images],
           NEW lns, NEW rns, NEW t \in Tasks, Mirrors(recs, dsk), Schedule(t, recs, dsk, lns, rns)
    PROVE  Lands(recs, dsk)
<1>1. CASE recs[t].status \notin Active \/ BgLive(recs[t])
    BY <1>1, CommitLands DEF Schedule
<1>2. CASE recs[t].status \in Active /\ ~BgLive(recs[t]) /\ SessionOf[t] = NoSession
    BY <1>2, SpawnLands DEF Schedule
<1>3. CASE recs[t].status \in Active /\ ~BgLive(recs[t]) /\ SessionOf[t] # NoSession
    <2>1. \E lns2 : \/ Commit(recs, dsk, lns2, rns)
                    \/ Suppress(t, recs, dsk, lns2, rns)
                    \/ Spawn(t, recs, dsk, lns2, rns)
        BY <1>3 DEF Schedule, ScheduleInLane
    <2> QED
        BY <1>3, <2>1, CommitLands, SuppressLands, SpawnLands
<1> QED
    BY <1>1, <1>2, <1>3

\* The scheduling of the task a lane promotes, if any.
LEMMA ScheduleNextLands ==
    ASSUME NoFaults, NEW recs \in [Tasks -> Records], NEW dsk \in [Tasks -> Images],
           NEW lns, NEW rns, NEW next \in Tasks \cup {None}, Mirrors(recs, dsk),
           ScheduleNext(next, recs, dsk, lns, rns)
    PROVE  Lands(recs, dsk)
BY ScheduleLands, CommitLands DEF ScheduleNext

\* The finally block of a coroutine.
LEMMA FinallyLands ==
    ASSUME NoFaults, lanes \in [Sessions -> Lanes], NEW recs \in [Tasks -> Records],
           NEW dsk \in [Tasks -> Images], NEW rns, NEW t \in Tasks, Mirrors(recs, dsk),
           Finally(t, recs, dsk, rns)
    PROVE  Lands(recs, dsk)
<1>1. CASE \E lns : Commit(recs, dsk, lns, rns)
    BY <1>1, CommitLands
<1>2. CASE SessionOf[t] # NoSession /\ Complete(t, recs, dsk, rns)
    <2>1. SessionOf[t] \in Sessions /\ lanes[SessionOf[t]] \in Lanes
        BY <1>2, ConstantsAssumption
    <2>2. NextOnComplete(lanes[SessionOf[t]], t) \in Tasks \cup {None}
        BY <2>1, CompletedTyped
    <2> QED
        BY <1>2, <2>2, ScheduleNextLands DEF Complete
<1> QED
    BY <1>1, <1>2 DEF Finally, Complete

-----------------------------------------------------------------------------
(* The steps                                                               *)

MInv == IInv /\ Mirrors(records, files)

\* The changes of status the properties allow.
OutcomeOwned ==
    \A t \in Tasks :
        /\ records'[t].status \in {"success", "error", "blocked"}
        /\ records'[t].status # records[t].status
        => /\ records[t].status = "running"
           /\ \E r \in Slots : /\ runs[r].task = t /\ records[t].attempt = r
                              /\ runs[r].pc = "executing"
                              /\ runs'[r].pc # "executing"

CancelKept ==
    \A t \in Tasks :
        records[t].status = "cancelled" => records'[t].status \in {"cancelled", "absent"}

\* A step that records no outcome: it leaves a task active, cancelled or stale, or as it
\* was, and never takes up a cancelled one.
NoOutcome ==
    \A t \in Tasks :
        \/ records'[t].status = records[t].status
        \/ records'[t].status = "absent"
        \/ /\ records'[t].status \in Active \cup {"cancelled", "stale"}
           /\ records[t].status # "cancelled" \/ LateAnswers

StepKept == Mirrors(records', files') /\ OutcomeOwned /\ (LateAnswers \/ CancelKept)

\* A step that records no outcome is as the properties say.
LEMMA NoOutcomeKept ==
    ASSUME Mirrors(records', files'), NoOutcome
    PROVE  StepKept
BY DEF NoOutcome, StepKept, OutcomeOwned, CancelKept, Active

\* A tail after the record of one task was changed.
LEMMA ChangedKept ==
    ASSUME NEW recs, NEW dsk, Lands(recs, dsk), NEW t \in Tasks,
           \A u \in Tasks \ {t} : recs[u].status = records[u].status,
           records[t].status # "cancelled" \/ LateAnswers, recs[t].status \in Active \cup {"cancelled"}
    PROVE  StepKept
<1>1. NoOutcome
    BY DEF Lands, Settled, NoOutcome, Active
<1> QED
    BY <1>1, NoOutcomeKept DEF Lands

\* A tail after no status was changed.
LEMMA UnchangedKept ==
    ASSUME NEW recs, NEW dsk, Lands(recs, dsk), \A u \in Tasks : recs[u].status = records[u].status
    PROVE  StepKept
<1>1. NoOutcome
    BY DEF Lands, Settled, NoOutcome, Active
<1> QED
    BY <1>1, NoOutcomeKept DEF Lands

\* What the invariant says of the state a handler starts in.
LEMMA Started ==
    ASSUME MInv
    PROVE  /\ records \in [Tasks -> Records] /\ files \in [Tasks -> Images]
           /\ lanes \in [Sessions -> Lanes] /\ Mirrors(records, files)
BY DEF MInv, IInv, Good, Typed

\* An admission.
LEMMA AdmitLands ==
    ASSUME NoFaults, nextSeq \in Nat, NEW recs \in [Tasks -> Records],
           NEW dsk \in [Tasks -> Images], NEW rns, NEW t \in Tasks, NEW d \in Deliveries,
           Mirrors(recs, dsk), Admit(t, d, recs, dsk, rns),
           \A u \in Tasks \ {t} : recs[u].status = records[u].status,
           records[t].status # "cancelled"
    PROVE  StepKept
<1> DEFINE rec == Created(nextSeq, d)
           recs2 == Updated(recs, t, rec)
<1>1. PICK f \in Faults :
         Schedule(t, Pruned(recs2), PrunedFiles(recs2, Persisted(dsk, t, rec, f)), lanes, rns)
    BY DEF Admit
<1>2. rec \in Records /\ rec.status = "accepted" /\ rec.compacted = FALSE
    BY DEF Created, Absent, Records, Active
<1> HIDE DEF rec
<1>3. Persisted(dsk, t, rec, f) \in [Tasks -> Images]
    BY <1>2, PersistedTyped
<1>4. Mirrors(recs2, Persisted(dsk, t, rec, f))
    BY <1>2, WrittenMirrors
<1>5. /\ recs2 \in [Tasks -> Records]
      /\ \A u \in Tasks : recs2[u] = IF u = t THEN rec ELSE recs[u]
    BY <1>2 DEF Updated
<1> HIDE DEF recs2
<1>6. /\ Pruned(recs2) \in [Tasks -> Records]
      /\ PrunedFiles(recs2, Persisted(dsk, t, rec, f)) \in [Tasks -> Images]
      /\ Mirrors(Pruned(recs2), PrunedFiles(recs2, Persisted(dsk, t, rec, f)))
    BY <1>3, <1>4, <1>5, PrunedTyped, PrunedMirrors
<1>7. Lands(Pruned(recs2), PrunedFiles(recs2, Persisted(dsk, t, rec, f)))
    BY <1>1, <1>6, ScheduleLands
<1>8. \A u \in Tasks : \/ Pruned(recs2)[u] = recs2[u]
                       \/ Pruned(recs2)[u].status = "absent"
    BY <1>5, PrunedStatus
<1>9. NoOutcome
    BY <1>2, <1>5, <1>7, <1>8 DEF Lands, Settled, NoOutcome, Active
<1> QED
    BY <1>7, <1>9, NoOutcomeKept DEF Lands

\* A task that is admitted, or admitted again, was not cancelled.
LEMMA DispatchesKept ==
    ASSUME NoFaults, MInv, NEW t \in Tasks, NEW d \in Deliveries,
           DispatchNew(t, d) \/ DispatchRestartStale(t, d)
    PROVE  StepKept
<1>1. nextSeq \in Nat
    BY DEF MInv, IInv
<1>2. CASE DispatchNew(t, d)
    BY <1>1, <1>2, Started, AdmitLands DEF DispatchNew
<1>3. CASE DispatchRestartStale(t, d)
    <2> DEFINE recs == [records EXCEPT ![t] = Absent]
               dsk == [files EXCEPT ![t] = NoFile]
               rns == CancelRequested(runs, records[t].bg)
    <2>1. recs \in [Tasks -> Records] /\ dsk \in [Tasks -> Images]
        BY Started, AbsentTyped
    <2>2. Absent.compacted = FALSE
        BY DEF Absent
    <2>3. Mirrors(recs, dsk)
        BY <2>2, Started DEF Mirrors, NoFile
    <2>4. \A u \in Tasks \ {t} : recs[u].status = records[u].status
        BY Started
    <2>5. Admit(t, d, recs, dsk, rns) /\ records[t].status = "stale"
        BY <1>3 DEF DispatchRestartStale
    <2> HIDE DEF recs, dsk, rns
    <2> QED
        BY <1>1, <2>1, <2>3, <2>4, <2>5, AdmitLands
<1> QED
    BY <1>2, <1>3

\* A duplicate dispatch records no outcome.
LEMMA DuplicateKept ==
    ASSUME NoFaults, MInv, NEW t \in Tasks, DispatchDuplicate(t)
    PROVE  StepKept
<1>1. Lands(records, files)
    BY Started, ScheduleLands DEF DispatchDuplicate
<1> QED
    BY <1>1, UnchangedKept

\* A cancelled record is written.
LEMMA CancelledMirrors ==
    ASSUME NoFaults, NEW recs \in [Tasks -> Records], NEW dsk \in [Tasks -> Images],
           Mirrors(recs, dsk), NEW t \in Tasks, NEW f \in Faults,
           NEW rec, rec = CancelledRecord(recs[t]),
           NEW recs2, recs2 = Updated(recs, t, Compacted(rec, f))
    PROVE  /\ recs2 \in [Tasks -> Records] /\ Persisted(dsk, t, rec, f) \in [Tasks -> Images]
           /\ recs2[t].status = "cancelled"
           /\ \A u \in Tasks \ {t} : recs2[u] = recs[u]
           /\ Mirrors(recs2, Persisted(dsk, t, rec, f))
<1>1. rec \in Records /\ rec.status = "cancelled" /\ rec.compacted = FALSE
    BY DEF CancelledRecord, Records, Terminal
<1>2. Compacted(rec, f) \in Records /\ Compacted(rec, f).status = "cancelled"
    BY <1>1, CompactedTyped
<1>3. /\ recs2 \in [Tasks -> Records] /\ recs2[t] = Compacted(rec, f)
      /\ \A u \in Tasks \ {t} : recs2[u] = recs[u]
    BY <1>2 DEF Updated
<1>4. Persisted(dsk, t, rec, f) \in [Tasks -> Images]
    BY <1>1, PersistedTyped
<1>5. rec.status \notin Active
    BY <1>1 DEF Active
<1>6. Mirrors(recs2, Persisted(dsk, t, rec, f))
    BY <1>1, <1>5, WrittenMirrors
<1> QED
    BY <1>2, <1>3, <1>4, <1>6

\* A cancel writes its record.
LEMMA CancelsKept ==
    ASSUME NoFaults, MInv, NEW t \in Tasks, CancelActive(t) \/ CancelWaiting(t)
    PROVE  StepKept
<1> DEFINE s == SessionOf[t]
           rec == CancelledRecord(records[t])
           recs(f) == [records EXCEPT ![t] = Compacted(rec, f)]
           dsk(f) == Persisted(files, t, rec, f)
           lane == Cancelled(lanes[s], t, records[t].seq)
<1>1. \A f \in Faults :
         /\ recs(f) \in [Tasks -> Records] /\ dsk(f) \in [Tasks -> Images]
         /\ recs(f)[t].status = "cancelled"
         /\ \A u \in Tasks \ {t} : recs(f)[u].status = records[u].status
         /\ Mirrors(recs(f), dsk(f))
    <2> SUFFICES ASSUME NEW f \in Faults
                 PROVE  /\ recs(f) \in [Tasks -> Records] /\ dsk(f) \in [Tasks -> Images]
                        /\ recs(f)[t].status = "cancelled"
                        /\ \A u \in Tasks \ {t} : recs(f)[u].status = records[u].status
                        /\ Mirrors(recs(f), dsk(f))
        OBVIOUS
    <2> DEFINE new == recs(f)
    <2>1. rec = CancelledRecord(records[t])
        OBVIOUS
    <2> HIDE DEF rec
    <2>2. new = Updated(records, t, Compacted(rec, f))
        BY ExceptIsUpdated
    <2> HIDE DEF new
    <2>3. /\ new \in [Tasks -> Records] /\ Persisted(files, t, rec, f) \in [Tasks -> Images]
          /\ new[t].status = "cancelled"
          /\ \A u \in Tasks \ {t} : new[u] = records[u]
          /\ Mirrors(new, Persisted(files, t, rec, f))
        BY <2>1, <2>2, Started, CancelledMirrors
    <2> QED
        BY <2>3 DEF new
<1>2. records[t].status # "cancelled"
    BY DEF CancelActive, CancelWaiting, Waiting, Active
<1>3. PICK f \in Faults :
         \/ \E lns, rns : Commit(recs(f), dsk(f), lns, rns)
         \/ /\ s # NoSession
            /\ \E lns, rns : ScheduleNext(NextOnComplete(lane, t), recs(f), dsk(f), lns, rns)
    BY DEF CancelActive, CancelWaiting
<1>4. s # NoSession => NextOnComplete(lane, t) \in Tasks \cup {None}
    <2> SUFFICES ASSUME s # NoSession PROVE NextOnComplete(lane, t) \in Tasks \cup {None}
        OBVIOUS
    <2>1. s \in Sessions /\ records[t].seq \in Nat
        BY ConstantsAssumption, Started DEF Records
    <2>2. lane \in Lanes
        BY <2>1, Started, CancelledTyped
    <2> HIDE DEF lane
    <2> QED
        BY <2>2, CompletedTyped
<1> HIDE DEF recs, dsk, lane
<1>5. Lands(recs(f), dsk(f))
    BY <1>1, <1>3, <1>4, CommitLands, ScheduleNextLands
<1> QED
    BY <1>1, <1>2, <1>5, ChangedKept

\* An answer takes up a task that was not cancelled, or is a late one.
LEMMA AnswerKept ==
    ASSUME NoFaults, MInv, NEW t \in Tasks, Answer(t)
    PROVE  StepKept
<1> DEFINE rec == Resumed(records[t])
           recs == [records EXCEPT ![t] = rec]
<1>1. PICK f \in Faults : Schedule(t, recs, Persisted(files, t, rec, f), lanes, runs)
    BY DEF Answer
<1>2. rec \in Records /\ rec.status = "accepted" /\ rec.compacted = FALSE
    BY Started DEF Resumed, Records, Active
<1> HIDE DEF rec
<1>3. Persisted(files, t, rec, f) \in [Tasks -> Images]
    BY <1>2, Started, PersistedTyped
<1>4. /\ recs \in [Tasks -> Records] /\ recs[t] = rec
      /\ \A u \in Tasks \ {t} : recs[u].status = records[u].status
    BY <1>2, Started
<1>5. Mirrors(recs, Persisted(files, t, rec, f))
    BY <1>2, Started, WrittenMirrors, ExceptIsUpdated
<1> HIDE DEF recs
<1>6. Lands(recs, Persisted(files, t, rec, f))
    BY <1>1, <1>3, <1>4, <1>5, ScheduleLands
<1>7. records[t].status # "cancelled" \/ LateAnswers
    BY DEF Answer
<1> QED
    BY <1>2, <1>4, <1>6, <1>7, ChangedKept DEF Active

-----------------------------------------------------------------------------
(* The background coroutines                                               *)

\* A coroutine that starts writes that its task runs.
LEMMA StartKept ==
    ASSUME NoFaults, MInv, NEW r \in Slots, BgStart(r)
    PROVE  StepKept
<1> DEFINE t == runs[r].task
           rec == [records[t] EXCEPT !.status = "running", !.attempt = r]
           recs == [records EXCEPT ![t] = rec]
<1>1. t \in Tasks /\ records[t].status = "accepted"
    BY DEF MInv, IInv, Good, RunsSane, Owned, Uncancelled, BgStart
<1>2. PICK f \in Faults : records' = recs /\ files' = Persisted(files, t, rec, f)
    BY <1>1 DEF BgStart, Commit, Active
<1>3. rec \in Records /\ rec.status = "running" /\ rec.compacted = FALSE
    <2>1. records[t] \in Records /\ records[t].compacted = FALSE
        BY <1>1, Started DEF Active, Mirrors
    <2> QED
        BY <2>1 DEF Records, Active
<1> HIDE DEF rec
<1>4. Mirrors(recs, Persisted(files, t, rec, f))
    BY <1>1, <1>3, Started, WrittenMirrors, ExceptIsUpdated
<1>5. /\ recs[t] = rec
      /\ \A u \in Tasks \ {t} : recs[u].status = records[u].status
    BY <1>1, Started
<1>6. Lands(recs, Persisted(files, t, rec, f))
    BY <1>2, <1>4 DEF Lands, Settled
<1> QED
    BY ZenonT(60), <1>1, <1>3, <1>5, <1>6, ChangedKept DEF Active

\* A coroutine that is over changes no record but its reference.
LEMMA DetachedMirrors ==
    ASSUME MInv, NEW r \in Slots
    PROVE  /\ Detached(records, r) \in [Tasks -> Records]
           /\ Mirrors(Detached(records, r), files)
           /\ \A t \in Tasks : /\ Detached(records, r)[t].status = records[t].status
                               /\ Detached(records, r)[t].attempt = records[t].attempt
                               /\ Detached(records, r)[t].compacted = records[t].compacted
<1>1. \A t \in Tasks : /\ Detached(records, r)[t] \in Records
                      /\ Detached(records, r)[t].status = records[t].status
                      /\ Detached(records, r)[t].attempt = records[t].attempt
                      /\ Detached(records, r)[t].compacted = records[t].compacted
                      /\ Image(Detached(records, r)[t]) = Image(records[t])
    BY Started DEF Detached, Records, Image
<1>2. Detached(records, r) \in [Tasks -> Records]
    BY <1>1 DEF Detached
<1> QED
    BY <1>1, <1>2, Started DEF Mirrors

\* A coroutine that never starts writes nothing.
LEMMA NeverStartedKept ==
    ASSUME MInv, NEW r \in Slots, BgNeverStarted(r)
    PROVE  StepKept
<1>1. Lands(Detached(records, r), files)
    BY DetachedMirrors, CommitLands DEF BgNeverStarted
<1> QED
    BY <1>1, DetachedMirrors, UnchangedKept

\* A coroutine that unwinds writes that its task was cancelled, or nothing.
LEMMA UnwoundKept ==
    ASSUME NoFaults, MInv, NEW r \in Slots, BgCancelled(r)
    PROVE  StepKept
<1> DEFINE t == runs[r].task
           recs == Detached(records, r)
           rec == CancelledRecord(recs[t])
<1>1. t \in Tasks
    BY DEF MInv, IInv, Good, RunsSane, BgCancelled
<1>2. CASE Finally(t, recs, files, Freed(r))
    <2>1. Lands(recs, files)
        BY <1>1, <1>2, Started, DetachedMirrors, FinallyLands
    <2> QED
        BY <2>1, DetachedMirrors, UnchangedKept
<1>3. ASSUME recs[t].status \in Active, NEW f \in Faults,
             Finally(t, Updated(recs, t, Compacted(rec, f)), Persisted(files, t, rec, f), Freed(r))
      PROVE  StepKept
    <2> DEFINE recs2 == Updated(recs, t, Compacted(rec, f))
    <2>1. /\ recs2 \in [Tasks -> Records] /\ Persisted(files, t, rec, f) \in [Tasks -> Images]
          /\ recs2[t].status = "cancelled"
          /\ \A u \in Tasks \ {t} : recs2[u].status = records[u].status
          /\ Mirrors(recs2, Persisted(files, t, rec, f))
        <3>1. rec = CancelledRecord(recs[t]) /\ recs2 = Updated(recs, t, Compacted(rec, f))
            OBVIOUS
        <3>2. recs \in [Tasks -> Records] /\ Mirrors(recs, files)
            BY DetachedMirrors
        <3>3. \A u \in Tasks : recs[u].status = records[u].status
            BY DetachedMirrors
        <3> HIDE DEF recs, rec, recs2
        <3>4. /\ recs2 \in [Tasks -> Records] /\ Persisted(files, t, rec, f) \in [Tasks -> Images]
              /\ recs2[t].status = "cancelled"
              /\ \A u \in Tasks \ {t} : recs2[u] = recs[u]
              /\ Mirrors(recs2, Persisted(files, t, rec, f))
            BY <1>1, <3>1, <3>2, Started, CancelledMirrors
        <3> QED
            BY <3>3, <3>4
    <2>2. Lands(recs2, Persisted(files, t, rec, f))
        BY <1>1, <1>3, <2>1, Started, FinallyLands
    <2>3. records[t].status # "cancelled"
        BY <1>1, <1>3, DetachedMirrors DEF Active
    <2> HIDE DEF recs2
    <2> QED
        BY <1>1, <2>1, <2>2, <2>3, ChangedKept
<1> QED
    BY <1>2, <1>3 DEF BgCancelled

Rests(rns) == \A q \in Slots : runs'[q].pc = "executing" => rns[q].pc = "executing"

\* What follows the end of a coroutine starts no execution.
LEMMA FinallyRests ==
    ASSUME NEW rns \in [Slots -> Runs], NEW recs, NEW dsk, NEW t, Finally(t, recs, dsk, rns)
    PROVE  Rests(rns)
<1>1. \/ runs' = rns
      \/ \E u, lns : Spawn(u, recs, dsk, lns, rns)
    BY DEF Finally, Complete, ScheduleNext, Schedule, ScheduleInLane, Suppress, Commit
<1>2. ASSUME NEW u, NEW lns, Spawn(u, recs, dsk, lns, rns) PROVE Rests(rns)
    <2>1. PICK r \in Slots :
             runs' = [rns EXCEPT ![r] = [FreeRun EXCEPT !.pc = "spawned", !.task = u]]
        BY <1>2 DEF Spawn, Commit
    <2>2. [FreeRun EXCEPT !.pc = "spawned", !.task = u].pc = "spawned"
        BY DEF FreeRun
    <2> QED
        BY <2>1, <2>2 DEF Rests
<1> QED
    BY SMTT(40), <1>1, <1>2 DEF Rests

\* Only the coroutine that holds the attempt of a running task writes an outcome.
LEMMA EndKept ==
    ASSUME NoFaults, MInv, NEW r \in Slots, NEW status \in {"success", "error", "blocked"},
           NEW pending \in BOOLEAN, BgEnd(r, status, pending)
    PROVE  StepKept
<1> DEFINE t == runs[r].task
           recs == Detached(records, r)
           rec == Ended(recs[t], status, pending, FALSE)
<1>1. t \in Tasks /\ runs[r].attempt = r /\ r # None /\ runs[r].pc = "executing"
    BY ConstantsAssumption DEF MInv, IInv, Good, RunsSane, BgEnd
<1>2. CASE Finally(t, recs, files, Freed(r))
    <2>1. Lands(recs, files)
        BY <1>1, <1>2, Started, DetachedMirrors, FinallyLands
    <2> QED
        BY <2>1, DetachedMirrors, UnchangedKept
<1>3. ASSUME TakesTerminal(recs[t], status, runs[r].attempt), NEW f \in Faults,
             LET recs2 == Updated(recs, t, Compacted(rec, f)) IN
             Finally(t, Pruned(recs2), PrunedFiles(recs2, Persisted(files, t, rec, f)), Freed(r))
      PROVE  StepKept
    <2> DEFINE recs2 == Updated(recs, t, Compacted(rec, f))
               last == Pruned(recs2)
               dsk == Persisted(files, t, rec, f)
    <2>1. records[t].attempt = r /\ records[t].status = "running"
        <3>1. records[t].attempt = r
            BY <1>1, <1>3, DetachedMirrors DEF TakesTerminal
        <3> QED
            BY <1>1, <3>1 DEF MInv, IInv, Good, RecordsSane
    <2>2. rec \in Records /\ rec.status = status /\ rec.compacted = FALSE
        <3>1. recs[t] \in Records /\ recs[t].compacted = FALSE
            BY <1>1, <2>1, DetachedMirrors, Started DEF Mirrors, Active
        <3> QED
            BY <3>1 DEF Ended, Records, Terminal
    <2>3. Finally(t, last, PrunedFiles(recs2, dsk), Freed(r))
        BY <1>3
    <2> HIDE DEF rec, recs
    <2>4. /\ Compacted(rec, f) \in Records /\ Compacted(rec, f).status = status
          /\ dsk \in [Tasks -> Images]
        BY <1>1, <2>2, Started, CompactedTyped, PersistedTyped
    <2>5. recs \in [Tasks -> Records] /\ Mirrors(recs, files)
          /\ \A u \in Tasks : recs[u].status = records[u].status
        BY DetachedMirrors DEF recs
    <2>6. Mirrors(recs2, dsk)
        BY <1>1, <2>2, <2>5, Started, WrittenMirrors DEF Active
    <2>7. /\ recs2 \in [Tasks -> Records]
          /\ \A u \in Tasks \ {t} : recs2[u] = recs[u]
        BY <2>4, <2>5 DEF Updated
    <2> HIDE DEF recs2, dsk
    <2>8. /\ last \in [Tasks -> Records] /\ PrunedFiles(recs2, dsk) \in [Tasks -> Images]
          /\ Mirrors(last, PrunedFiles(recs2, dsk))
          /\ \A u \in Tasks : last[u] = recs2[u] \/ last[u].status = "absent"
        BY <2>4, <2>6, <2>7, PrunedTyped, PrunedMirrors, PrunedStatus
    <2> HIDE DEF last
    <2>9. Lands(last, PrunedFiles(recs2, dsk))
        BY <1>1, <2>3, <2>8, Started, FinallyLands
    <2>10. runs'[r].pc # "executing"
        <3>1. Freed(r) \in [Slots -> Runs] /\ Freed(r)[r].pc = "free"
            BY DEF Freed, FreeRun, Runs, MInv, IInv, Good, Typed
        <3> QED
            BY <2>3, <3>1, FinallyRests DEF Rests
    <2>11. \A u \in Tasks \ {t} :
              \/ records'[u].status = records[u].status
              \/ records'[u].status = "absent"
              \/ records'[u].status = "stale" /\ records[u].status \in Active
        BY <2>5, <2>7, <2>8, <2>9, StatusFacts DEF Lands, Settled
    <2>12. OutcomeOwned
        BY <1>1, <2>1, <2>10, <2>11 DEF OutcomeOwned
    <2>13. CancelKept
        BY <2>1, <2>11 DEF CancelKept, Active
    <2> QED
        BY <2>9, <2>12, <2>13 DEF StepKept, Lands
<1> QED
    BY <1>2, <1>3 DEF BgEnd

-----------------------------------------------------------------------------
(* The end of the process                                                  *)

\* A startup has every record before it that was in memory.
LEMMA LoadsAll ==
    ASSUME AllLoaded, NEW L \in LoadSets
    PROVE  L = OnDisk
<1>1. OnDisk \subseteq Tasks /\ IsFiniteSet(Tasks)
    BY DEF OnDisk, AllLoaded
<1>2. /\ IsFiniteSet(OnDisk) /\ Cardinality(OnDisk) \in Nat
      /\ Cardinality(Tasks) \in Nat /\ Cardinality(OnDisk) <= Cardinality(Tasks)
    BY <1>1, FS_Subset, FS_CardinalityType
<1>3. L \subseteq OnDisk /\ Cardinality(L) = Cardinality(OnDisk)
    BY <1>2, ConstantsAssumption DEF LoadSets, AllLoaded
<1> QED
    BY <1>2, <1>3, FS_Subset

\* The records a startup has read are those in memory before it.
LEMMA LoadedMirrors ==
    ASSUME AllLoaded, MInv, NEW L \in LoadSets
    PROVE  /\ Loaded(L) \in [Tasks -> Records]
           /\ Mirrors(Loaded(L), files)
           /\ \A t \in Tasks : Loaded(L)[t].status = records[t].status
<1>1. L = OnDisk
    BY LoadsAll
<1>2. Absent.status = "absent" /\ Absent \in Records /\ NoFile = Image(Absent)
    BY AbsentTyped DEF Absent, NoFile
<1>3. ASSUME NEW t \in Tasks, t \in L
      PROVE  /\ Loaded(L)[t] \in Records /\ Image(Loaded(L)[t]) = files[t]
             /\ Loaded(L)[t].status = records[t].status /\ Loaded(L)[t].status # "absent"
             /\ Loaded(L)[t].status \in Active => Loaded(L)[t].compacted = FALSE
    <2>1. files[t] \in Images /\ files[t].status # "absent" /\ files[t] = Image(records[t])
        BY <1>1, <1>3, Started DEF OnDisk, Mirrors
    <2>2. files[t].status = records[t].status
        BY <2>1 DEF Image
    <2> DEFINE terminal == files[t].status \in Terminal
    <2>3. Loaded(L)[t] = [status |-> files[t].status, seq |-> files[t].seq,
              delivery |-> files[t].delivery, bg |-> None, attempt |-> None,
              pending |-> files[t].pending, compacted |-> terminal,
              restartStale |-> files[t].restartStale]
        BY <1>3 DEF Loaded
    <2>4. terminal \in BOOLEAN /\ (files[t].status \in Active => terminal = FALSE)
        BY StatusFacts
    <2> HIDE DEF terminal
    <2>5. Loaded(L)[t] \in Records
        BY <2>1, <2>3, <2>4 DEF Images, Records
    <2>6. Image(Loaded(L)[t]) = files[t]
        BY <2>1, <2>3 DEF Image
    <2> QED
        BY <2>1, <2>2, <2>3, <2>4, <2>5, <2>6
<1>4. ASSUME NEW t \in Tasks, t \notin L
      PROVE  Loaded(L)[t] = Absent /\ files[t] = NoFile /\ records[t].status = "absent"
    <2>1. files[t].status = "absent" /\ files[t] = Image(records[t])
        BY <1>1, <1>4, Started DEF OnDisk, Mirrors
    <2>2. records[t].status = "absent"
        BY <2>1 DEF Image
    <2> QED
        BY <1>4, <2>2, Started DEF Loaded, Mirrors
<1>5. Loaded(L) \in [Tasks -> Records]
    BY <1>2, <1>3, <1>4 DEF Loaded
<1> QED
    BY <1>2, <1>3, <1>4, <1>5, StatusFacts DEF Mirrors

\* A startup makes the active records stale, and writes them.
LEMMA RestartKept ==
    ASSUME NoFaults, AllLoaded, MInv, Restart
    PROVE  StepKept
<1> DEFINE loaded(L) == Pruned(Loaded(L))
           onDisk(L) == PrunedFiles(Loaded(L), files)
           stale(L, t) == StaleOnRestart(loaded(L)[t])
           recs(L, fault) == [t \in Tasks |->
               IF loaded(L)[t].status \in Active THEN Compacted(stale(L, t), fault[t])
               ELSE loaded(L)[t]]
           dsk(L, fault) == [t \in Tasks |->
               IF loaded(L)[t].status \in Active
               THEN Persisted(onDisk(L), t, stale(L, t), fault[t])[t]
               ELSE onDisk(L)[t]]
<1>1. PICK L \in LoadSets, fault \in ReconcileFaults :
         records' = Pruned(recs(L, fault)) /\ files' = PrunedFiles(recs(L, fault), dsk(L, fault))
    BY DEF Restart
<1>2. /\ loaded(L) \in [Tasks -> Records] /\ onDisk(L) \in [Tasks -> Images]
      /\ Mirrors(loaded(L), onDisk(L))
      /\ \A t \in Tasks : \/ loaded(L)[t].status = records[t].status
                          \/ loaded(L)[t].status = "absent"
    BY Started, LoadedMirrors, PrunedTyped, PrunedMirrors, PrunedStatus
<1> HIDE DEF loaded, onDisk
<1>3. ASSUME NEW t \in Tasks, loaded(L)[t].status \in Active
      PROVE  /\ recs(L, fault)[t] \in Records /\ recs(L, fault)[t].status = "stale"
             /\ dsk(L, fault)[t] \in Images /\ dsk(L, fault)[t] = Image(recs(L, fault)[t])
    <2> DEFINE rec == stale(L, t)
    <2>1. loaded(L)[t] \in Records /\ loaded(L)[t].compacted = FALSE
        BY <1>2, <1>3 DEF Mirrors
    <2>2. rec \in Records /\ rec.status = "stale" /\ rec.compacted = FALSE
        BY <2>1 DEF StaleOnRestart, Ended, Records, Terminal
    <2>3. fault[t] = "none"
        BY DEF ReconcileFaults, NoFaults
    <2>4. recs(L, fault)[t] = Compacted(rec, fault[t])
          /\ dsk(L, fault)[t] = Persisted(onDisk(L), t, rec, fault[t])[t]
        BY <1>3
    <2> HIDE DEF rec, recs, dsk
    <2>5. Persisted(onDisk(L), t, rec, fault[t])[t] = Image(rec)
        BY <1>2, <2>2, <2>3 DEF Persisted, Updated
    <2>6. Image(Compacted(rec, fault[t])) = Image(rec)
        BY <2>2 DEF Compacted, Image, Records
    <2> QED
        BY <2>2, <2>4, <2>5, <2>6, CompactedTyped, ImageTyped
<1>4. ASSUME NEW t \in Tasks, loaded(L)[t].status \notin Active
      PROVE  recs(L, fault)[t] = loaded(L)[t] /\ dsk(L, fault)[t] = onDisk(L)[t]
    BY <1>4
<1>5. /\ recs(L, fault) \in [Tasks -> Records] /\ dsk(L, fault) \in [Tasks -> Images]
    <2>1. \A t \in Tasks : recs(L, fault)[t] \in Records /\ dsk(L, fault)[t] \in Images
        <3> HIDE DEF recs, dsk
        <3> QED
            BY <1>2, <1>3, <1>4
    <2> QED
        BY <2>1
<1> HIDE DEF recs, dsk
<1>6. Mirrors(recs(L, fault), dsk(L, fault))
    BY <1>2, <1>3, <1>4 DEF Mirrors, Active
<1>7. Mirrors(records', files')
    BY <1>1, <1>5, <1>6, PrunedMirrors
<1>8. \A t \in Tasks : \/ records'[t].status = recs(L, fault)[t].status
                       \/ records'[t].status = "absent"
    BY <1>1, <1>5, PrunedStatus
<1>9. NoOutcome
    <2> SUFFICES ASSUME NEW t \in Tasks
                 PROVE  \/ records'[t].status = records[t].status
                        \/ records'[t].status = "absent"
                        \/ records'[t].status = "stale" /\ records[t].status # "cancelled"
        BY DEF NoOutcome
    <2>1. CASE loaded(L)[t].status \in Active
        BY <1>2, <1>3, <1>8, <2>1 DEF Active
    <2>2. CASE loaded(L)[t].status \notin Active
        BY <1>2, <1>4, <1>8, <2>2
    <2> QED
        BY <2>1, <2>2
<1> QED
    BY <1>7, <1>9, NoOutcomeKept

-----------------------------------------------------------------------------
(* The theorems                                                            *)

\* At first there is no record and no file.
LEMMA InitMInv == Init => MInv
<1> SUFFICES ASSUME Init PROVE MInv
    OBVIOUS
<1>1. Absent.status \notin Active
    BY StatusFacts DEF Absent
<1>2. Mirrors(records, files)
    BY <1>1 DEF Init, Mirrors, NoFile
<1> QED
    BY <1>2, InitIInv DEF MInv

\* Every step keeps the invariant and changes a status only as the properties allow.
LEMMA NextMInv ==
    ASSUME NoFaults, AllLoaded, MInv, [Next]_vars
    PROVE  MInv' /\ StepKept
<1>1. ASSUME records' = records /\ files' = files PROVE StepKept
    BY <1>1, Started DEF StepKept, OutcomeOwned, CancelKept, Mirrors
<1>2. ASSUME NEW t \in Tasks, Handler(t) PROVE StepKept
    <2>1. Requested \subseteq Deliveries
        BY ConstantsAssumption
    <2> QED
        BY <1>2, <2>1, DispatchesKept, DuplicateKept, CancelsKept, AnswerKept DEF Handler
<1>3. ASSUME NEW r \in Slots, Step(r) PROVE StepKept
    <2>1. Outcomes \ {"waiting"} \subseteq {"success", "error", "blocked"}
        BY ConstantsAssumption
    <2> QED
        BY <1>3, <2>1, StartKept, EndKept, UnwoundKept, NeverStartedKept DEF Step, BgResult
<1>4. ASSUME Shutdown \/ UNCHANGED vars PROVE StepKept
    BY <1>1, <1>4 DEF Shutdown, vars
<1>5. ASSUME Restart PROVE StepKept
    BY <1>5, RestartKept
<1>6. StepKept
    BY <1>2, <1>3, <1>4, <1>5 DEF Next
<1>7. IInv'
    BY NextIInv DEF MInv
<1> QED
    BY <1>6, <1>7 DEF MInv, StepKept

\* The invariant holds.
LEMMA MInvHolds ==
    ASSUME NoFaults, AllLoaded
    PROVE  Spec => []MInv
<1>1. MInv /\ [Next]_vars => MInv'
    BY NextMInv
<1> QED
    BY <1>1, InitMInv, PTL DEF Spec

\* While no write fails, a crash at any moment would leave on disk what memory holds, and a
\* startup brings it back the same.
THEOREM DiskIsCurrent ==
    ASSUME NoFaults, AllLoaded
    PROVE  Spec => []DiskMirrorsRecords
<1>1. MInv => DiskMirrorsRecords
    BY DEF MInv, Mirrors, DiskMirrorsRecords
<1> QED
    BY <1>1, MInvHolds, PTL

\* An outcome is written by the coroutine that holds the current attempt of a running task,
\* however many were cancelled before it, and whatever a restart brings back.
THEOREM OutcomesAreOwn ==
    ASSUME NoFaults, AllLoaded
    PROVE  Spec => OutcomeByCurrentRun
<1>1. MInv /\ [Next]_vars => [OutcomeOwned]_vars
    BY NextMInv DEF StepKept
<1> QED
    BY <1>1, MInvHolds, PTL DEF Spec, OutcomeByCurrentRun, OutcomeOwned

\* When the Portal answers no card of a task it cancelled, a cancelled task stays cancelled.
THEOREM CancelStays ==
    ASSUME NoFaults, AllLoaded, LateAnswers = FALSE
    PROVE  Spec => CancelledIsFinal
<1>1. MInv /\ [Next]_vars => [CancelKept]_vars
    BY NextMInv DEF StepKept
<1> QED
    BY <1>1, MInvHolds, PTL DEF Spec, CancelledIsFinal, CancelKept

-----------------------------------------------------------------------------
(* Lanes: who holds one, and what is known of the tasks that wait in it.   *)

\* A task that runs or waits for the user has its session to itself.
Holds(rec) == Waiting(rec) \/ rec.status = "running"

\* The tasks in the lane of a session are its own, and none was admitted again since it
\* was put there unless its record was gone.
LaneKnown(s, recs, lane, n) ==
    \A e \in lane.pending :
        /\ e.seq < n /\ SessionOf[e.task] = s
        /\ recs[e.task].status # "absent" => e.seq <= recs[e.task].seq

Placed(recs, lns, n) ==
    /\ recs \in [Tasks -> Records] /\ lns \in [Sessions -> Lanes] /\ n \in Nat \ {0}
    /\ \A t \in Tasks : SessionOf[t] # NoSession /\ Holds(recs[t])
                        => lns[SessionOf[t]].active = t
    /\ \A s \in Sessions : LaneKnown(s, recs, lns[s], n)
    /\ \A t \in Tasks : /\ recs[t].seq < n
                        /\ recs[t].status = "running" => BgLive(recs[t])

\* Every task of lane2 was in lane, admitted when it was.
Shrinks(lane2, lane) ==
    \A e \in lane2.pending : \E f \in lane.pending : f.task = e.task /\ f.seq = e.seq

\* The interrupt of a lane was kept, or forgotten with the lane.
Eases(lane2, lane) == lane2.interrupt \in {0, lane.interrupt}

\* What is known of a lane is known of what is left of it.
LEMMA ShrunkKnown ==
    ASSUME NEW s, NEW recs, NEW n, NEW lane, NEW lane2,
           LaneKnown(s, recs, lane, n), Shrinks(lane2, lane)
    PROVE  LaneKnown(s, recs, lane2, n)
BY DEF LaneKnown, Shrinks

\* The entries of a dictionary from which some were taken.
LEMMA InOrderShrinks ==
    ASSUME NEW E \in SUBSET Entries
    PROVE  \A e \in InOrder(E) : \E f \in E : f.task = e.task /\ f.seq = e.seq
BY DEF InOrder, Entries

\* Taking a task out of a lane.
LEMMA WithoutShrinks ==
    ASSUME NEW lane \in Lanes, NEW t
    PROVE  Shrinks(Without(lane, t), lane) /\ Without(lane, t).interrupt = lane.interrupt
<1> DEFINE E == {e \in lane.pending : e.task # t}
<1>1. E \in SUBSET Entries /\ E \subseteq lane.pending
    BY DEF Lanes
<1>2. Without(lane, t).pending = InOrder(E) /\ Without(lane, t).interrupt = lane.interrupt
    BY DEF Without, Lanes
<1> HIDE DEF E
<1>3. \A e \in InOrder(E) : \E f \in E : f.task = e.task /\ f.seq = e.seq
    BY <1>1, InOrderShrinks
<1> QED
    BY <1>1, <1>2, <1>3 DEF Shrinks

\* Forgetting an empty lane.
LEMMA DroppedShrinks ==
    ASSUME NEW lane \in Lanes
    PROVE  Shrinks(Dropped(lane), lane) /\ Eases(Dropped(lane), lane)
BY DEF Dropped, Fresh, Shrinks, Eases

\* Giving a lane to a task.
LEMMA ActivatedShrinks ==
    ASSUME NEW lane \in Lanes, NEW t \in Tasks
    PROVE  Shrinks(Activated(lane, t), lane) /\ Activated(lane, t).interrupt = lane.interrupt
<1>1. Without(lane, t) \in Lanes
    BY WithoutTyped
<1>2. /\ Activated(lane, t).pending = Without(lane, t).pending
      /\ Activated(lane, t).interrupt = Without(lane, t).interrupt
    BY <1>1 DEF Activated, Lanes
<1> QED
    BY <1>2, WithoutShrinks DEF Shrinks

\* promote_next: a task of the lane that no interrupt suppresses.
LEMMA PromotedShrinks ==
    ASSUME NEW lane \in Lanes
    PROVE  /\ Shrinks(PromotedNext(lane), lane) /\ PromotedNext(lane).interrupt = lane.interrupt
           /\ Promoted(lane) # None =>
                 /\ PromotedNext(lane).active = Promoted(lane)
                 /\ \E e \in lane.pending : e.task = Promoted(lane) /\ AfterInterrupt(lane, e.seq)
<1> DEFINE rest == [lane EXCEPT !.pending = InOrder(Surviving(lane))]
<1>1. Surviving(lane) \in SUBSET Entries /\ Surviving(lane) \subseteq lane.pending
    BY DEF Surviving, Lanes
<1>2. InOrder(Surviving(lane)) \in SUBSET Entries
    BY <1>1, PendingTyped
<1>3. rest \in Lanes /\ rest.interrupt = lane.interrupt /\ Shrinks(rest, lane)
    BY <1>1, <1>2, InOrderShrinks DEF Lanes, Shrinks
<1>4. Candidates(lane) \subseteq Surviving(lane)
    BY DEF Candidates, Earliest
<1>5. CASE Candidates(lane) = {}
    BY <1>3, <1>5 DEF Promoted, PromotedNext
<1>6. CASE Candidates(lane) # {}
    <2>1. PICK e \in Candidates(lane) : Promoted(lane) = e.task
        BY <1>6 DEF Promoted
    <2>2. e \in lane.pending /\ AfterInterrupt(lane, e.seq) /\ e.task \in Tasks
        BY <1>1, <1>4 DEF Surviving, Entries
    <2>3. Promoted(lane) \in Tasks /\ Promoted(lane) # None
        BY <2>1, <2>2, NoneAssumption
    <2>4. PromotedNext(lane) = Activated(rest, Promoted(lane))
        BY <2>3 DEF PromotedNext
    <2> HIDE DEF rest
    <2>5. /\ Shrinks(PromotedNext(lane), rest)
          /\ PromotedNext(lane).interrupt = lane.interrupt
          /\ PromotedNext(lane).active = Promoted(lane)
        BY <1>3, <2>3, <2>4, ActivatedShrinks, ActivatedTyped
    <2>6. Shrinks(PromotedNext(lane), lane)
        BY <1>3, <2>5 DEF Shrinks
    <2> QED
        BY <2>1, <2>2, <2>5, <2>6
<1> QED
    BY <1>5, <1>6

\* complete(): the task it returns owns the lane, and its entry came after the interrupt.
LEMMA CompletedShrinks ==
    ASSUME NEW lane \in Lanes, NEW t \in Tasks
    PROVE  /\ Shrinks(Completed(lane, t), lane) /\ Eases(Completed(lane, t), lane)
           /\ NextOnComplete(lane, t) # None =>
                 /\ Completed(lane, t).active = NextOnComplete(lane, t)
                 /\ lane.active = t
                 /\ \E e \in lane.pending : /\ e.task = NextOnComplete(lane, t)
                                            /\ AfterInterrupt(lane, e.seq)
<1> DEFINE free == Released(lane)
<1>1. free \in Lanes /\ free.pending = lane.pending /\ free.interrupt = lane.interrupt
    BY DEF Released, Lanes
<1>2. CASE lane.active # t
    <2>1. Without(lane, t) \in Lanes
        BY WithoutTyped
    <2> QED
        BY <1>2, <2>1, WithoutShrinks, DroppedShrinks
           DEF Completed, NextOnComplete, Shrinks, Eases
<1>3. CASE lane.active = t
    <2> DEFINE next == PromotedNext(free)
    <2>1. Completed(lane, t) = Dropped(next) /\ NextOnComplete(lane, t) = Promoted(free)
        BY <1>3 DEF Completed, NextOnComplete
    <2> HIDE DEF free
    <2>2. next \in Lanes
        BY <1>1, PromotedTyped
    <2>3. /\ Shrinks(next, free) /\ next.interrupt = free.interrupt
          /\ Promoted(free) # None =>
                /\ next.active = Promoted(free)
                /\ \E e \in free.pending : e.task = Promoted(free) /\ AfterInterrupt(free, e.seq)
        BY <1>1, PromotedShrinks
    <2> HIDE DEF next
    <2>4. /\ Shrinks(Dropped(next), next) /\ Eases(Dropped(next), next)
          /\ Dropped(next).active = next.active
        BY <2>2, DroppedShrinks, DroppedTyped
    <2> QED
        BY <1>1, <1>3, <2>1, <2>3, <2>4 DEF Shrinks, Eases, AfterInterrupt
<1> QED
    BY <1>2, <1>3

\* cancel() and hold_for_user_input() put nothing into a lane.
LEMMA CancelledShrinks ==
    ASSUME NEW lane \in Lanes, NEW t \in Tasks, NEW seq \in Nat
    PROVE  /\ Shrinks(Cancelled(lane, t, seq), lane)
           /\ Shrinks(HeldForUserInput(lane, t), lane)
           /\ Eases(HeldForUserInput(lane, t), lane)
<1>1. Shrinks(HeldForUserInput(lane, t), lane) /\ Eases(HeldForUserInput(lane, t), lane)
    BY DEF HeldForUserInput, Shrinks, Eases, Lanes
<1>2. CASE lane.active = t
    <2> DEFINE E == {e \in lane.pending : e.seq > seq}
    <2>1. E \in SUBSET Entries /\ E \subseteq lane.pending
        BY DEF Lanes
    <2>2. Cancelled(lane, t, seq).pending = InOrder(E)
        BY <1>2 DEF Cancelled, Lanes
    <2> HIDE DEF E
    <2>3. \A e \in InOrder(E) : \E f \in E : f.task = e.task /\ f.seq = e.seq
        BY <2>1, InOrderShrinks
    <2> QED
        BY <1>1, <2>1, <2>2, <2>3 DEF Shrinks
<1>3. CASE lane.active # t
    <2>1. Without(lane, t) \in Lanes
        BY WithoutTyped
    <2> QED
        BY <1>1, <1>3, <2>1, WithoutShrinks, DroppedShrinks DEF Cancelled, Shrinks
<1> QED
    BY <1>2, <1>3

\* Giving a free lane to the task that waits.
LEMMA RehydratedShrinks ==
    ASSUME NEW recs \in [Tasks -> Records], NEW s, NEW lane \in Lanes
    PROVE  Shrinks(Rehydrated(s, recs, lane), lane) /\ Eases(Rehydrated(s, recs, lane), lane)
<1> DEFINE first == {t \in WaitingIn(s, recs) :
                       \A u \in WaitingIn(s, recs) : recs[t].seq <= recs[u].seq}
           w == CHOOSE t \in first : TRUE
           next == Scheduled(lane, w, recs[w].seq, recs[w].delivery)
<1>1. first \in SUBSET Tasks
    BY DEF WaitingIn
<1>2. CASE lane.active # None \/ first = {}
    BY <1>2 DEF Rehydrated, Shrinks, Eases
<1>3. CASE ~(lane.active # None \/ first = {})
    <2>1. w \in Tasks
        BY <1>1, <1>3
    <2>2. recs[w].seq \in Nat /\ recs[w].delivery \in Deliveries
        BY <2>1 DEF Records
    <2>3. Rehydrated(s, recs, lane) = HeldForUserInput(next, w)
        BY <1>3 DEF Rehydrated
    <2>4. next = Activated(lane, w) \/ next = lane
        BY <1>3 DEF Scheduled, ScheduleDecision
    <2> HIDE DEF w, next
    <2>5. next \in Lanes /\ Shrinks(next, lane) /\ next.interrupt = lane.interrupt
        BY <2>1, <2>4, ActivatedTyped, ActivatedShrinks DEF Shrinks
    <2>6. Shrinks(HeldForUserInput(next, w), next) /\ Eases(HeldForUserInput(next, w), next)
        BY <2>1, <2>2, <2>5, CancelledShrinks
    <2> QED
        BY <2>3, <2>5, <2>6 DEF Shrinks, Eases
<1> QED
    BY SMTT(40), <1>2, <1>3

\* The reconciliation of a lane.
LEMMA ReconciledShrinks ==
    ASSUME NEW recs \in [Tasks -> Records], NEW s, NEW lane \in Lanes
    PROVE  Shrinks(Reconciled(s, recs, lane), lane) /\ Eases(Reconciled(s, recs, lane), lane)
<1>1. Shrinks(lane, lane) /\ Eases(lane, lane)
    BY DEF Shrinks, Eases
<1>2. Shrinks(Rehydrated(s, recs, lane), lane) /\ Eases(Rehydrated(s, recs, lane), lane)
    BY RehydratedShrinks
<1>3. Shrinks(Rehydrated(s, recs, Fresh), lane) /\ Eases(Rehydrated(s, recs, Fresh), lane)
    <2>1. Fresh \in Lanes /\ Fresh.pending = {} /\ Fresh.interrupt = 0
        BY DEF Fresh, Lanes
    <2> QED
        BY <2>1, RehydratedShrinks DEF Shrinks, Eases
<1>4. lane.active \in Tasks =>
         Shrinks(Completed(lane, lane.active), lane) /\ Eases(Completed(lane, lane.active), lane)
    BY CompletedShrinks
<1>5. lane.active \in Tasks \cup {None}
    BY DEF Lanes
<1> QED
    BY <1>1, <1>2, <1>3, <1>4, <1>5 DEF Reconciled

\* schedule() of a task puts it into the lane of its session.
LEMMA ScheduledKnown ==
    ASSUME NEW recs, NEW s, NEW n, NEW lane \in Lanes, NEW t \in Tasks, NEW d,
           SessionOf[t] = s, recs[t].seq < n, recs[t].seq \in Nat, LaneKnown(s, recs, lane, n)
    PROVE  LaneKnown(s, recs, Scheduled(lane, t, recs[t].seq, d), n)
<1> DEFINE seq == recs[t].seq
<1>1. LaneKnown(s, recs, Activated(lane, t), n)
    BY ActivatedShrinks, ShrunkKnown
<1>2. LaneKnown(s, recs, Enqueued(lane, t, seq, d), n)
    BY DEF Enqueued, LaneKnown, Lanes
<1> HIDE DEF seq
<1>3. Scheduled(lane, t, seq, d) \in {Activated(lane, t), Enqueued(lane, t, seq, d), lane}
    BY DEF Scheduled
<1> QED
    BY <1>1, <1>2, <1>3 DEF seq

-----------------------------------------------------------------------------
(* Holding a lane, through the tails of the handlers.                      *)

\* The phase of a task, by its record.
LEMMA PhaseFacts ==
    ASSUME NEW rec \in Records
    PROVE  /\ Phase(rec) \in {"idle", "ready", "executing", "parked", "settled"}
           /\ Phase(rec) = "idle" <=> rec.status = "absent"
           /\ Phase(rec) = "ready" <=> rec.status = "accepted"
           /\ Phase(rec) = "executing" <=> rec.status = "running"
           /\ Phase(rec) = "parked" <=> Waiting(rec)
BY DEF Phase, Waiting

\* A record that is gone holds nothing.
LEMMA AbsentFacts ==
    /\ Absent \in Records /\ Absent.status = "absent" /\ Absent.seq = 0 /\ ~Holds(Absent)
    /\ Phase(Absent) = "idle"
BY AbsentTyped DEF Absent, Holds, Waiting, Phase

\* prune() takes no record of a task that holds a lane.
LEMMA PlacedPruned ==
    ASSUME NEW n, NEW recs, NEW lns, Placed(recs, lns, n)
    PROVE  Placed(Pruned(recs), lns, n)
<1>1. /\ Pruned(recs) \in [Tasks -> Records]
      /\ \A t \in Tasks : Pruned(recs)[t] \in {recs[t], Absent}
    BY AbsentFacts DEF Pruned, Placed
<1>2. \A s \in Sessions : LaneKnown(s, Pruned(recs), lns[s], n)
    <2> SUFFICES ASSUME NEW s \in Sessions, NEW e \in lns[s].pending
                 PROVE  /\ e.seq < n /\ SessionOf[e.task] = s
                        /\ Pruned(recs)[e.task].status # "absent" => e.seq <= Pruned(recs)[e.task].seq
        BY DEF LaneKnown
    <2>1. e.task \in Tasks
        BY DEF Placed, Lanes, Entries
    <2> QED
        BY <1>1, <2>1, AbsentFacts DEF Placed, LaneKnown
<1>3. \A t \in Tasks :
         /\ SessionOf[t] # NoSession /\ Holds(Pruned(recs)[t]) => lns[SessionOf[t]].active = t
         /\ Pruned(recs)[t].seq < n
         /\ Pruned(recs)[t].status = "running" => BgLive(Pruned(recs)[t])
    <2> SUFFICES ASSUME NEW t \in Tasks
                 PROVE  /\ SessionOf[t] # NoSession /\ Holds(Pruned(recs)[t])
                           => lns[SessionOf[t]].active = t
                        /\ Pruned(recs)[t].seq < n
                        /\ Pruned(recs)[t].status = "running" => BgLive(Pruned(recs)[t])
        OBVIOUS
    <2>1. CASE Pruned(recs)[t] = recs[t]
        BY <2>1 DEF Placed
    <2>2. CASE Pruned(recs)[t] = Absent
        <3>1. 0 < n
            BY DEF Placed
        <3> QED
            BY <2>2, <3>1, AbsentFacts
    <2> QED
        BY <1>1, <2>1, <2>2
<1> QED
    BY <1>1, <1>2, <1>3 DEF Placed

\* The record of a task changes: it holds its lane if it is to, and the entries of the
\* task were made before its admission.
LEMMA PlacedChanged ==
    ASSUME NEW n, NEW recs, NEW lns, Placed(recs, lns, n), NEW t \in Tasks,
           NEW recs2 \in [Tasks -> Records], NEW n2 \in Nat \ {0}, n <= n2,
           \A u \in Tasks \ {t} : recs2[u] = recs[u], recs2[t].seq < n2,
           recs2[t].status = "running" => BgLive(recs2[t]),
           SessionOf[t] # NoSession /\ Holds(recs2[t]) => lns[SessionOf[t]].active = t,
           \/ recs2[t].status = "absent"
           \/ recs2[t].seq >= n
           \/ recs[t].status # "absent" /\ recs2[t].seq = recs[t].seq
    PROVE  Placed(recs2, lns, n2)
<1>1. \A s \in Sessions : LaneKnown(s, recs2, lns[s], n2)
    <2> SUFFICES ASSUME NEW s \in Sessions, NEW e \in lns[s].pending
                 PROVE  /\ e.seq < n2 /\ SessionOf[e.task] = s
                        /\ recs2[e.task].status # "absent" => e.seq <= recs2[e.task].seq
        BY DEF LaneKnown
    <2>1. e.task \in Tasks /\ e.seq \in Nat
        BY DEF Placed, Lanes, Entries
    <2>2. /\ e.seq < n /\ SessionOf[e.task] = s
          /\ recs[e.task].status # "absent" => e.seq <= recs[e.task].seq
        BY DEF Placed, LaneKnown
    <2>3. n \in Nat /\ recs2[t].seq \in Nat
        BY DEF Placed, Records
    <2>4. CASE e.task # t
        BY <2>1, <2>2, <2>3, <2>4 DEF Placed
    <2>5. CASE e.task = t
        BY <2>1, <2>2, <2>3, <2>5 DEF Placed
    <2> QED
        BY <2>4, <2>5
<1>2. \A u \in Tasks : recs[u].seq \in Nat /\ recs[u].seq < n /\ n \in Nat
    BY DEF Placed, Records
<1>3. ASSUME NEW u \in Tasks
      PROVE  /\ recs2[u].seq < n2
             /\ recs2[u].status = "running" => BgLive(recs2[u])
             /\ SessionOf[u] # NoSession /\ Holds(recs2[u]) => lns[SessionOf[u]].active = u
    <2>1. CASE u = t
        BY <2>1
    <2>2. CASE u # t
        BY <1>2, <2>2 DEF Placed
    <2> QED
        BY <2>1, <2>2
<1>4. lns \in [Sessions -> Lanes]
    BY DEF Placed
<1> QED
    BY <1>1, <1>3, <1>4 DEF Placed

\* The lane of a session changes: it changes hands only when nobody holds it.
LEMMA PlacedLane ==
    ASSUME NEW n, NEW recs, NEW lns, Placed(recs, lns, n), NEW s \in Sessions,
           NEW lane \in Lanes, LaneKnown(s, recs, lane, n),
           \/ lane.active = lns[s].active
           \/ \A t \in Tasks : SessionOf[t] = s => ~Holds(recs[t])
    PROVE  Placed(recs, [lns EXCEPT ![s] = lane], n)
<1> DEFINE lns2 == [lns EXCEPT ![s] = lane]
<1>1. lns2 \in [Sessions -> Lanes] /\ lns2[s] = lane /\ \A q \in Sessions \ {s} : lns2[q] = lns[q]
    BY DEF Placed
<1> HIDE DEF lns2
<1>2. \A q \in Sessions : LaneKnown(q, recs, lns2[q], n)
    BY <1>1 DEF Placed
<1>3. ASSUME NEW t \in Tasks, SessionOf[t] # NoSession, Holds(recs[t])
      PROVE  lns2[SessionOf[t]].active = t
    <2>1. SessionOf[t] \in Sessions /\ lns[SessionOf[t]].active = t
        BY <1>3, ConstantsAssumption DEF Placed
    <2> QED
        BY <1>1, <1>3, <2>1
<1>4. Placed(recs, lns2, n)
    BY <1>1, <1>2, <1>3 DEF Placed
<1> QED
    BY <1>4 DEF lns2

\* A lane that is reconciled stays with the task that holds it.
LEMMA ReconciledHeld ==
    ASSUME NEW n, NEW recs, NEW lns, Placed(recs, lns, n), NEW s \in Sessions
    PROVE  /\ Reconciled(s, recs, lns[s]) \in Lanes
           /\ LaneKnown(s, recs, Reconciled(s, recs, lns[s]), n)
           /\ Eases(Reconciled(s, recs, lns[s]), lns[s])
           /\ \A t \in Tasks : SessionOf[t] = s /\ Holds(recs[t]) =>
                 Reconciled(s, recs, lns[s]) = lns[s] /\ lns[s].active = t
<1>1. lns[s] \in Lanes /\ recs \in [Tasks -> Records] /\ lns[s].active \in Tasks \cup {None}
    BY DEF Placed, Lanes
<1>2. Fresh \in Lanes
    BY DEF Fresh, Lanes
<1>3. Reconciled(s, recs, lns[s]) \in Lanes
    BY <1>1, <1>2, RehydratedTyped, CompletedTyped DEF Reconciled
<1>4. /\ LaneKnown(s, recs, Reconciled(s, recs, lns[s]), n)
      /\ Eases(Reconciled(s, recs, lns[s]), lns[s])
    BY <1>1, ReconciledShrinks, ShrunkKnown DEF Placed
<1>5. ASSUME NEW t \in Tasks, SessionOf[t] = s, Holds(recs[t])
      PROVE  Reconciled(s, recs, lns[s]) = lns[s] /\ lns[s].active = t
    <2>1. lns[s].active = t /\ t # None
        BY <1>5, NoneAssumption, ConstantsAssumption DEF Placed
    <2>2. /\ recs[t].status # "absent"
          /\ Waiting(recs[t]) \/ (recs[t].status \in Active /\ BgLive(recs[t]))
        BY <1>5 DEF Placed, Holds, Waiting, Active
    <2> QED
        BY <2>1, <2>2 DEF Reconciled
<1> QED
    BY <1>3, <1>4, <1>5

\* What a tail leaves behind, and what became of the tasks: task t may have been refused,
\* and records of settled tasks may be gone.
Same(recs, u) == Phase(records'[u]) = Phase(recs[u])
Forgotten(recs, u) == Phase(recs[u]) = "settled" /\ Phase(records'[u]) = "idle"

Rested(recs, n) == Placed(records', lanes', n) /\ \A u \in Tasks : Same(recs, u)

Scheduling(t, recs, n) ==
    /\ Placed(records', lanes', n)
    /\ \A u \in Tasks \ {t} : Same(recs, u) \/ Forgotten(recs, u)
    /\ Same(recs, t) \/ (recs[t].status = "accepted" /\ Phase(records'[t]) \in {"settled", "idle"})

\* A handler that ends.
LEMMA CommitRested ==
    ASSUME NEW n, NEW recs, NEW dsk, NEW lns, NEW rns, Placed(recs, lns, n),
           Commit(recs, dsk, lns, rns)
    PROVE  Rested(recs, n)
BY DEF Commit, Rested, Same

\* A coroutine moves no task.
LEMMA SpawnRested ==
    ASSUME NEW n, NEW recs, NEW dsk, NEW lns, NEW rns, Placed(recs, lns, n), NEW t \in Tasks,
           recs[t].status \in Active, Spawn(t, recs, dsk, lns, rns)
    PROVE  Rested(recs, n)
<1>1. PICK r \in Slots : /\ records' = Updated(recs, t, [recs[t] EXCEPT !.bg = r])
                         /\ lanes' = lns
    BY DEF Spawn, Commit
<1> DEFINE rec == [recs[t] EXCEPT !.bg = r]
<1>2. recs \in [Tasks -> Records] /\ n \in Nat \ {0} /\ n <= n
    BY DEF Placed
<1>3. /\ rec \in Records /\ rec.status = recs[t].status /\ rec.seq = recs[t].seq
      /\ rec.pending = recs[t].pending /\ rec.bg = r
    BY <1>2 DEF Records
<1>4. Phase(rec) = Phase(recs[t]) /\ (Holds(rec) <=> Holds(recs[t])) /\ BgLive(rec)
    BY <1>3 DEF Phase, Holds, Waiting, BgLive
<1>5. records' = Updated(recs, t, rec)
    BY <1>1
<1> HIDE DEF rec
<1>6. /\ records' \in [Tasks -> Records] /\ records'[t] = rec
      /\ \A u \in Tasks \ {t} : records'[u] = recs[u]
    BY <1>2, <1>3, <1>5 DEF Updated
<1>7. recs[t].seq < n /\ recs[t].status # "absent"
    BY StatusFacts DEF Placed
<1>8. SessionOf[t] # NoSession /\ Holds(recs[t]) => lns[SessionOf[t]].active = t
    BY DEF Placed
<1>9. Placed(records', lns, n)
    BY <1>2, <1>3, <1>4, <1>6, <1>7, <1>8, PlacedChanged
<1> QED
    BY <1>1, <1>4, <1>6, <1>9 DEF Rested, Same

\* The refusal of a task whose session was interrupted.
LEMMA SuppressScheduling ==
    ASSUME NEW n, NEW recs, NEW dsk, NEW lns, NEW rns, Placed(recs, lns, n), NEW t \in Tasks,
           recs[t].status = "accepted", Suppress(t, recs, dsk, lns, rns)
    PROVE  Scheduling(t, recs, n)
<1> DEFINE rec == Ended(recs[t], "stale", FALSE, FALSE)
<1>1. PICK f \in Faults : /\ records' = Pruned(Updated(recs, t, Compacted(rec, f)))
                          /\ lanes' = lns
    BY DEF Suppress, Commit
<1> DEFINE new == Compacted(rec, f)
           recs2 == Updated(recs, t, new)
<1>2. recs \in [Tasks -> Records] /\ n \in Nat \ {0} /\ n <= n
    BY DEF Placed
<1>3. rec \in Records /\ rec.status = "stale" /\ rec.seq = recs[t].seq
    BY ZenonT(60), <1>2 DEF Ended, Records, Terminal
<1> HIDE DEF rec
<1>4. new \in Records /\ new.status = "stale" /\ new.seq = recs[t].seq
    BY <1>3, CompactedTyped
<1>5. ~Holds(new) /\ Phase(new) = "settled"
    BY <1>4 DEF Holds, Waiting, Phase
<1> HIDE DEF new
<1>6. /\ recs2 \in [Tasks -> Records] /\ recs2[t] = new
      /\ \A u \in Tasks \ {t} : recs2[u] = recs[u]
    BY <1>2, <1>4 DEF Updated
<1>7. records' = Pruned(recs2)
    BY <1>1 DEF new
<1> HIDE DEF recs2
<1>8. recs[t].seq < n
    BY DEF Placed
<1>9. Placed(recs2, lns, n)
    BY <1>2, <1>4, <1>5, <1>6, <1>8, PlacedChanged
<1>10. \A u \in Tasks :
          \/ records'[u] = recs2[u]
          \/ records'[u] = Absent /\ recs2[u].status \in Terminal /\ ~Waiting(recs2[u])
    BY <1>7 DEF Pruned, Overflow, Prunable
<1>11. ASSUME NEW u \in Tasks \ {t} PROVE Same(recs, u) \/ Forgotten(recs, u)
    <2>1. CASE records'[u] = recs[u]
        BY <2>1 DEF Same
    <2>2. CASE records'[u] = Absent /\ recs[u].status \in Terminal /\ ~Waiting(recs[u])
        BY <1>2, <2>2, AbsentFacts DEF Forgotten, Phase, Terminal
    <2> QED
        BY <1>6, <1>10, <2>1, <2>2
<1>12. Phase(records'[t]) \in {"settled", "idle"}
    BY <1>5, <1>6, <1>10, AbsentFacts
<1> QED
    BY <1>1, <1>7, <1>9, <1>11, <1>12, PlacedPruned DEF Scheduling

\* _schedule_runtime_task_record refuses a task only when an interrupt came after it.
LEMMA ScheduleScheduling ==
    ASSUME NEW n, NEW recs, NEW dsk, NEW lns, NEW rns, Placed(recs, lns, n), NEW t \in Tasks,
           Schedule(t, recs, dsk, lns, rns)
    PROVE  /\ Scheduling(t, recs, n)
           /\ (SessionOf[t] # NoSession => AfterInterrupt(lns[SessionOf[t]], recs[t].seq))
              => Rested(recs, n)
<1>1. Rested(recs, n) => Scheduling(t, recs, n)
    BY DEF Rested, Scheduling
<1>2. CASE recs[t].status \notin Active \/ BgLive(recs[t])
    BY <1>1, <1>2, CommitRested DEF Schedule
<1>3. CASE recs[t].status \in Active /\ ~BgLive(recs[t]) /\ SessionOf[t] = NoSession
    BY <1>1, <1>3, SpawnRested DEF Schedule
<1>4. CASE recs[t].status \in Active /\ ~BgLive(recs[t]) /\ SessionOf[t] # NoSession
    <2> DEFINE s == SessionOf[t]
               lane == Reconciled(s, recs, lns[s])
               lane2 == Scheduled(lane, t, recs[t].seq, recs[t].delivery)
               decision == ScheduleDecision(lane, t, recs[t].seq)
               lns2 == [lns EXCEPT ![s] = lane2]
    <2>1. s \in Sessions
        BY <1>4, ConstantsAssumption
    <2>2. \/ decision = "queued" /\ Commit(recs, dsk, lns2, rns)
          \/ decision = "suppressed" /\ Suppress(t, recs, dsk, lns2, rns)
          \/ Spawn(t, recs, dsk, lns2, rns)
        BY <1>4 DEF Schedule, ScheduleInLane
    <2>3. /\ lane \in Lanes /\ LaneKnown(s, recs, lane, n) /\ Eases(lane, lns[s])
          /\ \A u \in Tasks : SessionOf[u] = s /\ Holds(recs[u]) =>
                lane = lns[s] /\ lns[s].active = u
        BY <2>1, ReconciledHeld
    <2>4. AfterInterrupt(lns[s], recs[t].seq) => decision # "suppressed"
        BY <2>3 DEF Eases, AfterInterrupt, ScheduleDecision
    <2>5. recs[t].seq \in Nat /\ recs[t].delivery \in Deliveries /\ recs[t].seq < n
        BY DEF Placed, Records
    <2>6. decision = "start" => lane.active = None
        BY DEF ScheduleDecision
    <2> HIDE DEF lane
    <2>7. /\ lane2 \in Lanes /\ LaneKnown(s, recs, lane2, n)
          /\ lane2.active = IF decision = "start" THEN t ELSE lane.active
        BY <2>3, <2>5, ScheduledTyped, ScheduledKnown
    <2> HIDE DEF lane2, decision
    <2>8. \/ lane2.active = lns[s].active
          \/ \A u \in Tasks : SessionOf[u] = s => ~Holds(recs[u])
        BY <2>3, <2>6, <2>7, NoneAssumption
    <2>9. Placed(recs, lns2, n)
        BY <2>1, <2>7, <2>8, PlacedLane
    <2>10. recs[t].status = "accepted"
        BY <1>4 DEF Placed, Active
    <2> HIDE DEF lns2
    <2>11. CASE decision = "suppressed" /\ Suppress(t, recs, dsk, lns2, rns)
        BY <1>4, <2>4, <2>9, <2>10, <2>11, SuppressScheduling
    <2>12. CASE Commit(recs, dsk, lns2, rns) \/ Spawn(t, recs, dsk, lns2, rns)
        BY <1>1, <1>4, <2>9, <2>12, CommitRested, SpawnRested
    <2> QED
        BY <2>2, <2>11, <2>12
<1> QED
    BY <1>2, <1>3, <1>4

\* complete(): the lane goes to a task that came after the interrupt, and no task moves.
LEMMA CompletedRested ==
    ASSUME NEW n, NEW recs, NEW dsk, NEW rns, Placed(recs, lanes, n), NEW t \in Tasks,
           ~Holds(recs[t]), NEW s \in Sessions, NEW lane \in Lanes, LaneKnown(s, recs, lane, n),
           lane.active = lanes[s].active,
           ScheduleNext(NextOnComplete(lane, t), recs, dsk,
                        [lanes EXCEPT ![s] = Completed(lane, t)], rns)
    PROVE  Rested(recs, n)
<1> DEFINE next == NextOnComplete(lane, t)
           lane2 == Completed(lane, t)
           lns2 == [lanes EXCEPT ![s] = lane2]
<1>1. /\ lane2 \in Lanes /\ next \in Tasks \cup {None}
      /\ lane.active # t => lane2.active = lane.active
    BY CompletedTyped
<1>2. /\ LaneKnown(s, recs, lane2, n) /\ Eases(lane2, lane)
      /\ next # None => /\ lane2.active = next
                        /\ \E e \in lane.pending : e.task = next /\ AfterInterrupt(lane, e.seq)
    BY CompletedShrinks, ShrunkKnown
<1>3. \/ Schedule(next, recs, dsk, lns2, rns) /\ next # None /\ recs[next].status \in Active
      \/ Commit(recs, dsk, lns2, rns)
    BY DEF ScheduleNext
<1> HIDE DEF next, lane2
<1>4. lane.active = t => \A u \in Tasks : SessionOf[u] = s => ~Holds(recs[u])
    BY ConstantsAssumption DEF Placed
<1>5. Placed(recs, lns2, n) /\ lns2[s] = lane2
    <2>1. lns2[s] = lane2
        BY DEF Placed
    <2> QED
        BY <1>1, <1>2, <1>4, <2>1, PlacedLane
<1> HIDE DEF lns2
<1>6. ASSUME Schedule(next, recs, dsk, lns2, rns), next # None, recs[next].status \in Active
      PROVE  Rested(recs, n)
    <2>1. PICK e \in lane.pending : e.task = next /\ AfterInterrupt(lane, e.seq)
        BY <1>2, <1>6
    <2>2. next \in Tasks /\ SessionOf[next] = s /\ e.seq <= recs[next].seq
        BY <1>1, <1>6, <2>1, StatusFacts DEF LaneKnown
    <2>3. e.seq \in Nat /\ recs[next].seq \in Nat /\ lane.interrupt \in Nat
        BY <2>2 DEF Lanes, Entries, Placed, Records
    <2>4. AfterInterrupt(lns2[s], recs[next].seq)
        BY <1>2, <1>5, <2>1, <2>2, <2>3 DEF AfterInterrupt, Eases
    <2> QED
        BY <1>5, <1>6, <2>2, <2>4, ScheduleScheduling
<1> QED
    BY <1>3, <1>5, <1>6, CommitRested

\* The finally block of a coroutine moves no task.
LEMMA FinallyRested ==
    ASSUME NEW n, NEW recs, NEW dsk, NEW rns, Placed(recs, lanes, n), NEW t \in Tasks,
           Finally(t, recs, dsk, rns)
    PROVE  Rested(recs, n)
<1>1. CASE Commit(recs, dsk, lanes, rns)
    BY <1>1, CommitRested
<1>2. ASSUME SessionOf[t] # NoSession
      PROVE  /\ SessionOf[t] \in Sessions /\ lanes[SessionOf[t]] \in Lanes
             /\ LaneKnown(SessionOf[t], recs, lanes[SessionOf[t]], n)
    BY <1>2, ConstantsAssumption DEF Placed
<1>3. CASE SessionOf[t] # NoSession /\ Waiting(recs[t])
    <2> DEFINE s == SessionOf[t]
               lane == HeldForUserInput(lanes[s], t)
    <2>1. lane \in Lanes /\ lane.active = lanes[s].active
        BY <1>2, <1>3, HeldTyped
    <2>2. LaneKnown(s, recs, lane, n)
        <3>1. Shrinks(lane, lanes[s])
            BY <1>2, <1>3, CancelledShrinks
        <3> QED
            BY <1>2, <1>3, <3>1, ShrunkKnown
    <2>3. Commit(recs, dsk, [lanes EXCEPT ![s] = lane], rns)
        BY <1>2, <1>3 DEF Finally
    <2> HIDE DEF lane
    <2>4. Placed(recs, [lanes EXCEPT ![s] = lane], n)
        BY <1>2, <1>3, <2>1, <2>2, PlacedLane
    <2> QED
        BY <2>3, <2>4, CommitRested
<1>4. CASE SessionOf[t] # NoSession /\ ~Waiting(recs[t]) /\ recs[t].status \notin Active
    <2>1. ~Holds(recs[t])
        BY <1>4 DEF Holds, Active
    <2>2. ScheduleNext(NextOnComplete(lanes[SessionOf[t]], t), recs, dsk,
                       [lanes EXCEPT ![SessionOf[t]] = Completed(lanes[SessionOf[t]], t)], rns)
        BY <1>2, <1>4 DEF Finally, Complete
    <2> QED
        BY <1>2, <1>4, <2>1, <2>2, CompletedRested
<1> QED
    BY <1>1, <1>3, <1>4 DEF Finally, Complete

-----------------------------------------------------------------------------
(* The steps implement the contract.                                       *)

PInv == MInv /\ Placed(records, lanes, nextSeq)

Implemented ==
    /\ Placed(records', lanes', nextSeq')
    /\ Contract!Next \/ \A u \in Tasks : Same(records, u)

\* One task moves, and records of settled tasks may go.
LEMMA ContractMoves ==
    ASSUME NEW t \in Tasks, NEW from, NEW to, records' \in [Tasks -> Records],
           Phase(records[t]) \in from, Phase(records'[t]) \in to,
           \A u \in Tasks \ {t} : Same(records, u) \/ Forgotten(records, u)
    PROVE  Contract!Moves(t, from, to)
<1> DEFINE p == [u \in Tasks |-> Phase(records'[u])]
<1>1. p \in [Tasks -> Contract!Phases]
    BY PhaseFacts DEF Contract!Phases
<1> QED
    BY <1>1 DEF Contract!Moves, Contract!MayForget, Same, Forgotten

\* Nothing moves.
LEMMA ContractForget ==
    ASSUME \A u \in Tasks : Same(records, u) \/ Forgotten(records, u)
    PROVE  Contract!Next
BY DEF Contract!Next, Contract!Forget, Contract!MayForget, Same, Forgotten

\* A task is settled, and perhaps forgotten at once.
LEMMA ContractSettles ==
    ASSUME Placed(records', lanes', nextSeq'), NEW t \in Tasks,
           Phase(records[t]) \in {"ready", "executing", "parked"},
           Phase(records'[t]) \in {"settled", "idle"},
           \A u \in Tasks \ {t} : Same(records, u) \/ Forgotten(records, u)
    PROVE  Implemented
<1>1. Contract!Settle(t)
    BY ContractMoves DEF Contract!Settle, Placed
<1> QED
    BY <1>1 DEF Implemented, Contract!Next

\* A task is admitted, or refused.
LEMMA ContractAdmits ==
    ASSUME Placed(records', lanes', nextSeq'), NEW t \in Tasks,
           Phase(records[t]) \in {"idle", "settled"},
           Phase(records'[t]) \in {"ready", "settled", "idle"},
           \A u \in Tasks \ {t} : Same(records, u) \/ Forgotten(records, u)
    PROVE  Implemented
<1>1. CASE Phase(records'[t]) \in {"ready", "settled"}
    <2>1. Contract!Admit(t)
        BY <1>1, ContractMoves DEF Contract!Admit, Placed
    <2> QED
        BY <2>1 DEF Implemented, Contract!Next
<1>2. CASE Phase(records'[t]) = "idle"
    <2>1. \A u \in Tasks : Same(records, u) \/ Forgotten(records, u)
        BY <1>2 DEF Same, Forgotten
    <2> QED
        BY <2>1, ContractForget DEF Implemented
<1> QED
    BY <1>1, <1>2

\* prune() forgets settled tasks.
LEMMA PrunedPhase ==
    ASSUME NEW recs \in [Tasks -> Records], NEW t \in Tasks
    PROVE  \/ Pruned(recs)[t] = recs[t]
           \/ Phase(recs[t]) = "settled" /\ Phase(Pruned(recs)[t]) = "idle"
<1>1. \/ Pruned(recs)[t] = recs[t]
      \/ Pruned(recs)[t] = Absent /\ recs[t].status \in Terminal /\ ~Waiting(recs[t])
    BY DEF Pruned, Overflow, Prunable
<1> QED
    BY <1>1, AbsentFacts DEF Phase, Terminal

\* An admission.
LEMMA AdmitImplemented ==
    ASSUME NEW recs, NEW dsk, NEW rns, Placed(recs, lanes, nextSeq), NEW t \in Tasks,
           NEW d \in Deliveries, \A u \in Tasks \ {t} : recs[u] = records[u],
           Phase(records[t]) \in {"idle", "settled"}, Admit(t, d, recs, dsk, rns)
    PROVE  Implemented
<1> DEFINE rec == Created(nextSeq, d)
           recs2 == Updated(recs, t, rec)
           last == Pruned(recs2)
<1>1. nextSeq' = nextSeq + 1 /\ \E dsk2 : Schedule(t, last, dsk2, lanes, rns)
    BY DEF Admit
<1>2. recs \in [Tasks -> Records] /\ nextSeq \in Nat \ {0}
    BY DEF Placed
<1>3. rec \in Records /\ rec.status = "accepted" /\ rec.seq = nextSeq /\ rec.pending = FALSE
    BY <1>2 DEF Created, Absent, Records, Active
<1>4. ~Holds(rec) /\ Phase(rec) = "ready"
    BY <1>3 DEF Holds, Waiting, Phase
<1> HIDE DEF rec
<1>5. /\ recs2 \in [Tasks -> Records] /\ recs2[t] = rec
      /\ \A u \in Tasks \ {t} : recs2[u] = recs[u]
    BY <1>2, <1>3 DEF Updated
<1> HIDE DEF recs2
<1>6. Placed(recs2, lanes, nextSeq + 1)
    BY <1>2, <1>3, <1>4, <1>5, PlacedChanged
<1>7. Placed(last, lanes, nextSeq + 1)
    BY <1>6, PlacedPruned
<1>8. \A u \in Tasks :
         \/ last[u] = recs2[u]
         \/ Phase(recs2[u]) = "settled" /\ Phase(last[u]) = "idle"
    BY <1>5, PrunedPhase
<1> HIDE DEF last
<1>9. Scheduling(t, last, nextSeq')
    BY <1>1, <1>7, ScheduleScheduling
<1>10. \A u \in Tasks \ {t} : Same(records, u) \/ Forgotten(records, u)
    BY <1>5, <1>8, <1>9 DEF Scheduling, Same, Forgotten
<1>11. Phase(records'[t]) \in {"ready", "settled", "idle"}
    BY <1>4, <1>5, <1>8, <1>9 DEF Scheduling, Same
<1> QED
    BY <1>9, <1>10, <1>11, ContractAdmits DEF Scheduling

\* The two ways to be admitted.
LEMMA DispatchImplemented ==
    ASSUME PInv, NEW t \in Tasks, NEW d \in Deliveries,
           DispatchNew(t, d) \/ DispatchRestartStale(t, d)
    PROVE  Implemented
<1>1. CASE DispatchNew(t, d)
    <2>1. Phase(records[t]) = "idle"
        BY <1>1, PhaseFacts DEF DispatchNew, PInv, Placed
    <2> QED
        BY <1>1, <2>1, AdmitImplemented DEF DispatchNew, PInv
<1>2. CASE DispatchRestartStale(t, d)
    <2> DEFINE recs == [records EXCEPT ![t] = Absent]
    <2>1. \E dsk, rns : Admit(t, d, recs, dsk, rns)
        BY <1>2 DEF DispatchRestartStale
    <2>2. /\ recs \in [Tasks -> Records] /\ recs[t] = Absent
          /\ \A u \in Tasks \ {t} : recs[u] = records[u]
        BY AbsentFacts DEF PInv, Placed
    <2> HIDE DEF recs
    <2>3. nextSeq \in Nat \ {0} /\ 0 < nextSeq /\ nextSeq <= nextSeq
        BY DEF PInv, Placed
    <2>4. Placed(recs, lanes, nextSeq)
        BY <2>2, <2>3, AbsentFacts, PlacedChanged DEF PInv
    <2>5. Phase(records[t]) = "settled"
        BY <1>2, PhaseFacts DEF DispatchRestartStale, Waiting, PInv, Placed
    <2> QED
        BY <2>1, <2>2, <2>4, <2>5, AdmitImplemented
<1> QED
    BY <1>1, <1>2

\* A duplicate dispatch may find that the session was interrupted.
LEMMA DuplicateImplemented ==
    ASSUME PInv, NEW t \in Tasks, DispatchDuplicate(t)
    PROVE  Implemented
<1>1. Scheduling(t, records, nextSeq) /\ nextSeq' = nextSeq
    BY ScheduleScheduling DEF PInv, DispatchDuplicate
<1>2. CASE Same(records, t)
    BY <1>1, <1>2, ContractForget DEF Scheduling, Implemented
<1>3. CASE records[t].status = "accepted" /\ Phase(records'[t]) \in {"settled", "idle"}
    <2>1. Phase(records[t]) = "ready"
        BY <1>3, PhaseFacts DEF PInv, Placed
    <2> QED
        BY <1>1, <1>3, <2>1, ContractSettles DEF Scheduling
<1> QED
    BY <1>1, <1>2, <1>3 DEF Scheduling

\* A cancelled record holds no lane.
LEMMA CancelledPlaced ==
    ASSUME PInv, NEW t \in Tasks, records[t].status # "absent", NEW recs,
           \E f \in Faults : recs = [records EXCEPT ![t] = Compacted(CancelledRecord(records[t]), f)]
    PROVE  /\ Placed(recs, lanes, nextSeq) /\ ~Holds(recs[t]) /\ Phase(recs[t]) = "settled"
           /\ \A u \in Tasks \ {t} : recs[u] = records[u]
<1> DEFINE rec == CancelledRecord(records[t])
<1>0. PICK f \in Faults : recs = [records EXCEPT ![t] = Compacted(rec, f)]
    OBVIOUS
<1> DEFINE new == Compacted(rec, f)
<1>1. /\ records \in [Tasks -> Records] /\ nextSeq \in Nat \ {0} /\ nextSeq <= nextSeq
      /\ records[t].seq < nextSeq
    BY DEF PInv, Placed
<1>2. rec \in Records /\ rec.status = "cancelled" /\ rec.seq = records[t].seq
    BY ZenonT(60), <1>1 DEF CancelledRecord, Records, Terminal
<1> HIDE DEF rec
<1>3. new \in Records /\ new.status = "cancelled" /\ new.seq = records[t].seq
    BY <1>2, CompactedTyped
<1>4. recs = [records EXCEPT ![t] = new]
    BY <1>0
<1> HIDE DEF new
<1>5. ~Holds(new) /\ Phase(new) = "settled"
    BY <1>3 DEF Holds, Waiting, Phase
<1>6. /\ recs \in [Tasks -> Records] /\ recs[t] = new
      /\ \A u \in Tasks \ {t} : recs[u] = records[u]
    BY <1>1, <1>3, <1>4
<1>7. Placed(recs, lanes, nextSeq)
    BY <1>1, <1>3, <1>5, <1>6, PlacedChanged DEF PInv
<1> QED
    BY <1>5, <1>6, <1>7

\* A cancel settles its task; the task its lane goes to does not move.
LEMMA CancelImplemented ==
    ASSUME PInv, NEW t \in Tasks, CancelActive(t) \/ CancelWaiting(t)
    PROVE  Implemented
<1> DEFINE s == SessionOf[t]
           recs(f) == [records EXCEPT ![t] = Compacted(CancelledRecord(records[t]), f)]
           lane == Cancelled(lanes[s], t, records[t].seq)
<1>1. /\ records[t].status # "absent" /\ nextSeq' = nextSeq
      /\ Phase(records[t]) \in {"ready", "executing", "parked"}
    <2>1. records[t].status \in Active \/ Waiting(records[t])
        BY DEF CancelActive, CancelWaiting
    <2>2. records[t] \in Records
        BY DEF PInv, Placed
    <2> QED
        BY <2>1, <2>2, PhaseFacts DEF CancelActive, CancelWaiting, Waiting, Active
<1>2. PICK f \in Faults : \E dsk, rns :
         \/ Commit(recs(f), dsk, lanes, rns)
         \/ s # NoSession /\ Commit(recs(f), dsk, [lanes EXCEPT ![s] = lane], rns)
         \/ s # NoSession /\ ScheduleNext(NextOnComplete(lane, t), recs(f), dsk,
                                          [lanes EXCEPT ![s] = Completed(lane, t)], rns)
    <2>1. CASE CancelActive(t)
        <3>1. PICK f \in Faults :
                 Commit(recs(f), Persisted(files, t, CancelledRecord(records[t]), f),
                        IF s = NoSession THEN lanes
                        ELSE [lanes EXCEPT ![s] = Cancelled(@, t, records[t].seq)],
                        CancelRequested(runs, records[t].bg))
            BY <2>1 DEF CancelActive
        <3>2. s # NoSession => [lanes EXCEPT ![s] = Cancelled(@, t, records[t].seq)]
                                  = [lanes EXCEPT ![s] = lane]
            BY ConstantsAssumption DEF PInv, Placed
        <3> QED
            BY <3>1, <3>2
    <2>2. CASE CancelWaiting(t)
        BY <2>2 DEF CancelWaiting
    <2> QED
        BY <2>1, <2>2
<1> DEFINE new == recs(f)
<1>3. new = [records EXCEPT ![t] = Compacted(CancelledRecord(records[t]), f)]
    OBVIOUS
<1>4. /\ Placed(new, lanes, nextSeq) /\ ~Holds(new[t]) /\ Phase(new[t]) = "settled"
      /\ \A u \in Tasks \ {t} : new[u] = records[u]
    <2> HIDE DEF new, recs
    <2> QED
        BY <1>1, <1>3, CancelledPlaced
<1>5. PICK dsk, rns :
         \/ Commit(new, dsk, lanes, rns)
         \/ s # NoSession /\ Commit(new, dsk, [lanes EXCEPT ![s] = lane], rns)
         \/ s # NoSession /\ ScheduleNext(NextOnComplete(lane, t), new, dsk,
                                          [lanes EXCEPT ![s] = Completed(lane, t)], rns)
    BY <1>2
<1> HIDE DEF recs, new
<1>6. ASSUME s # NoSession
      PROVE  /\ s \in Sessions /\ lane \in Lanes /\ lane.active = lanes[s].active
             /\ LaneKnown(s, new, lane, nextSeq)
    <2>1. s \in Sessions /\ lanes[s] \in Lanes /\ records[t].seq \in Nat
        BY <1>6, ConstantsAssumption DEF PInv, Placed, Records
    <2>2. Shrinks(lane, lanes[s]) /\ lane \in Lanes /\ lane.active = lanes[s].active
        BY <2>1, CancelledTyped, CancelledShrinks
    <2> QED
        BY <1>4, <2>1, <2>2, ShrunkKnown DEF Placed
<1> HIDE DEF lane
<1>7. Rested(new, nextSeq)
    <2>1. CASE Commit(new, dsk, lanes, rns)
        BY <1>4, <2>1, CommitRested
    <2>2. CASE s # NoSession /\ Commit(new, dsk, [lanes EXCEPT ![s] = lane], rns)
        <3>1. Placed(new, [lanes EXCEPT ![s] = lane], nextSeq)
            BY <1>4, <1>6, <2>2, PlacedLane
        <3> QED
            BY <2>2, <3>1, CommitRested
    <2>3. CASE s # NoSession /\ ScheduleNext(NextOnComplete(lane, t), new, dsk,
                                             [lanes EXCEPT ![s] = Completed(lane, t)], rns)
        BY <1>4, <1>6, <2>3, CompletedRested
    <2> QED
        BY <1>5, <2>1, <2>2, <2>3
<1>8. \A u \in Tasks \ {t} : Same(records, u)
    BY <1>4, <1>7 DEF Rested, Same
<1>9. Phase(records'[t]) = "settled"
    BY <1>4, <1>7 DEF Rested, Same
<1> QED
    BY <1>1, <1>7, <1>8, <1>9, ContractSettles DEF Rested

\* An answered task is ready again, or it was refused since; a task that had ended and is
\* answered late is admitted once more.
LEMMA AnswerImplemented ==
    ASSUME PInv, NEW t \in Tasks, Answer(t)
    PROVE  Implemented
<1> DEFINE rec == Resumed(records[t])
           recs == [records EXCEPT ![t] = rec]
<1>1. nextSeq' = nextSeq /\ \E dsk : Schedule(t, recs, dsk, lanes, runs)
    BY DEF Answer
<1>2. /\ records \in [Tasks -> Records] /\ nextSeq \in Nat \ {0} /\ nextSeq <= nextSeq
      /\ records[t].seq < nextSeq /\ records[t] \in Records
    BY DEF PInv, Placed
<1>3. records[t].status # "absent" /\ records[t].status \notin Active
    <2>1. records[t].pending
        BY DEF Answer
    <2>2. records[t].status \in Active => records[t].pending = FALSE
        BY DEF PInv, MInv, IInv, Good, RecordsSane
    <2>3. ASSUME records[t].status = "absent" PROVE records[t].pending = Absent.pending
        <3>1. Image(records[t]) = Image(Absent)
            BY <2>3 DEF PInv, MInv, Mirrors, NoFile
        <3>2. \A rec2 : Image(rec2).pending = rec2.pending
            BY DEF Image
        <3>3. Image(records[t]).pending = records[t].pending /\ Image(Absent).pending = Absent.pending
            BY <3>2
        <3> QED
            BY <3>1, <3>3
    <2> QED
        BY <2>1, <2>2, <2>3 DEF Absent
<1>4. Phase(records[t]) \in {"parked", "settled"}
    BY <1>2, <1>3, PhaseFacts DEF Active
<1>5. rec \in Records /\ rec.status = "accepted" /\ rec.seq = records[t].seq
    BY <1>2, ResumedTyped DEF Resumed, Records
<1> HIDE DEF rec
<1>6. ~Holds(rec) /\ Phase(rec) = "ready"
    BY <1>5, PhaseFacts DEF Holds, Waiting
<1>7. /\ recs \in [Tasks -> Records] /\ recs[t] = rec
      /\ \A u \in Tasks \ {t} : recs[u] = records[u]
    BY <1>2, <1>5
<1> HIDE DEF recs
<1>8. Placed(recs, lanes, nextSeq)
    BY <1>2, <1>3, <1>5, <1>6, <1>7, PlacedChanged DEF PInv
<1>9. Scheduling(t, recs, nextSeq')
    BY <1>1, <1>8, ScheduleScheduling
<1>10. \A u \in Tasks \ {t} : Same(records, u) \/ Forgotten(records, u)
    BY <1>7, <1>9 DEF Scheduling, Same, Forgotten
<1>11. Phase(records'[t]) \in {"ready", "settled", "idle"}
    BY <1>6, <1>7, <1>9 DEF Scheduling, Same
<1>12. Placed(records', lanes', nextSeq')
    BY <1>9 DEF Scheduling
<1>13. CASE Phase(records[t]) = "settled"
    BY <1>10, <1>11, <1>12, <1>13, ContractAdmits
<1>14. CASE Phase(records[t]) = "parked" /\ Phase(records'[t]) = "ready"
    <2>1. Contract!Answer(t)
        BY <1>10, <1>12, <1>14, ContractMoves DEF Contract!Answer, Placed
    <2> QED
        BY <1>12, <2>1 DEF Implemented, Contract!Next
<1>15. CASE Phase(records[t]) = "parked" /\ Phase(records'[t]) \in {"settled", "idle"}
    BY <1>10, <1>12, <1>15, ContractSettles
<1> QED
    BY <1>4, <1>11, <1>13, <1>14, <1>15

-----------------------------------------------------------------------------
(* The coroutines implement the contract.                                  *)

\* A task starts in a session in which no other runs or waits for the user.
LEMMA StartImplemented ==
    ASSUME PInv, NEW r \in Slots, BgStart(r)
    PROVE  Implemented
<1> DEFINE t == runs[r].task
           rec == [records[t] EXCEPT !.status = "running", !.attempt = r]
<1>1. /\ t \in Tasks /\ records[t].status = "accepted" /\ records[t].bg = r
      /\ SessionOf[t] # NoSession => lanes[SessionOf[t]].active = t
    BY DEF PInv, MInv, IInv, Good, RunsSane, Owned, Uncancelled, BgStart
<1>2. records' = [records EXCEPT ![t] = rec] /\ lanes' = lanes /\ nextSeq' = nextSeq
    BY <1>1 DEF BgStart, Commit, Active
<1>3. /\ records \in [Tasks -> Records] /\ nextSeq \in Nat \ {0} /\ nextSeq <= nextSeq
      /\ records[t].seq < nextSeq /\ records[t] \in Records
    BY <1>1 DEF PInv, Placed
<1>4. rec \in Records /\ rec.status = "running" /\ rec.seq = records[t].seq /\ rec.bg = r
    BY <1>1, <1>3 DEF Records, Active
<1> HIDE DEF rec
<1>5. /\ records' \in [Tasks -> Records] /\ records'[t] = rec
      /\ \A u \in Tasks \ {t} : records'[u] = records[u]
    BY <1>1, <1>2, <1>3, <1>4
<1>6. Phase(records[t]) = "ready" /\ Phase(rec) = "executing" /\ BgLive(rec)
    BY <1>1, <1>3, <1>4, PhaseFacts DEF BgLive
<1> HIDE DEF t
<1>7. Placed(records', lanes', nextSeq')
    BY <1>1, <1>2, <1>3, <1>4, <1>5, <1>6, PlacedChanged DEF PInv
<1>8. Contract!SessionIsFree(t)
    <2> SUFFICES ASSUME NEW u \in Tasks, SessionOf[t] = SessionOf[u], SessionOf[t] # NoSession
                 PROVE  Phase(records[u]) \notin {"executing", "parked"}
        BY DEF Contract!SessionIsFree, Contract!SameSession
    <2>1. Holds(records[u]) => u = t
        BY <1>1 DEF PInv, Placed
    <2>2. ~Holds(records[t])
        BY <1>1 DEF Holds, Waiting
    <2> QED
        BY <1>3, <2>1, <2>2, PhaseFacts DEF Holds
<1>9. Contract!Start(t)
    BY <1>1, <1>5, <1>6, <1>8, ContractMoves DEF Contract!Start, Same
<1> QED
    BY <1>1, <1>7, <1>9 DEF Implemented, Contract!Next

\* Records that differ in their coroutines only.
LEMMA PlacedAlike ==
    ASSUME NEW n, NEW recs, NEW lns, Placed(recs, lns, n), NEW recs2 \in [Tasks -> Records],
           \A u \in Tasks :
              /\ recs2[u].status = recs[u].status /\ recs2[u].seq = recs[u].seq
              /\ recs2[u].pending = recs[u].pending
              /\ recs2[u].status = "running" => BgLive(recs2[u])
    PROVE  /\ Placed(recs2, lns, n)
           /\ \A u \in Tasks : Phase(recs2[u]) = Phase(recs[u])
<1>1. \A u \in Tasks : Waiting(recs2[u]) <=> Waiting(recs[u])
    BY DEF Waiting
<1>2. \A u \in Tasks : Phase(recs2[u]) = Phase(recs[u])
    <2> SUFFICES ASSUME NEW u \in Tasks PROVE Phase(recs2[u]) = Phase(recs[u])
        OBVIOUS
    <2>1. recs[u] \in Records /\ recs2[u] \in Records
        BY DEF Placed
    <2> QED
        BY <1>1, <2>1, PhaseFacts
<1>3. \A s \in Sessions : LaneKnown(s, recs2, lns[s], n)
    <2> SUFFICES ASSUME NEW s \in Sessions, NEW e \in lns[s].pending
                 PROVE  /\ e.seq < n /\ SessionOf[e.task] = s
                        /\ recs2[e.task].status # "absent" => e.seq <= recs2[e.task].seq
        BY DEF LaneKnown
    <2>1. e.task \in Tasks
        BY DEF Placed, Lanes, Entries
    <2> QED
        BY <2>1 DEF Placed, LaneKnown
<1>4. \A u \in Tasks : Holds(recs2[u]) <=> Holds(recs[u])
    BY <1>1 DEF Holds
<1> QED
    BY <1>2, <1>3, <1>4 DEF Placed

\* A coroutine that is over, of a task that does not run.
LEMMA DetachedPlaced ==
    ASSUME PInv, NEW r \in Slots, \A u \in Tasks : records[u].bg = r => records[u].status # "running"
    PROVE  /\ Placed(Detached(records, r), lanes, nextSeq)
           /\ \A u \in Tasks : Phase(Detached(records, r)[u]) = Phase(records[u])
<1>1. records \in [Tasks -> Records]
    BY DEF PInv, Placed
<1>2. \A u \in Tasks :
         /\ Detached(records, r)[u] \in Records
         /\ Detached(records, r)[u].status = records[u].status
         /\ Detached(records, r)[u].seq = records[u].seq
         /\ Detached(records, r)[u].pending = records[u].pending
         /\ records[u].bg # r => Detached(records, r)[u] = records[u]
    BY <1>1 DEF Detached, Records
<1>3. Detached(records, r) \in [Tasks -> Records]
    BY <1>2 DEF Detached
<1>4. \A u \in Tasks : Detached(records, r)[u].status = "running" => BgLive(Detached(records, r)[u])
    BY <1>2 DEF PInv, Placed
<1> QED
    BY <1>2, <1>3, <1>4, PlacedAlike DEF PInv

\* A coroutine that is over, of a task that ends with it.
LEMMA EndedPlaced ==
    ASSUME PInv, NEW r \in Slots, NEW t \in Tasks, records[t].status = "running",
           \A u \in Tasks \ {t} : records[u].bg = r => records[u].status # "running",
           NEW new \in Records, new.status \in Terminal, new.seq = records[t].seq
    PROVE  /\ Placed(Updated(Detached(records, r), t, new), lanes, nextSeq)
           /\ Updated(Detached(records, r), t, new)[t] = new
           /\ \A u \in Tasks \ {t} :
                 Phase(Updated(Detached(records, r), t, new)[u]) = Phase(records[u])
<1> DEFINE mid == [records EXCEPT ![t] = new]
           recs == Updated(Detached(records, r), t, new)
<1>1. /\ records \in [Tasks -> Records] /\ nextSeq \in Nat \ {0} /\ nextSeq <= nextSeq
      /\ records[t].seq < nextSeq
    BY DEF PInv, Placed
<1>2. /\ mid \in [Tasks -> Records] /\ mid[t] = new
      /\ \A u \in Tasks \ {t} : mid[u] = records[u]
    BY <1>1
<1> HIDE DEF mid
<1>3. Placed(mid, lanes, nextSeq)
    <2>1. SessionOf[t] # NoSession => lanes[SessionOf[t]].active = t
        BY DEF PInv, Placed, Holds
    <2>2. new.status # "running"
        BY DEF Terminal
    <2> QED
        BY <1>1, <1>2, <2>1, <2>2, PlacedChanged DEF PInv
<1>4. recs[t] = new /\ \A u \in Tasks \ {t} : recs[u] = Detached(records, r)[u]
    BY DEF Updated, Detached
<1>5. \A u \in Tasks :
         /\ recs[u] \in Records /\ recs[u].status = mid[u].status
         /\ recs[u].seq = mid[u].seq /\ recs[u].pending = mid[u].pending
         /\ u # t /\ mid[u].bg # r => recs[u] = mid[u]
    <2> HIDE DEF recs
    <2>1. \A u \in Tasks \ {t} :
             /\ Detached(records, r)[u] \in Records
             /\ Detached(records, r)[u].status = records[u].status
             /\ Detached(records, r)[u].seq = records[u].seq
             /\ Detached(records, r)[u].pending = records[u].pending
             /\ records[u].bg # r => Detached(records, r)[u] = records[u]
        BY <1>1 DEF Detached, Records
    <2> QED
        BY <1>2, <1>4, <2>1
<1>6. recs \in [Tasks -> Records]
    BY <1>5 DEF Updated, Detached
<1> HIDE DEF recs
<1>7. \A u \in Tasks : recs[u].status = "running" => BgLive(recs[u])
    <2> SUFFICES ASSUME NEW u \in Tasks, recs[u].status = "running"
                 PROVE  BgLive(recs[u])
        OBVIOUS
    <2>1. u # t
        BY <1>4 DEF Terminal
    <2>2. recs[u] = mid[u]
        BY <1>2, <1>5, <2>1
    <2> QED
        BY <1>3, <2>2 DEF Placed
<1>8. Placed(recs, lanes, nextSeq) /\ \A u \in Tasks : Phase(recs[u]) = Phase(mid[u])
    BY <1>3, <1>5, <1>6, <1>7, PlacedAlike
<1>9. /\ Placed(recs, lanes, nextSeq) /\ recs[t] = new
      /\ \A u \in Tasks \ {t} : Phase(recs[u]) = Phase(records[u])
    BY <1>2, <1>4, <1>8
<1> QED
    BY <1>9 DEF recs

\* A coroutine that is over and writes nothing moves no task.
LEMMA SilentEnd ==
    ASSUME PInv, NEW r \in Slots, NEW t \in Tasks, nextSeq' = nextSeq,
           \A u \in Tasks : records[u].bg = r => records[u].status # "running",
           NEW dsk, NEW rns, Finally(t, Detached(records, r), dsk, rns)
    PROVE  Implemented
<1>1. Rested(Detached(records, r), nextSeq')
    BY DetachedPlaced, FinallyRested
<1>2. \A u \in Tasks : Same(records, u)
    BY <1>1, DetachedPlaced DEF Rested, Same
<1> QED
    BY <1>1, <1>2 DEF Rested, Implemented

\* An execution that is over settles its task, or leaves it waiting for the user.
LEMMA EndImplemented ==
    ASSUME PInv, NEW r \in Slots, NEW status \in {"success", "error", "blocked"},
           NEW pending \in BOOLEAN, BgEnd(r, status, pending)
    PROVE  Implemented
<1> DEFINE t == runs[r].task
           recs == Detached(records, r)
           rec == Ended(recs[t], status, pending, FALSE)
<1>1. /\ Good(records, files, lanes, runs, spent) /\ runs[r].pc = "executing"
      /\ nextSeq' = nextSeq
    BY DEF PInv, MInv, IInv, BgEnd
<1>2. t \in Tasks /\ runs[r].attempt = r /\ r # None
    BY <1>1, ExecutingFacts
<1>3. /\ recs[t] \in Records /\ recs[t].status = records[t].status
      /\ recs[t].attempt = records[t].attempt
    BY <1>1, <1>2, DetachedTyped
<1>4. recs[t].seq = records[t].seq
    BY <1>2 DEF Detached, PInv, Placed, Records
<1>5. CASE TakesTerminal(recs[t], status, runs[r].attempt)
    <2> DEFINE new(f) == Compacted(rec, f)
    <2>1. PICK f \in Faults :
             \E dsk : Finally(t, Pruned(Updated(recs, t, new(f))), dsk, Freed(r))
        BY <1>5 DEF BgEnd
    <2> DEFINE recs2 == Updated(recs, t, new(f))
               last == Pruned(recs2)
    <2>2. /\ records[t].status = "running"
          /\ \A u \in Tasks \ {t} : records[u].bg = r => records[u].status # "running"
        <3>1. records[t].attempt = r
            BY <1>2, <1>3, <1>5 DEF TakesTerminal
        <3> QED
            BY <1>1, <3>1, ExecutingFacts
    <2>3. rec \in Records /\ rec.status = status /\ rec.seq = records[t].seq
        BY <1>3, <1>4 DEF Ended, Records, Terminal
    <2> HIDE DEF rec
    <2>4. new(f) \in Records /\ new(f).status = status /\ new(f).seq = records[t].seq
        BY <2>3, CompactedTyped
    <2>5. Phase(new(f)) \in {"settled", "parked"} /\ new(f).status \in Terminal
        BY <2>4, PhaseFacts DEF Terminal
    <2> HIDE DEF new
    <2>6. /\ Placed(recs2, lanes, nextSeq) /\ recs2[t] = new(f)
          /\ \A u \in Tasks \ {t} : Phase(recs2[u]) = Phase(records[u])
        <3> HIDE DEF t
        <3> QED
            BY <1>2, <2>2, <2>4, <2>5, EndedPlaced
    <2> HIDE DEF recs, recs2
    <2>7. Placed(last, lanes, nextSeq)
        BY <2>6, PlacedPruned
    <2>8. \A u \in Tasks :
             \/ last[u] = recs2[u]
             \/ Phase(recs2[u]) = "settled" /\ Phase(last[u]) = "idle"
        <3>1. recs2 \in [Tasks -> Records]
            BY <2>6 DEF Placed
        <3> QED
            BY <3>1, PrunedPhase
    <2>9. \E dsk : Finally(t, last, dsk, Freed(r))
        BY <2>1 DEF recs2
    <2> HIDE DEF last, t
    <2>10. Rested(last, nextSeq')
        BY <1>1, <1>2, <2>7, <2>9, FinallyRested
    <2>11. \A u \in Tasks \ {t} : Same(records, u) \/ Forgotten(records, u)
        BY <2>6, <2>8, <2>10 DEF Rested, Same, Forgotten
    <2>12. Phase(records'[t]) \in {"parked", "settled", "idle"} /\ Phase(records[t]) = "executing"
        <3>1. records[t] \in Records
            BY <1>2 DEF PInv, Placed
        <3> QED
            BY <1>2, <2>2, <2>5, <2>6, <2>8, <2>10, <3>1, PhaseFacts DEF Rested, Same
    <2>13. Placed(records', lanes', nextSeq')
        BY <2>10 DEF Rested
    <2>14. CASE Phase(records'[t]) = "parked"
        <3>1. Contract!Park(t)
            BY <1>2, <2>11, <2>12, <2>13, <2>14, ContractMoves DEF Contract!Park, Placed
        <3> QED
            BY <1>2, <2>13, <3>1 DEF Implemented, Contract!Next
    <2>15. CASE Phase(records'[t]) \in {"settled", "idle"}
        BY <1>2, <2>11, <2>12, <2>13, <2>15, ContractSettles
    <2> QED
        BY <2>12, <2>14, <2>15
<1>6. CASE ~TakesTerminal(recs[t], status, runs[r].attempt)
    <2>1. Finally(t, recs, files, Freed(r))
        BY <1>6 DEF BgEnd
    <2>2. records[t].status = "running" => records[t].attempt # r
        BY <1>2, <1>3, <1>6 DEF TakesTerminal
    <2>3. \A u \in Tasks : records[u].bg = r => records[u].status # "running"
        BY <1>1, <2>2, ExecutingFacts
    <2> QED
        BY <1>1, <1>2, <2>1, <2>3, SilentEnd
<1> QED
    BY <1>5, <1>6

\* A coroutine that unwinds settles a task that was running, if it still has its attempt.
LEMMA UnwoundImplemented ==
    ASSUME PInv, NEW r \in Slots, BgCancelled(r)
    PROVE  Implemented
<1> DEFINE t == runs[r].task
           recs == Detached(records, r)
           rec == CancelledRecord(recs[t])
<1>1. /\ Good(records, files, lanes, runs, spent) /\ runs[r].pc = "executing"
      /\ nextSeq' = nextSeq
    BY DEF PInv, MInv, IInv, BgCancelled
<1>2. t \in Tasks /\ runs[r].attempt = r /\ r # None
    BY <1>1, ExecutingFacts
<1>3. /\ recs[t] \in Records /\ recs[t].status = records[t].status
      /\ recs[t].attempt = records[t].attempt
    BY <1>1, <1>2, DetachedTyped
<1>4. recs[t].seq = records[t].seq
    BY <1>2 DEF Detached, PInv, Placed, Records
<1>5. CASE records[t].status \in Active /\ records[t].attempt = r
    <2> DEFINE new(f) == Compacted(rec, f)
    <2>1. PICK f \in Faults :
             \E dsk : Finally(t, Updated(recs, t, new(f)), dsk, Freed(r))
        BY <1>2, <1>3, <1>5 DEF BgCancelled
    <2> DEFINE recs2 == Updated(recs, t, new(f))
    <2>2. /\ records[t].status = "running"
          /\ \A u \in Tasks \ {t} : records[u].bg = r => records[u].status # "running"
        BY <1>1, <1>5, ExecutingFacts
    <2>3. rec \in Records /\ rec.status = "cancelled" /\ rec.seq = records[t].seq
        BY <1>3, <1>4 DEF CancelledRecord, Records, Terminal
    <2> HIDE DEF rec
    <2>4. new(f) \in Records /\ new(f).status = "cancelled" /\ new(f).seq = records[t].seq
        BY <2>3, CompactedTyped
    <2>5. Phase(new(f)) = "settled" /\ new(f).status \in Terminal
        BY <2>4, PhaseFacts DEF Terminal, Waiting
    <2> HIDE DEF new
    <2>6. /\ Placed(recs2, lanes, nextSeq) /\ recs2[t] = new(f)
          /\ \A u \in Tasks \ {t} : Phase(recs2[u]) = Phase(records[u])
        <3> HIDE DEF t
        <3> QED
            BY <1>2, <2>2, <2>4, <2>5, EndedPlaced
    <2>7. \E dsk : Finally(t, recs2, dsk, Freed(r))
        BY <2>1
    <2> HIDE DEF recs, recs2, t
    <2>8. Rested(recs2, nextSeq')
        BY <1>1, <1>2, <2>6, <2>7, FinallyRested
    <2>9. \A u \in Tasks \ {t} : Same(records, u)
        BY <2>6, <2>8 DEF Rested, Same
    <2>10. Phase(records'[t]) = "settled" /\ Phase(records[t]) = "executing"
        <3>1. records[t] \in Records
            BY <1>2 DEF PInv, Placed
        <3> QED
            BY <1>2, <2>2, <2>5, <2>6, <2>8, <3>1, PhaseFacts DEF Rested, Same
    <2> QED
        BY <1>2, <2>8, <2>9, <2>10, ContractSettles DEF Rested
<1>6. CASE ~(records[t].status \in Active /\ records[t].attempt = r)
    <2>1. Finally(t, recs, files, Freed(r))
        BY <1>2, <1>3, <1>6 DEF BgCancelled
    <2>2. \A u \in Tasks : records[u].bg = r => records[u].status # "running"
        BY <1>1, <1>6, ExecutingFacts, StatusFacts
    <2> QED
        BY <1>1, <1>2, <2>1, <2>2, SilentEnd
<1> QED
    BY <1>5, <1>6

\* A coroutine that never starts moves no task.
LEMMA NeverStartedImplemented ==
    ASSUME PInv, NEW r \in Slots, BgNeverStarted(r)
    PROVE  Implemented
<1>1. \A u \in Tasks : records[u].bg = r => records[u].status # "running"
    BY DEF PInv, MInv, IInv, Good, BgNeverStarted, RecordsSane
<1>2. Rested(Detached(records, r), nextSeq')
    BY <1>1, DetachedPlaced, CommitRested DEF BgNeverStarted
<1>3. \A u \in Tasks : Same(records, u)
    BY <1>1, <1>2, DetachedPlaced DEF Rested, Same
<1> QED
    BY <1>2, <1>3 DEF Rested, Implemented

-----------------------------------------------------------------------------
(* The end of the process implements the contract.                         *)

\* A startup gives a lane to the one task of its session that waits.
LEMMA RehydratedHeld ==
    ASSUME NEW recs \in [Tasks -> Records], NEW s, NEW t \in WaitingIn(s, recs),
           \A u \in WaitingIn(s, recs) : u = t
    PROVE  Rehydrated(s, recs, Fresh).active = t
<1> DEFINE first == {x \in WaitingIn(s, recs) :
                       \A u \in WaitingIn(s, recs) : recs[x].seq <= recs[u].seq}
           next == Scheduled(Fresh, t, recs[t].seq, recs[t].delivery)
<1>1. t \in Tasks /\ recs[t].seq \in Nat /\ recs[t].delivery \in Deliveries
    BY DEF WaitingIn, Records
<1>2. first = {t} /\ (CHOOSE x \in first : TRUE) = t
    <2>1. first = {t}
        BY <1>1
    <2> QED
        BY <2>1
<1>3. Fresh \in Lanes /\ Fresh.active = None /\ Fresh.interrupt = 0
    BY DEF Fresh, Lanes
<1>4. Rehydrated(s, recs, Fresh) = HeldForUserInput(next, t)
    BY <1>2, <1>3 DEF Rehydrated
<1>5. ScheduleDecision(Fresh, t, recs[t].seq) = "start"
    BY <1>3 DEF ScheduleDecision, AfterInterrupt
<1>6. next \in Lanes /\ next.active = t
    BY <1>1, <1>3, <1>5, ScheduledTyped
<1> HIDE DEF next
<1> QED
    BY <1>1, <1>4, <1>6, HeldTyped

\* A startup loads the records as they were.
LEMMA LoadedSame ==
    ASSUME AllLoaded, PInv, NEW L \in LoadSets, NEW t \in Tasks
    PROVE  /\ Phase(Loaded(L)[t]) = Phase(records[t])
           /\ (Waiting(Loaded(L)[t]) => Waiting(records[t]))
           /\ Loaded(L)[t].seq = 0 \/ (t \in L /\ Loaded(L)[t].seq = files[t].seq)
<1>1. L = OnDisk
    BY LoadsAll
<1>2. /\ Loaded(L)[t] \in Records /\ Loaded(L)[t].status = records[t].status
      /\ records[t] \in Records /\ files[t] = Image(records[t])
    BY LoadedMirrors, Started DEF PInv, Mirrors
<1>3. CASE t \in L
    <2>1. Loaded(L)[t].pending = files[t].pending /\ Loaded(L)[t].seq = files[t].seq
        BY <1>3 DEF Loaded
    <2>2. files[t].pending = records[t].pending
        BY <1>2 DEF Image
    <2>3. Waiting(Loaded(L)[t]) <=> Waiting(records[t])
        BY <1>2, <2>1, <2>2 DEF Waiting
    <2> QED
        BY <1>2, <1>3, <2>1, <2>3, PhaseFacts
<1>4. CASE t \notin L
    <2>1. Loaded(L)[t] = Absent
        BY <1>4 DEF Loaded
    <2>2. records[t].status = "absent"
        BY <1>2, <2>1, AbsentFacts
    <2> QED
        BY <1>2, <2>1, <2>2, AbsentFacts, PhaseFacts DEF Waiting
<1> QED
    BY <1>3, <1>4

\* A restart settles what was active and keeps what waits, each in its lane.
LEMMA RestartImplemented ==
    ASSUME AllLoaded, PInv, IInv', Restart
    PROVE  Implemented /\ Contract!Crash
<1> DEFINE loaded(L) == Pruned(Loaded(L))
           active(L, t) == loaded(L)[t].status \in Active
           stale(L, t) == StaleOnRestart(loaded(L)[t])
           recs(L, fault) == [t \in Tasks |->
               IF active(L, t) THEN Compacted(stale(L, t), fault[t]) ELSE loaded(L)[t]]
           seqs(L) == {files[t].seq : t \in L}
<1>1. PICK L \in LoadSets, fault \in ReconcileFaults :
         /\ records' = Pruned(recs(L, fault))
         /\ lanes' = [s \in Sessions |-> Rehydrated(s, loaded(L), Fresh)]
         /\ nextSeq' \in {n + 1 : n \in seqs(L) \cup {0}} /\ \A m \in seqs(L) : m < nextSeq'
    BY DEF Restart
<1> DEFINE before == loaded(L)
           now == recs(L, fault)
<1>2. Loaded(L) \in [Tasks -> Records]
    BY LoadedMirrors DEF PInv
<1>3. \A t \in Tasks : \/ before[t] = Loaded(L)[t]
                       \/ before[t] = Absent /\ Phase(Loaded(L)[t]) = "settled"
    <2>1. \A t \in Tasks :
             \/ before[t] = Loaded(L)[t]
             \/ /\ before[t] = Absent /\ Loaded(L)[t].status \in Terminal
                /\ ~Waiting(Loaded(L)[t])
        BY DEF Pruned, Overflow, Prunable
    <2> QED
        BY <1>2, <2>1, PhaseFacts DEF Terminal
<1>4. before \in [Tasks -> Records]
    <2>1. \A t \in Tasks : before[t] \in Records
        BY <1>2, <1>3, AbsentFacts
    <2> QED
        BY <2>1 DEF Pruned
<1>5. nextSeq' \in Nat \ {0}
    <2>1. \A t \in Tasks : files[t].seq \in Nat
        BY DEF PInv, MInv, IInv, Good, Typed, Images
    <2>2. L \subseteq Tasks
        BY DEF LoadSets, OnDisk
    <2>3. PICK n \in seqs(L) \cup {0} : nextSeq' = n + 1
        BY <1>1
    <2>4. n \in Nat
        BY <2>1, <2>2, <2>3
    <2> QED
        BY <2>3, <2>4
<1>6. \A t \in Tasks : before[t].seq < nextSeq'
    <2> SUFFICES ASSUME NEW t \in Tasks PROVE before[t].seq < nextSeq'
        OBVIOUS
    <2>1. before[t].seq = 0 \/ (t \in L /\ before[t].seq = files[t].seq)
        BY <1>3, LoadedSame, AbsentFacts
    <2>2. 0 < nextSeq' /\ (t \in L => files[t].seq < nextSeq')
        BY <1>1, <1>5
    <2> QED
        BY <2>1, <2>2
<1>7. \A t \in Tasks : /\ Phase(before[t]) = Phase(records[t]) \/
                            (Phase(records[t]) = "settled" /\ Phase(before[t]) = "idle")
                       /\ Waiting(before[t]) => Waiting(records[t])
    BY <1>3, LoadedSame, AbsentFacts DEF Waiting
<1>8. \A t \in Tasks :
         IF Phase(before[t]) \in {"ready", "executing"}
         THEN now[t].status = "stale" /\ now[t].seq = before[t].seq /\ now[t] \in Records
         ELSE now[t] = before[t]
    <2> SUFFICES ASSUME NEW t \in Tasks
                 PROVE  IF Phase(before[t]) \in {"ready", "executing"}
                        THEN /\ now[t].status = "stale" /\ now[t].seq = before[t].seq
                             /\ now[t] \in Records
                        ELSE now[t] = before[t]
        OBVIOUS
    <2> HIDE DEF loaded
    <2>1. active(L, t) <=> Phase(before[t]) \in {"ready", "executing"}
        BY <1>4, PhaseFacts DEF Active
    <2>2. active(L, t) => now[t] = Compacted(stale(L, t), fault[t])
        OBVIOUS
    <2>3. ~active(L, t) => now[t] = before[t]
        OBVIOUS
    <2>4. /\ stale(L, t) \in Records /\ stale(L, t).status = "stale"
          /\ stale(L, t).seq = before[t].seq
        BY <1>4 DEF StaleOnRestart, Ended, Records, Terminal
    <2> HIDE DEF stale, recs, active
    <2> QED
        BY <2>1, <2>2, <2>3, <2>4, CompactedTyped
<1>9. now \in [Tasks -> Records]
    <2>1. \A t \in Tasks : now[t] \in Records
        BY <1>4, <1>8
    <2> QED
        BY <2>1
<1>10. \A t \in Tasks : records'[t] = now[t] \/ (Phase(now[t]) = "settled" /\ records'[t] = Absent)
    <2>1. \A t \in Tasks :
             \/ records'[t] = now[t]
             \/ records'[t] = Absent /\ now[t].status \in Terminal /\ ~Waiting(now[t])
        BY <1>1 DEF Pruned, Overflow, Prunable
    <2> QED
        BY <1>9, <2>1, PhaseFacts DEF Terminal
<1>11. \A s \in Sessions : lanes'[s] = Rehydrated(s, before, Fresh)
    BY <1>1
<1> HIDE DEF loaded, recs, before, now
<1>12. ASSUME NEW t \in Tasks
       PROVE  /\ records'[t].status \notin Active /\ records'[t].seq < nextSeq'
              /\ Waiting(records'[t]) => Waiting(before[t])
              /\ \/ Phase(records[t]) \in {"idle", "parked", "settled"} /\ Same(records, t)
                 \/ Forgotten(records, t)
                 \/ /\ Phase(records[t]) \in {"ready", "executing"}
                    /\ Phase(records'[t]) \in {"settled", "idle"}
    <2>1. before[t] \in Records /\ now[t] \in Records /\ 0 < nextSeq'
        BY <1>4, <1>5, <1>9
    <2>2. CASE Phase(before[t]) \in {"ready", "executing"}
        <3>1. Phase(now[t]) = "settled" /\ ~Waiting(now[t]) /\ now[t].status \notin Active
            BY <1>8, <2>1, <2>2, PhaseFacts DEF Waiting, Active
        <3> QED
            BY <1>6, <1>7, <1>8, <1>10, <2>1, <2>2, <3>1, AbsentFacts
               DEF Waiting, Active
    <2>3. CASE Phase(before[t]) \notin {"ready", "executing"}
        <3>1. now[t] = before[t] /\ before[t].status \notin Active
            BY <1>8, <2>1, <2>3, PhaseFacts DEF Active
        <3>2. Phase(before[t]) \in {"idle", "parked", "settled"}
            BY <2>1, <2>3, PhaseFacts
        <3>3. CASE records'[t] = before[t]
            BY <1>6, <1>7, <3>1, <3>2, <3>3 DEF Same, Forgotten
        <3>4. CASE records'[t] = Absent /\ Phase(before[t]) = "settled"
            BY <1>7, <2>1, <3>4, AbsentFacts DEF Waiting, Active, Forgotten
        <3> QED
            BY <1>10, <3>1, <3>3, <3>4
    <2> QED
        BY <2>2, <2>3
<1>13. Placed(records', lanes', nextSeq')
    <2>1. records' \in [Tasks -> Records] /\ lanes' \in [Sessions -> Lanes]
        BY DEF IInv, Good, Typed
    <2>2. ASSUME NEW t \in Tasks, SessionOf[t] # NoSession, Holds(records'[t])
          PROVE  lanes'[SessionOf[t]].active = t
        <3>1. Waiting(before[t]) /\ SessionOf[t] \in Sessions
            BY <1>12, <2>2, ConstantsAssumption DEF Holds, Active
        <3>2. \A u \in WaitingIn(SessionOf[t], before) : u = t
            BY <1>7, <2>2, <3>1 DEF WaitingIn, PInv, Placed, Holds
        <3>3. t \in WaitingIn(SessionOf[t], before)
            BY <3>1 DEF WaitingIn
        <3> QED
            BY <1>4, <1>11, <3>1, <3>2, <3>3, RehydratedHeld
    <2>3. \A s \in Sessions : lanes'[s].pending = {}
        <3>1. Fresh \in Lanes /\ Fresh.pending = {}
            BY DEF Fresh, Lanes
        <3> QED
            BY <1>4, <1>11, <3>1, RehydratedShrinks DEF Shrinks
    <2> QED
        BY <1>5, <1>12, <2>1, <2>2, <2>3 DEF Placed, LaneKnown, Active
<1>14. Contract!Crash
    <2> DEFINE p == [u \in Tasks |-> Phase(records'[u])]
    <2>1. p \in [Tasks -> Contract!Phases]
        BY <1>13, PhaseFacts DEF Contract!Phases, Placed
    <2> QED
        BY <1>12, <2>1 DEF Contract!Crash, Contract!MayForget, Same, Forgotten
<1> QED
    BY <1>13, <1>14 DEF Implemented, Contract!Next

-----------------------------------------------------------------------------
(* The theorem of the contract                                             *)

\* At first no task holds a lane, and the contract has begun.
LEMMA InitPInv == Init => PInv /\ Contract!Init
<1> SUFFICES ASSUME Init PROVE PInv /\ Contract!Init
    OBVIOUS
<1>1. \A s \in Sessions : lanes[s] = Fresh
    BY DEF Init
<1>2. Fresh \in Lanes /\ Fresh.pending = {}
    BY DEF Fresh, Lanes
<1>3. Placed(records, lanes, nextSeq)
    BY <1>2, AbsentFacts DEF Init, Placed, LaneKnown
<1>4. Contract!Init
    BY AbsentFacts DEF Init, Contract!Init
<1> QED
    BY <1>3, <1>4, InitMInv DEF PInv

\* Every step keeps the invariant and is a step of the contract, or none.
LEMMA NextPInv ==
    ASSUME NoFaults, AllLoaded, PInv, [Next]_vars
    PROVE  PInv' /\ (Contract!Next \/ \A u \in Tasks : Same(records, u))
<1>1. MInv' /\ IInv'
    BY NextMInv DEF PInv, MInv
<1>2. ASSUME NEW t \in Tasks, Handler(t) PROVE Implemented
    <2>1. Requested \subseteq Deliveries
        BY ConstantsAssumption
    <2> QED
        BY <1>2, <2>1, DispatchImplemented, DuplicateImplemented, CancelImplemented,
           AnswerImplemented DEF Handler
<1>3. ASSUME NEW r \in Slots, Step(r) PROVE Implemented
    <2>1. Outcomes \ {"waiting"} \subseteq {"success", "error", "blocked"}
        BY ConstantsAssumption
    <2> QED
        BY <1>3, <2>1, StartImplemented, EndImplemented, UnwoundImplemented,
           NeverStartedImplemented DEF Step, BgResult
<1>4. ASSUME Shutdown \/ UNCHANGED vars PROVE Implemented
    BY <1>4 DEF Shutdown, vars, PInv, Implemented, Same
<1>5. ASSUME Restart PROVE Implemented
    BY <1>1, <1>5, RestartImplemented
<1>6. Implemented
    BY <1>2, <1>3, <1>4, <1>5 DEF Next
<1> QED
    BY <1>1, <1>6 DEF PInv, Implemented

\* While no write fails, the tracker, its lanes and its coroutines together implement the
\* contract of the service: a task moves along its life cycle only, a session runs or waits
\* for the user for one task at a time, a promoted task is never refused, and a restart
\* settles what was active and leaves what waits waiting.
THEOREM ContractIsImplemented ==
    ASSUME NoFaults, AllLoaded
    PROVE  Spec => ImplementsContract
<1> DEFINE phase == [t \in Tasks |-> Phase(records[t])]
<1>1. Init => Contract!Init
    BY InitPInv
<1>2. PInv /\ [Next]_vars => PInv' /\ (Contract!Next \/ UNCHANGED phase)
    BY NextPInv DEF Same
<1>3. PInv /\ [Next]_vars => [Contract!Next]_phase
    BY <1>2
<1>4. Init => PInv
    BY InitPInv
<1>5. PInv /\ [Next]_vars => PInv'
    BY <1>2
<1> QED
    BY <1>1, <1>3, <1>4, <1>5, PTL DEF Spec, ImplementsContract, Contract!Spec

\* A restart loses no question: the task that waits goes on waiting, and it has its lane.
THEOREM RestartKeepsAsking ==
    ASSUME NoFaults, AllLoaded
    PROVE  Spec => RestartKeepsWaiting
<1>1. ASSUME PInv, [Next]_vars, Restart, NEW t \in Tasks, Waiting(records[t])
      PROVE  /\ Waiting(records'[t])
             /\ SessionOf[t] = NoSession \/ lanes'[SessionOf[t]].active = t
    <2>1. Contract!Crash /\ PInv'
        BY <1>1, NextPInv, RestartImplemented DEF PInv, MInv
    <2>2. records[t] \in Records /\ records'[t] \in Records
        BY <1>1, <2>1 DEF PInv, Placed
    <2>3. Phase(records[t]) = "parked"
        BY <1>1, <2>2, PhaseFacts
    <2>4. Phase(records'[t]) = "parked"
        BY <2>1, <2>3 DEF Contract!Crash, Contract!MayForget
    <2>5. Waiting(records'[t])
        BY <2>2, <2>4, PhaseFacts
    <2> QED
        BY <2>1, <2>5 DEF PInv, Placed, Holds
<1>2. PInv /\ [Next]_vars =>
         (Restart => \A t \in Tasks :
            Waiting(records[t]) => /\ Waiting(records'[t])
                                   /\ \/ SessionOf[t] = NoSession
                                      \/ lanes'[SessionOf[t]].active = t)
    BY <1>1
<1>3. PInv /\ [Next]_vars => PInv'
    BY NextPInv
<1>4. Init => PInv
    BY InitPInv
<1> QED
    BY <1>2, <1>3, <1>4, PTL DEF Spec, RestartKeepsWaiting

-----------------------------------------------------------------------------
(* Lanes: the order of the tasks that wait in one.                         *)

\* The dictionary holds each task once, in a total order.
Lined(E) ==
    /\ \A e \in E : e.ahead \subseteq Waiters(E) /\ e.task \notin e.ahead
    /\ \A e, f \in E : e.task = f.task => e = f
    /\ \A e, f \in E : e = f \/ e.task \in f.ahead \/ f.task \in e.ahead
    /\ \A e, f \in E : e.task \in f.ahead => e.ahead \subseteq f.ahead

\* A task that waits was admitted with what its entry says, has no coroutine, and came
\* after the interrupt of the lane, which somebody else owns.
Queued(s, recs, lane) ==
    \A e \in lane.pending :
        /\ e.task # lane.active /\ SessionOf[e.task] = s
        /\ recs[e.task].status = "accepted" /\ recs[e.task].bg = None
        /\ recs[e.task].seq = e.seq /\ recs[e.task].delivery = e.delivery
        /\ AfterInterrupt(lane, e.seq)

\* Of the tasks in E that are not among the excused ones L, the first came first.
FirstCome(E, L) ==
    \A e, f \in E : e.task \notin L /\ f.task \notin L /\ e.task \in f.ahead => e.seq < f.seq

\* The task a may start before the tasks in E.
MayStart(a, recs, E, L) ==
    a \in Tasks \ L =>
        \A e \in E : e.task \notin L /\ e.seq < recs[a].seq
                     => e.delivery = "queue" /\ recs[a].delivery = "steer"

LaneFair(s, recs, lane, L) ==
    /\ lane \in Lanes
    /\ IF lane.active = None THEN lane.pending = {} ELSE SessionOf[lane.active] = s
    /\ Lined(lane.pending)
    /\ Queued(s, recs, lane)
    /\ FirstCome(lane.pending, L)
    /\ MayStart(lane.active, recs, lane.pending, L)

\* Each entry of a dictionary from which some were taken.
LEMMA InOrderFacts ==
    ASSUME NEW E \in SUBSET Entries
    PROVE  /\ \A e \in E : \E g \in InOrder(E) :
                 /\ g.task = e.task /\ g.seq = e.seq /\ g.delivery = e.delivery
                 /\ g.ahead = e.ahead \cap Waiters(E)
           /\ \A g \in InOrder(E) : \E e \in E :
                 /\ g = [e EXCEPT !.ahead = @ \cap Waiters(E)]
                 /\ g.task = e.task /\ g.seq = e.seq /\ g.delivery = e.delivery
                 /\ g.ahead = e.ahead \cap Waiters(E)
           /\ Waiters(InOrder(E)) = Waiters(E)
<1>1. ASSUME NEW e \in E
      PROVE  LET g == [e EXCEPT !.ahead = @ \cap Waiters(E)] IN
             /\ g \in InOrder(E)
             /\ g.task = e.task /\ g.seq = e.seq /\ g.delivery = e.delivery
             /\ g.ahead = e.ahead \cap Waiters(E)
    <2>1. e \in Entries
        OBVIOUS
    <2> QED
        BY <2>1 DEF InOrder, Entries
<1>2. \A g \in InOrder(E) : \E e \in E : g = [e EXCEPT !.ahead = @ \cap Waiters(E)]
    BY DEF InOrder
<1>3. \A e \in E : \E g \in InOrder(E) :
         /\ g.task = e.task /\ g.seq = e.seq /\ g.delivery = e.delivery
         /\ g.ahead = e.ahead \cap Waiters(E)
    BY <1>1
<1>4. \A g \in InOrder(E) : \E e \in E :
         /\ g = [e EXCEPT !.ahead = @ \cap Waiters(E)]
         /\ g.task = e.task /\ g.seq = e.seq /\ g.delivery = e.delivery
         /\ g.ahead = e.ahead \cap Waiters(E)
    BY ZenonT(60), <1>1, <1>2
<1>5. Waiters(InOrder(E)) = Waiters(E)
    <2>1. \A x \in Waiters(E) : x \in Waiters(InOrder(E))
        BY <1>3 DEF Waiters
    <2>2. \A x \in Waiters(InOrder(E)) : x \in Waiters(E)
        BY <1>4 DEF Waiters
    <2> QED
        BY <2>1, <2>2
<1> QED
    BY <1>3, <1>4, <1>5

\* A part of a dictionary is in order, and its tasks came as before.
LEMMA InOrderLined ==
    ASSUME NEW P \in SUBSET Entries, Lined(P), NEW E \in SUBSET P, NEW L, FirstCome(P, L)
    PROVE  Lined(InOrder(E)) /\ FirstCome(InOrder(E), L)
<1>1. E \in SUBSET Entries
    OBVIOUS
<1>2. \A g \in InOrder(E) : \E e \in E :
         /\ g = [e EXCEPT !.ahead = @ \cap Waiters(E)]
         /\ g.task = e.task /\ g.seq = e.seq /\ g.delivery = e.delivery
         /\ g.ahead = e.ahead \cap Waiters(E)
    BY <1>1, InOrderFacts
<1>3. Waiters(InOrder(E)) = Waiters(E)
    BY <1>1, InOrderFacts
<1>4. \A e \in E : e.task \in Waiters(E)
    BY DEF Waiters
<1>5. \A g \in InOrder(E) : g.ahead \subseteq Waiters(InOrder(E)) /\ g.task \notin g.ahead
    BY <1>2, <1>3 DEF Lined
<1>6. ASSUME NEW g \in InOrder(E), NEW h \in InOrder(E)
      PROVE  /\ g.task = h.task => g = h
             /\ g = h \/ g.task \in h.ahead \/ h.task \in g.ahead
             /\ g.task \in h.ahead => g.ahead \subseteq h.ahead
             /\ g.task \notin L /\ h.task \notin L /\ g.task \in h.ahead => g.seq < h.seq
    <2>1. PICK e \in E : /\ g = [e EXCEPT !.ahead = @ \cap Waiters(E)]
                         /\ g.task = e.task /\ g.seq = e.seq
                         /\ g.ahead = e.ahead \cap Waiters(E)
        BY <1>2
    <2>2. PICK f \in E : /\ h = [f EXCEPT !.ahead = @ \cap Waiters(E)]
                         /\ h.task = f.task /\ h.seq = f.seq
                         /\ h.ahead = f.ahead \cap Waiters(E)
        BY <1>2
    <2>3. e \in P /\ f \in P
        OBVIOUS
    <2>4. g.task = h.task => g = h
        BY SMTT(40), <2>1, <2>2, <2>3 DEF Lined
    <2>5. g = h \/ g.task \in h.ahead \/ h.task \in g.ahead
        <3>1. e = f \/ e.task \in f.ahead \/ f.task \in e.ahead
            BY <2>3 DEF Lined
        <3> QED
            BY <3>1, <2>1, <2>2, <1>4
    <2>6. g.task \in h.ahead => g.ahead \subseteq h.ahead
        BY <2>1, <2>2, <2>3 DEF Lined
    <2>7. g.task \notin L /\ h.task \notin L /\ g.task \in h.ahead => g.seq < h.seq
        BY <2>1, <2>2, <2>3 DEF FirstCome
    <2> QED
        BY <2>4, <2>5, <2>6, <2>7
<1> QED
    BY <1>5, <1>6 DEF Lined, FirstCome

\* A lane that keeps some of the entries of another one.
LEMMA PartFair ==
    ASSUME NEW s, NEW recs, NEW lane, NEW L, LaneFair(s, recs, lane, L),
           NEW E \in SUBSET lane.pending, NEW lane2 \in Lanes, lane2.pending = InOrder(E),
           IF lane2.active = None THEN lane2.pending = {} ELSE SessionOf[lane2.active] = s,
           \A e \in E : e.task # lane2.active /\ AfterInterrupt(lane2, e.seq),
           MayStart(lane2.active, recs, E, L)
    PROVE  LaneFair(s, recs, lane2, L)
<1>1. lane.pending \in SUBSET Entries /\ E \in SUBSET Entries
    BY DEF LaneFair, Lanes
<1>2. Lined(lane2.pending) /\ FirstCome(lane2.pending, L)
    BY <1>1, InOrderLined DEF LaneFair
<1>3. \A g \in lane2.pending : \E e \in E :
         g.task = e.task /\ g.seq = e.seq /\ g.delivery = e.delivery
    BY <1>1, InOrderFacts
<1>4. Queued(s, recs, lane2)
    BY <1>3 DEF LaneFair, Queued
<1>5. MayStart(lane2.active, recs, lane2.pending, L)
    BY <1>3 DEF MayStart
<1> QED
    BY <1>2, <1>4, <1>5 DEF LaneFair

\* Who still waits in a lane that one task left.
LEMMA WithoutWaiters ==
    ASSUME NEW lane \in Lanes, NEW t \in Tasks
    PROVE  Waiters(Without(lane, t).pending) = Waiters(lane.pending) \ {t}
<1> DEFINE E == {e \in lane.pending : e.task # t}
<1>1. E \in SUBSET Entries /\ Waiters(E) = Waiters(lane.pending) \ {t}
    BY DEF Lanes, Waiters
<1>2. Without(lane, t).pending = InOrder(E)
    BY DEF Without, Lanes
<1> HIDE DEF E
<1> QED
    BY <1>1, <1>2, InOrderFacts

\* A lane without one of its tasks.
LEMMA WithoutFair ==
    ASSUME NEW s, NEW recs, NEW lane, NEW L, LaneFair(s, recs, lane, L), NEW t \in Tasks
    PROVE  /\ LaneFair(s, recs, Without(lane, t), L)
           /\ LaneFair(s, recs, Dropped(Without(lane, t)), L)
<1> DEFINE E == {e \in lane.pending : e.task # t}
           lane2 == Without(lane, t)
<1>1. lane \in Lanes /\ E \in SUBSET Entries
    BY DEF LaneFair, Lanes
<1>2. lane2 \in Lanes /\ lane2.active = lane.active
    BY <1>1, WithoutTyped
<1>3. lane2.pending = InOrder(E) /\ lane2.interrupt = lane.interrupt
    BY <1>1 DEF Without, Lanes
<1>4. E \in SUBSET lane.pending
    OBVIOUS
<1>6. IF lane.active = None THEN E = {} ELSE SessionOf[lane.active] = s
    BY <1>4 DEF LaneFair
<1> HIDE DEF E, lane2
<1>7. InOrder({}) = {}
    BY DEF InOrder
<1>8. \A e \in E : e.task # lane2.active /\ AfterInterrupt(lane2, e.seq)
    BY <1>2, <1>3, <1>4 DEF LaneFair, Queued, AfterInterrupt
<1>9. MayStart(lane2.active, recs, E, L)
    BY <1>2, <1>4 DEF LaneFair, MayStart
<1>10. LaneFair(s, recs, lane2, L)
    BY <1>2, <1>3, <1>4, <1>6, <1>7, <1>8, <1>9, PartFair
<1>11. Dropped(lane2) = lane2 \/ (lane2.active = None /\ Dropped(lane2) = Fresh)
    BY DEF Dropped
<1>12. LaneFair(s, recs, Fresh, L)
    BY NoneAssumption DEF LaneFair, Fresh, Lanes, Lined, Queued, FirstCome, MayStart
<1> QED
    BY <1>10, <1>11, <1>12 DEF lane2

\* The lane of a session nobody works for.
LEMMA FreshFair ==
    ASSUME NEW s, NEW recs, NEW L
    PROVE  LaneFair(s, recs, Fresh, L) /\ Fresh.active = None /\ Fresh.pending = {}
BY NoneAssumption DEF LaneFair, Fresh, Lanes, Lined, Queued, FirstCome, MayStart

\* A lane without tasks that is given to one.
LEMMA ActivatedFair ==
    ASSUME NEW s, NEW recs, NEW lane \in Lanes, NEW L, lane.pending = {},
           NEW t \in Tasks, SessionOf[t] = s
    PROVE  /\ LaneFair(s, recs, Activated(lane, t), L)
           /\ Activated(lane, t).active = t /\ Activated(lane, t).pending = {}
<1>1. Activated(lane, t) \in Lanes /\ Activated(lane, t).active = t
    BY ActivatedTyped
<1>2. Activated(lane, t).pending = {}
    <2>1. Without(lane, t).pending = {}
        BY DEF Without, InOrder, Lanes
    <2>2. Without(lane, t) \in Lanes
        BY WithoutTyped
    <2> QED
        BY <2>1, <2>2 DEF Activated, Lanes
<1> QED
    BY <1>1, <1>2, NoneAssumption DEF LaneFair, Lined, Queued, FirstCome, MayStart

\* A set of numbers that is not empty has a least member.
LEMMA LeastNumber ==
    ASSUME NEW T \in SUBSET Nat, T # {}
    PROVE  \E x \in T : \A y \in T : x <= y
<1>1. IsWellFoundedOn({ss \in Nat \X Nat : ss[1] < ss[2]}, Nat)
    BY NatLessThanWellFounded DEF OpToRel
<1>2. PICK x \in T : \A y \in T : ~(<<y, x>> \in {ss \in Nat \X Nat : ss[1] < ss[2]})
    BY <1>1, WFMin
<1>3. \A y \in T : ~(y < x)
    BY <1>2
<1> QED
    BY <1>3

\* Some entry comes first.
LEMMA EarliestExists ==
    ASSUME IsFiniteSet(Tasks), NEW P \in SUBSET Entries, Lined(P), NEW E \in SUBSET P, E # {}
    PROVE  Earliest(E) # {}
<1> DEFINE Sizes == {Cardinality(e.ahead) : e \in E}
<1>1. \A e \in P : e.ahead \in SUBSET Tasks
    BY DEF Entries
<1>2. \A e \in P : IsFiniteSet(e.ahead) /\ Cardinality(e.ahead) \in Nat
    BY <1>1, FS_Subset, FS_CardinalityType
<1>3. Sizes \in SUBSET Nat /\ Sizes # {}
    BY <1>2
<1>4. PICK n \in Sizes : \A m \in Sizes : n <= m
    BY <1>3, LeastNumber
<1>5. PICK e \in E : Cardinality(e.ahead) = n
    BY <1>4
<1>6. ASSUME NEW f \in E, f.task \in e.ahead PROVE FALSE
    <2>1. f.ahead \in SUBSET e.ahead /\ f.task \notin f.ahead /\ f \in P /\ e \in P
        BY <1>6 DEF Lined
    <2>2. Cardinality(f.ahead) <= Cardinality(e.ahead)
        BY <1>2, <2>1, FS_Subset
    <2>3. Cardinality(f.ahead) # Cardinality(e.ahead)
        BY <1>2, <1>6, <2>1, FS_Subset
    <2>4. n <= Cardinality(f.ahead)
        BY <1>4
    <2>5. Cardinality(f.ahead) \in Nat /\ Cardinality(e.ahead) \in Nat
        BY <1>2, <2>1
    <2> QED
        BY <1>5, <2>2, <2>3, <2>4, <2>5
<1>7. e \in Earliest(E)
    BY <1>6 DEF Earliest, Waiters
<1> QED
    BY <1>7

\* complete(): the lane goes to the task that may start before the others.
LEMMA CompletedFair ==
    ASSUME IsFiniteSet(Tasks), NEW s, NEW recs, NEW lane, NEW L, LaneFair(s, recs, lane, L),
           NEW t \in Tasks
    PROVE  /\ LaneFair(s, recs, Completed(lane, t), L)
           /\ \A u \in Waiters(lane.pending) \ {t} :
                 \/ Completed(lane, t).active = u
                 \/ u \in Waiters(Completed(lane, t).pending)
           /\ NextOnComplete(lane, t) # None =>
                 /\ Completed(lane, t).active = NextOnComplete(lane, t)
                 /\ Completed(lane, t).interrupt = lane.interrupt
                 /\ \E e \in lane.pending : e.task = NextOnComplete(lane, t)
<1>1. CASE lane.active # t
    <2>1. Completed(lane, t) = Dropped(Without(lane, t)) /\ NextOnComplete(lane, t) = None
        BY <1>1 DEF Completed, NextOnComplete
    <2>2a. LaneFair(s, recs, Dropped(Without(lane, t)), L)
        BY WithoutFair
    <2>2b. Waiters(Without(lane, t).pending) = Waiters(lane.pending) \ {t}
        BY WithoutWaiters DEF LaneFair
    <2>3. \/ Dropped(Without(lane, t)) = Without(lane, t)
          \/ Waiters(Without(lane, t).pending) = {}
        BY DEF Dropped, Waiters
    <2> QED
        BY <2>1, <2>2a, <2>2b, <2>3
<1>2. CASE lane.active = t
    <2> DEFINE P == lane.pending
               steers == {e \in P : e.delivery = "steer"}
               S == IF steers # {} THEN steers ELSE P
               free == Released(lane)
               rest == [free EXCEPT !.pending = InOrder(P)]
               kept == [lane EXCEPT !.pending = InOrder(P)]
    <2>1. lane \in Lanes /\ P \in SUBSET Entries /\ Lined(P)
        BY DEF LaneFair, Lanes
    <2>2. /\ free \in Lanes /\ free.pending = P /\ free.interrupt = lane.interrupt
          /\ free.active = None
        BY <2>1 DEF Released, Lanes
    <2>3. Completed(lane, t) = Dropped(PromotedNext(free)) /\ NextOnComplete(lane, t) = Promoted(free)
        BY <1>2 DEF Completed, NextOnComplete
    <2>4. Surviving(free) = P
        BY <2>2 DEF Surviving, LaneFair, Queued, AfterInterrupt
    <2>5. Candidates(free) = Earliest(S)
        BY <2>4 DEF Candidates
    <2>6. InOrder(P) \in SUBSET Entries /\ Waiters(InOrder(P)) = Waiters(P)
        BY <2>1, PendingTyped, InOrderFacts
    <2> HIDE DEF free
    <2>7. /\ rest \in Lanes /\ rest.pending = InOrder(P) /\ rest.active = None
          /\ rest.interrupt = lane.interrupt
        BY <2>2, <2>6 DEF Lanes
    <2>8. /\ kept \in Lanes /\ kept.pending = InOrder(P) /\ kept.active = lane.active
          /\ kept.interrupt = lane.interrupt
        BY <2>1, <2>6 DEF Lanes
    <2> HIDE DEF rest, kept, P
    <2>9. CASE P = {}
        <3>1. Candidates(free) = {}
            BY <2>5, <2>9 DEF Earliest
        <3>2. Promoted(free) = None /\ PromotedNext(free) = rest
            BY <2>4, <3>1 DEF Promoted, PromotedNext, rest
        <3>3. rest.pending = {} /\ Waiters(P) = {}
            BY <2>7, <2>9 DEF InOrder, Waiters
        <3>4. Dropped(rest) = Fresh
            BY <2>7, <3>3 DEF Dropped
        <3> QED
            BY <2>3, <3>2, <3>3, <3>4, FreshFair DEF P
    <2>10. CASE P # {}
        <3>1. S \in SUBSET P /\ S # {}
            BY <2>10
        <3>2. Earliest(S) # {}
            BY <2>1, <3>1, EarliestExists
        <3>3. PICK e \in Earliest(S) : Promoted(free) = e.task
            BY <2>5, <3>2 DEF Promoted
        <3>4. e \in S /\ e \in P /\ e.ahead \cap Waiters(S) = {}
            BY <3>1 DEF Earliest
        <3>5. PICK p \in Tasks : p = e.task
            BY <2>1, <3>4 DEF Entries
        <3>6. Promoted(free) = p /\ p # None
            BY <3>3, <3>5, NoneAssumption
        <3>7. PromotedNext(free) = Activated(rest, p)
            BY <2>4, <3>6 DEF PromotedNext, rest
        <3> DEFINE lane2 == Activated(rest, p)
                   E2 == {g \in InOrder(P) : g.task # p}
        <3>8. lane2 \in Lanes /\ lane2.active = p
            BY <2>7, ActivatedTyped
        <3>9. lane2.pending = InOrder(E2) /\ lane2.interrupt = lane.interrupt
            <4>1. Without(rest, p) \in Lanes
                BY <2>7, WithoutTyped
            <4>2. Without(rest, p).pending = InOrder(E2) /\ Without(rest, p).interrupt = rest.interrupt
                BY <2>7 DEF Without, Lanes
            <4> QED
                BY <2>7, <4>1, <4>2 DEF Activated, Lanes
        <3>10. Waiters(lane2.pending) = Waiters(P) \ {p}
            <4>1. Waiters(E2) = Waiters(InOrder(P)) \ {p}
                BY DEF Waiters
            <4>2. E2 \in SUBSET Entries
                BY <2>6
            <4> QED
                BY <2>6, <3>9, <4>1, <4>2, InOrderFacts
        <3>11. Dropped(lane2) = lane2
            BY <3>6, <3>8 DEF Dropped
        <3>12. LaneFair(s, recs, kept, L)
            <4>1. \A x \in P : x.task # kept.active /\ AfterInterrupt(kept, x.seq)
                BY <2>8 DEF LaneFair, Queued, AfterInterrupt, P
            <4>2. MayStart(kept.active, recs, P, L)
                BY <2>8 DEF LaneFair, P
            <4>3. P \in SUBSET lane.pending /\ kept.active # None
                BY <1>2, <2>8, NoneAssumption DEF P
            <4> QED
                BY <2>8, <4>1, <4>2, <4>3, PartFair DEF LaneFair
        <3>13. \A g \in E2 : g.task # lane2.active /\ AfterInterrupt(lane2, g.seq)
            BY <2>8, <3>8, <3>9, <3>12 DEF LaneFair, Queued, AfterInterrupt
        <3>14. MayStart(p, recs, E2, L)
            <4> SUFFICES ASSUME p \notin L, NEW g \in E2, g.task \notin L, g.seq < recs[p].seq
                         PROVE  g.delivery = "queue" /\ recs[p].delivery = "steer"
                BY DEF MayStart
            <4>1. PICK f \in P : f.task = g.task /\ f.seq = g.seq /\ f.delivery = g.delivery
                BY <2>1, InOrderFacts
            <4>2. recs[p].seq = e.seq /\ recs[p].delivery = e.delivery
                BY <3>4, <3>5 DEF LaneFair, Queued, P
            <4>3. e.seq \in Nat /\ f.seq \in Nat /\ f.delivery \in Deliveries
                BY <2>1, <3>4 DEF Entries
            <4>4. FirstCome(P, L)
                BY DEF LaneFair, P
            <4>5. e.task \notin f.ahead
                BY <3>4, <3>5, <4>1, <4>2, <4>3, <4>4 DEF FirstCome
            <4>6. f.task \in e.ahead
                BY <2>1, <3>4, <3>5, <4>1, <4>5 DEF Lined
            <4>7. f \notin S
                BY <3>4, <4>6 DEF Waiters
            <4> QED
                BY <3>4, <4>1, <4>2, <4>3, <4>7 DEF Deliveries
        <3>15. LaneFair(s, recs, lane2, L)
            <4>1. E2 \in SUBSET kept.pending
                BY <2>8
            <4>2. lane2.active # None /\ SessionOf[lane2.active] = s
                BY <3>4, <3>5, <3>6, <3>8 DEF LaneFair, Queued, P
            <4> HIDE DEF lane2, E2
            <4> QED
                BY <3>8, <3>9, <3>12, <3>13, <3>14, <4>1, <4>2, PartFair
        <3>16. \E x \in lane.pending : x.task = p
            BY <3>4, <3>5 DEF P
        <3> HIDE DEF lane2
        <3> QED
            BY <2>3, <3>6, <3>7, <3>8, <3>9, <3>10, <3>11, <3>15, <3>16 DEF lane2, P
    <2> QED
        BY <2>9, <2>10
<1> QED
    BY <1>1, <1>2

\* A lane that holds a task it knew, or the last one admitted, or that nobody counts on.
Newest(t, recs, L) == \A u \in Tasks \ L : u # t => recs[u].seq < recs[t].seq

Place(t, recs, lane, L) ==
    \/ lane.active = t \/ t \in Waiters(lane.pending)
    \/ t \in L \/ Newest(t, recs, L)
    \/ lane.pending = {} /\ lane.active \in L \cup {None}

\* The records of the tasks that wait in a lane stay as they were.
LEMMA RecordsFair ==
    ASSUME NEW s, NEW recs, NEW lane, NEW L, LaneFair(s, recs, lane, L),
           NEW recs2 \in [Tasks -> Records], NEW L2, L \subseteq L2,
           \A e \in lane.pending :
              /\ recs2[e.task].status = recs[e.task].status /\ recs2[e.task].bg = recs[e.task].bg
              /\ recs2[e.task].seq = recs[e.task].seq
              /\ recs2[e.task].delivery = recs[e.task].delivery,
           lane.active \in Tasks =>
              \/ /\ recs2[lane.active].seq = recs[lane.active].seq
                 /\ recs2[lane.active].delivery = recs[lane.active].delivery
              \/ recs2[lane.active].seq = 0
              \/ lane.active \in L2
    PROVE  LaneFair(s, recs2, lane, L2)
<1>1. Queued(s, recs2, lane)
    BY DEF LaneFair, Queued
<1>2. FirstCome(lane.pending, L2)
    BY DEF LaneFair, FirstCome
<1>3. MayStart(lane.active, recs2, lane.pending, L2)
    <2>1. \A e \in lane.pending : e.seq \in Nat
        BY DEF LaneFair, Lanes, Entries
    <2>2. CASE lane.active \in Tasks \ L2 /\ recs2[lane.active].seq = 0
        BY <2>1, <2>2 DEF MayStart
    <2>3. CASE ~(lane.active \in Tasks \ L2 /\ recs2[lane.active].seq = 0)
        BY <2>3 DEF LaneFair, MayStart
    <2> QED
        BY <2>2, <2>3
<1> QED
    BY <1>1, <1>2, <1>3 DEF LaneFair

\* hold_for_user_input() leaves the tasks that wait as they are.
LEMMA HeldFair ==
    ASSUME NEW s, NEW recs, NEW lane, NEW L, LaneFair(s, recs, lane, L), NEW t \in Tasks
    PROVE  /\ LaneFair(s, recs, HeldForUserInput(lane, t), L)
           /\ HeldForUserInput(lane, t).active = lane.active
           /\ HeldForUserInput(lane, t).pending = lane.pending
<1>1. lane \in Lanes
    BY DEF LaneFair
<1>2. HeldForUserInput(lane, t) \in Lanes
    BY <1>1, HeldTyped
<1>3. /\ HeldForUserInput(lane, t).active = lane.active
      /\ HeldForUserInput(lane, t).pending = lane.pending
      /\ HeldForUserInput(lane, t).interrupt = lane.interrupt
    BY <1>1 DEF HeldForUserInput, Lanes
<1> HIDE DEF HeldForUserInput
<1>4. Queued(s, recs, HeldForUserInput(lane, t))
    BY <1>3 DEF LaneFair, Queued, AfterInterrupt
<1> QED
    BY <1>2, <1>3, <1>4 DEF LaneFair

\* cancel() of a task takes it and what it interrupts out of its lane.
LEMMA CancelledFair ==
    ASSUME NEW s, NEW recs, NEW lane, NEW L, LaneFair(s, recs, lane, L), NEW t \in Tasks,
           NEW seq \in Nat
    PROVE  /\ LaneFair(s, recs, Cancelled(lane, t, seq), L)
           /\ t \notin Waiters(Cancelled(lane, t, seq).pending)
           /\ lane.active = t => Cancelled(lane, t, seq).active = t
<1>1. lane \in Lanes
    BY DEF LaneFair
<1>2. CASE lane.active = t
    <2> DEFINE E == {e \in lane.pending : e.seq > seq}
               lane2 == Cancelled(lane, t, seq)
    <2>1. lane2 \in Lanes /\ lane2.active = t
        BY <1>1, <1>2, CancelledTyped
    <2>2. lane2.pending = InOrder(E) /\ lane2.interrupt = Higher(lane.interrupt, seq)
        BY <1>1, <1>2 DEF Cancelled, Lanes
    <2>3. E \in SUBSET lane.pending /\ E \in SUBSET Entries
        BY <1>1 DEF Lanes
    <2>4. \A e \in E : AfterInterrupt(lane2, e.seq)
        BY <1>1, <2>2 DEF LaneFair, Queued, AfterInterrupt, Higher, Lanes, Entries
    <2>5. \A e \in E : e.task # lane2.active
        BY <1>2, <2>1 DEF LaneFair, Queued
    <2>6. MayStart(lane2.active, recs, E, L)
        BY <1>2, <2>1 DEF LaneFair, MayStart
    <2>9. lane2.active # None /\ SessionOf[lane2.active] = s
        BY <1>2, <2>1, NoneAssumption DEF LaneFair
    <2> HIDE DEF E, lane2
    <2>7. LaneFair(s, recs, lane2, L)
        BY <2>1, <2>2, <2>3, <2>4, <2>5, <2>6, <2>9, PartFair
    <2>8. t \notin Waiters(lane2.pending)
        BY <2>1, <2>7 DEF LaneFair, Queued, Waiters
    <2> QED
        BY <2>1, <2>7, <2>8 DEF lane2
<1>3. CASE lane.active # t /\ IsPending(lane, t)
    <2>1. Cancelled(lane, t, seq) = Dropped(Without(lane, t))
        BY <1>3 DEF Cancelled
    <2>2. LaneFair(s, recs, Dropped(Without(lane, t)), L)
        BY WithoutFair
    <2>3. Waiters(Without(lane, t).pending) = Waiters(lane.pending) \ {t}
        BY <1>1, WithoutWaiters
    <2>4. t \notin Waiters(Dropped(Without(lane, t)).pending)
        BY <2>3 DEF Dropped, Fresh, Waiters
    <2> QED
        BY <1>3, <2>1, <2>2, <2>4
<1>4. CASE lane.active # t /\ ~IsPending(lane, t)
    BY <1>4 DEF Cancelled, IsPending
<1> QED
    BY <1>2, <1>3, <1>4

\* A lane that is put to rest, or given to the task that waits for the user.
LEMMA RehydratedFair ==
    ASSUME NEW s, NEW recs \in [Tasks -> Records], NEW lane, NEW L, LaneFair(s, recs, lane, L)
    PROVE  /\ LaneFair(s, recs, Rehydrated(s, recs, lane), L)
           /\ lane.active # None => Rehydrated(s, recs, lane) = lane
           /\ lane.active = None =>
                 /\ Rehydrated(s, recs, lane).pending = {}
                 /\ Rehydrated(s, recs, lane).active \in WaitingIn(s, recs) \cup {None}
<1> DEFINE first == {t \in WaitingIn(s, recs) :
                       \A u \in WaitingIn(s, recs) : recs[t].seq <= recs[u].seq}
           w == CHOOSE t \in first : TRUE
           next == Scheduled(lane, w, recs[w].seq, recs[w].delivery)
<1>1. first \in SUBSET Tasks /\ first \subseteq WaitingIn(s, recs)
    BY DEF WaitingIn
<1>2. lane \in Lanes /\ (lane.active = None => lane.pending = {})
    BY SMTT(40) DEF LaneFair
<1>3. CASE lane.active # None \/ first = {}
    BY <1>2, <1>3 DEF Rehydrated
<1>4. CASE ~(lane.active # None \/ first = {})
    <2>1. w \in Tasks /\ w \in WaitingIn(s, recs) /\ SessionOf[w] = s
        BY <1>1, <1>4 DEF WaitingIn
    <2>2. Rehydrated(s, recs, lane) = HeldForUserInput(next, w)
        BY <1>4 DEF Rehydrated
    <2>3. next = Activated(lane, w) \/ next = lane
        BY <1>4 DEF Scheduled, ScheduleDecision
    <2> HIDE DEF w, next
    <2>4. /\ LaneFair(s, recs, Activated(lane, w), L)
          /\ Activated(lane, w).active = w /\ Activated(lane, w).pending = {}
        BY <1>2, <1>4, <2>1, ActivatedFair
    <2>5. LaneFair(s, recs, next, L) /\ next.active \in {w, None} /\ next.pending = {}
        BY <1>2, <1>4, <2>3, <2>4
    <2>6. /\ LaneFair(s, recs, HeldForUserInput(next, w), L)
          /\ HeldForUserInput(next, w).active = next.active
          /\ HeldForUserInput(next, w).pending = next.pending
        BY <2>1, <2>5, HeldFair
    <2> QED
        BY <1>4, <2>1, <2>2, <2>5, <2>6
<1> QED
    BY <1>3, <1>4

\* The lane that is reconciled still has its place for a task that is to be scheduled.
LEMMA ReconciledFair ==
    ASSUME IsFiniteSet(Tasks), NEW s, NEW recs \in [Tasks -> Records], NEW lane, NEW L,
           LaneFair(s, recs, lane, L),
           NEW t \in Tasks, recs[t].status \in Active, recs[t].bg = None,
           Place(t, recs, lane, L),
           \A u \in WaitingIn(s, recs) \ L : lane.active = u
    PROVE  /\ LaneFair(s, recs, Reconciled(s, recs, lane), L)
           /\ Place(t, recs, Reconciled(s, recs, lane), L)
<1>1. lane \in Lanes /\ lane.active \in Tasks \cup {None}
    BY DEF LaneFair, Lanes
<1>2. CASE lane.active = None
    <2>1. Reconciled(s, recs, lane) = Rehydrated(s, recs, lane)
        BY <1>2 DEF Reconciled
    <2>2. WaitingIn(s, recs) \subseteq L
        BY <1>2, NoneAssumption DEF WaitingIn
    <2>3. /\ LaneFair(s, recs, Rehydrated(s, recs, lane), L)
          /\ Rehydrated(s, recs, lane).pending = {}
          /\ Rehydrated(s, recs, lane).active \in WaitingIn(s, recs) \cup {None}
        BY <1>2, RehydratedFair
    <2> QED
        BY <2>1, <2>2, <2>3 DEF Place
<1>3. CASE lane.active # None /\ recs[lane.active].status = "absent"
    <2>1. Reconciled(s, recs, lane) = Rehydrated(s, recs, Fresh)
        BY <1>3 DEF Reconciled
    <2>2. WaitingIn(s, recs) \subseteq L
        BY <1>3 DEF WaitingIn, Waiting
    <2>3. /\ LaneFair(s, recs, Rehydrated(s, recs, Fresh), L)
          /\ Rehydrated(s, recs, Fresh).pending = {}
          /\ Rehydrated(s, recs, Fresh).active \in WaitingIn(s, recs) \cup {None}
        BY FreshFair, RehydratedFair
    <2> QED
        BY <2>1, <2>2, <2>3 DEF Place
<1>4. CASE Reconciled(s, recs, lane) = lane
    BY <1>4
<1>5. CASE /\ lane.active # None /\ recs[lane.active].status # "absent"
           /\ Reconciled(s, recs, lane) # lane
    <2>1. Reconciled(s, recs, lane) = Completed(lane, lane.active) /\ lane.active # t
        BY <1>5 DEF Reconciled
    <2>2. lane.active \in Tasks
        BY <1>1, <1>5
    <2>3. LaneFair(s, recs, Completed(lane, lane.active), L)
        BY <2>2, CompletedFair
    <2>4. \A u \in Waiters(lane.pending) \ {lane.active} :
             \/ Completed(lane, lane.active).active = u
             \/ u \in Waiters(Completed(lane, lane.active).pending)
        BY <2>2, CompletedFair
    <2>5. CASE t \in Waiters(lane.pending)
        BY <2>1, <2>3, <2>4, <2>5 DEF Place
    <2>6. CASE t \in L \/ Newest(t, recs, L)
        BY <2>1, <2>3, <2>6 DEF Place
    <2>7. CASE lane.pending = {} /\ lane.active \in L
        <3>1. Completed(lane, lane.active) = Fresh
            <4>1. lane.pending = {} /\ Released(lane) \in Lanes /\ Released(lane).pending = {}
                BY <1>1, <2>7 DEF Released, Lanes
            <4>2. Candidates(Released(lane)) = {} /\ InOrder(Surviving(Released(lane))) = {}
                BY <4>1 DEF Candidates, Surviving, Earliest, InOrder
            <4>3. PromotedNext(Released(lane)) = [Released(lane) EXCEPT !.pending = {}]
                BY <4>2 DEF Promoted, PromotedNext
            <4>4. Released(lane).active = None
                BY <1>1 DEF Released, Lanes
            <4> QED
                BY <4>1, <4>3, <4>4 DEF Completed, Dropped, Lanes
        <3> QED
            BY <2>1, <3>1, FreshFair DEF Place
    <2> QED
        BY <1>5, <2>1, <2>5, <2>6, <2>7 DEF Place
<1> QED
    BY <1>2, <1>3, <1>4, <1>5

\* schedule() puts a task behind all that were admitted before it.
LEMMA ScheduledFair ==
    ASSUME NEW s, NEW recs \in [Tasks -> Records], NEW lane, NEW L, LaneFair(s, recs, lane, L),
           NEW t \in Tasks, SessionOf[t] = s, recs[t].status = "accepted", recs[t].bg = None,
           Place(t, recs, lane, L),
           NEW lane2, lane2 = Scheduled(lane, t, recs[t].seq, recs[t].delivery),
           NEW decision, decision = ScheduleDecision(lane, t, recs[t].seq)
    PROVE  /\ LaneFair(s, recs, lane2, L)
           /\ decision \in {"start", "active"} => lane2.active = t
           /\ decision = "suppressed" => t \notin Waiters(lane2.pending)
<1> DEFINE seq == recs[t].seq
           d == recs[t].delivery
<1>1. lane \in Lanes /\ lane.pending \in SUBSET Entries /\ seq \in Nat /\ d \in Deliveries
    BY DEF LaneFair, Lanes, Records
<1>2. CASE decision = "start"
    <2>1. lane.active = None /\ lane2 = Activated(lane, t)
        BY <1>2 DEF ScheduleDecision, Scheduled
    <2>2. lane.pending = {}
        BY <2>1 DEF LaneFair
    <2>3. LaneFair(s, recs, Activated(lane, t), L) /\ Activated(lane, t).active = t
        BY <1>1, <2>2, ActivatedFair
    <2> QED
        BY <1>2, <2>1, <2>3
<1>3. CASE decision = "active"
    BY <1>3 DEF ScheduleDecision, Scheduled
<1>4. CASE decision = "suppressed"
    <2>1. lane2 = lane /\ ~AfterInterrupt(lane, seq)
        BY <1>4 DEF ScheduleDecision, Scheduled
    <2>2. t \notin Waiters(lane.pending)
        BY <2>1 DEF LaneFair, Queued, Waiters
    <2> QED
        BY <1>4, <2>1, <2>2
<1>5. CASE decision = "queued"
    <2>1. /\ lane2 = Enqueued(lane, t, seq, d) /\ AfterInterrupt(lane, seq)
          /\ lane.active # None /\ lane.active # t
        BY <1>5 DEF ScheduleDecision, Scheduled
    <2>2. CASE IsPending(lane, t)
        BY <1>5, <2>1, <2>2 DEF Enqueued
    <2>3. CASE ~IsPending(lane, t)
        <3> DEFINE P == lane.pending
                   x == [task |-> t, seq |-> seq, delivery |-> d, ahead |-> Waiters(P)]
        <3>1. lane2 \in Lanes /\ lane2.active = lane.active
            BY <1>1, <2>1, EnqueuedTyped
        <3>2. lane2.pending = P \cup {x} /\ lane2.interrupt = lane.interrupt
            BY <1>1, <2>1, <2>3 DEF Enqueued, Lanes
        <3>3. t \notin Waiters(P) /\ Lined(P) /\ FirstCome(P, L)
            BY <2>3 DEF IsPending, LaneFair
        <3>4. x.task = t /\ x.seq = seq /\ x.delivery = d /\ x.ahead = Waiters(P)
            OBVIOUS
        <3> HIDE DEF x, P
        <3>5. Waiters(P \cup {x}) = Waiters(P) \cup {t}
            BY <3>4 DEF Waiters
        <3>6. \A e \in P : e.task # t /\ e.task \in Waiters(P)
            BY <3>3 DEF Waiters
        <3>7. Lined(P \cup {x})
            <4>1. ASSUME NEW e \in P \cup {x}
                  PROVE  e.ahead \subseteq Waiters(P) \cup {t} /\ e.task \notin e.ahead
                BY <3>3, <3>4 DEF Lined
            <4>2. ASSUME NEW e \in P, NEW f \in P
                  PROVE  /\ e.task = f.task => e = f
                         /\ e = f \/ e.task \in f.ahead \/ f.task \in e.ahead
                         /\ e.task \in f.ahead => e.ahead \subseteq f.ahead
                BY <3>3 DEF Lined
            <4>3. ASSUME NEW e \in P
                  PROVE  /\ e.task # x.task /\ e.task \in x.ahead
                         /\ e.ahead \subseteq x.ahead /\ x.task \notin e.ahead
                BY <3>3, <3>4, <3>6 DEF Lined
            <4> QED
                BY <3>5, <4>1, <4>2, <4>3 DEF Lined
        <3>8. Queued(s, recs, lane2)
            BY <2>1, <3>1, <3>2, <3>4 DEF LaneFair, Queued, AfterInterrupt, P
        <3>9. \/ t \in L \/ Newest(t, recs, L)
              \/ P = {} /\ lane.active \in L
            BY <2>1, <2>3 DEF Place, IsPending, P
        <3>10. FirstCome(P \cup {x}, L)
            <4> SUFFICES ASSUME NEW e \in P \cup {x}, NEW f \in P \cup {x},
                                e.task \notin L, f.task \notin L, e.task \in f.ahead
                         PROVE  e.seq < f.seq
                BY DEF FirstCome
            <4>1. CASE e \in P /\ f \in P
                BY <3>3, <4>1 DEF FirstCome
            <4>2. CASE e \in P /\ f = x
                <5>1. e.task \in Tasks /\ recs[e.task].seq = e.seq /\ e.task # t
                    BY <1>1, <3>6, <4>2 DEF LaneFair, Queued, Entries, P
                <5> QED
                    BY <3>4, <3>9, <4>2, <5>1 DEF Newest
            <4>3. CASE e = x
                BY <3>3, <3>4, <4>3, <3>6 DEF Lined
            <4> QED
                BY <4>1, <4>2, <4>3
        <3>11. MayStart(lane2.active, recs, P \cup {x}, L)
            <4> SUFFICES ASSUME lane.active \in Tasks \ L, NEW e \in P \cup {x},
                                e.task \notin L, e.seq < recs[lane.active].seq
                         PROVE  e.delivery = "queue" /\ recs[lane.active].delivery = "steer"
                BY <3>1 DEF MayStart
            <4>1. CASE e \in P
                BY <4>1 DEF LaneFair, MayStart, P
            <4>2. CASE e = x
                <5>1. recs[lane.active].seq < seq
                    BY <2>1, <3>4, <3>9, <4>2 DEF Newest
                <5>2. recs[lane.active].seq \in Nat
                    BY DEF Records
                <5> QED
                    BY <1>1, <3>4, <4>2, <5>1, <5>2
            <4> QED
                BY <4>1, <4>2
        <3> QED
            BY <1>5, <2>1, <3>1, <3>2, <3>7, <3>8, <3>10, <3>11 DEF LaneFair
    <2> QED
        BY <2>2, <2>3
<1> QED
    BY <1>2, <1>3, <1>4, <1>5 DEF ScheduleDecision

-----------------------------------------------------------------------------
(* The lanes of all sessions, through the tails of the handlers.           *)

Fair(recs, lns, L) ==
    /\ recs \in [Tasks -> Records] /\ lns \in [Sessions -> Lanes]
    /\ \A s \in Sessions : LaneFair(s, recs, lns[s], L)

\* No task is admitted: it keeps the place it was given, or its record goes.
Steady(recs) ==
    \A u \in Tasks :
        \/ records'[u] = Absent
        \/ /\ records'[u].seq = recs[u].seq
           /\ recs[u].status = "absent" => records'[u].status = "absent"

FairEnd(recs, L) == Fair(records', lanes', L) /\ Steady(recs)

\* Task t waits in no lane.
NotQueued(t, lns) ==
    SessionOf[t] # NoSession => t \notin Waiters(lns[SessionOf[t]].pending)

\* A task waits in the lane of its session only.
LEMMA QueuedAtHome ==
    ASSUME NEW recs, NEW lns, NEW L, Fair(recs, lns, L), NEW t \in Tasks, NotQueued(t, lns),
           NEW s \in Sessions, NEW e \in lns[s].pending
    PROVE  e.task # t /\ e.task \in Tasks /\ e.seq \in Nat
<1>1. SessionOf[e.task] = s /\ e \in Entries
    BY DEF Fair, LaneFair, Queued, Lanes
<1>2. e.task \in Tasks /\ e.seq \in Nat
    BY <1>1 DEF Entries
<1>3. e.task # t
    BY <1>1, ConstantsAssumption DEF NotQueued, Waiters
<1> QED
    BY <1>2, <1>3

\* One lane changes.
LEMMA FairLane ==
    ASSUME NEW recs, NEW lns, NEW L, Fair(recs, lns, L), NEW s \in Sessions, NEW lane,
           LaneFair(s, recs, lane, L)
    PROVE  /\ Fair(recs, [lns EXCEPT ![s] = lane], L)
           /\ [lns EXCEPT ![s] = lane][s] = lane
<1>1. lane \in Lanes
    BY DEF LaneFair
<1> QED
    BY <1>1 DEF Fair

\* The record of a task that does not wait changes: it was admitted when it was, or anew.
LEMMA FairRecord ==
    ASSUME NEW recs, NEW lns, NEW L, Fair(recs, lns, L), NEW t \in Tasks, NotQueued(t, lns),
           NEW recs2 \in [Tasks -> Records], NEW L2,
           \A u \in Tasks \ {t} : recs2[u] = recs[u] /\ (u \in L => u \in L2),
           \/ /\ recs2[t].seq = recs[t].seq /\ recs2[t].delivery = recs[t].delivery
              /\ t \in L => t \in L2
           \/ recs2[t].seq = 0
           \/ SessionOf[t] # NoSession /\ lns[SessionOf[t]].active = t => t \in L2
    PROVE  Fair(recs2, lns, L2)
<1> SUFFICES ASSUME NEW s \in Sessions PROVE LaneFair(s, recs2, lns[s], L2)
    BY DEF Fair
<1> DEFINE lane == lns[s]
<1>1. LaneFair(s, recs, lane, L) /\ lane \in Lanes
    BY DEF Fair
<1>2. \A e \in lane.pending : e.task # t /\ e.task \in Tasks /\ recs2[e.task] = recs[e.task]
    BY QueuedAtHome
<1>3. lane.active \in Tasks => SessionOf[lane.active] = s
    BY <1>1, NoneAssumption DEF LaneFair
<1>4. \A e \in lane.pending : e.seq \in Nat
    BY QueuedAtHome
<1> HIDE DEF lane
<1>5. Queued(s, recs2, lane)
    BY <1>1, <1>2 DEF LaneFair, Queued
<1>6. FirstCome(lane.pending, L2)
    BY <1>1, <1>2 DEF LaneFair, FirstCome
<1>7. MayStart(lane.active, recs2, lane.pending, L2)
    <2> SUFFICES ASSUME lane.active \in Tasks \ L2, NEW e \in lane.pending, e.task \notin L2,
                        e.seq < recs2[lane.active].seq
                 PROVE  e.delivery = "queue" /\ recs2[lane.active].delivery = "steer"
        BY DEF MayStart
    <2>1. e.task \notin L
        BY <1>2
    <2>2. CASE lane.active # t
        BY <1>1, <2>1, <2>2 DEF LaneFair, MayStart
    <2>3. CASE lane.active = t
        <3>1. ~(SessionOf[t] # NoSession /\ lns[SessionOf[t]].active = t => t \in L2)
            BY <1>3, <2>3, ConstantsAssumption DEF lane
        <3>2. recs2[t].seq # 0
            BY <1>4, <2>3
        <3>3. /\ recs2[t].seq = recs[t].seq /\ recs2[t].delivery = recs[t].delivery
              /\ t \notin L
            BY <2>3, <3>1, <3>2
        <3> QED
            BY <1>1, <2>1, <2>3, <3>3 DEF LaneFair, MayStart
    <2> QED
        BY <2>2, <2>3
<1>8. LaneFair(s, recs2, lane, L2)
    BY <1>1, <1>5, <1>6, <1>7 DEF LaneFair
<1> QED
    BY <1>8 DEF lane

\* prune() takes no task that waits.
LEMMA FairPruned ==
    ASSUME NEW recs, NEW lns, NEW L, Fair(recs, lns, L)
    PROVE  /\ Fair(Pruned(recs), lns, L)
           /\ \A u \in Tasks : \/ Pruned(recs)[u] = recs[u]
                               \/ Pruned(recs)[u] = Absent /\ recs[u].status \in Terminal
<1>1. /\ Pruned(recs) \in [Tasks -> Records]
      /\ \A u \in Tasks : \/ Pruned(recs)[u] = recs[u]
                          \/ Pruned(recs)[u] = Absent /\ recs[u].status \in Terminal
    BY AbsentTyped DEF Pruned, Overflow, Prunable, Fair
<1>2. Absent.seq = 0 /\ "accepted" \notin Terminal
    BY DEF Absent, Terminal
<1>3. ASSUME NEW s \in Sessions PROVE LaneFair(s, Pruned(recs), lns[s], L)
    <2>1. LaneFair(s, recs, lns[s], L) /\ lns[s] \in Lanes
        BY <1>3 DEF Fair
    <2>2. \A e \in lns[s].pending : e.task \in Tasks /\ recs[e.task].status = "accepted"
        BY <2>1 DEF LaneFair, Queued, Lanes, Entries
    <2>3. \A e \in lns[s].pending : Pruned(recs)[e.task] = recs[e.task]
        BY <1>1, <1>2, <2>2
    <2> QED
        BY <1>1, <1>2, <2>1, <2>3, RecordsFair
<1> QED
    BY <1>1, <1>3 DEF Fair

\* A handler that ends.
LEMMA CommitFair ==
    ASSUME NEW recs, NEW dsk, NEW lns, NEW rns, NEW L, Fair(recs, lns, L),
           Commit(recs, dsk, lns, rns)
    PROVE  FairEnd(recs, L)
BY DEF Commit, FairEnd, Steady

\* A task that is spawned does not wait.
LEMMA SpawnFair ==
    ASSUME NEW recs, NEW dsk, NEW lns, NEW rns, NEW L, Fair(recs, lns, L),
           NEW t \in Tasks, NotQueued(t, lns), Spawn(t, recs, dsk, lns, rns)
    PROVE  FairEnd(recs, L)
<1>1. PICK r \in Slots : /\ records' = Updated(recs, t, [recs[t] EXCEPT !.bg = r])
                         /\ lanes' = lns
    BY DEF Spawn, Commit
<1>2. /\ [recs[t] EXCEPT !.bg = r] \in Records
      /\ [recs[t] EXCEPT !.bg = r].seq = recs[t].seq
      /\ [recs[t] EXCEPT !.bg = r].delivery = recs[t].delivery
      /\ [recs[t] EXCEPT !.bg = r].status = recs[t].status
    BY DEF Fair, Records
<1>3. \A u \in Tasks : records'[u] = IF u = t THEN [recs[t] EXCEPT !.bg = r] ELSE recs[u]
    BY <1>1 DEF Updated, Fair
<1>4. records' \in [Tasks -> Records]
    BY <1>1, <1>2 DEF Updated, Fair
<1>5. PICK recs2 \in [Tasks -> Records] : recs2 = records'
    BY <1>4
<1>6. /\ \A u \in Tasks \ {t} : recs2[u] = recs[u]
      /\ recs2[t].seq = recs[t].seq /\ recs2[t].delivery = recs[t].delivery
    BY <1>2, <1>3, <1>5
<1>7. Fair(recs2, lns, L)
    BY <1>6, FairRecord
<1> QED
    BY <1>1, <1>2, <1>3, <1>5, <1>7 DEF FairEnd, Steady

\* Nor does a task that is suppressed.
LEMMA SuppressFair ==
    ASSUME NEW recs, NEW dsk, NEW lns, NEW rns, NEW L, Fair(recs, lns, L),
           NEW t \in Tasks, NotQueued(t, lns), recs[t].status # "absent",
           Suppress(t, recs, dsk, lns, rns)
    PROVE  FairEnd(recs, L)
<1> DEFINE rec == Ended(recs[t], "stale", FALSE, FALSE)
           recs2(f) == Updated(recs, t, Compacted(rec, f))
<1>1. PICK f \in Faults : records' = Pruned(recs2(f)) /\ lanes' = lns
    BY DEF Suppress, Commit
<1>2. rec \in Records /\ rec.seq = recs[t].seq /\ rec.delivery = recs[t].delivery
    BY DEF Fair, Ended, Records, Terminal
<1> HIDE DEF rec
<1>3. /\ Compacted(rec, f) \in Records
      /\ Compacted(rec, f).seq = recs[t].seq /\ Compacted(rec, f).delivery = recs[t].delivery
    BY <1>2, CompactedTyped
<1>4. /\ recs2(f) \in [Tasks -> Records]
      /\ \A u \in Tasks : recs2(f)[u] = IF u = t THEN Compacted(rec, f) ELSE recs[u]
    BY <1>3 DEF Updated, Fair
<1> HIDE DEF recs2
<1>5. Fair(recs2(f), lns, L)
    BY <1>3, <1>4, FairRecord
<1>6. /\ Fair(Pruned(recs2(f)), lns, L)
      /\ \A u \in Tasks : Pruned(recs2(f))[u] \in {recs2(f)[u], Absent}
    BY <1>5, FairPruned
<1> QED
    BY <1>1, <1>3, <1>4, <1>6 DEF FairEnd, Steady

\* Who waits for the user owns the lane of its session, or is excused.
WaitersKnown(recs, lns, L) ==
    \A u \in Tasks \ L :
        SessionOf[u] # NoSession /\ Waiting(recs[u]) => lns[SessionOf[u]].active = u

\* _schedule_runtime_task_record
LEMMA ScheduleFair ==
    ASSUME IsFiniteSet(Tasks), NEW recs, NEW dsk, NEW lns, NEW rns, NEW L, Fair(recs, lns, L),
           NEW t \in Tasks, recs[t].status = "running" => BgLive(recs[t]),
           recs[t].status = "accepted" => recs[t].bg # Done,
           SessionOf[t] # NoSession => Place(t, recs, lns[SessionOf[t]], L),
           WaitersKnown(recs, lns, L),
           Schedule(t, recs, dsk, lns, rns)
    PROVE  FairEnd(recs, L)
<1>1. CASE recs[t].status \notin Active \/ BgLive(recs[t])
    BY <1>1, CommitFair DEF Schedule
<1>2. CASE recs[t].status \in Active /\ ~BgLive(recs[t]) /\ SessionOf[t] = NoSession
    BY <1>2, SpawnFair DEF Schedule, NotQueued
<1>3. CASE recs[t].status \in Active /\ ~BgLive(recs[t]) /\ SessionOf[t] # NoSession
    <2> DEFINE s == SessionOf[t]
               lane == Reconciled(s, recs, lns[s])
               lane2 == Scheduled(lane, t, recs[t].seq, recs[t].delivery)
               decision == ScheduleDecision(lane, t, recs[t].seq)
               lns2 == [lns EXCEPT ![s] = lane2]
    <2>1. s \in Sessions
        BY <1>3, ConstantsAssumption
    <2>2. /\ \/ decision = "queued" /\ Commit(recs, dsk, lns2, rns)
             \/ decision = "suppressed" /\ Suppress(t, recs, dsk, lns2, rns)
             \/ decision \in {"start", "active"} /\ Spawn(t, recs, dsk, lns2, rns)
        BY <1>3 DEF Schedule, ScheduleInLane
    <2>3. recs[t].status = "accepted" /\ recs[t].bg = None
        BY <1>3 DEF Fair, Active, BgLive, Records
    <2>4. LaneFair(s, recs, lns[s], L) /\ recs \in [Tasks -> Records]
        BY <2>1 DEF Fair
    <2>5. \A u \in WaitingIn(s, recs) \ L : lns[s].active = u
        BY <1>3 DEF WaitersKnown, WaitingIn
    <2>6. LaneFair(s, recs, lane, L) /\ Place(t, recs, lane, L)
        BY <1>3, <2>3, <2>4, <2>5, ReconciledFair
    <2> HIDE DEF lane
    <2>7. /\ LaneFair(s, recs, lane2, L)
          /\ decision \in {"start", "active"} => lane2.active = t
          /\ decision = "suppressed" => t \notin Waiters(lane2.pending)
        BY <2>3, <2>4, <2>6, ScheduledFair
    <2> HIDE DEF lane2, decision
    <2>8. Fair(recs, lns2, L) /\ lns2[s] = lane2
        BY <2>1, <2>7, FairLane
    <2>9. decision # "queued" => NotQueued(t, lns2)
        BY <2>2, <2>7, <2>8 DEF NotQueued, LaneFair, Queued, Waiters
    <2> HIDE DEF lns2
    <2> QED
        BY <2>2, <2>3, <2>8, <2>9, CommitFair, SuppressFair, SpawnFair
<1> QED
    BY <1>1, <1>2, <1>3

\* A lane that is completed, and the task it goes to scheduled.
LEMMA CompletedEnd ==
    ASSUME IsFiniteSet(Tasks), NEW recs, NEW dsk, NEW rns, NEW L, Fair(recs, lanes, L),
           NEW t \in Tasks, SessionOf[t] # NoSession, ~Waiting(recs[t]),
           NEW lane, LaneFair(SessionOf[t], recs, lane, L),
           lane.active = lanes[SessionOf[t]].active, WaitersKnown(recs, lanes, L),
           ScheduleNext(NextOnComplete(lane, t), recs, dsk,
                        [lanes EXCEPT ![SessionOf[t]] = Completed(lane, t)], rns)
    PROVE  FairEnd(recs, L)
<1> DEFINE s == SessionOf[t]
           lane2 == Completed(lane, t)
           next == NextOnComplete(lane, t)
           lns2 == [lanes EXCEPT ![s] = lane2]
<1>1. s \in Sessions /\ lane \in Lanes
    BY ConstantsAssumption DEF LaneFair
<1>2. LaneFair(s, recs, lane2, L)
    BY CompletedFair
<1>3. next # None => /\ lane2.active = next
                     /\ \E e \in lane.pending : e.task = next
    BY CompletedFair
<1>4. next # None => lane.active = t
    BY DEF NextOnComplete
<1>5. ScheduleNext(next, recs, dsk, lns2, rns)
    OBVIOUS
<1> HIDE DEF lane2, next
<1>6. Fair(recs, lns2, L) /\ lns2[s] = lane2 /\ \A q \in Sessions \ {s} : lns2[q] = lanes[q]
    BY <1>1, <1>2, FairLane DEF Fair
<1> HIDE DEF lns2
<1>7. CASE ~(next # None /\ recs[next].status \in Active)
    BY <1>5, <1>6, <1>7, CommitFair DEF ScheduleNext
<1>8. CASE next # None /\ recs[next].status \in Active
    <2>1. Schedule(next, recs, dsk, lns2, rns)
        BY <1>5, <1>8 DEF ScheduleNext
    <2>2. PICK e \in lane.pending : e.task = next
        BY <1>3, <1>8
    <2>3. next \in Tasks /\ SessionOf[next] = s /\ recs[next].status = "accepted" /\ recs[next].bg = None
        BY <1>1, <2>2 DEF LaneFair, Queued, Lanes, Entries
    <2>4. Place(next, recs, lns2[SessionOf[next]], L)
        BY <1>3, <1>6, <1>8, <2>3 DEF Place
    <2>5. WaitersKnown(recs, lns2, L)
        <3> SUFFICES ASSUME NEW u \in Tasks \ L, SessionOf[u] # NoSession, Waiting(recs[u])
                     PROVE  lns2[SessionOf[u]].active = u
            BY DEF WaitersKnown
        <3>1. lanes[SessionOf[u]].active = u /\ SessionOf[u] \in Sessions
            BY ConstantsAssumption DEF WaitersKnown
        <3>2. SessionOf[u] # s
            BY <1>4, <1>8, <3>1
        <3> QED
            BY <1>6, <3>1, <3>2
    <2>6. recs[next].bg # Done /\ recs[next].status # "running"
        BY <2>3, ConstantsAssumption
    <2> QED
        BY <1>6, <2>1, <2>3, <2>4, <2>5, <2>6, ScheduleFair
<1> QED
    BY <1>7, <1>8

\* The finally block of a coroutine.
LEMMA FinallyFair ==
    ASSUME IsFiniteSet(Tasks), NEW recs, NEW dsk, NEW rns, NEW L, Fair(recs, lanes, L),
           NEW t \in Tasks, WaitersKnown(recs, lanes, L), Finally(t, recs, dsk, rns)
    PROVE  FairEnd(recs, L)
<1>1. CASE Commit(recs, dsk, lanes, rns)
    BY <1>1, CommitFair
<1>2. CASE SessionOf[t] # NoSession /\ Commit(recs, dsk, [lanes EXCEPT ![SessionOf[t]] = HeldForUserInput(@, t)], rns)
    <2> DEFINE s == SessionOf[t]
    <2>1. s \in Sessions /\ LaneFair(s, recs, lanes[s], L)
        BY <1>2, ConstantsAssumption DEF Fair
    <2>2. LaneFair(s, recs, HeldForUserInput(lanes[s], t), L)
        BY <2>1, HeldFair
    <2>3. Fair(recs, [lanes EXCEPT ![s] = HeldForUserInput(lanes[s], t)], L)
        BY <2>1, <2>2, FairLane
    <2> QED
        BY <1>2, <2>3, CommitFair
<1>3. CASE SessionOf[t] # NoSession /\ ~Waiting(recs[t]) /\ Complete(t, recs, dsk, rns)
    <2> DEFINE s == SessionOf[t]
    <2>1. s \in Sessions /\ LaneFair(s, recs, lanes[s], L)
        BY <1>3, ConstantsAssumption DEF Fair
    <2>2. ScheduleNext(NextOnComplete(lanes[s], t), recs, dsk,
                       [lanes EXCEPT ![s] = Completed(lanes[s], t)], rns)
        BY <1>3 DEF Complete
    <2> QED
        BY <1>3, <2>1, <2>2, CompletedEnd
<1> QED
    BY <1>1, <1>2, <1>3 DEF Finally, Complete

-----------------------------------------------------------------------------
(* The coroutine a record points to.                                       *)

\* It is one of the task, and while the process serves, that of an accepted task has yet
\* to start and nobody asked to cancel it.
Backed(recs, rns, m) ==
    \A t \in Tasks :
        /\ recs[t].bg \in Slots => rns[recs[t].bg].pc # "free" /\ rns[recs[t].bg].task = t
        /\ m = "serving" /\ recs[t].status = "accepted" /\ recs[t].bg # None =>
              recs[t].bg \in Slots /\ rns[recs[t].bg].pc = "spawned" /\ ~rns[recs[t].bg].cancel

\* prune() takes no accepted task.
LEMMA PrunedBacked ==
    ASSUME NEW recs \in [Tasks -> Records], NEW rns, NEW m, Backed(recs, rns, m)
    PROVE  Backed(Pruned(recs), rns, m)
<1>1. \A t \in Tasks : Pruned(recs)[t] = recs[t] \/ Pruned(recs)[t] = Absent
    BY DEF Pruned
<1>2. Absent.bg = None /\ None \notin Slots
    BY ConstantsAssumption DEF Absent
<1> QED
    BY ZenonT(60), <1>1, <1>2 DEF Backed

\* A coroutine for a task that has none.
LEMMA SpawnBacked ==
    ASSUME NEW recs \in [Tasks -> Records], NEW rns \in [Slots -> Runs], NEW m,
           Backed(recs, rns, m), NEW dsk, NEW lns, NEW t \in Tasks, Spawn(t, recs, dsk, lns, rns)
    PROVE  Backed(records', runs', m)
<1>1. PICK r \in Slots :
         /\ rns[r].pc = "free"
         /\ records' = Updated(recs, t, [recs[t] EXCEPT !.bg = r])
         /\ runs' = [rns EXCEPT ![r] = [FreeRun EXCEPT !.pc = "spawned", !.task = t]]
    BY DEF Spawn, Commit
<1>2. /\ [recs[t] EXCEPT !.bg = r].bg = r /\ r # None
      /\ [recs[t] EXCEPT !.bg = r].status = recs[t].status
    BY ConstantsAssumption DEF Records
<1>3. \A u \in Tasks : records'[u] = IF u = t THEN [recs[t] EXCEPT !.bg = r] ELSE recs[u]
    BY <1>1 DEF Updated
<1>4. /\ runs'[r].pc = "spawned" /\ runs'[r].task = t /\ ~runs'[r].cancel
      /\ \A q \in Slots \ {r} : runs'[q] = rns[q]
    BY <1>1 DEF FreeRun
<1>5. ASSUME NEW u \in Tasks
      PROVE  /\ records'[u].bg \in Slots =>
                   runs'[records'[u].bg].pc # "free" /\ runs'[records'[u].bg].task = u
             /\ m = "serving" /\ records'[u].status = "accepted" /\ records'[u].bg # None =>
                   /\ records'[u].bg \in Slots /\ runs'[records'[u].bg].pc = "spawned"
                   /\ ~runs'[records'[u].bg].cancel
    <2>1. CASE u = t
        BY <1>2, <1>3, <1>4, <2>1
    <2>2. CASE u # t
        <3>1. records'[u] = recs[u] /\ (recs[u].bg \in Slots => recs[u].bg # r)
            BY <1>1, <1>3, <2>2 DEF Backed
        <3> QED
            BY <1>4, <3>1 DEF Backed
    <2> QED
        BY <2>1, <2>2
<1> QED
    BY <1>5 DEF Backed

\* _schedule_runtime_task_record
LEMMA ScheduleBacked ==
    ASSUME NEW recs \in [Tasks -> Records], NEW rns \in [Slots -> Runs], NEW m,
           Backed(recs, rns, m), NEW dsk, NEW lns, NEW t \in Tasks, Schedule(t, recs, dsk, lns, rns)
    PROVE  Backed(records', runs', m)
<1>1. \E lns2 : \/ Commit(recs, dsk, lns2, rns)
                \/ Suppress(t, recs, dsk, lns2, rns)
                \/ Spawn(t, recs, dsk, lns2, rns)
    BY DEF Schedule, ScheduleInLane
<1>2. CASE \E lns2 : Commit(recs, dsk, lns2, rns)
    BY <1>2 DEF Commit
<1>3. CASE \E lns2 : Suppress(t, recs, dsk, lns2, rns)
    <2> DEFINE rec == Ended(recs[t], "stale", FALSE, FALSE)
               recs2(f) == Updated(recs, t, Compacted(rec, f))
    <2>1. PICK f \in Faults : records' = Pruned(recs2(f)) /\ runs' = rns
        BY <1>3 DEF Suppress, Commit
    <2>2. rec \in Records /\ rec.bg = recs[t].bg /\ rec.status = "stale"
        BY DEF Ended, Records, Terminal
    <2> HIDE DEF rec
    <2>3. /\ Compacted(rec, f) \in Records
          /\ Compacted(rec, f).bg = recs[t].bg /\ Compacted(rec, f).status = "stale"
        BY <2>2, CompactedTyped
    <2>4. /\ recs2(f) \in [Tasks -> Records]
          /\ \A u \in Tasks : recs2(f)[u] = IF u = t THEN Compacted(rec, f) ELSE recs[u]
        BY <2>3 DEF Updated
    <2> HIDE DEF recs2
    <2>5. Backed(recs2(f), rns, m)
        BY <2>3, <2>4 DEF Backed
    <2> QED
        BY <2>1, <2>4, <2>5, PrunedBacked
<1>4. CASE \E lns2 : Spawn(t, recs, dsk, lns2, rns)
    BY <1>4, SpawnBacked
<1> QED
    BY <1>1, <1>2, <1>3, <1>4

\* The task a lane goes to, if any.
LEMMA ScheduleNextBacked ==
    ASSUME NEW recs \in [Tasks -> Records], NEW rns \in [Slots -> Runs], NEW m,
           Backed(recs, rns, m), NEW dsk, NEW lns, NEW next \in Tasks \cup {None},
           ScheduleNext(next, recs, dsk, lns, rns)
    PROVE  Backed(records', runs', m)
BY ScheduleBacked DEF ScheduleNext, Commit

\* The finally block of a coroutine.
LEMMA FinallyBacked ==
    ASSUME NEW recs \in [Tasks -> Records], NEW rns \in [Slots -> Runs], NEW m,
           Backed(recs, rns, m), NEW dsk, NEW t \in Tasks, Finally(t, recs, dsk, rns),
           lanes \in [Sessions -> Lanes]
    PROVE  Backed(records', runs', m)
<1>1. CASE \E lns : Commit(recs, dsk, lns, rns)
    BY <1>1 DEF Commit
<1>2. CASE SessionOf[t] # NoSession /\ Complete(t, recs, dsk, rns)
    <2>1. SessionOf[t] \in Sessions /\ lanes[SessionOf[t]] \in Lanes
        BY <1>2, ConstantsAssumption
    <2>2. NextOnComplete(lanes[SessionOf[t]], t) \in Tasks \cup {None}
        BY <2>1, CompletedTyped
    <2> QED
        BY <1>2, <2>2, ScheduleNextBacked DEF Complete
<1> QED
    BY <1>1, <1>2 DEF Finally, Complete

-----------------------------------------------------------------------------
(* The steps                                                               *)

OInv ==
    /\ IInv
    /\ Fair(records, lanes, stray)
    /\ Backed(records, runs, mode)
    /\ \A t \in Tasks : records[t].seq < nextSeq
    /\ \A t \in Tasks \ stray : InLane(t)

\* What a step has to leave, besides the invariant of RuntimeTasks.
OKept == Fair(records', lanes', stray') /\ Backed(records', runs', mode')
         /\ (\A t \in Tasks : records'[t].seq < nextSeq')

\* What the invariant says of the state a handler starts in.
LEMMA Begun ==
    ASSUME OInv
    PROVE  /\ records \in [Tasks -> Records] /\ files \in [Tasks -> Images]
           /\ lanes \in [Sessions -> Lanes] /\ runs \in [Slots -> Runs] /\ nextSeq \in Nat
           /\ Fair(records, lanes, stray) /\ Backed(records, runs, mode)
           /\ \A t \in Tasks : records[t].seq \in Nat /\ records[t].seq < nextSeq
           /\ 0 < nextSeq \/ Tasks = {}
           /\ \A t \in Tasks : records[t].status = "running" => BgLive(records[t])
<1>1. /\ records \in [Tasks -> Records] /\ files \in [Tasks -> Images]
      /\ lanes \in [Sessions -> Lanes] /\ runs \in [Slots -> Runs] /\ nextSeq \in Nat
    BY DEF OInv, IInv, Good, Typed
<1>2. \A t \in Tasks : records[t].seq \in Nat /\ records[t].seq < nextSeq
    BY <1>1 DEF OInv, Records
<1>3. \A t \in Tasks : records[t].status = "running" => BgLive(records[t])
    BY DEF OInv, IInv, Good, RecordsSane, BgLive
<1>4. 0 < nextSeq \/ Tasks = {}
    BY <1>1, <1>2
<1> QED
    BY <1>1, <1>2, <1>3, <1>4 DEF OInv

\* Only an accepted task waits in a lane.
LEMMA OnlyAccepted ==
    ASSUME OInv, NEW t \in Tasks, records[t].status # "accepted"
    PROVE  NotQueued(t, lanes)
<1>1. SUFFICES ASSUME SessionOf[t] # NoSession, t \in Waiters(lanes[SessionOf[t]].pending)
               PROVE  FALSE
    BY DEF NotQueued
<1>2. SessionOf[t] \in Sessions
    BY <1>1, ConstantsAssumption
<1>3. PICK e \in lanes[SessionOf[t]].pending : e.task = t
    BY <1>1 DEF Waiters
<1> QED
    BY <1>2, <1>3, Begun DEF Fair, LaneFair, Queued

\* Who waits for the user owns the lane of its session.
LEMMA WaitersOwn ==
    ASSUME OInv, NEW recs, NEW L,
           \A u \in Tasks \ L :
              Waiting(recs[u]) => u \notin stray /\ records[u].status # "accepted"
    PROVE  WaitersKnown(recs, lanes, L)
<1> SUFFICES ASSUME NEW u \in Tasks \ L, SessionOf[u] # NoSession, Waiting(recs[u])
             PROVE  lanes[SessionOf[u]].active = u
    BY DEF WaitersKnown
<1>1. InLane(u) /\ records[u].status # "accepted"
    BY DEF OInv
<1> QED
    BY <1>1, OnlyAccepted DEF InLane, IsPending, NotQueued

\* After a step the excused tasks are those Watch names.
LEMMA Watched ==
    ASSUME Watch, NEW L, Fair(records', lanes', L),
           \A u \in Tasks : u \in L => \/ records'[u].status = "absent"
                                       \/ IF records'[u].seq # records[u].seq THEN InLane(u)
                                          ELSE u \in stray
    PROVE  Fair(records', lanes', stray')
<1>1. L \cap Tasks \subseteq stray'
    BY DEF Watch
<1> DEFINE M == L \cap Tasks
<1>2. ASSUME NEW s \in Sessions PROVE LaneFair(s, records', lanes'[s], stray')
    <2>1. LaneFair(s, records', lanes'[s], L)
        BY DEF Fair
    <2>2. \A e \in lanes'[s].pending : e.task \in Tasks
        BY <2>1 DEF LaneFair, Lanes, Entries
    <2>3. FirstCome(lanes'[s].pending, stray')
        BY <1>1, <2>1, <2>2 DEF LaneFair, FirstCome
    <2>4. MayStart(lanes'[s].active, records', lanes'[s].pending, stray')
        BY <1>1, <2>1, <2>2 DEF LaneFair, MayStart
    <2> QED
        BY <2>1, <2>3, <2>4 DEF LaneFair
<1> QED
    BY <1>2 DEF Fair

\* A step that admits nothing.
LEMMA TailKept ==
    ASSUME OInv, Watch, NEW recs,
           \A u \in Tasks : recs[u].seq = records[u].seq \/ recs[u] = Absent,
           FairEnd(recs, stray), Backed(records', runs', mode'), nextSeq' = nextSeq
    PROVE  OKept
<1>1. Absent.seq = 0 /\ Absent.status = "absent"
    BY DEF Absent
<1>2. \A u \in Tasks : \/ records'[u].seq = records[u].seq
                       \/ records'[u].seq = 0 /\ records'[u].status = "absent"
    BY <1>1 DEF FairEnd, Steady
<1>3. Fair(records', lanes', stray')
    BY <1>2, Watched DEF FairEnd
<1>4. \A u \in Tasks : records'[u].seq < nextSeq'
    BY <1>2, Begun
<1> QED
    BY <1>3, <1>4 DEF OKept

\* An admission: the task is the last one, and excused if its lane still knew its name.
LEMMA AdmitFair ==
    ASSUME IsFiniteSet(Tasks), OInv, Watch, NEW recs \in [Tasks -> Records], NEW dsk,
           NEW rns \in [Slots -> Runs], NEW t \in Tasks, NEW d \in Deliveries,
           records[t].status # "accepted", \A u \in Tasks \ {t} : recs[u] = records[u],
           Backed(recs, rns, mode), mode' = mode,
           Admit(t, d, recs, dsk, rns)
    PROVE  OKept
<1> DEFINE rec == Created(nextSeq, d)
           recs2 == Updated(recs, t, rec)
           recs3 == Pruned(recs2)
           L == {u \in Tasks : IF u = t THEN InLane(t) ELSE u \in stray}
<1>1. /\ \E f \in Faults : Schedule(t, recs3, PrunedFiles(recs2, Persisted(dsk, t, rec, f)), lanes, rns)
      /\ nextSeq' = nextSeq + 1
    BY DEF Admit
<1>2. /\ rec \in Records /\ rec.status = "accepted" /\ rec.seq = nextSeq /\ rec.bg = None
    BY Begun DEF Created, Absent, Records, Active
<1> HIDE DEF rec
<1>3. /\ recs2 \in [Tasks -> Records] /\ recs2[t] = rec
      /\ \A u \in Tasks \ {t} : recs2[u] = records[u]
    BY <1>2 DEF Updated
<1> HIDE DEF recs2
<1>4. NotQueued(t, lanes)
    BY OnlyAccepted
<1>5. Fair(recs2, lanes, L)
    <2>1. SessionOf[t] # NoSession /\ lanes[SessionOf[t]].active = t => t \in L
        BY DEF InLane
    <2>2. \A u \in Tasks \ {t} : u \in stray => u \in L
        OBVIOUS
    <2> HIDE DEF L
    <2> QED
        BY <1>3, <1>4, <2>1, <2>2, Begun, FairRecord
<1> HIDE DEF L
<1>6. /\ Fair(recs3, lanes, L)
      /\ \A u \in Tasks : \/ recs3[u] = recs2[u]
                          \/ recs3[u] = Absent /\ recs2[u].status \in Terminal
    BY <1>5, FairPruned
<1>7. recs3[t] = rec
    BY <1>2, <1>3, <1>6 DEF Terminal
<1>8. recs3 \in [Tasks -> Records]
    BY <1>6 DEF Fair
<1>9. Backed(recs3, rns, mode)
    <2>1. Backed(recs2, rns, mode)
        BY <1>2, <1>3, ConstantsAssumption DEF Backed
    <2> QED
        BY <1>3, <2>1, PrunedBacked
<1> HIDE DEF recs3
<1>10. Absent.seq = 0 /\ Absent.status = "absent" /\ ~Waiting(Absent)
    BY DEF Absent, Waiting
<1>11. Newest(t, recs3, L)
    <2> SUFFICES ASSUME NEW u \in Tasks, u # t PROVE recs3[u].seq < recs3[t].seq
        BY DEF Newest
    <2>1. recs3[u].seq \in {records[u].seq, 0}
        BY <1>3, <1>6, <1>10
    <2> QED
        BY <1>2, <1>7, <2>1, Begun
<1>12. WaitersKnown(recs3, lanes, L)
    <2> SUFFICES ASSUME NEW u \in Tasks \ L, Waiting(recs3[u])
                 PROVE  u \notin stray /\ Waiting(records[u])
        BY WaitersOwn DEF Waiting
    <2>1. u # t /\ recs3[u] # Absent
        BY <1>2, <1>7, <1>10 DEF Waiting
    <2>2. u \notin stray
        BY <2>1 DEF L
    <2> QED
        BY <1>3, <1>6, <2>1, <2>2
<1>13. FairEnd(recs3, L)
    <2>1. recs3[t].status # "running" /\ recs3[t].bg # Done
        BY <1>2, <1>7, ConstantsAssumption
    <2>2. SessionOf[t] # NoSession => Place(t, recs3, lanes[SessionOf[t]], L)
        BY <1>11 DEF Place
    <2> QED
        BY <1>1, <1>6, <1>12, <2>1, <2>2, ScheduleFair
<1>14. Backed(records', runs', mode')
    BY <1>1, <1>8, <1>9, ScheduleBacked
<1>15. \A u \in Tasks : \/ records'[u].seq = 0 /\ records'[u].status = "absent"
                        \/ records'[u].seq = IF u = t THEN nextSeq ELSE records[u].seq
    BY <1>2, <1>3, <1>6, <1>7, <1>10, <1>13 DEF FairEnd, Steady
<1>16. \A u \in Tasks : records'[u].seq < nextSeq'
    BY <1>1, <1>15, Begun
<1>17. Fair(records', lanes', stray')
    <2> SUFFICES ASSUME NEW u \in Tasks, u \in L
                 PROVE  \/ records'[u].status = "absent"
                        \/ IF records'[u].seq # records[u].seq THEN InLane(u) ELSE u \in stray
        BY <1>13, Watched DEF FairEnd
    <2>1. CASE records'[u].status = "absent"
        BY <2>1
    <2>2. CASE u = t /\ records'[u].status # "absent"
        BY <1>15, <2>2, Begun DEF L
    <2>3. CASE u # t /\ records'[u].status # "absent"
        BY <1>15, <2>3 DEF L
    <2> QED
        BY <2>1, <2>2, <2>3
<1> QED
    BY <1>14, <1>16, <1>17 DEF OKept

\* Who waits for the user owns the lane of its session.
LEMMA WaitersNow ==
    ASSUME OInv
    PROVE  WaitersKnown(records, lanes, stray)
BY WaitersOwn DEF Waiting

\* A task is in its lane, or nobody counts on its place.
LEMMA InPlace ==
    ASSUME OInv, NEW t \in Tasks, SessionOf[t] # NoSession, NEW recs
    PROVE  Place(t, recs, lanes[SessionOf[t]], stray)
BY DEF OInv, InLane, IsPending, Place

\* A request to cancel the coroutine of t is about no other task.
LEMMA CancelBacked ==
    ASSUME NEW recs, NEW rns \in [Slots -> Runs], NEW m, Backed(recs, rns, m),
           NEW t \in Tasks, NEW recs2,
           \A u \in Tasks \ {t} : recs2[u] = recs[u],
           recs2[t].bg \in {recs[t].bg, None}, recs2[t].status # "accepted"
    PROVE  /\ CancelRequested(rns, recs[t].bg) \in [Slots -> Runs]
           /\ Backed(recs2, CancelRequested(rns, recs[t].bg), m)
<1> DEFINE bg == recs[t].bg
           rns2 == CancelRequested(rns, bg)
<1>1. /\ rns2 \in [Slots -> Runs]
      /\ \A r \in Slots : /\ rns2[r].pc = rns[r].pc /\ rns2[r].task = rns[r].task
                          /\ r # bg => rns2[r] = rns[r]
    <2>1. CASE bg \in Slots
        <3>1. rns[bg] \in Runs
            BY <2>1
        <3>2. /\ [rns[bg] EXCEPT !.cancel = TRUE] \in Runs
              /\ [rns[bg] EXCEPT !.cancel = TRUE].pc = rns[bg].pc
              /\ [rns[bg] EXCEPT !.cancel = TRUE].task = rns[bg].task
            BY <3>1 DEF Runs
        <3>3. rns2 = [rns EXCEPT ![bg] = [rns[bg] EXCEPT !.cancel = TRUE]]
            BY <2>1 DEF CancelRequested
        <3> HIDE DEF rns2, bg
        <3> QED
            BY <2>1, <3>2, <3>3
    <2>2. CASE bg \notin Slots
        BY <2>2 DEF CancelRequested
    <2> QED
        BY <2>1, <2>2
<1> HIDE DEF rns2
<1>2. None \notin Slots
    BY ConstantsAssumption
<1>3. \A u \in Tasks \ {t} : recs[u].bg \in Slots => recs[u].bg # bg
    BY DEF Backed
<1>4. Backed(recs2, rns2, m)
    BY <1>1, <1>2, <1>3 DEF Backed
<1> QED
    BY <1>1, <1>4 DEF rns2

\* A new request is the last one.
LEMMA DispatchOrdered ==
    ASSUME IsFiniteSet(Tasks), OInv, Watch, NEW t \in Tasks, NEW d \in Deliveries,
           DispatchNew(t, d) \/ DispatchRestartStale(t, d)
    PROVE  OKept
<1>1. CASE DispatchNew(t, d)
    BY <1>1, Begun, AdmitFair DEF DispatchNew
<1>2. CASE DispatchRestartStale(t, d)
    <2> DEFINE recs == [records EXCEPT ![t] = Absent]
               rns == CancelRequested(runs, records[t].bg)
    <2>1. /\ recs \in [Tasks -> Records] /\ recs[t] = Absent
          /\ \A u \in Tasks \ {t} : recs[u] = records[u]
        BY Begun, AbsentTyped
    <2>2. Absent.bg = None /\ Absent.status = "absent"
        BY DEF Absent
    <2>3. rns \in [Slots -> Runs] /\ Backed(recs, rns, mode)
        <3> HIDE DEF recs
        <3> QED
            BY <2>1, <2>2, Begun, CancelBacked
    <2>4. /\ Admit(t, d, recs, [files EXCEPT ![t] = NoFile], rns) /\ mode' = mode
          /\ records[t].status = "stale"
        BY <1>2 DEF DispatchRestartStale
    <2> HIDE DEF recs, rns
    <2> QED
        BY <2>1, <2>3, <2>4, AdmitFair
<1> QED
    BY <1>1, <1>2

\* A repeated request finds the task where it is.
LEMMA DuplicateOrdered ==
    ASSUME IsFiniteSet(Tasks), OInv, Watch, NEW t \in Tasks, DispatchDuplicate(t)
    PROVE  OKept
<1>1. /\ Schedule(t, records, files, lanes, runs) /\ mode' = mode /\ nextSeq' = nextSeq
      /\ mode = "serving"
    BY DEF DispatchDuplicate
<1>2. records[t].status = "accepted" => records[t].bg # Done
    BY <1>1, Begun, ConstantsAssumption DEF Backed
<1>3. FairEnd(records, stray)
    BY <1>1, <1>2, Begun, InPlace, WaitersNow, ScheduleFair
<1>4. Backed(records', runs', mode')
    BY <1>1, Begun, ScheduleBacked
<1> QED
    BY <1>1, <1>3, <1>4, TailKept

\* Cancelling a task keeps the order of the others.
LEMMA CancelActiveOrdered ==
    ASSUME OInv, Watch, NEW t \in Tasks, CancelActive(t)
    PROVE  OKept
<1> DEFINE s == SessionOf[t]
           rec == CancelledRecord(records[t])
           lns == IF s = NoSession THEN lanes
                  ELSE [lanes EXCEPT ![s] = Cancelled(lanes[s], t, records[t].seq)]
           recs(f) == [records EXCEPT ![t] = Compacted(rec, f)]
<1>1. PICK f \in Faults : /\ records' = recs(f) /\ lanes' = lns
                          /\ runs' = CancelRequested(runs, records[t].bg)
    BY DEF CancelActive, Commit
<1>2. nextSeq' = nextSeq /\ mode' = mode
    BY DEF CancelActive
<1>3. /\ rec \in Records /\ rec.status = "cancelled" /\ rec.seq = records[t].seq
      /\ rec.delivery = records[t].delivery /\ rec.bg = records[t].bg
    BY Begun DEF CancelledRecord, Records, Terminal
<1> HIDE DEF rec
<1>4. /\ recs(f) \in [Tasks -> Records]
      /\ recs(f)[t].seq = records[t].seq /\ recs(f)[t].delivery = records[t].delivery
      /\ recs(f)[t].bg = records[t].bg /\ recs(f)[t].status = "cancelled"
      /\ \A u \in Tasks \ {t} : recs(f)[u] = records[u]
    BY <1>3, Begun, CompactedTyped
<1> HIDE DEF recs
<1>5. Fair(records, lns, stray) /\ NotQueued(t, lns)
    <2>1. CASE s = NoSession
        BY <2>1, Begun DEF NotQueued
    <2>2. CASE s # NoSession
        <3> DEFINE lane == Cancelled(lanes[s], t, records[t].seq)
        <3>1. s \in Sessions /\ LaneFair(s, records, lanes[s], stray)
            BY <2>2, Begun, ConstantsAssumption DEF Fair
        <3>2. LaneFair(s, records, lane, stray) /\ t \notin Waiters(lane.pending)
            BY <3>1, Begun, CancelledFair
        <3>3. lns = [lanes EXCEPT ![s] = lane]
            BY <2>2
        <3> HIDE DEF lns, lane
        <3> QED
            BY <3>1, <3>2, <3>3, Begun, FairLane DEF NotQueued
    <2> QED
        BY <2>1, <2>2
<1> HIDE DEF lns
<1>6. Fair(recs(f), lns, stray)
    BY <1>4, <1>5, FairRecord
<1>7. Backed(recs(f), CancelRequested(runs, records[t].bg), mode)
    BY <1>4, Begun, CancelBacked
<1>8. FairEnd(recs(f), stray)
    BY <1>1, <1>6 DEF FairEnd, Steady
<1>9. Backed(records', runs', mode')
    BY <1>1, <1>2, <1>7
<1>10. \A u \in Tasks : recs(f)[u].seq = records[u].seq
    BY <1>4
<1> QED
    BY <1>2, <1>8, <1>9, <1>10, TailKept

\* The lane of a task that waited goes to the next one.
LEMMA CancelWaitingOrdered ==
    ASSUME IsFiniteSet(Tasks), OInv, Watch, NEW t \in Tasks, CancelWaiting(t)
    PROVE  OKept
<1> DEFINE s == SessionOf[t]
           rec == CancelledRecord(records[t])
           lane == Cancelled(lanes[s], t, records[t].seq)
           recs(f) == [records EXCEPT ![t] = Compacted(rec, f)]
           dsk(f) == Persisted(files, t, rec, f)
           rns == CancelRequested(runs, records[t].bg)
<1>1. PICK f \in Faults :
         IF s = NoSession THEN Commit(recs(f), dsk(f), lanes, rns)
         ELSE ScheduleNext(NextOnComplete(lane, t), recs(f), dsk(f),
                           [lanes EXCEPT ![s] = Completed(lane, t)], rns)
    BY DEF CancelWaiting
<1>2. nextSeq' = nextSeq /\ mode' = mode /\ records[t].status # "accepted"
    BY DEF CancelWaiting, Waiting
<1>3. /\ rec \in Records /\ rec.status = "cancelled" /\ rec.seq = records[t].seq
      /\ rec.delivery = records[t].delivery /\ rec.bg = records[t].bg
    BY Begun DEF CancelledRecord, Records, Terminal
<1> HIDE DEF rec
<1>4. /\ recs(f) \in [Tasks -> Records]
      /\ recs(f)[t].seq = records[t].seq /\ recs(f)[t].delivery = records[t].delivery
      /\ recs(f)[t].bg = records[t].bg /\ recs(f)[t].status = "cancelled"
      /\ \A u \in Tasks \ {t} : recs(f)[u] = records[u]
    BY <1>3, Begun, CompactedTyped
<1> HIDE DEF recs, dsk
<1>5. rns \in [Slots -> Runs] /\ Backed(recs(f), rns, mode)
    BY <1>4, Begun, CancelBacked
<1> HIDE DEF rns
<1>6. NotQueued(t, lanes)
    BY <1>2, OnlyAccepted
<1>7. Fair(recs(f), lanes, stray)
    BY <1>4, <1>6, Begun, FairRecord
<1>8. \A u \in Tasks : recs(f)[u].seq = records[u].seq
    BY <1>4
<1>9. CASE s = NoSession
    <2>1. Commit(recs(f), dsk(f), lanes, rns)
        BY <1>1, <1>9
    <2>2. FairEnd(recs(f), stray)
        BY <1>7, <2>1, CommitFair
    <2>3. Backed(records', runs', mode')
        BY <1>2, <1>5, <2>1 DEF Commit
    <2> QED
        BY <1>2, <1>8, <2>2, <2>3, TailKept
<1>10. CASE s # NoSession
    <2>1. s \in Sessions /\ LaneFair(s, recs(f), lanes[s], stray) /\ lanes[s] \in Lanes
        BY <1>7, <1>10, ConstantsAssumption DEF Fair
    <2>2. LaneFair(s, recs(f), lane, stray) /\ lane \in Lanes /\ lane.active = lanes[s].active
        BY <2>1, Begun, CancelledFair, CancelledTyped
    <2> HIDE DEF lane
    <2>3. ScheduleNext(NextOnComplete(lane, t), recs(f), dsk(f),
                       [lanes EXCEPT ![s] = Completed(lane, t)], rns)
        BY <1>1, <1>10
    <2>4. WaitersKnown(recs(f), lanes, stray)
        BY <1>4, WaitersOwn DEF Waiting
    <2>5. ~Waiting(recs(f)[t])
        BY <1>4 DEF Waiting
    <2>6. FairEnd(recs(f), stray)
        BY <1>7, <1>10, <2>2, <2>3, <2>4, <2>5, CompletedEnd
    <2>7. NextOnComplete(lane, t) \in Tasks \cup {None}
        BY <2>2, CompletedTyped
    <2>8. Backed(records', runs', mode')
        BY <1>2, <1>4, <1>5, <2>3, <2>7, ScheduleNextBacked
    <2> QED
        BY <1>2, <1>8, <2>6, <2>8, TailKept
<1> QED
    BY <1>9, <1>10

\* An answer gives the task its place back.
LEMMA AnswerOrdered ==
    ASSUME IsFiniteSet(Tasks), OInv, Watch, NEW t \in Tasks, Answer(t)
    PROVE  OKept
<1> DEFINE rec == Resumed(records[t])
           recs == [records EXCEPT ![t] = rec]
<1>1. PICK f \in Faults : Schedule(t, recs, Persisted(files, t, rec, f), lanes, runs)
    BY DEF Answer
<1>2. nextSeq' = nextSeq /\ mode' = mode /\ records[t].pending
    BY DEF Answer
<1>3. records[t].status # "accepted"
    BY <1>2 DEF OInv, IInv, Good, RecordsSane, Active
<1>4. /\ rec \in Records /\ rec.status = "accepted" /\ rec.bg = None
      /\ rec.seq = records[t].seq /\ rec.delivery = records[t].delivery
    BY ZenonT(60), Begun, ResumedTyped DEF Resumed, Records
<1> HIDE DEF rec
<1>5. /\ recs \in [Tasks -> Records] /\ recs[t] = rec
      /\ \A u \in Tasks \ {t} : recs[u] = records[u]
    BY <1>4, Begun
<1> HIDE DEF recs
<1>6. NotQueued(t, lanes)
    BY <1>3, OnlyAccepted
<1>7. Fair(recs, lanes, stray)
    BY <1>4, <1>5, <1>6, Begun, FairRecord
<1>8. Backed(recs, runs, mode)
    <2>1. recs[t].bg = None /\ None \notin Slots
        BY <1>4, <1>5, ConstantsAssumption
    <2>2. Backed(records, runs, mode)
        BY Begun
    <2>3. ASSUME NEW u \in Tasks
          PROVE  /\ recs[u].bg \in Slots =>
                       runs[recs[u].bg].pc # "free" /\ runs[recs[u].bg].task = u
                 /\ mode = "serving" /\ recs[u].status = "accepted" /\ recs[u].bg # None =>
                       /\ recs[u].bg \in Slots /\ runs[recs[u].bg].pc = "spawned"
                       /\ ~runs[recs[u].bg].cancel
        <3>1. CASE u = t
            BY <2>1, <3>1
        <3>2. CASE u # t
            BY <1>5, <2>2, <3>2 DEF Backed
        <3> QED
            BY <3>1, <3>2
    <2> QED
        BY <2>3 DEF Backed
<1>9. WaitersKnown(recs, lanes, stray)
    BY <1>4, <1>5, WaitersOwn DEF Waiting
<1>10. recs[t].status # "running" /\ recs[t].bg # Done
    BY <1>4, <1>5, ConstantsAssumption
<1>11. FairEnd(recs, stray)
    BY <1>1, <1>7, <1>9, <1>10, InPlace, ScheduleFair
<1>12. Backed(records', runs', mode')
    BY <1>1, <1>2, <1>5, <1>8, Begun, ScheduleBacked
<1>13. \A u \in Tasks : recs[u].seq = records[u].seq
    BY <1>4, <1>5
<1> QED
    BY <1>2, <1>11, <1>12, <1>13, TailKept

\* A coroutine that begins is that of the owner of its lane: of those that may start
\* before it, none waits.
LEMMA StartOrdered ==
    ASSUME OInv, Watch, NEW r \in Slots, BgStart(r)
    PROVE  /\ OKept
           /\ \A u \in Tasks \ stray :
                 /\ runs[r].task \notin stray /\ SessionOf[u] = SessionOf[runs[r].task]
                 /\ records[u].status = "accepted" /\ records[u].seq < records[runs[r].task].seq
                 => records[u].delivery = "queue" /\ records[runs[r].task].delivery = "steer"
<1> DEFINE t == runs[r].task
           rec == [records[t] EXCEPT !.status = "running", !.attempt = r]
           run == [runs[r] EXCEPT !.pc = "executing", !.attempt = r]
<1>1. t \in Tasks /\ runs[r].pc = "spawned" /\ ~runs[r].cancel
    BY DEF BgStart, OInv, IInv, Good, RunsSane
<1>2. /\ records[t].bg = r /\ records[t].status = "accepted"
      /\ SessionOf[t] # NoSession => lanes[SessionOf[t]].active = t
    BY <1>1 DEF OInv, IInv, Good, Owned, Uncancelled
<1>3. /\ records' = [records EXCEPT ![t] = rec] /\ lanes' = lanes
      /\ runs' = [runs EXCEPT ![r] = run]
    BY <1>2, StatusFacts DEF BgStart, Commit
<1>4. nextSeq' = nextSeq /\ mode' = mode
    BY DEF BgStart
<1>5. /\ rec \in Records /\ rec.status = "running" /\ rec.bg = r
      /\ rec.seq = records[t].seq /\ rec.delivery = records[t].delivery
    BY <1>1, <1>2, Begun DEF Records, Active
<1>6. run.pc = "executing" /\ run.task = t
    BY Begun DEF Runs
<1> HIDE DEF rec, run
<1>7. PICK recs \in [Tasks -> Records] : recs = records'
    BY <1>1, <1>3, <1>5, Begun
<1>8. recs[t] = rec /\ \A u \in Tasks \ {t} : recs[u] = records[u]
    BY <1>1, <1>3, <1>7, Begun
<1>9. NotQueued(t, lanes)
    BY <1>1, <1>2, Begun, ConstantsAssumption DEF NotQueued, Fair, LaneFair, Queued, Waiters
<1>10. Fair(recs, lanes, stray)
    BY <1>1, <1>5, <1>8, <1>9, Begun, FairRecord
<1>11. FairEnd(recs, stray)
    BY <1>3, <1>7, <1>10 DEF FairEnd, Steady
<1>12. Backed(records', runs', mode')
    <2>1. \A u \in Tasks \ {t} : records[u].bg # r
        BY <1>1 DEF OInv, Backed
    <2>2. /\ runs'[r] = run /\ \A q \in Slots \ {r} : runs'[q] = runs[q]
        BY <1>3, Begun
    <2>3. /\ records'[t] = rec /\ \A u \in Tasks \ {t} : records'[u] = records[u]
        BY <1>7, <1>8
    <2> QED
        BY <1>1, <1>4, <1>5, <1>6, <2>1, <2>2, <2>3, Begun DEF Backed
<1>13. \A u \in Tasks : recs[u].seq = records[u].seq
    BY <1>5, <1>8
<1>14. OKept
    BY SMTT(40), <1>4, <1>11, <1>12, <1>13, TailKept
<1>15. ASSUME NEW u \in Tasks \ stray, t \notin stray, SessionOf[u] = SessionOf[t],
              records[u].status = "accepted", records[u].seq < records[t].seq
       PROVE  records[u].delivery = "queue" /\ records[t].delivery = "steer"
    <2> DEFINE s == SessionOf[u]
               lane == lanes[s]
    <2>1. InLane(u)
        BY DEF OInv
    <2>2. s # NoSession /\ s \in Sessions /\ lane.active = t
        BY <1>2, <1>15, <2>1, ConstantsAssumption DEF InLane
    <2>3. u # t
        BY <1>1, <1>15, Begun
    <2>4. PICK e \in lane.pending : e.task = u
        BY <2>1, <2>2, <2>3 DEF InLane, IsPending, Waiters
    <2>5. LaneFair(s, records, lane, stray)
        BY <2>2, Begun DEF Fair
    <2>6. e.seq = records[u].seq /\ e.delivery = records[u].delivery
        BY <2>4, <2>5 DEF LaneFair, Queued
    <2> QED
        BY <1>1, <1>15, <2>2, <2>4, <2>5, <2>6 DEF LaneFair, MayStart
<1> QED
    BY <1>14, <1>15

\* A background task that is over was none of those that wait.
LEMMA DetachedOrdered ==
    ASSUME OInv, NEW r \in Slots, runs[r].pc = "spawned" => runs[r].cancel
    PROVE  /\ Detached(records, r) \in [Tasks -> Records]
           /\ Fair(Detached(records, r), lanes, stray)
           /\ Freed(r) \in [Slots -> Runs]
           /\ runs[r].pc # "free" => Backed(Detached(records, r), Freed(r), mode)
           /\ \A u \in Tasks :
                 /\ Detached(records, r)[u].seq = records[u].seq
                 /\ Detached(records, r)[u].status = records[u].status
                 /\ Detached(records, r)[u].delivery = records[u].delivery
                 /\ Detached(records, r)[u].pending = records[u].pending
                 /\ Detached(records, r)[u].bg = IF records[u].bg = r THEN Done ELSE records[u].bg
<1> DEFINE recs == Detached(records, r)
<1>1. /\ recs \in [Tasks -> Records]
      /\ \A u \in Tasks :
            /\ recs[u].seq = records[u].seq /\ recs[u].status = records[u].status
            /\ recs[u].delivery = records[u].delivery /\ recs[u].pending = records[u].pending
            /\ recs[u].bg = IF records[u].bg = r THEN Done ELSE records[u].bg
    BY Begun DEF Detached, Records
<1> HIDE DEF recs
<1>2. None # r /\ Done \notin Slots /\ Done # None
    BY ConstantsAssumption
<1>3. ASSUME NEW s \in Sessions PROVE LaneFair(s, recs, lanes[s], stray)
    <2>1. LaneFair(s, records, lanes[s], stray) /\ lanes[s] \in Lanes
        BY Begun DEF Fair
    <2>2. \A e \in lanes[s].pending : e.task \in Tasks /\ records[e.task].bg = None
        BY <2>1 DEF LaneFair, Queued, Lanes, Entries
    <2>3. \A e \in lanes[s].pending : recs[e.task].bg = records[e.task].bg
        BY <1>1, <1>2, <2>2
    <2> QED
        BY <1>1, <2>1, <2>2, <2>3, RecordsFair
<1>4. Fair(recs, lanes, stray)
    BY <1>1, <1>3, Begun DEF Fair
<1>5. /\ Freed(r) \in [Slots -> Runs]
      /\ \A q \in Slots \ {r} : Freed(r)[q] = runs[q]
    BY Begun, NoneAssumption, ConstantsAssumption DEF Freed, FreeRun, Runs
<1>6. ASSUME runs[r].pc # "free" PROVE Backed(recs, Freed(r), mode)
    <2>1. \A u \in Tasks : mode = "serving" /\ records[u].status = "accepted" => records[u].bg # r
        BY <1>2, Begun DEF Backed
    <2>2. ASSUME NEW u \in Tasks
          PROVE  /\ recs[u].bg \in Slots =>
                       Freed(r)[recs[u].bg].pc # "free" /\ Freed(r)[recs[u].bg].task = u
                 /\ mode = "serving" /\ recs[u].status = "accepted" /\ recs[u].bg # None =>
                       /\ recs[u].bg \in Slots /\ Freed(r)[recs[u].bg].pc = "spawned"
                       /\ ~Freed(r)[recs[u].bg].cancel
        <3>1. Backed(records, runs, mode)
            BY Begun
        <3>2. CASE records[u].bg = r
            BY <1>1, <1>2, <2>1, <3>2
        <3>3. CASE records[u].bg # r
            <4>1. recs[u].bg = records[u].bg /\ recs[u].status = records[u].status
                BY <1>1, <3>3
            <4>2. records[u].bg \in Slots => Freed(r)[records[u].bg] = runs[records[u].bg]
                BY <1>5, <3>3
            <4> QED
                BY <3>1, <4>1, <4>2 DEF Backed
        <3> QED
            BY <3>2, <3>3
    <2> QED
        BY <2>2 DEF Backed
<1> QED
    BY <1>1, <1>4, <1>5, <1>6 DEF recs

\* A coroutine that ends without an outcome.
LEMMA SilentOrdered ==
    ASSUME IsFiniteSet(Tasks), OInv, Watch, NEW r \in Slots, NEW t \in Tasks,
           runs[r].pc = "executing",
           Finally(t, Detached(records, r), files, Freed(r)), UNCHANGED <<nextSeq, mode>>
    PROVE  OKept
<1>1. PICK recs \in [Tasks -> Records] : recs = Detached(records, r)
    BY DetachedOrdered
<1>2. /\ Fair(recs, lanes, stray) /\ Backed(recs, Freed(r), mode)
      /\ Freed(r) \in [Slots -> Runs] /\ Finally(t, recs, files, Freed(r))
      /\ \A u \in Tasks : /\ recs[u].seq = records[u].seq /\ recs[u].status = records[u].status
                          /\ recs[u].pending = records[u].pending
    BY <1>1, DetachedOrdered
<1>3. WaitersKnown(recs, lanes, stray)
    BY <1>2, WaitersOwn DEF Waiting
<1>4. FairEnd(recs, stray)
    BY <1>2, <1>3, FinallyFair
<1>5. Backed(records', runs', mode')
    BY <1>2, Begun, FinallyBacked
<1> QED
    BY <1>2, <1>4, <1>5, TailKept

\* A coroutine that ends and writes its outcome.
LEMMA OutcomeOrdered ==
    ASSUME IsFiniteSet(Tasks), OInv, Watch, NEW r \in Slots, NEW t \in Tasks,
           runs[r].pc = "executing", records[t].status # "accepted",
           NEW rec \in Records, rec.status # "accepted",
           rec.seq = records[t].seq, rec.delivery = records[t].delivery,
           rec.bg = Detached(records, r)[t].bg,
           NEW recs, recs = Updated(Detached(records, r), t, rec),
           NEW recs2 \in {recs, Pruned(recs)}, NEW dsk,
           Finally(t, recs2, dsk, Freed(r)), UNCHANGED <<nextSeq, mode>>
    PROVE  OKept
<1>1. PICK recs1 \in [Tasks -> Records] : recs1 = Detached(records, r)
    BY DetachedOrdered
<1>2. /\ Fair(recs1, lanes, stray) /\ Backed(recs1, Freed(r), mode)
      /\ Freed(r) \in [Slots -> Runs]
      /\ \A u \in Tasks : /\ recs1[u].seq = records[u].seq /\ recs1[u].status = records[u].status
                          /\ recs1[u].delivery = records[u].delivery
                          /\ recs1[u].pending = records[u].pending
    BY <1>1, DetachedOrdered
<1>3. /\ recs \in [Tasks -> Records] /\ recs[t] = rec
      /\ \A u \in Tasks \ {t} : recs[u] = recs1[u]
    BY <1>1 DEF Updated
<1>4. NotQueued(t, lanes)
    BY OnlyAccepted
<1>5. Fair(recs, lanes, stray)
    BY <1>2, <1>3, <1>4, FairRecord
<1>6. Backed(recs, Freed(r), mode)
    BY <1>1, <1>2, <1>3 DEF Backed
<1>7. /\ recs2 \in [Tasks -> Records] /\ Fair(recs2, lanes, stray)
      /\ Backed(recs2, Freed(r), mode)
      /\ \A u \in Tasks : recs2[u] \in {recs[u], Absent}
    BY <1>3, <1>5, <1>6, FairPruned, PrunedBacked DEF Fair
<1>8. WaitersKnown(recs2, lanes, stray)
    <2> SUFFICES ASSUME NEW u \in Tasks \ stray, Waiting(recs2[u])
                 PROVE  records[u].status # "accepted"
        BY WaitersOwn
    <2>1. ~Waiting(Absent)
        BY DEF Absent, Waiting
    <2> QED
        BY <1>2, <1>3, <1>7, <2>1 DEF Waiting
<1>9. FairEnd(recs2, stray)
    BY <1>7, <1>8, FinallyFair
<1>10. Backed(records', runs', mode')
    BY <1>2, <1>7, Begun, FinallyBacked
<1>11. \A u \in Tasks : recs2[u].seq = records[u].seq \/ recs2[u] = Absent
    BY <1>2, <1>3, <1>7
<1> QED
    BY <1>9, <1>10, <1>11, TailKept

\* The coroutine whose attempt is the current one is that of a running task.
LEMMA RunsNow ==
    ASSUME OInv, NEW r \in Slots, runs[r].pc = "executing"
    PROVE  /\ runs[r].task \in Tasks /\ runs[r].attempt = r /\ r # None
           /\ records[runs[r].task].attempt = r => records[runs[r].task].status # "accepted"
BY ConstantsAssumption DEF OInv, IInv, Good, RunsSane, RecordsSane

\* An execution that returns gives the lane to the task that is next.
LEMMA EndOrdered ==
    ASSUME IsFiniteSet(Tasks), OInv, Watch, NEW r \in Slots,
           NEW status \in {"success", "error", "blocked"}, NEW pending \in BOOLEAN,
           BgEnd(r, status, pending)
    PROVE  OKept
<1> DEFINE t == runs[r].task
           recs == Detached(records, r)
           rec == Ended(recs[t], status, pending, FALSE)
<1>1. runs[r].pc = "executing" /\ UNCHANGED <<nextSeq, mode>>
    BY DEF BgEnd
<1>2. /\ t \in Tasks /\ runs[r].attempt = r /\ r # None
      /\ records[t].attempt = r => records[t].status # "accepted"
    BY <1>1, RunsNow
<1>3. /\ recs[t] \in Records /\ recs[t].attempt = records[t].attempt
    BY SMTT(40), <1>2, Begun DEF Detached, Records
<1>4. recs[t].seq = records[t].seq /\ recs[t].delivery = records[t].delivery
    BY <1>1, <1>2, DetachedOrdered
<1>5. CASE TakesTerminal(recs[t], status, runs[r].attempt)
    <2>1. PICK f \in Faults :
             LET recs2 == Updated(recs, t, Compacted(rec, f)) IN
             Finally(t, Pruned(recs2),
                     PrunedFiles(recs2, Persisted(files, t, rec, f)), Freed(r))
        BY <1>5 DEF BgEnd
    <2>2. records[t].attempt = r
        BY <1>2, <1>3, <1>5 DEF TakesTerminal
    <2>3. /\ rec \in Records /\ rec.status = status /\ rec.bg = recs[t].bg
          /\ rec.seq = recs[t].seq /\ rec.delivery = recs[t].delivery
        BY <1>3 DEF Ended, Records, Terminal
    <2> HIDE DEF rec, recs
    <2>4. PICK rec2 \in Records :
             /\ rec2 = Compacted(rec, f) /\ rec2.status = status /\ rec2.bg = recs[t].bg
             /\ rec2.seq = records[t].seq /\ rec2.delivery = records[t].delivery
        BY <1>4, <2>3, CompactedTyped
    <2>5. Finally(t, Pruned(Updated(recs, t, rec2)),
                  PrunedFiles(Updated(recs, t, rec2), Persisted(files, t, rec, f)), Freed(r))
        BY <2>1, <2>4
    <2>6. rec2.status # "accepted" /\ records[t].status # "accepted"
        BY <1>2, <2>2, <2>4
    <2> QED
        BY <1>1, <1>2, <2>4, <2>5, <2>6, OutcomeOrdered DEF recs
<1>6. CASE ~TakesTerminal(recs[t], status, runs[r].attempt)
    <2>1. Finally(t, recs, files, Freed(r))
        BY <1>6 DEF BgEnd
    <2> QED
        BY <1>1, <1>2, <2>1, SilentOrdered
<1> QED
    BY <1>5, <1>6

\* So does one that was cancelled and unwinds.
LEMMA UnwoundOrdered ==
    ASSUME IsFiniteSet(Tasks), OInv, Watch, NEW r \in Slots, BgCancelled(r)
    PROVE  OKept
<1> DEFINE t == runs[r].task
           recs == Detached(records, r)
           rec == CancelledRecord(recs[t])
<1>1. runs[r].pc = "executing" /\ UNCHANGED <<nextSeq, mode>>
    BY DEF BgCancelled
<1>2. /\ t \in Tasks /\ runs[r].attempt = r /\ r # None
      /\ records[t].attempt = r => records[t].status # "accepted"
    BY <1>1, RunsNow
<1>3. /\ recs[t] \in Records /\ recs[t].attempt = records[t].attempt
    BY <1>2, Begun DEF Detached, Records
<1>4. recs[t].seq = records[t].seq /\ recs[t].delivery = records[t].delivery
    BY <1>1, <1>2, DetachedOrdered
<1>5. CASE recs[t].status \in Active /\ recs[t].attempt = r
    <2>1. PICK f \in Faults :
             Finally(t, Updated(recs, t, Compacted(rec, f)), Persisted(files, t, rec, f), Freed(r))
        BY <1>2, <1>5 DEF BgCancelled
    <2>2. /\ rec \in Records /\ rec.status = "cancelled" /\ rec.bg = recs[t].bg
          /\ rec.seq = recs[t].seq /\ rec.delivery = recs[t].delivery
        BY <1>3 DEF CancelledRecord, Records, Terminal
    <2> HIDE DEF rec, recs
    <2>3. PICK rec2 \in Records :
             /\ rec2 = Compacted(rec, f) /\ rec2.status = "cancelled" /\ rec2.bg = recs[t].bg
             /\ rec2.seq = records[t].seq /\ rec2.delivery = records[t].delivery
        BY <1>4, <2>2, CompactedTyped
    <2>4. Finally(t, Updated(recs, t, rec2), Persisted(files, t, rec, f), Freed(r))
        BY <2>1, <2>3
    <2>5. rec2.status # "accepted" /\ records[t].status # "accepted"
        BY <1>2, <1>3, <1>5, <2>3
    <2> QED
        BY <1>1, <1>2, <2>3, <2>4, <2>5, OutcomeOrdered DEF recs
<1>6. CASE ~(recs[t].status \in Active /\ recs[t].attempt = r)
    <2>1. Finally(t, recs, files, Freed(r))
        BY <1>2, <1>6 DEF BgCancelled
    <2> QED
        BY <1>1, <1>2, <2>1, SilentOrdered
<1> QED
    BY <1>5, <1>6

\* One that never started leaves the lane as it is.
LEMMA NeverStartedOrdered ==
    ASSUME OInv, Watch, NEW r \in Slots, BgNeverStarted(r)
    PROVE  OKept
<1>1. /\ runs[r].pc = "spawned" /\ runs[r].cancel /\ UNCHANGED <<nextSeq, mode>>
      /\ Commit(Detached(records, r), files, lanes, Freed(r))
    BY DEF BgNeverStarted
<1>2. PICK recs \in [Tasks -> Records] : recs = Detached(records, r)
    BY <1>1, DetachedOrdered
<1>3. /\ Fair(recs, lanes, stray) /\ Backed(recs, Freed(r), mode)
      /\ \A u \in Tasks : recs[u].seq = records[u].seq
    BY <1>1, <1>2, DetachedOrdered
<1>4. FairEnd(recs, stray)
    BY <1>1, <1>2, <1>3, CommitFair
<1>5. Backed(records', runs', mode')
    BY <1>1, <1>2, <1>3 DEF Commit
<1> QED
    BY <1>1, <1>3, <1>4, <1>5, TailKept

\* The end of the process moves no lane.
LEMMA ShutdownOrdered ==
    ASSUME OInv, Watch, Shutdown
    PROVE  OKept
<1>1. UNCHANGED <<records, lanes, nextSeq>> /\ mode' = "stopping"
    BY DEF Shutdown
<1>2. \A r \in Slots : runs'[r].pc = runs[r].pc /\ runs'[r].task = runs[r].task
    <2>1. \A r \in Slots : runs[r] \in Runs
        BY Begun
    <2> QED
        BY <2>1 DEF Shutdown, Runs
<1>3. FairEnd(records, stray)
    BY <1>1, Begun DEF FairEnd, Steady
<1>4. Backed(records', runs', mode')
    BY <1>1, <1>2, Begun DEF Backed
<1> QED
    BY <1>1, <1>3, <1>4, TailKept

\* A lane nobody waits in.
LEMMA EmptyFair ==
    ASSUME NEW s, NEW recs, NEW lane \in Lanes, NEW L, lane.pending = {},
           lane.active # None => SessionOf[lane.active] = s
    PROVE  LaneFair(s, recs, lane, L)
BY DEF LaneFair, Lined, Queued, FirstCome, MayStart

\* Nobody waits in a lane of the next process.
LEMMA RestartOrdered ==
    ASSUME OInv, Watch, Restart
    PROVE  OKept
<1> DEFINE loaded(L) == Pruned(Loaded(L))
           stale(L, t) == StaleOnRestart(loaded(L)[t])
           recs(L, fault) == [t \in Tasks |->
               IF loaded(L)[t].status \in Active THEN Compacted(stale(L, t), fault[t])
               ELSE loaded(L)[t]]
<1>1. PICK L \in LoadSets, fault \in ReconcileFaults :
         /\ records' = Pruned(recs(L, fault))
         /\ lanes' = [s \in Sessions |-> Rehydrated(s, loaded(L), Fresh)]
         /\ nextSeq' \in {n + 1 : n \in {files[t].seq : t \in L} \cup {0}}
         /\ \A m \in {files[t].seq : t \in L} : m < nextSeq'
    BY DEF Restart
<1>2. files \in [Tasks -> Images] /\ L \in SUBSET Tasks
    BY Begun DEF LoadSets, OnDisk
<1>3. 0 < nextSeq' /\ nextSeq' \in Nat
    BY <1>1, <1>2 DEF Images
<1>4. /\ Loaded(L) \in [Tasks -> Records]
      /\ \A t \in Tasks : Loaded(L)[t].bg = None /\ Loaded(L)[t].seq < nextSeq'
    BY <1>1, <1>2, <1>3, AbsentTyped DEF Loaded, Images, Records, Absent
<1>5. Absent.bg = None /\ Absent.seq = 0
    BY DEF Absent
<1>6. /\ loaded(L) \in [Tasks -> Records]
      /\ \A t \in Tasks : loaded(L)[t].bg = None /\ loaded(L)[t].seq < nextSeq'
    BY <1>3, <1>4, <1>5, AbsentTyped DEF Pruned
<1> HIDE DEF loaded
<1>7. \A t \in Tasks : /\ stale(L, t) \in Records
                      /\ stale(L, t).bg = None /\ stale(L, t).seq < nextSeq'
    <2> SUFFICES ASSUME NEW t \in Tasks
                 PROVE  /\ stale(L, t) \in Records
                        /\ stale(L, t).bg = None /\ stale(L, t).seq < nextSeq'
        OBVIOUS
    <2>1. PICK rec \in Records : rec = loaded(L)[t]
        BY <1>6
    <2>2. /\ StaleOnRestart(rec) \in Records
          /\ StaleOnRestart(rec).bg = rec.bg /\ StaleOnRestart(rec).seq = rec.seq
        BY DEF StaleOnRestart, Ended, Records, Terminal
    <2> QED
        BY <1>6, <2>1, <2>2
<1> HIDE DEF stale
<1>8. /\ recs(L, fault) \in [Tasks -> Records]
      /\ \A t \in Tasks : recs(L, fault)[t].bg = None /\ recs(L, fault)[t].seq < nextSeq'
    BY <1>6, <1>7, CompactedTyped
<1> HIDE DEF recs
<1>9. /\ records' \in [Tasks -> Records]
      /\ \A t \in Tasks : records'[t].bg = None /\ records'[t].seq < nextSeq'
    BY <1>1, <1>3, <1>5, <1>8, AbsentTyped DEF Pruned
<1>10. PICK recs2 \in [Tasks -> Records] : recs2 = records'
    BY <1>9
<1>11. ASSUME NEW s \in Sessions PROVE LaneFair(s, recs2, lanes'[s], {})
    <2> DEFINE lane == Rehydrated(s, loaded(L), Fresh)
    <2>1. /\ LaneFair(s, loaded(L), lane, {}) /\ lane.pending = {}
        BY <1>6, FreshFair, RehydratedFair
    <2>2. lanes'[s] = lane
        BY <1>1
    <2> HIDE DEF lane
    <2>3. lane \in Lanes /\ (lane.active # None => SessionOf[lane.active] = s)
        BY <2>1 DEF LaneFair
    <2> QED
        BY <2>1, <2>2, <2>3, EmptyFair
<1>12. Fair(records', lanes', {})
    <2>1. lanes' \in [Sessions -> Lanes]
        BY <1>1, <1>11 DEF LaneFair
    <2> QED
        BY <1>10, <1>11, <2>1 DEF Fair
<1>13. Fair(records', lanes', stray')
    BY <1>12, Watched
<1>14. Backed(records', runs', mode')
    BY <1>9, ConstantsAssumption DEF Backed
<1> QED
    BY <1>9, <1>13, <1>14 DEF OKept

-----------------------------------------------------------------------------
(* The order of the starts                                                 *)

\* The invariant holds in a fresh process.
LEMMA InitOInv == Init /\ stray = Tasks => OInv
<1> SUFFICES ASSUME Init, stray = Tasks PROVE OInv
    OBVIOUS
<1>1. IInv
    BY InitIInv
<1>2. Fair(records, lanes, stray)
    <2>1. Fresh \in Lanes
        BY DEF Fresh, Lanes
    <2> QED
        BY <2>1, FreshFair, AbsentTyped DEF Init, Fair
<1>3. Absent.bg = None /\ Absent.seq = 0
    BY DEF Absent
<1>4. Backed(records, runs, mode)
    BY <1>3, ConstantsAssumption DEF Init, Backed
<1>5. \A t \in Tasks : records[t].seq < nextSeq
    <2> SUFFICES ASSUME NEW t \in Tasks PROVE records[t].seq < nextSeq
        OBVIOUS
    <2>1. nextSeq = 1 /\ records[t].seq = 0
        BY <1>3 DEF Init
    <2>2. 0 < 1
        OBVIOUS
    <2> QED
        BY <2>1, <2>2
<1> QED
    BY <1>1, <1>2, <1>4, <1>5 DEF OInv

\* A coroutine that starts comes before those that wait, by the rule of its lane.
StartsOrdered ==
    \A r \in Slots : runs[r].pc = "spawned" /\ runs'[r].pc = "executing" =>
        \A u \in Tasks \ stray :
            /\ runs[r].task \notin stray /\ SessionOf[u] = SessionOf[runs[r].task]
            /\ records[u].status = "accepted" /\ records[u].seq < records[runs[r].task].seq
            => records[u].delivery = "queue" /\ records[runs[r].task].delivery = "steer"

\* Every step keeps the invariant and the order of the starts.
LEMMA NextOInv ==
    ASSUME IsFiniteSet(Tasks), OInv, [Next /\ Watch]_orderVars
    PROVE  OInv' /\ StartsOrdered
<1>1. IInv' /\ (Quiet => StartsOrdered)
    <2>1. [Next]_vars
        BY DEF orderVars
    <2> QED
        BY <2>1, NextIInv DEF OInv, Quiet, StartsOrdered
<1>2. CASE UNCHANGED orderVars
    BY <1>1, <1>2 DEF orderVars, vars, OInv, Fair, Backed, InLane, StartsOrdered
<1>3. ASSUME Next, Watch, OKept PROVE OInv'
    <2>1. \A t \in Tasks \ stray' : InLane(t)'
        BY <1>3 DEF Watch
    <2> QED
        BY <1>1, <1>3, <2>1 DEF OInv, OKept
<1>4. CASE Next /\ Watch
    <2>1. IInv
        BY DEF OInv
    <2>2. ASSUME NEW t \in Tasks, Handler(t) PROVE OKept /\ StartsOrdered
        <3>1. Requested \subseteq Deliveries
            BY ConstantsAssumption
        <3>2. OKept
            BY <1>4, <2>2, <3>1, DispatchOrdered, DuplicateOrdered, CancelActiveOrdered,
               CancelWaitingOrdered, AnswerOrdered DEF Handler
        <3>3. Quiet
            BY <2>1, <2>2, <3>1, DispatchNewStep, DispatchRestartStaleStep,
               DispatchDuplicateStep, CancelActiveStep, CancelWaitingStep, AnswerStep
               DEF Handler
        <3> QED
            BY <1>1, <3>2, <3>3
    <2>3. ASSUME NEW r \in Slots, BgStart(r) PROVE OKept /\ StartsOrdered
        <3>1. OKept
            BY <1>4, <2>3, StartOrdered
        <3>2. \A q \in Slots : runs[q].pc = "spawned" /\ runs'[q].pc = "executing" => q = r
            BY <2>3, Begun DEF BgStart, Commit
        <3> QED
            BY <1>4, <2>3, <3>1, <3>2, StartOrdered DEF StartsOrdered
    <2>4. ASSUME NEW r \in Slots, BgResult(r) PROVE OKept /\ StartsOrdered
        <3>1. Outcomes \ {"waiting"} \subseteq {"success", "error", "blocked"}
            BY ConstantsAssumption
        <3>2. PICK status \in {"success", "error", "blocked"}, pending \in BOOLEAN :
                 BgEnd(r, status, pending)
            BY <2>4, <3>1 DEF BgResult
        <3> QED
            BY <1>1, <1>4, <2>1, <3>2, EndOrdered, BgEndStep
    <2>5. ASSUME NEW r \in Slots, BgCancelled(r) \/ BgNeverStarted(r)
          PROVE  OKept /\ StartsOrdered
        BY <1>1, <1>4, <2>1, <2>5, UnwoundOrdered, NeverStartedOrdered, BgCancelledStep,
           BgNeverStartedStep
    <2>6. ASSUME Shutdown \/ Restart PROVE OKept /\ StartsOrdered
        BY <1>1, <1>4, <2>1, <2>6, ShutdownOrdered, RestartOrdered, ShutdownStep, RestartStep
    <2> QED
        BY <1>3, <1>4, <2>2, <2>3, <2>4, <2>5, <2>6 DEF Next, Step
<1> QED
    BY <1>2, <1>4

\* A lane is in order: whoever starts was admitted before the tasks of its session that
\* still wait, or steers past those that only queue.  The tasks in stray are excused; the
\* coordinator's dictionaries hold no more than finitely many tasks.
THEOREM LanesAreOrdered == IsFiniteSet(Tasks) => (OrderSpec => StartsInOrder)
<1> SUFFICES ASSUME IsFiniteSet(Tasks) PROVE OrderSpec => StartsInOrder
    OBVIOUS
<1>1. OInv /\ [Next /\ Watch]_orderVars => OInv' /\ [StartsOrdered]_orderVars
    BY NextOInv
<1> QED
    BY <1>1, InitOInv, PTL DEF OrderSpec, StartsInOrder, StartsOrdered
=============================================================================
