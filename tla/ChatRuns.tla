------------------------------- MODULE ChatRuns -------------------------------
(***************************************************************************)
(* Chat runs: ChatRunRegistry (src/src/gateway/chat_run_registry.py) and   *)
(* the handlers of /api/chat, /api/chat/stream and the run cancel endpoint *)
(* (src/src/gateway/runtime_api.py) that share it.                         *)
(*                                                                         *)
(* A handler looks its request id up, prepares attachments, registers the  *)
(* run, publishes that it started and then executes the run: /api/chat     *)
(* inside the handler, /api/chat/stream in a task of its own, which goes   *)
(* on when the handler is cancelled.  It suspends between these, so each   *)
(* is an action; the registry itself is synchronous.                       *)
(***************************************************************************)
EXTENDS Naturals, FiniteSets

CONSTANTS Handlers,      \* HTTP requests
          Requests,      \* request ids
          Sessions,
          None,          \* no task attached, no payload
          RequestOf,     \* [Handlers -> Requests]
          SessionOf,     \* [Handlers -> Sessions]
          Streams,       \* the handlers of /api/chat/stream
          Slow,          \* handlers that suspend between the look-up and start()
          Outcomes,      \* how a run may end by itself
          HandlerCancel, \* may the server cancel a handler?
          Cancellable,   \* request ids the Portal may cancel
          MaxRecords     \* records the registry keeps

ChatAssumption ==
    /\ None \notin Handlers
    /\ RequestOf \in [Handlers -> Requests] /\ SessionOf \in [Handlers -> Sessions]
    /\ Streams \subseteq Handlers /\ Slow \subseteq Handlers
    /\ Outcomes \subseteq {"returned", "raised", "invalid"}
    /\ HandlerCancel \in BOOLEAN /\ Cancellable \subseteq Requests
    /\ MaxRecords \in Nat \ {0}

VARIABLES records,  \* registry._records
          pc,       \* where a handler is
          run,      \* the execution a handler started
          watched,  \* streams whose run calls _finalize_chat_run_record when done
          hidden,   \* requests with a submission that the look-up of another missed
          dropped   \* requests whose record was dropped

forgotten == <<hidden, dropped>>

vars == <<records, pc, run, watched, forgotten>>

Terminal == {"completed", "failed", "cancelled"}

\* payload: the handler whose result final_payload holds.
Records == [state: {"absent", "running"} \cup Terminal, session: Sessions \cup {None},
            task: Handlers \cup {None}, payload: Handlers \cup {None}]

Absent == [state |-> "absent", session |-> None, task |-> None, payload |-> None]

New(s) == [Absent EXCEPT !.state = "running", !.session = s]

InProgress == {"running", "cancelling"}
Ended == {"returned", "raised", "invalid", "cancelled"}

-----------------------------------------------------------------------------
(* The registry                                                            *)

\* Variant: only a finished run counts as a duplicate, its payload being there.
ExistingFinished(h) ==
    /\ records[RequestOf[h]].state \in Terminal
    /\ records[RequestOf[h]].session = SessionOf[h]

\* get(request_id, session_id=...) finds a record.
Existing(h) ==
    /\ records[RequestOf[h]].state # "absent"
    /\ records[RequestOf[h]].session = SessionOf[h]

\* Nobody works on the request any more.  Only such a record is silent for the six
\* hours of the stale timeout: a run that goes on emits events, which refresh it.
Dead(r) == \A h \in Handlers : RequestOf[h] = r =>
    /\ run[h] \notin InProgress /\ h \notin watched
    /\ pc[h] \notin {"registered", "following"}

\* start(): an existing record of the session is kept as it is.  Otherwise there
\* is a new record, stale ones fail and terminal ones make room.
Started(h, stale, gone) ==
    IF Existing(h) THEN records
    ELSE [r \in Requests |->
             IF r = RequestOf[h] THEN New(SessionOf[h])
             ELSE IF r \in gone THEN Absent
             ELSE IF r \in stale THEN [records[r] EXCEPT !.state = "failed", !.task = None]
             ELSE records[r]]

\* The records a start() may find stale, and the terminal ones it may drop: the
\* least recently updated, whichever these are.
Stale(h) == SUBSET {r \in Requests \ {RequestOf[h]} : records[r].state = "running" /\ Dead(r)}

Dropped(h, stale) ==
    LET others   == {r \in Requests \ {RequestOf[h]} : records[r].state # "absent"}
        terminal == stale \cup {r \in others : records[r].state \in Terminal}
        overflow == IF Cardinality(others) < MaxRecords THEN 0
                    ELSE Cardinality(others) + 1 - MaxRecords
    IN  {g \in SUBSET terminal :
            Cardinality(g) = IF overflow > Cardinality(terminal)
                             THEN Cardinality(terminal) ELSE overflow}

\* attach_task
Attached(h) ==
    IF records[RequestOf[h]].state = "absent" THEN records
    ELSE [records EXCEPT ![RequestOf[h]] = [@ EXCEPT !.task = h]]

\* complete(), for whatever record has the request id.
Completed(h) ==
    IF records[RequestOf[h]].state = "absent" THEN records
    ELSE [records EXCEPT ![RequestOf[h]] =
             [@ EXCEPT !.state = "completed", !.task = None, !.payload = h]]

\* fail(): a cancelled record stays cancelled.
Failed(h) ==
    IF records[RequestOf[h]].state \in {"absent", "cancelled"} THEN records
    ELSE [records EXCEPT ![RequestOf[h]] = [@ EXCEPT !.state = "failed", !.task = None]]

\* _finalize_chat_run_record
Finalized(h) ==
    IF records[RequestOf[h]].state # "running" THEN records
    ELSE IF run[h] = "returned" THEN Completed(h) ELSE Failed(h)

-----------------------------------------------------------------------------
(* The handlers                                                            *)

Goes(h, to) == pc' = [pc EXCEPT ![h] = to]

\* The run, or the part of the handler that is the run, gets a CancelledError.
Cancelling(f, h) == [f EXCEPT ![h] = IF @ = "running" THEN "cancelling" ELSE @]

\* Requests whose record a step drops.
Vanishing == {r \in Requests : records[r].state # "absent" /\ records'[r].state = "absent"}

\* The record that start() comes upon is later than the look-up, or of another session
\* and replaced.
Misses(h) ==
    /\ records[RequestOf[h]].state # "absent"
    /\ pc[h] = "checked" \/ records[RequestOf[h]].session # SessionOf[h]

Register(h) ==
    /\ Goes(h, "registered")
    /\ \E stale \in Stale(h) : \E gone \in Dropped(h, stale) :
          records' = Started(h, stale, gone)
    /\ dropped' = dropped \cup Vanishing
    /\ hidden' = hidden \cup {r \in Vanishing : ~Dead(r)}
                        \cup {r \in {RequestOf[h]} : Misses(h)}

\* The duplicate check.  A duplicate is answered with the record, or follows it.
Check(h) ==
    /\ pc[h] = "idle"
    /\ \/ Existing(h) /\ Goes(h, "over") /\ UNCHANGED <<records, forgotten>>
       \/ ~Existing(h) /\ h \in Slow /\ Goes(h, "checked") /\ UNCHANGED <<records, forgotten>>
       \/ ~Existing(h) /\ h \notin Slow /\ Register(h)
    /\ UNCHANGED <<run, watched>>

Start(h) == pc[h] = "checked" /\ Register(h) /\ UNCHANGED <<run, watched>>

\* The handler gives up before the run: with a response (or a ValueError), or with
\* another exception, which fails the record of its request id.
GiveUp(h) ==
    /\ pc[h] \in {"checked", "registered"}
    /\ Goes(h, "over")
    /\ \/ "raised" \in Outcomes /\ records' = Failed(h)
       \/ (pc[h] = "checked" \/ "invalid" \in Outcomes) /\ UNCHANGED records
    /\ UNCHANGED <<run, watched, forgotten>>

Launch(h) ==
    /\ pc[h] = "registered"
    /\ Goes(h, "following")
    /\ run' = [run EXCEPT ![h] = "running"]
    /\ records' = IF h \in Streams THEN Attached(h) ELSE records
    /\ UNCHANGED <<watched, forgotten>>

\* The run ends.  One that was asked to stop may have been about to return, or
\* absorb the request (_await_forwarder_done).
RunEnds(h) ==
    /\ run[h] \in InProgress
    /\ \E how \in Outcomes \cup {"cancelled"} :
          /\ how = "cancelled" => run[h] = "cancelling"
          /\ run' = [run EXCEPT ![h] = how]
    /\ UNCHANGED <<records, pc, watched, forgotten>>

\* The handler has published the outcome and records it.  A ValueError is answered
\* with status 400 and not recorded.
Record(h) ==
    /\ pc[h] = "following" /\ run[h] \in Ended
    /\ Goes(h, "over")
    /\ records' = CASE run[h] = "returned" -> Completed(h)
                    [] run[h] = "raised"   -> Failed(h)
                    [] run[h] = "invalid"  -> records
                    [] OTHER -> IF h \in Streams THEN Finalized(h) ELSE Failed(h)
    /\ UNCHANGED <<run, watched, forgotten>>

\* Variant: the done callback is not added.
DetachedUnwatched(h) == watched

Detached(h) == watched \cup {h}

\* The server cancels the handler.  The run of a stream goes on, unless the handler
\* is cancelled again while it waits for the run; /api/chat dies with its run.
CancelHandler(h) ==
    /\ HandlerCancel
    /\ \/ /\ pc[h] \in {"checked", "registered"}
          /\ Goes(h, "over")
          /\ records' = IF h \in Streams THEN records ELSE Failed(h)
          /\ UNCHANGED <<run, watched, forgotten>>
       \/ /\ pc[h] = "following" /\ run[h] \in Ended
          /\ Goes(h, "over")
          /\ records' = IF h \in Streams THEN Finalized(h) ELSE Failed(h)
          /\ UNCHANGED <<run, watched, forgotten>>
       \/ /\ pc[h] = "following" /\ run[h] \in InProgress /\ h \in Streams
          /\ Goes(h, "draining")
          /\ watched' = Detached(h)
          /\ UNCHANGED <<records, run, forgotten>>
       \/ /\ \/ pc[h] = "following" /\ h \notin Streams
             \/ pc[h] = "draining"
          /\ run[h] \in InProgress
          /\ run' = Cancelling(run, h)
          /\ UNCHANGED <<records, pc, watched, forgotten>>

Callback(h) ==
    /\ h \in watched /\ run[h] \in Ended
    /\ watched' = watched \ {h}
    /\ records' = Finalized(h)
    /\ UNCHANGED <<pc, run, forgotten>>

Drained(h) ==
    /\ pc[h] = "draining" /\ run[h] \in Ended
    /\ Goes(h, "over")
    /\ UNCHANGED <<records, run, watched, forgotten>>

\* api_chat_run_cancel: the attached task, if there is one, is cancelled.
CancelRun(r) ==
    /\ r \in Cancellable /\ records[r].state = "running"
    /\ records' = [records EXCEPT ![r] = [@ EXCEPT !.state = "cancelled", !.task = None]]
    /\ run' = IF records[r].task = None THEN run ELSE Cancelling(run, records[r].task)
    /\ UNCHANGED <<pc, watched, forgotten>>

-----------------------------------------------------------------------------
Init ==
    /\ records = [r \in Requests |-> Absent]
    /\ pc = [h \in Handlers |-> "idle"]
    /\ run = [h \in Handlers |-> "none"]
    /\ watched = {} /\ hidden = {} /\ dropped = {}

\* What the process does by itself once a handler is there.
Progress(h) == Start(h) \/ Launch(h) \/ RunEnds(h) \/ Record(h) \/ Callback(h) \/ Drained(h)

Next ==
    \/ \E h \in Handlers : Check(h) \/ GiveUp(h) \/ Progress(h) \/ CancelHandler(h)
    \/ \E r \in Requests : CancelRun(r)

Spec == Init /\ [][Next]_vars

\* The loop runs what is ready, and a run ends: calls have timeouts.
FairSpec == Spec /\ \A h \in Handlers : WF_vars(Progress(h))

-----------------------------------------------------------------------------
(* Properties                                                              *)

\* Every variable keeps its type.
TypeOK ==
    /\ records \in [Requests -> Records]
    /\ pc \in [Handlers -> {"idle", "checked", "registered", "following", "draining", "over"}]
    /\ run \in [Handlers -> {"none"} \cup InProgress \cup Ended]
    /\ watched \subseteq Streams
    /\ hidden \cup dropped \subseteq Requests

\* A request of a session is never executed again while it is being executed,
\* however often the Portal submits it.
ExecutedOnce ==
    \A g, h \in Handlers :
        /\ g # h /\ RequestOf[g] = RequestOf[h] /\ SessionOf[g] = SessionOf[h]
        => ~(run[g] = "running" /\ run[h] = "running")

\* A request that is submitted again, also under another session's id or after a cancel, is
\* not executed again while it is being executed, unless the look-up missed the other
\* submission; nor at any later time, unless its record was dropped meanwhile.
RunsOnce ==
    \A g, h \in Handlers : g # h /\ RequestOf[g] = RequestOf[h] =>
        /\ run[g] \in InProgress /\ run[h] \in InProgress => RequestOf[h] \in hidden
        /\ run[g] # "none" /\ run[h] # "none" => RequestOf[h] \in hidden \cup dropped

\* What a reconnecting client is given was computed in its own session.
PayloadOfOwnSession ==
    \A r \in Requests : records[r].payload # None =>
        SessionOf[records[r].payload] = records[r].session

\* The outcome of a run reaches the record of its request, even when the handler
\* that started it is gone, unless the run ended with a ValueError.
RunIsRecorded ==
    \A h \in Handlers : run[h] = "running" ~>
        records[RequestOf[h]].state \in Terminal \cup {"absent"} \/ run[h] = "invalid"
=============================================================================
