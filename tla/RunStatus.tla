------------------------------- MODULE RunStatus -------------------------------
(***************************************************************************)
(* What the gateway says of the chat runs of one session: the registry in  *)
(* memory and the status in session metadata, which survives a restart     *)
(* (src/src/gateway/runtime_api.py, chat_run_registry.py and               *)
(* src/src/efp_runtime/session/gateway_facade.py), and manual compaction,  *)
(* which the status keeps from interfering with a run.  A run that is over *)
(* is told to the session and to the registry in two steps, between which  *)
(* its handler suspends.                                                   *)
(***************************************************************************)
EXTENDS FiniteSets

CONSTANTS Requests, \* request ids of chat runs
          None

VARIABLES up,       \* the process runs
          run,      \* what became of a run
          record,   \* state of a run in the registry, "none" where it has none
          meta,     \* last_execution_id, last_runtime_status, and whether there is a card
          compact,  \* api_compact_session: where it is, the status it read, and the runs
                    \* that were in flight then
          telling,  \* runs that are over and whose handler has yet to tell the registry
          asked,    \* runs their client cancelled
          missed,   \* runs that ended without writing a status
          crossed   \* runs during which another run of the session recorded its result

vars == <<up, run, record, meta, compact, telling, asked, missed, crossed>>

\* The results of a run; one that raises has none.
Outcomes == {"completed", "failed", "cancelled", "incomplete", "blocked"}

\* TERMINAL_STATES of the registry
Terminal == {"completed", "failed", "cancelled"}

InFlight == {r \in Requests : run[r] = "in flight"}

Idle == [pc |-> "idle", saw |-> "none", since |-> {}]

-----------------------------------------------------------------------------
\* chat_run_registry.start and mark_runtime_running: for a chat, which leaves a card where
\* there is one, or for the answer to a card, which retires it.
Start(r, answers) ==
    /\ up /\ run[r] = "none"
    /\ answers => meta.card
    /\ run' = [run EXCEPT ![r] = "in flight"]
    /\ record' = [record EXCEPT ![r] = "running"]
    /\ meta' = [last |-> r, status |-> "running", card |-> meta.card /\ ~answers]
    /\ UNCHANGED <<up, compact, telling, asked, missed, crossed>>

\* record_runtime_result.  Of a run that stops on a question or a permission the session
\* keeps the card; of any other it drops one.
Result(r, outcome) ==
    /\ run[r] = "in flight"
    /\ run' = [run EXCEPT ![r] = outcome]
    /\ meta' = [last |-> r, status |-> outcome, card |-> outcome = "blocked"]
    /\ telling' = telling \cup {r}
    /\ crossed' = crossed \cup (InFlight \ {r})
    /\ UNCHANGED <<up, record, compact, asked, missed>>

\* A run that raises or unwinds from a cancel has no result to record:
\* _persist_chat_failure_state writes a message and leaves the status.
Raise(r) ==
    /\ run[r] = "in flight"
    /\ run' = [run EXCEPT ![r] = "raised"]
    /\ telling' = telling \cup {r}
    /\ missed' = missed \cup {r}
    /\ UNCHANGED <<up, record, meta, compact, asked, crossed>>

\* complete() overwrites whatever is there, whatever the result that is not an error;
\* fail() leaves "cancelled".
Completed(r) == IF record[r] = "none" THEN "none" ELSE "completed"
Failed(r) == IF record[r] \in {"none", "cancelled"} THEN record[r] ELSE "failed"

\* The handler, the resumed run or the done callback tells the registry: complete() for a
\* result, fail() for an error or an exception, also one after the result.  A ValueError of
\* the run is answered and not told, and a cancel that unwinds tells nothing more.
Record(r) ==
    /\ r \in telling
    /\ telling' = telling \ {r}
    /\ \/ run[r] \in Outcomes \ {"failed"} /\ record' = [record EXCEPT ![r] = Completed(r)]
       \/ record' = [record EXCEPT ![r] = Failed(r)]
       \/ (run[r] = "raised" \/ record[r] \in Terminal) /\ UNCHANGED record
    /\ UNCHANGED <<up, run, meta, compact, asked, missed, crossed>>

\* api_chat_run_cancel: the registry says so at once, and the task of the run, if one is
\* attached, is cancelled and unwinds.
CancelRun(r) ==
    /\ record[r] = "running"
    /\ record' = [record EXCEPT ![r] = "cancelled"]
    /\ asked' = asked \cup {r}
    /\ UNCHANGED <<up, run, meta, compact, telling, missed, crossed>>

\* A start() finds a record that was silent for six hours; a run that goes on emits events,
\* which refresh it.
Stale(r) ==
    /\ record[r] = "running" /\ r \notin InFlight \cup telling
    /\ record' = [record EXCEPT ![r] = "failed"]
    /\ UNCHANGED <<up, run, meta, compact, telling, asked, missed, crossed>>

\* The registry prunes a record that is terminal.
Prune(r) ==
    /\ record[r] \in Terminal
    /\ record' = [record EXCEPT ![r] = "none"]
    /\ UNCHANGED <<up, run, meta, compact, telling, asked, missed, crossed>>

\* The process dies.
Crash ==
    /\ up
    /\ up' = FALSE
    /\ run' = [r \in Requests |-> IF r \in InFlight THEN "dead" ELSE run[r]]
    /\ missed' = IF meta.card THEN missed \cup InFlight ELSE missed
    /\ record' = [r \in Requests |-> "none"]
    /\ compact' = Idle /\ telling' = {}
    /\ UNCHANGED <<meta, asked, crossed>>

\* Variant: nothing is swept.
NotSwept == meta

\* mark_interrupted_running_sessions
Swept == IF meta.status = "running" /\ ~meta.card
         THEN [meta EXCEPT !.status = "interrupted"] ELSE meta

\* The gateway starts again.
Restart ==
    /\ ~up
    /\ up' = TRUE
    /\ meta' = Swept
    /\ UNCHANGED <<run, record, compact, telling, asked, missed, crossed>>

-----------------------------------------------------------------------------
\* api_compact_session reads the session in an executor ...
ReadStatus ==
    /\ up /\ compact.pc = "idle"
    /\ compact' = [pc |-> "read", saw |-> meta.status, since |-> InFlight]
    /\ UNCHANGED <<up, run, record, meta, telling, asked, missed, crossed>>

\* Variant: the status is not looked at.
AnyStatus == TRUE

MayCompact == compact.saw # "running"

\* ... and goes on with what it read: a checkpoint, the compaction and the new usage are one
\* step of the event loop.
Compact ==
    /\ compact.pc = "read"
    /\ compact' = IF MayCompact THEN [compact EXCEPT !.pc = "compacted"] ELSE Idle
    /\ UNCHANGED <<up, run, record, meta, telling, asked, missed, crossed>>

Respond == compact.pc = "compacted" /\ compact' = Idle
           /\ UNCHANGED <<up, run, record, meta, telling, asked, missed, crossed>>

-----------------------------------------------------------------------------
Init ==
    /\ up = TRUE /\ run = [r \in Requests |-> "none"] /\ record = [r \in Requests |-> "none"]
    /\ meta = [last |-> None, status |-> "none", card |-> FALSE]
    /\ compact = Idle /\ telling = {} /\ asked = {} /\ missed = {} /\ crossed = {}

Next ==
    \/ \E r \in Requests :
         \/ \E answers \in BOOLEAN : Start(r, answers)
         \/ \E outcome \in Outcomes : Result(r, outcome)
         \/ Raise(r) \/ Record(r) \/ CancelRun(r) \/ Stale(r) \/ Prune(r)
    \/ Crash \/ Restart \/ ReadStatus \/ Compact \/ Respond

-----------------------------------------------------------------------------
(* Properties                                                              *)

\* Every variable keeps its type.
TypeOK ==
    /\ up \in BOOLEAN
    /\ run \in [Requests -> {"none", "in flight", "raised", "dead"} \cup Outcomes]
    /\ record \in [Requests -> {"none", "running"} \cup Terminal]
    /\ meta \in [last: Requests \cup {None}, card: BOOLEAN,
                 status: {"none", "running", "interrupted"} \cup Outcomes]
    /\ compact \in [pc: {"idle", "read", "compacted"}, since: SUBSET Requests,
                    saw: {"none", "running", "interrupted"} \cup Outcomes]
    /\ telling \cup asked \cup missed \cup crossed \subseteq Requests

\* _chat_run_status_payload: the registry, or else the session.
Reported(r) ==
    IF record[r] # "none" THEN record[r]
    ELSE IF meta.last = r THEN meta.status ELSE "unknown"

\* A run that is reported as running is in flight or about to be told as over, across
\* restarts, unless it ended without a status: it raised, was cancelled, or died over a
\* card of an earlier run.
RunningIsTrue ==
    up => \A r \in Requests :
             Reported(r) = "running" => r \in InFlight \cup telling \cup missed

\* The session never says of a run in flight that it is over, although runs of a session
\* overlap and write to the same metadata; nor is that reported, unless its client
\* cancelled the run, which then still unwinds.
OverIsTrue ==
    up => \A r \in InFlight :
             /\ meta.last = r => meta.status = "running"
             /\ r \notin asked => Reported(r) = "running"

\* What the registry says became of a run that is over: it had a result that is no error,
\* or failed, or its client cancelled it.
OutcomeIsTrue ==
    \A r \in Requests :
        /\ record[r] = "completed" => run[r] \in Outcomes \ {"failed"}
        /\ record[r] = "failed" => run[r] \notin {"none", "in flight"}
        /\ record[r] = "cancelled" => r \in asked

\* A session whose last run waits on the member says so until another one begins, with the
\* card, also after a restart.
BlockedIsKept ==
    up /\ meta.last # None => (run[meta.last] = "blocked" => meta.status = "blocked" /\ meta.card)

\* What clients are told of a run is true, although runs of a session overlap and write to
\* the same metadata, outcomes are told in two steps, records are cancelled and pruned and
\* the gateway restarts.
StatusIsTrue == RunningIsTrue /\ OverIsTrue /\ OutcomeIsTrue /\ BlockedIsKept

\* No compaction works on the history of a run in flight, unless that began after the
\* status was read, or another run of the session recorded its result meanwhile.
CompactsBetweenRuns ==
    compact.pc = "compacted" => compact.since \cap InFlight \subseteq crossed
=============================================================================
