---------------------------- MODULE TaskContract ----------------------------
(***************************************************************************)
(* What the task service of the gateway promises to its callers, without   *)
(* lanes, coroutines, attempts or files: the life of a task and the rule   *)
(* that a task session does one thing at a time, across crashes.           *)
(* RuntimeTasks implements it (see Contract there).                        *)
(***************************************************************************)
CONSTANTS Tasks, SessionOf, NoSession

VARIABLE phase

Phases == {"idle", "ready", "executing", "parked", "settled"}

\* A settled task may be forgotten at any time.
MayForget(u) == phase'[u] = phase[u] \/ (phase[u] = "settled" /\ phase'[u] = "idle")

\* Task t goes from one of the phases `from' to one of `to'; nothing else moves.
Moves(t, from, to) ==
    /\ phase[t] \in from
    /\ \E p \in [Tasks -> Phases] : phase' = p
    /\ phase'[t] \in to
    /\ \A u \in Tasks \ {t} : MayForget(u)

SameSession(t, u) == SessionOf[t] = SessionOf[u] /\ SessionOf[t] # NoSession

\* A session executes, or waits for the user, for one of its tasks only.
SessionIsFree(t) ==
    \A u \in Tasks : SameSession(t, u) => phase[u] \notin {"executing", "parked"}

\* A request is admitted, or refused because its session was interrupted.
Admit(t)  == Moves(t, {"idle", "settled"}, {"ready", "settled"})
Start(t)  == SessionIsFree(t) /\ Moves(t, {"ready"}, {"executing"})
Park(t)   == Moves(t, {"executing"}, {"parked"})
Answer(t) == Moves(t, {"parked"}, {"ready"})
Settle(t) == Moves(t, {"ready", "executing", "parked"}, {"settled", "idle"})

Forget == \A t \in Tasks : MayForget(t)

\* The process is lost: nothing that was admitted runs again, and a task that
\* waits for the user goes on waiting.
Crash ==
    /\ \E p \in [Tasks -> Phases] : phase' = p
    /\ \A t \in Tasks :
          \/ MayForget(t) /\ phase[t] \in {"idle", "parked", "settled"}
          \/ phase[t] \in {"ready", "executing"} /\ phase'[t] \in {"settled", "idle"}

Init == phase = [t \in Tasks |-> "idle"]

Next ==
    \/ \E t \in Tasks : Admit(t) \/ Start(t) \/ Park(t) \/ Answer(t) \/ Settle(t)
    \/ Forget
    \/ Crash

Spec == Init /\ [][Next]_phase
=============================================================================
