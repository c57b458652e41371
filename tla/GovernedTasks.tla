---------------------------- MODULE GovernedTasks ----------------------------
(***************************************************************************)
(* One task that the execution bus executes (ExecutionBus.execute) and     *)
(* that changes something outside: a GitHub review, a Jira workflow        *)
(* review, the reply to an event, or a delegation.  Governance admits it,  *)
(* a gate decides on each write, and the outside moves while it works.     *)
(* Executions share nothing in the process but pending delegations, which  *)
(* they keep under ids of their own.                                       *)
(***************************************************************************)
EXTENDS Naturals, Sequences, Functions

CONSTANTS Heads,      \* head commits a pull request may have
          MaxPushes,  \* bound on the pushes to it
          None

GovernedAssumption == MaxPushes \in Nat

\* What each kind of task may write, in this order; "other" has no handler.
WritesOf == [github |-> <<"review">>, event |-> <<"reply">>, delegation |-> <<>>, other |-> <<>>,
             jira |-> <<"comment", "fields", "transition", "assignee">>]

\* A Jira review writes what its payload asks for; the others write all.
Place(w) == CHOOSE i \in 1..4 : WritesOf.jira[i] = w

JiraPlans ==
    {plan \in UNION {[1..n -> Range(WritesOf.jira)] : n \in 0..4} :
        \A i, j \in DOMAIN plan : i < j => Place(plan[i]) < Place(plan[j])}

Plans(kind) == IF kind = "jira" THEN JiraPlans ELSE {WritesOf[kind]}

\* Requests by kind, head commit they name, and writes the capability constraints forbid.
Requests == UNION {[kind : {k}, wanted : IF k = "github" THEN Heads \cup {None} ELSE {None},
                    plan : Plans(k), denied : SUBSET Range(WritesOf[k])] : k \in DOMAIN WritesOf}

Replies == {"done", "lost", "refused"}  \* the write happened, unheard of, or it did not happen

VARIABLES
    request,   \* the request, with the writes it came to
    head,      \* the head commit of the pull request
    pushes,
    at,        \* "start", "look", "read", "work", "check", "write", "over" or "cut"
    todo,      \* writes still to do
    applied,   \* actions_applied: what became of each write, as the task sees it
    status,    \* of the execution result
    events,    \* its lifecycle events
    pending,   \* the pending delegation in the session's metadata
    \* History:
    written,   \* the writes that happened, with the head they met
    answer,    \* the last look at the head
    calm,      \* whether the head has stood still since that look or, after it, the skill's end
    lost       \* whether the process died or a delegation could not be stored

outside == <<head, pushes>>
history == <<written, answer, calm, lost>>
vars == <<request, outside, at, todo, applied, status, events, pending, history>>

TypeOK ==
    /\ request \in [kind : DOMAIN WritesOf, wanted : Heads \cup {None},
                    plan : UNION {Plans(k) : k \in DOMAIN WritesOf},
                    denied : SUBSET UNION {Range(WritesOf[k]) : k \in DOMAIN WritesOf}]
    /\ head \in Heads /\ pushes \in 0..MaxPushes
    /\ at \in {"start", "look", "read", "work", "check", "write", "over", "cut"}
    /\ \E n \in 0..Len(request.plan) : todo = SubSeq(request.plan, n + 1, Len(request.plan))
    /\ \A a \in Range(applied) : a.write \in Range(request.plan)
                              /\ a.outcome \in {"success", "failed", "blocked"}
    /\ status \in {"none", "success", "error", "blocked"}
    /\ Range(events) \subseteq {"started", "completed", "failed"}
    /\ pending \in {"none", "pending", "completed", "failed"}
    /\ answer \in Heads \cup {None, "failed"}
    /\ calm \in BOOLEAN /\ lost \in BOOLEAN

Init ==
    /\ request \in Requests
    /\ head \in Heads /\ pushes = 0
    /\ at = "start" /\ todo = <<>> /\ applied = <<>> /\ status = "none"
    /\ events = <<>> /\ pending = "none"
    /\ written = <<>> /\ answer = None /\ calm = TRUE /\ lost = FALSE

-----------------------------------------------------------------------------
(* The end of execute(): its result and the terminal lifecycle event.      *)

Finish(s, before) ==
    /\ at' = "over" /\ status' = s
    /\ events' = before \o <<IF s = "success" THEN "completed" ELSE "failed">>

Go(to) == at' = to /\ UNCHANGED <<status, events>>

\* Pending delegations are written on a best effort.
Store(delegation) ==
    \/ pending' = delegation /\ UNCHANGED lost
    \/ lost' = TRUE /\ UNCHANGED pending

\* Governance admits the execution, also when its hook fails, and the handler of its kind begins.
Admit ==
    /\ at = "start"
    /\ request.kind # "other"
    /\ events' = <<"started">> /\ UNCHANGED status
    /\ at' = CASE request.kind = "jira" -> "read"
               [] request.wanted # None -> "look"
               [] OTHER -> "work"
    /\ IF request.kind = "delegation" THEN Store("pending") ELSE UNCHANGED <<pending, lost>>
    /\ UNCHANGED <<request, outside, todo, applied, written, answer, calm>>

\* Governance blocks it.
Block ==
    /\ at = "start"
    /\ Finish("blocked", <<>>)
    /\ UNCHANGED <<request, outside, todo, applied, pending, history>>

\* No handler knows its kind, or the handler refuses its input.
Refuse ==
    /\ at = "start"
    /\ \/ request.kind \in {"other", "delegation"} /\ Finish("blocked", <<"started">>)
       \/ request.kind # "other" /\ Finish("error", <<"started">>)
    /\ UNCHANGED <<request, outside, todo, applied, pending, history>>

\* The freshness guard, before the skill and before the write: a head that moved ends the
\* task, a head that cannot be read does not.
Look ==
    /\ at \in {"look", "check"}
    /\ \E seen \in {head, "failed"} :
        /\ answer' = seen
        /\ IF seen \in {request.wanted, "failed"}
           THEN Go(IF at = "look" THEN "work" ELSE "write")
           ELSE Finish("error", events)
    /\ calm' = TRUE
    /\ UNCHANGED <<request, outside, todo, applied, pending, written, lost>>

\* Variant: the first look is good enough.
LooksOnce == "write"

\* After the skill the guard looks again, if the request names a head.
AfterSkill == IF request.wanted # None THEN "check" ELSE "write"

\* The skill or the agent comes up with something to write, or the task fails.
Work ==
    /\ at = "work" /\ request.kind \in {"github", "event"}
    /\ \/ Go(AfterSkill) /\ todo' = request.plan
       \/ Finish("error", events) /\ UNCHANGED todo
    /\ calm' = TRUE
    /\ UNCHANGED <<request, outside, applied, pending, written, answer, lost>>

\* The skill of a delegation: whatever its end, the finally block closes the pending record.
Delegated ==
    /\ at = "work" /\ request.kind = "delegation"
    /\ \E ok \in BOOLEAN :
        /\ Finish(IF ok THEN "success" ELSE "error", events)
        /\ IF pending = "pending" THEN Store(IF ok THEN "completed" ELSE "failed")
                                  ELSE UNCHANGED <<pending, lost>>
    /\ UNCHANGED <<request, outside, todo, applied, written, answer, calm>>

\* comment_added, updated_fields, transitioned_to and assignee_updated of a Jira result repeat
\* the plan when it succeeds, also a comment or fields that were blocked; a failure names none.
Summary == IF request.kind = "jira" /\ status = "success" THEN Range(request.plan) ELSE {}

\* What is left to do after a write, or after the plan is made.  The result of a task that
\* ends has, besides the list of applied, its Summary.
Continue(rest) ==
    /\ todo' = rest
    /\ IF rest = <<>> THEN Finish("success", events) ELSE Go("write")

\* A Jira review reads the issue; who it assigns may not be found there.
ReadIssue ==
    /\ at = "read"
    /\ \/ Finish("error", events) /\ UNCHANGED <<request, todo>>
       \/ \E plan \in {request.plan} \cup
                       {p \in JiraPlans : Range(p) = Range(request.plan) \ {"assignee"}} :
            request' = [request EXCEPT !.plan = plan] /\ Continue(plan)
    /\ UNCHANGED <<outside, applied, pending, history>>

-----------------------------------------------------------------------------
(* Writes.                                                                 *)

\* A workflow review goes on without a comment or fields it may not write.
Optional(w) == w \in {"comment", "fields"}

Tell(outcome) == applied' = Append(applied, [write |-> todo[1], outcome |-> outcome])
Take(w) == written' = Append(written, [write |-> w, head |-> head, calm |-> calm])

\* The gate forbids the write.
Gated ==
    /\ at = "write" /\ todo[1] \in request.denied
    /\ Tell("blocked")
    /\ IF Optional(todo[1]) THEN Continue(Tail(todo)) ELSE Finish("error", events) /\ UNCHANGED todo
    /\ UNCHANGED <<request, outside, pending, history>>

\* The adapter writes; an event's reply that fails is an exception, and nothing lists it.
Write ==
    /\ at = "write" /\ todo[1] \notin request.denied
    /\ \E reply \in Replies :
        /\ IF reply = "refused" THEN UNCHANGED written ELSE Take(todo[1])
        /\ IF reply = "done"
           THEN Tell("success") /\ Continue(Tail(todo))
           ELSE /\ Finish("error", events) /\ UNCHANGED todo
                /\ IF request.kind = "event" THEN UNCHANGED applied ELSE Tell("failed")
    /\ UNCHANGED <<request, outside, pending, answer, calm, lost>>

-----------------------------------------------------------------------------
(* The outside, cancellation and crashes.                                  *)

Push ==
    /\ request.kind = "github" /\ pushes < MaxPushes
    /\ head' \in Heads \ {head} /\ pushes' = pushes + 1
    /\ calm' = FALSE
    /\ UNCHANGED <<request, at, todo, applied, status, events, pending, written, answer, lost>>

\* An execution is cut short at an await: the write it waits for may still happen.
Cut ==
    /\ at \notin {"over", "cut"} /\ at' = "cut"
    /\ \/ UNCHANGED written
       \/ at = "write" /\ todo[1] \notin request.denied /\ Take(todo[1])
    /\ UNCHANGED <<request, outside, todo, applied, status, events, answer, calm>>

\* asyncio cancels it: no result and no terminal event, but the finally block runs.
Cancel ==
    /\ Cut
    /\ IF pending = "pending" THEN Store("failed") ELSE UNCHANGED <<pending, lost>>

Crash == Cut /\ lost' = TRUE /\ UNCHANGED pending

Next ==
    \/ Admit \/ Block \/ Refuse \/ Look \/ Work \/ Delegated \/ ReadIssue
    \/ Gated \/ Write \/ Push \/ Cancel \/ Crash

Spec == Init /\ [][Next]_vars

-----------------------------------------------------------------------------
(* Properties.                                                             *)

\* A review that names a head commit is written to a pull request with that head, unless the
\* head could not be read or moved after the last look, which came after the skill.
ReviewIsCurrent ==
    \A w \in Range(written) :
        request.wanted # None /\ answer # "failed" /\ w.calm => w.head = request.wanted

Outcome(outcome) == {a.write : a \in {b \in Range(applied) : b.outcome = outcome}}
Written == {w.write : w \in Range(written)}

\* Nothing forbidden is written and nothing twice; a write follows those planned before it,
\* done or forbidden and optional; what actions_applied lists as done was, what was done it
\* lists at least as tried, and success means that the whole plan was done but for what was
\* forbidden.
WritesAreReported ==
    /\ Written \cap request.denied = {} /\ IsInjective([i \in DOMAIN written |-> written[i].write])
    /\ status = "blocked" => written = <<>>
    /\ \A i, j \in DOMAIN request.plan : i < j /\ request.plan[j] \in Written =>
        \/ request.plan[i] \in Outcome("success")
        \/ Optional(request.plan[i]) /\ request.plan[i] \in Outcome("blocked")
    /\ Outcome("success") \subseteq Written
    /\ at = "over" /\ request.kind # "event" => Written \subseteq Outcome("success") \cup Outcome("failed")
    /\ status = "success" =>
        /\ Range(request.plan) = Written \cup Outcome("blocked")
        /\ Outcome("blocked") \subseteq {w \in Range(request.plan) : Optional(w) \/ w \in Written}

\* The summary of a result claims what was written or, though only a comment or fields, what
\* actions_applied of the same result lists as blocked.
SummaryIsBacked ==
    \A w \in Summary : w \in Written \/ (Optional(w) /\ w \in Outcome("blocked"))

\* An execution that returns has one terminal event, that of its status; a delegation that is
\* over is closed in its session.
EndIsTold ==
    /\ at = "over" <=> \E i \in DOMAIN events : events[i] # "started"
    /\ \A i, j \in DOMAIN events : events[i] # "started" /\ events[j] # "started" => i = j
    /\ at = "over" => (status = "success") = (events[Len(events)] = "completed")
    /\ at \in {"over", "cut"} => pending # "pending" \/ lost

\* A task that writes outside is accounted for.
TaskIsAccountedFor == ReviewIsCurrent /\ WritesAreReported /\ SummaryIsBacked /\ EndIsTold
=============================================================================
