------------------------------ MODULE AgentLoop ------------------------------
(***************************************************************************)
(* The runs of one session: AgentRuntime.run and resume                    *)
(* (src/src/efp_runtime/runtime/agent.py) begin a run in RuntimeRunState,  *)
(* RuntimeLoopRunner (loop/runner.py) alternates provider requests and     *)
(* tool calls until the run stops, and the permission and question brokers *)
(* (permissions.py, questions.py) stop it for the user.                    *)
(*                                                                         *)
(* The session is the assistant's tool calls, message by message, and the  *)
(* calls that have a result.  A step goes from one suspension of the run   *)
(* to the next: LoopHead to the provider request or to the first call, Request *)
(* over the reply, Call over what is decided before a tool starts, Return  *)
(* over its result.                                                        *)
(***************************************************************************)
EXTENDS Naturals, Sequences, SequencesExt, FiniteSets, FiniteSetsExt

CONSTANTS MaxRuns,       \* calls of run and resume (a bound)
          Runtimes,      \* AgentRuntime objects over the session's store
          RuntimeOf,     \* [Runs -> Runtimes]
          Calls,         \* tool calls the model may ask for
          KindOf,        \* [Calls -> Kinds]
          ArgsOf,        \* [Calls -> Args]: tool and arguments of a call
          Args,
          Scripts,       \* orders in which the model may ask for the calls
          MaxIterations, \* max_iterations
          MaxRetries,    \* provider_max_retries
          Threshold,     \* doom_loop_threshold
          MaxBatch,      \* tool calls of one message (a bound)
          MaxGrants      \* permissions the user decides (a bound)

\* "ignored" is _noop or a tool that is not enabled, "final" ends the run.
Kinds == {"plain", "gated", "question", "ignored", "final"}

\* Runs are numbered in the order in which they begin.
Runs == 1..MaxRuns

ASSUME AgentAssumption ==
    /\ RuntimeOf \in [Runs -> Runtimes]
    /\ KindOf \in [Calls -> Kinds]
    /\ ArgsOf \in [Calls -> Args]
    /\ Scripts \subseteq Seq(Calls) /\ \A s \in Scripts : IsInjective(s)
    /\ MaxRuns \in Nat
    /\ {MaxIterations, Threshold, MaxBatch} \subseteq Nat \ {0}
    /\ {MaxRetries, MaxGrants} \subseteq Nat

VARIABLES script,   \* calls the model has not asked for yet
          batches,  \* tool calls of the assistant messages
          results,  \* calls with a result in the history
          overlapped, \* a run of the session began while another was in flight
          record,   \* RuntimeRunState: the session's record in each runtime
          run,      \* the runs
          rules,    \* PermissionBroker._rules
          asking,   \* PermissionBroker._pending, QuestionBroker._pending
          answers,  \* QuestionBroker._answers
          begun,    \* how often a call was started
          cut,      \* how often a call was started and got no result
          grants    \* what the user allowed: once, or for good

session == <<script, batches, results, overlapped>>
brokers == <<rules, asking, answers, grants>>
vars == <<session, record, run, brokers, begun, cut>>

NewRun == [pc |-> "idle", step |-> 0, tries |-> 0, todo |-> <<>>, resumed |-> FALSE,
           told |-> FALSE, status |-> "none"]

InFlight == {r \in Runs : run[r].pc \notin {"idle", "over"}}

Asked == UNION {ToSet(batches[i]) : i \in DOMAIN batches}

Cancelled(r) ==
    /\ record[RuntimeOf[r]].active
    /\ record[RuntimeOf[r]].cancel

-----------------------------------------------------------------------------
(* RuntimeRunState                                                         *)

NewRecord(r) == [owner |-> r, active |-> TRUE, cancel |-> FALSE]

\* Variant: the record is reused, and with it its cancel.
ReusedRecord(r) == [record[RuntimeOf[r]] EXCEPT !.owner = r, !.active = TRUE]

BegunRecord(r) == NewRecord(r)

Busy(rt) == record[rt].active

\* A session that runs is busy in the runtime that runs it: SessionBusyError.  Another
\* runtime of the process does not know of it.
Begin(r) ==
    /\ run[r].pc = "idle" /\ \A q \in 1..(r - 1) : run[q].pc # "idle"
    /\ ~Busy(RuntimeOf[r])
    /\ record' = [record EXCEPT ![RuntimeOf[r]] = BegunRecord(r)]
    /\ run' = [run EXCEPT ![r].pc = "head"]
    /\ overlapped' = (overlapped \/ InFlight # {})
    /\ UNCHANGED <<script, batches, results, brokers, begun, cut>>

Cancel(rt) ==
    /\ record[rt].active
    /\ record' = [record EXCEPT ![rt].cancel = TRUE]
    /\ run' = [run EXCEPT ![record[rt].owner].told = TRUE]
    /\ UNCHANGED <<session, brokers, begun, cut>>

\* Variant: only the loop's own results finish the record.
FinishedByResult(r, status) ==
    [record[RuntimeOf[r]] EXCEPT !.active = (status = "interrupted"),
                                 !.cancel = (status \in {"cancelled", "interrupted"})]

FinishedRecord(r, status) ==
    [record[RuntimeOf[r]] EXCEPT !.active = FALSE,
                                 !.cancel = (status \in {"cancelled", "interrupted"})]

\* finish() and the status the run ends with.
Finishes(r, status) ==
    /\ run' = [run EXCEPT ![r] =
          [NewRun EXCEPT !.pc = "over", !.told = run[r].told, !.status = status]]
    /\ record' = [record EXCEPT ![RuntimeOf[r]] = FinishedRecord(r, status)]

Goes(r, pc, todo, resumed) ==
    /\ run' = [run EXCEPT ![r] = [@ EXCEPT !.pc = pc, !.todo = todo, !.resumed = resumed]]
    /\ UNCHANGED record

-----------------------------------------------------------------------------
(* The brokers.  A request of the broker is known by what is asked: a call *)
(* of a tool with its arguments, a repetition of it, or a question.        *)

Ask(kind, what) == [kind |-> kind, of |-> what]

Permissions == {Ask(kind, a) : kind \in {"gate", "loop"}, a \in Args}
Questions == {Ask("question", c) : c \in Calls}

Matching(own, ask) == {i \in DOMAIN own : ask \in own[i].asks}

\* PermissionBroker.evaluate: the last rule that matches decides, without one the
\* user is asked.
Decision(own, ask) ==
    IF Matching(own, ask) = {} THEN "ask" ELSE own[Max(Matching(own, ask))].action

\* Variant: a rule that decides once stays.
KeptRules(own, ask) == own

\* A rule that decides once is gone when it has decided.
RulesAfter(own, ask) ==
    IF Matching(own, ask) = {} THEN own
    ELSE LET i == Max(Matching(own, ask)) IN
         IF own[i].once THEN RemoveAt(own, i) ELSE own

\* approve, deny: one that is for good holds for the tool, whatever its arguments.
Decide(rt, ask, action, always) ==
    /\ ask \in asking[rt] \cap Permissions
    /\ Cardinality(grants.once) + Cardinality(grants.always) < MaxGrants
    /\ asking' = [asking EXCEPT ![rt] = @ \ {ask}]
    /\ rules' = [rules EXCEPT ![rt] = Append(@,
          [action |-> action, once |-> ~always,
           asks |-> IF always THEN {p \in Permissions : p.kind = ask.kind} ELSE {ask}])]
    /\ grants' = IF always
                 THEN [grants EXCEPT !.always = @ \cup {[ask |-> ask, action |-> action]}]
                 ELSE [grants EXCEPT !.once = @ \cup
                       {[ask |-> ask, action |-> action,
                         no |-> 1 + Cardinality({g \in @ : g.ask = ask})]}]
    /\ UNCHANGED <<session, record, run, answers, begun, cut>>

Answer(rt, ask) ==
    /\ ask \in asking[rt] \cap Questions
    /\ asking' = [asking EXCEPT ![rt] = @ \ {ask}]
    /\ answers' = [answers EXCEPT ![rt] = @ \cup {ask.of}]
    /\ UNCHANGED <<session, record, run, rules, grants, begun, cut>>

\* The gateway gives the answer to the runtime it makes for the resumed run.
Seed(rt, ask) ==
    /\ ask \in Questions /\ \E p \in Runtimes \ {rt} : ask \in asking[p]
    /\ \A r \in Runs : RuntimeOf[r] = rt => run[r].pc = "idle"
    /\ answers' = [answers EXCEPT ![rt] = @ \cup {ask.of}]
    /\ UNCHANGED <<session, record, run, rules, asking, grants, begun, cut>>

-----------------------------------------------------------------------------
(* The loop                                                                *)

\* The call, when it and the calls right before it repeat the same call.
Repeated(c) ==
    LET order == FlattenSeq(batches)
        at == CHOOSE i \in DOMAIN order : order[i] = c
    IN /\ at >= Threshold
       /\ \A i \in (at - Threshold + 1)..at : ArgsOf[order[i]] = ArgsOf[c]

\* Variant: a message one call of which has a result is done with.
PendingIfUntouched ==
    IF batches = <<>> THEN <<>>
    ELSE IF ToSet(Last(batches)) \cap results # {} THEN <<>> ELSE Last(batches)

\* The calls of a message that have no result, in their order.
Unanswered(calls) ==
    LET open[i \in 0..Len(calls)] ==
            IF i = 0 THEN <<>>
            ELSE IF calls[i] \in results THEN open[i - 1] ELSE Append(open[i - 1], calls[i])
    IN open[Len(calls)]

\* _pending_tool_calls: of the last message that has calls without a result.
Pending ==
    LET open == {i \in DOMAIN batches : Unanswered(batches[i]) # <<>>}
    IN IF open = {} THEN <<>> ELSE Unanswered(batches[Max(open)])

\* Variant: a cancel is not looked at.
NotStopped(r) == FALSE

Stopped(r) == Cancelled(r)

LoopHead(r) ==
    /\ run[r].pc = "head"
    /\ \/ Stopped(r) /\ Finishes(r, "cancelled")
       \/ ~Stopped(r) /\ Pending # <<>> /\ Goes(r, "tools", Pending, TRUE)
       \/ ~Stopped(r) /\ Pending = <<>> /\ Goes(r, "request", <<>>, FALSE)
    /\ UNCHANGED <<session, brokers, begun, cut>>

\* A message of the model asks for the next n calls.
Replies(n) ==
    /\ n <= Len(script)
    /\ script' = SubSeq(script, n + 1, Len(script))
    /\ batches' = IF n = 0 THEN batches ELSE Append(batches, SubSeq(script, 1, n))

\* Variant: a retry counts twice.
CountedTwice(r) == run[r].tries + 2

Attempts(r) == run[r].tries + 1

\* _invoke_provider_with_retries and what the reply leads to.
Request(r) ==
    /\ run[r].pc = "request"
    /\ \/ /\ run[r].tries < MaxRetries
          /\ run' = [run EXCEPT ![r].tries = Attempts(r)]
          /\ UNCHANGED <<script, batches, record>>
       \/ /\ \/ Finishes(r, "error")      \* no attempt is left, or none allowed
             \/ Finishes(r, "completed")  \* the reply holds no message
          /\ UNCHANGED <<script, batches>>
       \/ \E n \in 0..MaxBatch :
            /\ Replies(n)
            /\ \/ Finishes(r, "error")                   \* the stream broke after the message
               \/ Cancelled(r) /\ Finishes(r, "cancelled")
               \/ /\ ~Cancelled(r)
                  /\ run[r].step + 1 >= MaxIterations \/ n = 0
                  /\ Finishes(r, IF n = 0 THEN "completed" ELSE "max_iterations")
               \/ /\ ~Cancelled(r)
                  /\ run[r].step + 1 < MaxIterations /\ n > 0
                  /\ run' = [run EXCEPT ![r] = [run[r] EXCEPT !.pc = "tools", !.todo = SubSeq(script, 1, n),
                               !.resumed = FALSE, !.step = @ + 1, !.tries = 0]]
                  /\ UNCHANGED record
    /\ UNCHANGED <<results, overlapped, brokers, begun, cut>>

\* The calls of a message are done: to the request, or to the head of the loop.
ToolsDone(r) ==
    /\ run[r].pc = "tools" /\ run[r].todo = <<>>
    /\ \/ Stopped(r) /\ Finishes(r, "cancelled")
       \/ ~Stopped(r) /\ Goes(r, IF run[r].resumed THEN "request" ELSE "head", <<>>, FALSE)
    /\ UNCHANGED <<session, brokers, begun, cut>>

Skips(r) == Goes(r, "tools", Tail(run[r].todo), run[r].resumed)

\* The call gets a result without its tool.
Answered(r, c) ==
    /\ results' = results \cup {c}
    /\ Skips(r)
    /\ UNCHANGED <<script, batches, overlapped, begun>>

Started(r, c) ==
    /\ begun' = [begun EXCEPT ![c] = @ + 1]
    /\ Goes(r, "exec", run[r].todo, run[r].resumed)
    /\ UNCHANGED session

\* The run stops for the user; the call keeps no result.
Parked(r, ask, status) ==
    /\ asking' = [asking EXCEPT ![RuntimeOf[r]] = @ \cup {ask}]
    /\ Finishes(r, status)
    /\ UNCHANGED <<session, begun>>

\* ToolRuntime.execute up to the tool itself; own are the runtime's rules by now.
Execute(r, c, own) ==
    LET rt == RuntimeOf[r]
        ask == Ask(IF KindOf[c] = "question" THEN "question" ELSE "gate",
                   IF KindOf[c] = "question" THEN c ELSE ArgsOf[c])
        decision == IF KindOf[c] = "gated" THEN Decision(own, ask) ELSE "allow"
        answered == KindOf[c] = "question" /\ c \in answers[rt]
    IN /\ rules' = [rules EXCEPT ![rt] = IF KindOf[c] = "gated" THEN RulesAfter(own, ask) ELSE own]
       /\ answers' = [answers EXCEPT ![rt] = @ \ {c}]
       /\ \/ decision = "allow" /\ KindOf[c] # "question" /\ Started(r, c) /\ UNCHANGED asking
          \/ (decision = "deny" \/ answered)
             /\ Answered(r, c) /\ UNCHANGED asking
          \/ decision = "ask" /\ Parked(r, ask, "permission")
          \/ KindOf[c] = "question" /\ ~answered /\ Parked(r, ask, "question")

\* One call of _execute_tool_calls; a repeated call is let through by the user first.
Call(r) ==
    /\ run[r].pc = "tools" /\ run[r].todo # <<>>
    /\ UNCHANGED <<cut, grants>>
    /\ LET c == run[r].todo[1]
           rt == RuntimeOf[r]
           loop == Ask("loop", ArgsOf[c])
           guard == IF Repeated(c) THEN Decision(rules[rt], loop) ELSE "allow"
           own == IF Repeated(c) THEN RulesAfter(rules[rt], loop) ELSE rules[rt]
       IN \/ /\ Stopped(r)
             /\ Finishes(r, "cancelled")
             /\ UNCHANGED <<session, begun, rules, asking, answers>>
          \/ /\ ~Stopped(r) /\ KindOf[c] = "ignored"
             /\ Answered(r, c)
             /\ UNCHANGED <<rules, asking, answers>>
          \/ /\ ~Stopped(r) /\ KindOf[c] # "ignored"
             /\ \/ guard = "allow" /\ Execute(r, c, own)
                \/ /\ guard # "allow"
                   /\ rules' = [rules EXCEPT ![rt] = own]
                   /\ UNCHANGED answers
                   /\ \/ guard = "deny" /\ Answered(r, c) /\ UNCHANGED asking
                      \/ guard = "ask" /\ Parked(r, loop, "permission")

\* Variant: the result of a call that ends under a cancel is dropped.
DroppedIfStopped(r, c) == IF Cancelled(r) THEN results ELSE results \cup {c}

WithResult(r, c) == results \cup {c}

\* The tool returns or raises: its result is appended; a terminal one ends the run.
Return(r) ==
    /\ run[r].pc = "exec"
    /\ LET c == run[r].todo[1] IN
       /\ results' = WithResult(r, c)
       /\ IF KindOf[c] = "final"
          THEN Finishes(r, IF Cancelled(r) THEN "cancelled" ELSE "completed")
          ELSE Skips(r)
    /\ UNCHANGED <<script, batches, overlapped, brokers, begun, cut>>

\* The coroutine of a run is cancelled, or an exception leaves the loop.
Interrupt(r) ==
    /\ r \in InFlight
    /\ Finishes(r, "interrupted") \/ Finishes(r, "error")
    /\ cut' = IF run[r].pc = "exec" THEN [cut EXCEPT ![run[r].todo[1]] = @ + 1] ELSE cut
    /\ UNCHANGED <<session, brokers, begun>>

-----------------------------------------------------------------------------
Init ==
    /\ script \in Scripts
    /\ batches = <<>> /\ results = {} /\ overlapped = FALSE
    /\ record = [rt \in Runtimes |-> [owner |-> 0, active |-> FALSE, cancel |-> FALSE]]
    /\ run = [r \in Runs |-> NewRun]
    /\ rules = [rt \in Runtimes |-> <<>>]
    /\ asking = [rt \in Runtimes |-> {}]
    /\ answers = [rt \in Runtimes |-> {}]
    /\ begun = [c \in Calls |-> 0]
    /\ cut = [c \in Calls |-> 0]
    /\ grants = [once |-> {}, always |-> {}]

Step(r) == LoopHead(r) \/ Request(r) \/ ToolsDone(r) \/ Call(r) \/ Return(r)

Next ==
    \/ \E r \in Runs : Begin(r) \/ Interrupt(r)
    \/ \E r \in Runs : Step(r)
    \/ \E rt \in Runtimes :
         \/ Cancel(rt)
         \/ \E p \in Runtimes \ {rt} : \E ask \in asking[p] : Seed(rt, ask)
         \/ \E ask \in asking[rt] :
              \/ Answer(rt, ask)
              \/ \E action \in {"allow", "deny"}, always \in BOOLEAN :
                    Decide(rt, ask, action, always)

Spec == Init /\ [][Next]_vars

\* The provider and the tools return, and the event loop goes on with a run.
FairSpec == Spec /\ \A r \in Runs : WF_vars(Step(r))

-----------------------------------------------------------------------------
(* Properties.  Some hold unless runs of the session overlapped.           *)

\* Every variable keeps its type.
TypeOK ==
    /\ script \in Seq(Calls)
    /\ batches \in Seq(Seq(Calls)) /\ results \subseteq Asked /\ overlapped \in BOOLEAN
    /\ record \in [Runtimes -> [owner: 0..MaxRuns, active: BOOLEAN, cancel: BOOLEAN]]
    /\ DOMAIN run = Runs
    /\ \A r \in Runs :
         /\ run[r].pc \in {"idle", "head", "request", "tools", "exec", "over"}
         /\ run[r].step \in 0..MaxIterations /\ run[r].tries \in 0..MaxRetries
         /\ ToSet(run[r].todo) \subseteq Asked
         /\ {run[r].resumed, run[r].told} \subseteq BOOLEAN
         /\ run[r].status \in {"none", "completed", "cancelled", "error", "interrupted",
                              "permission", "question", "max_iterations"}
    /\ asking \in [Runtimes -> SUBSET (Permissions \cup Questions)]
    /\ answers \in [Runtimes -> SUBSET Calls]
    /\ {begun, cut} \subseteq [Calls -> Nat]

\* A run in flight owns the record of its runtime, so that finish(), cancel() and
\* is_cancelled(), which name the session and no run, always mean that run; and a run ends
\* cancelled only if it was told to: none inherits the cancel of an earlier one.
RecordIsOwn ==
    /\ \A r \in InFlight : record[RuntimeOf[r]].active /\ record[RuntimeOf[r]].owner = r
    /\ \A r \in Runs : run[r].status = "cancelled" => run[r].told

\* A tool runs once for a call, and once more for every time its run was torn down before
\* the result was in the history: whatever runtimes the runs are of, replaying pending
\* calls repeats nothing, unless runs of the session overlapped in time.
ExecutedOnce == ~overlapped => \A c \in Calls : begun[c] <= cut[c] + 1

\* The provider is never sent a call that has no result, however the runs before ended
\* (cancelled, parked, out of iterations, on a broken stream) and whichever runtime they
\* were of, unless runs of the session overlapped in time.
RequestIsPaired ==
    ~overlapped => \A r \in Runs : run[r].pc = "request" => Asked \subseteq results

\* A gated tool does not run more often than the user allowed it with these
\* arguments, unless the user allowed it for good.
AllowedOnly ==
    \A a \in Args :
        LET starts == UNION {{c} \X (1..begun[c]) : c \in {d \in Calls : KindOf[d] = "gated" /\ ArgsOf[d] = a}}
        IN \/ \E g \in grants.always : g.ask.kind = "gate" /\ g.action = "allow"
           \/ Cardinality(starts)
                <= Cardinality({g \in grants.once : g.ask = Ask("gate", a) /\ g.action = "allow"})

\* What a run may still do when it was told to stop: rest, end without asking the user
\* for anything, take the result of the tool that runs, or send the request it has turned
\* to once more within its retries, which do not look at the cancel.
Heeds(r) ==
    \/ run'[r] = run[r]
    \/ run'[r].pc = "over" /\ run'[r].status \notin {"permission", "question", "max_iterations"}
    \/ run[r].pc = "exec" /\ run'[r].pc = "tools"
    \/ /\ run[r].pc = "request" /\ run[r].tries < MaxRetries
       /\ run'[r] = [run[r] EXCEPT !.tries = @ + 1]

\* A run that was told to stop starts no tool, turns to no further request and does not
\* park: what it waits for ends, and with it the run.
CancelIsHeeded == [][\A r \in InFlight : Cancelled(r) => Heeds(r)]_vars

\* A session that is busy is free again: every run ends, with its retries, iterations
\* and replays bounded and parked rather than waiting for the user, and every way it
\* ends finishes the record.
SessionIsFreed == \A rt \in Runtimes : Busy(rt) ~> ~Busy(rt)
=============================================================================
