---------------------------- MODULE CopilotRouting ----------------------------
(***************************************************************************)
(* The Auto model of GitHub Copilot: GitHubCopilotProvider and the session *)
(* token of its transport (src/src/efp_runtime/llm/provider.py).           *)
(*                                                                         *)
(* A run and the subagents it starts share one provider.  It keeps one     *)
(* resolution, the run that is for, and in the transport one session       *)
(* token; runs resolve their model when they begin and before every        *)
(* request, and once more while the payload is built.  The token is read   *)
(* when the request is sent.  A run waits for its subagents, one at a      *)
(* time: it executes its calls in order, and the runtime makes a task tool *)
(* that refuses background tasks (agent.py, tools/builtin/task.py).        *)
(***************************************************************************)
EXTENDS Naturals, Sequences

CONSTANTS Parent,    \* the run of the session
          Subagents, \* runs its task tool starts
          Concrete,  \* runs that name a model instead of Auto
          MaxRoutes, \* requests to route (a bound)
          MaxCalls,  \* requests of a run (a bound)
          None

Runs == Subagents \cup {Parent}

VARIABLES routes,     \* decisions in the order of their answers, each the run it was for
          resolution, \* auto_resolution: a decision, 0 for the fallback, or None
          key,        \* _auto_run_key: the run it is for, or None
          session,    \* _auto_session_token: of a decision, or 0 for none
          run,        \* a run: where it is, the decision it holds, its requests
          sent        \* payloads, with the decision and the session they carried

vars == <<routes, resolution, key, session, run, sent>>

\* The places at which a run resolves its model, in their order.
Stages == {"start", "invoke", "build"}

After == [start |-> "invoke", invoke |-> "build", build |-> "send"]

\* Subagents run one at a time and the parent waits for them.
Alone(r) == \A s \in Subagents \ {r} : run[s].pc \in {"idle", "over"}

-----------------------------------------------------------------------------
\* The task tool of the parent starts subagents.
Begin(r) ==
    /\ run[r].pc = "idle"
    /\ r # Parent => run[Parent].pc = "tools" /\ Alone(r)
    /\ run' = [run EXCEPT ![r].pc = "start", ![r].at = "start"]
    /\ UNCHANGED <<routes, resolution, key, session, sent>>

\* The run holds decision d and goes on.
Holds(r, d) == run' = [run EXCEPT ![r].holds = d, ![r].pc = After[run[r].at], ![r].at = After[run[r].at]]

\* Variant: a resolution is good for any run.
ReusesAny(r) == resolution # None

Reuses(r) == resolution # None /\ key = r

\* resolve_auto_model takes the resolution it finds, or asks the server to route.  What the
\* server routed expires, the fallback does not.
Resolve(r) ==
    /\ run[r].pc \in Stages /\ r \notin Concrete
    /\ \/ Reuses(r) /\ Holds(r, resolution) /\ UNCHANGED key
       \/ /\ ~Reuses(r) \/ resolution # 0
          /\ Len(routes) < MaxRoutes
          /\ key' = r
          /\ run' = [run EXCEPT ![r].pc = "routing"]
    /\ UNCHANGED <<routes, resolution, session, sent>>

\* A route, or the fallback without one; the transport takes its session token ...
Routed(r) ==
    /\ run[r].pc = "routing"
    /\ \/ /\ routes' = Append(routes, r)
          /\ session' = Len(routes')
       \/ session' = 0 /\ UNCHANGED routes
    /\ run' = [run EXCEPT ![r].pc = "routed", ![r].holds = session']
    /\ UNCHANGED <<resolution, key, sent>>

\* ... and then the provider keeps the resolution.
Resolved(r) ==
    /\ run[r].pc = "routed"
    /\ resolution' = run[r].holds
    /\ Holds(r, run[r].holds)
    /\ UNCHANGED <<routes, key, session, sent>>

\* A run with a model of its own drops what Auto left when its payload is built.
Drop(r) ==
    /\ run[r].pc \in Stages /\ r \in Concrete
    /\ IF run[r].pc = "build"
       THEN resolution' = None /\ key' = None /\ session' = 0
       ELSE UNCHANGED <<resolution, key, session>>
    /\ Holds(r, 0)
    /\ UNCHANGED <<routes, sent>>

\* A worker thread sends the payload; then come the tools, and the next request.
Send(r) ==
    /\ run[r].pc = "send"
    /\ sent' = sent \cup {[run |-> r, decision |-> run[r].holds, session |-> session]}
    /\ run' = [run EXCEPT ![r].pc = IF run[r].calls + 1 = MaxCalls THEN "over" ELSE "tools",
                          ![r].calls = run[r].calls + 1]
    /\ UNCHANGED <<routes, resolution, key, session>>

NextRequest(r) ==
    /\ run[r].pc = "tools"
    /\ r = Parent => Alone(r)
    /\ run' = [run EXCEPT ![r].pc = "invoke", ![r].at = "invoke"]
    /\ UNCHANGED <<routes, resolution, key, session, sent>>

Init ==
    /\ routes = <<>> /\ resolution = None /\ key = None /\ session = 0
    /\ run = [r \in Runs |-> [pc |-> "idle", at |-> "start", holds |-> 0, calls |-> 0]]
    /\ sent = {}

Next ==
    \E r \in Runs :
       Begin(r) \/ Resolve(r) \/ Routed(r) \/ Resolved(r) \/ Drop(r) \/ Send(r) \/ NextRequest(r)

Spec == Init /\ [][Next]_vars

-----------------------------------------------------------------------------
(* Properties                                                              *)

\* Every variable keeps its type.
TypeOK ==
    LET Answers == 0..Len(routes)  \* 0 without one
    IN  /\ routes \in Seq(Runs)
        /\ resolution \in Answers \cup {None} /\ key \in Runs \cup {None} /\ session \in Answers
        /\ run \in [Runs -> [pc: Stages \cup {"idle", "routing", "routed", "send", "tools", "over"},
                             at: Stages \cup {"send"}, holds: Answers, calls: 0..MaxCalls]]
        /\ sent \subseteq [run: Runs, decision: Answers, session: Answers]

\* A payload names the model that was routed for its own run, and carries the session
\* token of that very answer, whichever subagents share the provider.
PayloadIsRouted ==
    \A p \in sent :
        /\ p.session = p.decision
        /\ p.decision # 0 => routes[p.decision] = p.run
=============================================================================
