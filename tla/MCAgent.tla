------------------------------- MODULE MCAgent -------------------------------
(***************************************************************************)
(* Values for TLC: three runs of two runtimes over seven tool calls, two    *)
(* sessions, cycles, subagents and requests, and short responses.          *)
(***************************************************************************)
EXTENDS AgentRuntime

CONSTANTS one, other, u, v, c1, c2, c3, c4, c5, c6, c7, \* runtimes, arguments, calls
          x, y, z  \* cycles, runs, requests or head commits

\* Two runs of one runtime follow each other; the third is of another and may overlap.
TwoRuntimes == [r \in Runs |-> IF r = 3 THEN other ELSE one]

\* Two calls of a gated tool with the same arguments and two of a plain one, a question, one
\* that ends the run and one that is ignored.
Mixed ==
    c1 :> "gated" @@ c2 :> "gated" @@ c3 :> "question" @@ c4 :> "final" @@ c5 :> "ignored"
    @@ c6 :> "plain" @@ c7 :> "plain"
Same == [c \in Calls |-> IF c \in {c1, c2} THEN u ELSE IF c \in {c6, c7} THEN v ELSE c]
Orders == {<<c6, c7>>, <<c3, c5, c1>>, <<c4, c1, c3>>, <<c1, c5, c2>>}

\* The first cycle of a coordination run makes a task agent, and the last task of the second
\* is invalid.
OneCoordination == [c \in Cycles |-> "run"]
FirstOfX == {<<x, 1>>}
LastOfY == {<<y, 2>>}

\* Two calls, or reasoning, text and a call in one of three orders.
ShortPlans == {<<"call", "call">>, <<"reasoning", "text", "call">>, <<"text", "reasoning", "call">>,
               <<"text", "call", "text">>}

\* The scenes that are not played begin in one way.
MCInit ==
    /\ AgentInit
    /\ scene # "governed" => request.kind = "other" /\ head = x
    /\ scene # "response" => plan = <<"call", "call">> /\ style = "called"
    /\ scene # "runs" => script = <<c6, c7>>

\* The steps of every run are fair, as in FairSpec.
MCSpec ==
    /\ MCInit /\ [][AgentNext]_agentVars
    /\ \A r \in Runs : WF_vars(scene = "runs" /\ Step(r))
=============================================================================
