---------------------------- MODULE AgentRuntime ----------------------------
(***************************************************************************)
(* The agent runtime: the runs of a session (AgentLoop), and the           *)
(* components of the runtime that share no variable with them.  A          *)
(* behaviour is one of one scene: elsewhere nothing happens.               *)
(***************************************************************************)
EXTENDS AgentLoop

CONSTANTS Sessions, None,
          Cap, MaxTurns, MaxSnapshots, MaxCheckpoints,          \* of SessionRevert
          MaxUpdates, MaxClock, ParseMax, SummaryMax, Large,    \* of SessionFiles
          Subtasks,                                             \* of BackgroundTasks
          Sizes, Budget, ContextSize, SummarySize, MaxParts,    \* of Compaction
          Cycles, RunOf, MaxTasks, Limit, Ephemeral, Invalid,   \* of LeaderCycle
          Parent, Subagents, Concrete, MaxRoutes, MaxCalls,   \* of CopilotRouting
          Callers, Life, Margin, MaxTime,                       \* of CopilotTokens
          Heads, MaxPushes,                                     \* of GovernedTasks
          Responses, Styles                                     \* of ResponseStream

VARIABLE scene

-----------------------------------------------------------------------------
\* The turns of the sessions of one workspace, and its snapshots.
VARIABLES history, turns, revert, checkpoints, snapshots, taken, leases, workspace, turn, meddled
reverting == <<history, turns, revert, checkpoints, snapshots, taken, leases, workspace, turn, meddled>>

Revert == INSTANCE SessionRevert

\* The files of the sessions and the caches of the store.
VARIABLES file, clock, parsed, summary, stray, asked, acked, unknown
filing == <<file, clock, parsed, summary, stray, asked, acked, unknown>>

Files == INSTANCE SessionFiles

\* The background tasks of the sessions.
VARIABLES state, owner, order, alive, drained, injected, reported, told, unwritten
waiting == <<state, owner, order, alive, drained, injected, reported, told, unwritten>>

Background == INSTANCE BackgroundTasks WITH Tasks <- Subtasks

\* The parts of a history and the budget of a request.
VARIABLES parts, ids, memory, dirty, saved, pc, sent, lastCut, owed
compacting == <<parts, ids, memory, dirty, saved, pc, sent, lastCut, owed>>

Compacting == INSTANCE Compaction WITH cut <- lastCut

\* The delegation cycles of the leaders of a group.
VARIABLES cycle, board, agent, loose
leading == <<cycle, board, agent, loose>>

Leader == INSTANCE LeaderCycle

\* A run and its subagents.
VARIABLES routes, resolution, key, bearer, routed, payloads
routing == <<routes, resolution, key, bearer, routed, payloads>>

Routing == INSTANCE CopilotRouting WITH session <- bearer, run <- routed, sent <- payloads

\* Requests that share an exchanged token.
VARIABLES time, issued, token, expiry, host, lock, req
sending == <<time, issued, token, expiry, host, lock, req>>

Tokens == INSTANCE CopilotTokens WITH Requests <- Callers, MaxClock <- MaxTime, clock <- time

\* A task that writes outside, perhaps of a pull request that is pushed to.
VARIABLES request, head, pushes, at, todo, applied, status, events, pending,
          written, answer, calm, lost
governing == <<request, head, pushes, at, todo, applied, status, events, pending,
               written, answer, calm, lost>>

Governed == INSTANCE GovernedTasks

\* A streamed response.
VARIABLES plan, style, streamed, ending, drafts, alias, thoughts, message, shown, over
responding == <<plan, style, streamed, ending, drafts, alias, thoughts, message, shown, over>>

Response == INSTANCE ResponseStream WITH Plans <- Responses, sent <- streamed

-----------------------------------------------------------------------------
ASSUME RuntimeAssumption ==
    /\ Revert!RevertAssumption /\ Compacting!CompactionAssumption /\ Tokens!CopilotTokensAssumption
    /\ Leader!LeaderAssumption /\ Files!FilesAssumption /\ Response!ResponseAssumption
    /\ Governed!GovernedAssumption
    /\ Parent \notin Subagents /\ MaxRoutes \in Nat /\ MaxCalls \in Nat \ {0}
    /\ Background!Nobody \notin Sessions

AgentInit ==
    /\ scene \in {"runs", "revert", "files", "background", "compaction", "leader", "routing", "tokens",
                 "governed", "response"}
    /\ Init /\ Revert!Init /\ Files!Init /\ Background!Init /\ Compacting!Init
    /\ Leader!Init /\ Routing!Init /\ Tokens!Init /\ Governed!Init /\ Response!Init

\* What a scene leaves alone.
OnlyRuns == scene = "runs"
    /\ UNCHANGED <<scene, reverting, filing, waiting, compacting, leading, routing, sending, governing,
                   responding>>
OnlyRevert == scene = "revert"
    /\ UNCHANGED <<scene, vars, filing, waiting, compacting, leading, routing, sending, governing,
                   responding>>
OnlyFiles == scene = "files"
    /\ UNCHANGED <<scene, vars, reverting, waiting, compacting, leading, routing, sending, governing,
                   responding>>
OnlyBackground == scene = "background"
    /\ UNCHANGED <<scene, vars, reverting, filing, compacting, leading, routing, sending, governing,
                   responding>>
OnlyCompaction == scene = "compaction"
    /\ UNCHANGED <<scene, vars, reverting, filing, waiting, leading, routing, sending, governing,
                   responding>>
OnlyLeader == scene = "leader"
    /\ UNCHANGED <<scene, vars, reverting, filing, waiting, compacting, routing, sending, governing,
                   responding>>
OnlyRouting == scene = "routing"
    /\ UNCHANGED <<scene, vars, reverting, filing, waiting, compacting, leading, sending, governing,
                   responding>>
OnlyTokens == scene = "tokens"
    /\ UNCHANGED <<scene, vars, reverting, filing, waiting, compacting, leading, routing, governing,
                   responding>>
OnlyGoverned == scene = "governed"
    /\ UNCHANGED <<scene, vars, reverting, filing, waiting, compacting, leading, routing, sending,
                   responding>>
OnlyResponse == scene = "response"
    /\ UNCHANGED <<scene, vars, reverting, filing, waiting, compacting, leading, routing, sending,
                   governing>>

AgentNext ==
    \/ OnlyRuns /\ Next
    \/ OnlyRevert /\ Revert!Next
    \/ OnlyFiles /\ Files!Next
    \/ OnlyBackground /\ Background!Next
    \/ OnlyCompaction /\ Compacting!Next
    \/ OnlyLeader /\ Leader!Next
    \/ OnlyRouting /\ Routing!Next
    \/ OnlyTokens /\ Tokens!Next
    \/ OnlyGoverned /\ Governed!Next
    \/ OnlyResponse /\ Response!Next

agentVars == <<scene, vars, reverting, filing, waiting, compacting, leading, routing, sending, governing,
            responding>>

AgentSpec == AgentInit /\ [][AgentNext]_agentVars

\* A property is one of its scene: elsewhere nothing it is about happens.
TypesOK ==
    CASE scene = "runs" -> TypeOK
      [] scene = "revert" -> Revert!TypeOK
      [] scene = "files" -> Files!TypeOK
      [] scene = "background" -> Background!TypeOK
      [] scene = "compaction" -> Compacting!TypeOK
      [] scene = "leader" -> Leader!TypeOK
      [] scene = "routing" -> Routing!TypeOK
      [] scene = "tokens" -> Tokens!TypeOK
      [] scene = "governed" -> Governed!TypeOK
      [] scene = "response" -> Response!TypeOK

\* The snapshots that runs and sessions need are kept.
SnapshotsAreKept == scene = "revert" => Revert!SnapshotsAreKept

\* A read of a session gives what the updates that returned have made.
ReadsAreTrue == scene = "files" => Files!ReadsAreTrue

\* A request to the provider carries calls with their results and fits its budget.
RequestIsSound == scene = "compaction" => Compacting!RequestIsSound

\* A streamed response becomes the message that was sent.
MessageIsWhole == scene = "response" => Response!MessageIsWhole

\* The cycles of a group keep its budget and report the truth.
CyclesAreSound == scene = "leader" => Leader!CyclesAreSound

\* A payload is sent with the model that its session token was routed to.
PayloadIsRouted == scene = "routing" => Routing!PayloadIsRouted

\* A request is sent with a token that fits its host and its time.
SendsFreshToken == scene = "tokens" => Tokens!SendsFreshToken

\* The outcome, the events and the writes of a governed task agree.
TaskIsAccountedFor == scene = "governed" => Governed!TaskIsAccountedFor

\* A revert to the last published target leaves no edit of the turns it takes out.
LastTurnIsUndone == Revert!LastTurnIsUndone

\* A session is told of its background tasks, all of them, once and truly.
TasksAreTold == Background!TasksAreTold

\* A cut of a history stays where it is until the room it left is used up.
CutStaysPut == Compacting!CutStaysPut
=============================================================================
