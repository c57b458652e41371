------------------------------- MODULE Gateway -------------------------------
(***************************************************************************)
(* The gateway: the cards of a session (PendingCards), and the components  *)
(* of the gateway that share no variable with them.  A behaviour is one of *)
(* one scene: elsewhere nothing happens.                                   *)
(***************************************************************************)
EXTENDS PendingCards

CONSTANTS Handlers, Requests, Sessions, None, RequestOf, SessionOf, \* of ChatRuns
          Streams, Slow, Endings, HandlerCancel, Cancellable, MaxRecords,
          Background, Endpoint, MaxQuestions, MaxRenames, MaxPosts, \* of SessionNames
          MaxItems, MaxCompleted,                                   \* of ToolTasks
          MaxEvents, MaxConnects, QueueSize, HistoryLimit, ReplayLimit \* of EventStream

VARIABLE scene

-----------------------------------------------------------------------------
\* The requests of the Portal and their handlers.
VARIABLES records, pc, run, watched, hidden, dropped
chatting == <<records, pc, run, watched, <<hidden, dropped>>>>

Chat == INSTANCE ChatRuns WITH Outcomes <- Endings

\* What the gateway says of the runs of a session.
VARIABLES up, state, record, meta, compact, telling, asked, missed, crossed
running == <<up, state, record, meta, compact, telling, asked, missed, crossed>>

Status == INSTANCE RunStatus WITH run <- state

\* The name of a session.
VARIABLES question, names, loop, call, portal, posts, muddled, renames, overtaken, outrun
naming == <<question, names, loop, call, portal, posts, muddled, renames, overtaken, outrun>>

Names == INSTANCE SessionNames

\* The tool tasks of a session.
VARIABLES task, item, polling, queue, busy, proc, done
queueing == <<task, item, polling, queue, busy, proc, done>>

Tools == INSTANCE ToolTasks WITH running <- busy

\* The event bus and a viewer.
VARIABLES emitted, matching, history, listening, feed, conn, connects, last, got, excused
viewing == <<emitted, matching, history, listening, feed, conn, connects, last, got, excused>>

Events == INSTANCE EventStream WITH queue <- feed

-----------------------------------------------------------------------------
ASSUME GatewayAssumption ==
    /\ Chat!ChatAssumption
    /\ None \notin Requests
    /\ Background \cap Endpoint = {}
    /\ {MaxQuestions, MaxRenames, MaxPosts, MaxItems, MaxCompleted} \subseteq Nat
    /\ {MaxEvents, MaxConnects, ReplayLimit} \subseteq Nat
    /\ {QueueSize, HistoryLimit} \subseteq Nat \ {0}

GatewayInit ==
    /\ scene \in {"cards", "chat", "status", "names", "tools", "events"}
    /\ Init /\ Chat!Init /\ Status!Init /\ Names!Init /\ Tools!Init /\ Events!Init

\* What a scene leaves alone.
OnlyCards == scene = "cards" /\ UNCHANGED <<scene, chatting, running, naming, queueing, viewing>>
OnlyChat == scene = "chat" /\ UNCHANGED <<scene, vars, running, naming, queueing, viewing>>
OnlyStatus == scene = "status" /\ UNCHANGED <<scene, vars, chatting, naming, queueing, viewing>>
OnlyNames == scene = "names" /\ UNCHANGED <<scene, vars, chatting, running, queueing, viewing>>
OnlyTools == scene = "tools" /\ UNCHANGED <<scene, vars, chatting, running, naming, viewing>>
OnlyEvents == scene = "events" /\ UNCHANGED <<scene, vars, chatting, running, naming, queueing>>

GatewayNext ==
    \/ OnlyCards /\ Next
    \/ OnlyChat /\ Chat!Next
    \/ OnlyStatus /\ Status!Next
    \/ OnlyNames /\ Names!Next
    \/ OnlyTools /\ Tools!Next
    \/ OnlyEvents /\ Events!Next

gatewayVars == <<scene, vars, chatting, running, naming, queueing, viewing>>

GatewaySpec == GatewayInit /\ [][GatewayNext]_gatewayVars

\* Every scene with the fairness of its module.
GatewayFairSpec ==
    /\ GatewaySpec
    /\ \A a \in Answers :
         WF_gatewayVars(OnlyCards /\ Respond(a)) /\ WF_gatewayVars(OnlyCards /\ EndRun(a))
    /\ \A h \in Handlers : WF_gatewayVars(OnlyChat /\ Chat!Progress(h))
    /\ WF_gatewayVars(OnlyTools /\ Tools!Begin)
    /\ \A i \in 1..MaxItems :
         WF_gatewayVars(OnlyTools /\ Tools!Answer(i)) /\ WF_gatewayVars(OnlyTools /\ Tools!End(i))
    /\ WF_gatewayVars(OnlyEvents /\ Events!Server)

-----------------------------------------------------------------------------
(* What the components promise, of the whole                               *)

\* A request that is submitted again is not executed again, unless the registry lost it.
RunsOnce == Chat!RunsOnce

\* The outcome of a run reaches its record.
RunIsRecorded == Chat!RunIsRecorded

\* What clients are told of a run is true.
StatusIsTrue == Status!StatusIsTrue

\* No compaction works on the history of a run in flight.
CompactsBetweenRuns == Status!CompactsBetweenRuns

\* A session has its member's name, or a title of its own first turn.
NamesAreRight == Names!NamesAreRight

\* Tool tasks of a session run one at a time, in their order.
OneAtATime == Tools!OneAtATime

\* Every submitter of a tool task gets its outcome.
EveryoneIsAnswered == Tools!EveryoneIsAnswered

\* A viewer misses only the events that the bus gave up.
NoGap == Events!NoGap

\* An event is delivered or given up in the end.
Delivered == Events!Delivered
=============================================================================
