# Verification of the engineering-flow-platform runtime

TLA+ models of the parts of the runtime in `src/` where concurrency, cancellation, persistence and
restarts meet, the TLC runs that check them on small instances, and the TLAPS proofs of their most
important invariants.  Paths below are relative to the root of the repository checkout (`src/`), so
`src/runtime/x.py` is the Python package directory inside it.

## 1. The system

The runtime is one Python process: an aiohttp server (`main.py`, `src/gateway`) on one asyncio
loop, in front of an agent runtime (`src/efp_runtime`) that calls language models and tools.  A
Portal, another service, drives it over HTTP: it chats with sessions and dispatches asynchronous
*tasks*.  State lives in memory and in JSON files under the workspace; there is no database.

| Component | State | Operations | Talks to | Hard behaviour | What makes it correct |
|---|---|---|---|---|---|
| Task session lanes `src/runtime/runtime_task_session_coordinator.py` | per session: active task, pending entries, interrupt, stopping, blocked | schedule, complete, cancel, hold_for_user_input, promote | task handlers | order of promotion, interrupts, lanes held for the user | one active task per session; nobody starves; nothing is forgotten |
| Runtime task tracker `src/runtime/runtime_task_tracker.py` | records, admission counter, one file per record | create, mark_running, mark_terminal, cancel, resume_after_user_input, prune, persist, load | handlers, disk | stale attempts, truncated or failed writes, pruning, restarts | outcome by the current run only; the disk says what memory says |
| Task handlers and background execution `src/gateway/runtime_api.py`, `main.py` | background coroutines | dispatch, cancel, answer, execute, startup reconciliation, shutdown | tracker, lanes, execution bus | cancellation before, during and after a run; duplicate requests; crash at any step | one run per session, no replay, a cancelled task stays cancelled |
| Execution bus and governance `src/runtime/execution_bus.py`, reviews of GitHub and Jira | pending delegations | admit, gate, execute, write, report | handlers, Portal, GitHub, Jira | the outside moves while a task works; one write of several is refused or fails | what was written is what is reported; no review of an older commit |
| Leader orchestration `src/runtime/leader_orchestration.py` | the group's board at the Portal | read budget, prepare, delegate, judge | Portal | overlapping cycles, a raise halfway, a board that moves | the budget bounds the work; the report is true |
| Chat runs `src/gateway/chat_run_registry.py`, chat handlers | run records, run tasks, claims on pending requests | start, complete, fail, cancel, resume | agent runtime, event bus | client disconnect, two requests with one id | a request id runs once; an outcome is recorded once |
| Pending cards, the respond endpoints | the card in session metadata, claims | read, claim, retire, resume | chat runs, brokers | two answers to one card, one of them without an id | an answer resumes one turn, a card is not lost |
| Run status and manual compaction | registry, status in session metadata | begin, finish, sweep, compact | session store | a status that outlives its process | the status is true; no compaction under a run |
| Session titles `src/gateway/session_title.py` | custom name, generated title | generate, store, rename, edit, publish | provider, Portal | a worker thread that writes between a read and a write | a name a member gave sticks |
| Tool task queue `src/agents/queue.py`, `src/agents/tasks.py` | queue and running flag per session, results | enqueue, process, poll, prune | tools | cancellation of submitter or processor | one item at a time, in order; every submitter gets an answer |
| Event bus `src/gateway/event_bus.py`, `events.py` | listeners, bounded history | emit, add, remove, replay | every component | slow listeners, replay against the live queue, reconnection | a viewer misses nothing but what the bus gave up |
| Agent runtime `src/efp_runtime/runtime` | run per session, revert records, notifications | begin, cancel, finish, run, resume, revert | loop, store | cooperative cancellation across threads | one run per session |
| Agent loop, permissions, questions `src/efp_runtime/loop/runner.py`, `permissions.py`, `questions.py` | tool calls of the turn, grants, pending requests | step, request, tool batch, wait, answer | provider, tools, store | cancellation between a call and its result; replay; doom loops | every call has a result before the next request; no call runs twice or without leave |
| Background tasks `src/efp_runtime/agents/background_tasks.py` | records, drained and injected sets | start, cancel, drain, inject | agent runtime | cancel before the first step, result racing a cancel | each session is told once, and truly |
| Session store `src/efp_runtime/session/file_store.py` | session files, two caches, checkpoints | create, update, read, list, delete | loop, facade | atomic replacement, stale caches, a clock that stands still, crashes | no update is lost; a reader sees the last write |
| Session revert and snapshots `session/revert.py`, `workspace_snapshots.py` | revert records, snapshots, leases, checkpoints | snapshot, publish, revert, unrevert, retain | loop, store, workspace | sessions share one workspace; retention against use | what may be needed stays on disk; the last turn can be undone |
| Conversation compaction `src/efp_runtime/compaction` | sticky cut in memory and in session metadata | select, cut, retry, compact | loop | pairs of call and result, an overflow answer, a boundary per run | a request never splits a pair; the cut moves rarely |
| LLM provider and adapter `src/efp_runtime/llm`, `session/processor.py` | access token, session token, Auto resolution; drafts of calls and reasoning | exchange, send, resolve, fall back; assemble a message from chunks | loop, network | threads, retries, expiry, an instance shared by subagents; chunks that name one item in several ways, streams that end anywhere | a fresh token; the model of one's own run; the message is what was streamed |
| Everything else | | | | | see section 6 |

`PROJECT.json` lists every component with its status, and every hazard with the line where it bites.

## 2. Modules

| Module | Models | Kind |
|---|---|---|
| `SessionLanes` | `RuntimeTaskSessionCoordinator`, one operator per method, from a lane to the lane it leaves behind | operators |
| `RuntimeTasks` | tracker, files, lanes, handlers, coroutines, shutdown, crash, restart | specification |
| `LaneOrder` | `RuntimeTasks` with a history variable for the order of its starts | specification |
| `TaskContract` | what the service promises: a life cycle per task, one thing at a time per session | abstract specification |
| `GovernedTasks` | one execution of the bus that writes outside | specification |
| `LeaderCycle` | delegation cycles over a board the assignees change | specification |
| `ChatRuns` | `ChatRunRegistry`, the handlers of `/api/chat`, `/api/chat/stream` and the run cancel endpoint | specification |
| `PendingCards` | the card a session waits on, the respond endpoints, their claims and the runs they resume | specification |
| `RunStatus` | the status of chat runs in registry and metadata, told in two steps, cancels, sweep, manual compaction | specification |
| `SessionNames` | names, generated titles, edits and renames, and the updates the Portal is sent | specification |
| `ToolTasks` | `TaskManager` over `ExecutionQueue` | specification |
| `EventStream` | `EventBus` and a viewer of `/api/events` | specification |
| `AgentLoop` | run state, loop, tool calls, permission and question brokers of one session | specification |
| `SessionRevert` | turns, snapshots, checkpoints, revert and unrevert of sessions over one workspace | specification |
| `SessionFiles` | session files and their two caches, write failures, crashes | specification |
| `BackgroundTasks` | `BackgroundTaskManager` and the injection of its results | specification |
| `Compaction` | the blocks, the budget and the sticky cut of provider requests | specification |
| `CopilotRouting` | the Auto model and its session token, shared by a run and the subagents it waits for | specification |
| `CopilotTokens` | the exchange and use of the access token by concurrent requests | specification |
| `ResponseStream` | `normalize_stream`, `SessionProcessor` and the replay of reasoning, for one streamed response | specification |
| `Gateway` | `PendingCards`, `ChatRuns`, `RunStatus`, `SessionNames`, `ToolTasks`, `EventStream` as scenes | composition |
| `AgentRuntime` | `AgentLoop` and the nine other components of the agent runtime as scenes | composition |
| `RuntimeTasksProofs`, `AgentLoopProofs`, `AgentRuntimeProofs`, `GatewayProofs`, `CompactionProofs`, `GovernedTasksProofs`, `ResponseStreamProofs` | inductive invariants and theorems | proofs |
| `RecursionFacts` | that a recursive function over 1..n exists and what it returns, from the least counterexample | lemmas |
| `MCRuntimeTasks`, `MCLaneOrder`, `MCChatRuns`, `MCGateway`, `MCAgent` | session maps, scripts, symmetry, one initial state for scenes that are not played | model checking |

`RuntimeTasks` uses the operators of `SessionLanes` and is checked against `TaskContract`.  `Gateway`
and `AgentRuntime` bring components that share no state into one specification as *scenes*: the initial state
chooses a scene, its specification takes all the steps, and the variables of the others keep one fixed value.  What
connects components is in the modules themselves: `PendingCards` has the chat runs that record a result in
the same session, `RunStatus` has registry and metadata, `SessionNames` has the worker thread, the edits and
the Portal, `SessionRevert` has runs, retention and workspace, `BackgroundTasks` has the runs that inject.

### How `RuntimeTasks` corresponds to the code

* **Atomicity.** The gateway runs on one loop.  The coordinator and the tracker are synchronous and
  take locks only against threads.  Between reading a record and acting on it no handler awaits
  anything that suspends (`emit_agent_event` awaits an `asyncio.Lock` nobody holds across a
  suspension; acquiring a free lock does not suspend).  One handler is therefore one action, with
  the scheduling it calls inside it (`Schedule`, `ScheduleNext`, `Reconciled`, `Rehydrated` are the
  tails of handlers, not actions).  The background coroutine suspends in
  `execute_runtime_task_request`, so it is `BgStart` up to that call and `BgResult`/`BgCancelled`
  after it.
* **Records.** `records[t]` keeps the fields decisions depend on.  The background task of a record
  is the slot of its coroutine; `Done` when that is over; an attempt id is the slot of the coroutine
  that made it.  `compacted` is the flag that stops `_persist_record` from writing again.
* **Files.** `files[t]` is what a load would read.  A write may be complete, over the size limit
  (the payload is left out and with it the restart marker), too large even when minimal (a terminal
  record's file is removed), or fail.
* **Cancellation.** `task.cancel()` is a request: the coroutine unwinds later (`BgCancelled`), may
  still deliver a result that was already on its way (`BgResult`), or never runs its body at all
  when it had not started (`BgNeverStarted`).
* **Process end.** A crash is a `Restart` at any moment.  `Shutdown` is Ctrl+C: asyncio cancels every
  coroutine, they unwind through the same branches, and a `Restart` follows.
* **`spent`** is a history variable: whether the last permission to execute a task (an admission
  or an answer) was used by a start.  It does not influence any step.  Nor does `stray` of `LaneOrder`: the tasks
  whose place in a lane and whose record have parted (section 4).

Dispatch of an id that is active, waiting or settled is `DispatchDuplicate`; of an id that a restart
made stale, `DispatchRestartStale`.  The external behaviour behind `Outcomes` is
`execute_runtime_task_request` (`src/runtime/chat_orchestration_adapter.py`), which returns a result,
fails, or returns a blocked result with a pending request.

### How `ChatRuns` corresponds to the code

* **Steps.** A handler looks its request id up (`Check`), prepares attachments (`Start` follows, for the
  handlers in `Slow`; the others get from the look-up to `start()` without suspending), registers the run
  and announces it, launches it (`Launch`), and records its outcome (`Record`).  A streamed run is a task
  of its own; an inline one is the handler's, and its end and the recording are two steps because usage
  and session metadata are published in between.
* **Cancelled handlers.** The branches for `asyncio.CancelledError` run when the server cancels a handler
  whose client is gone (`HandlerCancel`).  The run of a stream then goes on; a done callback records it
  (`Detached`, `Callback`), while the handler waits in its `finally` block (`Drained`) and passes a second
  cancellation on to the run.
* **Records.** `payload` is the handler whose result `final_payload` holds.  Which terminal record pruning
  drops depends on timestamps: any of them may be the oldest.  Only dead runs are stale: a run that goes
  on emits events, and calls end long before the six hours of the timeout.
* **What the registry lost.** Two history variables name the requests of which a later submission need not be
  noticed: `hidden`, whose record was registered after the look-up of another submission, or belonged to another
  session and was replaced, or was dropped while a run of it went on; and `dropped`, whose record made room.

### How `PendingCards` corresponds to the code

The session is read in a worker thread; from there to the start of the resumed run the handler does not
suspend, because the metadata of a session is read and written synchronously.  A run that stops raises at
most one card, so one variable holds the card of either kind.  `no` tells two raisings of one request id
apart.  A chat run of the same session may record its result at any time (`ChatRecords`).

### How `AgentLoop` corresponds to the code

* **Steps.** A step goes from one suspension of the run to the next: `LoopHead` to the provider request or to
  the first call, `Request` over the reply, `Call` over what is decided before a tool starts, `Return` over
  its result.  `Begin` is `RuntimeRunState.begin` with the claims of the brokers.
* **Runtimes.** The gateway builds a runtime for each request, so a session has several: each has a run state and
  brokers of its own, and they share the history.  A run begins when its own runtime is free, whatever the others
  do; the history variable `overlapped` says that this ever made two runs of the session overlap in time.
* **Session.** The assistant's tool calls, message by message, and the calls that have a result.  A run that
  begins first executes the calls an earlier run left without one, which is how an answer resumes a turn.
* **Cancellation** is a flag the loop looks at where the code does, which is not in the retries of a provider
  request (`_invoke_provider_with_retries`); an asyncio cancel may end the run at any suspension. An asyncio
  cancel between the start of a tool and its result leaves the call without one, and it runs again; the
  history variable `cut` names these calls and `ExecutedOnce` excepts them.
* **Brokers.** A permission is allowed, refused, granted once or always, a question answered or rejected;
  the answer waits for the call that asks again.  The doom loop guard turns a third equal call into a
  permission request.  The answer to a question that is given to the gateway goes to the runtime of the run it
  resumes (`Seed`).  A permission given to the gateway becomes a rule in that runtime's configuration
  (`_metadata_with_permission_response`, `ConfiguredPermissionBroker`); this is not modelled: what is modelled of
  permissions is what a broker asks and is told.
* **Provider.** A reply is a script of calls; it may fail with a retriable or a fatal error, or the stream may
  break after calls were stored.

### How the session modules correspond to the code

* `SessionRevert`: a turn is one number in the history of its session and one edit of the workspace, which
  the sessions share; a snapshot and a checkpoint hold what they saved.  Only a turn suspends; revert,
  unrevert, retention and deletion are one action each with every file they touch.
* `SessionFiles`: one store serves the process and holds its `RLock` for a whole operation, so only a crash
  cuts one short: before the temporary file, between it and `os.replace`, or after.  The clock may stand
  still between two writes and two files may have one size.
* `Compaction`: sizes are small numbers for characters.  `Request` computes what a request leaves out, sets
  the sticky cut and saves it where the code saves it; the budget halves on an overflow answer.  The search for the
  newest blocks that fit (`Selected`), the sizes (`Total`) and the rebuilt order (`InOrder`) are recursive functions.
* `BackgroundTasks`: a task is a coroutine around a runner, cancelled at once in the record and later in fact.  It is
  the manager as a library: the runtime makes a manager, but no task tool that allows background tasks
  (`agent.py:3182-3206`, `tools/builtin/task.py:82-93`), so today they are reached by embedders and tests only.

Where the code filters a list, these modules say which members stay and in which order (`Oldest` and `Place` of
`BackgroundTasks`, `Without` of `SessionFiles`, `JiraPlans` and `Place` of `GovernedTasks`, `Due` of `EventStream`)
and do not fold over it, so that the theorems can use it.

### How the provider modules correspond to the code

Requests run in threads, so a step is what one thread does between two moments at which another can see or
change the shared fields.  `CopilotTokens` has the exchange under its lock, the stores of token, expiry and
endpoint one after the other, and reads without the lock.  `CopilotRouting` has the three places that resolve
(when a run begins, before each request, while the payload is built) and the token that is read when a
worker thread sends.  A run executes its calls in order and waits for a subagent, so of a run and its subagents one
is at work at a time; the background tasks that would break this are refused, as above.

### How `GovernedTasks` and `LeaderCycle` correspond to the code

`GovernedTasks` is one call of `ExecutionBus.execute`: admission, the look at the pull request before and
after the skill, the gate of each secondary action, the write itself, the report.  The plan of a request
(its writes, and those the gate denies) is chosen in the initial state, freely.  What a task reports is the list
`actions_applied`, one entry per write it tried, and for Jira also the fields `comment_added`, `updated_fields`,
`transitioned_to` and `assignee_updated` (`Summary`), which the code fills from the plan.  `LeaderCycle`
suspends at every call to the Portal; the assignees close delegations and other cycles add theirs between.

### How the gateway modules correspond to the code

`RunStatus`: the registry dies with the process, the metadata does not; the startup sweep and the guard of
manual compaction read the second. A run that is over is told to the session (`Result`; a run that raises
tells it nothing) and, after awaits, to the registry (`Record`), which the client may have told of a cancel
(`CancelRun`) before the run unwinds; `telling` and `asked` name these runs. `complete()` overwrites a cancel,
and makes no difference between results (a blocked run is "completed" in the registry), `fail()` does not
overwrite it. `SessionNames`: an operation that reads the session and writes it back is two steps, and the
thread of a title call may write between them. The Portal is told by requests nobody waits for (`Send`): each
arrives, fails or overtakes another (`Arrive`, `Muddle`), and the metadata published at the begin and the end
of a run carries the name as well (`Carry`). `ToolTasks`: a call suspends in an item and in the polling and
nowhere else. `EventStream`: a connection registers its queue, sends a welcome, then the replay, then drains
the queue, and every send suspends.

### How `ResponseStream` corresponds to the code

One action is one chunk: the events the adapter makes of it and the message the processor makes of the events
(`Emit`).  The provider is free: an item may be announced late or not at all, without a name, under an output
index, an item id that changes or a call id; deltas may be missing; calls interleave; the stream completes, is cut
short, fails, ends or breaks after any chunk.  What only displays (titles of parts, `tool_state`, usage, raw chunks) is
left out, and a reasoning item has one part because the requests ask for no summary.  Events are told one after the
other by a recursive function over their positions (`Told`, the loop of `bridge_llm_stream_events` around the
processor), and so are the completions of the drafts at the end (`AllCompletions`), so that proofs can speak of
sequences of any length.  `ResponseAssumption` says what a plan is made of, and that the model value that stands
for Python's `None` is none of the texts and marks.

## 3. Runs

Every passing run is closed under its bounds: TLC explores it completely.

| Run | Question | Properties |
|---|---|---|
| `Lane` | Four tasks of one session that queue or steer, cancelled at any moment; the Portal answers tasks that wait | `RunIsOwned`, `StartsInOrder`, `CancelledIsFinal` |
| `Faults` | Writes are cut, dropped or fail; crashes, shutdowns; loads below the number of files | `OneRunPerSession`, `NoReplay` |
| `Recovery` | Two tasks share a session, a third has none, records are pruned, the process ends at any moment | `DiskMirrorsRecords`, `RestartKeepsWaiting`, `ImplementsContract`, `OutcomeByCurrentRun` |
| `Served` | Nobody cancels, the loop is fair | `AcceptedIsServed` |
| `Agent` | The agent runtime and what it works with, in ten scenes | below |
| `Gateway` | The gateway around sessions, in six scenes | below |
| `ChatOnce` | Two submissions of one request that may be cancelled, the second slow, and a slow one of another request, in a registry with one place | `RunsOnce`: a request is executed once, unless the registry lost sight of it |
| `NotStarted`, `Orphan`, `LateAnswer`, `ChatTwice`, `ChatMixedUp` | Disagreements between the code and what it says of itself | one each, violated |

| Scene of `Agent` | Instance | Property and what it says |
|---|---|---|
| `AgentLoop` | two runs of one runtime and one of another that may overlap, seven calls (two gated with equal arguments, two plain with equal arguments, a question, a final one, one that is ignored), four replies, three iterations, one retry, doom loop at two | `RecordIsOwn`: a run's state record is its own, and it ends as cancelled only if it was told to.  `ExecutedOnce`: a call is executed once unless an asyncio cancel cut it, and `RequestIsPaired`: no request leaves while a call has no result; both across runtimes, unless runs overlapped.  `AllowedOnly`: nothing gated runs without a permission for it.  `CancelIsHeeded`: a run told to stop starts no tool, turns to no further request and does not park; the request it has turned to may be retried.  `SessionIsFreed`: a busy session is free again |
| `SessionRevert` | two sessions, retention cap 1, two turns, three snapshots, one checkpoint | `SnapshotsAreKept`: snapshots that a run has leased, a revert target names or an undo needs are on disk, and references name snapshots that exist.  `LastTurnIsUndone`: a revert to the last run's target leaves no edit of the turns it takes out of the history, unless the user meddled |
| `SessionFiles` | two sessions, three updates, two clock values, caches of one | `ReadsAreTrue`: no update that was acknowledged is lost, only a deleted session has no file, and a cached answer is what the file says, though time and size may not tell two files apart |
| `BackgroundTasks` | two tasks, two sessions | `TasksAreTold`: a session is told of each of its tasks once, of nobody else's, and what it is told is how the record was closed |
| `Compaction` | seven parts of size 1 or 3, budget 8 | `RequestIsSound`: a request has the result of each call it has, keeps the newest block, and fits unless that block alone does not.  `CutStaysPut`: a cut that stands moves only when more than the four tenths of the budget it left are written |
| `LeaderCycle` | two cycles of one run, two tasks each, limit 2, an ephemeral assignee and an invalid one | `CyclesAreSound`: at most the limit is active unless an overlap or an unreadable board excused it; a cycle that raised created no delegation, one that succeeded created all it did not defer and no stray task agent, `complete` means that these are done |
| `CopilotRouting` | a run and two subagents it waits for, five resolutions, two calls | `PayloadIsRouted`: a payload carries the model and the session token that its own run was given |
| `CopilotTokens` | two requests, tokens that live two ticks with a margin of one | `SendsFreshToken`: what is sent is no older than the host it goes to, was good by the margin when it was found good, and is another one after a refusal |
| `GovernedTasks` | one task of each kind, two heads, two pushes, every plan and every set of denied writes | `TaskIsAccountedFor`: a review is of the head last looked at; nothing denied is written, what `actions_applied` lists as done was, and what was done it lists as tried; what the summary fields claim was written, or is a comment or fields listed as blocked; the lifecycle events tell the end |
| `ResponseStream` | two calls, or reasoning, text and a call in three orders, three styles of naming, every subset of chunks | `MessageIsWhole`: each call the provider finished is one part with the arguments it finished with, and is shown in order; text keeps its place among the calls; reasoning is replayed ahead of what follows it with its final content |

| Scene of `Gateway` | Instance | Property and what it says |
|---|---|---|
| `PendingCards` | two answers, with or without an id, one card of each kind | `ClaimsAreHeld`: claims and resumed runs match.  `OneResumePerCard`.  `CardIsAnswerable`: a card whose id an earlier run has claimed can be answered in the end |
| `ChatRuns` | two submissions of one request, one per endpoint, and a second, slow and cancellable request whose record competes for one place | `RunIsRecorded`: every run ends with an outcome in its record |
| `RunStatus` | two overlapping requests, cancels, a crash | `StatusIsTrue`: what is said to run does, or is over and about to be told; what is said to be over is, or its client cancelled it; the registry's outcome is true of the run; a blocked session stays so until it is answered.  `CompactsBetweenRuns`: no compaction works under a run it could have known of |
| `SessionNames` | a background title and one the Portal asks for, two questions (an edit), one rename, publishes at the begin and end of runs | `NamesAreRight`: no generated title replaces a name a member gave, nor at the Portal once what was sent has arrived in order; a title is about the first question there is |
| `ToolTasks` | three items, one completed record kept | `OneAtATime`: in order too.  `EveryoneIsAnswered`: unless the processor was cancelled |
| `EventStream` | five events, two connections, a queue of 2, history of 4, replay of 2 | `NoGap`: what a viewer missed is what the bus gave up, the oldest first.  `Delivered`: a connected viewer gets what is in its queue |

`TypesOK` is the type invariant of whichever scene of `Agent` is played; those of the other modules are proved
(section 5). `ChatTwice` and `ChatMixedUp` are instances of `ChatRuns` with slow handlers or a second session;
`ChatOnce` is the chat scene of `Gateway` with a slow resubmission and a request its client may cancel.

**Bounds.** `Tasks`: three tasks are an owner, a waiter and one more to overtake or be overtaken; `Lane` has a
fourth, because an interrupt drops one from the lane and it takes two more for the dropped one to be overtaken
when it comes back. `Slots` bounds coroutines alive at once; a step that needs a slot when none is free is not
taken, and the slots leave room for an unwinding coroutine next to every live one. `MaxSeq` bounds admissions,
so each id can be admitted more than once over a run with fewer ids. `MaxRecords = 1` makes pruning happen
with every terminal record; `LoadMax = 1` makes a load choose. The scenes follow one rule: two of everything
that can meet (sessions, runs, cycles, requests, answers), one more where a third could overtake, and caps
(retention, caches, history, queues, budget) small enough to be hit in most behaviours. The three runs of
`AgentLoop` are the one that leaves calls behind, the one that replays them in the same runtime and one of
another runtime that does so later, or meets either. `SessionNames` has one call scheduled after a turn,
because a second is scheduled only when none is in flight, and `MaxPosts = 1` bounds the publishes of runs
alone: a rename and the titles always send, so three updates may be under way. `ChatOnce` has three handlers:
the first and the second submission, and one that makes the registry drop a record. Seven parts of history are
enough for two cuts, a skipped block and a move back.

**Deadlock** checking is off in every run: an idle server whose tasks are settled and whose admissions
are used up has nothing to do.

**Fairness.** `Served`: a coroutine that is ready is run by the loop, an execution ends, and a
process that stops is replaced.  asyncio runs ready tasks in FIFO order; provider and tool calls have
timeouts.  This is weak fairness of `Step(r)`; it is written as `[]<>` of the program counter, which is
equivalent because `Step(r)` is enabled whenever the slot is busy and always leaves the counter's
value.  `Agent`: weak fairness of the steps of the run in flight, of which one runtime has at most one per
session.  `Gateway`: weak fairness of a respond handler that has read the session and of a resumed run, of the
steps of a chat handler that are not its client's (`Progress`), of a tool item and its processor, of the
sends of a connection.  No fairness is assumed of the user, the Portal or a viewer: a session that waits for
the user may wait for ever, and `AcceptedIsServed` says so.

## 4. What the models found

Runs that TLC finds violated:

1. `NotStarted`: `_reconcile_runtime_task_session_lane` drops the id that `complete()` promoted; the
   promoted task owns its lane and is never started.
2. `Orphan`: an interrupt drops pending entries without telling the tracker; their records stay
   `accepted`.
3. `LateAnswer`: an answer to the card of a cancelled task admits it again.
4. `ChatTwice`: the look-up of a request id and its registration are separated by the preparation of
   attachments, and `start()` hides an existing record: both submissions are executed.
5. `ChatMixedUp`: records are keyed by request id alone, so a run of one session stores its payload in the
   record of another session that used the same id.

Exceptions the properties and fairness conditions name, because the code as it is makes them, by component:

* **Tasks.** A coroutine cancelled before its first step never runs the `finally` block that releases its
  lane.  For this and for 1 and 2, `AcceptedIsServed` is checked without cancellation.  A shutdown cancels
  running coroutines, and their tasks are recorded as cancelled, where `docs/runtime-design.md:181` announces
  records that the next startup marks stale; the action is in the model (`Shutdown`), no property forbids it.
* **Order in a lane** (`stray`).  An accepted task may have lost the place of its admission: an interrupt drops it from
  the lane, and a repeated dispatch puts it back at the end; or its record was pruned while the lane still named it,
  and the same id is dispatched anew and keeps the earlier place.  `StartsInOrder` is about the other tasks; without the
  exception it holds for three tasks of one session and fails for four.
* **Chat runs.** `RunIsRecorded` leaves out runs that end with a `ValueError`: the handlers answer 400, as to a
  malformed request, and the record says `running` until it is stale.
* **Submissions** (`hidden`, `dropped`).  A request is executed again where its look-up missed the other submission
  (finding 4), where another session used its id (finding 5), and when its record was dropped.
* **Cards.** `OneResumePerCard` excepts two answers of which one names the request id and the other does not:
  the claim is kept under the name the answer used, so both resume the turn.  A card that is raised again under
  its id while an answer is between its read and its claim takes that answer.  `_resume_chat_after_user_input`
  calls `_persist_chat_failure_state` without its required argument `metadata`; the `TypeError` is swallowed, so
  the transcript does not show that a resumed run failed.
* **Run status** (`missed`, `crossed`). A run that raises or is cancelled writes no last status, so the
  session says `running` until the next run and manual compaction is refused. The sweep skips a session with a
  card. Compaction checks a status it read before. A run its client cancelled is "cancelled" in the registry
  while it still unwinds, and "completed" if it returns a result all the same. While the session says how a
  run ended, the registry still says `running` until its handler has published usage and metadata.
* **Session titles** (`overtaken`, `outrun`, `muddled`). An update of the Portal that fails is logged and not
  sent again, and nothing orders two of them, so the Portal may keep an old name until a later one is
  published. A title may be stored after an edit replaced its question. A rename that lands while the thread
  stores is kept, but the Portal is told the generated title. Two calls for one session do run at a time,
  where a comment says that one does (`runtime_api.py:4703`).
* **Tool tasks.** A cancelled item ends the processor; what is queued waits for the next submission, and
  the submitter polls for ever.
* **Events** (`excused`).  An event may be delivered twice (replay and queue), and the replay may overtake older
  queued events: the viewer that then disconnects asks from the newer one on.  Timestamps are modelled as growing.
* **Agent loop** (`cut`).  A terminal result, the iteration limit, a cancel or a broken stream leaves calls pending
  and the next run executes them.  A call whose run was torn down by asyncio between its start and its result is
  executed again.  Two runtimes over one session do not exclude each other, so two of its runs may overlap
  (`overlapped`): both may execute a call, and one may send a request while the other executes.  A cancel is not looked
  at between the attempts of one request.
* **Revert** (`meddled`).  A revert may report a restored workspace while edits of trimmed turns of other targets
  remain: `LastTurnIsUndone` is about the target the last run published, and about a workspace that no other revert
  moved while that run was in flight (`moving`, `moved`) and a target nobody changed (`retargeted`).  Deleting a
  snapshot or restoring a checkpoint leaves references nobody keeps up.
* **Session files.** The caches trust time and size, which two writes may share; they are current because
  every operation of the one store that replaces a file refreshes or drops both entries. A crash leaves `.tmp`
  files that nothing removes.
* **Background tasks** (`unwritten`).  A failed append loses the rest of the notifications of its batch.
* **Compaction.** The greedy selection skips a large block and takes older small ones, so the skipped block is cut
  again with every request; `CutStaysPut` is about cuts that keep everything from their message on.  A request may
  leave out the message the user has just sent.
* **Delegation** (`loose`).  Overlapping cycles overcommit the budget, and an unreadable board admits everything.
  `coordination_handler` drops the deferred tasks, so a cycle that deferred all of its tasks may report `complete`.
  A raise while tasks are prepared leaves task agents behind, and a retry makes them again.
* **Streamed responses.**  A call whose stream ends, or is cut short by `response.incomplete`, before its item is
  done is completed with the arguments that had arrived; where the response failed, it stays in the stored message as
  pending, without arguments, and the next run finds it among the calls it has to execute.  Where item ids change from
  chunk to chunk, a reasoning item becomes several parts, and each that has encrypted content is replayed;
  `MessageIsWhole` asks of these that the final content is among them.
* **Governed tasks** (`calm`, `lost`). The head may move between the last look and the write; a look that
  fails lets the review through. An asyncio cancel leaves no terminal event and perhaps a write that nobody
  reports; a crash leaves its delegation pending. The summary of a Jira review is the plan and not what was
  done: `comment_added` is true and `updated_fields` names the fields also where the gate blocked them
  (`jira_workflow_review.py:255-258`), and a failure says that nothing was added or updated, also when a
  comment or fields were written before it (`_build_failure`); in both cases `actions_applied` of the same
  result tells.
* **Access token.** Every 401 forces an exchange of its own, and a request that reads its headers before the
  address may send an old token to a new host; `SendsFreshToken` orders what the transport itself reads.

## 5. Proofs

`RuntimeTasksProofs` proves for every set of tasks, sessions, slots and every bound, fault model and
Portal behaviour the assumptions of the modules allow:

* `TypeCorrect`: `Spec => []TypeOK`
* `RunsAreOwned`: `Spec => []RunIsOwned`
* `SessionsAreExclusive`: `Spec => []OneRunPerSession`
* `NothingIsReplayed`: `Spec => NoReplay`

`OneRunPerSession` is not inductive: whether a second coroutine may start depends on what the record
and the lane say.  The invariant `IInv` therefore adds: an uncancelled coroutine is the one its record
points to, the record is active and the lane is the task's (`Owned`, which is `RunIsOwned`); only a
running record has an attempt, an active record has no pending request, and an accepted record's
permission is unspent (`RecordsSane`); a coroutine that executes has a task (`RunsSane`).  Exclusivity
then follows: two uncancelled coroutines of one session would both own its lane.  The proof has one
step lemma per action; the tails of handlers have their own lemmas (`ScheduleKept`, `CompleteKept`,
`FinallyKept`), because several actions end in them.  `NothingIsReplayed` uses the same invariant:
an uncancelled spawned coroutine has an accepted record, and an accepted record is unspent.

Its second half proves what the tracker records and that it implements its contract, for every set of
tasks, sessions and slots, every bound on the records kept and every end of the process:

* `DiskIsCurrent`: `Spec => []DiskMirrorsRecords`
* `OutcomesAreOwn`: `Spec => OutcomeByCurrentRun`
* `CancelStays`: `Spec => CancelledIsFinal`
* `ContractIsImplemented`: `Spec => ImplementsContract`, the refinement of `TaskContract`
* `RestartKeepsAsking`: `Spec => RestartKeepsWaiting`

All five assume that writes succeed (`NoFaults`; a write that fails leaves the disk behind the memory, see
section 6) and that a startup loads every record there can be (`AllLoaded`; a file the limit leaves out is
forgotten).  `CancelStays` assumes that the Portal answers no card of a task it cancelled (`LateAnswers`).
`MInv` adds to `IInv` that each file is the image of its record and that an active record is not
compacted, because a compacted record is not written again (`Mirrors`).  `PInv` adds where the tasks stand
(`Placed`): a task that runs or waits for the user holds the lane of its session, and the entries of a
lane were made no later than the admission of the task they name.  The second is what the refinement
turns on: the contract lets a promoted task do nothing but go on being ready, and the interrupt a
cancel leaves in a lane would refuse it if it could be older than its entry.  A startup finds at most one
task that waits in a session because both would hold its lane, so the task that gets the lane is that one.

* `LanesAreOrdered`: `IsFiniteSet(Tasks) => (OrderSpec => StartsInOrder)`

This one has no assumption on writes, startups or the Portal.  `OInv` adds to `IInv` that the dictionary of a
lane is totally ordered, that its entries tell what the records say (accepted, without a coroutine, admitted after the
lane's interrupt), that who was admitted earlier comes earlier, and that the owner of a lane may start before all who
wait in it (`Fair`); that a record points to a coroutine there is (`Backed`); and that a task not astray is in its lane.
The set of tasks has to be finite for a promotion to find an earliest entry.

`AgentLoopProofs` proves, for any number of runs, runtimes and calls:

* `OwnRecord`: `Spec => []RecordIsOwn`
* `OneRunInFlight`: two runs in flight belong to different runtimes
* `RequestsArePaired`: `Spec => []RequestIsPaired`
* `CallsRunOnce`: `Spec => []ExecutedOnce`
* `GrantsAreSpent`: `Spec => []AllowedOnly`
* `CancelsAreHeeded`: `Spec => CancelIsHeeded`
* `RunTypes`: `Spec => []TypeOK`

`finish()`, `cancel()` and `is_cancelled()` name a session and no run.  That they mean the right one needs the other
direction as well: an active record has an owner in flight (`ActiveIsOwned`), so that a run that begins finds no
record it would take over.  That a run ends cancelled only when told follows from the owner of the record the
cancel was written to.

`RequestsArePaired` and `CallsRunOnce` hold for any number of runtimes, as the gateway builds one per request,
and assume nothing of them: both properties are of sessions whose runs did not overlap in time. `SessionInv`
says that as long as `overlapped` is false one run was in flight at a time, whichever runtime it is of, and
that `LoopInv` holds. The invariant `LoopInv` says of the history that only its last message may have calls
without a result (`Story`), of a run in flight that the calls it has before it are exactly those
(`AllBefore`), and of the counters that a tool began once for a call with a result or under execution, and
otherwise at most as often as it was cut off (`Counted`). It holds again after a cancel, a failure or an
interruption because the next run starts from `Pending`. What `Pending` and `Unanswered` return is shown in
`UnansweredFacts` and `PendingFacts`: `Unanswered` is a recursive function over the positions of a message,
and both that it is one (`Recursion`) and what it returns are proved by the least position at which they would
fail (`LeastMember`, `Induction`, in `RecursionFacts`).

`GrantsAreSpent` is of overlapping runs as well. A grant for once becomes a rule that the next call it covers
uses up; the invariant counts calls that began together with such rules, and says that together they are no
more than the grants (`Covered`), while only a grant for good makes a rule that stays (`StayingIsGranted`).
`CancelsAreHeeded` goes through the steps of a run: each looks at the cancel before it starts a tool or turns
to the provider, and a request that it has turned to ends, or is retried while retries are left.

`GatewayProofs` proves of the composition `Gateway`, under `GatewayAssumption` (what the constants are):

| Theorem | Property | Argument |
|---|---|---|
| `ClaimsMatchRuns`, `CardsResumeOnce` | `ClaimsAreHeld`, `OneResumePerCard` | a run that ends gives back its own claim because the keys of runs in flight differ (`KeysDistinct`); two runs for one card hold different keys, each the card's id or none (`KeysMatch`), so one of them holds none |
| `RequestsRunOnce` | `RunsOnce` | while a submission works on its request, the record is there and of its session, and it is the only one to work on it (`OneWorks`); it is the only one that ever began it while the record lasts (`OneBegan`); both unless the registry lost sight of the request (`hidden`, `dropped`).  Nothing is assumed of the submissions |
| `StatusStaysTrue`, `CompactionsKeepOff` | `StatusIsTrue`, `CompactsBetweenRuns` | a record that says running has a run in flight, one that is about to be told, or one that was missed, and a run in flight has a record that says so unless it was cancelled (`RegistryAgrees`); the outcomes recorded are true (`RegistryIsRight`); the status in metadata is read against the run it names (`RunningIsMeant`, `OtherIsMeant`, `BlockedStays`), and a compaction knows what the status it read allows (`CompactKnows`) |
| `NamesStayRight` | `NamesAreRight` | a name a member gave is in the metadata and in every copy of it that will be written back, and it is what the Portal was sent last, unless a title was being stored or an update went astray (`CustomIsKept`); a title is of a question that was the first when the call read the history (`TitlesAreCurrent`) |
| `ToolTasksInOrder` | `OneAtATime` | the queue is sorted (`QueueInOrder`), at most one processor exists and is the one the flag speaks of (`OneProcessor`), and what was served was submitted before what is queued |
| `GapsAreExcused` | `NoGap` | the queue of a viewer holds the newest events (`QueueIsNewest`), and an event older than the last one sent was sent, waits or was given up (`BeforeLast`, `NothingForgotten`) |

`AgentRuntimeProofs` proves of the composition `AgentRuntime`, under `RuntimeAssumption` (it extends `AgentLoopProofs`
as well, for the scene of runs):

| Theorem | Property | Argument |
|---|---|---|
| `FreshTokensAreSent` | `SendsFreshToken` | how far token, expiry and endpoint may be apart (`TokensOrdered`, `TokensAgree`), only while the lock is held (`LockIsHeld`), and what a request knows of the token it read (`StoresNewest`, `WasRefused`, `ReadsGood`) |
| `PayloadsAreRouted` | `PayloadIsRouted` | one subagent has the floor (`OneAtWork`), a run that resolved holds its own answer (`HoldsItsOwn`), a resolution that may be reused has its token in the transport (`KeptTogether`) |
| `LeadersAreSound` | `CyclesAreSound` | an admission leaves room for what it admitted until the dispatch is over, or another cycle overlaps and excuses it (`RoomIsLeft`); what a cycle counted is on the board (`CycleIsTold`) |
| `FilesAreTrue` | `ReadsAreTrue` | an entry of either cache is the file itself, whatever time and size say, because what replaces a file refreshes or drops both (`HoldsFiles`); an update starts from what was acknowledged |
| `TasksAreAccountedFor` | `TaskIsAccountedFor` | from `GovernedTasksProofs`: what was seen is carried from the look to the write (`Sighted`, `Asks`), nothing was written before it (`Unwritten`), pushes since are in `calm`; reports, summary and lifecycle events follow what was written or blocked |
| `SessionsAreTold` | `TasksAreTold` | what is reported and told is the state the record was closed in (`ReportsAreTrue`, `TellsAreTrue`), nothing is told twice (`ToldOnce`), a task marked as injected was told or its batch failed (`MarkedAreTold`) |
| `SnapshotsStay`, `LastTurnsAreUndone` | `SnapshotsAreKept`, `LastTurnIsUndone` | below |
| `RequestsAreSound`, `CutsStayPut` | `RequestIsSound`, `CutStaysPut` | from `CompactionProofs`, below |
| `StoredMessageIsWhole` | `MessageIsWhole` | from `ResponseStreamProofs`, below |
| `TypesAreKept` | `TypesOK` | one theorem per scene, below |

`SnapshotsStay` and `LastTurnsAreUndone` share `RevertInv`. `RefsAreGood` says of each session that the
snapshots its record names exist and are its own, that an active revert has an undo, and that the snapshot of
a target nobody meddled with holds no edit of the turns from the target on. That is true when a run publishes
because it was true of the snapshot the run took (`RunsKnow`), which the run's lease has kept on disk
(`RunsHold`), whatever retention ran for other sessions; and edits are never ahead of the turns of their
sessions (`EditsKnown`), so that a snapshot taken before a turn holds none of its edits. The proof attempt for
`LastTurnIsUndone` showed two deeds of the user that the property has to except: a revert of the same
workspace between the start of a run and its end, and one to another target.

`CompactionProofs` proves `RequestsAreSound` and `CutsStayPut` for histories of any length, any sizes and
every budget from 1, the least the code leaves (`_clamp_reserve_chars`). It first says what the three
recursive functions of the module return: `Total` adds the sizes up (`TotalIsSum`), so that two sets of parts
cost no more than both and what is appended adds its own size; `Selected` fits its limit unless it is the
newest block and what is pending alone, and always has these (`SelectedFacts`); `InOrder` lists positions in
order and each once (`InOrderLists`). Each is proved by the least position at which it would fail. The
invariant `CompactionInv` then says that a result comes after its call, is the only one, and that the parts of
a message are of one kind (`SaneHistory`), so that a block is one part or one pair (`PairsAreBlocks`); that
the calls owed are those that are pending; that the message a cut is at, remembered or saved, has no result in
it, for a cut between a call and its result would part them (`CutsBeginBlocks`); that a request is made when
nothing is pending, and a runtime whose cut is not dirty has the saved one (`RunsKnow`); and that of what was
there when a cut was made the cut keeps no more than its target allows (`RoomIsLeft`). A request that moves
the cut found the budget exceeded, so what exceeds the target came later: that is `CutStaysPut`. A forced
compaction is the hard step: it takes parts away, adds a summary in front of a message and leaves the order of
the rest, which `OrderWeaves` and `CompactedHistory` carry through. The attempt showed that the target is one
character at least, also where six tenths of the budget round to none, so that the room for a budget of 1 is
none; the property says so now.

`ResponseStreamProofs` proves `MessageIsWhole` for any number of items in any order, any interleaving of their
chunks and the three styles of naming them, under `ResponseAssumption`. The property is of a message that is
stored, when the drafts are gone; the invariant `StreamInv` (theorem `DraftsTellTheMessage`) is of every
moment before. `Fits` relates the drafts of the adapter to what processor and observers made of its events: a
draft that was started is the one part of its call, and has its arguments once it is complete (`CallsFit`);
what was shown of a call is how far its draft is (`ShownFits`); reasoning is ahead of the calls of later items
(`ThoughtsFit`), a text is open or between the calls that surround it (`TextFits`). `Streaming` relates the
drafts to what the provider sent: what a draft has of the chunks of its call (`DraftsKnow`), that an item that
is done has a draft with the arguments it ended with (`DoneIsWhole`), and that a key never leads to the draft
of another call (`AliasFits`), which is what keeps calls apart when their chunks interleave. The proof goes
event by event: `ToldCourse` says what the recursive function `Told` returns and `ToldConcat` that events told
in two pieces are told in one, one lemma for each event says that `Fits` is kept when the draft changes with
it, and each chunk is one or several of these. At the end `AllCompletions` completes the drafts in their
order, by induction over their number, and what fits then is whole.

`TypesAreKept` is typing only by name: in most scenes the types say what a range alone does not, so they need
an invariant of their own. A run's cursors stay in their limits and what it has left to do was asked in the
session (`RunTypes`, with `LoopTypesInv`). A session's checkpoints, its revert and its history speak of turns
there were and of snapshots that were taken, also those a checkpoint has carried through several reverts, and
no two snapshots have an id in common (`SessionsFit`, on top of `RevertInv`). The table of background tasks
lists a task once, whatever is alive, drained or told is in it, and the reports are exactly of what was
drained (`RecordsKept`). An entry of the parse cache is of a session there is and no large file, neither cache
is longer than its limit, and no update has a number beyond those asked. What a governed task has left to do
is the end of its plan and what it reports is of that plan (`TasksAreTyped` in `GovernedTasksProofs`); a draft
of a stream is of an item the response has, and every key leads to a draft there is (`ResponseTyped` in
`ResponseStreamProofs`); the parts of a history have ids of their own (`CompactionTyped` in
`CompactionProofs`). The scene is chosen once, and a step of one scene leaves the variables of the others
alone, so each of these holds of the composition.

`CompactionProofs`, `GovernedTasksProofs` and `ResponseStreamProofs` prove their component's properties of its own
specification, and the composition cites them by instance.

Two assumptions recur: the compositions name the facts about constants that their components assume
(`GatewayAssumption`, `RuntimeAssumption`), and TLC evaluates them with the values of the runs.

Model-checked only is liveness, which is out of the prover's reach: `AcceptedIsServed`, `SessionIsFreed`,
`RunIsRecorded`, `CardIsAnswerable`, `EveryoneIsAnswered`, `Delivered`. Every invariant and action property
that a passing run checks is proved.

## 6. What the models leave out

Inside the modelled components:

* Requests that are refused with an error before any state changes, and duplicate dispatches of settled
  tasks, change nothing.
* Tasks: the failure to create a coroutine, an answer whose record has no payload to resume from, failures to
  delete a file, the limits on scanned files at load (`LoadMax` stands for the limit on records), heartbeats, event
  counters.  Persistence and the contract are stated for a disk that works: with write faults two files of one
  session may both say they wait after a restart.  Liveness across crashes.
* Chat: attachments, the writes to the client and its reconnection, what happens after the outcome is recorded
  (usage, logs), session ids the server makes up.  Cards: the contents of answers and their validation, the
  connector bridge.
* Agent loop: the credits guard and structured output, which end a run like the iteration limit; commands, skills,
  profiles, prompts; events; permissions that become configuration of a resumed run.
* Session store: forks, todos, search.  Snapshots: manifests, diffs, legacy snapshots; deletion races with other
  processes.
* Compaction: pruning of old results, the opt-in rewrite of the stored history, the summarizer (one size of
  summary), the legacy compaction of `src/agents`.
* Provider: payloads, Chat Completions chunks and whole responses, the models catalog, the AI Platform transport (the
  same token protocol).
* Execution bus: the policy rules (a pure decision over a request), skills and tool executions, batches, capability
  planning, recovery hints.  Leader: the choice of the least loaded specialist, delegation batches without a
  budget, the contents of results.

Components without a module:

* Chat event projection, file parsing and memory: pure translations of text and events.
* Portal clients: HTTP clients with caches, best effort by design; no state that others depend on.
* Legacy session manager: superseded by the session store.
* Scheduled work: a poller without a cursor that posts what it sees, and the Portal drops what it has seen; the
  heartbeat returns fixed answers.
* Configuration: reading and merging of files, no behaviour over time.
* Built-in tools and skills: effects outside the process.

A large part of the code builds payloads, parses, validates, formats and calls other services.  These lines have no
behaviour over time that a state machine could tell apart, so the share of lines that definitions stand for is
small (about a tenth), though the state that concurrent actors share is mostly covered.

## 7. What could follow

1. Proofs: that a startup repairs what `AcceptedIsServed` needs (an accepted record is in its lane again).
2. Composition: chat runs, agent runs and titles over one `SessionFiles`, to see what a read and a write back of one
   costs another.
3. Components: batches and capability planning of the execution bus, delegation batches, the models catalog.
