\* Three runs of two runtimes over seven tool calls, or one of the other scenes.
CONSTANTS
    one = one  other = other  u = u  v = v  c1 = c1  c2 = c2  c3 = c3  c4 = c4  c5 = c5  c6 = c6  c7 = c7
    x = x  y = y  z = z  None = None
    MaxRuns = 3
    Runtimes = {one, other}
    RuntimeOf <- TwoRuntimes
    Calls = {c1, c2, c3, c4, c5, c6, c7}
    KindOf <- Mixed
    ArgsOf <- Same
    Args = {u, v, c3, c4, c5}
    Scripts <- Orders
    MaxIterations = 3
    MaxRetries = 1
    Threshold = 2
    MaxBatch = 2
    MaxGrants = 5
    Sessions = {a, b}
    \* A workspace that keeps one snapshot besides those in use.
    Cap = 1
    MaxTurns = 2
    MaxSnapshots = 3
    MaxCheckpoints = 1
    \* A store that caches one session, and updates on a clock that may stand still.
    MaxUpdates = 3
    MaxClock = 2
    ParseMax = 1
    SummaryMax = 2
    Large = {1}
    Subtasks = {t1, t2}
    \* Seven parts of a history; a result is small or larger than a third of the budget.
    Sizes = {1, 3}
    Budget = 8
    ContextSize = 1
    SummarySize = 1
    MaxParts = 7
    \* Two delegation cycles of one coordination run.
    Cycles = {x, y}
    RunOf <- OneCoordination
    MaxTasks = 2
    Limit = 2
    Ephemeral <- FirstOfX
    Invalid <- LastOfY
    \* A run and two subagents it waits for, one with a model of its own.
    Parent = x
    Subagents = {y, z}
    Concrete = {z}
    MaxRoutes = 5
    MaxCalls = 2
    \* Two requests over three ticks; a token lives two and is due one before its end.
    Callers = {x, y}
    Life = 2
    Margin = 1
    MaxTime = 3
    \* A pull request is pushed to twice.
    Heads = {x, y}
    MaxPushes = 2
    Responses <- ShortPlans
    Styles = {"indexed", "named", "called"}
SPECIFICATION MCSpec
INVARIANTS TypesOK RecordIsOwn ExecutedOnce RequestIsPaired AllowedOnly
INVARIANTS SnapshotsAreKept ReadsAreTrue RequestIsSound MessageIsWhole
INVARIANTS CyclesAreSound PayloadIsRouted SendsFreshToken TaskIsAccountedFor
PROPERTIES CancelIsHeeded SessionIsFreed LastTurnIsUndone TasksAreTold CutStaysPut
\* The model ends when every run is over.
CHECK_DEADLOCK FALSE
