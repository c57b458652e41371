\* The scene of chat runs: two submissions of a request that its client may cancel, the
\* second slow, and a third handler whose record makes the registry drop another.
CONSTANTS
    q = q  p = p
    Answers = {a1, a2}
    Ids = {q, p}
    KindOf <- OneOfEach
    NoId = NoId
    MaxRaised = 2
    h1 = h1  h2 = h2  h3 = h3  ra = ra  rb = rb  sa = sa
    None = None
    Handlers = {h1, h2, h3}
    Requests = {ra, rb}
    Sessions = {sa, sb}
    RequestOf <- TwiceAndOnce
    SessionOf <- OneSession
    Streams = {h1, h3}
    Slow = {h2, h3}
    Endings = {"returned", "raised", "invalid"}
    HandlerCancel = TRUE
    Cancellable = {ra}
    MaxRecords = 1
    \* The scenes that are not played.
    Background = {b}
    Endpoint = {e}
    MaxQuestions = 2
    MaxRenames = 1
    MaxPosts = 1
    MaxItems = 3
    MaxCompleted = 1
    MaxEvents = 5
    MaxConnects = 2
    QueueSize = 2
    HistoryLimit = 4
    ReplayLimit = 2
SPECIFICATION ChatSpec
INVARIANTS RunsOnce
\* The model ends when every handler is over.
CHECK_DEADLOCK FALSE
