\* Two answers to the cards of a session that raises up to two, or one of the other scenes.
CONSTANTS
    q = q  p = p
    Answers = {a1, a2}
    Ids = {q, p}
    KindOf <- OneOfEach
    NoId = NoId
    MaxRaised = 2
    \* Chat runs: rb may be cancelled.
    h1 = h1  h2 = h2  h3 = h3  ra = ra  rb = rb  sa = sa
    None = None
    Handlers = {h1, h2, h3}
    Requests = {ra, rb}
    Sessions = {sa, sb}
    RequestOf <- TwiceAndOnce
    SessionOf <- OneSession
    Streams = {h1, h3}
    Slow = {h3}
    Endings = {"returned", "raised", "invalid"}
    HandlerCancel = TRUE
    Cancellable = {rb}
    MaxRecords = 1
    \* A turn schedules a title, the Portal asks for one; one edit and one rename; a run
    \* publishes the name when no update of it is under way.
    Background = {b}
    Endpoint = {e}
    MaxQuestions = 2
    MaxRenames = 1
    MaxPosts = 1
    \* A session that keeps one record of three tool tasks.
    MaxItems = 3
    MaxCompleted = 1
    \* A viewer that connects twice.
    MaxEvents = 5
    MaxConnects = 2
    QueueSize = 2
    HistoryLimit = 4
    ReplayLimit = 2
SPECIFICATION GatewayFairSpec
INVARIANTS ClaimsAreHeld OneResumePerCard StatusIsTrue
INVARIANTS CompactsBetweenRuns NamesAreRight OneAtATime NoGap
PROPERTIES CardIsAnswerable RunIsRecorded EveryoneIsAnswered Delivered
\* The model ends when everybody is done.
CHECK_DEADLOCK FALSE
