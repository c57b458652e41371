\* Four tasks compete for one session, the Portal may cancel and answers tasks that wait.
CONSTANTS
    t1 = t1  t2 = t2  t3 = t3  t4 = t4
    s1 = s1
    Tasks = {t1, t2, t3, t4}
    Sessions = {s1}
    NoSession = NoSession
    SessionOf <- OneSession
    Slots = {r1, r2, r3}
    None = None
    Done = Done
    MaxRecords = 4
    LoadMax = 4
    MaxSeq = 4
    Faults = {"none"}
    Requested = {"steer", "queue"}
    Outcomes = {"success", "waiting"}
    Ends = {}
    Cancellable = {t1, t2, t3, t4}
    LateAnswers = FALSE
SPECIFICATION OrderSpec
SYMMETRY LaneSymmetry
INVARIANTS RunIsOwned
PROPERTIES StartsInOrder CancelledIsFinal
\* An idle server may stop: every task settled and no admission left.
CHECK_DEADLOCK FALSE
