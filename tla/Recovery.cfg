\* Two tasks share a session and the third has none; crashes and shutdowns at any moment.
CONSTANTS
    t1 = t1  t2 = t2  t3 = t3
    s1 = s1  s2 = s2
    Tasks = {t1, t2, t3}
    Sessions = {s1}
    NoSession = NoSession
    SessionOf <- MixedSessions
    Slots = {r1, r2, r3}
    None = None
    Done = Done
    MaxRecords = 1
    LoadMax = 3
    MaxSeq = 3
    Faults = {"none"}
    Requested = {"steer"}
    Outcomes = {"success", "waiting"}
    Ends = {"crash", "shutdown"}
    Cancellable = {t1, t2, t3}
    LateAnswers = TRUE
SPECIFICATION Spec
SYMMETRY SlotSymmetry
INVARIANTS DiskMirrorsRecords
PROPERTIES RestartKeepsWaiting ImplementsContract OutcomeByCurrentRun
\* An idle server may stop: every task settled and no admission left.
CHECK_DEADLOCK FALSE
