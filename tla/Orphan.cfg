\* A cancel leaves an accepted task that nothing refers to.
CONSTANTS
    t1 = t1  t2 = t2  t3 = t3
    s1 = s1  s2 = s2
    Tasks = {t1, t2, t3}
    Sessions = {s1}
    NoSession = NoSession
    SessionOf <- OneSession
    Slots = {r1, r2, r3, r4}
    None = None
    Done = Done
    MaxRecords = 3
    LoadMax = 3
    MaxSeq = 3
    Faults = {"none"}
    Requested = {"steer", "queue"}
    Outcomes = {"success", "waiting"}
    Ends = {}
    Cancellable = {t1, t2, t3}
    LateAnswers = FALSE
SPECIFICATION Spec
INVARIANTS AcceptedIsKnown

\* An idle server may stop: every task settled and no admission left.
CHECK_DEADLOCK FALSE
