\* Nobody cancels: every accepted task is served.
CONSTANTS
    t1 = t1  t2 = t2  t3 = t3
    s1 = s1  s2 = s2
    Tasks = {t1, t2, t3}
    Sessions = {s1}
    NoSession = NoSession
    SessionOf <- OneSession
    Slots = {r1, r2, r3}
    None = None
    Done = Done
    MaxRecords = 2
    LoadMax = 3
    MaxSeq = 4
    Faults = {"none"}
    Requested = {"steer", "queue"}
    Outcomes = {"success", "waiting"}
    Ends = {}
    Cancellable = {}
    LateAnswers = TRUE
SPECIFICATION FairSpec

PROPERTIES AcceptedIsServed
\* An idle server may stop: every task settled and no admission left.
CHECK_DEADLOCK FALSE
