\* Two tasks of a session, writes that fail, crashes and shutdowns at any moment.
CONSTANTS
    t1 = t1  t2 = t2  t3 = t3
    s1 = s1  s2 = s2
    Tasks = {t1, t2}
    Sessions = {s1}
    NoSession = NoSession
    SessionOf <- OneSession
    Slots = {r1, r2}
    None = None
    Done = Done
    MaxRecords = 2
    LoadMax = 1
    MaxSeq = 2
    Faults = {"none", "omit", "drop", "io"}
    Requested = {"steer"}
    Outcomes = {"waiting"}
    Ends = {"crash", "shutdown"}
    Cancellable = {t1, t2}
    LateAnswers = TRUE
SPECIFICATION Spec
SYMMETRY SlotSymmetry
INVARIANTS OneRunPerSession
PROPERTIES NoReplay
\* An idle server may stop: every task settled and no admission left.
CHECK_DEADLOCK FALSE
