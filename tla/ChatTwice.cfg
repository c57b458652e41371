\* Two submissions of a request with attachments.
CONSTANTS
    h1 = h1  h2 = h2  h3 = h3
    a = a  b = b
    s1 = s1  s2 = s2
    None = None
    Handlers = {h1, h2, h3}
    Requests = {a, b}
    Sessions = {s1, s2}
    RequestOf <- Resubmitted
    SessionOf <- SameSession
    Streams = {h1, h3}
    Slow = {h1, h2}
    Outcomes = {"returned", "raised"}
    HandlerCancel = FALSE
    Cancellable = {}
    MaxRecords = 2
SPECIFICATION Spec
INVARIANTS ExecutedOnce
\* The model ends when every handler is over.
CHECK_DEADLOCK FALSE
