\* Speech alone, over whole documents and parts: the range that is read, what
\* a stop lets through and what is left of the sink.
SPECIFICATION Spec
CONSTANTS
    root = root  c1 = c1  c2 = c2  c3 = c3  clip = clip
    NoAnchor = NoAnchor
    Anchor = {root, c1, c2, c3, clip}
    Word = 16
    MaxBuffers = 2
    Sessions <- PartSessions
INVARIANTS
    ReadsTheRange
    StopIsImmediate
    NoHandleLeft
CHECK_DEADLOCK FALSE
