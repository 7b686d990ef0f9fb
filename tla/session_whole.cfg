\* Whole documents: every mode, engine and sink, any legal client.
SPECIFICATION FairSpec
CONSTANTS
    root = root  c1 = c1  c2 = c2  c3 = c3  clip = clip
    NoAnchor = NoAnchor
    Anchor = {root, c1, c2, c3, clip}
    Word = 16
    MaxBuffers = 2
    Sessions <- WholeSessions
INVARIANTS
    ClientSeesEnd
    SinkUsedWhileOpen
    ProgressIsTrue
PROPERTIES
    ReadsAloud
    SessionEnds
CHECK_DEADLOCK FALSE
