\* Both engines; the second file of one of the voices may be missing; texts
\* up to one that is too long for a pico_Int16; any call of Pico may fail.
SPECIFICATION Spec
CONSTANTS
    e1 = e1
    e2 = e2
    p1 = p1
    p2 = p2
    None = None
    Empty = Empty
    EspeakVoices <- Espeak
    PicoVoices <- Pico2
    EspeakDefault = e1
    PicoDefault = p1
    Builds <- EveryBuild
    Garbage = {None}
    Missing <- SecondFile
    Sizes = {0, 3, 9}
    Int16 = 16
    MaxPut = 3
    Faulty = TRUE
    MaxLeft = 3
INVARIANTS
    VoiceOfActive
    OneVoiceLoaded
    NothingLeftOver
PROPERTIES
    SpeakEnds
CHECK_DEADLOCK FALSE
