\* Whole phrases, warnings that fit the message buffer and that do not.
SPECIFICATION Spec
CONSTANTS
    Texts <- Phrases
    WriteResults = {TRUE, FALSE}
    AudioPipe = 2
    ErrorPipe = 8
    MessageSize = 5
INVARIANTS
    EveryPhraseFlushed
    HeardIsDiagnosed
PROPERTIES
    Finishes
CHECK_DEADLOCK FALSE
