\* Up to five phonemes for the units, three phones for the diphones, and four
\* phonemes, one of which cannot be read, for the converter.
SPECIFICATION ReadersSpec
CONSTANTS
    Inputs <- SmallInputs
    Durations <- SmallDurations
    PhonemeStarts <- Starts
    Table <- Voice
    UInt8 = 256
    MaxPhonemes = 5
    Phones <- Tones
    MaxPhones = 3
    Unreadable = Unreadable
    Sound <- Sounds
    Stress = {"unstressed", "primary"}
    Rules <- Accent
    Transcribed <- Transcriptions
    ClassOf <- Classes
    Separator = "newline"
    MaxLength = 4
    Features <- SomeFeatures
    FeatureLists <- SomeLists
    Unicode <- CodePoints
    PhonemeFiles <- SomeFiles
    SchemeNames <- SomeSchemes
    ArpabetLetters = {"A", "B", "C", "H", "P", "Q", "S", "T", "U", "X", "Y", "-"}
    Unwritten <- ToSay
    Others <- BeforeThat
INVARIANTS
    EveryPhonemeOnce
    TranscriptionsReadBack
    UnitsOfPhonemes
    DiphonesAreThePhones
    AccentIsApplied
    SyllablesKeepStress
PROPERTIES
    ReadersEnd
CHECK_DEADLOCK FALSE
