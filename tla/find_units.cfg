\* A phone of three units.
SPECIFICATION ReadersSpec
CONSTANTS
    Inputs <- OneGlide
    Durations <- SmallDurations
    PhonemeStarts <- Starts
    Table <- GlideVoice
    UInt8 = 256
    MaxPhonemes = 2
    Phones <- Tones
    MaxPhones = 0
    Unreadable = Unreadable
    Sound <- Sounds
    Stress = {"unstressed", "primary"}
    Rules <- Accent
    Transcribed <- Transcriptions
    ClassOf <- Classes
    Separator = "newline"
    MaxLength = 0
    Features <- SomeFeatures
    FeatureLists <- SomeLists
    Unicode <- CodePoints
    PhonemeFiles <- SomeFiles
    SchemeNames <- SomeSchemes
    ArpabetLetters = {"A", "B", "C", "H", "P", "Q", "S", "T", "U", "X", "Y", "-"}
    Unwritten <- ToSay
    Others <- BeforeThat
INVARIANTS
    UnitsOfPhonemes
CHECK_DEADLOCK FALSE
