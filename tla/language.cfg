\* Every language of the instance is compiled and loaded and reads every word.
SPECIFICATION Spec
CONSTANTS
    Space = {" "}
    Classes = {"H"}
    Flags <- MCFlags
    FeaturesIn <- MCFeaturesIn
    PhonemesIn <- MCPhonemesIn
    FeaturesOf <- MCFeaturesOf
    Sources <- MCSources
    Dictionaries <- MCDictionaries
    Words <- MCWords
    MaxWords = 1
    LocaleMatches <- MCLocales
INVARIANTS LoadedIsCompiled EveryLetterPronounced AheadComesTrue
PROPERTY WordEnds
CHECK_DEADLOCK FALSE
