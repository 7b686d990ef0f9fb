\* Every text of up to three characters, every dictionary of up to three lines.
SPECIFICATION Spec
CONSTANTS
    Alphabet <- MCAlphabet
    TextLength = 3
    Lines = {"a", "b", "again", "phrase", "says", "chain", "compound", "itself", "comment", "unreadable", "empty", "import"}
    Category <- Cat
    ScriptOf <- MCScript
    Lower <- MCLower
    Upper <- MCUpper
    SplitAt = 3
    MaxDepth = 8
    Files <- MCFiles
    Characters <- MCCharacters
    Sounds = {"o", "u", "."}
    ClassOf <- MCClass
    Cases <- MCCases
INVARIANTS DocumentIsRead DictionaryIsKept ResolvedIsSaid
PROPERTY ProgramEnds
CHECK_DEADLOCK FALSE
