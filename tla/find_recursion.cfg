\* Entries that are said as themselves.
SPECIFICATION Spec
CONSTANTS
    Alphabet <- MCAlphabet
    TextLength = 3
    Lines = {"a", "b", "again", "phrase", "says", "chain", "compound", "itself", "comment", "unreadable", "empty", "import"}
    Category <- Cat
    ScriptOf <- MCScript
    Lower <- MCLower
    Upper <- MCUpper
    SplitAt = 3
    MaxDepth = 8
    Files <- MCFiles
    Characters <- MCCharacters
    Sounds = {"o", "u", "."}
    ClassOf <- MCClass
    Cases <- RecursionCases
INVARIANT RecursionIsCaught
CHECK_DEADLOCK FALSE
