SPECIFICATION Spec
CONSTANTS
    Letters = {a, b}
    PatternChars = {a, "star"}
    MaxPattern = 2
    CommandChars = {a, b, "space", "star"}
    MaxCommand = 3
    Patterns <- ShortPatterns
    Commands <- ShortCommands
INVARIANT StarEndsAWord
CHECK_DEADLOCK FALSE
