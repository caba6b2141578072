SPECIFICATION Spec
CONSTANTS
    Letters = {a, b}
    PatternChars = {a, "space", "star", "sq"}
    MaxPattern = 3
    CommandChars = {a, b, "space", "sq", "dq", "meta", "nul"}
    MaxCommand = 4
    Patterns <- ShortPatterns
    Commands <- ShortCommands
INVARIANT TypeOK
INVARIANT TokenizerCorrect
INVARIANT VerdictCorrect
CHECK_DEADLOCK FALSE
