---------------------------- MODULE MCCommandMatch ----------------------------
(* CommandMatch on all short texts. *)
EXTENDS CommandWords

CONSTANTS
    PatternChars, MaxPattern,   \* bounds of the patterns tried
    CommandChars, MaxCommand    \* bounds of the commands tried

ShortPatterns == BoundedSeq(PatternChars, MaxPattern)
\* Both create handlers refuse an empty command.
ShortCommands == BoundedSeq(CommandChars, MaxCommand) \ {<<>>}
=============================================================================
