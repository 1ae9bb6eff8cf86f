CONSTANTS
    Alphabet <- MCPathChars
    MaxLen = 4
SPECIFICATION Spec
INVARIANT AbsoluteFormAccepted
CHECK_DEADLOCK FALSE
