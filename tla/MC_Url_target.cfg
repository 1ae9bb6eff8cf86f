CONSTANTS
    Alphabet <- MCUrlChars
    MaxLen = 4
SPECIFICATION Spec
INVARIANT OriginFormAccepted
CHECK_DEADLOCK FALSE
