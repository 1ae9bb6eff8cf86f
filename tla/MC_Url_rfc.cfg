CONSTANTS
    Alphabet <- MCPathChars
    MaxLen = 6
SPECIFICATION Spec
INVARIANT RemoveDotSegmentsMatchesRFC
CHECK_DEADLOCK FALSE
