CONSTANTS
    Alphabet <- MCUrlChars
    MaxLen = 6
SPECIFICATION Spec
INVARIANT TypeOK PathNormalised RemoveDotSegmentsRFC
CHECK_DEADLOCK FALSE
