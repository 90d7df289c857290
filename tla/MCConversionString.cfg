SPECIFICATION Spec
CONSTANTS
    Byte = 4
    Written <- MCWritten
    CommandValues <- MCCommandValues
\* one conversion there and back
CHECK_DEADLOCK FALSE
INVARIANT
    StringReadsBack
