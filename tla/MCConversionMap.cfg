SPECIFICATION Spec
CONSTANTS
    Byte = 4
    Written <- DocumentedMap
    CommandValues <- MCCommandValues
\* one conversion there and back
CHECK_DEADLOCK FALSE
INVARIANT
    ReverseMapping
