SPECIFICATION Spec
CONSTANTS
    Byte = 4
    Written <- MCWritten
    CommandValues <- MCCommandValues
INVARIANTS
    ParsedAsWritten
    PublishedRestores
    CommandReadsBack
\* one conversion there and back
CHECK_DEADLOCK FALSE
