SPECIFICATION Spec
CONSTANTS
    Networks = {"rtu", "tcp"}
    SlaveSections <- MCSlaveSections
    ObjectSections <- MCObjectSections
    DefaultRefresh = 5
    DefaultMode = "ON_CHANGE"
INVARIANTS
    SpecificationIsUnion
    RegistersServed
\* the program goes on elsewhere when init returns or throws
CHECK_DEADLOCK FALSE
