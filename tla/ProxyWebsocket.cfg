SPECIFICATION FairSpec
CONSTANTS
    MaxSent = 4
INVARIANTS
    TypeInv
    GoodbyeAfterEchoes
PROPERTIES
    MessagesComeBack
    ClientEnds
    HandlerEnds
CHECK_DEADLOCK FALSE
