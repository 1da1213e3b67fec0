SPECIFICATION Spec
CONSTANTS
    Vectors <- Standard
INVARIANTS
    TypeOK
    DigestCorrect
    AdlerExact
CHECK_DEADLOCK FALSE
