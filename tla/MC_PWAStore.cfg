CONSTANTS
    MaxPending = 3
SPECIFICATION Spec
INVARIANT
    TypeOK
