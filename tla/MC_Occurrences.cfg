CONSTANTS
    Positions = {0, 1, 2}
    MaxOccurrences = 2
    None = None
SPECIFICATION Spec
INVARIANT
    TypeOK
PROPERTY
    SelectionFollowsOccurrences
