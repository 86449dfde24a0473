CONSTANTS
    u1 = u1
    u2 = u2
    u3 = u3
    None = None
    Uuids <- MCUuids

SPECIFICATION Spec

SYMMETRY MCSymmetry

INVARIANT AtMostOneCancelInFlight
