CONSTANTS
    t1 = t1
    t2 = t2
    h1 = h1
    h2 = h2
    None = None
    NoText = NoText
    MaxPending = 2
    Texts <- MCTexts
    Handles <- MCHandles

SPECIFICATION Spec

INVARIANT NoSilentDataLoss
