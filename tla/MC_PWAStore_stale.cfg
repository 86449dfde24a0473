CONSTANTS
    MaxPending = 3
SPECIFICATION Spec
PROPERTY
    StaleCheckErrorNotShown
