CONSTANTS
    t1 = t1
    t2 = t2
    garbage = garbage
    Texts <- MCTexts
    Garbage <- garbage
    MaxVersion = 3
SPECIFICATION FairSpec
INVARIANTS
    TypeOK
    AnsweredAtMostOnce
PROPERTIES
    
    EveryRequestAnswered
CHECK_DEADLOCK FALSE
