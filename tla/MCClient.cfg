SPECIFICATION FairSpec
CONSTANTS
    Path <- TwoPaths
    Content <- ThreeContents
    NoFile = NoFile
    MaxIgnored = 3
    MaxCalls = 4
    MaxChanges = 1
    MaxLosses = 1
INVARIANTS
    TypeOK
    AnswersMatch

    
    
CHECK_DEADLOCK FALSE
