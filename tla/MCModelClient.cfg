SPECIFICATION FairSpec
CONSTANTS
    Texts <- MCTexts
    MaxWidth = 2
    MaxMessages = 3
    Limits <- MCLimits
    Envelope <- MCEnvelope
    Attempts = 3
    Dimensions = {1, 2}
CHECK_DEADLOCK FALSE
INVARIANTS
    TypeOK
    RequestsAreBounded
    AnnotationsAreComplete
    VectorsCoverTheirTexts
PROPERTY
    EveryCallEnds
