SPECIFICATION Spec
CONSTANTS
    Programs <- MCPrograms
    MaxEmbedDepth = 3
INVARIANTS
    WalksAgreeWithGo
    MethodSetIsComplete
    ImplementersImplement
PROPERTIES
    AnswersOnlyImprove
CHECK_DEADLOCK FALSE
