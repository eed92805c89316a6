SPECIFICATION LiveSpec
CONSTANTS
    Readers = {p1, p2, p3}
    Writers = {w1, w2}
    MayCancel = FALSE
PROPERTIES
    WriterGetsIn
    UnloadReturns
    WaitersRun
    Answered
    CallsEnd
    Prefilled
    Leaves
CHECK_DEADLOCK FALSE
