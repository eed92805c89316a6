SPECIFICATION MCSpec
CONSTANTS
    Readers = {p1, p2, p3}
    Writers = {w1, w2}
    MayCancel = TRUE
INVARIANTS
    KVIntact
    IInv
    AdaptersKept
    CallsSound
    RingSuffices
    GrammarsAgree
    SessionsKept
PROPERTIES
    TaggerRight
    WritersFirst
    SlotsSuffice
    RequestsSound
    DelayersAgree
CHECK_DEADLOCK FALSE
