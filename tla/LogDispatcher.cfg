CONSTANTS
    Writers = {w1, w2}
    Messages = {m1, m2, m3}
    NoMessage = NoMessage
SPECIFICATION FairSpec
INVARIANTS Conserved DeferredDrains
PROPERTIES LogProgress
CHECK_DEADLOCK FALSE
