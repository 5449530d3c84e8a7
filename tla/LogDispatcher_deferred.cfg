CONSTANTS
    Writers = {w1}
    Messages = {m1, m2}
    NoMessage = NoMessage
SPECIFICATION Spec
INVARIANTS DeferredStopWrites
CHECK_DEADLOCK FALSE
