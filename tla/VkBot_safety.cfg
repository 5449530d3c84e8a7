CONSTANTS
    Users = {u1, u2}
    Writes = {"silent", "blank", "empty", "short", "help", "hash", "media", "weather", "remove"}
    Names = {n1, n2}
    BadNames = {n2}
    NoName = NoName
    MaxMsgs = 2
    MaxFds = 8
SPECIFICATION FairSpec
INVARIANT AnsweredOnce
PROPERTIES UsesLastNickname HandledIsTriedOnce DiesOfLeaks
CHECK_DEADLOCK FALSE
