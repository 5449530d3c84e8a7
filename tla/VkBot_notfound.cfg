CONSTANTS
    Users = {u1}
    Writes = {"media"}
    Names = {n1}
    BadNames = {}
    NoName = NoName
    MaxMsgs = 1
    MaxFds = 8
SPECIFICATION Spec
PROPERTY SurvivesNotFound
CHECK_DEADLOCK FALSE
