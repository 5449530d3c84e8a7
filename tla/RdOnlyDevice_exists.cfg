CONSTANTS
    Procs = {p1}
    MsgLen = 2
    MaxOpens = 2
SPECIFICATION Spec
INVARIANT SaidExists
