CONSTANTS
    MsgLen = 3
    RespLen = 2
    MaxResets = 1
    None = None
SPECIFICATION Spec
INVARIANT ClientNeverPanics
