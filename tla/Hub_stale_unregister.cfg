CONSTANTS
    Conns = {c1, c2}
    Servers = {S1}
    None = None
    MaxPending = 1
    Overlap = FALSE
    Prompt = FALSE
    MayAbandon = FALSE
    MayFail = FALSE
SPECIFICATION Spec
PROPERTIES StaleUnregisterKeepsSlot
CHECK_DEADLOCK FALSE
