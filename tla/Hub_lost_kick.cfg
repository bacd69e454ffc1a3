CONSTANTS
    Conns = {c1, c2}
    Servers = {S1, S2}
    None = None
    MaxPending = 1
    Overlap = TRUE
    Prompt = FALSE
    MayAbandon = FALSE
    MayFail = FALSE
SPECIFICATION Spec
INVARIANTS SingleConnection
CHECK_DEADLOCK FALSE
