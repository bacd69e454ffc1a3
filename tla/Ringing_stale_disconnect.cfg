CONSTANTS
    Conns = {c1, c2}
    Servers = {S1, S2}
    None = None
    MaxPending = 1
    Overlap = FALSE
    Prompt = TRUE
    MayAbandon = FALSE
    MayFail = FALSE
    CallerServer = S1
SPECIFICATION RingingSpec
PROPERTIES ConnectedKeepsCall
CHECK_DEADLOCK FALSE
