CONSTANTS
    Conns = {c1, c2}
    Servers = {S1, S2}
    None = None
    MaxPending = 1
    Overlap = FALSE
    Prompt = FALSE
    MayAbandon = TRUE
    MayFail = TRUE
    Senders = {x1}
    QueueSize = 1
    Leftovers = {l1}
    MaxSent = 2
SPECIFICATION DeliverySpec
SYMMETRY Symmetry
INVARIANTS DeliveryTypeOK OncePerConnection InOrder NoUntrackedConnection
CHECK_DEADLOCK FALSE
