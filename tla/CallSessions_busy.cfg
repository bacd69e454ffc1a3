CONSTANTS
    Users = {a, b}
    Sessions = {s1}
    Procs = {p1, p2}
    None = None
    Devices = {"none"}
    Recorded = {}
    MayFail = TRUE
    MayExpire = TRUE
SPECIFICATION FairSpec
PROPERTIES BusyEventuallyFree
CHECK_DEADLOCK FALSE
