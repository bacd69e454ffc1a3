CONSTANTS
    Users = {a, b}
    Sessions = {s1}
    Procs = {p1, p2}
    None = None
    Devices = {"none"}
    Recorded = {"ring", "ringing", "accepted", "rejected", "ended", "webrtc", "incoming", "cancelled", "left"}
    MayFail = FALSE
    MayExpire = TRUE
SPECIFICATION Spec
PROPERTIES AcceptedCallPersists
CHECK_DEADLOCK FALSE
