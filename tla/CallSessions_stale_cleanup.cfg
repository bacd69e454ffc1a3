CONSTANTS
    Users = {a, b}
    Sessions = {s1, s2}
    Procs = {p1, p2}
    None = None
    Devices = {"none"}
    Recorded = {"ring", "ringing", "accepted", "rejected", "ended", "webrtc", "incoming", "cancelled", "left"}
    MayFail = FALSE
    MayExpire = FALSE
SPECIFICATION Spec
PROPERTIES OwnMappingsOnly
CHECK_DEADLOCK FALSE
