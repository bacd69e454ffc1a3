CONSTANTS
    Users = {a, b}
    Sessions = {s1}
    Procs = {p1, p2}
    None = None
    Devices = {"none", "token_only", "full"}
    Recorded = {"ring", "ringing", "accepted", "rejected", "ended", "webrtc", "incoming", "cancelled", "left"}
    MayFail = FALSE
    MayExpire = FALSE
SPECIFICATION Spec
INVARIANTS CancelOnlyAfterPush
CHECK_DEADLOCK FALSE
