CONSTANTS
    Users = {a, b}
    Sessions = {s1, s2}
    Procs = {p1, p2}
    None = None
    Devices = {"full"}
    Recorded = {}
    MayFail = TRUE
    MayExpire = TRUE
SPECIFICATION Spec
SYMMETRY Symmetry
INVARIANTS TypeOK MappingHasSession Exclusive IInv
PROPERTIES NeverOverwritten RegistrySpec
CHECK_DEADLOCK FALSE
