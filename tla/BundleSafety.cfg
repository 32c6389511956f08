SPECIFICATION Spec
CONSTANTS
    Mains = {"a"}
    Extras = {"x", "y"}
    Key = "key"
    OtherKey = "other"
    None = None
    MaxLines = 4
    MaxEdits = 2
INVARIANTS TamperEvident ImplementationsAgree
    VerdictSound HonestBundle BundlePinned
CHECK_DEADLOCK FALSE
