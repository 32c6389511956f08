SPECIFICATION Spec
CONSTANTS
    None = None
    AnyPort = AnyPort
    Wild = Wild
INVARIANTS
    LinesAgree
    GuardHolds
    ShadowAgrees
    DraftSound
    AuthzSound
    AatExact
    Ags1Exact
    EncodingsAgree
    FollowExact
    BoundaryHolds
