SPECIFICATION Spec
CONSTANTS
    g1 = g1
    g2 = g2
    None = None
    Goroutines = {g1, g2}
    Published <- MCPublished
    KSKs <- MCKSKs
    WeakDS = {"weak"}
    KeyOf <- MCKeyOf
    TrustAnchors = {"dr"}
    Answers <- MCAnswers
    Alone <- MCAlone
    Denied = {"type", "name", "online", "child3", "other"}
    Contents <- MCContents
    Home <- MCHome
    Universe <- MCUniverse
    Hash <- MCHash
    NSHost <- MCNSHost
SYMMETRY Symmetry
INVARIANTS SingleFlight  FailuresStayFailures  SecureDenialIsTrue
CHECK_DEADLOCK FALSE
