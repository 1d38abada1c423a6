SPECIFICATION Spec
CONSTANTS
    g1 = g1
    g2 = g2
    None = None
    Goroutines = {g1, g2}
    Published <- MCPublished
    KSKs <- MCKSKs
    WeakDS = {"weak"}
    KeyOf <- MCKeyOf
    TrustAnchors = {"dr"}
    Answers <- MCAnswers
    Alone <- MCAlone
    Denied = {"type3"}
    Contents <- MCContents
    Home <- MCHome
    Universe <- MCUniverse
    Hash <- MCHash
    NSHost <- MCNSHost
SYMMETRY Symmetry
INVARIANT HonestIsNeverBogus
CHECK_DEADLOCK FALSE
