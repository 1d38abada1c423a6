CONSTANTS
    Domains <- TwoNames
    Lists = {"hosts", "rpz"}
    RPZLists = {"rpz"}
    Content <- Disjoint
    InitialLists = {"hosts"}
    Whitelist <- OnlySX
    Refreshers = {"loop"}
    Loop = "loop"
    Admins = {a1}
    Queriers = {q1}
    ListsChange = TRUE
SPECIFICATION FairSpec
PROPERTIES LostOnlyToOverlap  CustomBlocksRestored
