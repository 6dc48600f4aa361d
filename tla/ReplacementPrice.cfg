SPECIFICATION Spec
CONSTANTS
    c1 = c1
    c2 = c2
    c3 = c3
    b1 = b1
    b2 = b2
    p1 = p1
    p2 = p2
    None = None
    Categories = {"cpu", "board", "psu"}
    Products = {c1, c2, c3, b1, b2, p1, p2}
    Profiles = {"performance", "value"}
    CategoryOf <- MCCategoryOf
    PairList <- MCPairList
    Score <- MCScore
    Caution <- MCCaution
    PoolLimit = 2
    Distance = 2
    MinDifference = 2
    MaxRejections = 2
    Catalogues <- MCCatalogues
    Requests <- MCRequests
    MaxGenerations = 2
    MaxRestarts = 1
CHECK_DEADLOCK FALSE
INVARIANT RetailPrices
