SPECIFICATION FairSpec
CONSTANTS
    ClockSkew = 1
    MaxPrice = 20
    Tries = 2
    MaxRestore = 2
    MaxFailures = 1
    MaxPushes = 2
    MaxRequests = 1
    MaxMerges = 1
    Provider <- MCProvider
    Merges <- MCMerges
    Customers <- MCCustomers
    Purchases <- MCPurchases
    Pushes <- MCPushes
    Legacy <- MCLegacy
    Requests <- MCRequests
    Application <- MCApplication
    Catalog <- MCCatalog
INVARIANTS DoneIsApplied ReplacementStaysWithOwner SuccessMeansEveryItem NoSilentlyUnscheduled
PROPERTIES ReplacementNeedsNoClient
CHECK_DEADLOCK FALSE
