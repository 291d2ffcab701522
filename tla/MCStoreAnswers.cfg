SPECIFICATION Spec
CONSTANTS
    MaxTime = 5
    MaxAsks = 3
    ClockSkew = 1
    MaxPrice = 20
    Tries = 2
    Customer <- MCCustomer
    Catalog <- MCCatalog
    Asks <- MCAsks
    Legacy <- MCLegacy
INVARIANTS NoSnapshotConflict ServedAsAnswered AnswerIsServed LookupFindsCurrent
CHECK_DEADLOCK FALSE
