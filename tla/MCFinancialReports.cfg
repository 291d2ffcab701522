SPECIFICATION Spec
SYMMETRY MCSymmetry
CONSTANTS
    r1 = r1
    r2 = r2
    r3 = r3
    RowLimit = 4
    MaxMinor = 999
    Exponent <- MCExponent
    Applications <- MCApplications
    Initially <- MCInitially
    Uploads <- MCUploads
    Requests <- MCRequests
    MaxAttempts = 2
INVARIANTS PeriodCountsOnce RevenueIsTheFiles AcceptedReportSums
PROPERTY CurrentWasNamed
CHECK_DEADLOCK FALSE
