SPECIFICATION SeedSpec
CONSTANTS
    Serving = FALSE
    MaxSeeds = 2
    MaxEvents = 2
    NULL = NULL
INVARIANTS CompletedIsWhole CleaningIsNeverRefused
PROPERTY SuperAdminStays
CHECK_DEADLOCK FALSE
