CONSTANTS
    Scripts <- MCSecond
    Attached <- MCAttached
    MaxCheckpoints = 1
    MaxExports = 1
    PageLimit = 1
    Importers = {i1}
SPECIFICATION Spec
INVARIANT VerifiedBundlesAreRestored
CHECK_DEADLOCK FALSE
