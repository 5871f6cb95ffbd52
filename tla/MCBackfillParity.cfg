SPECIFICATION Spec

CONSTANTS
    Runners = {m1, m2}
    Sources <- MCSources
    Scan <- MCScan
    Describes <- MCDescribes
    Joins <- MCJoins
    Initially <- MCInitially
    PageSize = 2
    MaxChanges = 1
    MaxCrashes = 1

INVARIANTS
    UnchangedSourcesDoNotConflict

CHECK_DEADLOCK FALSE
