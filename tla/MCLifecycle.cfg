SPECIFICATION Spec

SYMMETRY Symmetry

CONSTANTS
    Projects = {project}
    Claims = {claim}
    Tasks = {task}
    Challenges = {challenge}
    Questions = {question}
    Attempts = {attempt}
    Requests = {r1, r2}
    NoObject = NoObject
    MaxRevisions = 5
    MaxObjects = 2
    MaxTraces = 1

INVARIANTS
    HistoriesAreLegal
    EditsAreSeen

PROPERTIES
    RowsMoveLegally
    NoTraceAfterSubmission

CHECK_DEADLOCK FALSE
