SPECIFICATION Spec
CONSTANTS
    Paths = {p1, p2}
    MaxJob = 4
    Seed <- SeedWorkflow
    Texts <- MCTexts
    Broken = Broken
    Absent = Absent
    NoSim = NoSim
    MaxEdits = 1
    MaxFailed = 1
    MaxForeign = 1
INVARIANTS
    TypeOK
    OrderIsRight
    WorkflowStaysSound
    NothingRunsEarly
    EveryStepCounts
PROPERTIES
    ForeignKept
SYMMETRY MCSymmetry
CHECK_DEADLOCK FALSE
