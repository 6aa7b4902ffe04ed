\* All the inputs of MCScheduler.
SPECIFICATION Spec
CONSTANTS
    NoId = "none"
    Phases <- MCPhases
    Inputs <- MCInputs
CHECK_DEADLOCK FALSE
INVARIANTS SchedulerCorrect DegreeIsWaiting
