CONSTANTS
    Processes = {uvicorn1, uvicorn2}
    Requests = {student}
    MaxJobs = 4
    MaxCrashes = 1
    MaxBroken = 1
    NoJob = noJob
    AI_MAX_AUTOMATIC_ATTEMPTS = 2
SPECIFICATION JobsFairSpec
INVARIANTS
    JobsTypeOK
    OneWorkerPerJob
    RetryBudget
PROPERTIES
    RunningIsSettled
    WaitingIsServed
CHECK_DEADLOCK FALSE
