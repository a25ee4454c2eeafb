\* Two callers with two writes each: four workers are as many as four missed
\* deadlines can ask for, so the bound on workers never blocks a caller.
SPECIFICATION FairSpec
CONSTANTS
    Caller = {c1, c2}
    MaxWrites = 2
    MaxWorkers = 4
CHECK_DEADLOCK FALSE
INVARIANTS NoDuplicate AcknowledgedInOrder AbandonsItsOwnWorker
PROPERTIES WriteReturns ImplementsDelivery
