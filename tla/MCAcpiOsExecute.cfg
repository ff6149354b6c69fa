SPECIFICATION Spec
CONSTANTS
    Threads = {t1, t2}
    NoThread = NoThread
    MaxDepth = 2
    MaxPolls = 2
INVARIANTS TypeOK PendingExact GateDiscipline DrainedMeansDone InterruptsRestored
PROPERTIES NoDrainFromCallback ExecuteReturns WaitReturns
