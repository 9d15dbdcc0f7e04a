SPECIFICATION SystemSpec
CONSTANTS
    e1 = e1
    admin = admin
    a1 = a1
    tool = tool
    params = params
    None = None
    Opaque = Opaque
    Timers = {job, job2}
    Guard = guard
    Tool = tool
    Executions <- MCExecutions
    Workers <- MCWorkers
    ApprovalIds <- MCApprovalIds
    Params <- MCParams
    Subscriptions <- MCSubscriptions
    Timeouts = {0, 1}
    MaxTime = 2
INVARIANTS AnnouncedIsStored HeardOnce
PROPERTIES StopIsFinal StopReturns SettledUnlessStopped ImplementsApprovals
CHECK_DEADLOCK FALSE
