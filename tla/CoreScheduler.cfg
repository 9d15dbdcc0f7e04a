SPECIFICATION Spec
CONSTANTS
    checker = checker
    keeper = keeper
    doctor = doctor
    judge = judge
    scribe = scribe
    asked = asked
    mended = mended
    slip = slip
    None = None
    Opaque = Opaque
    Executions = {e1}
    Tools = {t1}
    Plugins <- MCPlugins
    Params <- MCParams
    ApprovalIds <- MCApprovalIds
    Chains <- MCChains
    PluginResults <- MCResults
    Raising <- MCPlugins
    MaxRetries <- MCMaxRetries
INVARIANTS TypeOK Admission RetryBound Verdict
PROPERTIES StatusIsFinal EventuallyReturns ImplementsLifecycle
CHECK_DEADLOCK FALSE
