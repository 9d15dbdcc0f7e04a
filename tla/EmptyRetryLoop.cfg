SPECIFICATION Spec
CONSTANTS
    checker = checker
    keeper = keeper
    doctor = doctor
    judge = judge
    scribe = scribe
    asked = asked
    mended = mended
    slip = slip
    None = None
    Opaque = Opaque
    Executions = {e1}
    Tools = {t1}
    Plugins <- MCPlugins
    Params <- MCParams
    ApprovalIds <- MCApprovalIds
    Chains <- FewChains
    PluginResults <- FewResults
    Raising = {}
    MaxRetries <- NegativeRetries
INVARIANT ReturnsTerminal
CHECK_DEADLOCK FALSE
