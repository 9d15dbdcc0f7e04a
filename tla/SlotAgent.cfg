SPECIFICATION Spec
CONSTANTS
    refund = refund
    report = report
    note = note
    byTool = byTool
    default = default
    strict = strict
    custom = custom
    lists = lists
    exclusive = exclusive
    roles = roles
    human = human
    retry = retry
    healer = healer
    simple = simple
    reviewer = reviewer
    logger = logger
    None = None
    RequestId = request
    Opaque = Opaque
    MaxTasks = 2
    Tools <- MCTools
    ToolSchema <- MCToolSchema
    Plugins <- MCPlugins
    Config <- MCConfig
    MaxRetries <- MCMaxRetries
    Params <- MCParams
    Values <- MCValues
    Depth <- MCDepth
    Schemas <- MCSchemas
    Replies <- MCReplies
    Setups <- MCSetups
INVARIANTS Accounting SchemaMeaning AccessControl RetriesOnAdvice
PROPERTIES ImplementsScheduler EventuallyAnswers
