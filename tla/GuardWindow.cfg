SPECIFICATION SystemSpec
CONSTANTS
    w1 = w1
    w2 = w2
    strict = strict
    human = human
    open = open
    strictPlugin = strictPlugin
    humanPlugin = humanPlugin
    otherHuman = otherHuman
    openPlugin = openPlugin
    pay = pay
    payTool = payTool
    riskyPayTool = riskyPayTool
    plainPayTool = plainPayTool
    params = params
    slip = slip
    None = None
    Opaque = Opaque
    Workers <- MCWorkers
    Installers <- OneInstaller
    Plugins <- MCPlugins
    PluginIds <- MCPluginIds
    PluginId <- MCPluginId
    LayerOf <- MCLayerOf
    ToolIds <- MCToolIds
    ToolObjects <- MCToolObjects
    ToolId <- MCToolId
    Declares <- MCDeclares
    Executions = {e1}
    Params <- MCParams
    ApprovalIds <- MCApprovalIds
    PluginResults <- MCResults
    Raising = {}
    MaxRetries <- MCMaxRetries
INVARIANT RunsUnderDeclaredGuard
