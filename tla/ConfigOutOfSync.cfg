SPECIFICATION Spec
CONSTANTS
    w1 = w1
    w2 = w2
    lax = lax
    strict = strict
    human = human
    laxPlugin = laxPlugin
    strictPlugin = strictPlugin
    humanPlugin = humanPlugin
    otherHuman = otherHuman
    pay = pay
    query = query
    payTool = payTool
    plainPayTool = plainPayTool
    riskyPayTool = riskyPayTool
    queryTool = queryTool
    None = None
    Workers <- MCWorkers
    Installers <- OneInstaller
    Plugins <- MCPlugins
    PluginIds <- MCPluginIds
    PluginId <- MCPluginId
    LayerOf <- MCLayerOf
    ToolIds <- MCToolIds
    ToolObjects <- MCToolObjects
    ToolId <- MCToolId
    Declares <- MCDeclares
INVARIANTS AlwaysInSync
