--------------------------- MODULE MCToolRegistry ---------------------------
(* Small instances of ToolRegistry for TLC. *)
EXTENDS ToolRegistry, TLC

CONSTANTS w1, w2,
          lax, strict, human,               \* plugin ids
          laxPlugin, strictPlugin, humanPlugin, otherHuman,
          pay, query,                       \* tool ids
          payTool, plainPayTool, riskyPayTool, queryTool

MCWorkers == {w1, w2}
OneInstaller == {w1}
MCPluginIds == {lax, strict, human}
MCPlugins == {laxPlugin, strictPlugin, humanPlugin}
PluginsWithTwin == MCPlugins \cup {otherHuman}
MCToolIds == {pay, query}

MCPluginId == laxPlugin :> lax @@ strictPlugin :> strict @@ humanPlugin :> human
MCLayerOf == laxPlugin :> "schema" @@ strictPlugin :> "schema" @@ humanPlugin :> "guard"

(* A second plugin that goes by the id of humanPlugin. *)
TwinPluginId == MCPluginId @@ otherHuman :> human
TwinLayerOf == MCLayerOf @@ otherHuman :> "guard"

(* Three versions of the payment tool: checked by a human, with a stricter   *)
(* schema only, and without plugins of its own.                              *)
MCToolObjects == {payTool, plainPayTool, riskyPayTool, queryTool}
MCToolId == payTool :> pay @@ plainPayTool :> pay @@ riskyPayTool :> pay @@ queryTool :> query
MCDeclares ==
       payTool      :> [NoConfig EXCEPT !["schema"] = strict, !["guard"] = human]
    @@ riskyPayTool :> [NoConfig EXCEPT !["schema"] = strict]
    @@ plainPayTool :> NoConfig
    @@ queryTool    :> [NoConfig EXCEPT !["schema"] = lax]
=============================================================================
