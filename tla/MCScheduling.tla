---------------------------- MODULE MCScheduling ----------------------------
(* A small instance of Scheduling for TLC: a payment tool in three versions, *)
(* checked by a human, with a stricter schema only, and without plugins of   *)
(* its own; an open guard, and two plugins that go by the id of the human.   *)
EXTENDS Scheduling, TLC

CONSTANTS w1, w2,
          strict, human, open,              \* plugin ids
          strictPlugin, humanPlugin, otherHuman, openPlugin,
          pay, payTool, riskyPayTool, plainPayTool,
          params, slip

MCWorkers == {w1, w2}
OneInstaller == {w1}
MCPluginIds == {strict, human, open}
MCPluginId == strictPlugin :> strict @@ humanPlugin :> human @@ otherHuman :> human
              @@ openPlugin :> open
MCPlugins == DOMAIN MCPluginId
MCLayerOf == [p \in MCPlugins |-> IF p = strictPlugin THEN "schema" ELSE "guard"]

MCToolIds == {pay}
MCToolObjects == {payTool, riskyPayTool, plainPayTool}
MCToolId == [o \in MCToolObjects |-> pay]
MCDeclares ==
       payTool      :> [NoConfig EXCEPT !["schema"] = strict, !["guard"] = human]
    @@ riskyPayTool :> [NoConfig EXCEPT !["schema"] = strict]
    @@ plainPayTool :> NoConfig

MCParams == {params}
MCApprovalIds == {slip}

Passes == [success |-> TRUE, should_continue |-> TRUE, data |-> None, error |-> None]
Suspends ==
    [success |-> TRUE, should_continue |-> FALSE, error |-> None,
     data |-> [pending_approval |-> TRUE, approval_id |-> slip,
               recovered |-> FALSE, fixed_params |-> None]]

(* The open guard and the schema plugin let every call through.              *)
MCResults ==
    [p \in MCPlugins |-> IF PluginId[p] = human THEN {Passes, Suspends} ELSE {Passes}]
MCMaxRetries == [p \in MCPlugins |-> 1]
=============================================================================
