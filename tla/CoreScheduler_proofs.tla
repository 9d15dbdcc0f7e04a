------------------------ MODULE CoreScheduler_proofs ------------------------
(* Theorems about CoreScheduler, for every value of its constants. *)
EXTENDS CoreScheduler, TLAPS

(* What the label of a call says of its locals: a call that runs has a tool  *)
(* and params, a plugin that is about to run was found, and a layer that     *)
(* stopped the call left its result.                                         *)
ShapeOf(e) ==
    /\ pc[e] \in Running => /\ ctx[e].tool \in Tools
                            /\ ctx[e].params \in Params
                            /\ log[e].asked \in Params
    /\ pc[e] = "run_schema" => frame[e].plugin["schema"] \in Plugins
    /\ pc[e] = "run_guard" => frame[e].plugin["guard"] \in Plugins
    /\ pc[e] = "heal" => frame[e].plugin["healing"] \in Plugins
    /\ pc[e] = "schema_failed" => ctx[e].plugin_results["schema"] \in PluginResult
    /\ pc[e] = "guard_stopped" => ctx[e].plugin_results["guard"] \in PluginResult

Shape == \A e \in Executions : ShapeOf(e)

TypeInv == TypeOK /\ Shape

-----------------------------------------------------------------------------
(* The operators the actions are built from *)

(* The chain goes on with a PluginResult only. *)
LEMMA OutcomesAreResults ==
    ASSUME NEW p \in Plugins PROVE Outcomes(p) \subseteq PluginResult
<1>1. PluginResults[p] \ {None} \subseteq PluginResult
  BY ConstantsAssumption DEF ConstantsAssumption
<1>2. PluginExecutionError \in PluginResult
  BY DEF PluginExecutionError, PluginResult, PluginErrors
<1>3. QED  BY <1>1, <1>2 DEF Outcomes

(* A call that runs finds a plugin or None for every layer. *)
LEMMA LookupFinds ==
    ASSUME TypeInv, NEW e \in Executions, pc[e] \in Running, NEW l \in Layers
    PROVE  GetPlugin(e, l) \in Plugins \cup {None}
  BY ConstantsAssumption
  DEF ConstantsAssumption, TypeInv, TypeOK, Shape, ShapeOf, GetPlugin

(* A context stays a context when a result is recorded or a status set. *)
LEMMA RecordedIsContext ==
    ASSUME NEW c \in Context, NEW l \in Layers, NEW r \in PluginResult
    PROVE  [c EXCEPT !.plugin_results[l] = r] \in Context
  BY DEF Context

(* The same for a status set with its error. *)
LEMMA ConcludedIsContext ==
    ASSUME NEW c \in Context, NEW s \in Statuses, NEW x \in Errors \cup {None}
    PROVE  [c EXCEPT !.status = s, !.error = x] \in Context
  BY DEF Context

(* The locals stay locals when a key is noted in previous_results. *)
LEMMA NotedIsFrame ==
    ASSUME NEW fr \in Frame, NEW key \in Layers \cup {"result", "error"}
    PROVE  [fr EXCEPT !.previous = @ \cup {key}] \in Frame
  BY DEF Frame

(* A step of one call leaves the others where they were. *)
Others(e) == \A f \in Executions \ {e} :
    /\ pc'[f] = pc[f] /\ ctx'[f] = ctx[f] /\ frame'[f] = frame[f]
    /\ event'[f] = event[f] /\ log'[f] = log[f]

(* So their shape stands, and only the call's own is to be shown. *)
LEMMA OthersKeepShape ==
    ASSUME NEW e \in Executions, Shape, Others(e), ShapeOf(e)'
    PROVE  Shape'
  BY DEF Shape, ShapeOf, Others

(* Before any call all variables have their types and shape. *)
LEMMA InitType == Init => TypeInv
  BY NoneAssumption DEF NoneAssumption, Init, TypeInv, TypeOK, Shape, ShapeOf, NewContext,
     NewFrame, NewLog, Context, Frame, Log, Labels, Running, Statuses, Events

(* execute starts with a fresh context; an unknown tool leaves none. *)
LEMMA CallType ==
    ASSUME TypeInv, NEW e \in Executions, Call(e)
    PROVE  TypeInv'
<1> USE DEF TypeInv, TypeOK
<1>1. ASSUME NEW t \in Tools, NEW p \in Params, Execute(e, t, p)
      PROVE  TypeInv'
  <2>1. NewContext(t, p, "RUNNING") \in Context
    BY NoneAssumption DEF NoneAssumption, NewContext, Context, Statuses
  <2>2. NewLog(p) \in Log
    BY DEF NewLog, Log
  <2>3. ctx' \in [Executions -> Context] /\ log' \in [Executions -> Log]
    BY <1>1, <2>1, <2>2 DEF Execute
  <2>4. pc' \in [Executions -> Labels]
    BY <1>1 DEF Execute, Jump, Labels, Running
  <2>5. Others(e)
    BY <1>1 DEF Execute, Jump, Others
  <2>6. ShapeOf(e)'
    BY <1>1 DEF Execute, Jump, NewContext, NewLog, ShapeOf, Running
  <2>7. QED
    BY <1>1, <2>3, <2>4, <2>5, <2>6, OthersKeepShape DEF Execute, pool
<1>2. ASSUME NEW t \in Tools, ToolNotFound(e, t)
      PROVE  TypeInv'
  <2>1. pc' \in [Executions -> Labels]
    BY <1>2 DEF ToolNotFound, Jump, Labels
  <2>2. Others(e) /\ ShapeOf(e)'
    BY <1>2 DEF ToolNotFound, Jump, Others, ShapeOf, Running
  <2>3. QED
    BY <1>2, <2>1, <2>2, OthersKeepShape DEF ToolNotFound, pool
<1>3. QED
  BY <1>1, <1>2 DEF Call

(* A lookup notes the plugin it found. *)
LEMMA LookupType ==
    ASSUME TypeInv, NEW e \in Executions, SchemaLookup(e) \/ GuardLookup(e)
    PROVE  TypeInv'
<1> USE DEF TypeInv, TypeOK
<1>1. pc[e] \in {"schema", "guard"}
  BY DEF SchemaLookup, GuardLookup, Lookup
<1>2. GetPlugin(e, "schema") \in Plugins \cup {None} /\ GetPlugin(e, "guard") \in Plugins \cup {None}
  BY <1>1, LookupFinds DEF Running, Layers
<1>3. \A l \in Layers, p \in Plugins \cup {None} : [frame[e] EXCEPT !.plugin[l] = p] \in Frame
  BY DEF Frame
<1>4. frame' \in [Executions -> Frame]
  BY <1>2, <1>3 DEF SchemaLookup, GuardLookup, Lookup, Layers
<1>5. pc' \in [Executions -> Labels] /\ event' \in [Executions -> Events]
  BY DEF SchemaLookup, GuardLookup, Lookup, Jump, Emit, Labels, Running, Events
<1>6. Others(e)
  BY DEF SchemaLookup, GuardLookup, Lookup, Jump, Emit, Others
<1>7. ShapeOf(e)'
  BY <1>1, <1>2 DEF SchemaLookup, GuardLookup, Lookup, Jump, ShapeOf, Shape, Running, Frame, Layers
<1>8. QED
  BY <1>4, <1>5, <1>6, <1>7, OthersKeepShape DEF SchemaLookup, GuardLookup, Lookup, pool

(* The schema layer records a plugin result. *)
LEMMA RunSchemaType ==
    ASSUME TypeInv, NEW e \in Executions, NEW r \in PluginResult, RunSchema(e, r)
    PROVE  TypeInv'
<1> USE DEF TypeInv, TypeOK, RunSchema
<1>1. ctx' \in [Executions -> Context]
  BY RecordedIsContext DEF Recorded, Layers
<1>2. frame' \in [Executions -> Frame]
  BY NotedIsFrame DEF Noted, Layers
<1>3. pc' \in [Executions -> Labels] /\ event' \in [Executions -> Events]
  BY DEF Jump, Emit, Labels, Running, Events
<1>4. Others(e)
  BY DEF Others, Jump, Recorded, Noted, Emit
<1>5. ShapeOf(e)'
  BY DEF Jump, Recorded, Noted, Shape, ShapeOf, Running, Context, Layers
<1>6. QED
  BY <1>1, <1>2, <1>3, <1>4, <1>5, OthersKeepShape DEF pool

(* So does the guard layer. *)
LEMMA RunGuardType ==
    ASSUME TypeInv, NEW e \in Executions, NEW r \in PluginResult, RunGuard(e, r)
    PROVE  TypeInv'
<1> USE DEF TypeInv, TypeOK, RunGuard
<1>1. ctx' \in [Executions -> Context]
  BY RecordedIsContext DEF Recorded, Layers
<1>2. frame' \in [Executions -> Frame]
  BY NotedIsFrame DEF Noted, Layers
<1>3. pc' \in [Executions -> Labels]
  BY DEF Jump, Labels, Running
<1>4. Others(e)
  BY DEF Others, Jump, Recorded, Noted
<1>5. ShapeOf(e)'
  BY DEF Jump, Recorded, Noted, Shape, ShapeOf, Running, Context, Layers
<1>6. QED
  BY <1>1, <1>2, <1>3, <1>4, <1>5, OthersKeepShape DEF pool

(* A call that is stopped keeps a context. *)
LEMMA StoppedType ==
    ASSUME TypeInv, NEW e \in Executions,
           SchemaFailed(e) \/ GuardStopped(e) \/ GiveUp(e)
    PROVE  TypeInv'
<1> USE DEF TypeInv, TypeOK
<1>1. CASE SchemaFailed(e)
  <2>1. ctx[e].plugin_results["schema"].error \in Errors \cup {None}
    BY <1>1 DEF SchemaFailed, Jump, Shape, ShapeOf, PluginResult, PluginErrors, Errors
  <2>2. ctx' \in [Executions -> Context]
    BY <1>1, <2>1, ConcludedIsContext DEF SchemaFailed, Conclude, Statuses
  <2>3. pc' \in [Executions -> Labels] /\ event' \in [Executions -> Events]
    BY <1>1 DEF SchemaFailed, Jump, Emit, Labels, Events
  <2>4. Others(e) /\ ShapeOf(e)'
    BY <1>1 DEF SchemaFailed, Conclude, Jump, Emit, Others, ShapeOf, Running
  <2>5. QED
    BY <1>1, <2>2, <2>3, <2>4, OthersKeepShape DEF SchemaFailed, pool
<1>2. CASE GuardStopped(e)
  <2> DEFINE data == ctx[e].plugin_results["guard"].data
  <2>1. ctx' \in [Executions -> Context]
    <3>1. CASE data \in Dict /\ data.pending_approval /\
               ctx' = [ctx EXCEPT ![e].status = "PENDING_APPROVAL",
                                  ![e].approval_id = data.approval_id]
      <4>1. data.approval_id \in ApprovalIds \cup {None}
        BY <3>1 DEF Dict
      <4>2. [ctx[e] EXCEPT !.status = "PENDING_APPROVAL", !.approval_id = data.approval_id]
              \in Context
        BY <4>1 DEF Context, Statuses
      <4>3. QED
        BY <3>1, <4>2
    <3>2. ASSUME NEW x \in {"blocked", "internal"}, Conclude(e, "FAILED", x)
          PROVE  ctx' \in [Executions -> Context]
      BY <3>2, ConcludedIsContext DEF Conclude, Statuses, Errors
    <3>3. QED
      BY <1>2, <3>1, <3>2 DEF GuardStopped, Crash
  <2>2. pc' \in [Executions -> Labels] /\ event' \in [Executions -> Events]
    BY <1>2 DEF GuardStopped, Crash, Jump, Emit, Labels, Events
  <2>3. Others(e) /\ ShapeOf(e)'
    BY <1>2 DEF GuardStopped, Crash, Conclude, Jump, Emit, Others, ShapeOf, Running
  <2>4. QED
    BY <1>2, <2>1, <2>2, <2>3, OthersKeepShape DEF GuardStopped, pool
<1>3. CASE GiveUp(e)
  <2>1. ctx' \in [Executions -> Context]
    BY <1>3, ConcludedIsContext DEF GiveUp, Conclude, Statuses, Errors
  <2>2. pc' \in [Executions -> Labels]
    BY <1>3 DEF GiveUp, Jump, Labels
  <2>3. Others(e) /\ ShapeOf(e)'
    BY <1>3 DEF GiveUp, Conclude, Jump, Others, ShapeOf, Running
  <2>4. QED
    BY <1>3, <2>1, <2>2, <2>3, OthersKeepShape DEF GiveUp, pool
<1>4. QED
  BY <1>1, <1>2, <1>3

(* The retry loop starts with its counters set. *)
LEMMA EnterLoopType ==
    ASSUME TypeInv, NEW e \in Executions, BeforeExec(e) \/ HealingLookup(e)
    PROVE  TypeInv'
<1> USE DEF TypeInv, TypeOK
<1>1. CASE BeforeExec(e)
  <2>1. pc' \in [Executions -> Labels] /\ event' \in [Executions -> Events]
    BY <1>1 DEF BeforeExec, Jump, Emit, Labels, Running, Events
  <2>2. Others(e) /\ ShapeOf(e)'
    BY <1>1 DEF BeforeExec, Jump, Emit, Others, Shape, ShapeOf, Running
  <2>3. QED
    BY <1>1, <2>1, <2>2, OthersKeepShape DEF BeforeExec, pool
<1>2. CASE HealingLookup(e)
  <2> DEFINE p == GetPlugin(e, "healing")
  <2>1. p \in Plugins \cup {None}
    BY <1>2, LookupFinds DEF HealingLookup, Running, Layers
  <2>2. MaxAttempts(p) \in Int
    BY <2>1, ConstantsAssumption DEF ConstantsAssumption, MaxAttempts
  <2>3. frame' \in [Executions -> Frame]
    <3>1. [frame[e] EXCEPT !.plugin["healing"] = p, !.attempt = 0,
                           !.max_attempts = MaxAttempts(p)] \in Frame
      BY <2>1, <2>2 DEF Frame, Layers
    <3>2. QED
      BY <1>2, <3>1 DEF HealingLookup
  <2>4. pc' \in [Executions -> Labels]
    BY <1>2 DEF HealingLookup, Jump, Labels, Running
  <2>5. Others(e)
    BY <1>2 DEF HealingLookup, Jump, Others
  <2>6. ShapeOf(e)'
    <3>1. pc[e] = "healing_lookup" /\ pc'[e] \in {"attempt", "returned"}
      BY <1>2 DEF HealingLookup, Jump
    <3>2. QED
      BY <1>2, <3>1 DEF HealingLookup, Shape, ShapeOf, Running
  <2>7. QED
    BY <1>2, <2>3, <2>4, <2>5, <2>6, OthersKeepShape DEF HealingLookup, pool
<1>3. QED
  BY <1>1, <1>2

(* A run of the tool adds a run to the log. *)
LEMMA ToolRunType ==
    ASSUME TypeInv, NEW e \in Executions, ToolReturns(e) \/ ToolRaises(e)
    PROVE  TypeInv'
<1> USE DEF TypeInv, TypeOK
<1>1. pc[e] = "attempt" /\ ctx[e].params \in Params
  BY DEF ToolReturns, ToolRaises, Jump, Shape, ShapeOf, Running
<1>2. ctx' \in [Executions -> Context]
  <2>1. \A some \in BOOLEAN : [ctx[e] EXCEPT !.final_result = some] \in Context
    BY DEF Context
  <2>2. QED
    BY <2>1 DEF ToolReturns, ToolRaises
<1>3. frame' \in [Executions -> Frame]
  <2>1. \A key \in {"result", "error"} : [frame[e] EXCEPT !.previous = @ \cup {key}] \in Frame
    BY NotedIsFrame
  <2>2. QED
    BY <2>1 DEF ToolReturns, ToolRaises, Noted
<1>4. log' \in [Executions -> Log]
  <2>1. ASSUME NEW ok \in BOOLEAN
        PROVE  [log[e] EXCEPT !.calls = Append(@, [params |-> ctx[e].params, ok |-> ok])]
                  \in Log
    <3>1. log[e] \in Log /\ log[e].calls \in Seq([params: Params, ok: BOOLEAN])
      BY DEF Log
    <3>2. [params |-> ctx[e].params, ok |-> ok] \in [params: Params, ok: BOOLEAN]
      BY <1>1
    <3>3. Append(log[e].calls, [params |-> ctx[e].params, ok |-> ok])
            \in Seq([params: Params, ok: BOOLEAN])
      BY <3>1, <3>2
    <3>4. QED
      BY <3>1, <3>3 DEF Log
  <2>2. QED
    BY <2>1 DEF ToolReturns, ToolRaises, Called
<1>5. pc' \in [Executions -> Labels] /\ event' \in [Executions -> Events]
  BY DEF ToolReturns, ToolRaises, Jump, Emit, Labels, Running, Events
<1>6. Others(e)
  BY DEF ToolReturns, ToolRaises, Jump, Emit, Noted, Called, Others
<1>7. ShapeOf(e)'
  <2>1. log'[e].asked = log[e].asked
    BY DEF ToolReturns, ToolRaises, Called, Log
  <2>2. ctx'[e].tool = ctx[e].tool /\ ctx'[e].params = ctx[e].params
    BY DEF ToolReturns, ToolRaises, Context
  <2>3. frame'[e].plugin = frame[e].plugin
    BY DEF ToolReturns, ToolRaises, Noted, Frame
  <2>4. pc'[e] \in {"reflect", "heal", "give_up"}
    BY DEF ToolReturns, ToolRaises, Jump
  <2>5. pc'[e] = "heal" => frame[e].plugin["healing"] \in Plugins
    <3>1. pc'[e] = "heal" => MayHeal(e)
      BY DEF ToolReturns, ToolRaises, Jump
    <3>2. frame[e].plugin["healing"] \in Plugins \cup {None}
      BY DEF Frame, Layers
    <3>3. QED
      BY <3>1, <3>2 DEF MayHeal
  <2>6. QED
    BY <1>1, <2>1, <2>2, <2>3, <2>4, <2>5 DEF Shape, ShapeOf, Running
<1>8. QED
  BY <1>2, <1>3, <1>4, <1>5, <1>6, <1>7, OthersKeepShape DEF ToolReturns, ToolRaises, pool

(* Healing replaces params by params only. *)
LEMMA HealType ==
    ASSUME TypeInv, NEW e \in Executions, NEW r \in PluginResult,
           Heal(e, r) \/ HealCrash(e, r)
    PROVE  TypeInv'
<1> USE DEF TypeInv, TypeOK
<1>1. pc[e] = "heal" /\ ctx[e].tool \in Tools /\ ctx[e].params \in Params
                     /\ log[e].asked \in Params
  BY DEF Heal, HealCrash, Jump, Shape, ShapeOf, Running
<1>2. FixedParams(e, r) \in Params
  BY <1>1 DEF FixedParams, Dict
<1>3. ctx' \in [Executions -> Context]
  <2> DEFINE c == [ctx[e] EXCEPT !.plugin_results["healing"] = r]
  <2>1. c \in Context
    BY RecordedIsContext DEF Layers
  <2>2. [c EXCEPT !.params = FixedParams(e, r)] \in Context
    BY <1>2, <2>1 DEF Context
  <2>3. [c EXCEPT !.status = "FAILED", !.error = "internal"] \in Context
    BY <2>1, ConcludedIsContext DEF Statuses, Errors
  <2>4. CASE Heal(e, r)
    BY <2>2, <2>4 DEF Heal, Recorded
  <2>5. CASE HealCrash(e, r)
    BY <2>3, <2>5 DEF HealCrash, Recorded
  <2>6. QED
    BY <2>4, <2>5
<1>4. frame' \in [Executions -> Frame]
  <2>1. [frame[e] EXCEPT !.previous = @ \cup {"healing"}] \in Frame
    BY NotedIsFrame DEF Layers
  <2>2. QED
    BY <2>1 DEF Heal, HealCrash, Noted
<1>5. log' \in [Executions -> Log]
  <2>1. log[e].recoveries \in Nat
    BY DEF Log
  <2>2. \A n \in Nat : [log[e] EXCEPT !.recoveries = n] \in Log
    BY DEF Log
  <2>3. \/ log' = log
        \/ log' = [log EXCEPT ![e].recoveries = log[e].recoveries]
        \/ log' = [log EXCEPT ![e].recoveries = log[e].recoveries + 1]
    BY DEF Heal, HealCrash
  <2>4. QED
    BY <2>1, <2>2, <2>3
<1>6. pc' \in [Executions -> Labels] /\ event' \in [Executions -> Events]
  BY DEF Heal, HealCrash, Jump, Emit, Labels, Running, Events
<1>7. Others(e)
  BY DEF Heal, HealCrash, Jump, Emit, Recorded, Noted, Others
<1>8. ShapeOf(e)'
  <2>1. pc'[e] \in {"retry", "give_up", "returned"}
    BY DEF Heal, HealCrash, Jump
  <2>2. log'[e].asked = log[e].asked
    BY DEF Heal, HealCrash, Log
  <2>3. pc'[e] # "returned" => ctx'[e].tool = ctx[e].tool /\ ctx'[e].params \in Params
    BY <1>2 DEF Heal, HealCrash, Jump, Recorded, Context
  <2>4. QED
    BY <1>1, <2>1, <2>2, <2>3 DEF ShapeOf, Running
<1>9. QED
  BY <1>3, <1>4, <1>5, <1>6, <1>7, <1>8, OthersKeepShape DEF Heal, HealCrash, pool

(* The next attempt is a number again. *)
LEMMA RetryType ==
    ASSUME TypeInv, NEW e \in Executions, StartRetry(e)
    PROVE  TypeInv'
<1> USE DEF TypeInv, TypeOK, StartRetry
<1>1. frame' \in [Executions -> Frame]
  <2>1. frame[e].attempt \in Nat
    BY DEF Frame
  <2>2. \A n \in Nat : [frame[e] EXCEPT !.attempt = n] \in Frame
    BY DEF Frame
  <2>3. QED
    BY <2>1, <2>2
<1>2. pc' \in [Executions -> Labels] /\ event' \in [Executions -> Events]
  BY DEF Jump, Emit, Labels, Running, Events
<1>3. Others(e) /\ ShapeOf(e)'
  BY DEF Jump, Emit, Others, Shape, ShapeOf, Running
<1>4. QED
  BY <1>1, <1>2, <1>3, OthersKeepShape DEF pool

(* Reflect and observe record plugin results. *)
LEMMA LastLayersType ==
    ASSUME TypeInv, NEW e \in Executions, Reflect(e) \/ Observe(e)
    PROVE  TypeInv'
<1> USE DEF TypeInv, TypeOK
<1>1. pc[e] \in {"reflect", "observe"}
  BY DEF Reflect, Observe
<1>2. \A l \in {"reflect", "observe"} :
         /\ GetPlugin(e, l) \in Plugins \cup {None}
         /\ GetPlugin(e, l) # None => Outcomes(GetPlugin(e, l)) \subseteq PluginResult
  BY <1>1, LookupFinds, OutcomesAreResults DEF Running, Layers
<1>3. \A l \in {"reflect", "observe"}, p \in Plugins \cup {None} :
         /\ [frame[e] EXCEPT !.plugin[l] = p] \in Frame
         /\ [frame[e] EXCEPT !.previous = @ \cup {l}, !.plugin[l] = p] \in Frame
  BY DEF Frame, Layers
<1>4. CASE Reflect(e)
  <2>1. ctx' \in [Executions -> Context]
    BY <1>2, <1>4, RecordedIsContext DEF Reflect, Recorded, Layers
  <2>2. frame' \in [Executions -> Frame]
    <3>1. \/ frame' = [frame EXCEPT ![e].plugin["reflect"] = None]
          \/ frame' = [frame EXCEPT ![e].previous = @ \cup {"reflect"},
                                    ![e].plugin["reflect"] = GetPlugin(e, "reflect")]
      BY <1>4 DEF Reflect, Noted
    <3>2. [frame[e] EXCEPT !.plugin["reflect"] = None] \in Frame
      BY <1>3
    <3>3. [frame[e] EXCEPT !.previous = @ \cup {"reflect"},
                           !.plugin["reflect"] = GetPlugin(e, "reflect")] \in Frame
      BY <1>2, <1>3
    <3>4. QED
      BY <3>1, <3>2, <3>3
  <2>3. pc' \in [Executions -> Labels] /\ event' \in [Executions -> Events]
    BY <1>4 DEF Reflect, Jump, Emit, Labels, Running, Events
  <2>4. Others(e)
    BY <1>4 DEF Reflect, Jump, Emit, Recorded, Noted, Others
  <2>5. ctx'[e].tool = ctx[e].tool /\ ctx'[e].params = ctx[e].params
    BY <1>4 DEF Reflect, Recorded, Context
  <2>6. ShapeOf(e)'
    BY <1>1, <1>4, <2>5 DEF Reflect, Jump, Shape, ShapeOf, Running
  <2>7. QED
    BY <1>4, <2>1, <2>2, <2>3, <2>4, <2>6, OthersKeepShape DEF Reflect, pool
<1>5. CASE Observe(e)
  <2>1. \A c \in Context : [c EXCEPT !.status = "COMPLETED"] \in Context
    BY DEF Context, Statuses
  <2>2. ctx' \in [Executions -> Context]
    <3>1. ASSUME NEW r \in PluginResult
          PROVE  [ctx[e] EXCEPT !.plugin_results["observe"] = r, !.status = "COMPLETED"]
                   \in Context
      BY <2>1, RecordedIsContext DEF Layers
    <3>2. \/ ctx' = [ctx EXCEPT ![e].status = "COMPLETED"]
          \/ \E r \in PluginResult :
               ctx' = [ctx EXCEPT ![e].plugin_results["observe"] = r,
                                  ![e].status = "COMPLETED"]
      BY <1>2, <1>5 DEF Observe, Recorded
    <3>3. QED
      <4>1. CASE ctx' = [ctx EXCEPT ![e].status = "COMPLETED"]
        BY <2>1, <4>1
      <4>2. ASSUME NEW r \in PluginResult,
                   ctx' = [ctx EXCEPT ![e].plugin_results["observe"] = r,
                                      ![e].status = "COMPLETED"]
            PROVE  ctx' \in [Executions -> Context]
        BY <3>1, <4>2
      <4>3. QED
        BY <3>2, <4>1, <4>2
  <2>3. frame' \in [Executions -> Frame]
    <3>1. \/ frame' = [frame EXCEPT ![e].plugin["observe"] = None]
          \/ frame' = [frame EXCEPT ![e].previous = @ \cup {"observe"},
                                    ![e].plugin["observe"] = GetPlugin(e, "observe")]
      BY <1>5 DEF Observe, Noted
    <3>2. [frame[e] EXCEPT !.plugin["observe"] = None] \in Frame
      BY <1>3
    <3>3. [frame[e] EXCEPT !.previous = @ \cup {"observe"},
                           !.plugin["observe"] = GetPlugin(e, "observe")] \in Frame
      BY <1>2, <1>3
    <3>4. QED
      BY <3>1, <3>2, <3>3
  <2>4. pc' \in [Executions -> Labels]
    BY <1>5 DEF Observe, Jump, Labels
  <2>5. Others(e)
    BY <1>5 DEF Observe, Jump, Recorded, Noted, Others
  <2>6. ShapeOf(e)'
    BY <1>5 DEF Observe, Jump, ShapeOf, Running
  <2>7. QED
    BY <1>5, <2>2, <2>3, <2>4, <2>5, <2>6, OthersKeepShape DEF Observe, pool
<1>6. QED
  BY <1>4, <1>5

(* An exception leaves the chain: the call is over, its verdict "internal".  *)
BreaksOff(e, layer) == ReturnedNoResult(e, layer) \/ LookupRaises(e, layer)

(* Where that may happen. *)
BreakLabels == {"schema", "run_schema", "guard", "run_guard", "healing_lookup", "heal",
                "reflect", "observe"}

(* What it leaves of the call. *)
LEMMA BrokenOff ==
    ASSUME TypeInv, NEW e \in Executions, NEW layer \in Layers, BreaksOff(e, layer)
    PROVE  /\ pc[e] \in BreakLabels /\ pc' = [pc EXCEPT ![e] = "returned"]
           /\ ctx' = [ctx EXCEPT ![e] = ctx'[e]] /\ ctx'[e] \in Context
           /\ frame' = [frame EXCEPT ![e] = frame'[e]] /\ frame'[e] \in Frame
           /\ ctx'[e].status = "FAILED" /\ ctx'[e].error = "internal"
           /\ ctx'[e].tool = ctx[e].tool /\ ctx'[e].params = ctx[e].params
           /\ ctx'[e].final_result = ctx[e].final_result
           /\ frame'[e].attempt = frame[e].attempt
           /\ frame'[e].max_attempts = frame[e].max_attempts
           /\ \A l \in Layers \ {layer} :
                 /\ frame'[e].plugin[l] = frame[e].plugin[l]
                 /\ ctx'[e].plugin_results[l] = ctx[e].plugin_results[l]
           /\ ctx'[e].plugin_results # ctx[e].plugin_results => pc[e] = RunLabel[layer]
           /\ layer \in {"schema", "guard"} => frame'[e].plugin[layer] = frame[e].plugin[layer]
           /\ UNCHANGED <<pool, event, log>>
<1>0. /\ ctx \in [Executions -> Context] /\ frame \in [Executions -> Frame]
      /\ ctx[e] \in Context /\ frame[e] \in Frame
  BY DEF TypeInv, TypeOK
<1>1. CASE ReturnedNoResult(e, layer)
  <2> DEFINE p == Serving(e, layer)
  <2> DEFINE c == [ctx[e] EXCEPT !.plugin_results[layer] = None]
  <2>1. pc[e] \in BreakLabels /\ pc[e] \in Running /\ pc[e] = RunLabel[layer]
    BY <1>1 DEF ReturnedNoResult, Jump, RunLabel, BreakLabels, Running, Layers
  <2>2. p \in Plugins \cup {None}
    <3>1. CASE layer \in {"reflect", "observe"}
      BY <2>1, <3>1, LookupFinds DEF Serving
    <3>2. CASE layer \notin {"reflect", "observe"}
      BY <1>0, <3>2 DEF Serving, Frame
    <3>3. QED
      BY <3>1, <3>2
  <2>3. frame' = [frame EXCEPT ![e].plugin[layer] = p]
    BY <1>1 DEF ReturnedNoResult
  <2> HIDE DEF p
  <2>4. /\ frame'[e] = [frame[e] EXCEPT !.plugin[layer] = p]
        /\ frame' = [frame EXCEPT ![e] = frame'[e]]
    BY <1>0, <2>3
  <2>5. /\ frame'[e] \in Frame /\ frame'[e].attempt = frame[e].attempt
        /\ frame'[e].max_attempts = frame[e].max_attempts
        /\ \A l \in Layers \ {layer} : frame'[e].plugin[l] = frame[e].plugin[l]
    <3> DEFINE fr == [frame[e] EXCEPT !.plugin[layer] = p]
    <3>1. fr \in Frame
      BY <1>0, <2>2 DEF Frame
    <3>2. fr.attempt = frame[e].attempt /\ fr.max_attempts = frame[e].max_attempts
      BY <1>0 DEF Frame
    <3>3. fr.plugin = [frame[e].plugin EXCEPT ![layer] = p]
      BY <1>0 DEF Frame
    <3>4. \A l \in Layers \ {layer} : fr.plugin[l] = frame[e].plugin[l]
      BY <1>0, <3>3 DEF Frame
    <3>5. frame'[e] = fr
      BY <2>4
    <3> HIDE DEF fr
    <3>6. QED
      BY <3>1, <3>2, <3>4, <3>5
  <2>6. layer \in {"schema", "guard"} => frame'[e].plugin[layer] = frame[e].plugin[layer]
    <3>1. frame'[e].plugin[layer] = p
      BY <1>0, <2>4 DEF Frame
    <3>2. layer \in {"schema", "guard"} => p = frame[e].plugin[layer]
      BY DEF p, Serving
    <3>3. QED
      BY <3>1, <3>2
  <2>7. c \in Context /\ c.tool = ctx[e].tool /\ c.params = ctx[e].params
        /\ c.final_result = ctx[e].final_result
        /\ \A l \in Layers \ {layer} : c.plugin_results[l] = ctx[e].plugin_results[l]
    BY <1>0 DEF Context
  <2>8. ctx' = [ctx EXCEPT ![e] = [c EXCEPT !.status = "FAILED", !.error = "internal"]]
    BY <1>0, <1>1 DEF ReturnedNoResult, Recorded
  <2> HIDE DEF c
  <2>9. /\ ctx'[e] = [c EXCEPT !.status = "FAILED", !.error = "internal"]
        /\ ctx' = [ctx EXCEPT ![e] = ctx'[e]]
    BY <1>0, <2>8
  <2>10. /\ ctx'[e] \in Context /\ ctx'[e].status = "FAILED" /\ ctx'[e].error = "internal"
         /\ ctx'[e].tool = ctx[e].tool /\ ctx'[e].params = ctx[e].params
         /\ ctx'[e].final_result = ctx[e].final_result
         /\ ctx'[e].plugin_results = c.plugin_results
    BY <2>7, <2>9 DEF Context, Statuses, Errors
  <2>11. pc' = [pc EXCEPT ![e] = "returned"] /\ UNCHANGED <<pool, event, log>>
    BY <1>1 DEF ReturnedNoResult, Jump
  <2>12. QED
    BY <2>1, <2>4, <2>5, <2>6, <2>7, <2>9, <2>10, <2>11
<1>2. CASE LookupRaises(e, layer)
  <2>1. /\ pc[e] \in BreakLabels /\ pc' = [pc EXCEPT ![e] = "returned"]
        /\ frame' = frame /\ UNCHANGED <<pool, event, log>>
    BY <1>2 DEF LookupRaises, Crash, Jump, LookupLabel, BreakLabels, Layers
  <2>2. ctx' = [ctx EXCEPT ![e] = [ctx[e] EXCEPT !.status = "FAILED", !.error = "internal"]]
    BY <1>0, <1>2 DEF LookupRaises, Crash, Conclude
  <2>3. /\ ctx'[e] = [ctx[e] EXCEPT !.status = "FAILED", !.error = "internal"]
        /\ ctx' = [ctx EXCEPT ![e] = ctx'[e]]
    BY <1>0, <2>2
  <2>4. /\ ctx'[e] \in Context /\ ctx'[e].status = "FAILED" /\ ctx'[e].error = "internal"
        /\ ctx'[e].tool = ctx[e].tool /\ ctx'[e].params = ctx[e].params
        /\ ctx'[e].final_result = ctx[e].final_result
        /\ ctx'[e].plugin_results = ctx[e].plugin_results
    BY <1>0, <2>3 DEF Context, Statuses, Errors
  <2>5. QED
    BY <1>0, <2>1, <2>3, <2>4
<1>3. QED
  BY <1>1, <1>2 DEF BreaksOff

(* So it keeps the types. *)
LEMMA BrokenOffType ==
    ASSUME TypeInv, NEW e \in Executions, NEW layer \in Layers, BreaksOff(e, layer)
    PROVE  TypeInv' /\ Others(e)
<1> USE DEF TypeInv, TypeOK
<1>1. /\ pc' = [pc EXCEPT ![e] = "returned"] /\ UNCHANGED <<pool, event, log>>
      /\ ctx' = [ctx EXCEPT ![e] = ctx'[e]] /\ ctx'[e] \in Context
      /\ frame' = [frame EXCEPT ![e] = frame'[e]] /\ frame'[e] \in Frame
  BY BrokenOff
<1>2. ctx' \in [Executions -> Context] /\ frame' \in [Executions -> Frame]
  BY <1>1
<1>3. pc' \in [Executions -> Labels]
  BY <1>1 DEF Labels
<1>4. Others(e)
  BY <1>1 DEF Others
<1>5. ShapeOf(e)'
  BY <1>1 DEF ShapeOf, Running
<1>6. QED
  BY <1>1, <1>2, <1>3, <1>4, <1>5, OthersKeepShape DEF pool

(* What may run next is found by cases on Advance. *)
LEMMA PluginRuns ==
    ASSUME TypeInv, NEW e \in Executions, RunPlugin(e)
    PROVE  \E r \in PluginResult : RunSchema(e, r) \/ RunGuard(e, r)
                                     \/ Heal(e, r) \/ HealCrash(e, r)
<1>1. /\ pc[e] = "run_schema" => Outcomes(frame[e].plugin["schema"]) \subseteq PluginResult
      /\ pc[e] = "run_guard" => Outcomes(frame[e].plugin["guard"]) \subseteq PluginResult
      /\ pc[e] = "heal" => Outcomes(frame[e].plugin["healing"]) \subseteq PluginResult
  BY OutcomesAreResults DEF TypeInv, Shape, ShapeOf
<1>2. QED
  BY <1>1 DEF RunPlugin

(* Every step keeps types and shape. *)
LEMMA TypeStep == TypeInv /\ [Next]_vars => TypeInv'
<1> SUFFICES ASSUME TypeInv, [Next]_vars PROVE TypeInv'
  OBVIOUS
<1>1. CASE Reconfigure
  BY <1>1 DEF TypeInv, TypeOK, Shape, ShapeOf, Reconfigure
<1>2. ASSUME NEW e \in Executions, Call(e) PROVE TypeInv'
  BY <1>2, CallType
<1>3. ASSUME NEW e \in Executions, Advance(e) PROVE TypeInv'
  <2>1. CASE RunPlugin(e)
    BY <2>1, PluginRuns, RunSchemaType, RunGuardType, HealType
  <2>2. ASSUME NEW layer \in Layers, ReturnedNoResult(e, layer) PROVE TypeInv'
    BY <2>2, BrokenOffType DEF BreaksOff
  <2>3. QED
    BY <1>3, <2>1, <2>2, LookupType, StoppedType, EnterLoopType, ToolRunType, RetryType,
       LastLayersType DEF Advance
<1>4. ASSUME NEW e \in Executions, NEW layer \in Layers, LookupRaises(e, layer)
      PROVE  TypeInv'
  BY <1>4, BrokenOffType DEF BreaksOff
<1>5. CASE UNCHANGED vars
  BY <1>5 DEF TypeInv, TypeOK, Shape, ShapeOf, vars
<1>6. QED
  BY <1>1, <1>2, <1>3, <1>4, <1>5 DEF Next

(* Types and shape hold in every reachable state of the calls. *)
THEOREM TypeInvariance == Spec => []TypeInv
  BY InitType, TypeStep, PTL DEF Spec

(* Every variable keeps its type, whatever plugins return, whichever tools   *)
(* raise and however the pool changes under the calls.                       *)
THEOREM TypeCorrect == Spec => []TypeOK
<1>1. TypeInv => TypeOK
  BY DEF TypeInv
<1>2. QED
  BY <1>1, TypeInvariance, PTL

-----------------------------------------------------------------------------
(* Admission *)

BeforeTool == {"schema", "run_schema", "schema_failed", "guard", "run_guard",
               "guard_stopped", "before_exec", "healing_lookup"}
AfterGuard == {"before_exec", "healing_lookup", "attempt", "heal", "retry", "give_up",
               "reflect", "observe"}
AfterSchema == AfterGuard \cup {"guard", "run_guard", "guard_stopped"}

(* Admission is not inductive: that both layers let the call through has to  *)
(* be carried from the moment they did to the moment the tool runs, and that *)
(* the params are the caller's until then.                                   *)
AdmissionOf(e) ==
    /\ pc[e] \in AfterSchema => LetThrough(e, "schema")
    /\ pc[e] \in AfterGuard => LetThrough(e, "guard")
    /\ pc[e] \in BeforeTool \cup {"idle", "raised"} => log[e].calls = <<>>
    /\ pc[e] \in {"heal", "retry", "give_up"} => log[e].calls # <<>>
    /\ pc[e] \in Running /\ log[e].calls = <<>> => ctx[e].params = log[e].asked
    /\ log[e].calls # <<>> => /\ LetThrough(e, "schema") /\ LetThrough(e, "guard")
                              /\ log[e].calls[1].params = log[e].asked

AdmissionInv == \A e \in Executions : AdmissionOf(e)

(* A step of one call. *)
StepOf(e) == Call(e) \/ Advance(e) \/ \E layer \in Layers : LookupRaises(e, layer)

(* Every step is taken by one call and leaves the others alone. *)
LEMMA OthersStay ==
    ASSUME TypeInv, NEW e \in Executions, StepOf(e)
    PROVE  Others(e)
<1> USE DEF TypeInv, TypeOK
<1>1. CASE Call(e)
  BY <1>1 DEF Call, Execute, ToolNotFound, Jump, Others
<1>2. CASE SchemaLookup(e) \/ GuardLookup(e)
  BY <1>2 DEF SchemaLookup, GuardLookup, Lookup, Jump, Emit, Others
<1>3. CASE SchemaFailed(e) \/ GuardStopped(e) \/ GiveUp(e)
  BY <1>3 DEF SchemaFailed, GuardStopped, GiveUp, Crash, Conclude, Jump, Emit, Others
<1>4. CASE BeforeExec(e) \/ HealingLookup(e)
  BY <1>4 DEF BeforeExec, HealingLookup, Jump, Emit, Others
<1>5. CASE ToolReturns(e) \/ ToolRaises(e) \/ StartRetry(e)
  BY <1>5 DEF ToolReturns, ToolRaises, StartRetry, Called, Noted, Jump, Emit, Others
<1>6. ASSUME NEW r \in PluginResult,
             RunSchema(e, r) \/ RunGuard(e, r) \/ Heal(e, r) \/ HealCrash(e, r)
      PROVE  Others(e)
  BY <1>6 DEF RunSchema, RunGuard, Heal, HealCrash, Recorded, Noted, Jump, Emit, Others
<1>7. CASE Reflect(e) \/ Observe(e)
  BY <1>7 DEF Reflect, Observe, Recorded, Noted, Jump, Emit, Others
<1>8. ASSUME NEW layer \in Layers, BreaksOff(e, layer) PROVE Others(e)
  BY <1>8, BrokenOffType
<1>9. QED
  BY <1>1, <1>2, <1>3, <1>4, <1>5, <1>6, <1>7, <1>8, PluginRuns
  DEF StepOf, Advance, BreaksOff

(* A step inside a call neither begins nor abandons it, and keeps its tool. *)
LEMMA StaysInside ==
    ASSUME TypeInv, NEW e \in Executions, Advance(e)
    PROVE  /\ pc[e] \in Running
           /\ pc'[e] \in Labels \ {"idle", "raised"}
           /\ ctx'[e].tool = ctx[e].tool
<1>0. /\ pc \in [Executions -> Labels] /\ ctx \in [Executions -> Context]
      /\ ctx[e] \in Context
  BY DEF TypeInv, TypeOK
<1> USE DEF Jump, Labels, Running
<1>1. CASE SchemaLookup(e) \/ GuardLookup(e) \/ BeforeExec(e) \/ HealingLookup(e)
             \/ StartRetry(e) \/ ToolRaises(e)
  BY <1>0, <1>1 DEF SchemaLookup, GuardLookup, Lookup, BeforeExec, HealingLookup, StartRetry,
     ToolRaises
<1>2. CASE SchemaFailed(e) \/ GuardStopped(e) \/ GiveUp(e) \/ ToolReturns(e)
  <2>1. \/ pc[e] \in {"schema_failed", "guard_stopped", "give_up"} /\ pc'[e] = "returned"
        \/ pc[e] = "attempt" /\ pc'[e] = "reflect"
    BY <1>0, <1>2 DEF SchemaFailed, GuardStopped, GiveUp, ToolReturns
  <2>2. \/ ctx' = ctx
        \/ \E s, x : ctx' = [ctx EXCEPT ![e].status = s, ![e].error = x]
        \/ \E s, x : ctx' = [ctx EXCEPT ![e].status = s, ![e].approval_id = x]
        \/ \E some \in BOOLEAN : ctx' = [ctx EXCEPT ![e].final_result = some]
    BY <1>2 DEF SchemaFailed, GuardStopped, GiveUp, ToolReturns, Crash, Conclude
  <2>3. ctx'[e].tool = ctx[e].tool
    BY <1>0, <2>2 DEF Context
  <2>4. QED
    BY <2>1, <2>3
<1>3. ASSUME NEW r \in PluginResult,
             RunSchema(e, r) \/ RunGuard(e, r) \/ Heal(e, r) \/ HealCrash(e, r)
      PROVE  /\ pc[e] \in Running /\ pc'[e] \in Labels \ {"idle", "raised"}
             /\ ctx'[e].tool = ctx[e].tool
  BY <1>0, <1>3 DEF RunSchema, RunGuard, Heal, HealCrash, Recorded, Context
<1>4. CASE Reflect(e)
  BY <1>0, <1>4 DEF Reflect, Recorded, Context
<1>5. CASE Observe(e)
  <2>1. \/ ctx' = [ctx EXCEPT ![e].status = "COMPLETED"]
        \/ \E r \in Outcomes(GetPlugin(e, "observe")) :
              ctx' = [Recorded(e, "observe", r) EXCEPT ![e].status = "COMPLETED"]
    BY <1>5 DEF Observe
  <2>2. ctx'[e].tool = ctx[e].tool
    BY <1>0, <2>1 DEF Recorded, Context
  <2>3. QED
    BY <1>0, <1>5, <2>2 DEF Observe
<1>6. ASSUME NEW layer \in Layers, ReturnedNoResult(e, layer)
      PROVE  /\ pc[e] \in Running /\ pc'[e] \in Labels \ {"idle", "raised"}
             /\ ctx'[e].tool = ctx[e].tool
  <2>1. /\ pc[e] \in BreakLabels /\ pc' = [pc EXCEPT ![e] = "returned"]
        /\ ctx'[e].tool = ctx[e].tool
    BY <1>6, BrokenOff DEF BreaksOff
  <2>2. QED
    BY <1>0, <2>1 DEF BreakLabels
<1>7. QED
  BY <1>1, <1>2, <1>3, <1>4, <1>5, <1>6, PluginRuns DEF Advance

(* Before any call no tool ran. *)
LEMMA InitAdmission == Init => AdmissionInv
  BY DEF Init, AdmissionInv, AdmissionOf, NewLog, BeforeTool, AfterGuard, AfterSchema, Running

(* What the admission layers left behind stays as it is. *)
VerdictsStand(e) ==
    /\ frame'[e].plugin["schema"] = frame[e].plugin["schema"]
    /\ frame'[e].plugin["guard"] = frame[e].plugin["guard"]
    /\ ctx'[e].plugin_results["schema"] = ctx[e].plugin_results["schema"]
    /\ ctx'[e].plugin_results["guard"] = ctx[e].plugin_results["guard"]

(* A layer that let the call through stays noted as such. *)
LEMMA LetThroughStands ==
    ASSUME NEW e \in Executions, VerdictsStand(e)
    PROVE  /\ LetThrough(e, "schema")' <=> LetThrough(e, "schema")
           /\ LetThrough(e, "guard")' <=> LetThrough(e, "guard")
  BY DEF VerdictsStand, LetThrough

(* A call that breaks off does so with the admission it had. *)
LEMMA AdmissionBrokenOff ==
    ASSUME TypeInv, AdmissionInv, NEW e \in Executions, NEW layer \in Layers,
           BreaksOff(e, layer)
    PROVE  AdmissionOf(e)'
<1>1. /\ pc[e] \in BreakLabels /\ pc' = [pc EXCEPT ![e] = "returned"] /\ log' = log
      /\ ctx'[e].params = ctx[e].params
      /\ \A l \in Layers \ {layer} :
            /\ frame'[e].plugin[l] = frame[e].plugin[l]
            /\ ctx'[e].plugin_results[l] = ctx[e].plugin_results[l]
      /\ ctx'[e].plugin_results # ctx[e].plugin_results => pc[e] = RunLabel[layer]
      /\ layer \in {"schema", "guard"} => frame'[e].plugin[layer] = frame[e].plugin[layer]
  BY BrokenOff
<1>2. AdmissionOf(e) /\ pc'[e] = "returned"
  BY <1>1 DEF AdmissionInv, TypeInv, TypeOK
<1>3. CASE VerdictsStand(e)
  BY <1>1, <1>2, <1>3, LetThroughStands
  DEF AdmissionOf, BeforeTool, AfterSchema, AfterGuard, Running
<1>4. CASE ~VerdictsStand(e)
  <2>1. layer \in {"schema", "guard"}
    BY <1>1, <1>4 DEF VerdictsStand, Layers
  <2>2. pc[e] \in BeforeTool
    BY <1>1, <1>4, <2>1 DEF VerdictsStand, RunLabel, BeforeTool, Layers
  <2>3. log'[e].calls = <<>>
    BY <1>1, <1>2, <2>2 DEF AdmissionOf
  <2>4. QED
    BY <1>2, <2>3 DEF AdmissionOf, BeforeTool, AfterSchema, AfterGuard, Running
<1>5. QED
  BY <1>3, <1>4

(* A step inside a call keeps its part of AdmissionInv. *)
LEMMA AdmissionAdvance ==
    ASSUME TypeInv, AdmissionInv, NEW e \in Executions, Advance(e)
    PROVE  AdmissionOf(e)'
<1> USE DEF TypeInv, TypeOK
<1>0. ctx[e] \in Context /\ frame[e] \in Frame /\ log[e] \in Log /\ AdmissionOf(e)
  BY DEF AdmissionInv
<1> USE DEF BeforeTool, AfterGuard, AfterSchema, Running
<1>1. CASE SchemaLookup(e)
  BY <1>0, <1>1 DEF SchemaLookup, Lookup, Jump, AdmissionOf, LetThrough, Frame, Layers
<1>2. CASE GuardLookup(e)
  BY <1>0, <1>2 DEF GuardLookup, Lookup, Jump, AdmissionOf, LetThrough, Frame, Layers
<1>3. ASSUME NEW r \in PluginResult, RunSchema(e, r) PROVE AdmissionOf(e)'
  BY <1>0, <1>3, NoneAssumption
  DEF NoneAssumption, RunSchema, Recorded, Noted, Jump, Admits, AdmissionOf, LetThrough,
      Context, Frame, Layers
<1>4. ASSUME NEW r \in PluginResult, RunGuard(e, r) PROVE AdmissionOf(e)'
  BY <1>0, <1>4, NoneAssumption
  DEF NoneAssumption, RunGuard, Recorded, Noted, Jump, Admits, AdmissionOf, LetThrough,
      Context, Frame, Layers
<1>5. CASE SchemaFailed(e) \/ GuardStopped(e) \/ GiveUp(e)
  BY <1>0, <1>5 DEF SchemaFailed, GuardStopped, GiveUp, Crash, Conclude, Jump, AdmissionOf,
     LetThrough, Context
<1>6. CASE BeforeExec(e) \/ HealingLookup(e)
  BY <1>0, <1>6 DEF BeforeExec, HealingLookup, Jump, AdmissionOf, LetThrough, Frame, Layers
<1>7. CASE ToolReturns(e) \/ ToolRaises(e)
  <2>1. pc[e] = "attempt" /\ pc'[e] \in {"reflect", "heal", "give_up"}
    BY <1>7 DEF ToolReturns, ToolRaises, Jump
  <2>2. VerdictsStand(e) /\ ctx'[e].params = ctx[e].params
    <3>1. CASE ToolReturns(e)
      <4>1. PICK some \in BOOLEAN : ctx' = [ctx EXCEPT ![e].final_result = some]
        BY <3>1 DEF ToolReturns
      <4>2. QED
        BY <1>0, <3>1, <4>1 DEF ToolReturns, Noted, VerdictsStand, Context, Frame
    <3>2. CASE ToolRaises(e)
      BY <1>0, <3>2 DEF ToolRaises, Noted, VerdictsStand, Frame
    <3>3. QED
      BY <1>7, <3>1, <3>2
  <2>3. \E ok \in BOOLEAN : log'[e] = [log[e] EXCEPT
            !.calls = Append(@, [params |-> ctx[e].params, ok |-> ok])]
    BY <1>0, <1>7 DEF ToolReturns, ToolRaises, Called
  <2>4. /\ log'[e].asked = log[e].asked /\ log'[e].calls # <<>>
        /\ log'[e].calls[1].params = IF log[e].calls = <<>> THEN ctx[e].params
                                                           ELSE log[e].calls[1].params
    <3>1. PICK ok \in BOOLEAN : log'[e] = [log[e] EXCEPT
              !.calls = Append(log[e].calls, [params |-> ctx[e].params, ok |-> ok])]
      BY <2>3
    <3>2. /\ log'[e].asked = log[e].asked
          /\ log'[e].calls = Append(log[e].calls, [params |-> ctx[e].params, ok |-> ok])
      BY <1>0, <3>1 DEF Log
    <3>3. log[e].calls \in Seq([params: Params, ok: BOOLEAN])
      BY <1>0 DEF Log
    <3>4. QED
      BY <3>2, <3>3
  <2>5. log'[e].calls[1].params = log[e].asked
    BY <1>0, <2>1, <2>4 DEF AdmissionOf
  <2>6. QED
    BY <1>0, <2>1, <2>2, <2>4, <2>5, LetThroughStands DEF AdmissionOf
<1>8. ASSUME NEW r \in PluginResult, Heal(e, r) \/ HealCrash(e, r) PROVE AdmissionOf(e)'
  <2>1. pc[e] = "heal" /\ pc'[e] \in {"retry", "give_up", "returned"}
    BY <1>8 DEF Heal, HealCrash, Jump
  <2>2. VerdictsStand(e)
    <3>1. frame'[e] = [frame[e] EXCEPT !.previous = @ \cup {"healing"}]
      BY <1>8 DEF Heal, HealCrash, Noted
    <3>2. ctx'[e].plugin_results = [ctx[e].plugin_results EXCEPT !["healing"] = r]
      <4>1. CASE Heal(e, r)
        BY <1>0, <4>1 DEF Heal, Recorded, Context
      <4>2. CASE HealCrash(e, r)
        BY <1>0, <4>2 DEF HealCrash, Recorded, Context
      <4>3. QED
        BY <1>8, <4>1, <4>2
    <3>3. QED
      BY <1>0, <3>1, <3>2 DEF VerdictsStand, Context, Frame, Layers
  <2>3. log'[e].asked = log[e].asked /\ log'[e].calls = log[e].calls
    BY <1>0, <1>8 DEF Heal, HealCrash, Log
  <2>4. QED
    BY <1>0, <2>1, <2>2, <2>3, LetThroughStands DEF AdmissionOf
<1>9. CASE StartRetry(e)
  BY <1>0, <1>9 DEF StartRetry, Jump, AdmissionOf, LetThrough, Frame
<1>10. CASE Reflect(e) \/ Observe(e)
  <2>1. pc[e] \in {"reflect", "observe"} /\ pc'[e] \in {"observe", "returned"}
    BY <1>10 DEF Reflect, Observe, Jump
  <2>2. VerdictsStand(e) /\ ctx'[e].params = ctx[e].params
    <3>1. CASE Reflect(e)
      BY <1>0, <3>1 DEF Reflect, Recorded, Noted, VerdictsStand, Context, Frame, Layers
    <3>2. CASE Observe(e)
      <4>1. /\ frame'[e].plugin["schema"] = frame[e].plugin["schema"]
            /\ frame'[e].plugin["guard"] = frame[e].plugin["guard"]
        BY <1>0, <3>2 DEF Observe, Noted, Frame, Layers
      <4>2. /\ \/ ctx'[e].plugin_results = ctx[e].plugin_results
               \/ \E r \in Outcomes(GetPlugin(e, "observe")) : ctx'[e].plugin_results =
                      [ctx[e].plugin_results EXCEPT !["observe"] = r]
            /\ ctx'[e].params = ctx[e].params
        BY <1>0, <3>2 DEF Observe, Recorded, Context
      <4>3. QED
        BY <1>0, <4>1, <4>2 DEF VerdictsStand, Context, Layers
    <3>3. QED
      BY <1>10, <3>1, <3>2
  <2>3. log'[e] = log[e]
    BY <1>0, <1>10 DEF Reflect, Observe
  <2>4. QED
    BY <1>0, <2>1, <2>2, <2>3, LetThroughStands DEF AdmissionOf
<1>11. ASSUME NEW layer \in Layers, ReturnedNoResult(e, layer) PROVE AdmissionOf(e)'
  BY <1>11, AdmissionBrokenOff DEF BreaksOff
<1>12. QED
  BY <1>1, <1>2, <1>3, <1>4, <1>5, <1>6, <1>7, <1>8, <1>9, <1>10, <1>11, PluginRuns
  DEF Advance

(* Once the schema plugin is through, what it was asked and what it said     *)
(* stay as they are for the rest of the call.                                *)
SchemaWordStays(e) ==
    /\ frame'[e].plugin["schema"] = frame[e].plugin["schema"]
    /\ ctx'[e].plugin_results["schema"] = ctx[e].plugin_results["schema"]
    /\ ctx'[e].tool = ctx[e].tool /\ log'[e].asked = log[e].asked
    /\ pc'[e] # "schema"

(* Only the lookup and the run of the schema plugin touch it.                *)
LEMMA SchemaSettled ==
    ASSUME TypeInv, NEW e \in Executions, Advance(e), pc[e] \notin {"schema", "run_schema"}
    PROVE  SchemaWordStays(e)
<1> USE DEF TypeInv, TypeOK
<1>0. ctx[e] \in Context /\ frame[e] \in Frame /\ log[e] \in Log
  OBVIOUS
<1>1. CASE GuardLookup(e)
  BY <1>0, <1>1 DEF GuardLookup, Lookup, Jump, SchemaWordStays, Frame, Layers
<1>2. ASSUME NEW r \in PluginResult, RunGuard(e, r) PROVE SchemaWordStays(e)
  BY <1>0, <1>2 DEF RunGuard, Recorded, Noted, Jump, Admits, SchemaWordStays, Context, Frame,
     Layers
<1>3. CASE SchemaFailed(e) \/ GuardStopped(e) \/ GiveUp(e)
  BY <1>0, <1>3 DEF SchemaFailed, GuardStopped, GiveUp, Crash, Conclude, Jump,
     SchemaWordStays, Context
<1>4. CASE BeforeExec(e) \/ HealingLookup(e)
  BY <1>0, <1>4 DEF BeforeExec, HealingLookup, Jump, SchemaWordStays, Frame, Layers
<1>5. CASE ToolReturns(e)
  <2>1. PICK some \in BOOLEAN : ctx' = [ctx EXCEPT ![e].final_result = some]
    BY <1>5 DEF ToolReturns
  <2>2. QED
    BY <1>0, <1>5, <2>1 DEF ToolReturns, Noted, Called, Jump, SchemaWordStays, Context, Frame,
       Log
<1>6. CASE ToolRaises(e)
  BY <1>0, <1>6 DEF ToolRaises, Noted, Called, Jump, SchemaWordStays, Frame, Log
<1>7. ASSUME NEW r \in PluginResult, Heal(e, r) \/ HealCrash(e, r) PROVE SchemaWordStays(e)
  <2>1. frame'[e] = [frame[e] EXCEPT !.previous = @ \cup {"healing"}] /\ pc'[e] # "schema"
    BY <1>7 DEF Heal, HealCrash, Noted, Jump
  <2>2. /\ ctx'[e].plugin_results = [ctx[e].plugin_results EXCEPT !["healing"] = r]
        /\ ctx'[e].tool = ctx[e].tool
    <3>1. CASE Heal(e, r)
      BY <1>0, <3>1 DEF Heal, Recorded, Context
    <3>2. CASE HealCrash(e, r)
      BY <1>0, <3>2 DEF HealCrash, Recorded, Context
    <3>3. QED
      BY <1>7, <3>1, <3>2
  <2>3. log'[e].asked = log[e].asked
    BY <1>0, <1>7 DEF Heal, HealCrash, Log
  <2>4. QED
    BY <1>0, <2>1, <2>2, <2>3 DEF SchemaWordStays, Context, Frame, Layers
<1>8. CASE StartRetry(e)
  BY <1>0, <1>8 DEF StartRetry, Jump, SchemaWordStays, Frame
<1>9. CASE Reflect(e)
  BY <1>0, <1>9 DEF Reflect, Recorded, Noted, Jump, SchemaWordStays, Context, Frame, Layers
<1>10. CASE Observe(e)
  <2>1. /\ frame'[e].plugin["schema"] = frame[e].plugin["schema"] /\ log' = log
        /\ pc'[e] # "schema"
    BY <1>0, <1>10 DEF Observe, Noted, Jump, Frame, Layers
  <2>2. /\ \/ ctx'[e].plugin_results = ctx[e].plugin_results
           \/ \E r \in Outcomes(GetPlugin(e, "observe")) : ctx'[e].plugin_results =
                  [ctx[e].plugin_results EXCEPT !["observe"] = r]
        /\ ctx'[e].tool = ctx[e].tool
    <3>1. CASE ctx' = [ctx EXCEPT ![e].status = "COMPLETED"]
      BY <1>0, <3>1 DEF Context
    <3>2. ASSUME NEW r \in Outcomes(GetPlugin(e, "observe")),
                 ctx' = [Recorded(e, "observe", r) EXCEPT ![e].status = "COMPLETED"]
          PROVE  /\ ctx'[e].plugin_results = [ctx[e].plugin_results EXCEPT !["observe"] = r]
                 /\ ctx'[e].tool = ctx[e].tool
      BY <1>0, <3>2 DEF Recorded, Context
    <3>3. \/ ctx' = [ctx EXCEPT ![e].status = "COMPLETED"]
          \/ \E r \in Outcomes(GetPlugin(e, "observe")) :
                ctx' = [Recorded(e, "observe", r) EXCEPT ![e].status = "COMPLETED"]
      BY <1>10 DEF Observe
    <3>4. QED
      BY <3>1, <3>2, <3>3
  <2>3. QED
    BY <1>0, <2>1, <2>2 DEF SchemaWordStays, Context, Layers
<1>11. ASSUME NEW layer \in Layers, ReturnedNoResult(e, layer) PROVE SchemaWordStays(e)
  <2>1. layer # "schema"
    BY <1>11 DEF ReturnedNoResult, Jump, RunLabel
  <2>2. /\ pc' = [pc EXCEPT ![e] = "returned"] /\ log' = log
        /\ ctx'[e].tool = ctx[e].tool
        /\ frame'[e].plugin["schema"] = frame[e].plugin["schema"]
        /\ ctx'[e].plugin_results["schema"] = ctx[e].plugin_results["schema"]
    BY <1>11, <2>1, BrokenOff DEF BreaksOff, Layers
  <2>3. QED
    BY <2>2 DEF SchemaWordStays
<1>12. QED
  <2>1. ~SchemaLookup(e) /\ \A r : ~RunSchema(e, r)
    BY DEF SchemaLookup, Lookup, RunSchema, Jump
  <2>2. QED
    BY <1>1, <1>2, <1>3, <1>4, <1>5, <1>6, <1>7, <1>8, <1>9, <1>10, <1>11, <2>1, PluginRuns
    DEF Advance

(* A new call has its part of AdmissionInv. *)
LEMMA AdmissionCall ==
    ASSUME TypeInv, AdmissionInv, NEW e \in Executions, Call(e)
    PROVE  AdmissionOf(e)'
<1>0. /\ ctx[e] \in Context /\ frame[e] \in Frame /\ log[e] \in Log /\ AdmissionOf(e)
      /\ pc \in [Executions -> Labels] /\ ctx \in [Executions -> Context]
      /\ log \in [Executions -> Log]
  BY DEF AdmissionInv, TypeInv, TypeOK
<1>1. ASSUME NEW t \in Tools, NEW p \in Params, Execute(e, t, p) PROVE AdmissionOf(e)'
  BY <1>0, <1>1 DEF Execute, Jump, NewContext, NewLog, AdmissionOf, BeforeTool, AfterGuard,
     AfterSchema, Running
<1>2. ASSUME NEW t \in Tools, ToolNotFound(e, t) PROVE AdmissionOf(e)'
  BY <1>0, <1>2 DEF ToolNotFound, Jump, AdmissionOf, LetThrough, BeforeTool, AfterGuard,
     AfterSchema, Running
<1>3. QED
  BY <1>1, <1>2 DEF Call

(* Every step keeps AdmissionInv. *)
LEMMA AdmissionStep == TypeInv /\ AdmissionInv /\ [Next]_vars => AdmissionInv'
<1> SUFFICES ASSUME TypeInv, AdmissionInv, [Next]_vars PROVE AdmissionInv'
  OBVIOUS
<1>1. CASE Reconfigure \/ UNCHANGED vars
  BY <1>1 DEF Reconfigure, vars, AdmissionInv, AdmissionOf, LetThrough
<1>2. ASSUME NEW e \in Executions, StepOf(e) PROVE AdmissionInv'
  <2>1. AdmissionOf(e)'
    BY <1>2, AdmissionCall, AdmissionAdvance, AdmissionBrokenOff DEF StepOf, BreaksOff
  <2>2. ASSUME NEW f \in Executions, f # e PROVE AdmissionOf(f)'
    BY <1>2, <2>2, OthersStay DEF Others, AdmissionInv, AdmissionOf, LetThrough
  <2>3. QED
    BY <2>1, <2>2 DEF AdmissionInv
<1>3. QED
  BY <1>1, <1>2 DEF Next, StepOf

(* No tool runs in a call that its schema or guard plugin did not let        *)
(* through, for any plugins, any chains and any reconfiguration on the way.  *)
THEOREM AdmissionHolds == Spec => []Admission
<1>1. TypeInv /\ AdmissionInv => Admission
  BY DEF AdmissionInv, AdmissionOf, Admission
<1>2. QED
  BY <1>1, InitAdmission, AdmissionStep, TypeInvariance, PTL DEF Spec

-----------------------------------------------------------------------------
(* What a call tells its caller: how often the tool ran, and what the status *)
(* says of it.                                                               *)

Runs(e) == Len(log[e].calls)

OnlyTheLastReturned(e) == \A i \in 1 .. Runs(e) - 1 : ~log[e].calls[i].ok

(* RetryBound and Verdict are not inductive: the runs and recoveries have to *)
(* be counted against `attempt` at every label of the retry loop.            *)
ProgressOf(e) ==
    /\ pc[e] \in {"idle", "raised"} => ctx[e].status = "NEW"
    /\ pc[e] \in Running => ctx[e].status = "RUNNING"
    /\ pc[e] \in BeforeTool \cup {"idle", "raised"} => /\ log[e].calls = <<>>
                                                       /\ log[e].recoveries = 0
    /\ ctx[e].final_result => Succeeded(e)
    /\ OnlyTheLastReturned(e)
    /\ Runs(e) <= log[e].recoveries + 1
    /\ log[e].calls # <<>> => Runs(e) <= frame[e].max_attempts
    /\ pc[e] \in {"attempt", "heal", "retry", "give_up"} => ~Succeeded(e)
    /\ pc[e] = "attempt" => /\ Runs(e) = frame[e].attempt
                            /\ log[e].recoveries = frame[e].attempt
                            /\ frame[e].attempt < frame[e].max_attempts
    /\ pc[e] = "heal" => /\ Runs(e) = frame[e].attempt + 1
                         /\ log[e].recoveries = frame[e].attempt
                         /\ frame[e].attempt + 1 < frame[e].max_attempts
    /\ pc[e] = "retry" => /\ Runs(e) = frame[e].attempt + 1
                          /\ log[e].recoveries = frame[e].attempt + 1
                          /\ frame[e].attempt + 1 < frame[e].max_attempts
    /\ pc[e] \in {"reflect", "observe"} => Succeeded(e)
    /\ pc[e] = "returned" => /\ ctx[e].status = "COMPLETED" => Succeeded(e)
                             /\ Succeeded(e) =>
                                  \/ ctx[e].status = "COMPLETED"
                                  \/ ctx[e].status = "FAILED" /\ ctx[e].error = "internal"
                             /\ ctx[e].status = "PENDING_APPROVAL" => log[e].calls = <<>>
                             /\ ctx[e].status # "NEW"

ProgressInv == \A e \in Executions : ProgressOf(e)

-----------------------------------------------------------------------------

(* Before any call nothing has run. *)
LEMMA InitProgress == Init => ProgressInv
  BY DEF Init, ProgressInv, ProgressOf, NewContext, NewLog, NewFrame, Running, BeforeTool,
     Succeeded, OnlyTheLastReturned, Runs

(* What a run of the tool leaves in the log. *)
LEMMA RunLogged ==
    ASSUME TypeOK, NEW e \in Executions, NEW ok \in BOOLEAN, Called(e, ok),
           ctx[e].params \in Params
    PROVE  /\ Runs(e)' = Runs(e) + 1
           /\ log'[e].calls # <<>>
           /\ log'[e].recoveries = log[e].recoveries
           /\ Succeeded(e)' <=> ok
           /\ OnlyTheLastReturned(e) /\ ~Succeeded(e) => OnlyTheLastReturned(e)'
<1> DEFINE run == [params |-> ctx[e].params, ok |-> ok]
<1> DEFINE old == log[e].calls
<1>1. log[e] \in Log /\ log \in [Executions -> Log]
  BY DEF TypeOK
<1>2. old \in Seq([params: Params, ok: BOOLEAN]) /\ run \in [params: Params, ok: BOOLEAN]
  BY <1>1 DEF Log
<1>3. log'[e].calls = Append(old, run) /\ log'[e].recoveries = log[e].recoveries
  BY <1>1 DEF Called, Log
<1>4. /\ Len(old) \in Nat /\ Len(Append(old, run)) = Len(old) + 1
      /\ Append(old, run) # <<>>
      /\ Append(old, run)[Len(old) + 1] = run
      /\ \A i \in 1 .. Len(old) : Append(old, run)[i] = old[i]
  BY <1>2
<1>5. Succeeded(e)' <=> ok
  BY <1>3, <1>4 DEF Succeeded
<1>6. ASSUME OnlyTheLastReturned(e), ~Succeeded(e) PROVE OnlyTheLastReturned(e)'
  <2>1. ASSUME NEW i \in 1 .. Len(old) PROVE ~old[i].ok
    <3>1. CASE i = Len(old)
      BY <1>2, <1>4, <1>6, <2>1, <3>1 DEF Succeeded
    <3>2. CASE i # Len(old)
      BY <1>4, <1>6, <2>1, <3>2 DEF OnlyTheLastReturned, Runs
    <3>3. QED
      BY <3>1, <3>2
  <2>2. QED
    BY <1>3, <1>4, <2>1 DEF OnlyTheLastReturned, Runs
<1>7. QED
  BY <1>3, <1>4, <1>5, <1>6 DEF Runs

(* Steps that leave the tool alone leave what was said of its runs. *)
LEMMA SameRuns ==
    ASSUME NEW e \in Executions, log'[e].calls = log[e].calls
    PROVE  /\ Runs(e)' = Runs(e)
           /\ Succeeded(e)' <=> Succeeded(e)
           /\ OnlyTheLastReturned(e)' <=> OnlyTheLastReturned(e)
  BY DEF Runs, Succeeded, OnlyTheLastReturned

(* Up to the retry loop nothing runs. *)
LEMMA ProgressAdmission ==
    ASSUME TypeInv, ProgressInv, NEW e \in Executions,
           SchemaLookup(e) \/ GuardLookup(e) \/ SchemaFailed(e) \/ GuardStopped(e)
             \/ BeforeExec(e) \/ HealingLookup(e)
             \/ \E r \in PluginResult : RunSchema(e, r) \/ RunGuard(e, r)
    PROVE  ProgressOf(e)'
<1>0. ctx[e] \in Context /\ frame[e] \in Frame /\ log[e] \in Log /\ ProgressOf(e)
      /\ pc \in [Executions -> Labels] /\ ctx \in [Executions -> Context]
      /\ frame \in [Executions -> Frame]
  BY DEF TypeInv, TypeOK, ProgressInv
<1>1. log' = log
  BY DEF SchemaLookup, GuardLookup, Lookup, SchemaFailed, GuardStopped, BeforeExec,
     HealingLookup, RunSchema, RunGuard
<1>2. pc[e] \in BeforeTool
  BY DEF SchemaLookup, GuardLookup, Lookup, SchemaFailed, GuardStopped, BeforeExec,
     HealingLookup, RunSchema, RunGuard, Jump, BeforeTool
<1>3. log[e].calls = <<>> /\ log[e].recoveries = 0 /\ ctx[e].status = "RUNNING"
      /\ ~ctx[e].final_result
  BY <1>0, <1>2 DEF ProgressOf, BeforeTool, Running, Succeeded
<1>4. Runs(e)' = 0 /\ ~Succeeded(e)' /\ OnlyTheLastReturned(e)'
  BY <1>1, <1>3 DEF Runs, Succeeded, OnlyTheLastReturned
<1>5. ctx'[e].final_result = ctx[e].final_result
  BY <1>0 DEF SchemaLookup, GuardLookup, Lookup, SchemaFailed, GuardStopped, Crash, Conclude,
     BeforeExec, HealingLookup, RunSchema, RunGuard, Recorded, Context
<1>6. \/ pc'[e] \in BeforeTool /\ ctx'[e].status = "RUNNING"
      \/ pc'[e] = "returned" /\ ctx'[e].status \in {"RUNNING", "FAILED", "PENDING_APPROVAL"}
      \/ /\ pc'[e] = "attempt" /\ ctx'[e].status = "RUNNING"
         /\ frame'[e].attempt = 0 /\ 0 < frame'[e].max_attempts
  <2>1. CASE SchemaLookup(e) \/ GuardLookup(e) \/ BeforeExec(e)
    BY <1>0, <1>3, <2>1 DEF SchemaLookup, GuardLookup, BeforeExec, Lookup, Jump, BeforeTool
  <2>2. CASE SchemaFailed(e) \/ GuardStopped(e)
    BY <1>0, <2>2 DEF SchemaFailed, GuardStopped, Crash, Conclude, Jump, Context
  <2>3. CASE HealingLookup(e)
    BY <1>0, <1>3, <2>3 DEF HealingLookup, Jump, Frame
  <2>4. ASSUME NEW r \in PluginResult, RunSchema(e, r) \/ RunGuard(e, r)
        PROVE  pc'[e] \in BeforeTool /\ ctx'[e].status = "RUNNING"
    BY <1>0, <1>3, <2>4 DEF RunSchema, RunGuard, Recorded, Jump, BeforeTool, Context
  <2>5. QED
    BY <2>1, <2>2, <2>3, <2>4
<1>7. QED
  BY <1>1, <1>3, <1>4, <1>5, <1>6 DEF ProgressOf, BeforeTool, Running

(* One run of the tool is one more run in the count. *)
LEMMA ProgressRun ==
    ASSUME TypeInv, ProgressInv, NEW e \in Executions, ToolReturns(e) \/ ToolRaises(e)
    PROVE  ProgressOf(e)'
<1>0. ctx[e] \in Context /\ frame[e] \in Frame /\ log[e] \in Log /\ ProgressOf(e)
      /\ pc \in [Executions -> Labels] /\ ctx \in [Executions -> Context]
      /\ frame \in [Executions -> Frame]
  BY DEF TypeInv, TypeOK, ProgressInv
<1>1. pc[e] = "attempt" /\ ctx[e].params \in Params
  BY DEF ToolReturns, ToolRaises, Jump, TypeInv, Shape, ShapeOf, Running
<1>2. /\ ctx[e].status = "RUNNING" /\ ~Succeeded(e) /\ OnlyTheLastReturned(e)
      /\ Runs(e) = frame[e].attempt /\ log[e].recoveries = frame[e].attempt
      /\ frame[e].attempt < frame[e].max_attempts /\ ~ctx[e].final_result
  BY <1>0, <1>1 DEF ProgressOf, Running
<1>3. frame'[e].attempt = frame[e].attempt /\ frame'[e].max_attempts = frame[e].max_attempts
  BY <1>0 DEF ToolReturns, ToolRaises, Noted, Frame
<1>4. frame[e].attempt \in Nat /\ frame[e].max_attempts \in Int
  BY <1>0 DEF Frame
<1>5. CASE ToolReturns(e)
  <2>1. /\ Runs(e)' = Runs(e) + 1 /\ log'[e].calls # <<>> /\ Succeeded(e)'
        /\ log'[e].recoveries = log[e].recoveries /\ OnlyTheLastReturned(e)'
    BY <1>1, <1>2, <1>5, RunLogged DEF ToolReturns, TypeInv
  <2>2. pc'[e] = "reflect" /\ ctx'[e].status = "RUNNING"
    BY <1>0, <1>2, <1>5 DEF ToolReturns, Jump, Context
  <2>3. QED
    BY <1>2, <1>3, <1>4, <2>1, <2>2 DEF ProgressOf, BeforeTool, Running
<1>6. CASE ToolRaises(e)
  <2>1. /\ Runs(e)' = Runs(e) + 1 /\ log'[e].calls # <<>> /\ ~Succeeded(e)'
        /\ log'[e].recoveries = log[e].recoveries /\ OnlyTheLastReturned(e)'
    BY <1>1, <1>2, <1>6, RunLogged DEF ToolRaises, TypeInv
  <2>2. ctx' = ctx /\ \/ pc'[e] = "give_up"
                      \/ pc'[e] = "heal" /\ frame[e].attempt < frame[e].max_attempts - 1
    BY <1>0, <1>6 DEF ToolRaises, Jump, MayHeal
  <2>3. QED
    BY <1>2, <1>3, <1>4, <2>1, <2>2 DEF ProgressOf, BeforeTool, Running
<1>7. QED
  BY <1>5, <1>6

(* One recovery is one more recovery, and licenses one more attempt. *)
LEMMA ProgressHeal ==
    ASSUME TypeInv, ProgressInv, NEW e \in Executions, NEW r \in PluginResult,
           Heal(e, r) \/ HealCrash(e, r)
    PROVE  ProgressOf(e)'
<1>0. ctx[e] \in Context /\ frame[e] \in Frame /\ log[e] \in Log /\ ProgressOf(e)
      /\ pc \in [Executions -> Labels] /\ ctx \in [Executions -> Context]
      /\ frame \in [Executions -> Frame] /\ log \in [Executions -> Log]
  BY DEF TypeInv, TypeOK, ProgressInv
<1>1. pc[e] = "heal"
  BY DEF Heal, HealCrash, Jump
<1>2. /\ ctx[e].status = "RUNNING" /\ ~Succeeded(e) /\ OnlyTheLastReturned(e)
      /\ Runs(e) = frame[e].attempt + 1 /\ log[e].recoveries = frame[e].attempt
      /\ frame[e].attempt + 1 < frame[e].max_attempts /\ ~ctx[e].final_result
  BY <1>0, <1>1 DEF ProgressOf, Running
<1>3. /\ frame'[e].attempt = frame[e].attempt
      /\ frame'[e].max_attempts = frame[e].max_attempts
      /\ frame[e].attempt \in Nat /\ frame[e].max_attempts \in Int
  BY <1>0 DEF Heal, HealCrash, Noted, Frame
<1>4. log'[e].calls = log[e].calls /\ ctx'[e].final_result = ctx[e].final_result
  BY <1>0 DEF Heal, HealCrash, Recorded, Log, Context
<1>5. Runs(e)' = Runs(e) /\ ~Succeeded(e)' /\ OnlyTheLastReturned(e)'
  BY <1>2, <1>4, SameRuns
<1>6. log'[e].calls # <<>>
  BY <1>0, <1>2, <1>3, <1>4 DEF Runs, Log
<1>7. \/ /\ pc'[e] = "retry" /\ ctx'[e].status = "RUNNING"
         /\ log'[e].recoveries = log[e].recoveries + 1
      \/ /\ pc'[e] = "give_up" /\ ctx'[e].status = "RUNNING"
         /\ log'[e].recoveries = log[e].recoveries
      \/ /\ pc'[e] = "returned" /\ ctx'[e].status = "FAILED"
         /\ log'[e].recoveries = log[e].recoveries
  <2>1. CASE Heal(e, r)
    BY <1>0, <1>2, <2>1 DEF Heal, Jump, Recorded, Log, Context
  <2>2. CASE HealCrash(e, r)
    BY <1>0, <2>2 DEF HealCrash, Jump, Recorded, Context
  <2>3. QED
    BY <2>1, <2>2
<1>8. QED
  BY <1>2, <1>3, <1>4, <1>5, <1>6, <1>7 DEF ProgressOf, BeforeTool, Running

(* The observe layer completes the call, with or without a plugin. *)
LEMMA ObserveConcludes ==
    ASSUME TypeInv, NEW e \in Executions, Observe(e)
    PROVE  /\ ctx'[e].status = "COMPLETED" /\ ctx'[e].error = ctx[e].error
           /\ ctx'[e].final_result = ctx[e].final_result
<1>0. ctx \in [Executions -> Context] /\ ctx[e] \in Context
  BY DEF TypeInv, TypeOK
<1>1. CASE ctx' = [ctx EXCEPT ![e].status = "COMPLETED"]
  BY <1>0, <1>1 DEF Context
<1>2. ASSUME NEW r \in Outcomes(GetPlugin(e, "observe")),
             ctx' = [Recorded(e, "observe", r) EXCEPT ![e].status = "COMPLETED"]
      PROVE  /\ ctx'[e].status = "COMPLETED" /\ ctx'[e].error = ctx[e].error
             /\ ctx'[e].final_result = ctx[e].final_result
  BY <1>0, <1>2 DEF Recorded, Context
<1>3. \/ ctx' = [ctx EXCEPT ![e].status = "COMPLETED"]
      \/ \E r \in Outcomes(GetPlugin(e, "observe")) :
            ctx' = [Recorded(e, "observe", r) EXCEPT ![e].status = "COMPLETED"]
  BY DEF Observe
<1>4. QED
  BY <1>1, <1>2, <1>3

(* What follows the last run keeps the count and fixes the verdict. *)
LEMMA ProgressEnd ==
    ASSUME TypeInv, ProgressInv, NEW e \in Executions,
           StartRetry(e) \/ GiveUp(e) \/ Reflect(e) \/ Observe(e)
    PROVE  ProgressOf(e)'
<1>0. ctx[e] \in Context /\ frame[e] \in Frame /\ log[e] \in Log /\ ProgressOf(e)
      /\ pc \in [Executions -> Labels] /\ ctx \in [Executions -> Context]
      /\ frame \in [Executions -> Frame]
  BY DEF TypeInv, TypeOK, ProgressInv
<1>1. log' = log
  BY DEF StartRetry, GiveUp, Reflect, Observe
<1>2. /\ Runs(e)' = Runs(e)
      /\ Succeeded(e)' <=> Succeeded(e)
      /\ OnlyTheLastReturned(e)' <=> OnlyTheLastReturned(e)
  BY <1>1 DEF Runs, Succeeded, OnlyTheLastReturned
<1>3. CASE StartRetry(e)
  <2>1. pc[e] = "retry" /\ pc'[e] = "attempt" /\ ctx' = ctx
    BY <1>0, <1>3 DEF StartRetry, Jump
  <2>2. /\ frame'[e].attempt = frame[e].attempt + 1
        /\ frame'[e].max_attempts = frame[e].max_attempts
        /\ frame[e].attempt \in Nat /\ frame[e].max_attempts \in Int
    BY <1>0, <1>3 DEF StartRetry, Frame
  <2>3. /\ ctx[e].status = "RUNNING" /\ ~Succeeded(e) /\ OnlyTheLastReturned(e)
        /\ Runs(e) = frame[e].attempt + 1 /\ log[e].recoveries = frame[e].attempt + 1
        /\ frame[e].attempt + 1 < frame[e].max_attempts /\ ~ctx[e].final_result
    BY <1>0, <2>1 DEF ProgressOf, Running
  <2>4. QED
    BY <1>1, <1>2, <2>1, <2>2, <2>3 DEF ProgressOf, BeforeTool, Running
<1>4. CASE GiveUp(e)
  <2>1. pc[e] = "give_up" /\ pc'[e] = "returned" /\ frame' = frame
    BY <1>0, <1>4 DEF GiveUp, Jump
  <2>2. ctx'[e].status = "FAILED" /\ ctx'[e].final_result = ctx[e].final_result
    BY <1>0, <1>4 DEF GiveUp, Conclude, Context
  <2>3. /\ ~Succeeded(e) /\ OnlyTheLastReturned(e) /\ ~ctx[e].final_result
        /\ Runs(e) <= log[e].recoveries + 1
        /\ log[e].calls # <<>> => Runs(e) <= frame[e].max_attempts
    BY <1>0, <2>1 DEF ProgressOf
  <2>4. QED
    BY <1>1, <1>2, <2>1, <2>2, <2>3 DEF ProgressOf, BeforeTool, Running
<1>5. CASE Reflect(e)
  <2>1. pc[e] = "reflect" /\ pc'[e] = "observe"
    BY <1>0, <1>5 DEF Reflect, Jump
  <2>2. frame'[e].max_attempts = frame[e].max_attempts
    BY <1>0, <1>5 DEF Reflect, Noted, Frame
  <2>3. ctx'[e].status = ctx[e].status /\ ctx'[e].final_result = ctx[e].final_result
    BY <1>0, <1>5 DEF Reflect, Recorded, Context
  <2>4. QED
    BY <1>0, <1>1, <1>2, <2>1, <2>2, <2>3 DEF ProgressOf, BeforeTool, Running
<1>6. CASE Observe(e)
  <2>1. pc[e] = "observe" /\ pc'[e] = "returned"
    BY <1>0, <1>6 DEF Observe, Jump
  <2>2. frame'[e].max_attempts = frame[e].max_attempts
    BY <1>0, <1>6 DEF Observe, Noted, Frame
  <2>3. ctx'[e].status = "COMPLETED" /\ ctx'[e].final_result = ctx[e].final_result
    BY <1>6, ObserveConcludes
  <2>4. QED
    BY <1>0, <1>1, <1>2, <2>1, <2>2, <2>3 DEF ProgressOf, BeforeTool, Running
<1>7. QED
  BY <1>3, <1>4, <1>5, <1>6

(* So does an exception that leaves the chain. *)
LEMMA ProgressBrokenOff ==
    ASSUME TypeInv, ProgressInv, NEW e \in Executions, NEW layer \in Layers,
           BreaksOff(e, layer)
    PROVE  ProgressOf(e)'
<1>1. /\ pc[e] \in BreakLabels /\ pc' = [pc EXCEPT ![e] = "returned"] /\ log' = log
      /\ ctx'[e].status = "FAILED" /\ ctx'[e].error = "internal"
      /\ ctx'[e].final_result = ctx[e].final_result
      /\ frame'[e].max_attempts = frame[e].max_attempts
  BY BrokenOff
<1>2. ProgressOf(e) /\ pc'[e] = "returned"
  BY <1>1 DEF ProgressInv, TypeInv, TypeOK
<1>3. /\ Runs(e)' = Runs(e)
      /\ Succeeded(e)' <=> Succeeded(e)
      /\ OnlyTheLastReturned(e)' <=> OnlyTheLastReturned(e)
  BY <1>1 DEF Runs, Succeeded, OnlyTheLastReturned
<1>4. /\ ctx[e].final_result => Succeeded(e)
      /\ OnlyTheLastReturned(e) /\ Runs(e) <= log[e].recoveries + 1
      /\ log[e].calls # <<>> => Runs(e) <= frame[e].max_attempts
  BY <1>2 DEF ProgressOf
<1>5. QED
  BY <1>1, <1>2, <1>3, <1>4 DEF ProgressOf, BeforeTool, Running

(* A new call starts counting at zero. *)
LEMMA ProgressCall ==
    ASSUME TypeInv, ProgressInv, NEW e \in Executions, Call(e)
    PROVE  ProgressOf(e)'
<1>0. /\ log \in [Executions -> Log] /\ ProgressOf(e)
      /\ pc \in [Executions -> Labels] /\ ctx \in [Executions -> Context]
  BY DEF ProgressInv, TypeInv, TypeOK
<1>1. ASSUME NEW t \in Tools, NEW p \in Params, Execute(e, t, p) PROVE ProgressOf(e)'
  <2>1. pc'[e] = "schema" /\ ctx'[e] = NewContext(t, p, "RUNNING") /\ log'[e] = NewLog(p)
    BY <1>0, <1>1 DEF Execute, Jump
  <2>2. QED
    BY <2>1 DEF NewContext, NewLog, ProgressOf, BeforeTool, Running, Succeeded,
       OnlyTheLastReturned, Runs
<1>2. ASSUME NEW t \in Tools, ToolNotFound(e, t) PROVE ProgressOf(e)'
  BY <1>0, <1>2 DEF ToolNotFound, Jump, ProgressOf, BeforeTool, Running, Succeeded,
     OnlyTheLastReturned, Runs
<1>3. QED
  BY <1>1, <1>2 DEF Call

(* Every step keeps ProgressInv: its own call's part, and the others' untouched. *)
LEMMA ProgressStep == TypeInv /\ ProgressInv /\ [Next]_vars => ProgressInv'
<1> SUFFICES ASSUME TypeInv, ProgressInv, [Next]_vars PROVE ProgressInv'
  OBVIOUS
<1>1. CASE Reconfigure \/ UNCHANGED vars
  BY <1>1 DEF Reconfigure, vars, ProgressInv, ProgressOf, Succeeded, OnlyTheLastReturned, Runs
<1>2. ASSUME NEW e \in Executions, StepOf(e) PROVE ProgressInv'
  <2>1. ProgressOf(e)'
    BY <1>2, ProgressCall, ProgressAdmission, ProgressRun, ProgressHeal, ProgressEnd,
       ProgressBrokenOff, PluginRuns DEF StepOf, Advance, BreaksOff
  <2>2. ASSUME NEW f \in Executions, f # e PROVE ProgressOf(f)'
    BY <1>2, <2>2, OthersStay DEF Others, ProgressInv, ProgressOf, Succeeded,
       OnlyTheLastReturned, Runs
  <2>3. QED
    BY <2>1, <2>2 DEF ProgressInv
<1>3. QED
  BY <1>1, <1>2 DEF Next, StepOf

(* Runs, recoveries and attempts agree in every reachable state. *)
THEOREM ProgressInvariance == Spec => []ProgressInv
  BY InitProgress, ProgressStep, TypeInvariance, PTL DEF Spec

(* The tool runs at most max_attempts times, each time after the first with  *)
(* a healing plugin's licence, and never again once it returned.             *)
THEOREM RetryBoundHolds == Spec => []RetryBound
<1>1. ProgressInv => RetryBound
  BY DEF ProgressInv, ProgressOf, RetryBound, OnlyTheLastReturned, Runs
<1>2. QED
  BY <1>1, ProgressInvariance, PTL

(* The status a call returns says whether the tool's last run returned,      *)
(* unless an exception left the chain after it; and a call that awaits       *)
(* approval has run nothing.                                                 *)
THEOREM VerdictHolds == Spec => []Verdict
<1>1. ProgressInv => Verdict
  BY DEF ProgressInv, ProgressOf, Verdict
<1>2. QED
  BY <1>1, ProgressInvariance, PTL

(* A call that is over is not touched by any step.                           *)
LEMMA OverIsOver ==
    ASSUME TypeInv, ProgressInv, NEW e \in Executions, [Next]_vars,
           ctx[e].status \notin {"NEW", "RUNNING"}
    PROVE  ctx'[e] = ctx[e]
<1>1. CASE Reconfigure \/ UNCHANGED vars
  BY <1>1 DEF Reconfigure, vars
<1>2. ASSUME NEW f \in Executions, StepOf(f) PROVE ctx'[e] = ctx[e]
  <2>1. pc[f] \in Running \cup {"idle"}
    <3>1. CASE Call(f)
      BY <3>1 DEF Call, Execute, ToolNotFound, Jump
    <3>2. CASE Advance(f)
      BY <3>2, StaysInside
    <3>3. ASSUME NEW layer \in Layers, LookupRaises(f, layer)
          PROVE  pc[f] \in Running
      BY <3>3 DEF LookupRaises, LookupLabel, Jump, Running, Layers
    <3>4. QED
      BY <1>2, <3>1, <3>2, <3>3 DEF StepOf
  <2>2. ctx[f].status \in {"NEW", "RUNNING"}
    BY <2>1 DEF ProgressInv, ProgressOf
  <2>3. QED
    BY <1>2, <2>2, OthersStay DEF Others
<1>3. QED
  BY <1>1, <1>2 DEF Next, StepOf

(* A running call stays so or ends.                                          *)
LEMMA RunningEnds ==
    ASSUME TypeInv, TypeInv', ProgressInv, ProgressInv', NEW e \in Executions, [Next]_vars,
           ctx[e].status = "RUNNING"
    PROVE  ctx'[e].status # "NEW"
<1>1. CASE Reconfigure \/ UNCHANGED vars
  BY <1>1 DEF Reconfigure, vars
<1>2. ASSUME NEW f \in Executions, StepOf(f) PROVE ctx'[e].status # "NEW"
  <2>1. CASE f # e
    BY <1>2, <2>1, OthersStay DEF Others
  <2>2. CASE f = e /\ Call(e)
    <3>1. pc[e] = "idle"
      BY <2>2 DEF Call, Execute, ToolNotFound, Jump
    <3>2. QED
      BY <3>1 DEF ProgressInv, ProgressOf
  <2>3. CASE f = e /\ Advance(e)
    <3>1. pc'[e] \in Labels \ {"idle", "raised"}
      BY <2>3, StaysInside
    <3>2. QED
      BY <3>1 DEF ProgressInv, ProgressOf, Labels
  <2>4. ASSUME NEW layer \in Layers, LookupRaises(e, layer)
        PROVE  ctx'[e].status # "NEW"
    BY <2>4, BrokenOff DEF BreaksOff
  <2>5. QED
    BY <1>2, <2>1, <2>2, <2>3, <2>4 DEF StepOf
<1>3. QED
  BY <1>1, <1>2 DEF Next, StepOf

(* Statuses move along the transitions types.py lists, and no step of any    *)
(* call revises COMPLETED or FAILED.  (That PENDING_APPROVAL is left alone   *)
(* too, although the list lets it resume, is OverIsOver.)                    *)
THEOREM StatusIsFinalHolds == Spec => StatusIsFinal
<1> DEFINE Moves(e) == LET s == ctx[e].status IN
      /\ s # "NEW" /\ ctx'[e].status # s => <<s, ctx'[e].status>> \in Transitions
      /\ s \in {"COMPLETED", "FAILED"} => ctx'[e].error = ctx[e].error
<1>1. TypeInv /\ TypeInv' /\ ProgressInv /\ ProgressInv' /\ [Next]_vars
        => [\A e \in Executions : Moves(e)]_vars
  <2> SUFFICES ASSUME TypeInv, TypeInv', ProgressInv, ProgressInv', [Next]_vars,
                      NEW e \in Executions
               PROVE  Moves(e)
    OBVIOUS
  <2>1. ctx[e].status \in Statuses /\ ctx'[e].status \in Statuses
    BY DEF TypeInv, TypeOK, Context
  <2>2. CASE ctx[e].status = "RUNNING"
    BY <2>1, <2>2, RunningEnds DEF Transitions, Statuses
  <2>3. CASE ctx[e].status \notin {"NEW", "RUNNING"}
    BY <2>3, OverIsOver
  <2>4. QED
    BY <2>2, <2>3
<1>2. QED
  BY <1>1, TypeInvariance, ProgressInvariance, PTL DEF Spec, StatusIsFinal

-----------------------------------------------------------------------------

NonNegativeRetries == \A p \in Plugins : MaxRetries[p] \in Nat

(* Calls return with a final status if there is at least one attempt. *)
LEMMA TerminalStep ==
    ASSUME NonNegativeRetries, TypeInv, ReturnsTerminal, [Next]_vars
    PROVE  ReturnsTerminal'
<1>0. /\ pc \in [Executions -> Labels] /\ ctx \in [Executions -> Context]
      /\ frame \in [Executions -> Frame]
  BY DEF TypeInv, TypeOK
<1>1. CASE Reconfigure \/ UNCHANGED vars
  BY <1>1 DEF Reconfigure, vars, ReturnsTerminal
<1>2. ASSUME NEW e \in Executions, StepOf(e) PROVE ReturnsTerminal'
  <2> DEFINE Final == {"COMPLETED", "FAILED", "PENDING_APPROVAL"}
  <2>1. pc'[e] = "returned" => ctx'[e].status \in Final
    <3>1. CASE Call(e)
      BY <1>0, <3>1 DEF Call, Execute, ToolNotFound, Jump
    <3>2. CASE SchemaLookup(e) \/ GuardLookup(e) \/ BeforeExec(e) \/ StartRetry(e)
                 \/ ToolReturns(e) \/ ToolRaises(e) \/ Reflect(e)
      BY <1>0, <3>2 DEF SchemaLookup, GuardLookup, Lookup, BeforeExec, StartRetry,
         ToolReturns, ToolRaises, Reflect, Jump
    <3>3. CASE SchemaFailed(e) \/ GuardStopped(e) \/ GiveUp(e)
      BY <1>0, <3>3 DEF SchemaFailed, GuardStopped, GiveUp, Crash, Conclude, Context
    <3>4. CASE HealingLookup(e)
      <4>1. pc[e] \in Running
        BY <3>4 DEF HealingLookup, Running
      <4>2. GetPlugin(e, "healing") \in Plugins \cup {None}
        BY <4>1, LookupFinds DEF Layers
      <4>3. MaxAttempts(GetPlugin(e, "healing")) > 0
        BY <4>2 DEF MaxAttempts, NonNegativeRetries
      <4>4. QED
        BY <1>0, <3>4, <4>3 DEF HealingLookup, Jump
    <3>5. CASE RunPlugin(e)
      <4>1. PICK r \in PluginResult :
               RunSchema(e, r) \/ RunGuard(e, r) \/ Heal(e, r) \/ HealCrash(e, r)
        BY <3>5, PluginRuns
      <4>2. QED
        BY <1>0, <4>1 DEF RunSchema, RunGuard, Heal, HealCrash, Jump, Recorded, Context
    <3>6. CASE Observe(e)
      BY <3>6, ObserveConcludes
    <3>7. ASSUME NEW layer \in Layers, BreaksOff(e, layer)
          PROVE  ctx'[e].status \in Final
      BY <3>7, BrokenOff
    <3>8. QED
      BY <1>2, <3>1, <3>2, <3>3, <3>4, <3>5, <3>6, <3>7 DEF StepOf, Advance, BreaksOff
  <2>2. ASSUME NEW f \in Executions, f # e, pc'[f] = "returned" PROVE ctx'[f].status \in Final
    BY <1>2, <2>2, OthersStay DEF Others, ReturnsTerminal
  <2>3. QED
    BY <2>1, <2>2 DEF ReturnsTerminal
<1>3. QED
  BY <1>1, <1>2 DEF Next, StepOf

(* With max_retries >= 0 in every healing plugin, a call returns only in     *)
(* COMPLETED, FAILED or PENDING_APPROVAL.  Nothing in the code enforces the    *)
(* hypothesis; with a negative value the retry loop has no round at all.     *)
THEOREM ReturnsTerminalHolds ==
    ASSUME NonNegativeRetries PROVE Spec => []ReturnsTerminal
<1>1. Init => ReturnsTerminal
  BY DEF Init, ReturnsTerminal
<1>2. TypeInv /\ ReturnsTerminal /\ [Next]_vars => ReturnsTerminal'
  BY TerminalStep
<1>3. QED
  BY <1>1, <1>2, TypeInvariance, PTL DEF Spec

-----------------------------------------------------------------------------
(* A step maps to one of ToolLifecycle only if the event follows on the one  *)
(* before it: so the last event has to be known at every label.              *)

Trail == [
    idle           |-> {"none"},
    raised         |-> {"none"},
    schema         |-> {"none"},
    run_schema     |-> {"before_schema"},
    schema_failed  |-> {"after_schema"},
    guard          |-> {"none", "after_schema"},
    run_guard      |-> {"before_guard"},
    guard_stopped  |-> {"before_guard"},
    before_exec    |-> {"none", "after_schema", "before_guard"},
    healing_lookup |-> {"before_exec"},
    attempt        |-> {"before_exec", "retry_started"},
    heal           |-> {"exec_fail"},
    retry          |-> {"healing_recovered"},
    give_up        |-> {"exec_fail", "healing_failed"},
    reflect        |-> {"after_exec"},
    observe        |-> {"after_exec", "after_reflect"},
    returned       |-> Events]

TrailOf(e) ==
    /\ event[e] \in Trail[pc[e]]
    /\ pc[e] \in {"idle", "raised"} => ctx[e].status = "NEW"
    /\ pc[e] \in Running => ctx[e].status = "RUNNING"
    /\ pc[e] # "returned" => ctx[e].error = None

TrailInv == \A e \in Executions : TrailOf(e)

(* Before any call there is no event. *)
LEMMA InitTrail == Init => TrailInv /\ Lifecycle!Init
<1> SUFFICES ASSUME Init PROVE TrailInv /\ Lifecycle!Init
  OBVIOUS
<1>1. \A e \in Executions : /\ pc[e] = "idle" /\ event[e] = "none"
                            /\ ctx[e].status = "NEW" /\ ctx[e].error = None
  BY DEF Init, NewContext
<1>2. TrailInv
  BY <1>1 DEF TrailInv, TrailOf, Trail, Running
<1>3. \A e \in Executions : (ctx[e].error = "internal") = FALSE
  BY <1>1, NoneAssumption DEF NoneAssumption, Errors
<1>4. Lifecycle!Init
  BY <1>1, <1>3 DEF Lifecycle!Init, Init
<1>5. QED
  BY <1>2, <1>4

Broken(e) == ctx[e].error = "internal"

(* What an observer sees of a step of call e, if anything: one step of       *)
(* ToolLifecycle.                                                            *)
Seen(e) ==
    LET s == ctx[e].status   next == ctx'[e].status IN
    \/ /\ s = "NEW" /\ next = "RUNNING" /\ event'[e] = event[e]
       /\ Broken(e)' <=> Broken(e)
    \/ /\ s = "RUNNING" /\ next = "RUNNING" /\ event'[e] \in Lifecycle!Follows[event[e]]
       /\ Broken(e)' <=> Broken(e)
    \/ /\ s = "RUNNING" /\ next \in Lifecycle!Final
       /\ event'[e] \in Lifecycle!Follows[event[e]] \cup {event[e]}
       /\ event'[e] \in Lifecycle!LastEvent[next]
       /\ Broken(e)' <=> Broken(e)
    \/ /\ s = "RUNNING" /\ next = "FAILED" /\ event'[e] = event[e]
       /\ event[e] \in Lifecycle!Breakable /\ Broken(e)'
    \/ next = s /\ event'[e] = event[e] /\ (Broken(e)' <=> Broken(e))

USE DEF Lifecycle!Follows, Lifecycle!Final, Lifecycle!LastEvent, Lifecycle!Breakable

(* An exception that leaves the chain is seen as the call breaking off. *)
LEMMA TrailBrokenOff ==
    ASSUME TypeInv, TrailInv, NEW e \in Executions, NEW layer \in Layers,
           BreaksOff(e, layer)
    PROVE  TrailOf(e)' /\ Seen(e)
<1>1. /\ pc[e] \in BreakLabels /\ pc' = [pc EXCEPT ![e] = "returned"] /\ event' = event
      /\ ctx'[e].status = "FAILED" /\ ctx'[e].error = "internal"
  BY BrokenOff
<1>2. /\ TrailOf(e) /\ pc'[e] = "returned" /\ event[e] \in Events
  BY <1>1 DEF TrailInv, TypeInv, TypeOK
<1>3. ctx[e].status = "RUNNING" /\ event[e] \in Lifecycle!Breakable
  BY <1>1, <1>2 DEF TrailOf, Trail, BreakLabels, Running
<1>4. TrailOf(e)'
  BY <1>1, <1>2 DEF TrailOf, Trail, Running
<1>5. QED
  BY <1>1, <1>3, <1>4 DEF Seen, Broken

(* The lookups and plugins before the tool. *)
LEMMA TrailAdmission ==
    ASSUME TypeInv, TrailInv, NEW e \in Executions,
           SchemaLookup(e) \/ GuardLookup(e) \/ BeforeExec(e) \/ HealingLookup(e)
             \/ \E r \in PluginResult : RunSchema(e, r) \/ RunGuard(e, r)
    PROVE  TrailOf(e)' /\ Seen(e)
<1>0. ctx[e] \in Context /\ TrailOf(e)
      /\ pc \in [Executions -> Labels] /\ ctx \in [Executions -> Context]
      /\ event \in [Executions -> Events] /\ event' \in [Executions -> Events]
  BY DEF TypeInv, TypeOK, TrailInv, SchemaLookup, GuardLookup, Lookup, BeforeExec,
     HealingLookup, RunSchema, RunGuard, Emit, Events
<1>1. CASE SchemaLookup(e)
  BY <1>0, <1>1 DEF SchemaLookup, Lookup, Jump, Emit, TrailOf, Trail, Seen, Broken, Running
<1>2. CASE GuardLookup(e)
  BY <1>0, <1>2 DEF GuardLookup, Lookup, Jump, Emit, TrailOf, Trail, Seen, Broken, Running
<1>3. CASE BeforeExec(e)
  BY <1>0, <1>3 DEF BeforeExec, Jump, Emit, TrailOf, Trail, Seen, Broken, Running
<1>4. CASE HealingLookup(e)
  BY <1>0, <1>4 DEF HealingLookup, Jump, TrailOf, Trail, Seen, Broken, Running
<1>5. ASSUME NEW r \in PluginResult, RunSchema(e, r) \/ RunGuard(e, r)
      PROVE  TrailOf(e)' /\ Seen(e)
  <2>1. ctx'[e].status = ctx[e].status /\ ctx'[e].error = ctx[e].error
    BY <1>0, <1>5 DEF RunSchema, RunGuard, Recorded, Context
  <2>2. CASE RunSchema(e, r)
    BY <1>0, <2>1, <2>2 DEF RunSchema, Jump, Emit, TrailOf, Trail, Seen, Broken, Running
  <2>3. CASE RunGuard(e, r)
    BY <1>0, <2>1, <2>3 DEF RunGuard, Jump, TrailOf, Trail, Seen, Broken, Running
  <2>4. QED
    BY <1>5, <2>2, <2>3
<1>6. QED
  BY <1>1, <1>2, <1>3, <1>4, <1>5

(* The ways to end without a result. *)
LEMMA TrailStopped ==
    ASSUME TypeInv, TrailInv, NEW e \in Executions,
           SchemaFailed(e) \/ GuardStopped(e) \/ GiveUp(e)
    PROVE  TrailOf(e)' /\ Seen(e)
<1>0. ctx[e] \in Context /\ TrailOf(e)
      /\ pc \in [Executions -> Labels] /\ ctx \in [Executions -> Context]
      /\ event \in [Executions -> Events]
  BY DEF TypeInv, TypeOK, TrailInv
<1>1. pc'[e] = "returned" /\ ctx'[e].status \in {"FAILED", "PENDING_APPROVAL"}
  BY <1>0 DEF SchemaFailed, GuardStopped, GiveUp, Crash, Conclude, Jump, Context
<1>2. event'[e] \in Events
  BY <1>0 DEF SchemaFailed, GuardStopped, GiveUp, Crash, Emit, Events
<1>3. TrailOf(e)'
  BY <1>1, <1>2 DEF TrailOf, Trail, Running
<1>4. CASE SchemaFailed(e)
  <2>1. event[e] = "after_schema" /\ ctx[e].status = "RUNNING"
    BY <1>0, <1>4 DEF SchemaFailed, Jump, TrailOf, Trail, Running
  <2>2. ctx'[e].status = "FAILED" /\ event'[e] = "schema_fail"
    BY <1>0, <1>4 DEF SchemaFailed, Conclude, Emit, Context
  <2>3. ~Broken(e) /\ ~Broken(e)'
    <3>1. ctx[e].plugin_results["schema"].error \in PluginErrors \cup {None}
      BY <1>4 DEF SchemaFailed, Jump, TypeInv, Shape, ShapeOf, PluginResult
    <3>2. ctx'[e].error = ctx[e].plugin_results["schema"].error
      BY <1>0, <1>4 DEF SchemaFailed, Conclude, Context
    <3>3. ctx[e].error = None
      BY <1>0, <1>4 DEF SchemaFailed, Jump, TrailOf
    <3>4. QED
      BY <3>1, <3>2, <3>3, NoneAssumption DEF NoneAssumption, PluginErrors, Errors, Broken
  <2>4. QED
    BY <1>3, <2>1, <2>2, <2>3 DEF Seen
<1>5. CASE GuardStopped(e)
  <2>1. event[e] = "before_guard" /\ ctx[e].status = "RUNNING"
    BY <1>0, <1>5 DEF GuardStopped, Jump, TrailOf, Trail, Running
  <2>2. ctx[e].error = None /\ ~Broken(e)
    BY <1>0, <1>5, NoneAssumption DEF GuardStopped, Jump, TrailOf, Broken, NoneAssumption,
       Errors
  <2>3. \/ /\ ctx'[e].status = "PENDING_APPROVAL" /\ event'[e] = "wait_approval"
           /\ ctx'[e].error = ctx[e].error
        \/ /\ ctx'[e].status = "FAILED" /\ event'[e] = "guard_block"
           /\ ctx'[e].error = "blocked"
        \/ /\ ctx'[e].status = "FAILED" /\ event'[e] = event[e]
           /\ ctx'[e].error = "internal"
    BY <1>0, <1>5 DEF GuardStopped, Crash, Conclude, Emit, Context
  <2>4. QED
    BY <1>3, <2>1, <2>2, <2>3 DEF Seen, Broken
<1>6. CASE GiveUp(e)
  <2>1. event[e] \in {"exec_fail", "healing_failed"} /\ ctx[e].status = "RUNNING"
        /\ ctx[e].error = None
    BY <1>0, <1>6 DEF GiveUp, Jump, TrailOf, Trail, Running
  <2>2. ctx'[e].status = "FAILED" /\ event' = event /\ ctx'[e].error = "tool"
    BY <1>0, <1>6 DEF GiveUp, Conclude, Context
  <2>3. QED
    BY <1>3, <2>1, <2>2, NoneAssumption DEF Seen, Broken, NoneAssumption, Errors
<1>7. QED
  BY <1>3, <1>4, <1>5, <1>6

(* The tool and its retries. *)
LEMMA TrailLoop ==
    ASSUME TypeInv, TrailInv, NEW e \in Executions,
           ToolReturns(e) \/ ToolRaises(e) \/ StartRetry(e)
             \/ \E r \in PluginResult : Heal(e, r) \/ HealCrash(e, r)
    PROVE  TrailOf(e)' /\ Seen(e)
<1>0. ctx[e] \in Context /\ TrailOf(e)
      /\ pc \in [Executions -> Labels] /\ ctx \in [Executions -> Context]
      /\ event \in [Executions -> Events]
  BY DEF TypeInv, TypeOK, TrailInv
<1>1. CASE ToolReturns(e)
  <2>1. ctx'[e].status = ctx[e].status /\ ctx'[e].error = ctx[e].error
    BY <1>0, <1>1 DEF ToolReturns, Context
  <2>2. QED
    BY <1>0, <1>1, <2>1 DEF ToolReturns, Jump, Emit, TrailOf, Trail, Seen, Broken, Running
<1>2. CASE ToolRaises(e)
  BY <1>0, <1>2 DEF ToolRaises, Jump, Emit, TrailOf, Trail, Seen, Broken, Running
<1>3. CASE StartRetry(e)
  BY <1>0, <1>3 DEF StartRetry, Jump, Emit, TrailOf, Trail, Seen, Broken, Running
<1>4. ASSUME NEW r \in PluginResult, Heal(e, r) PROVE TrailOf(e)' /\ Seen(e)
  <2>1. ctx'[e].status = ctx[e].status /\ ctx'[e].error = ctx[e].error
    BY <1>0, <1>4 DEF Heal, Recorded, Context
  <2>2. QED
    BY <1>0, <1>4, <2>1 DEF Heal, Jump, Emit, TrailOf, Trail, Seen, Broken, Running
<1>5. ASSUME NEW r \in PluginResult, HealCrash(e, r) PROVE TrailOf(e)' /\ Seen(e)
  <2>1. ctx'[e].status = "FAILED" /\ ctx'[e].error = "internal"
    BY <1>0, <1>5 DEF HealCrash, Recorded, Context
  <2>2. QED
    BY <1>0, <1>5, <2>1 DEF HealCrash, Jump, TrailOf, Trail, Seen, Broken, Running
<1>6. QED
  BY <1>1, <1>2, <1>3, <1>4, <1>5

(* The layers after the tool. *)
LEMMA TrailEnd ==
    ASSUME TypeInv, TrailInv, NEW e \in Executions, Reflect(e) \/ Observe(e)
    PROVE  TrailOf(e)' /\ Seen(e)
<1>0. ctx[e] \in Context /\ TrailOf(e)
      /\ pc \in [Executions -> Labels] /\ ctx \in [Executions -> Context]
      /\ event \in [Executions -> Events]
  BY DEF TypeInv, TypeOK, TrailInv
<1>1. CASE Reflect(e)
  <2>1. ctx'[e].status = ctx[e].status /\ ctx'[e].error = ctx[e].error
    BY <1>0, <1>1 DEF Reflect, Recorded, Context
  <2>2. event'[e] \in {event[e], "after_reflect"}
    BY <1>0, <1>1 DEF Reflect, Emit
  <2>3. QED
    BY <1>0, <1>1, <2>1, <2>2 DEF Reflect, Jump, TrailOf, Trail, Seen, Broken, Running
<1>2. CASE Observe(e)
  <2>1. ctx'[e].status = "COMPLETED" /\ ctx'[e].error = ctx[e].error
    BY <1>2, ObserveConcludes
  <2>2. QED
    BY <1>0, <1>2, <2>1 DEF Observe, Jump, TrailOf, Trail, Seen, Broken, Running
<1>3. QED
  BY <1>1, <1>2

(* A new call. *)
LEMMA TrailCall ==
    ASSUME TypeInv, TrailInv, NEW e \in Executions, Call(e)
    PROVE  TrailOf(e)' /\ Seen(e)
<1>0. TrailOf(e) /\ pc \in [Executions -> Labels] /\ ctx \in [Executions -> Context]
  BY DEF TypeInv, TypeOK, TrailInv
<1>1. ASSUME NEW t \in Tools, NEW p \in Params, Execute(e, t, p) PROVE TrailOf(e)' /\ Seen(e)
  <2>1. /\ pc[e] = "idle" /\ pc'[e] = "schema" /\ event' = event
        /\ ctx'[e].status = "RUNNING" /\ ctx'[e].error = None
    BY <1>0, <1>1 DEF Execute, Jump, NewContext
  <2>2. QED
    BY <1>0, <2>1 DEF TrailOf, Trail, Seen, Broken, Running
<1>2. ASSUME NEW t \in Tools, ToolNotFound(e, t) PROVE TrailOf(e)' /\ Seen(e)
  BY <1>0, <1>2 DEF ToolNotFound, Jump, TrailOf, Trail, Seen, Broken, Running
<1>3. QED
  BY <1>1, <1>2 DEF Call

(* So every step of a call keeps the trail and is seen as a step or not at all. *)
LEMMA TrailStep ==
    ASSUME TypeInv, TypeInv', TrailInv, NEW e \in Executions, StepOf(e)
    PROVE  TrailInv' /\ [Lifecycle!Next]_(Lifecycle!lifecycle)
<1>1. TrailOf(e)' /\ Seen(e)
  BY TrailCall, TrailAdmission, TrailStopped, TrailLoop, TrailEnd, TrailBrokenOff,
     PluginRuns DEF StepOf, Advance, BreaksOff
<1>2. Others(e)
  BY OthersStay
<1>3. TrailInv'
  BY <1>1, <1>2 DEF Others, TrailInv, TrailOf
<1> DEFINE status == [f \in Executions |-> ctx[f].status]
<1> DEFINE broken == [f \in Executions |-> ctx[f].error = "internal"]
<1>4. /\ status[e] = ctx[e].status /\ event \in [Executions -> Events]
      /\ broken[e] \in BOOLEAN /\ (broken[e] <=> Broken(e))
  BY DEF TypeInv, TypeOK, Broken
<1>5. status' = [status EXCEPT ![e] = ctx'[e].status]
  BY <1>2 DEF TypeInv, TypeOK, Others
<1>6. event' = [event EXCEPT ![e] = event'[e]]
  BY <1>2 DEF TypeInv, TypeOK, Others
<1>7. broken' = [broken EXCEPT ![e] = (ctx'[e].error = "internal")]
  BY <1>2 DEF TypeInv, TypeOK, Others
<1>8. ASSUME Broken(e)' <=> Broken(e) PROVE broken' = broken
  BY <1>2, <1>8 DEF Others, Broken
<1> HIDE DEF status, broken
<1> DEFINE abstract == <<status, event, broken>>
<1>9. Lifecycle!lifecycle = abstract
  BY DEF Lifecycle!lifecycle, status, broken
<1> SUFFICES Lifecycle!Next \/ UNCHANGED abstract
  BY <1>3, <1>9 DEF Lifecycle!lifecycle, status, broken
<1>10. CASE /\ ctx[e].status = "NEW" /\ ctx'[e].status = "RUNNING" /\ event'[e] = event[e]
            /\ Broken(e)' <=> Broken(e)
  <2>1. event' = event
    BY <1>4, <1>6, <1>10
  <2>2. Lifecycle!Begin(e)
    BY <1>4, <1>5, <1>8, <1>10, <2>1 DEF Lifecycle!Begin, status, broken
  <2>3. QED
    BY <2>2 DEF Lifecycle!Next
<1>11. CASE /\ ctx[e].status = "RUNNING" /\ ctx'[e].status = "RUNNING"
            /\ event'[e] \in Lifecycle!Follows[event[e]]
            /\ Broken(e)' <=> Broken(e)
  <2>1. status' = status
    BY <1>4, <1>5, <1>11 DEF status
  <2>2. Lifecycle!Notify(e)
    BY <1>4, <1>6, <1>8, <1>11, <2>1 DEF Lifecycle!Notify, status, broken
  <2>3. QED
    BY <2>2 DEF Lifecycle!Next, Lifecycle!Proceed
<1>12. CASE /\ ctx[e].status = "RUNNING" /\ ctx'[e].status \in Lifecycle!Final
            /\ event'[e] \in Lifecycle!Follows[event[e]] \cup {event[e]}
            /\ event'[e] \in Lifecycle!LastEvent[ctx'[e].status]
            /\ Broken(e)' <=> Broken(e)
  <2>1. Lifecycle!Close(e)
    BY <1>4, <1>5, <1>6, <1>8, <1>12 DEF Lifecycle!Close, status, broken
  <2>2. QED
    BY <2>1 DEF Lifecycle!Next, Lifecycle!Proceed
<1>13. CASE /\ ctx[e].status = "RUNNING" /\ ctx'[e].status = "FAILED"
            /\ event'[e] = event[e] /\ event[e] \in Lifecycle!Breakable /\ Broken(e)'
  <2>1. event' = event
    BY <1>4, <1>6, <1>13
  <2>2. broken' = [broken EXCEPT ![e] = TRUE]
    BY <1>7, <1>13 DEF Broken
  <2>3. Lifecycle!Break(e)
    BY <1>4, <1>5, <1>13, <2>1, <2>2 DEF Lifecycle!Break, status, broken
  <2>4. QED
    BY <2>3 DEF Lifecycle!Next, Lifecycle!Proceed
<1>14. CASE /\ ctx'[e].status = ctx[e].status /\ event'[e] = event[e]
            /\ Broken(e)' <=> Broken(e)
  <2>1. status' = status /\ event' = event /\ broken' = broken
    BY <1>4, <1>5, <1>6, <1>8, <1>14 DEF status
  <2>2. QED
    BY <2>1
<1>15. QED
  BY <1>1, <1>10, <1>11, <1>12, <1>13, <1>14 DEF Seen

(* What an observer of the events may rely on, for any plugins: the events   *)
(* of a call follow each other as ToolLifecycle allows, and each final       *)
(* status leaves the event behind that announces it, unless an exception     *)
(* left the chain.                                                           *)
THEOREM FollowsLifecycle == Spec => Lifecycle!Init /\ [][Lifecycle!Next]_(Lifecycle!lifecycle)
<1>1. TypeInv /\ TypeInv' /\ TrailInv /\ [Next]_vars =>
         TrailInv' /\ [Lifecycle!Next]_(Lifecycle!lifecycle)
  <2> SUFFICES ASSUME TypeInv, TypeInv', TrailInv, [Next]_vars
               PROVE  TrailInv' /\ [Lifecycle!Next]_(Lifecycle!lifecycle)
    OBVIOUS
  <2>1. CASE Reconfigure \/ UNCHANGED vars
    BY <2>1 DEF Reconfigure, vars, TrailInv, TrailOf, Lifecycle!lifecycle
  <2>2. QED
    BY <2>1, TrailStep DEF Next, StepOf
<1>2. QED
  BY <1>1, InitTrail, TypeInvariance, PTL DEF Spec
=============================================================================
