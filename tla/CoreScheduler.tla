--------------------------- MODULE CoreScheduler ---------------------------
(***************************************************************************)
(* slotagent.core.core_scheduler: what CoreScheduler.execute and           *)
(* _execute_plugin_chain do for each call, while other threads register    *)
(* tools and plugins.                                                      *)
(*                                                                         *)
(* An element of Executions is one call of execute.  A step of a call does *)
(* at most one of the things another thread can see: one lookup in the     *)
(* registry or the plugin pool, one event, one plugin or tool run.  What a *)
(* plugin returns and whether the tool raises is left open; which plugin   *)
(* serves a layer is read from `chain`, the value get_plugin has at that   *)
(* moment, and may change between two steps of a call.                     *)
(***************************************************************************)
EXTENDS Integers, Sequences, FiniteSets

CONSTANTS
    Executions,      \* calls of execute
    Tools,           \* tool identifiers
    Plugins,         \* plugin instances
    Params,          \* parameter dictionaries
    ApprovalIds,     \* identifiers a guard may hand out
    Chains,          \* the plugins get_plugin may find: a subset of [Layers -> Plugins \cup {None}]
    PluginResults,   \* what execute of each plugin may return, None standing for
                     \* a value that is no PluginResult
    Raising,         \* plugins whose execute may raise
    MaxRetries,      \* getattr(plugin, "max_retries", 1) of each plugin
    None,            \* Python's None
    Opaque           \* a truthy value of PluginResult.data that is not a dict

Layers == {"schema", "guard", "healing", "reflect", "observe"}

Errors == {"plugin", "raised", "blocked", "tool", "internal"}

PluginErrors == {"plugin", "raised"}

(* PluginResult.data, reduced to the keys the scheduler reads.  None stands  *)
(* for every falsy value: data that is not a dict, fixed_params that hold    *)
(* nothing.                                                                  *)
Dict == [pending_approval: BOOLEAN, approval_id: ApprovalIds \cup {None},
         recovered: BOOLEAN, fixed_params: Params \cup {None}]

PluginResult == [success: BOOLEAN, should_continue: BOOLEAN,
                 data: Dict \cup {None, Opaque}, error: PluginErrors \cup {None}]

ASSUME ConstantsAssumption ==
    /\ Chains \subseteq [Layers -> Plugins \cup {None}]
    /\ PluginResults \in [Plugins -> SUBSET (PluginResult \cup {None})]
    /\ Raising \subseteq Plugins
    /\ MaxRetries \in [Plugins -> Int]

ASSUME NoneAssumption ==
    /\ None \notin Plugins /\ None \notin Params /\ None \notin ApprovalIds /\ None \notin Errors
    /\ None \notin PluginResult
    /\ None \notin Dict /\ Opaque \notin Dict /\ Opaque # None

VARIABLES
    registered,   \* tool identifiers get_tool finds
    chain,        \* chain[t][l]: what get_plugin(l, t) returns now
    pc,           \* where each call is
    ctx,          \* the ToolExecutionContext of each call
    frame,        \* the locals of _execute_plugin_chain
    event,        \* the last hook event each call emitted
    log           \* history: what the caller passed, the tool runs, the recoveries

pool == <<registered, chain>>
vars == <<registered, chain, pc, ctx, frame, event, log>>

(* Labels of a call: the code it runs next. *)
Running == {"schema", "run_schema", "schema_failed", "guard", "run_guard",
            "guard_stopped", "before_exec", "healing_lookup", "attempt",
            "heal", "retry", "give_up", "reflect", "observe"}
Labels == Running \cup {"idle", "raised", "returned"}

Statuses == {"NEW", "RUNNING", "PENDING_APPROVAL", "COMPLETED", "FAILED"}

(* event_type of the hook events; FailEvent is split by its failed_stage and *)
(* AfterHealingEvent by its recovered flag.                                  *)
Events == {"none", "before_schema", "after_schema", "schema_fail", "before_guard",
           "wait_approval", "guard_block", "before_exec", "after_exec", "exec_fail",
           "healing_recovered", "healing_failed", "retry_started", "after_reflect"}

Context == [tool: Tools \cup {None}, params: Params \cup {None}, status: Statuses,
            plugin_results: [Layers -> PluginResult \cup {None}],
            final_result: BOOLEAN,   \* is it something else than None
            error: Errors \cup {None}, approval_id: ApprovalIds \cup {None}]

Frame == [plugin: [Layers -> Plugins \cup {None}], attempt: Nat, max_attempts: Int,
          previous: SUBSET (Layers \cup {"result", "error"})]

Log == [asked: Params \cup {None}, calls: Seq([params: Params, ok: BOOLEAN]),
        recoveries: Nat]

NewFrame == [plugin |-> [l \in Layers |-> None], attempt |-> 0, max_attempts |-> 0,
             previous |-> {}]

NewContext(t, p, s) ==
    [tool |-> t, params |-> p, status |-> s, plugin_results |-> [l \in Layers |-> None],
     final_result |-> FALSE, error |-> None, approval_id |-> None]

NewLog(p) == [asked |-> p, calls |-> <<>>, recoveries |-> 0]

Init ==
    /\ registered \in SUBSET Tools
    /\ chain \in [Tools -> Chains]
    /\ pc = [e \in Executions |-> "idle"]
    /\ ctx = [e \in Executions |-> NewContext(None, None, "NEW")]
    /\ frame = [e \in Executions |-> NewFrame]
    /\ event = [e \in Executions |-> "none"]
    /\ log = [e \in Executions |-> NewLog(None)]

-----------------------------------------------------------------------------
(* Helpers *)

Jump(e, from, to) == pc[e] = from /\ pc' = [pc EXCEPT ![e] = to]

Emit(e, ev) == event' = [event EXCEPT ![e] = ev]

GetPlugin(e, layer) == chain[ctx[e].tool][layer]

(* _execute_plugin: an exception becomes a result that stops the chain. *)
PluginExecutionError ==
    [success |-> FALSE, should_continue |-> FALSE, data |-> None, error |-> "raised"]

Outcomes(p) ==
    (PluginResults[p] \ {None}) \cup (IF p \in Raising THEN {PluginExecutionError} ELSE {})

(* context.plugin_results[layer] = result; previous_results[layer] = result.data *)
Recorded(e, layer, r) == [ctx EXCEPT ![e].plugin_results[layer] = r]
Noted(e, key) == [frame EXCEPT ![e].previous = @ \cup {key}]

(* A layer lets the call through on should_continue, not on success. *)
AdmitsOnSuccess(r) == r.success   \* mutant: the other flag
Admits(r) == r.should_continue

Conclude(e, status, error) ==
    ctx' = [ctx EXCEPT ![e].status = status, ![e].error = error]

(* The except clause of execute: any exception in the chain ends in FAILED. *)
Crash(e) == Conclude(e, "FAILED", "internal") /\ UNCHANGED event

-----------------------------------------------------------------------------
(* The environment: the registry and the pool change under the calls. *)

Reconfigure ==
    /\ registered' \in SUBSET Tools
    /\ chain' \in [Tools -> Chains]
    /\ UNCHANGED <<pc, ctx, frame, event, log>>

(* execute: get_tool, then a fresh context in RUNNING. *)
Execute(e, t, p) ==
    /\ t \in registered
    /\ Jump(e, "idle", "schema")
    /\ ctx' = [ctx EXCEPT ![e] = NewContext(t, p, "RUNNING")]
    /\ log' = [log EXCEPT ![e] = NewLog(p)]
    /\ UNCHANGED <<pool, frame, event>>

(* execute of an unknown tool raises ToolNotFoundError: no context, no event. *)
ToolNotFound(e, t) ==
    /\ t \notin registered
    /\ Jump(e, "idle", "raised")
    /\ UNCHANGED <<pool, ctx, frame, event, log>>

(* The lookup that opens the schema and guard layers: a plugin is announced, *)
(* a layer without one is skipped.                                           *)
Lookup(e, layer, run, skip, announce) ==
    LET p == GetPlugin(e, layer) IN
    /\ pc[e] = layer
    /\ \/ p = None /\ Jump(e, layer, skip) /\ UNCHANGED event
       \/ p # None /\ Jump(e, layer, run) /\ Emit(e, announce)
    /\ frame' = [frame EXCEPT ![e].plugin[layer] = p]
    /\ UNCHANGED <<pool, ctx, log>>

SchemaLookup(e) == Lookup(e, "schema", "run_schema", "guard", "before_schema")
GuardLookup(e) == Lookup(e, "guard", "run_guard", "before_exec", "before_guard")

RunSchema(e, r) ==
    /\ Jump(e, "run_schema", IF Admits(r) THEN "guard" ELSE "schema_failed")
    /\ ctx' = Recorded(e, "schema", r)
    /\ frame' = Noted(e, "schema")
    /\ Emit(e, "after_schema")
    /\ UNCHANGED <<pool, log>>

SchemaFailedSilently(e) ==        \* mutant: the fail event is not emitted
    /\ Jump(e, "schema_failed", "returned")
    /\ Conclude(e, "FAILED", ctx[e].plugin_results["schema"].error)
    /\ UNCHANGED <<pool, frame, event, log>>

SchemaFailed(e) ==
    /\ Jump(e, "schema_failed", "returned")
    /\ Conclude(e, "FAILED", ctx[e].plugin_results["schema"].error)
    /\ Emit(e, "schema_fail")
    /\ UNCHANGED <<pool, frame, log>>

RunGuard(e, r) ==
    /\ Jump(e, "run_guard", IF Admits(r) THEN "before_exec" ELSE "guard_stopped")
    /\ ctx' = Recorded(e, "guard", r)
    /\ frame' = Noted(e, "guard")
    /\ UNCHANGED <<pool, event, log>>

(* The guard stopped the call: it awaits approval, or is blocked, or - when  *)
(* result.data has no get method - the handler itself raises.                *)
GuardStopped(e) ==
    LET data == ctx[e].plugin_results["guard"].data IN
    /\ Jump(e, "guard_stopped", "returned")
    /\ \/ /\ data \in Dict /\ data.pending_approval
          /\ ctx' = [ctx EXCEPT ![e].status = "PENDING_APPROVAL",
                                ![e].approval_id = data.approval_id]
          /\ Emit(e, "wait_approval")
       \/ /\ data \in Dict /\ ~data.pending_approval
          /\ Conclude(e, "FAILED", "blocked")
          /\ Emit(e, "guard_block")
       \/ data \notin Dict /\ Crash(e)
    /\ UNCHANGED <<pool, frame, log>>

BeforeExec(e) ==
    /\ Jump(e, "before_exec", "healing_lookup")
    /\ Emit(e, "before_exec")
    /\ UNCHANGED <<pool, ctx, frame, log>>

MaxAttempts(p) == 1 + (IF p = None THEN 0 ELSE MaxRetries[p])

(* Entry of the retry loop: `range` is empty when max_attempts is not        *)
(* positive, and the context is returned as it is.                           *)
HealingLookup(e) ==
    LET p == GetPlugin(e, "healing")
        n == MaxAttempts(p)
    IN  /\ pc[e] = "healing_lookup"
        /\ Jump(e, "healing_lookup", IF n > 0 THEN "attempt" ELSE "returned")
        /\ frame' = [frame EXCEPT ![e].plugin["healing"] = p,
                                  ![e].attempt = 0, ![e].max_attempts = n]
        /\ UNCHANGED <<pool, ctx, event, log>>

Called(e, ok) == log' = [log EXCEPT ![e].calls =
                           Append(@, [params |-> ctx[e].params, ok |-> ok])]

ToolReturns(e) ==
    /\ Jump(e, "attempt", "reflect")
    /\ \E some \in BOOLEAN : ctx' = [ctx EXCEPT ![e].final_result = some]
    /\ frame' = Noted(e, "result")
    /\ Called(e, TRUE)
    /\ Emit(e, "after_exec")
    /\ UNCHANGED pool

MayHealOnLast(e) ==               \* mutant: one attempt too many
    /\ frame[e].plugin["healing"] # None
    /\ frame[e].attempt < frame[e].max_attempts
MayHeal(e) == /\ frame[e].plugin["healing"] # None
              /\ frame[e].attempt < frame[e].max_attempts - 1

ToolRaises(e) ==
    /\ Jump(e, "attempt", IF MayHeal(e) THEN "heal" ELSE "give_up")
    /\ frame' = Noted(e, "error")
    /\ Called(e, FALSE)
    /\ Emit(e, "exec_fail")
    /\ UNCHANGED <<pool, ctx>>

UncheckedFix(e, r) ==             \* mutant: fixed_params applied when it is None
    IF r.data \in Dict THEN r.data.fixed_params ELSE ctx[e].params
FixedParams(e, r) ==
    IF r.data \in Dict /\ r.data.fixed_params # None THEN r.data.fixed_params
                                                     ELSE ctx[e].params

(* The healing plugin runs on the error.  Its fixed_params replace           *)
(* context.params whether or not it claims to have recovered.                *)
Heal(e, r) ==
    LET recovered == r.success /\ r.data \in Dict /\ r.data.recovered
    IN  /\ r.data # Opaque
        /\ Jump(e, "heal", IF recovered THEN "retry" ELSE "give_up")
        /\ ctx' = [Recorded(e, "healing", r) EXCEPT ![e].params = FixedParams(e, r)]
        /\ frame' = Noted(e, "healing")
        /\ Emit(e, IF recovered THEN "healing_recovered" ELSE "healing_failed")
        /\ log' = [log EXCEPT ![e].recoveries = IF recovered THEN @ + 1 ELSE @]
        /\ UNCHANGED pool

HealCrashEscapes(e, r) ==         \* mutant: no except clause around the chain
    /\ r.data = Opaque
    /\ Jump(e, "heal", "raised")
    /\ ctx' = Recorded(e, "healing", r)
    /\ frame' = Noted(e, "healing")
    /\ UNCHANGED <<pool, event, log>>

(* Healing data without a get method raises out of the loop. *)
HealCrash(e, r) ==
    /\ r.data = Opaque
    /\ Jump(e, "heal", "returned")
    /\ ctx' = [Recorded(e, "healing", r) EXCEPT ![e].status = "FAILED",
                                                ![e].error = "internal"]
    /\ frame' = Noted(e, "healing")
    /\ UNCHANGED <<pool, event, log>>

StartRetry(e) ==
    /\ Jump(e, "retry", "attempt")
    /\ frame' = [frame EXCEPT ![e].attempt = @ + 1]
    /\ Emit(e, "retry_started")
    /\ UNCHANGED <<pool, ctx, log>>

GiveUpFallsThrough(e) ==          \* mutant: no return after the failure is recorded
    /\ Jump(e, "give_up", "reflect")
    /\ Conclude(e, "FAILED", "tool")
    /\ UNCHANGED <<pool, frame, event, log>>

GiveUp(e) ==
    /\ Jump(e, "give_up", "returned")
    /\ Conclude(e, "FAILED", "tool")
    /\ UNCHANGED <<pool, frame, event, log>>

ReflectVetoes(e) ==               \* mutant: a failed reflection fails the call
    LET p == GetPlugin(e, "reflect") IN
    /\ pc[e] = "reflect" /\ p # None
    /\ \E r \in Outcomes(p) :
          /\ Jump(e, "reflect", IF r.success THEN "observe" ELSE "returned")
          /\ ctx' = IF r.success THEN Recorded(e, "reflect", r)
                    ELSE [Recorded(e, "reflect", r) EXCEPT ![e].status = "FAILED"]
    /\ frame' = [Noted(e, "reflect") EXCEPT ![e].plugin["reflect"] = p]
    /\ Emit(e, "after_reflect")
    /\ UNCHANGED <<pool, log>>

(* A failed or raising reflection or observation leaves the verdict alone.  *)
Reflect(e) ==
    LET p == GetPlugin(e, "reflect") IN
    /\ pc[e] = "reflect"
    /\ Jump(e, "reflect", "observe")
    /\ \/ /\ p = None
          /\ frame' = [frame EXCEPT ![e].plugin["reflect"] = None]
          /\ UNCHANGED <<ctx, event>>
       \/ /\ p # None
          /\ \E r \in Outcomes(p) : ctx' = Recorded(e, "reflect", r)
          /\ frame' = [Noted(e, "reflect") EXCEPT ![e].plugin["reflect"] = p]
          /\ Emit(e, "after_reflect")
    /\ UNCHANGED <<pool, log>>

Observe(e) ==
    LET p == GetPlugin(e, "observe") IN
    /\ pc[e] = "observe"
    /\ Jump(e, "observe", "returned")
    /\ \/ /\ p = None
          /\ frame' = [frame EXCEPT ![e].plugin["observe"] = None]
          /\ ctx' = [ctx EXCEPT ![e].status = "COMPLETED"]
       \/ /\ p # None
          /\ \E r \in Outcomes(p) :
                ctx' = [Recorded(e, "observe", r) EXCEPT ![e].status = "COMPLETED"]
          /\ frame' = [Noted(e, "observe") EXCEPT ![e].plugin["observe"] = p]
    /\ UNCHANGED <<pool, event, log>>

(* The label at which each layer runs its plugin, and looks it up. *)
RunLabel == [schema |-> "run_schema", guard |-> "run_guard", healing |-> "heal",
             reflect |-> "reflect", observe |-> "observe"]
LookupLabel == [l \in Layers |-> IF l = "healing" THEN "healing_lookup" ELSE l]

(* reflect and observe run the plugin they have just looked up. *)
Serving(e, layer) == IF layer \in {"reflect", "observe"} THEN GetPlugin(e, layer)
                                                         ELSE frame[e].plugin[layer]

(* A plugin returned no PluginResult: it is recorded all the same, and       *)
(* reading its data raises, outside the try of _execute_plugin.              *)
ReturnedNoResult(e, layer) ==
    LET p == Serving(e, layer) IN
    /\ Jump(e, RunLabel[layer], "returned")
    /\ p # None /\ None \in PluginResults[p]
    /\ ctx' = [Recorded(e, layer, None) EXCEPT ![e].status = "FAILED",
                                              ![e].error = "internal"]
    /\ frame' = [frame EXCEPT ![e].plugin[layer] = p]
    /\ UNCHANGED <<pool, event, log>>

(* get_plugin raises: its next(iter(...)) met an insertion by another thread. *)
LookupRaises(e, layer) ==
    /\ Jump(e, LookupLabel[layer], "returned")
    /\ Crash(e)
    /\ UNCHANGED <<pool, frame, log>>

(* The plugin found at the lookup returns or raises. *)
RunPlugin(e) ==
    \/ /\ pc[e] = "run_schema"
       /\ \E r \in Outcomes(frame[e].plugin["schema"]) : RunSchema(e, r)
    \/ /\ pc[e] = "run_guard"
       /\ \E r \in Outcomes(frame[e].plugin["guard"]) : RunGuard(e, r)
    \/ /\ pc[e] = "heal"
       /\ \E r \in Outcomes(frame[e].plugin["healing"]) : Heal(e, r) \/ HealCrash(e, r)

Call(e) == \/ \E t \in Tools, p \in Params : Execute(e, t, p)
           \/ \E t \in Tools : ToolNotFound(e, t)

Advance(e) ==
    \/ SchemaLookup(e) \/ SchemaFailed(e) \/ GuardLookup(e) \/ GuardStopped(e)
    \/ BeforeExec(e) \/ HealingLookup(e) \/ ToolReturns(e) \/ ToolRaises(e)
    \/ RunPlugin(e) \/ StartRetry(e) \/ GiveUp(e) \/ Reflect(e) \/ Observe(e)
    \/ \E layer \in Layers : ReturnedNoResult(e, layer)

Next ==
    \/ Reconfigure
    \/ \E e \in Executions : Call(e) \/ Advance(e)
    \/ \E e \in Executions, layer \in Layers : LookupRaises(e, layer)

(* A call, once begun, is run by its thread to the end: plugins and tools    *)
(* are assumed to return or raise.                                           *)
Fairness == \A e \in Executions : WF_vars(Advance(e))

Spec == Init /\ [][Next]_vars /\ Fairness

-----------------------------------------------------------------------------
(* Properties *)

TypeOK ==
    /\ registered \subseteq Tools
    /\ chain \in [Tools -> Chains]
    /\ pc \in [Executions -> Labels]
    /\ ctx \in [Executions -> Context]
    /\ frame \in [Executions -> Frame]
    /\ event \in [Executions -> Events]
    /\ log \in [Executions -> Log]

LetThrough(e, layer) ==
    \/ frame[e].plugin[layer] = None
    \/ /\ ctx[e].plugin_results[layer] # None
       /\ ctx[e].plugin_results[layer].should_continue

(* The tool function runs only in a call whose schema plugin and guard       *)
(* plugin, where the lookups found one, both ran and let it through; and its *)
(* first run gets the very params the schema plugin saw.                     *)
Admission ==
    \A e \in Executions : log[e].calls # <<>> =>
        /\ LetThrough(e, "schema") /\ LetThrough(e, "guard")
        /\ log[e].calls[1].params = log[e].asked

(* The tool never runs more often than max_attempts, every run after the     *)
(* first was licensed by a healing plugin that recovered, and no run follows *)
(* one that returned.                                                        *)
RetryBound ==
    \A e \in Executions : LET calls == log[e].calls IN
        /\ calls # <<>> => Len(calls) <= frame[e].max_attempts
        /\ Len(calls) <= log[e].recoveries + 1
        /\ \A i \in 1 .. Len(calls) - 1 : ~calls[i].ok

Succeeded(e) ==
    LET calls == log[e].calls IN calls # <<>> /\ calls[Len(calls)].ok

(* The verdict is what the tool did: COMPLETED and a final_result mean that  *)
(* its last run returned; a call whose last run returned is COMPLETED,       *)
(* unless an exception left the chain after it (a reflect or observe plugin  *)
(* returned no PluginResult, a lookup raised); and nothing ran if approval   *)
(* is awaited.                                                               *)
Verdict ==
    \A e \in Executions : pc[e] = "returned" =>
        /\ ctx[e].status = "COMPLETED" => Succeeded(e)
        /\ ctx[e].final_result => Succeeded(e)
        /\ Succeeded(e) => \/ ctx[e].status = "COMPLETED"
                           \/ ctx[e].status = "FAILED" /\ ctx[e].error = "internal"
        /\ ctx[e].status = "PENDING_APPROVAL" => log[e].calls = <<>>

(* The transitions types.py lists for ExecutionStatus. *)
Transitions ==
    {<<"RUNNING", s>> : s \in {"COMPLETED", "FAILED", "PENDING_APPROVAL"}}
    \cup {<<"PENDING_APPROVAL", s>> : s \in {"RUNNING", "FAILED"}}

(* The status of a call that has begun moves along those transitions only,   *)
(* and COMPLETED and FAILED keep their error: neither a later layer nor the  *)
(* except clause revises a verdict.                                          *)
StatusIsFinal ==
    [][\A e \in Executions : LET s == ctx[e].status IN
          /\ s # "NEW" /\ ctx'[e].status # s => <<s, ctx'[e].status>> \in Transitions
          /\ s \in {"COMPLETED", "FAILED"} => ctx'[e].error = ctx[e].error]_vars

(* Every call of a registered tool returns, however healing answers: the     *)
(* retry loop cannot go on for ever.                                         *)
EventuallyReturns ==
    \A e \in Executions : pc[e] = "schema" ~> pc[e] = "returned"

(* The calls follow the order of events ToolLifecycle allows. *)
Lifecycle == INSTANCE ToolLifecycle WITH
    status <- [e \in Executions |-> ctx[e].status],
    broken <- [e \in Executions |-> ctx[e].error = "internal"]

ImplementsLifecycle == Lifecycle!Spec

-----------------------------------------------------------------------------
(* What a document says and the code does not do *)

(* interfaces.py: for the guard and every later plugin, context.params has   *)
(* passed schema validation - here, it is what the schema plugin ran on.     *)
LaterLayersSeeValidatedParams ==
    \A e \in Executions :
        pc[e] = "reflect" /\ frame[e].plugin["schema"] # None =>
            ctx[e].params = log[e].asked

(* execute's documented postcondition: the context it returns is COMPLETED,  *)
(* FAILED or PENDING_APPROVAL.                                               *)
ReturnsTerminal ==
    \A e \in Executions : pc[e] = "returned" =>
        ctx[e].status \in {"COMPLETED", "FAILED", "PENDING_APPROVAL"}
=============================================================================
