----------------------------- MODULE Scheduling -----------------------------
(***************************************************************************)
(* CoreScheduler, ToolRegistry and PluginPool together: threads execute    *)
(* tools while other threads register and unregister them.  The registry   *)
(* and the pool take the place of CoreScheduler's Reconfigure; a call      *)
(* reads them where the scheduler calls get_tool and get_plugin.           *)
(***************************************************************************)
EXTENDS ToolRegistry

CONSTANTS Executions, Params, ApprovalIds, PluginResults, Raising, MaxRetries, Opaque

VARIABLES
    at, ctx, frame, event, log,   \* the calls: pc, ctx, frame, event, log of CoreScheduler
    begun                         \* history: the Tool object each call got from
                                  \* get_tool, and whether its registration was over

calls == <<at, ctx, frame, event, log, begun>>
systemVars == <<registryVars, calls>>

Scheduler == INSTANCE CoreScheduler WITH
    Tools <- ToolIds,
    Chains <- [Layers -> Plugins \cup {None}],
    registered <- {t \in ToolIds : tools[t] # None},
    chain <- [t \in ToolIds |-> [l \in Layers |-> GetPlugin(l, t)]],
    pc <- at

ASSUME SchedulerAssumption == Scheduler!ConstantsAssumption /\ Scheduler!NoneAssumption

SystemInit ==
    /\ Init
    /\ at = [e \in Executions |-> "idle"]
    /\ ctx = [e \in Executions |-> Scheduler!NewContext(None, None, "NEW")]
    /\ frame = [e \in Executions |-> Scheduler!NewFrame]
    /\ event = [e \in Executions |-> "none"]
    /\ log = [e \in Executions |-> Scheduler!NewLog(None)]
    /\ begun = [e \in Executions |-> [tool |-> None, settled |-> FALSE]]

Administer == Next /\ UNCHANGED calls

Call(e, t, p) ==
    /\ UNCHANGED registryVars
    /\ Scheduler!Execute(e, t, p)
    /\ begun' = [begun EXCEPT ![e] = [tool |-> tools[t], settled |-> ~Configuring(t)]]

CallUnknown(e, t) ==
    /\ UNCHANGED <<registryVars, begun>>
    /\ Scheduler!ToolNotFound(e, t)

Run(e) == UNCHANGED <<registryVars, begun>> /\ Scheduler!Advance(e)

(* get_plugin raises under the call, because a plugin was inserted meanwhile. *)
LookupRaises(e, layer) ==
    /\ UNCHANGED <<registryVars, begun>>
    /\ Scheduler!LookupRaises(e, layer)
    /\ FallbackRaises(layer, ctx[e].tool)

SystemNext ==
    \/ Administer
    \/ \E e \in Executions, t \in ToolIds, p \in Params : Call(e, t, p)
    \/ \E e \in Executions, t \in ToolIds : CallUnknown(e, t)
    \/ \E e \in Executions : Run(e)
    \/ \E e \in Executions, layer \in Layers : LookupRaises(e, layer)

(* As in CoreScheduler, a call that was begun goes on. *)
SystemSpec == /\ SystemInit /\ [][SystemNext]_systemVars
              /\ \A e \in Executions : WF_systemVars(Run(e))

-----------------------------------------------------------------------------
(* Properties *)

(* What was shown of CoreScheduler under arbitrary reconfiguration holds of  *)
(* it on top of the real pool and registry: they only ever offer it plugins. *)
ImplementsScheduler == Scheduler!Spec

DeclaredGuard(e) == Declares[begun[e].tool]["guard"]

(* A tool that declares a guard never runs past it: the guard consulted is   *)
(* the declared one, and it let the call through - if the call began when    *)
(* the tool's registration was over, and its id has never been unregistered. *)
GuardHonoured ==
    \A e \in Executions :
        /\ log[e].calls # <<>>
        /\ begun[e].settled /\ ctx[e].tool \notin retired
        /\ DeclaredGuard(e) # None
        => /\ frame[e].plugin["guard"] = plugin_by_id[DeclaredGuard(e)]
           /\ frame[e].plugin["guard"] # None
           /\ Scheduler!LetThrough(e, "guard")

(* tool_system.md lists a tool's plugins as registered (step 4) before the   *)
(* tool can be used (step 5): a tool whose id was never unregistered never   *)
(* runs under another guard than the one it declares.                        *)
RunsUnderDeclaredGuard ==
    \A e \in Executions :
        log[e].calls # <<>> /\ ctx[e].tool \notin retired /\ DeclaredGuard(e) # None
            => frame[e].plugin["guard"] = plugin_by_id[DeclaredGuard(e)]
=============================================================================
