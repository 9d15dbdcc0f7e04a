---------------------------- MODULE ToolRegistry ----------------------------
(***************************************************************************)
(* slotagent.core.tool_registry on top of PluginPool: threads register and *)
(* unregister tools while others register plugins.  register validates     *)
(* before it takes the lock and hands the tool's plugins to the pool after *)
(* it released it; in between the tool can be found and executed.          *)
(* Fields of a tool other than its id and its plugins are taken to be      *)
(* valid: a tool that validate_tool rejects never gets in.                 *)
(***************************************************************************)
EXTENDS PluginPool

CONSTANTS
    ToolObjects,   \* Tool instances
    ToolId,        \* the tool_id of each
    Declares       \* the plugins mapping of each

ASSUME ToolAssumption ==
    /\ ToolId \in [ToolObjects -> ToolIds]
    /\ Declares \in [ToolObjects -> Config]
    /\ None \notin ToolObjects

VARIABLES
    tools,      \* _tools: the tool of each id, None when absent
    retired     \* history: the ids that were ever unregistered

registryVars == <<global_plugins, tool_plugins, plugin_by_id, pc, arg, tools, retired>>

Init ==
    /\ PoolInit
    /\ pc = [w \in Workers |-> "idle"]
    /\ arg = [w \in Workers |-> None]
    /\ tools = [t \in ToolIds |-> None]
    /\ retired = {}

(* register: validate_tool, outside the lock. *)
BeginRegister(w, o) ==
    /\ pc[w] = "idle"
    /\ Known(Declares[o])
    /\ pc' = [pc EXCEPT ![w] = "store"]
    /\ arg' = [arg EXCEPT ![w] = o]
    /\ UNCHANGED <<poolVars, tools, retired>>

StoreUnchecked(w) ==              \* mutant: uniqueness is not checked under the lock
    /\ pc[w] = "store"
    /\ tools' = [tools EXCEPT ![ToolId[arg[w]]] = arg[w]]
    /\ pc' = [pc EXCEPT ![w] = "configure"]
    /\ UNCHANGED <<poolVars, arg, retired>>

StoreOnly(w) ==                   \* mutant: the pool is not told
    /\ pc[w] = "store"
    /\ tools[ToolId[arg[w]]] = None
    /\ tools' = [tools EXCEPT ![ToolId[arg[w]]] = arg[w]]
    /\ pc' = [pc EXCEPT ![w] = "idle"]
    /\ arg' = [arg EXCEPT ![w] = None]
    /\ UNCHANGED <<poolVars, retired>>

(* Uniqueness check and insertion in one critical section.  A tool without   *)
(* plugins is done; the pool is not told of it.                              *)
StoreTool(w) ==
    LET o == arg[w]  plain == Declares[o] = NoConfig IN
    /\ pc[w] = "store"
    /\ tools[ToolId[o]] = None
    /\ tools' = [tools EXCEPT ![ToolId[o]] = o]
    /\ pc' = [pc EXCEPT ![w] = IF plain THEN "idle" ELSE "configure"]
    /\ arg' = [arg EXCEPT ![w] = IF plain THEN None ELSE o]
    /\ UNCHANGED <<poolVars, retired>>

(* The id is taken: ValueError. *)
StoreRefused(w) ==
    /\ pc[w] = "store"
    /\ tools[ToolId[arg[w]]] # None
    /\ pc' = [pc EXCEPT ![w] = "idle"]
    /\ arg' = [arg EXCEPT ![w] = None]
    /\ UNCHANGED <<poolVars, tools, retired>>

ConfigureTool(w) ==
    /\ pc[w] = "configure"
    /\ SetToolPlugins(ToolId[arg[w]], Declares[arg[w]])
    /\ pc' = [pc EXCEPT ![w] = "idle"]
    /\ arg' = [arg EXCEPT ![w] = None]
    /\ UNCHANGED <<tools, retired>>

(* unregister: the tool goes, its configuration stays in the pool. *)
Unregister(w, t) ==
    /\ pc[w] = "idle"
    /\ tools[t] # None
    /\ tools' = [tools EXCEPT ![t] = None]
    /\ retired' = retired \cup {t}
    /\ UNCHANGED <<poolVars, pc, arg>>

Register(w) ==
    \/ \E o \in ToolObjects : BeginRegister(w, o)
    \/ StoreTool(w) \/ StoreRefused(w) \/ ConfigureTool(w)

Next == \E w \in Workers :
    \/ Register(w)
    \/ \E t \in ToolIds : Unregister(w, t)
    \/ Install(w) /\ UNCHANGED <<tools, retired>>

Spec == Init /\ [][Next]_registryVars

-----------------------------------------------------------------------------
(* Properties *)

TypeOK ==
    /\ global_plugins \in [Layers -> Seq(Plugins)]
    /\ tool_plugins \in [ToolIds -> Config \cup {None}]
    /\ plugin_by_id \in [PluginIds -> Plugins \cup {None}]
    /\ pc \in [Workers -> {"idle", "add_global", "add_id", "store", "configure"}]
    /\ arg \in [Workers -> Plugins \cup ToolObjects \cup {None}]
    /\ tools \in [ToolIds -> ToolObjects \cup {None}]
    /\ retired \subseteq ToolIds

(* A layer that a tool configures is never silently empty: get_plugin finds  *)
(* the plugin of every id the pool has accepted; and a tool that is already  *)
(* stored cannot fail on the way to its configuration.                       *)
ConfigResolves ==
    /\ \A t \in ToolIds, l \in Layers :
          tool_plugins[t] # None /\ tool_plugins[t][l] # None => GetPlugin(l, t) # None
    /\ \A w \in Workers, l \in Layers :
          pc[w] \in {"store", "configure"} /\ Declares[arg[w]][l] # None =>
              plugin_by_id[Declares[arg[w]][l]] # None

(* Racing registrations never displace a registered tool: another object     *)
(* takes an id only after an unregister.                                     *)
NeverDisplaced ==
    [][\A t \in ToolIds : tools[t] # None => tools'[t] \in {tools[t], None}]_registryVars

(* The plugin a layer falls back on does not change once there is one.       *)
(* Holds when one thread registers plugins.                                  *)
DefaultIsStable ==
    [][\A l \in Layers : GlobalDefault(l) # None =>
          GlobalDefault(l)' = GlobalDefault(l)]_registryVars

Configuring(t) == \E w \in Workers : pc[w] = "configure" /\ ToolId[arg[w]] = t

Declared(t) == IF Declares[tools[t]] = NoConfig THEN None ELSE Declares[tools[t]]

InSync(t) == tools[t] # None /\ ~Configuring(t) => tool_plugins[t] = Declared(t)

(* Whatever threads race, a tool whose registration is over has exactly the  *)
(* configuration it declares - as long as its id was never unregistered.     *)
InSyncUntilRetired == \A t \in ToolIds \ retired : InSync(t)

(* tool_interface.md, INV-TR-3: without that proviso. *)
AlwaysInSync == \A t \in ToolIds : InSync(t)

(* plugin_pool.py: registering an id that is registered raises ValueError -  *)
(* here, of two registrations of an id only one gets as far as its write.    *)
IdRegisteredOnce ==
    [][\A w \in Workers : pc[w] = "add_id" /\ pc'[w] # "add_id" =>
          plugin_by_id[PluginId[arg[w]]] = None]_registryVars
=============================================================================
