----------------------------- MODULE PluginPool -----------------------------
(***************************************************************************)
(* slotagent.core.plugin_pool: global plugins, tool-level configurations   *)
(* and the lookup the scheduler makes.  The pool has no lock, so a         *)
(* registration is cut between its check and each of its writes.           *)
(* Calls that raise (unknown or duplicate ids) change nothing: they are    *)
(* not steps.  ToolRegistry adds the operations of the registry.           *)
(***************************************************************************)
EXTENDS Naturals, Sequences

CONSTANTS
    Workers,       \* threads that register plugins and tools
    Installers,    \* those of them that register plugins
    Plugins,       \* plugin instances that pass validate()
    PluginIds,
    PluginId,      \* the plugin_id of each plugin
    LayerOf,       \* the layer of each plugin
    ToolIds,
    None

Layers == {"schema", "guard", "healing", "reflect", "observe"}

(* A tool's plugins mapping, None where it names no plugin.  Any plugin may  *)
(* be named for any layer: nobody compares the two.                          *)
Config == [Layers -> PluginIds \cup {None}]
NoConfig == [l \in Layers |-> None]

ASSUME PoolAssumption ==
    /\ Installers \subseteq Workers
    /\ PluginId \in [Plugins -> PluginIds]
    /\ LayerOf \in [Plugins -> Layers]
    /\ None \notin Plugins \cup PluginIds \cup ToolIds /\ None \notin Config

VARIABLES
    global_plugins,   \* per layer, the plugins in order of registration
    tool_plugins,     \* the configuration of each tool id, None when absent
    plugin_by_id,     \* the plugin of each id, None when absent
    pc,               \* what each worker is doing
    arg               \* the plugin or tool it is registering

poolVars == <<global_plugins, tool_plugins, plugin_by_id>>

PoolInit ==
    /\ global_plugins = [l \in Layers |-> <<>>]
    /\ tool_plugins = [t \in ToolIds |-> None]
    /\ plugin_by_id = [i \in PluginIds |-> None]

-----------------------------------------------------------------------------
(* get_plugin: the tool's own plugin, else the first global one of the layer *)

GlobalDefault(layer) ==
    IF global_plugins[layer] = <<>> THEN None ELSE Head(global_plugins[layer])

FirstId(layer, t) ==              \* mutant: the id is returned, not its plugin
    IF tool_plugins[t] # None /\ tool_plugins[t][layer] # None
      THEN tool_plugins[t][layer]
      ELSE GlobalDefault(layer)

(* The plugin get_plugin returns, if it returns: the reads are one step.     *)
GetPlugin(layer, t) ==
    IF tool_plugins[t] # None /\ tool_plugins[t][layer] # None
      THEN plugin_by_id[tool_plugins[t][layer]]
      ELSE GlobalDefault(layer)

(* The fallback is next(iter(values)), which raises RuntimeError when another *)
(* thread puts a plugin into the layer between the two calls.  A reader      *)
(* meets that while the writer stands right behind its insertion, in a layer *)
(* that was not empty before.                                                *)
FallbackRaises(layer, t) ==
    LET plugins == global_plugins[layer] IN
    /\ tool_plugins[t] = None \/ tool_plugins[t][layer] = None
    /\ Len(plugins) > 1
    /\ \E w \in Workers : pc[w] = "add_id" /\ arg[w] = plugins[Len(plugins)]

-----------------------------------------------------------------------------
(* register_global_plugin: the duplicate check, then one write after the     *)
(* other.                                                                    *)

BeginInstall(w, p) ==
    /\ pc[w] = "idle" /\ w \in Installers
    /\ plugin_by_id[PluginId[p]] = None
    /\ pc' = [pc EXCEPT ![w] = "add_global"]
    /\ arg' = [arg EXCEPT ![w] = p]
    /\ UNCHANGED poolVars

(* A dict keeps the place of a key it already has and puts a new one last. *)
NewestFirst(plugins, p) == <<p>> \o plugins   \* mutant: put first
Inserted(plugins, p) ==
    IF \E k \in DOMAIN plugins : PluginId[plugins[k]] = PluginId[p]
      THEN [k \in DOMAIN plugins |->
              IF PluginId[plugins[k]] = PluginId[p] THEN p ELSE plugins[k]]
      ELSE Append(plugins, p)

AddGlobal(w) ==
    /\ pc[w] = "add_global"
    /\ global_plugins' = [global_plugins EXCEPT ![LayerOf[arg[w]]] = Inserted(@, arg[w])]
    /\ pc' = [pc EXCEPT ![w] = "add_id"]
    /\ UNCHANGED <<tool_plugins, plugin_by_id, arg>>

AddId(w) ==
    /\ pc[w] = "add_id"
    /\ plugin_by_id' = [plugin_by_id EXCEPT ![PluginId[arg[w]]] = arg[w]]
    /\ pc' = [pc EXCEPT ![w] = "idle"]
    /\ arg' = [arg EXCEPT ![w] = None]
    /\ UNCHANGED <<global_plugins, tool_plugins>>

Install(w) == (\E p \in Plugins : BeginInstall(w, p)) \/ AddGlobal(w) \/ AddId(w)

(* register_tool_plugins: every id is looked up, then the configuration is   *)
(* replaced as a whole.  No id ever leaves the pool, so a check that         *)
(* succeeded still holds at the write.                                       *)
SomeKnown(config) ==              \* mutant: one known plugin is enough
    \E l \in Layers : config[l] # None /\ plugin_by_id[config[l]] # None
Known(config) == \A l \in Layers : config[l] # None => plugin_by_id[config[l]] # None

SetToolPlugins(t, config) ==
    /\ Known(config)
    /\ tool_plugins' = [tool_plugins EXCEPT ![t] = config]
    /\ UNCHANGED <<global_plugins, plugin_by_id>>
=============================================================================
