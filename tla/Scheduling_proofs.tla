------------------------- MODULE Scheduling_proofs -------------------------
(***************************************************************************)
(* The registry and the pool, for any number of threads, plugins and       *)
(* tools; then the scheduler on top of them, for any number of calls: it   *)
(* behaves as CoreScheduler does under reconfiguration, and a declared     *)
(* guard is honoured.                                                      *)
(*                                                                         *)
(* The first part is about ToolRegistry alone (Spec); the second uses its  *)
(* lemmas for the steps of SystemSpec, and those of CoreScheduler_proofs   *)
(* under the same substitution as Scheduling's Scheduler: P!Next is        *)
(* Scheduler!Next.                                                         *)
(***************************************************************************)
EXTENDS Scheduling, TLAPS

-----------------------------------------------------------------------------
(* The registry and the pool *)

(* What a worker carries fits what it does. *)
Carries ==
    \A w \in Workers :
        /\ pc[w] \in {"add_global", "add_id"} => arg[w] \in Plugins
        /\ pc[w] \in {"store", "configure"} => arg[w] \in ToolObjects

TypeInv == TypeOK /\ Carries

(* An id that was never unregistered and has no tool has no configuration    *)
(* and gets none.                                                            *)
Unclaimed ==
    \A t \in ToolIds \ retired :
        tools[t] = None => tool_plugins[t] = None /\ ~Configuring(t)

(* Whoever configures an id that was never unregistered stored its tool.     *)
Claimed ==
    \A w \in Workers : pc[w] = "configure" =>
        /\ Declares[arg[w]] # NoConfig
        /\ ToolId[arg[w]] \notin retired => tools[ToolId[arg[w]]] = arg[w]

OneInstaller == \A v, w \in Installers : v = w

(* Between its check and its writes, a lone installer's id stays free ...    *)
IdFree ==
    \A w \in Workers : pc[w] \in {"add_global", "add_id"} =>
        w \in Installers /\ plugin_by_id[PluginId[arg[w]]] = None

(* ... and every plugin of a layer has its id registered, or is about to.    *)
Listed ==
    \A l \in Layers : \A k \in DOMAIN global_plugins[l] :
        \/ plugin_by_id[PluginId[global_plugins[l][k]]] # None
        \/ \E w \in Workers :
              pc[w] = "add_id" /\ PluginId[arg[w]] = PluginId[global_plugins[l][k]]

InstallInv == TypeInv /\ IdFree /\ Listed

-----------------------------------------------------------------------------
(* Types *)

(* Inserting a plugin in a layer gives a sequence of plugins that holds it   *)
(* and plugins that were there.                                              *)
LEMMA InsertedType ==
    ASSUME NEW s \in Seq(Plugins), NEW p \in Plugins
    PROVE  /\ Inserted(s, p) \in Seq(Plugins)
           /\ \A k \in DOMAIN Inserted(s, p) :
                 Inserted(s, p)[k] = p \/ (k \in DOMAIN s /\ Inserted(s, p)[k] = s[k])
  <1>1. CASE \E k \in DOMAIN s : PluginId[s[k]] = PluginId[p]
    <2> DEFINE r == [k \in DOMAIN s |-> IF PluginId[s[k]] = PluginId[p] THEN p ELSE s[k]]
    <2>1. Inserted(s, p) = r
      BY <1>1 DEF Inserted
    <2>2. DOMAIN s = 1 .. Len(s) /\ Len(s) \in Nat /\ \A k \in DOMAIN s : s[k] \in Plugins
      OBVIOUS
    <2>3. r \in [1 .. Len(s) -> Plugins]
      BY <2>2
    <2>4. r \in Seq(Plugins)
      BY <2>2, <2>3
    <2> QED
      BY <2>1, <2>4
  <1>2. CASE ~ \E k \in DOMAIN s : PluginId[s[k]] = PluginId[p]
    <2>1. Inserted(s, p) = Append(s, p)
      BY <1>2 DEF Inserted
    <2> QED
      BY <2>1
  <1> QED
    BY <1>1, <1>2

(* No configuration is a configuration. *)
LEMMA NoConfigType == NoConfig \in Config
  BY DEF NoConfig, Config

(* The initial state is well typed. *)
LEMMA InitTypes == Init => TypeInv
  BY DEF Init, PoolInit, TypeInv, TypeOK, Carries

(* Every step keeps the types. *)
LEMMA NextTypes == TypeInv /\ [Next]_registryVars => TypeInv'
  <1> SUFFICES ASSUME TypeInv, [Next]_registryVars PROVE TypeInv'
    OBVIOUS
  <1> USE DEF TypeInv, TypeOK, Carries, poolVars
  <1>1. ASSUME NEW w \in Workers, NEW o \in ToolObjects, BeginRegister(w, o) PROVE TypeInv'
    BY <1>1 DEF BeginRegister
  <1>2. ASSUME NEW w \in Workers, StoreTool(w) PROVE TypeInv'
    <2>1. arg[w] \in ToolObjects /\ ToolId[arg[w]] \in ToolIds
      BY <1>2, ToolAssumption DEF StoreTool, ToolAssumption
    <2>2. TypeOK'
      BY <1>2, <2>1 DEF StoreTool
    <2>3. Carries'
      BY <1>2, <2>1 DEF StoreTool
    <2> QED
      BY <2>2, <2>3
  <1>3. ASSUME NEW w \in Workers, StoreRefused(w) PROVE TypeInv'
    BY <1>3 DEF StoreRefused
  <1>4. ASSUME NEW w \in Workers, ConfigureTool(w) PROVE TypeInv'
    <2>1. arg[w] \in ToolObjects /\ ToolId[arg[w]] \in ToolIds /\ Declares[arg[w]] \in Config
      BY <1>4, ToolAssumption DEF ConfigureTool, ToolAssumption
    <2>2. tool_plugins' \in [ToolIds -> Config \cup {None}]
      BY <1>4, <2>1 DEF ConfigureTool, SetToolPlugins
    <2> QED
      BY <1>4, <2>2 DEF ConfigureTool, SetToolPlugins
  <1>5. ASSUME NEW w \in Workers, NEW t \in ToolIds, Unregister(w, t) PROVE TypeInv'
    BY <1>5 DEF Unregister
  <1>6. ASSUME NEW w \in Workers, Install(w), UNCHANGED <<tools, retired>> PROVE TypeInv'
    <2>1. ASSUME NEW p \in Plugins, BeginInstall(w, p) PROVE TypeInv'
      BY <1>6, <2>1 DEF BeginInstall
    <2>2. CASE AddGlobal(w)
      <3>1. arg[w] \in Plugins /\ LayerOf[arg[w]] \in Layers
        BY <2>2, PoolAssumption DEF AddGlobal, PoolAssumption
      <3>2. Inserted(global_plugins[LayerOf[arg[w]]], arg[w]) \in Seq(Plugins)
        BY <3>1, InsertedType
      <3>3. global_plugins' \in [Layers -> Seq(Plugins)]
        BY <2>2, <3>1, <3>2 DEF AddGlobal
      <3> QED
        BY <1>6, <2>2, <3>3 DEF AddGlobal
    <2>3. CASE AddId(w)
      <3>1. arg[w] \in Plugins /\ PluginId[arg[w]] \in PluginIds
        BY <2>3, PoolAssumption DEF AddId, PoolAssumption
      <3>2. plugin_by_id' \in [PluginIds -> Plugins \cup {None}]
        BY <2>3, <3>1 DEF AddId
      <3> QED
        BY <1>6, <2>3, <3>2 DEF AddId
    <2> QED
      BY <1>6, <2>1, <2>2, <2>3 DEF Install
  <1>7. CASE UNCHANGED registryVars
    BY <1>7 DEF registryVars
  <1> QED
    BY <1>1, <1>2, <1>3, <1>4, <1>5, <1>6, <1>7 DEF Next, Register

(* Every state is well typed. *)
THEOREM TypeCorrect == Spec => []TypeInv
  BY InitTypes, NextTypes, PTL DEF Spec

-----------------------------------------------------------------------------
(* What a step does to the ids in the pool *)

(* No id ever leaves the pool. *)
LEMMA IdsStay ==
    ASSUME TypeInv, [Next]_registryVars, NEW i \in PluginIds, plugin_by_id[i] # None
    PROVE  plugin_by_id'[i] # None
  <1>1. ASSUME NEW w \in Workers, AddId(w) PROVE plugin_by_id'[i] # None
    <2>1. arg[w] \in Plugins /\ arg[w] # None
      BY <1>1, PoolAssumption DEF AddId, TypeInv, Carries, PoolAssumption
    <2> QED
      BY <1>1, <2>1 DEF AddId, TypeInv, TypeOK
  <1>2. \/ \E w \in Workers : AddId(w)
        \/ plugin_by_id' = plugin_by_id
    BY DEF Next, Register, BeginRegister, StoreTool, StoreRefused, ConfigureTool,
           SetToolPlugins, Unregister, Install, BeginInstall, AddGlobal, poolVars,
           registryVars
  <1> QED
    BY <1>1, <1>2

(* Nor does a configuration that resolved stop doing so. *)
LEMMA KnownStays ==
    ASSUME TypeInv, [Next]_registryVars, NEW c \in Config, Known(c)
    PROVE  \A l \in Layers : c[l] # None => plugin_by_id'[c[l]] # None
  <1> SUFFICES ASSUME NEW l \in Layers, c[l] # None PROVE plugin_by_id'[c[l]] # None
    OBVIOUS
  <1>1. c[l] \in PluginIds
    BY DEF Config
  <1> QED
    BY <1>1, IdsStay DEF Known

(* ConfigResolves, said of whole configurations. *)
LEMMA Resolves ==
    ASSUME TypeInv
    PROVE  ConfigResolves <=>
              /\ \A t \in ToolIds : tool_plugins[t] # None => Known(tool_plugins[t])
              /\ \A w \in Workers :
                    pc[w] \in {"store", "configure"} => Known(Declares[arg[w]])
  BY DEF ConfigResolves, GetPlugin, Known

-----------------------------------------------------------------------------
(* ConfigResolves *)

(* Every step keeps ConfigResolves: whoever writes or carries a              *)
(* configuration has looked up its ids, and no id leaves.                    *)
LEMMA NextResolves ==
    TypeInv /\ ConfigResolves /\ [Next]_registryVars => ConfigResolves'
  <1> SUFFICES ASSUME TypeInv, ConfigResolves, [Next]_registryVars PROVE ConfigResolves'
    OBVIOUS
  <1> DEFINE KnownNext(c) == \A l \in Layers : c[l] # None => plugin_by_id'[c[l]] # None
  <1>1. TypeInv'
    BY NextTypes
  <1>2. /\ \A t \in ToolIds : tool_plugins[t] # None => Known(tool_plugins[t])
        /\ \A w \in Workers : pc[w] \in {"store", "configure"} => Known(Declares[arg[w]])
    BY Resolves
  <1>3. ASSUME NEW t \in ToolIds, tool_plugins'[t] # None PROVE KnownNext(tool_plugins'[t])
    <2>1. CASE tool_plugins'[t] = tool_plugins[t]
      <3>1. tool_plugins[t] \in Config /\ Known(tool_plugins[t])
        BY <1>2, <1>3, <2>1 DEF TypeInv, TypeOK
      <3> QED
        BY <2>1, <3>1, KnownStays
    <2>2. CASE tool_plugins'[t] # tool_plugins[t]
      <3>1. PICK w \in Workers : ConfigureTool(w)
        BY <2>2 DEF Next, Register, BeginRegister, StoreTool, StoreRefused, Unregister,
               Install, BeginInstall, AddGlobal, AddId, poolVars, registryVars
      <3>2. tool_plugins'[t] = Declares[arg[w]] /\ Known(Declares[arg[w]])
        BY <2>2, <3>1 DEF ConfigureTool, SetToolPlugins, TypeInv, TypeOK
      <3>3. Declares[arg[w]] \in Config
        BY <3>1, ToolAssumption DEF ConfigureTool, TypeInv, Carries, ToolAssumption
      <3> QED
        BY <3>2, <3>3, KnownStays
    <2> QED
      BY <2>1, <2>2
  <1>4. ASSUME NEW w \in Workers, pc'[w] \in {"store", "configure"}
        PROVE  KnownNext(Declares[arg'[w]])
    <2>1. arg'[w] \in ToolObjects /\ Declares[arg'[w]] \in Config
      BY <1>1, <1>4, ToolAssumption DEF TypeInv, Carries, ToolAssumption
    <2>2. Known(Declares[arg'[w]])
      <3>1. CASE pc[w] \in {"store", "configure"} /\ arg'[w] = arg[w]
        BY <1>2, <3>1
      <3>2. CASE ~(pc[w] \in {"store", "configure"} /\ arg'[w] = arg[w])
        <4>1. PICK v \in Workers, o \in ToolObjects : BeginRegister(v, o)
          BY <1>4, <3>2 DEF Next, Register, StoreTool, StoreRefused, ConfigureTool,
                 Unregister, Install, BeginInstall, AddGlobal, AddId, poolVars,
                 registryVars, TypeInv, TypeOK
        <4> QED
          BY <1>4, <3>2, <4>1 DEF BeginRegister, TypeInv, TypeOK
      <3> QED
        BY <3>1, <3>2
    <2> QED
      BY <2>1, <2>2, KnownStays
  <1> QED
    BY <1>3, <1>4 DEF ConfigResolves, GetPlugin

(* get_plugin never comes back empty from a layer that a tool configures,    *)
(* and a stored tool always gets its configuration.                          *)
THEOREM ConfigResolvesHolds == Spec => []ConfigResolves
  <1>1. Init => ConfigResolves
    BY DEF Init, PoolInit, ConfigResolves
  <1> QED
    BY <1>1, InitTypes, NextTypes, NextResolves, PTL DEF Spec

(* A step replaces a registered tool by nothing but its unregistration.      *)
LEMMA NextDisplacesNone ==
    TypeInv /\ [Next]_registryVars =>
        \A t \in ToolIds : tools[t] # None => tools'[t] \in {tools[t], None}
  <1> SUFFICES ASSUME TypeInv, [Next]_registryVars, NEW t \in ToolIds, tools[t] # None
               PROVE  tools'[t] \in {tools[t], None}
    OBVIOUS
  <1>1. ASSUME NEW w \in Workers, StoreTool(w) PROVE tools'[t] = tools[t]
    BY <1>1 DEF StoreTool, TypeInv, TypeOK
  <1>2. ASSUME NEW w \in Workers, NEW u \in ToolIds, Unregister(w, u)
        PROVE  tools'[t] \in {tools[t], None}
    BY <1>2 DEF Unregister, TypeInv, TypeOK
  <1>3. \/ \E w \in Workers : StoreTool(w)
        \/ \E w \in Workers, u \in ToolIds : Unregister(w, u)
        \/ tools' = tools
    BY DEF Next, Register, BeginRegister, StoreRefused, ConfigureTool, Install, registryVars
  <1> QED
    BY <1>1, <1>2, <1>3

(* Racing registrations never displace a registered tool.                    *)
THEOREM NeverDisplacedHolds == Spec => NeverDisplaced
  <1>1. TypeInv /\ [Next]_registryVars =>
          [\A t \in ToolIds : tools[t] # None => tools'[t] \in {tools[t], None}]_registryVars
    BY NextDisplacesNone
  <1> QED
    BY <1>1, InitTypes, NextTypes, PTL DEF Spec, NeverDisplaced

-----------------------------------------------------------------------------
(* InSyncUntilRetired *)

SyncInv == Unclaimed /\ Claimed /\ InSyncUntilRetired

(* The initial state. *)
LEMMA InitSync == Init => SyncInv
  BY DEF Init, SyncInv, Unclaimed, Claimed, InSyncUntilRetired, InSync, PoolInit, Configuring

(* A step that leaves the tools and the configurations alone, and in which   *)
(* nobody starts or ends a configuration.                                    *)
LEMMA SyncFrame ==
    ASSUME SyncInv, UNCHANGED <<tools, tool_plugins, retired>>,
           \A w \in Workers : /\ pc'[w] = "configure" <=> pc[w] = "configure"
                              /\ pc[w] = "configure" => arg'[w] = arg[w]
    PROVE  SyncInv'
  <1>1. \A t \in ToolIds : Configuring(t)' <=> Configuring(t)
    BY DEF Configuring
  <1>2. Unclaimed'
    BY <1>1 DEF SyncInv, Unclaimed
  <1>3. Claimed'
    BY DEF SyncInv, Claimed
  <1>4. InSyncUntilRetired'
    BY <1>1 DEF SyncInv, InSyncUntilRetired, InSync, Declared
  <1> QED
    BY <1>2, <1>3, <1>4 DEF SyncInv

(* Storing a tool. *)
LEMMA SyncStore ==
    ASSUME TypeInv, SyncInv, NEW w \in Workers, StoreTool(w)
    PROVE  SyncInv'
  <1> DEFINE o == arg[w]
             u == ToolId[o]
  <1>1. o \in ToolObjects /\ u \in ToolIds /\ o # None
    BY ToolAssumption DEF StoreTool, TypeInv, Carries, ToolAssumption
  <1>2. /\ tools[u] = None /\ tools'[u] = o
        /\ \A t \in ToolIds : t # u => tools'[t] = tools[t]
        /\ UNCHANGED <<tool_plugins, retired>>
    BY <1>1 DEF StoreTool, TypeInv, TypeOK, poolVars
  <1>3. /\ pc'[w] = "configure" <=> Declares[o] # NoConfig
        /\ pc[w] # "configure"
        /\ pc'[w] = "configure" => arg'[w] = o
        /\ \A v \in Workers : v # w => pc'[v] = pc[v] /\ arg'[v] = arg[v]
    BY DEF StoreTool, TypeInv, TypeOK
  <1>4. \A t \in ToolIds : t # u => (Configuring(t)' <=> Configuring(t))
    BY <1>3 DEF Configuring
  <1>5. Unclaimed'
    BY <1>1, <1>2, <1>4 DEF SyncInv, Unclaimed
  <1>6. Claimed'
    <2> SUFFICES ASSUME NEW v \in Workers, pc'[v] = "configure"
                 PROVE  /\ Declares[arg'[v]] # NoConfig
                        /\ ToolId[arg'[v]] \notin retired' =>
                              tools'[ToolId[arg'[v]]] = arg'[v]
      BY DEF Claimed
    <2>1. CASE v = w
      BY <1>2, <1>3, <2>1
    <2>2. CASE v # w
      <3>1. pc[v] = "configure" /\ arg'[v] = arg[v]
        BY <1>3, <2>2
      <3>2. arg[v] \in ToolObjects /\ arg[v] # None /\ ToolId[arg[v]] \in ToolIds
        BY <3>1, ToolAssumption DEF TypeInv, Carries, ToolAssumption
      <3> QED
        BY <1>2, <3>1, <3>2 DEF SyncInv, Claimed
    <2> QED
      BY <2>1, <2>2
  <1>7. InSyncUntilRetired'
    <2> SUFFICES ASSUME NEW t \in ToolIds \ retired, tools'[t] # None, ~Configuring(t)'
                 PROVE  tool_plugins'[t] =
                          IF Declares[tools'[t]] = NoConfig THEN None ELSE Declares[tools'[t]]
      BY <1>2 DEF InSyncUntilRetired, InSync, Declared
    <2>1. CASE t = u
      <3>1. tool_plugins[t] = None
        BY <1>2, <2>1 DEF SyncInv, Unclaimed
      <3>2. Declares[o] = NoConfig
        BY <1>3, <2>1 DEF Configuring
      <3> QED
        BY <1>2, <2>1, <3>1, <3>2
    <2>2. CASE t # u
      BY <1>2, <1>4, <2>2 DEF SyncInv, InSyncUntilRetired, InSync, Declared
    <2> QED
      BY <2>1, <2>2
  <1> QED
    BY <1>5, <1>6, <1>7 DEF SyncInv

(* Handing its plugins to the pool. *)
LEMMA SyncConfigure ==
    ASSUME TypeInv, SyncInv, NEW w \in Workers, ConfigureTool(w)
    PROVE  SyncInv'
  <1> DEFINE o == arg[w]
             u == ToolId[o]
  <1>1. o \in ToolObjects /\ u \in ToolIds /\ o # None /\ pc[w] = "configure"
    BY ToolAssumption DEF ConfigureTool, TypeInv, Carries, ToolAssumption
  <1>2. /\ tool_plugins'[u] = Declares[o]
        /\ \A t \in ToolIds : t # u => tool_plugins'[t] = tool_plugins[t]
        /\ UNCHANGED <<tools, retired>>
    BY <1>1 DEF ConfigureTool, SetToolPlugins, TypeInv, TypeOK
  <1>3. /\ pc'[w] # "configure"
        /\ \A v \in Workers : v # w => pc'[v] = pc[v] /\ arg'[v] = arg[v]
    BY DEF ConfigureTool, TypeInv, TypeOK
  <1>4. \A t \in ToolIds : /\ Configuring(t)' => Configuring(t)
                           /\ t # u => (Configuring(t)' <=> Configuring(t))
    BY <1>3 DEF Configuring
  <1>5. /\ Declares[o] # NoConfig
        /\ u \notin retired => tools[u] = o
    BY <1>1 DEF SyncInv, Claimed
  <1>6. Unclaimed'
    BY <1>1, <1>2, <1>4, <1>5 DEF SyncInv, Unclaimed
  <1>7. Claimed'
    BY <1>2, <1>3 DEF SyncInv, Claimed
  <1>8. InSyncUntilRetired'
    <2> SUFFICES ASSUME NEW t \in ToolIds \ retired, tools[t] # None, ~Configuring(t)'
                 PROVE  tool_plugins'[t] =
                          IF Declares[tools[t]] = NoConfig THEN None ELSE Declares[tools[t]]
      BY <1>2 DEF InSyncUntilRetired, InSync, Declared
    <2>1. CASE t = u
      BY <1>2, <1>5, <2>1
    <2>2. CASE t # u
      BY <1>2, <1>4, <2>2 DEF SyncInv, InSyncUntilRetired, InSync, Declared
    <2> QED
      BY <2>1, <2>2
  <1> QED
    BY <1>6, <1>7, <1>8 DEF SyncInv

(* Unregistering a tool takes its id out of what is claimed. *)
LEMMA SyncUnregister ==
    ASSUME TypeInv, SyncInv, NEW w \in Workers, NEW u \in ToolIds, Unregister(w, u)
    PROVE  SyncInv'
  <1>1. /\ UNCHANGED <<tool_plugins, pc, arg>>
        /\ retired' = retired \cup {u}
        /\ \A t \in ToolIds : t # u => tools'[t] = tools[t]
    BY DEF Unregister, poolVars, TypeInv, TypeOK
  <1>2. \A t \in ToolIds : Configuring(t)' <=> Configuring(t)
    BY <1>1 DEF Configuring
  <1>3. Unclaimed'
    BY <1>1, <1>2 DEF SyncInv, Unclaimed
  <1>4. Claimed'
    <2> SUFFICES ASSUME NEW v \in Workers, pc[v] = "configure"
                 PROVE  /\ Declares[arg[v]] # NoConfig
                        /\ ToolId[arg[v]] \notin retired' => tools'[ToolId[arg[v]]] = arg[v]
      BY <1>1 DEF Claimed
    <2>1. ToolId[arg[v]] \in ToolIds
      BY ToolAssumption DEF TypeInv, Carries, ToolAssumption
    <2> QED
      BY <1>1, <2>1 DEF SyncInv, Claimed
  <1>5. InSyncUntilRetired'
    <2> SUFFICES ASSUME NEW t \in ToolIds \ retired, t # u, tools[t] # None, ~Configuring(t)
                 PROVE  tool_plugins[t] = Declared(t)
      BY <1>1, <1>2 DEF InSyncUntilRetired, InSync, Declared
    <2> QED
      BY DEF SyncInv, InSyncUntilRetired, InSync
  <1> QED
    BY <1>3, <1>4, <1>5 DEF SyncInv

(* Every step keeps SyncInv. *)
LEMMA NextSync == TypeInv /\ SyncInv /\ [Next]_registryVars => SyncInv'
  <1> SUFFICES ASSUME TypeInv, SyncInv, [Next]_registryVars PROVE SyncInv'
    OBVIOUS
  <1>1. ASSUME NEW w \in Workers, NEW o \in ToolObjects, BeginRegister(w, o) PROVE SyncInv'
    BY <1>1, SyncFrame DEF BeginRegister, poolVars, TypeInv, TypeOK
  <1>2. ASSUME NEW w \in Workers, StoreRefused(w) PROVE SyncInv'
    BY <1>2, SyncFrame DEF StoreRefused, poolVars, TypeInv, TypeOK
  <1>3. ASSUME NEW w \in Workers, Install(w), UNCHANGED <<tools, retired>> PROVE SyncInv'
    <2>1. ASSUME NEW p \in Plugins, BeginInstall(w, p) PROVE SyncInv'
      BY <1>3, <2>1, SyncFrame DEF BeginInstall, poolVars, TypeInv, TypeOK
    <2>2. CASE AddGlobal(w)
      BY <1>3, <2>2, SyncFrame DEF AddGlobal, TypeInv, TypeOK
    <2>3. CASE AddId(w)
      BY <1>3, <2>3, SyncFrame DEF AddId, TypeInv, TypeOK
    <2> QED
      BY <1>3, <2>1, <2>2, <2>3 DEF Install
  <1>4. CASE UNCHANGED registryVars
    BY <1>4, SyncFrame DEF registryVars
  <1> QED
    BY <1>1, <1>2, <1>3, <1>4, SyncStore, SyncConfigure, SyncUnregister DEF Next, Register

(* A tool whose registration is over has the configuration it declares, as   *)
(* long as its id was never unregistered.                                    *)
THEOREM InSyncUntilRetiredHolds == Spec => []InSyncUntilRetired
  <1>1. SyncInv => InSyncUntilRetired
    BY DEF SyncInv
  <1> QED
    BY <1>1, InitTypes, NextTypes, InitSync, NextSync, PTL DEF Spec

(* A tool whose registration is over stays so until it is unregistered.      *)
LEMMA SettledStays ==
    ASSUME TypeInv, [Next]_registryVars, NEW t \in ToolIds \ retired',
           tools[t] # None, ~Configuring(t)
    PROVE  t \notin retired /\ tools'[t] = tools[t] /\ ~Configuring(t)'
  <1>1. ASSUME NEW w \in Workers, NEW u \in ToolIds, Unregister(w, u)
        PROVE  t \notin retired /\ tools'[t] = tools[t] /\ ~Configuring(t)'
    BY <1>1 DEF Unregister, TypeInv, TypeOK, Configuring
  <1>2. ASSUME NEW w \in Workers, StoreTool(w)
        PROVE  t \notin retired /\ tools'[t] = tools[t] /\ ~Configuring(t)'
    <2>1. ToolId[arg[w]] # t /\ UNCHANGED retired
      BY <1>2 DEF StoreTool
    <2>2. tools'[t] = tools[t]
      BY <1>2, <2>1 DEF StoreTool, TypeInv, TypeOK
    <2>3. ~Configuring(t)'
      BY <1>2, <2>1 DEF StoreTool, TypeInv, TypeOK, Configuring
    <2> QED
      BY <2>1, <2>2, <2>3
  <1>3. CASE /\ UNCHANGED <<tools, retired>>
             /\ \A w \in Workers : pc'[w] = "configure" => pc[w] = "configure" /\ arg'[w] = arg[w]
    BY <1>3 DEF Configuring
  <1> QED
    BY <1>1, <1>2, <1>3 DEF Next, Register, BeginRegister, StoreRefused, ConfigureTool,
        Install, BeginInstall, AddGlobal, AddId, poolVars, registryVars, TypeInv, TypeOK

-----------------------------------------------------------------------------
(* DefaultIsStable *)

(* The initial state. *)
LEMMA InitInstall == Init => IdFree /\ Listed
  BY DEF Init, PoolInit, IdFree, Listed

(* With one installer a layer only grows at its end. *)
LEMMA InsertedLast ==
    ASSUME OneInstaller, TypeInv, IdFree, Listed, NEW w \in Workers, AddGlobal(w)
    PROVE  /\ arg[w] \in Plugins /\ LayerOf[arg[w]] \in Layers
           /\ global_plugins[LayerOf[arg[w]]] \in Seq(Plugins)
           /\ Inserted(global_plugins[LayerOf[arg[w]]], arg[w]) =
                Append(global_plugins[LayerOf[arg[w]]], arg[w])
  <1> DEFINE a == LayerOf[arg[w]]
  <1>1. arg[w] \in Plugins /\ a \in Layers
    BY PoolAssumption DEF AddGlobal, TypeInv, Carries, PoolAssumption
  <1>2. global_plugins[a] \in Seq(Plugins)
    BY <1>1 DEF TypeInv, TypeOK
  <1>3. \A v \in Workers : pc[v] # "add_id"
    BY DEF AddGlobal, IdFree, OneInstaller
  <1>4. \A k \in DOMAIN global_plugins[a] :
           PluginId[global_plugins[a][k]] # PluginId[arg[w]]
    BY <1>1, <1>3 DEF Listed, IdFree, AddGlobal
  <1> QED
    BY <1>1, <1>2, <1>4 DEF Inserted

(* Every step keeps IdFree. *)
LEMMA NextIdFree ==
    OneInstaller /\ TypeInv /\ IdFree /\ [Next]_registryVars => IdFree'
  <1> SUFFICES ASSUME OneInstaller, TypeInv, IdFree, [Next]_registryVars,
                      NEW w \in Workers, pc'[w] \in {"add_global", "add_id"}
               PROVE  w \in Installers /\ plugin_by_id'[PluginId[arg'[w]]] = None
    BY DEF IdFree
  <1>1. CASE \E p \in Plugins : BeginInstall(w, p)
    BY <1>1 DEF BeginInstall, poolVars, TypeInv, TypeOK
  <1>2. CASE AddGlobal(w)
    BY <1>2 DEF AddGlobal, TypeInv, TypeOK, IdFree
  <1>3. CASE pc'[w] = pc[w] /\ arg'[w] = arg[w] /\ plugin_by_id' = plugin_by_id
    BY <1>3 DEF IdFree
  <1>4. ASSUME NEW v \in Workers, v # w, AddId(v) PROVE FALSE
    BY <1>4 DEF AddId, IdFree, OneInstaller, TypeInv, TypeOK
  <1> QED
    BY <1>1, <1>2, <1>3, <1>4 DEF Next, Register, BeginRegister, StoreTool, StoreRefused,
        ConfigureTool, SetToolPlugins, Unregister, Install, BeginInstall, AddGlobal, AddId,
        poolVars, registryVars, TypeInv, TypeOK

(* Every step keeps Listed. *)
LEMMA NextListed ==
    OneInstaller /\ TypeInv /\ IdFree /\ Listed /\ [Next]_registryVars => Listed'
  <1> SUFFICES ASSUME OneInstaller, TypeInv, IdFree, Listed, [Next]_registryVars
               PROVE  Listed'
    OBVIOUS
  <1>1. ASSUME NEW w \in Workers, AddGlobal(w) PROVE Listed'
    <2> DEFINE a == LayerOf[arg[w]]
    <2>1. /\ arg[w] \in Plugins /\ a \in Layers /\ global_plugins[a] \in Seq(Plugins)
          /\ Inserted(global_plugins[a], arg[w]) = Append(global_plugins[a], arg[w])
      BY <1>1, InsertedLast
    <2>2. /\ global_plugins' = [global_plugins EXCEPT ![a] = Append(@, arg[w])]
          /\ UNCHANGED <<plugin_by_id, arg>>
      BY <1>1, <2>1 DEF AddGlobal
    <2>3. pc'[w] = "add_id" /\ \A v \in Workers : pc[v] = "add_id" => pc'[v] = "add_id"
      BY <1>1 DEF AddGlobal, TypeInv, TypeOK
    <2> SUFFICES ASSUME NEW l \in Layers, NEW k \in DOMAIN global_plugins'[l]
                 PROVE  \/ plugin_by_id[PluginId[global_plugins'[l][k]]] # None
                        \/ \E v \in Workers : pc'[v] = "add_id" /\
                              PluginId[arg[v]] = PluginId[global_plugins'[l][k]]
      BY <2>2 DEF Listed
    <2>4. global_plugins'[l][k] = arg[w] \/
             (k \in DOMAIN global_plugins[l] /\ global_plugins'[l][k] = global_plugins[l][k])
      <3>1. CASE l = a
        <4>1. global_plugins'[l] = Append(global_plugins[a], arg[w])
          BY <2>1, <2>2, <3>1 DEF TypeInv, TypeOK
        <4> QED
          BY <2>1, <3>1, <4>1
      <3>2. CASE l # a
        BY <2>2, <3>2 DEF TypeInv, TypeOK
      <3> QED
        BY <3>1, <3>2
    <2> QED
      BY <2>3, <2>4 DEF Listed
  <1>2. ASSUME NEW w \in Workers, AddId(w) PROVE Listed'
    <2>1. /\ plugin_by_id' = [plugin_by_id EXCEPT ![PluginId[arg[w]]] = arg[w]]
          /\ UNCHANGED global_plugins
          /\ arg[w] \in Plugins /\ PluginId[arg[w]] \in PluginIds /\ arg[w] # None
      BY <1>2, PoolAssumption DEF AddId, TypeInv, Carries, PoolAssumption
    <2>2. \A v \in Workers : pc[v] = "add_id" => v = w
      BY <1>2 DEF AddId, IdFree, OneInstaller
    <2> SUFFICES ASSUME NEW l \in Layers, NEW k \in DOMAIN global_plugins[l]
                 PROVE  plugin_by_id'[PluginId[global_plugins[l][k]]] # None
      BY <2>1 DEF Listed
    <2>3. PluginId[global_plugins[l][k]] \in PluginIds
      BY PoolAssumption DEF TypeInv, TypeOK, PoolAssumption
    <2> QED
      BY <2>1, <2>2, <2>3 DEF Listed, TypeInv, TypeOK
  <1>3. CASE /\ UNCHANGED <<global_plugins, plugin_by_id>>
             /\ \A w \in Workers : pc[w] = "add_id" => pc'[w] = "add_id" /\ arg'[w] = arg[w]
    BY <1>3 DEF Listed
  <1> QED
    BY <1>1, <1>2, <1>3 DEF Next, Register, BeginRegister, StoreTool, StoreRefused,
        ConfigureTool, SetToolPlugins, Unregister, Install, BeginInstall,
        poolVars, registryVars, TypeInv, TypeOK

(* With one installing thread the plugin of an id is never another one.      *)
LEMMA IdsFixed ==
    ASSUME TypeInv, IdFree, [Next]_registryVars, NEW i \in PluginIds, plugin_by_id[i] # None
    PROVE  plugin_by_id'[i] = plugin_by_id[i]
  <1>1. ASSUME NEW w \in Workers, AddId(w) PROVE plugin_by_id'[i] = plugin_by_id[i]
    <2>1. plugin_by_id[PluginId[arg[w]]] = None
      BY <1>1 DEF AddId, IdFree
    <2> QED
      BY <1>1, <2>1 DEF AddId, TypeInv, TypeOK
  <1>2. \/ \E w \in Workers : AddId(w)
        \/ plugin_by_id' = plugin_by_id
    BY DEF Next, Register, BeginRegister, StoreTool, StoreRefused, ConfigureTool,
           SetToolPlugins, Unregister, Install, BeginInstall, AddGlobal, poolVars,
           registryVars
  <1> QED
    BY <1>1, <1>2

(* InstallInv, inductive when one thread installs plugins.                   *)
LEMMA InstallInvInductive ==
    ASSUME OneInstaller
    PROVE  /\ Init => InstallInv
           /\ InstallInv /\ [Next]_registryVars => InstallInv'
  <1>1. Init => InstallInv
    BY InitTypes, InitInstall DEF InstallInv
  <1>2. InstallInv /\ [Next]_registryVars => InstallInv'
    BY OneInstaller, NextTypes, NextIdFree, NextListed DEF InstallInv
  <1> QED
    BY <1>1, <1>2

(* With one installing thread, the plugin a layer falls back on never        *)
(* changes once there is one.                                                *)
THEOREM DefaultIsStableHolds ==
    ASSUME OneInstaller PROVE Spec => DefaultIsStable
  <1>1. Init => InstallInv
    BY OneInstaller, InstallInvInductive
  <1>2. InstallInv /\ [Next]_registryVars => InstallInv'
    BY OneInstaller, InstallInvInductive
  <1>3. InstallInv /\ [Next]_registryVars =>
          [\A l \in Layers : GlobalDefault(l) # None =>
              GlobalDefault(l)' = GlobalDefault(l)]_registryVars
    <2> SUFFICES ASSUME InstallInv, [Next]_registryVars, NEW l \in Layers,
                        GlobalDefault(l) # None
                 PROVE  GlobalDefault(l)' = GlobalDefault(l)
      OBVIOUS
    <2>1. ASSUME NEW w \in Workers, AddGlobal(w)
          PROVE  GlobalDefault(l)' = GlobalDefault(l)
      <3>1. /\ LayerOf[arg[w]] \in Layers /\ arg[w] \in Plugins
            /\ global_plugins' = [global_plugins EXCEPT ![LayerOf[arg[w]]] = Append(@, arg[w])]
        BY <2>1, InsertedLast, OneInstaller DEF InstallInv, AddGlobal
      <3>2. global_plugins[l] \in Seq(Plugins) /\ global_plugins[l] # <<>>
        BY DEF GlobalDefault, InstallInv, TypeInv, TypeOK
      <3>3. \/ global_plugins'[l] = global_plugins[l]
            \/ global_plugins'[l] = Append(global_plugins[l], arg[w])
        BY <3>1 DEF InstallInv, TypeInv, TypeOK
      <3> QED
        BY <3>1, <3>2, <3>3 DEF GlobalDefault
    <2>2. CASE UNCHANGED global_plugins
      BY <2>2 DEF GlobalDefault
    <2> QED
      BY <2>1, <2>2 DEF Next, Register, BeginRegister, StoreTool, StoreRefused,
          ConfigureTool, SetToolPlugins, Unregister, Install, BeginInstall, AddId,
          poolVars, registryVars
  <1> QED
    BY <1>1, <1>2, <1>3, PTL DEF Spec, DefaultIsStable

(* With one installing thread no id is registered twice: the check still     *)
(* holds at the write.                                                       *)
THEOREM RegisteredOnceHolds ==
    ASSUME OneInstaller PROVE Spec => IdRegisteredOnce
  <1>1. Init => InstallInv
    BY OneInstaller, InstallInvInductive
  <1>2. InstallInv /\ [Next]_registryVars => InstallInv'
    BY OneInstaller, InstallInvInductive
  <1>3. InstallInv /\ [Next]_registryVars =>
          [\A w \in Workers : pc[w] = "add_id" /\ pc'[w] # "add_id" =>
              plugin_by_id[PluginId[arg[w]]] = None]_registryVars
    BY DEF InstallInv, IdFree
  <1> QED
    BY <1>1, <1>2, <1>3, PTL DEF Spec, IdRegisteredOnce

-----------------------------------------------------------------------------
(* Calls on top of them *)

P == INSTANCE CoreScheduler_proofs WITH
    Tools <- ToolIds,
    Chains <- [Layers -> Plugins \cup {None}],
    registered <- {t \in ToolIds : tools[t] # None},
    chain <- [t \in ToolIds |-> [l \in Layers |-> GetPlugin(l, t)]],
    pc <- at

-----------------------------------------------------------------------------
(* Implementing CoreScheduler *)

(* What CoreScheduler assumes of its constants holds.                        *)
LEMMA SchedulerConstants == P!ConstantsAssumption /\ P!NoneAssumption
  BY SchedulerAssumption DEF SchedulerAssumption, Scheduler!ConstantsAssumption,
     Scheduler!NoneAssumption, P!ConstantsAssumption, P!NoneAssumption,
     Scheduler!Layers, P!Layers, Scheduler!PluginResult, P!PluginResult,
     Scheduler!Errors, P!Errors, Scheduler!PluginErrors, P!PluginErrors,
     Scheduler!Dict, P!Dict

(* The pool only ever offers plugins of its own.                             *)
LEMMA OffersPlugins ==
    TypeInv => \A t \in ToolIds, l \in Layers : GetPlugin(l, t) \in Plugins \cup {None}
  <1> SUFFICES ASSUME TypeInv, NEW t \in ToolIds, NEW l \in Layers
               PROVE  GetPlugin(l, t) \in Plugins \cup {None}
    OBVIOUS
  <1>1. CASE tool_plugins[t] # None /\ tool_plugins[t][l] # None
    <2>1. tool_plugins[t][l] \in PluginIds
      BY <1>1 DEF TypeInv, TypeOK, Config
    <2> QED
      BY <1>1, <2>1 DEF GetPlugin, TypeInv, TypeOK
  <1>2. CASE ~(tool_plugins[t] # None /\ tool_plugins[t][l] # None)
    <2>1. global_plugins[l] \in Seq(Plugins)
      BY DEF TypeInv, TypeOK
    <2>2. GlobalDefault(l) \in Plugins \cup {None}
      BY <2>1 DEF GlobalDefault
    <2> QED
      BY <1>2, <2>2 DEF GetPlugin
  <1> QED
    BY <1>1, <1>2

(* The initial states.                                                       *)
LEMMA InitMaps == SystemInit => P!Init
  <1> SUFFICES ASSUME SystemInit PROVE P!Init
    OBVIOUS
  <1>1. TypeInv
    BY InitTypes DEF SystemInit
  <1>2. [t \in ToolIds |-> [l \in Layers |-> GetPlugin(l, t)]]
          \in [ToolIds -> [Layers -> Plugins \cup {None}]]
    BY <1>1, OffersPlugins
  <1> QED
    BY <1>2 DEF SystemInit, P!Init, Scheduler!NewContext, P!NewContext, Scheduler!NewFrame,
       P!NewFrame, Scheduler!NewLog, P!NewLog, Scheduler!Layers, P!Layers

(* What threads do to the registry and the pool is a reconfiguration.        *)
LEMMA AdministerMaps ==
    ASSUME TypeInv, Administer
    PROVE  P!Reconfigure
  <1>1. TypeInv'
    BY NextTypes DEF Administer
  <1>2. (\A t \in ToolIds, l \in Layers : GetPlugin(l, t) \in Plugins \cup {None})'
    BY <1>1, OffersPlugins, PTL
  <1>3. [t \in ToolIds |-> [l \in Layers |-> GetPlugin(l, t)]]'
          \in [ToolIds -> [Layers -> Plugins \cup {None}]]
    <2> DEFINE found(t, l) == GetPlugin(l, t)'
    <2>1. \A t \in ToolIds, l \in Layers : found(t, l) \in Plugins \cup {None}
      BY <1>2
    <2> HIDE DEF found
    <2>2. [t \in ToolIds |-> [l \in Layers |-> found(t, l)]]
            \in [ToolIds -> [Layers -> Plugins \cup {None}]]
      BY <2>1
    <2> QED
      BY <2>2 DEF found
  <1>4. {t \in ToolIds : tools[t] # None}' \in SUBSET ToolIds
    OBVIOUS
  <1>5. UNCHANGED <<at, ctx, frame, event, log>>
    BY DEF Administer, calls
  <1> QED
    BY <1>3, <1>4, <1>5 DEF P!Reconfigure

(* A new call.                                                               *)
LEMMA CallMaps ==
    ASSUME NEW e \in Executions, NEW t \in ToolIds
    PROVE  /\ \A p \in Params : Scheduler!Execute(e, t, p) => P!Execute(e, t, p)
           /\ Scheduler!ToolNotFound(e, t) => P!ToolNotFound(e, t)
  BY DEF Scheduler!Execute, P!Execute, Scheduler!ToolNotFound, P!ToolNotFound,
     Scheduler!Jump, P!Jump, Scheduler!NewContext, P!NewContext, Scheduler!NewLog, P!NewLog,
     Scheduler!pool, P!pool, Scheduler!Layers, P!Layers

(* A call that breaks off.                                                   *)
LEMMA BreakMaps ==
    ASSUME NEW e \in Executions, NEW layer \in Layers
    PROVE  /\ Scheduler!ReturnedNoResult(e, layer) => P!ReturnedNoResult(e, layer)
           /\ Scheduler!LookupRaises(e, layer) => P!LookupRaises(e, layer)
  BY DEF Scheduler!ReturnedNoResult, P!ReturnedNoResult, Scheduler!LookupRaises,
     P!LookupRaises, Scheduler!Serving, P!Serving, Scheduler!GetPlugin, P!GetPlugin,
     Scheduler!RunLabel, P!RunLabel, Scheduler!LookupLabel, P!LookupLabel, Scheduler!Jump,
     P!Jump, Scheduler!Recorded, P!Recorded, Scheduler!Crash, P!Crash, Scheduler!Conclude,
     P!Conclude, Scheduler!pool, P!pool, Scheduler!Layers, P!Layers

(* A step of a call.                                                         *)
LEMMA AdvanceMaps ==
    ASSUME NEW e \in Executions, Scheduler!Advance(e)
    PROVE  P!Advance(e)
  <1> USE DEF Scheduler!Jump, P!Jump, Scheduler!Emit, P!Emit, Scheduler!pool, P!pool,
          Scheduler!Noted, P!Noted, Scheduler!Recorded, P!Recorded,
          Scheduler!Conclude, P!Conclude, Scheduler!GetPlugin, P!GetPlugin
  <1>1. Scheduler!SchemaLookup(e) => P!SchemaLookup(e)
    BY DEF Scheduler!SchemaLookup, P!SchemaLookup, Scheduler!Lookup, P!Lookup
  <1>2. Scheduler!SchemaFailed(e) => P!SchemaFailed(e)
    BY DEF Scheduler!SchemaFailed, P!SchemaFailed
  <1>3. Scheduler!GuardLookup(e) => P!GuardLookup(e)
    BY DEF Scheduler!GuardLookup, P!GuardLookup, Scheduler!Lookup, P!Lookup
  <1>4. Scheduler!GuardStopped(e) => P!GuardStopped(e)
    BY DEF Scheduler!GuardStopped, P!GuardStopped, Scheduler!Dict, P!Dict,
       Scheduler!Crash, P!Crash
  <1>5. Scheduler!BeforeExec(e) => P!BeforeExec(e)
    BY DEF Scheduler!BeforeExec, P!BeforeExec
  <1>6. Scheduler!HealingLookup(e) => P!HealingLookup(e)
    BY DEF Scheduler!HealingLookup, P!HealingLookup, Scheduler!MaxAttempts, P!MaxAttempts
  <1>7. Scheduler!ToolReturns(e) => P!ToolReturns(e)
    BY DEF Scheduler!ToolReturns, P!ToolReturns, Scheduler!Called, P!Called
  <1>8. Scheduler!ToolRaises(e) => P!ToolRaises(e)
    BY DEF Scheduler!ToolRaises, P!ToolRaises, Scheduler!Called, P!Called,
       Scheduler!MayHeal, P!MayHeal
  <1>9. Scheduler!RunPlugin(e) => P!RunPlugin(e)
    BY DEF Scheduler!RunPlugin, P!RunPlugin, Scheduler!Outcomes, P!Outcomes,
       Scheduler!PluginExecutionError, P!PluginExecutionError,
       Scheduler!RunSchema, P!RunSchema, Scheduler!RunGuard, P!RunGuard,
       Scheduler!Admits, P!Admits, Scheduler!Heal, P!Heal, Scheduler!HealCrash, P!HealCrash,
       Scheduler!FixedParams, P!FixedParams, Scheduler!Dict, P!Dict
  <1>10. Scheduler!StartRetry(e) => P!StartRetry(e)
    BY DEF Scheduler!StartRetry, P!StartRetry
  <1>11. Scheduler!GiveUp(e) => P!GiveUp(e)
    BY DEF Scheduler!GiveUp, P!GiveUp
  <1>12. Scheduler!Reflect(e) => P!Reflect(e)
    BY DEF Scheduler!Reflect, P!Reflect, Scheduler!Outcomes, P!Outcomes,
       Scheduler!PluginExecutionError, P!PluginExecutionError
  <1>13. Scheduler!Observe(e) => P!Observe(e)
    BY DEF Scheduler!Observe, P!Observe, Scheduler!Outcomes, P!Outcomes,
       Scheduler!PluginExecutionError, P!PluginExecutionError
  <1> QED
    BY <1>1, <1>2, <1>3, <1>4, <1>5, <1>6, <1>7, <1>8, <1>9, <1>10, <1>11, <1>12, <1>13,
       BreakMaps DEF Scheduler!Advance, P!Advance, Scheduler!Layers, P!Layers, Layers

(* Every step is one of CoreScheduler, or leaves its variables alone.        *)
LEMMA NextMaps == TypeInv /\ [SystemNext]_systemVars => [P!Next]_P!vars
  <1> SUFFICES ASSUME TypeInv, [SystemNext]_systemVars PROVE [P!Next]_P!vars
    OBVIOUS
  <1>1. CASE Administer
    BY <1>1, AdministerMaps DEF P!Next
  <1>2. ASSUME NEW e \in Executions, NEW t \in ToolIds, NEW p \in Params, Call(e, t, p)
        PROVE  P!Next
    BY <1>2, CallMaps DEF Call, P!Next, P!Call
  <1>3. ASSUME NEW e \in Executions, NEW t \in ToolIds, CallUnknown(e, t) PROVE P!Next
    BY <1>3, CallMaps DEF CallUnknown, P!Next, P!Call
  <1>4. ASSUME NEW e \in Executions, Run(e) PROVE P!Next
    BY <1>4, AdvanceMaps DEF Run, P!Next
  <1>5. ASSUME NEW e \in Executions, NEW layer \in Layers, LookupRaises(e, layer)
        PROVE  P!Next
    BY <1>5, BreakMaps DEF LookupRaises, P!Next, P!Layers, Layers
  <1>6. CASE UNCHANGED systemVars
    BY <1>6 DEF systemVars, registryVars, calls, P!vars, GetPlugin, GlobalDefault
  <1> QED
    BY <1>1, <1>2, <1>3, <1>4, <1>5, <1>6 DEF SystemNext

(* The safety part of CoreScheduler, as an inductive invariant.              *)
LEMMA SchedulerInvInductive ==
    /\ SystemInit => P!TypeInv /\ P!AdmissionInv
    /\ TypeInv /\ P!TypeInv /\ P!AdmissionInv /\ [SystemNext]_systemVars
         => P!TypeInv' /\ P!AdmissionInv'
  <1>1. P!Init => P!TypeInv
    BY P!InitType, SchedulerConstants
  <1>2. P!Init => P!AdmissionInv
    BY P!InitAdmission, SchedulerConstants
  <1>3. P!TypeInv /\ [P!Next]_P!vars => P!TypeInv'
    BY P!TypeStep, SchedulerConstants
  <1>4. P!TypeInv /\ P!AdmissionInv /\ [P!Next]_P!vars => P!AdmissionInv'
    BY P!AdmissionStep, SchedulerConstants
  <1> QED
    BY <1>1, <1>2, <1>3, <1>4, InitMaps, NextMaps

(* Every step of the system is a step of the registry.                       *)
LEMMA RegistrySteps ==
    /\ SystemInit => Init
    /\ [SystemNext]_systemVars => [Next]_registryVars
  BY DEF SystemInit, SystemNext, Administer, Call, CallUnknown, Run, LookupRaises, systemVars

(* Every run of the system is, for the scheduler's variables, a run of       *)
(* CoreScheduler under reconfiguration: the safety part of the refinement.   *)
THEOREM SchedulerSafety == SystemSpec => P!Init /\ [][P!Next]_P!vars
  BY InitMaps, NextMaps, RegistrySteps, InitTypes, NextTypes, PTL DEF SystemSpec

-----------------------------------------------------------------------------
(* GuardHonoured *)

(* Where a call stands with respect to its guard.                            *)
BeforeGuard == {"schema", "run_schema", "schema_failed", "guard"}
Consulted(e) ==
    \/ at[e] \in {"run_guard", "guard_stopped"} \cup P!AfterGuard
    \/ log[e].calls # <<>>

(* The call began when its tool's registration was over, the id has never    *)
(* been unregistered, and the tool declares a guard.                         *)
Bound(e) == begun[e].settled /\ ctx[e].tool \notin retired /\ DeclaredGuard(e) # None

(* Until the guard is looked up, the tool is registered and configured as    *)
(* when the call began; from then on, the guard found is the declared one.   *)
GuardOf(e) ==
    /\ at[e] \in BeforeGuard \/ Consulted(e) => begun[e].tool \in ToolObjects
    /\ at[e] \in BeforeGuard /\ Bound(e) =>
          tools[ctx[e].tool] = begun[e].tool /\ ~Configuring(ctx[e].tool)
    /\ Consulted(e) /\ Bound(e) =>
          /\ frame[e].plugin["guard"] = plugin_by_id[DeclaredGuard(e)]
          /\ frame[e].plugin["guard"] # None

BegunType == begun \in [Executions -> [tool: ToolObjects \cup {None}, settled: BOOLEAN]]

GuardInv == BegunType /\ \A e \in Executions : GuardOf(e)

RegistryInv == InstallInv /\ ConfigResolves /\ SyncInv

(* RegistryInv, inductive when one thread installs plugins.                  *)
LEMMA RegistryInvInductive ==
    ASSUME OneInstaller
    PROVE  /\ Init => RegistryInv
           /\ RegistryInv /\ [Next]_registryVars => RegistryInv'
  <1>1. Init => RegistryInv
    <2>1. Init => ConfigResolves
      BY DEF Init, PoolInit, ConfigResolves
    <2> QED
      BY <2>1, OneInstaller, InstallInvInductive, InitSync DEF RegistryInv
  <1>2. RegistryInv /\ [Next]_registryVars => RegistryInv'
    BY OneInstaller, InstallInvInductive, NextResolves, NextSync DEF RegistryInv, InstallInv
  <1> QED
    BY <1>1, <1>2

(* The guard the scheduler finds for a settled tool is the declared one.     *)
LEMMA FindsDeclaredGuard ==
    ASSUME RegistryInv, NEW t \in ToolIds \ retired, tools[t] \in ToolObjects,
           ~Configuring(t), Declares[tools[t]]["guard"] # None
    PROVE  /\ GetPlugin("guard", t) = plugin_by_id[Declares[tools[t]]["guard"]]
           /\ GetPlugin("guard", t) # None
  <1>1. tools[t] # None /\ "guard" \in Layers /\ NoConfig["guard"] = None
    BY ToolAssumption DEF ToolAssumption, Layers, NoConfig
  <1>2. tool_plugins[t] = Declares[tools[t]]
    BY <1>1 DEF RegistryInv, SyncInv, InSyncUntilRetired, InSync, Declared
  <1>3. tool_plugins[t] # None
    BY <1>2, PoolAssumption, ToolAssumption DEF PoolAssumption, ToolAssumption
  <1>4. GetPlugin("guard", t) = plugin_by_id[Declares[tools[t]]["guard"]]
    BY <1>2, <1>3 DEF GetPlugin
  <1>5. GetPlugin("guard", t) # None
    BY <1>1, <1>2, <1>3 DEF RegistryInv, ConfigResolves
  <1> QED
    BY <1>4, <1>5

(* What a step of a call does to what GuardOf speaks of.                     *)
Effect(e) ==
    /\ ctx'[e].tool = ctx[e].tool
    /\ \/ /\ at[e] = "guard"
          /\ frame'[e].plugin["guard"] = GetPlugin("guard", ctx[e].tool)
       \/ /\ frame'[e].plugin["guard"] = frame[e].plugin["guard"]
          /\ at'[e] \in BeforeGuard => at[e] \in BeforeGuard
          /\ Consulted(e)' => Consulted(e)
    /\ at[e] = "guard" => at'[e] \notin BeforeGuard

Elsewhere(e) == \A f \in Executions \ {e} :
    at'[f] = at[f] /\ ctx'[f] = ctx[f] /\ frame'[f] = frame[f] /\ log'[f] = log[f]

(* A call that breaks off has that effect.                                   *)
LEMMA BreakEffect ==
    ASSUME P!TypeInv, NEW e \in Executions, NEW layer \in Layers,
           P!BreaksOff(e, layer)
    PROVE  Effect(e) /\ Elsewhere(e)
  <1>1. layer \in P!Layers /\ "guard" \in P!Layers
    BY DEF Layers, P!Layers
  <1>2. /\ at' = [at EXCEPT ![e] = "returned"] /\ log' = log
        /\ ctx'[e].tool = ctx[e].tool
        /\ ctx' = [ctx EXCEPT ![e] = ctx'[e]] /\ frame' = [frame EXCEPT ![e] = frame'[e]]
        /\ \A l \in P!Layers \ {layer} : frame'[e].plugin[l] = frame[e].plugin[l]
        /\ layer \in {"schema", "guard"} => frame'[e].plugin[layer] = frame[e].plugin[layer]
    BY <1>1, P!BrokenOff, SchedulerConstants
  <1>3. frame'[e].plugin["guard"] = frame[e].plugin["guard"]
    BY <1>1, <1>2
  <1>4. at'[e] = "returned"
    BY <1>2 DEF P!TypeInv, P!TypeOK
  <1>5. Effect(e)
    BY <1>2, <1>3, <1>4 DEF Effect, BeforeGuard, Consulted, P!AfterGuard
  <1>6. Elsewhere(e)
    BY <1>2 DEF Elsewhere, P!TypeInv, P!TypeOK
  <1> QED
    BY <1>5, <1>6

(* Each step of a call has that effect.                                      *)
LEMMA RunEffect ==
    ASSUME P!TypeInv, NEW e \in Executions, Run(e)
    PROVE  Effect(e) /\ Elsewhere(e)
  <1> USE DEF Effect, Elsewhere, P!TypeInv, P!TypeOK, BeforeGuard, Consulted, P!AfterGuard,
          Scheduler!Jump, Scheduler!pool, Scheduler!Noted, Scheduler!Recorded,
          Scheduler!Conclude, P!Context, P!Frame, P!Log, P!Layers
  <1>1. CASE Scheduler!SchemaLookup(e)
    BY <1>1 DEF Scheduler!SchemaLookup, Scheduler!Lookup
  <1>2. CASE Scheduler!SchemaFailed(e)
    BY <1>2 DEF Scheduler!SchemaFailed
  <1>3. CASE Scheduler!GuardLookup(e)
    <2>1. ctx[e].tool \in ToolIds
      BY <1>3 DEF Scheduler!GuardLookup, Scheduler!Lookup, P!Shape, P!ShapeOf, P!Running
    <2>2. Scheduler!GetPlugin(e, "guard") = GetPlugin("guard", ctx[e].tool)
      BY <2>1 DEF Scheduler!GetPlugin, Layers
    <2> QED
      BY <1>3, <2>2 DEF Scheduler!GuardLookup, Scheduler!Lookup
  <1>4. CASE Scheduler!GuardStopped(e)
    BY <1>4 DEF Scheduler!GuardStopped, Scheduler!Crash
  <1>5. CASE Scheduler!BeforeExec(e)
    BY <1>5 DEF Scheduler!BeforeExec
  <1>6. CASE Scheduler!HealingLookup(e)
    BY <1>6 DEF Scheduler!HealingLookup
  <1>7. CASE Scheduler!ToolReturns(e)
    BY <1>7 DEF Scheduler!ToolReturns, Scheduler!Called
  <1>8. CASE Scheduler!ToolRaises(e)
    BY <1>8 DEF Scheduler!ToolRaises, Scheduler!Called
  <1>9. CASE Scheduler!RunPlugin(e)
    <2>1. ASSUME NEW r, Scheduler!RunSchema(e, r) PROVE Effect(e) /\ Elsewhere(e)
      BY <2>1 DEF Scheduler!RunSchema
    <2>2. ASSUME NEW r, Scheduler!RunGuard(e, r) PROVE Effect(e) /\ Elsewhere(e)
      BY <2>2 DEF Scheduler!RunGuard
    <2>3. ASSUME NEW r, Scheduler!Heal(e, r) PROVE Effect(e) /\ Elsewhere(e)
      BY <2>3 DEF Scheduler!Heal
    <2>4. ASSUME NEW r, Scheduler!HealCrash(e, r) PROVE Effect(e) /\ Elsewhere(e)
      BY <2>4 DEF Scheduler!HealCrash
    <2> QED
      BY <1>9, <2>1, <2>2, <2>3, <2>4 DEF Scheduler!RunPlugin
  <1>10. CASE Scheduler!StartRetry(e)
    BY <1>10 DEF Scheduler!StartRetry
  <1>11. CASE Scheduler!GiveUp(e)
    BY <1>11 DEF Scheduler!GiveUp
  <1>12. CASE Scheduler!Reflect(e)
    <2> HIDE DEF Effect, Elsewhere, BeforeGuard, Consulted
    <2> DEFINE p == Scheduler!GetPlugin(e, "reflect")
               noted == [frame EXCEPT ![e].previous = @ \cup {"reflect"}]
    <2>1. /\ at[e] = "reflect" /\ at'[e] \notin BeforeGuard /\ UNCHANGED log
          /\ \A f \in Executions \ {e} : at'[f] = at[f]
      BY <1>12 DEF Scheduler!Reflect, BeforeGuard
    <2>2. \/ ctx' = ctx
          \/ \E r : ctx' = [ctx EXCEPT ![e].plugin_results["reflect"] = r]
      BY <1>12 DEF Scheduler!Reflect
    <2>3. \/ frame' = [frame EXCEPT ![e].plugin["reflect"] = None]
          \/ frame' = [noted EXCEPT ![e].plugin["reflect"] = p]
      BY <1>12 DEF Scheduler!Reflect
    <2>4. /\ noted[e].plugin = frame[e].plugin /\ DOMAIN noted = Executions
          /\ \A f \in Executions \ {e} : noted[f] = frame[f]
          /\ DOMAIN noted[e] = DOMAIN frame[e]
      OBVIOUS
    <2> HIDE DEF p, noted
    <2>5. /\ ctx'[e].tool = ctx[e].tool
          /\ \A f \in Executions \ {e} : ctx'[f] = ctx[f]
      BY <2>2
    <2>6. /\ frame'[e].plugin["guard"] = frame[e].plugin["guard"]
          /\ \A f \in Executions \ {e} : frame'[f] = frame[f]
      <3>1. CASE frame' = [frame EXCEPT ![e].plugin["reflect"] = None]
        BY <3>1
      <3>2. CASE frame' = [noted EXCEPT ![e].plugin["reflect"] = p]
        <4>1. \A f \in Executions \ {e} : frame'[f] = frame[f]
          BY <3>2, <2>4
        <4>2. frame'[e] = [noted[e] EXCEPT !.plugin["reflect"] = p]
          BY <3>2, <2>4
        <4>3. "plugin" \in DOMAIN noted[e] /\ "guard" \in DOMAIN noted[e].plugin
          BY <2>4
        <4>4. frame'[e].plugin = [noted[e].plugin EXCEPT !["reflect"] = p]
          BY <4>2, <4>3
        <4>5. frame'[e].plugin["guard"] = noted[e].plugin["guard"]
          BY <4>3, <4>4
        <4> QED
          BY <2>4, <4>1, <4>5
      <3> QED
        BY <2>3, <3>1, <3>2
    <2> QED
      BY <2>1, <2>5, <2>6 DEF Effect, Elsewhere, Consulted, BeforeGuard
  <1>13. CASE Scheduler!Observe(e)
    <2> HIDE DEF Effect, Elsewhere, BeforeGuard, Consulted
    <2> DEFINE p == Scheduler!GetPlugin(e, "observe")
               noted == [frame EXCEPT ![e].previous = @ \cup {"observe"}]
    <2>1. /\ at[e] = "observe" /\ at'[e] \notin BeforeGuard /\ UNCHANGED log
          /\ \A f \in Executions \ {e} : at'[f] = at[f]
      BY <1>13 DEF Scheduler!Observe, BeforeGuard
    <2>2. \/ ctx' = [ctx EXCEPT ![e].status = "COMPLETED"]
          \/ \E r : ctx' = [[ctx EXCEPT ![e].plugin_results["observe"] = r] EXCEPT ![e].status = "COMPLETED"]
      BY <1>13 DEF Scheduler!Observe
    <2>3. \/ frame' = [frame EXCEPT ![e].plugin["observe"] = None]
          \/ frame' = [noted EXCEPT ![e].plugin["observe"] = p]
      BY <1>13 DEF Scheduler!Observe
    <2>4. /\ noted[e].plugin = frame[e].plugin /\ DOMAIN noted = Executions
          /\ \A f \in Executions \ {e} : noted[f] = frame[f]
          /\ DOMAIN noted[e] = DOMAIN frame[e]
      OBVIOUS
    <2> HIDE DEF p, noted
    <2>5. /\ ctx'[e].tool = ctx[e].tool
          /\ \A f \in Executions \ {e} : ctx'[f] = ctx[f]
      BY <2>2
    <2>6. /\ frame'[e].plugin["guard"] = frame[e].plugin["guard"]
          /\ \A f \in Executions \ {e} : frame'[f] = frame[f]
      <3>1. CASE frame' = [frame EXCEPT ![e].plugin["observe"] = None]
        BY <3>1
      <3>2. CASE frame' = [noted EXCEPT ![e].plugin["observe"] = p]
        <4>1. \A f \in Executions \ {e} : frame'[f] = frame[f]
          BY <3>2, <2>4
        <4>2. frame'[e] = [noted[e] EXCEPT !.plugin["observe"] = p]
          BY <3>2, <2>4
        <4>3. "plugin" \in DOMAIN noted[e] /\ "guard" \in DOMAIN noted[e].plugin
          BY <2>4
        <4>4. frame'[e].plugin = [noted[e].plugin EXCEPT !["observe"] = p]
          BY <4>2, <4>3
        <4>5. frame'[e].plugin["guard"] = noted[e].plugin["guard"]
          BY <4>3, <4>4
        <4> QED
          BY <2>4, <4>1, <4>5
      <3> QED
        BY <2>3, <3>1, <3>2
    <2> QED
      BY <2>1, <2>5, <2>6 DEF Effect, Elsewhere, Consulted, BeforeGuard
  <1>14. ASSUME NEW layer \in Layers, Scheduler!ReturnedNoResult(e, layer)
         PROVE  Effect(e) /\ Elsewhere(e)
    BY <1>14, BreakMaps, BreakEffect DEF P!BreaksOff
  <1> QED
    BY <1>1, <1>2, <1>3, <1>4, <1>5, <1>6, <1>7, <1>8, <1>9, <1>10, <1>11, <1>12, <1>13,
       <1>14 DEF Run, Scheduler!Advance, Scheduler!Layers, Layers

-----------------------------------------------------------------------------

(* The initial state. *)
LEMMA InitGuard == SystemInit => GuardInv
  BY DEF SystemInit, GuardInv, BegunType, GuardOf, BeforeGuard, Consulted, P!AfterGuard,
     Scheduler!NewLog

(* Administration: the tool of a call that has not consulted its guard yet   *)
(* stays as it is, or its id is unregistered; the plugin of an id stays.     *)
LEMMA GuardAdminister ==
    ASSUME OneInstaller, RegistryInv, P!TypeInv, GuardInv, [Next]_registryVars,
           UNCHANGED calls
    PROVE  GuardInv'
  <1>1. UNCHANGED <<at, ctx, frame, log, begun>>
    BY DEF calls
  <1>2. TypeInv /\ IdFree
    BY DEF RegistryInv, InstallInv
  <1>3. retired \subseteq retired'
    BY DEF Next, Register, BeginRegister, StoreTool, StoreRefused, ConfigureTool,
        Unregister, Install, registryVars
  <1> SUFFICES ASSUME NEW e \in Executions PROVE GuardOf(e)'
    BY <1>1 DEF GuardInv, BegunType
  <1>4. GuardOf(e) /\ begun[e].tool \in ToolObjects \cup {None}
    BY DEF GuardInv, BegunType
  <1>5. Consulted(e)' <=> Consulted(e)
    BY <1>1 DEF Consulted
  <1>6. DeclaredGuard(e)' = DeclaredGuard(e)
    BY <1>1 DEF DeclaredGuard
  <1>7. Bound(e)' => Bound(e) /\ ctx[e].tool \notin retired'
    BY <1>1, <1>3, <1>6 DEF Bound
  <1>8. ASSUME at[e] \in BeforeGuard, Bound(e)'
        PROVE  tools'[ctx[e].tool] = begun[e].tool /\ ~Configuring(ctx[e].tool)'
    <2>1. Bound(e) /\ ctx[e].tool \in ToolIds \ retired'
      <3>1. ctx[e].tool \in ToolIds
        BY <1>8 DEF BeforeGuard, P!Running, P!TypeInv, P!Shape, P!ShapeOf
      <3> QED
        BY <1>7, <1>8, <3>1
    <2>2. tools[ctx[e].tool] = begun[e].tool /\ ~Configuring(ctx[e].tool)
      BY <1>4, <1>8, <2>1 DEF GuardOf
    <2>3. begun[e].tool # None
      BY <1>4, <1>8, ToolAssumption DEF GuardOf, ToolAssumption
    <2>4. \A t \in ToolIds \ retired' : tools[t] # None /\ ~Configuring(t) =>
             tools'[t] = tools[t] /\ ~Configuring(t)'
      BY <1>2, SettledStays
    <2>5. Configuring(ctx[e].tool)' <=> \E w \in Workers : pc'[w] = "configure"
                                           /\ ToolId[arg'[w]] = ctx[e].tool
      BY <1>1 DEF Configuring
    <2> QED
      BY <2>1, <2>2, <2>3, <2>4, <2>5 DEF Configuring
  <1>9. ASSUME Consulted(e), Bound(e)'
        PROVE  plugin_by_id'[DeclaredGuard(e)] = plugin_by_id[DeclaredGuard(e)]
    <2>1. Bound(e)
      BY <1>7, <1>9
    <2>2. plugin_by_id[DeclaredGuard(e)] # None /\ begun[e].tool \in ToolObjects
      BY <1>4, <1>9, <2>1 DEF GuardOf
    <2>3. DeclaredGuard(e) \in PluginIds
      <3>1. Declares[begun[e].tool] \in Config /\ "guard" \in Layers
        BY <2>2, ToolAssumption DEF ToolAssumption, Layers
      <3>2. Declares[begun[e].tool]["guard"] \in PluginIds \cup {None}
        BY <3>1 DEF Config
      <3>3. DeclaredGuard(e) # None
        BY <2>1 DEF Bound
      <3> QED
        BY <3>2, <3>3 DEF DeclaredGuard
    <2> QED
      BY <1>2, <2>2, <2>3, IdsFixed
  <1> QED
    BY <1>1, <1>4, <1>5, <1>6, <1>7, <1>8, <1>9 DEF GuardOf

(* A new call: get_tool finds the tool, and whether it is settled is noted.  *)
LEMMA GuardCall ==
    ASSUME P!TypeInv, TypeInv, GuardInv, NEW e \in Executions, NEW t \in ToolIds,
           NEW p \in Params, Call(e, t, p)
    PROVE  GuardInv'
  <1>1. /\ tools[t] \in ToolObjects /\ UNCHANGED registryVars
        /\ at'[e] = "schema" /\ ctx'[e].tool = t /\ log'[e].calls = <<>>
        /\ begun'[e] = [tool |-> tools[t], settled |-> ~Configuring(t)]
        /\ begun' \in [Executions -> [tool: ToolObjects \cup {None}, settled: BOOLEAN]]
    <2>1. tools[t] \in ToolObjects
      BY DEF Call, Scheduler!Execute, TypeInv, TypeOK
    <2>2. (~Configuring(t)) \in BOOLEAN
      OBVIOUS
    <2>3. [tool |-> tools[t], settled |-> ~Configuring(t)]
            \in [tool: ToolObjects \cup {None}, settled: BOOLEAN]
      BY <2>1, <2>2
    <2>4. begun' = [begun EXCEPT ![e] = [tool |-> tools[t], settled |-> ~Configuring(t)]]
      BY DEF Call
    <2>5. /\ begun'[e] = [tool |-> tools[t], settled |-> ~Configuring(t)]
          /\ begun' \in [Executions -> [tool: ToolObjects \cup {None}, settled: BOOLEAN]]
      BY <2>3, <2>4 DEF GuardInv, BegunType
    <2>6. /\ at'[e] = "schema" /\ ctx'[e].tool = t /\ log'[e].calls = <<>>
          /\ UNCHANGED registryVars
      BY DEF Call, Scheduler!Execute, Scheduler!Jump, Scheduler!NewContext,
         Scheduler!NewLog, P!TypeInv, P!TypeOK
    <2> QED
      BY <2>1, <2>5, <2>6
  <1>2. \A f \in Executions \ {e} : /\ at'[f] = at[f] /\ ctx'[f] = ctx[f]
                                    /\ frame'[f] = frame[f] /\ log'[f] = log[f]
                                    /\ begun'[f] = begun[f]
    BY DEF Call, Scheduler!Execute, Scheduler!Jump, P!TypeInv, P!TypeOK, GuardInv, BegunType
  <1>3. UNCHANGED <<tools, retired, plugin_by_id>> /\ \A u \in ToolIds : Configuring(u)' <=> Configuring(u)
    BY <1>1 DEF registryVars, Configuring
  <1>4. GuardOf(e)'
    <2>1. ~Consulted(e)'
      BY <1>1 DEF Consulted, P!AfterGuard
    <2>2. begun'[e].tool = tools[t] /\ begun'[e].settled = ~Configuring(t)
      BY <1>1
    <2> QED
      BY <1>1, <1>3, <2>1, <2>2 DEF GuardOf, Bound, BeforeGuard
  <1>5. ASSUME NEW f \in Executions \ {e} PROVE GuardOf(f)'
    <2>1. GuardOf(f)
      BY DEF GuardInv
    <2>2. Configuring(ctx[f].tool)' <=> Configuring(ctx[f].tool)
      BY <1>1, <1>2 DEF Configuring, registryVars
    <2> QED
      BY <1>2, <1>3, <2>1, <2>2 DEF GuardOf, Bound, Consulted, DeclaredGuard
  <1> QED
    BY <1>1, <1>4, <1>5 DEF GuardInv, BegunType

(* A step of a call: at its lookup it finds the declared guard.              *)
LEMMA GuardRun ==
    ASSUME RegistryInv, P!TypeInv, GuardInv, NEW e \in Executions,
           Run(e) \/ \E layer \in Layers : LookupRaises(e, layer)
    PROVE  GuardInv'
  <1>1. Effect(e) /\ Elsewhere(e)
    BY RunEffect, BreakMaps, BreakEffect DEF LookupRaises, P!BreaksOff
  <1>2. UNCHANGED <<tools, retired, plugin_by_id, begun, pc, arg>>
    BY DEF Run, LookupRaises, registryVars
  <1>3. \A f \in Executions : /\ DeclaredGuard(f)' = DeclaredGuard(f)
                              /\ ctx'[f].tool = ctx[f].tool
    BY <1>1, <1>2 DEF DeclaredGuard, Effect, Elsewhere
  <1>4. \A f \in Executions : /\ Bound(f)' <=> Bound(f)
                              /\ Configuring(ctx[f].tool)' <=> Configuring(ctx[f].tool)
    BY <1>2, <1>3 DEF Bound, Configuring
  <1>5. ASSUME NEW f \in Executions \ {e} PROVE GuardOf(f)'
    <2>1. GuardOf(f) /\ (Consulted(f)' <=> Consulted(f)) /\ at'[f] = at[f] /\ frame'[f] = frame[f]
      BY <1>1 DEF GuardInv, Elsewhere, Consulted
    <2> QED
      BY <1>2, <1>3, <1>4, <2>1 DEF GuardOf
  <1>6. GuardOf(e)'
    <2>1. GuardOf(e)
      BY DEF GuardInv
    <2>2. CASE /\ at[e] = "guard"
               /\ frame'[e].plugin["guard"] = GetPlugin("guard", ctx[e].tool)
      <3>1. at[e] \in BeforeGuard /\ at'[e] \notin BeforeGuard
        BY <1>1, <2>2 DEF Effect, BeforeGuard
      <3>2. begun[e].tool \in ToolObjects
        BY <2>1, <3>1 DEF GuardOf
      <3>3. ASSUME Bound(e)
            PROVE  /\ frame'[e].plugin["guard"] = plugin_by_id[DeclaredGuard(e)]
                   /\ frame'[e].plugin["guard"] # None
        <4>1. ctx[e].tool \in ToolIds \ retired
          <5>1. ctx[e].tool \in ToolIds
            BY <2>2 DEF P!Running, P!TypeInv, P!Shape, P!ShapeOf
          <5> QED
            BY <3>3, <5>1 DEF Bound
        <4>2. tools[ctx[e].tool] = begun[e].tool /\ ~Configuring(ctx[e].tool)
          BY <2>1, <3>1, <3>3 DEF GuardOf
        <4>3. Declares[tools[ctx[e].tool]]["guard"] = DeclaredGuard(e) /\ DeclaredGuard(e) # None
          BY <3>3, <4>2 DEF DeclaredGuard, Bound
        <4> QED
          BY <2>2, <3>2, <4>1, <4>2, <4>3, FindsDeclaredGuard
      <3> QED
        BY <1>2, <1>3, <1>4, <3>1, <3>2, <3>3 DEF GuardOf
    <2>3. CASE /\ frame'[e].plugin["guard"] = frame[e].plugin["guard"]
               /\ at'[e] \in BeforeGuard => at[e] \in BeforeGuard
               /\ Consulted(e)' => Consulted(e)
      BY <1>2, <1>3, <1>4, <2>1, <2>3 DEF GuardOf
    <2> QED
      BY <1>1, <2>2, <2>3 DEF Effect
  <1> QED
    BY <1>2, <1>5, <1>6 DEF GuardInv, BegunType

(* Every step keeps GuardInv. *)
LEMMA NextGuard ==
    ASSUME OneInstaller
    PROVE  RegistryInv /\ P!TypeInv /\ GuardInv /\ [SystemNext]_systemVars => GuardInv'
  <1> SUFFICES ASSUME RegistryInv, P!TypeInv, GuardInv, [SystemNext]_systemVars
               PROVE  GuardInv'
    OBVIOUS
  <1>1. CASE Administer
    BY <1>1, OneInstaller, GuardAdminister DEF Administer
  <1>2. ASSUME NEW e \in Executions, NEW t \in ToolIds, NEW p \in Params, Call(e, t, p)
        PROVE  GuardInv'
    BY <1>2, GuardCall DEF RegistryInv, InstallInv
  <1>3. ASSUME NEW e \in Executions, NEW t \in ToolIds, CallUnknown(e, t) PROVE GuardInv'
    <2>1. /\ UNCHANGED <<registryVars, begun, ctx, frame, log>> /\ at[e] = "idle"
          /\ at' = [at EXCEPT ![e] = "raised"]
      BY <1>3 DEF CallUnknown, Scheduler!ToolNotFound, Scheduler!Jump
    <2> SUFFICES ASSUME NEW f \in Executions PROVE GuardOf(f)'
      BY <2>1 DEF GuardInv, BegunType
    <2>2. GuardOf(f)
      BY DEF GuardInv
    <2>3. at'[f] = at[f] \/ (at[f] = "idle" /\ at'[f] = "raised")
      BY <2>1 DEF P!TypeInv, P!TypeOK
    <2>4. /\ Consulted(f)' <=> Consulted(f)
          /\ at'[f] \in BeforeGuard <=> at[f] \in BeforeGuard
      BY <2>1, <2>3 DEF Consulted, P!AfterGuard, BeforeGuard
    <2>5. UNCHANGED <<tools, retired, plugin_by_id, pc, arg, begun, ctx, frame>>
      BY <2>1 DEF registryVars
    <2> QED
      BY <2>2, <2>4, <2>5 DEF GuardOf, Bound, DeclaredGuard, Configuring
  <1>4. ASSUME NEW e \in Executions, Run(e) PROVE GuardInv'
    BY <1>4, GuardRun
  <1>5. ASSUME NEW e \in Executions, NEW layer \in Layers, LookupRaises(e, layer)
        PROVE  GuardInv'
    BY <1>5, GuardRun
  <1>6. CASE UNCHANGED systemVars
    BY <1>6, OneInstaller, GuardAdminister DEF systemVars
  <1> QED
    BY <1>1, <1>2, <1>3, <1>4, <1>5, <1>6 DEF SystemNext

(* A call that ran its tool consulted its guard, and was let through.        *)
LEMMA InvHonours == P!AdmissionInv /\ GuardInv => GuardHonoured
  <1> SUFFICES ASSUME P!AdmissionInv, GuardInv, NEW e \in Executions, log[e].calls # <<>>,
                      begun[e].settled, ctx[e].tool \notin retired, DeclaredGuard(e) # None
               PROVE  /\ frame[e].plugin["guard"] = plugin_by_id[DeclaredGuard(e)]
                      /\ frame[e].plugin["guard"] # None
                      /\ Scheduler!LetThrough(e, "guard")
    BY DEF GuardHonoured
  <1>1. Consulted(e) /\ Bound(e) /\ GuardOf(e)
    BY DEF Consulted, Bound, GuardInv
  <1>2. P!LetThrough(e, "guard")
    BY DEF P!AdmissionInv, P!AdmissionOf
  <1>3. Scheduler!LetThrough(e, "guard")
    BY <1>2 DEF P!LetThrough, Scheduler!LetThrough
  <1> QED
    BY <1>1, <1>3 DEF GuardOf

(* A tool that declares a guard never runs past it: the guard consulted is   *)
(* the declared one and it let the call through - for every call that began  *)
(* when the tool's registration was over, until its id is unregistered, when *)
(* one thread installs plugins.                                              *)
THEOREM GuardHonouredHolds ==
    ASSUME OneInstaller PROVE SystemSpec => []GuardHonoured
  <1> DEFINE SystemInv == RegistryInv /\ P!TypeInv /\ P!AdmissionInv /\ GuardInv
  <1>1. SystemInit => SystemInv
    BY OneInstaller, RegistrySteps, RegistryInvInductive, SchedulerInvInductive, InitGuard
  <1>2. SystemInv /\ [SystemNext]_systemVars => SystemInv'
    BY OneInstaller, RegistrySteps, RegistryInvInductive, SchedulerInvInductive, NextGuard
       DEF RegistryInv, InstallInv
  <1>3. SystemInv => GuardHonoured
    BY InvHonours
  <1> HIDE DEF SystemInv
  <1> QED
    BY <1>1, <1>2, <1>3, PTL DEF SystemSpec
=============================================================================
