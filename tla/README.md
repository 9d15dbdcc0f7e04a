# Slotagent in TLA+

Models of `slotagent`: the agent, the scheduler that runs a tool through its
plugin chain, the plugin pool and the tool registry it reads, the shipped
plugins, approvals and their events, and the plugins and the timeout monitor of
its examples. TLC checks the models on small instances; TLAPS proves the most
important of what they state for every instance. Paths are relative to the
repository; `core/...` stands for `src/slotagent/core/...`.

## 1. Inventory

| Component | State | Operations | Talks to |
|---|---|---|---|
| `core/core_scheduler.py` CoreScheduler | none of its own; one `ToolExecutionContext` and the locals of `_execute_plugin_chain` per call | `get_tool`, `execute` | reads registry and pool, runs plugins and the tool, emits events |
| `core/plugin_pool.py` PluginPool | `_global_plugins`, `_tool_plugins`, `_plugin_by_id`; no lock | `register_global_plugin`, `register_tool_plugins`, `get_plugin`, three readers | called by registry and scheduler |
| `core/tool_registry.py` ToolRegistry | `_tools` under a lock | `register`, `unregister`, `validate_tool`, `get_tool`, `list_tools` | configures the pool |
| `core/approval_manager.py` ApprovalManager | `_approvals` under a lock, `_hook_manager` | `create_approval`, `approve`, `reject`, `check_timeouts`, two readers | emits `approval_resolved` |
| `core/hook_manager.py` HookManager | `_subscribers` under a lock | `subscribe`, `unsubscribe`, `emit`, `clear_subscribers`, count | calls user code |
| `agent.py` SlotAgent | the four managers, an LLM | `execute`, `batch_run`, `run`, registration, approval and hook wrappers | everything; attaches its hook manager to the approval manager |
| `plugins/schema.py` | schemas | `SchemaDefault`, `SchemaStrict` | - |
| `plugins/guard.py` | white and black list; approval manager | `GuardDefault`, `GuardHumanInLoop` | creates approvals |
| `plugins/healing.py`, `reflect.py`, `observe.py` | settings, an LLM | `HealingRetry`, `HealingLLM`, `ReflectSimple`, `ReflectLLM`, `LogPlugin` | LLM |
| `llm/` | connection settings | `complete` | network |
| `types.py`, `interfaces.py` | - | data classes, the plugin contract | - |
| `examples/custom_plugin_example.py` | `RateLimitGuard.call_history`, `MetricsCollector.metrics`, both without a lock | `execute` of four plugins | scheduler |
| `examples/approval_workflow_example.py` | the notifier's `pending_approvals`; the monitor's thread and flag | `notify_approvers`; `start`, `stop` and the loop of `TimeoutMonitor` | hooks; `check_timeouts` |

What is hard, and what makes each part correct:

* **CoreScheduler.** A call asks the pool again before every layer, while other
  threads change it. Plugins raise, or return results whose flags disagree; the
  retry loop has three exits; an exception can leave the chain anywhere. It is
  correct when no tool runs unless schema and guard let the call through, when
  the tool runs no more often than it may, when the status tells what the tool
  did, when a verdict stays, and when every call returns.
* **PluginPool, ToolRegistry.** `register` writes two structures under one lock
  and none. Racing registrations must not displace a tool, a configuration must
  always resolve, and pool and registry must agree.
* **Scheduler, registry and pool together.** Between a call's lookups tools and
  plugins come and go. A tool that declares a guard must not run past it.
* **ApprovalManager.** Decisions and timeouts race, the clock is read outside
  the lock, and events go out after it is released. One resolution per request,
  one event, and it says what the record says.
* **HookManager.** Handlers change subscriptions, raise and emit in the middle
  of a dispatch. Whoever was subscribed when the event was emitted hears it once.
* **Approvals in an execution.** The approval is stored before `wait_approval`
  goes out, and a handler may decide inside that event; an approved execution is
  not resumed. Who learns of an approval must find it, hear of it once, and hear
  how it ended. `TimeoutMonitor.stop` may find its thread in the middle of a sweep,
  and `start` may be called over a monitor that runs.
* **SlotAgent.** `batch_run` stops at the first unknown tool, with effects behind
  it; `run` trusts the answer of a model, and the tool it picks may be gone when it
  is called. What ran, and how often, must follow from how the call ended.
* **Shipped plugins.** Schema validation should mean what JSON Schema means;
  white and black lists must decide every combination; retries run on parameters
  a model made up, and must run on those and no others.
* **Example plugins.** A sliding window kept in a list that is only cleaned when a
  call comes, and counters incremented by `+=`, both shared by threads.

`PROJECT.json` lists the hazards at their lines, each with the properties that
would catch it.

## 2. Modules

| Module | Models | Builds on | Implements |
|---|---|---|---|
| `CoreScheduler` | `execute`, `_execute_plugin_chain`, `_execute_plugin` | | `ToolLifecycle` |
| `PluginPool` | the pool: operators and actions, no specification of its own | | |
| `ToolRegistry` | the registry | extends `PluginPool` | |
| `Scheduling` | calls while tools and plugins are registered | extends `ToolRegistry`, instantiates `CoreScheduler` | `CoreScheduler` |
| `ApprovalManager` | the approval manager and a clock | | `ApprovalLifecycle` |
| `HookManager` | subscriptions and dispatch | | |
| `SchemaValidation` | `_validate_simple_schema`, and JSON Schema's reading | | |
| `BuiltinPlugins` | `execute` of the shipped plugins, and of two of the examples; LLM answers | extends `SchemaValidation` | |
| `SlotAgent` | `execute`, `batch_run`, `run` | extends `BuiltinPlugins`, instantiates `CoreScheduler` | `CoreScheduler` (safety) |
| `ApprovalWorkflow` | the steps of `GuardHumanInLoop`, subscribers, deciders, `TimeoutMonitor` | extends `ApprovalManager`, instantiates `CoreScheduler` | `ApprovalManager` (safety) |
| `RateLimitGuard` | the rate limiter of the examples | | |
| `CustomPlugins` | the rate limiter in front of a tool, the metrics collector behind it | extends `RateLimitGuard` | |
| `MC...` | instances for TLC | | |
| `..._proofs` | eight modules of theorems (section 6) | | |

`ToolLifecycle` and `ApprovalLifecycle` are the abstract specifications: what an
observer of the hook events may rely on, and what a request goes through.

What would come next: the order of `approval_resolved` and `wait_approval` as a
subscriber may rely on it once the code fixes one; the composition of
`HookManager` with callers in several threads (today `ApprovalWorkflow` models
each dispatch as a list of handlers and takes its one-handler-after-the-other from
`HookManager`'s `Delivery`); `RateLimitGuard` under overlapping calls, if the
list gets a lock.

## 3. How the models correspond to the code

**CoreScheduler.** `Executions` are calls of `execute`, each run by its own
thread. `pc[e]` names the code a call runs next; between two labels lies at most
one thing another thread can see (a lookup, an event, a plugin or tool run).
`ctx[e]` is the `ToolExecutionContext`, `frame[e]` the locals of
`_execute_plugin_chain` (`previous` holds the keys of `previous_results`), and
`event[e]` the last event emitted. `registered` and `chain` are what `get_tool`
and `get_plugin` answer at the moment; `Reconfigure` changes them arbitrarily,
which is more than any thread can do. Plugin results are arbitrary members of
`PluginResults`; a plugin in `Raising` may raise, which `_execute_plugin` turns
into `PluginExecutionError`. A plugin may also return something that is no
`PluginResult` (`None` in `PluginResults`): the scheduler records it and raises at the
next line, which reads its data outside any `try` of the chain, so that `execute` fails
the call (`ReturnedNoResult`) - after the tool succeeded, if the plugin is a reflect or
observe plugin. `LookupRaises` is a `get_plugin` that raises; when it can is up to the
pool. `final_result` tells whether the tool returned something else than `None`. Result
data is reduced to the keys the scheduler
reads; `Opaque` is a truthy value without a `get` method, and `None` stands for
every falsy value that is not a dict. `log` is history: what the caller passed,
each run of the tool, each recovery a healing plugin reported. The comparison of
`success` and `should_continue` is the code's: only `should_continue` counts.

**ToolLifecycle** hides all of that: a status and a last event per call, which
event may follow which, and which event each final status leaves behind. It
records where an exception may leave the chain (`Break`): such a call fails and its last
event, `before_guard` for one, does not say so.

**PluginPool and ToolRegistry.** Workers are threads. `register_global_plugin`
has no lock, so it is a check (`BeginInstall`), a write (`AddGlobal`) and another
write (`AddId`). `register` validates (`BeginRegister`), then checks and stores
under the lock (`StoreTool`, `StoreRefused`), then configures the pool
(`ConfigureTool`). A Python dict keeps insertion order, so `global_plugins[l]` is
a sequence and `Inserted` keeps the place of an id that is there already.
`get_plugin` is one step, but its `next(iter(...))` may meet an insertion by another
thread and raise (`FallbackRaises`): then a plugin of that layer has just been added
behind others. Calls
that raise before they change anything are not steps. `retired` is history.

**Scheduling.** The same registry and pool, with calls that read them:
`CoreScheduler` is instantiated with `registered` and `chain` defined by
`get_tool` and `GetPlugin` on the real structures, and its `LookupRaises` allowed where
the pool's `FallbackRaises` is. `begun` is history: the tool
object a call got, and whether its registration was over.

**ApprovalManager.** `create_approval` reads the clock and builds its record
before it takes the lock (`BeginCreate`, `Store`); `approve` and `reject` are one
critical section (`Settle`); `check_timeouts` reads the clock (`BeginCheck`) and
then marks every expired record in one critical section (`MarkTimeouts`). The
events they owe wait in `outbox` and go out one by one (`EmitResolved`), or
nowhere if no hook manager is attached. `published` is history.

**HookManager.** `stack[w]` is the emissions a thread is in, the innermost last;
each holds the copy `emit` made. A thread uses the manager from code that no
emission runs or from inside a handler. `due` and `heard` are history.

**SchemaValidation.** A parameter value is a record tagged with its Python type;
`num` is twice the number, so that 0.5 is a value; a text is compared with others
only, and of a list it is known whether it is empty. A schema is a record of the keywords
the code reads. A `pattern` is two sets of texts: `match`, those `re.match` finds it in at
their start, which the code takes, and `search`, those it is found in anywhere, which
JSON Schema takes. `ValidUnder[v]` is the set of schemas under which
`_validate_simple_schema` accepts the dict `v`, by recursion on what is inside `v`;
`Depth` says how deep a value nests, which is what makes it finite. `Validate` follows
the code on parameters that are no dict as well: `in` works on a list or a string,
`.items()` does not. `Conforms` is written from JSON Schema instead: every node of the
value meets every keyword of the schema at its place. `Plain` says where the two are
meant to agree (section 4).

**BuiltinPlugins.** A plugin is a record of its class and its configuration,
`PluginExecute` the result its `execute` returns in a context, `Raised` an
exception. `GuardHumanInLoop` is here by its result, which names a request, or by the
exception when the parameters are no dict; how the request is stored and decided is
`ApprovalWorkflow`'s. What the code tests by `if x:` is tested by `Truthy`. Of what a language model answers only what its callers' parsers tell
apart is kept: an exception; no JSON; JSON that is no object; an object, alone in
the text or between other words, with or without the keys they look for.

**SlotAgent.** `setup` is one agent with its plugins and one request; `agent` holds
the locals of the method the caller is in: `doing` goes from `idle` through
`asking` (the model), `calling` and `waiting` (in `CoreScheduler.execute`) to
`done`, and `outcome` is what the method returned or raised. Task `i` of a batch is
call `i` of the scheduler. `Register` and `Unregister` are another thread's.
`advice` is history: the `fixed_params` a call got from the model.

**ApprovalWorkflow.** A call of `execute` is a worker of the approval manager as
well. `CreateApproval` and `StoreApproval` are `create_approval` inside
`GuardHumanInLoop.execute`; `GuardReturns` hands its result to the scheduler;
`Suspend` emits `wait_approval`, to `telling`, the subscribers of that moment.
`Tell` runs one of them in the calling thread: the notifier of the example, an
auditor who keeps notes in `heard`, and a decider who may approve or reject there
and then. `DecideOutside` is `SlotAgent.approve` or `reject` from another thread,
`Announce` the `approval_resolved` event. `monitor` is `TimeoutMonitor`: its flag, the
thread it keeps, and where the caller of `stop` is; `loop` says where each of its threads
is in `_monitor_loop`. One thread starts and stops the monitor, in any order: `start` over
a monitor that runs, which makes another thread and forgets the first; `stop` before any
`start`, or twice; `start` after `stop`. Only while `stop` joins is its caller busy. Each
`start` takes one of `Timers`, so their number bounds how often it is called.

**RateLimitGuard.** A call appends one stamp, its own, so the list is the set of the
calls whose stamps are in it. `ReadClock`, `Clean` (the comprehension), `Assign`
(its result replaces the list), `Check` and `Record` are cut where another thread
can come between. `overlapped` is history. **CustomPlugins** lets the tool return
or raise after it and cuts each `+=` of `MetricsCollector` into `Load` and `Store`;
`crowded` is history.

## 4. Runs

Passing:

| Run | Instance | Shows |
|---|---|---|
| `CoreScheduler` | 1 call, 1 tool, a plugin per layer, all combinations of optional schema, guard and healing plugins, up to 3 attempts, every plugin may raise or return no result, every lookup may raise; 136,332 states | `Admission`, `RetryBound`, `Verdict`, `StatusIsFinal`, `EventuallyReturns`, implements `ToolLifecycle` |
| `Scheduling` | 2 threads, one of which registers plugins; 4 plugins, two of them with one id, in 2 layers; 3 versions of a tool, with both, one or none of them; 1 call; 453,402 states | of the registry under calls: `ConfigResolves`, `NeverDisplaced`, `DefaultIsStable`, `InSyncUntilRetired`; `GuardHonoured`; implements `CoreScheduler` |
| `ApprovalManager` | 2 approvers and a timer, 2 approvals, timeouts 0 and 1, clock to 2; 129,086 states up to symmetry | `OneResolvedEvent`, `RecordsCoherent`, `SettledForGood`, `SweepComplete`, implements `ApprovalLifecycle` |
| `HookManager` | 2 threads, 1 event type, 2 handlers of which one raises, 2 emissions, 2 subscriptions; 19,467 states | `Delivery`, `EventuallyHeard` |
| `SlotAgent` | 3 tools that come and go, all shipped plugins, requests of up to 2 tasks; 50,896 states | `Accounting`, `SchemaMeaning`, `AccessControl`, `RetriesOnAdvice`, `EventuallyAnswers`, implements the safety of `CoreScheduler` |
| `ApprovalWorkflow` | 1 call, 1 person, a monitor started up to twice, timeouts 0 and 1, clock to 2; a decider, the auditor and the notifier subscribed in this order, or deciders around the notifier after the auditor; 390,120 states | `AnnouncedIsStored`, `HeardOnce`, `StopIsFinal`, `StopReturns`, `SettledUnlessStopped`, implements the safety of `ApprovalManager` |
| `CustomPlugins` | 3 calls, 2 let through per window of 2 ticks, clock to 3; 1,103,092 states up to symmetry | `WindowBound`, `RefusedOnlyWhenFull`, `MetricsExact`, `NeverOvercounted` |

Violations, each a place where the code does what a document, docstring or
comment rules out (`PROJECT.json` quotes the lines):

| Run | Property | What happens |
|---|---|---|
| `UnvalidatedRetry` | `LaterLayersSeeValidatedParams` | fixed parameters reach tool and reflect without schema or guard |
| `EmptyRetryLoop` | `ReturnsTerminal` | a negative `max_retries` makes `range()` empty: the tool never runs, the call returns RUNNING |
| `ConfigOutOfSync` | `AlwaysInSync` | a plain tool inherits the plugins of a retired one |
| `PluginIdTwice` | `IdRegisteredOnce` | two threads register one plugin id, no error |
| `GuardWindow` | `RunsUnderDeclaredGuard` | a call between the halves of `register` runs under the default guard |

Seen while modelling, with no run of their own:

* Approving an execution does not resume it. The documents disagree here:
  `types.py:28-29`, `docs/data_models/tool_execution_context.md:100-107` and
  `docs/architecture/core_scheduler.md:338` list the way from PENDING_APPROVAL back to
  RUNNING, or on to FAILED, and `docs/architecture/approval_workflow.md:390` and
  `hook_expansion_plan.md:207` rule it out. The code has no step for it. `StatusIsFinal`
  allows the transitions `types.py` lists, those two included; no passing run says that a
  pending call must stay pending.
* A tool that returns `None` leaves a COMPLETED call without a `final_result`
  (`docs/data_models/tool_execution_context.md:132` and `:316` rule that out).
* A guard that raises, and any plugin that returns no `PluginResult`, fail the call without
  a `guard_block` or `fail` event - a reflect or observe plugin after the tool succeeded.
* A schema plugin that succeeds but stops the chain leaves a FAILED context without an error
  text (`docs/data_models/tool_execution_context.md:317`).
* `SchemaDefault` "validates parameters against JSON Schema" (`plugins/schema.py:94`), but
  differs from it as the next paragraph says.
* `GuardHumanInLoop` raises on parameters that are no dict after it stored the request
  (`plugins/guard.py:182`); the request stays open, unannounced, until it expires.
* `run` ends in a TypeError when the model answers with JSON that is no object
  (`agent.py:186-188` names ValueError); `HealingLLM` can return `success=False` without an
  error (`interfaces.py:148`).
* A subscriber may hear `approval_resolved` before `wait_approval`
  (`docs/architecture/hook_expansion_plan.md:310-312`), since the approval exists before the
  event and a handler ahead of it may decide.
* `TimeoutMonitor.stop` ("Stop monitoring") joins the thread started last. If `start` was
  called over a running monitor, the thread it displaced may time a request out after `stop`
  returned, in the sweep it was in; `StopIsFinal` says that this is the only case.

**What the properties leave out on purpose.** `SchemaMeaning` speaks of `Plain`
parameters: a Boolean under `integer` or `number` passes the code's `isinstance`
test and not JSON Schema, a whole float under `integer` the other way round, and
Python's `==` takes `True` and `1.0` for `1` in an enum; a pattern that is in a text but
not at its start is matched by JSON Schema and not by the code. It also leaves out what the
code does not read: a type name it does not know, a `type` or `enum` of the outermost
schema, and `required` and `properties` under any type but `object`. `WindowBound` and
`RefusedOnlyWhenFull` hold while no two calls were inside the guard at once, since
an overlapping call's stamp may be lost between `Clean` and `Assign`; `MetricsExact`
likewise. `Accounting` says what a caller of `batch_run` may conclude from an
exception; that the contexts of the tasks before it are lost is the code's design.

**Bounds.** `CoreScheduler`: calls share nothing but the registry and the pool, and
`Reconfigure` already does to those what any number of other calls' threads could;
one call is therefore every call. Three attempts tell the first, a middle and the
last apart. `max_retries` is not negative in this run, since `EmptyRetryLoop` is about
that; the theorems hold for any integer but where they say otherwise. `Scheduling`: two threads make every race of two registrations, and
versions of a tool with and without plugins make every inheritance; one of them has a
plugin in one layer only, and two plugins share an id. What is registered under one tool id
is not touched by what happens under another; the violations of the registry have a second. `ApprovalManager`: two racing approvers and
a sweep on two requests give every order of three parties on one record, and a sweep
that finds two, one or none expired; `MaxTime` only cuts requests whose deadline the
clock could not pass (`now + t < MaxTime` in `BeginCreate`), so that each request can
still expire. `HookManager`: `MaxEmits` and `MaxHandlers` allow one emission nested
in, or racing with, another, and two handlers, or one subscribed twice.

`SlotAgent`: set-ups come in three families, because the plugins of one layer do not
look at those of another. *Validating* puts 18 kinds of parameters (missing,
mistyped, at, below and above a bound, with and without the pattern, nested, unexpected, not a dict) through each
schema plugin under two tools; *Guarding* puts batches of two tasks, one of them
without a tool, through each guard, with lists that overlap or exclude; *Healing*
runs a failing tool under each healing and reflect plugin, three attempts, with every
shape of answer and with parameters `json.dumps` refuses. `run` also comes without a
model, without tools, and with schema and guard. `MaxTasks` of 2 has a first task, a
last one and one that never runs.

`ApprovalWorkflow`: calls meet only in the approval manager, whose own run has several
requests at once, so one call is every call here. Two threads of the monitor are the least
with which one is displaced, and let it be started again after a stop. A decider that comes
first makes the others hear of a request already settled, the order a test would hardly set
up; `Subscriptions` may hold any orders. A deadline of 0 ticks is passed by the first tick;
the other lets the clock stand at the deadline.
`CustomPlugins`: three calls overflow a limit of two; a window of 2 and a clock to 3
let a stamp be inside, at the edge of and outside the window. `PassTime` may skip
ticks.

**Deadlock** is checked in all runs but those of `CoreScheduler` alone,
`ApprovalWorkflow` and `CustomPlugins`: there every call may have returned, the
monitor may be stopped and the clock at its bound, and nothing remains to happen.

**Symmetry** is used in `ApprovalManager` (approvers and approval ids are
interchangeable; the timer is not) and `CustomPlugins` (calls are), which check no
liveness.

Each property of a passing run has a mutant: a small change of a modelled definition,
of the kind a bug in that code would be, under which TLC finds the property violated.
The mutated definitions stand next to the ones they replace, marked `mutant`.

## 5. Fairness

* `CoreScheduler`: a call that has begun is run by its thread to the end
  (`WF` of `Advance` per call). Plugins and tools are assumed to return or raise;
  the scheduler has no timeout of its own. No call has to be made, and no lookup has to
  raise (`LookupRaises` is no part of `Advance`).
  `Scheduling` takes this over.
* `HookManager`: a dispatch goes on, and handlers end (`WF` of `Dispatch` per thread).
* `SlotAgent`: the caller's thread goes on (`WF` of `Continue`), the model's
  `complete` included, which has a timeout (`llm/qwen_llm.py`). Nobody has to
  make a request, and tools may come and go at any time.
* `ApprovalWorkflow`: threads inside `execute`, inside `emit` and inside the monitor's
  loop go on (`WF` of `Continue` per call, `Announce` per worker, `MonitorStep` per thread
  of the monitor, and `Joined`), and time passes. Nobody has to decide, to start the monitor or to stop it.
* `ToolRegistry`, `ApprovalManager` and `CustomPlugins` state safety only.

## 6. Proofs

Proved by TLAPS for all values of the constants:

| Module | Theorems | State |
|---|---|---|
| `CoreScheduler_proofs` | `TypeCorrect`, `AdmissionHolds` | `TypeOK`, `Admission` |
| | `RetryBoundHolds`, `VerdictHolds`, `StatusIsFinalHolds` | the properties of these names |
| | `ReturnsTerminalHolds` | `ReturnsTerminal`, if no `MaxRetries[p]` is negative: the hypothesis `EmptyRetryLoop` breaks |
| | `FollowsLifecycle` | the safety part of `ImplementsLifecycle` |
| `Scheduling_proofs` | `TypeCorrect`, `ConfigResolvesHolds`, `NeverDisplacedHolds`, `InSyncUntilRetiredHolds` | of `ToolRegistry`: types, and the properties of these names |
| | `DefaultIsStableHolds`, `RegisteredOnceHolds` | of `ToolRegistry`: `DefaultIsStable`, `IdRegisteredOnce`, if only one thread registers plugins |
| | `SchedulerSafety` | the safety part of `ImplementsScheduler`: refinement of `CoreScheduler` |
| | `GuardHonouredHolds` | `GuardHonoured`, if only one thread registers plugins |
| `ApprovalManager_proofs` | `TypeCorrect`, `SettledForGoodHolds`, `SweepCompleteHolds`, `RecordsCoherentHolds`, `OneResolvedEventHolds` | the properties of these names |
| | `ImplementsLifecycleHolds` | `ImplementsLifecycle`: refinement of `ApprovalLifecycle` |
| `HookManager_proofs` | `DeliveryHolds` | `Delivery` |
| `CustomPlugins_proofs` | `SystemTypeCorrect`, `WindowBoundHolds`, `RefusedOnlyWhenFullHolds`, `MetricsExactHolds`, `NeverOvercountedHolds` | types, and the properties of these names |
| `ApprovalWorkflow_proofs` | `AnnouncedIsStoredHolds`, `HeardOnceHolds`, `StopIsFinalHolds` | the properties of these names |
| | `ImplementsApprovalsHolds` | `ImplementsApprovals`: refinement of `ApprovalManager` |
| | `CallsAreScheduled` | the calls are those of `CoreScheduler` |
| `SchemaValidation_proofs` | `ValidatorMeaning` | `Validate` and `Conforms` agree on `Plain` parameters of any depth |
| `SlotAgent_proofs` | `SchemaMeaningHolds`, `AccessControlHolds`, `RetriesOnAdviceHolds` | the properties of these names |
| | `AccountingHolds` | `Accounting`, if no `MaxRetries[p]` is negative |
| | `ImplementsSchedulerHolds` | `ImplementsScheduler`: refinement of `CoreScheduler` |

**Assumptions.** All are named in the module that declares the constants, and TLC
evaluates them in the runs. `CoreScheduler`: chains, plugin results, raising plugins
and `MaxRetries` have their types, `MaxRetries` any integers (`ConstantsAssumption`),
and `None` differs from every value (`NoneAssumption`); `SchedulerAssumption` says the
same of the instance in `Scheduling`. Plugins, tools, calls and reconfigurations are
arbitrary. `ToolRegistry`: ids, layers and declared configurations have their types.
`ApprovalManager`: times are natural numbers, the timers are workers. `HookManager`:
the handlers that raise are handlers, the bounds natural numbers. `RateLimitGuard`:
there are finitely many calls, and limit and window are positive, as `validate` demands.
`ApprovalWorkflow`: calls are workers other than the monitor's threads (`ExecutionsAssumption`);
the notifier and the auditor are subscribed once each, in any order among any number of
deciders (`SubscriptionsAssumption`): a handler subscribed twice is told twice, which
`HeardOnce` is not about. `SchemaValidation`: values are finite, and what is inside a
value or a schema is one (`NestingAssumption`); they have the forms section 3 gives, and
what a pattern matches at its start it is found in (`FormsAssumption`). `SlotAgent`: a plugin is of a shipped class, under any
configuration, the schema it was given being a schema (`PluginsAssumption`), and each agent has in a layer a plugin that names
this layer, or none (`SetupsAssumption`), for `register_global_plugin` files a plugin
under the layer it names; tools and parameters include whatever a model answers with
(`RepliesAssumption`).
`OneInstaller` is a hypothesis of three theorems, not an assumption of the model: with
two threads that register plugins, `PluginIdTwice` shows what happens.

**CoreScheduler.** `TypeInv` adds `Shape` to `TypeOK`: a running call has a tool
and parameters, and at the labels where a plugin is about to run the lookup has
found one. Without it `TypeOK` is not inductive, since `Outcomes(None)` has no
type. `AdmissionInv` carries "both layers let the call through" from the lookup
to the run, and "the parameters are still the caller's" until the first run.
`ProgressInv` counts: at each label of the retry loop the number of runs and the
number of recoveries are tied to `attempt`, and `attempt` to `max_attempts`;
`RetryBound` and `Verdict` follow from it at once. `StatusIsFinal` holds because
every step but the first is taken by a call that, by `ProgressInv`, is RUNNING.
`TrailInv` gives the last event at every label, so that each step is a `Begin`,
`Notify`, `Close` or `Break` of `ToolLifecycle`, or invisible. In each proof the step of one
call leaves the others alone (`OthersStay`), so one case per action suffices.

**ToolRegistry.** `TypeInv` adds what a worker carries between two writes
(`Carries`). `InSyncUntilRetired` needs both ends of `register`: an id that was never
unregistered and has no tool has no configuration and gets none (`Unclaimed`), and
whoever is about to configure such an id is the one that stored its tool (`Claimed`);
`StoreTool` moves an id from the first to the second. For the two theorems about
one installer, the id it has checked stays free until its last write (`IdFree`), and
every plugin of a layer has its id registered or about to be (`Listed`); so inserting
never replaces a plugin, and the first of a layer stays.

**Scheduling.** `CoreScheduler_proofs` is instantiated on the composition, and each
step of the composition is shown to be one of `CoreScheduler` (`Reconfigure` among them) or
a stutter; `TypeInv` and `AdmissionInv` then hold of it. `GuardOf` adds what the
registry knows: until the guard is looked up, a call that began settled still has its
tool registered and configured, unless the id is retired; from the lookup on, the
guard in its frame is the declared one. The step between the two is the lookup, where
`InSyncUntilRetired` and `ConfigResolves` say what `GetPlugin` finds. With several
installers, a plugin that replaces another under its id would change which object the
declared id means after the lookup.

**ApprovalManager.** `TypeInv` adds what a worker carries at each label and that
no clock reading is ahead of the clock. `DraftInv`: a draft belongs to a request
that is not stored, is pending, and no two drafts share an id, so a late `Store`
overwrites nothing; with it every step keeps settled records (`SettledStay`).
`RecordInv` extends `RecordsCoherent` to drafts. `EventInv` adds the outboxes to
`OneResolvedEvent`: an event that waits there agrees with its record, has no
predecessor in `published`, and is the only one of its request in any outbox; a
pending request therefore has no event at all (`PendingIsSilent`), and resolving
it adds the first. The refinement maps `Store` to `Ask`, `Approve` and `Reject`
to `Decide`, `MarkTimeouts` to `Expire`, `EmitResolved` to `Announce` or, without
a hook manager, to a stutter, and every other step to a stutter.

**ApprovalWorkflow.** A step of a call is at most one step of the manager and at most one
of the scheduler, so the invariant of `ApprovalManager_proofs` (`ManagerInv`) and `TypeInv`
of `CoreScheduler_proofs` hold of the composition; four invariants tie them
together. `CallInv`: a call has a request from `create_approval` on, and what its guard
returned, its context and its status name that request. `RequestInv`: the request belongs
to this call alone, and is stored as soon as the call is out of `create_approval`; with it
`AnnouncedIsStored` follows. `MonitorInv`: a thread of the monitor is in `check_timeouts`
only while it sweeps, and the one the monitor keeps has ended once `stop` returned, so
that whoever sweeps after that was displaced. `HeardInv`
counts: while a call tells its subscribers, what the auditor heard of the wait and the
auditors left in `telling` add up to one, the resolutions it heard are as many as the
manager published, of which `EventInv` allows one, and a settled request that was not
published yet has its event in an outbox; `CountAppend` and `CountTail` are the lemmas
about counting.

**SlotAgent.** `AgentInv` and `CallInv` say that there is one call in hand: those before it
have returned, as the tools their tasks name, those after it are idle. `JudgedInv` keeps
what the guard said and what was made of it: its result is the verdict of its lists on the
tool of the call, or, from `GuardHumanInLoop`, a request or an exception (`Rulings`);
only `Blocked` blocks the call, and only `Awaiting` makes it wait.
`ValidatedInv` keeps the same for the schema: its result is what the plugin says of the
parameters the caller passed, though a retry may have changed those of the call since.
`AdvisedInv`: runs of the tool and advice of the model alternate, so that from the second
run on each one is on the parameters the model gave last. What the shipped plugins can
return (`ResultForms` and the lemmas after it) makes them plugins in the sense of
`CoreScheduler`; its theorems then serve here under the substitution of `Scheduler`, and
`AccountingHolds` takes from them that a call that returned has a final status.

**SchemaValidation.** That two recursions over a value agree is an induction over data,
for which TLAPS has no schema here; it is done by hand, over `Depth`. Among the natural
numbers `Depth` takes on a set of counterexamples there is a least (`LeastNat`, from the
library's `WFMin`, which speaks of a set instead of an operator), so what passes from
all values of a lesser depth to the next is true of every value (`ByRank`). That
`ValidUnder` and `Nodes` satisfy their own equations has to be shown as well: a
recursive function is a CHOICE of one that does, and `Solution` puts one together from
the solutions up to each depth. On a node by itself the two readings agree
(`NodeMeaning`, with `EnumMeaning` for Python's `==`; a pattern's two sets agree on
`Plain` texts), on a property by induction
(`PropertyMeaning`). `SchemaMeaningHolds` takes `ValidatorMeaning` to the calls of the
agent by `ValidatedInv`.

**HookManager.** `Delivery` only knows what was heard; the invariant knows what is
still to come: what each emission on a stack has heard so far is what its copy says up
to where its loop stands (`AllOnCourse`), an emission is on one stack once (`OneRun`),
and one on no stack has been heard in full (`Done`).

**RateLimitGuard.** While calls do not overlap, at most one is inside (`Alone`), and
the list is the history of admitted calls less those that an earlier call found too
old (`HistoryAdmitted`, `Dropped`); since the clock of a later call reads no less
(`Past`, `Latest`), whatever was dropped is outside its window as well. So after
`Assign` the list is exactly the window of the call, and `Check` compares its size
with the limit. An older call's window cannot grow, for a call that is admitted later
with the same time was counted with it.

**CustomPlugins.** What a call has read of a counter is never more than the number of
additions done to it (`Behind`); while nobody overlapped it is the counter itself, and
that is exact (`Exact`, with `AloneInside`).

**Only model-checked.** All liveness (`EventuallyReturns`, `EventuallyHeard`,
`EventuallyAnswers`, `StopReturns`, `SettledUnlessStopped`), and with it the fair parts of
the refinements: TLAPS has no support for `ENABLED` and fairness. Every safety property of
the passing runs is proved, some under the hypotheses the table names.

## 7. Not modelled

`get_approval`, `list_pending`, `list_tools`, `list_plugins`, `get_plugin_by_id`,
`get_plugin_chain` and `get_subscriber_count` only read; the `on_*` methods of
`SlotAgent` only delegate. Of `validate_tool` only the check of the plugins mapping is
modelled: a tool that fails another check never gets in. Regular expressions are sets of
texts, and lists in parameters are not looked into, as in the code.
Timestamps of events, execution times, error texts, prompts and log records are left
out, and with them the data of reflect and observe plugins, which nobody reads. Tools
run arbitrary code; here they return or raise. `QwenLLM`'s constructor and `MockLLM`
have no behaviour the callers could tell apart. `types.py` and `interfaces.py` are
reduced to the fields the properties tell apart; `__init_subclass__` checks class
attributes when a class is defined.

Of the examples, the tools, the functions that print a demonstration, and
`independent_mode_example.py`, `standalone_mode_example.py` and
`fine_grained_hooks_example.py` as a whole are scripts that call the library once and
print; they were read for the inputs and promises they exercise.
