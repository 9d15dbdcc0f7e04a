------------------------------ MODULE SlotAgent ------------------------------
(***************************************************************************)
(* slotagent.agent: one thread calls execute, batch_run or run, which      *)
(* drive CoreScheduler with the shipped plugins; another thread registers  *)
(* and unregisters tools meanwhile.                                        *)
(*                                                                         *)
(* Task i of a batch is call i of the scheduler.  The plugins are global:  *)
(* what other threads do to the pool is the subject of Scheduling.         *)
(***************************************************************************)
EXTENDS BuiltinPlugins

CONSTANTS
    MaxTasks,        \* bound: tasks of a batch
    Tools, ToolSchema,   \* tool identifiers, and the input_schema of each
    Plugins, Config,     \* plugin objects, and the kind and configuration of each
    MaxRetries,      \* their max_retries attribute
    Params,          \* parameter values of callers and language models
    Replies,         \* what the language model may answer, NoReply included
    Setups,          \* [api, llm, tasks, plugins]: the agents and requests considered
    Opaque

Executions == 1 .. MaxTasks
Layers == {"schema", "guard", "healing", "reflect", "observe"}

(* The classes of each layer: a plugin is registered in the layer it names. *)
Kinds == [schema  |-> {"SchemaDefault", "SchemaStrict", "CustomSchemaValidator"},
          guard   |-> {"GuardDefault", "GuardHumanInLoop", "RoleBasedGuard"},
          healing |-> {"HealingRetry", "HealingLLM"},
          reflect |-> {"ReflectSimple", "ReflectLLM"},
          observe |-> {"LogPlugin"}]

PluginsOf(layer) == {p \in Plugins : Config[p].kind \in Kinds[layer]}

ASSUME ValuesAssumption == Params \subseteq Values /\ ToolSchema \in [Tools -> Schemas]

ASSUME PluginsAssumption ==
    /\ Plugins \subseteq UNION {PluginsOf(l) : l \in Layers}
    /\ \A p \in PluginsOf("schema") :
          Config[p].kind # "CustomSchemaValidator" => Config[p].schema \in Schemas
    /\ MaxRetries \in [Plugins -> Int]

Contexts == [tool_id: Tools, params: Params, tool_schema: {ToolSchema[t] : t \in Tools},
             has_error: BOOLEAN, has_result: BOOLEAN, result_serialisable: BOOLEAN]

(* Everything `execute` of a plugin may return, in any context. *)
ResultsOf == [p \in Plugins |-> {PluginExecute(Config[p], c, r) : c \in Contexts, r \in Replies}]
ReturnsOf == [p \in Plugins |-> ResultsOf[p] \ {Raised}]
RaisingPlugins == {p \in Plugins : Raised \in ResultsOf[p]}

VARIABLES
    setup,       \* the agent, its plugins and the request; never changes
    registered,  \* the tools list_tools and get_tool find
    at, ctx, frame, event, log,   \* the calls: pc, ctx, frame, event, log of CoreScheduler
    agent,       \* the locals of execute, batch_run and run
    advice       \* history: the fixed_params each call got from a language model

calls == <<at, ctx, frame, event, log>>
vars == <<setup, registered, at, ctx, frame, event, log, agent, advice>>

Scheduler == INSTANCE CoreScheduler WITH
    ApprovalIds <- {RequestId},
    Chains <- [Layers -> Plugins \cup {None}],
    PluginResults <- ReturnsOf,
    Raising <- RaisingPlugins,
    chain <- [t \in Tools |-> setup.plugins],
    pc <- at

EmptyDict == [type |-> "dict", items |-> << >>]

(* tool_id is None when the task names no tool. *)
Task(t, p) == [tool_id |-> t, params |-> p]
Tasks == [tool_id: Tools \cup {None}, params: Params]

(* How execute, batch_run and run may end. *)
Endings == {"returned", "KeyError", "ToolNotFoundError", "ValueError", "LLMError", "TypeError"}

ASSUME SchedulerAssumption == Scheduler!NoneAssumption /\ None \notin Endings

(* Tools and Params name whatever a model may answer with, and it may fail. *)
ASSUME RepliesAssumption ==
    /\ NoReply \in Replies
    /\ EmptyDict \in Params
    /\ \A r \in Replies : /\ r.tool_id \in Tools \cup {None}
                         /\ r.params \in Params \cup {None}
                         /\ r.fixed_params \in Params \cup {None}

ASSUME SetupsAssumption ==
    /\ MaxTasks \in Nat \ {0}
    /\ \A s \in Setups :
          /\ s.tasks \in Seq(Tasks) /\ Len(s.tasks) <= MaxTasks
          /\ s.plugins \in [Layers -> Plugins \cup {None}]
          /\ \A l \in Layers : s.plugins[l] \in PluginsOf(l) \cup {None}

Init ==
    /\ setup \in Setups
    /\ registered \in SUBSET Tools
    /\ at = [e \in Executions |-> "idle"]
    /\ ctx = [e \in Executions |-> Scheduler!NewContext(None, None, "NEW")]
    /\ frame = [e \in Executions |-> Scheduler!NewFrame]
    /\ event = [e \in Executions |-> "none"]
    /\ log = [e \in Executions |-> Scheduler!NewLog(None)]
    /\ agent = [doing |-> "idle", tasks |-> <<>>, results |-> <<>>, outcome |-> None]
    /\ advice = [e \in Executions |-> <<>>]

-----------------------------------------------------------------------------
(* Helpers *)

Do(from, to) == agent.doing = from /\ agent' = [agent EXCEPT !.doing = to]

(* The method raises, or returns what it has collected. *)
Leave(from, outcome) ==
    /\ agent.doing = from
    /\ agent' = [agent EXCEPT !.doing = "done", !.outcome = outcome]

Proceed(from, tasks) ==
    /\ agent.doing = from
    /\ agent' = [agent EXCEPT !.doing = "calling", !.tasks = tasks]

(* The call in hand is the one after the results collected so far. *)
Current == Len(agent.results) + 1

UnchangedCalls == UNCHANGED <<calls, advice>>
UnchangedRest == UNCHANGED <<setup, registered>>

-----------------------------------------------------------------------------
(* execute and batch_run *)

Begin ==
    /\ setup.api \in {"execute", "batch_run"}
    /\ Proceed("idle", setup.tasks)
    /\ UnchangedCalls /\ UnchangedRest

(* tool_id = task["tool_id"], then the scheduler's get_tool. *)
TaskWithoutTool ==
    /\ Current <= Len(agent.tasks)
    /\ agent.tasks[Current].tool_id = None
    /\ Leave("calling", "KeyError")
    /\ UnchangedCalls /\ UnchangedRest

SkipUnknown ==                    \* mutant: an unknown tool is passed over
    /\ UNCHANGED <<setup, advice>>
    /\ Current <= Len(agent.tasks)
    /\ agent.tasks[Current].tool_id # None
    /\ Scheduler!ToolNotFound(Current, agent.tasks[Current].tool_id)
    /\ agent.doing = "calling"
    /\ agent' = [agent EXCEPT !.results = Append(@, Current)]
ToolNotFound ==
    /\ UNCHANGED <<setup, advice>>
    /\ Current <= Len(agent.tasks)
    /\ agent.tasks[Current].tool_id # None
    /\ Scheduler!ToolNotFound(Current, agent.tasks[Current].tool_id)
    /\ Leave("calling", "ToolNotFoundError")

CallTool ==
    /\ UNCHANGED <<setup, advice>>
    /\ Current <= Len(agent.tasks)
    /\ LET task == agent.tasks[Current] IN
       /\ task.tool_id # None
       /\ Scheduler!Execute(Current, task.tool_id, task.params)
    /\ Do("calling", "waiting")

CallCompleted ==                  \* mutant: a call that failed is waited for
    /\ agent.doing = "waiting"
    /\ at[Current] = "returned" /\ ctx[Current].status = "COMPLETED"
    /\ agent' = [agent EXCEPT !.doing = "calling", !.results = Append(@, Current)]
    /\ UnchangedCalls /\ UnchangedRest
CallReturned ==
    /\ agent.doing = "waiting"
    /\ at[Current] = "returned"
    /\ agent' = [agent EXCEPT !.doing = "calling", !.results = Append(@, Current)]
    /\ UnchangedCalls /\ UnchangedRest

Return ==
    /\ Current > Len(agent.tasks)
    /\ Leave("calling", "returned")
    /\ UnchangedCalls /\ UnchangedRest

-----------------------------------------------------------------------------
(* run *)

NoModel ==
    /\ setup.api = "run" /\ ~setup.llm
    /\ Leave("idle", "ValueError")
    /\ UnchangedCalls /\ UnchangedRest

(* list_tools; the prompt is built from what it returned. *)
ListTools ==
    /\ setup.api = "run" /\ setup.llm
    /\ IF registered = {} THEN Leave("idle", "ValueError") ELSE Do("idle", "asking")
    /\ UnchangedCalls /\ UnchangedRest

Selected(reply) ==
    Task(reply.tool_id, IF reply.params = None THEN EmptyDict ELSE reply.params)

(* json.loads takes an object only if it is the whole text.  What is valid   *)
(* JSON and no object fails at parsed["tool_id"] with a TypeError, which the *)
(* except clause does not name.                                              *)
Choose(reply) ==
    /\ CASE reply.raises -> Leave("asking", "LLMError")
         [] reply.json = "other" -> Leave("asking", "TypeError")
         [] reply.json = "object" /\ reply.bare /\ reply.tool_id # None ->
                Proceed("asking", <<Selected(reply)>>)
         [] OTHER -> Leave("asking", "ValueError")
    /\ UnchangedCalls /\ UnchangedRest

-----------------------------------------------------------------------------
(* The scheduler runs the call in hand with the plugins of the setup. *)

PluginContext(e) ==
    [tool_id |-> ctx[e].tool, params |-> ctx[e].params, tool_schema |-> ToolSchema[ctx[e].tool],
     has_error |-> TRUE, has_result |-> TRUE, result_serialisable |-> TRUE]

ResultOf(layer, c, reply) == PluginExecute(Config[setup.plugins[layer]], c, reply)

RunSchema(e) == at[e] = "run_schema" /\ Scheduler!RunSchema(e, ResultOf("schema", PluginContext(e), NoReply))

RunGuard(e) == at[e] = "run_guard" /\ Scheduler!RunGuard(e, ResultOf("guard", PluginContext(e), NoReply))

HealEscapes(e, reply, silent) ==  \* mutant: a healing plugin that raises fails the call
    /\ at[e] = "heal"
    /\ LET r == ResultOf("healing", [PluginContext(e) EXCEPT !.has_error = ~silent], reply) IN
       IF r = Raised
       THEN /\ Scheduler!Jump(e, "heal", "returned")
            /\ ctx' = [ctx EXCEPT ![e].status = "FAILED", ![e].error = "internal"]
            /\ UNCHANGED <<registered, frame, event, log, advice>>
       ELSE /\ Scheduler!Heal(e, r)
            /\ advice' = [advice EXCEPT ![e] = IF r.data.fixed_params # None
                                               THEN Append(@, r.data.fixed_params) ELSE @]

(* The text of the error may be empty: there is then "no error to heal". *)
Heal(e, reply, silent) ==
    /\ at[e] = "heal"
    /\ LET r == ResultOf("healing", [PluginContext(e) EXCEPT !.has_error = ~silent], reply) IN
       /\ Scheduler!Heal(e, r)
       /\ advice' = [advice EXCEPT ![e] = IF r.data # None /\ r.data.fixed_params # None
                                          THEN Append(@, r.data.fixed_params) ELSE @]

(* What the tool returned may be falsy, and json.dumps may refuse it. *)
Reflect(e) ==
    /\ at[e] = "reflect"
    /\ Scheduler!Reflect(e)
    /\ setup.plugins["reflect"] # None =>
          \E some, plain \in BOOLEAN :
             ctx'[e].plugin_results["reflect"] =
                ResultOf("reflect", [PluginContext(e) EXCEPT !.has_result = some,
                                                            !.result_serialisable = plain], NoReply)

Advance(e) ==
    /\ UNCHANGED <<setup, agent>>
    /\ \/ /\ \/ RunSchema(e) \/ RunGuard(e) \/ Reflect(e)
             \/ Scheduler!SchemaLookup(e) \/ Scheduler!SchemaFailed(e)
             \/ Scheduler!GuardLookup(e) \/ Scheduler!GuardStopped(e)
             \/ Scheduler!BeforeExec(e) \/ Scheduler!HealingLookup(e)
             \/ Scheduler!ToolReturns(e) \/ Scheduler!ToolRaises(e)
             \/ Scheduler!StartRetry(e) \/ Scheduler!GiveUp(e) \/ Scheduler!Observe(e)
          /\ UNCHANGED advice
       \/ \E reply \in Replies, silent \in BOOLEAN : Heal(e, reply, silent)

-----------------------------------------------------------------------------
(* Another thread registers or unregisters a tool. *)
Register(t) ==
    /\ registered' = registered \cup {t} /\ t \notin registered
    /\ UNCHANGED <<setup, agent>> /\ UnchangedCalls

Unregister(t) ==
    /\ registered' = registered \ {t} /\ t \in registered
    /\ UNCHANGED <<setup, agent>> /\ UnchangedCalls

Request == Begin \/ NoModel \/ ListTools

Continue ==
    \/ TaskWithoutTool \/ ToolNotFound \/ CallTool \/ CallReturned \/ Return
    \/ \E reply \in Replies : Choose(reply)
    \/ \E e \in Executions : Advance(e)

Next == Request \/ Continue \/ \E t \in Tools : Register(t) \/ Unregister(t)

(* The caller's thread goes on: plugins, tools and models return or raise.   *)
Spec == Init /\ [][Next]_vars /\ WF_vars(Continue)

-----------------------------------------------------------------------------
(* Properties *)

(* What a caller may conclude from how execute, batch_run or run ended.  If  *)
(* it returned, every task ran to an end, in order, as the tool it names; if *)
(* it raised, the tasks before the one it raised for ran to an end - their   *)
(* contexts are lost, their effects are not - and nothing ran after them.    *)
Accounting ==
    /\ agent.results = [i \in DOMAIN agent.results |-> i]
    /\ \A e \in Executions :
          /\ e < Current => /\ at[e] = "returned"
                            /\ ctx[e].tool = agent.tasks[e].tool_id
                            /\ ctx[e].status \in {"COMPLETED", "FAILED", "PENDING_APPROVAL"}
          /\ e > Current => at[e] = "idle" /\ log[e].calls = <<>>
    /\ agent.outcome = "returned" => Len(agent.results) = Len(agent.tasks)
    /\ agent.outcome \notin {None, "returned"} =>
          \A e \in Executions : e >= Current => log[e].calls = <<>>

SchemaPlugin(e) == Config[frame[e].plugin["schema"]]

(* The schema a call is to be judged by. *)
SchemaInForce(e) ==
    IF SchemaPlugin(e).kind = "SchemaDefault" /\ SchemaPlugin(e).schema = Unset
    THEN ToolSchema[ctx[e].tool] ELSE SchemaPlugin(e).schema

Additional(e) ==
    /\ SchemaPlugin(e).kind = "SchemaStrict"
    /\ ~(DOMAIN log[e].asked.items \subseteq DOMAIN SchemaInForce(e).properties)

(* The schema plugins judge as JSON Schema does, on the parameters both mean *)
(* to judge alike: a call passes exactly when its parameters conform, and    *)
(* have no additional property under the strict plugin.                      *)
SchemaMeaning ==
    \A e \in Executions :
        /\ ctx[e].plugin_results["schema"] # None
        /\ SchemaPlugin(e).kind # "CustomSchemaValidator"
        /\ log[e].asked.type = "dict"
        /\ Plain(log[e].asked, SchemaInForce(e))
        => (Scheduler!LetThrough(e, "schema")
              <=> Conforms(log[e].asked, SchemaInForce(e)) /\ ~Additional(e))

GuardPlugin(e) == Config[frame[e].plugin["guard"]]

(* Who may run a tool: a whitelisted tool always; another one unless it is   *)
(* blacklisted or the list is exclusive; under roles, a guest; and nobody    *)
(* whom a human has to approve of.                                           *)
Permitted(g, t) ==
    CASE g.kind = "GuardDefault" ->
           t \in g.whitelist \/ (t \notin g.blacklist /\ ~g.whitelist_only)
      [] g.kind = "RoleBasedGuard" -> g.allowed[t] # {} => "guest" \in g.allowed[t]
      [] g.kind = "GuardHumanInLoop" -> FALSE

(* A tool runs only if the guard permits it, and a guard ends a call only if *)
(* it does not, whatever tool the language model picked: for good if it goes *)
(* by lists, and waiting for approval if it asks a human.                    *)
AccessControl ==
    \A e \in Executions : frame[e].plugin["guard"] # None =>
        /\ log[e].calls # <<>> => Permitted(GuardPlugin(e), ctx[e].tool)
        /\ ctx[e].error = "blocked" => /\ ~Permitted(GuardPlugin(e), ctx[e].tool)
                                       /\ GuardPlugin(e).kind # "GuardHumanInLoop"
        /\ ctx[e].status = "PENDING_APPROVAL" => GuardPlugin(e).kind = "GuardHumanInLoop"

(* A tool is tried again only on the word of a language model, and then on   *)
(* the parameters the model gave last, never on those that failed; without   *)
(* HealingLLM it runs once, max_retries or not.                              *)
RetriesOnAdvice ==
    \A e \in Executions : LET runs == log[e].calls IN
        /\ Len(runs) <= Len(advice[e]) + 1
        /\ \A i \in 2 .. Len(runs) : runs[i].params = advice[e][i - 1]
        /\ Len(runs) > 1 => Config[frame[e].plugin["healing"]].kind = "HealingLLM"

(* Under an agent and the shipped plugins, the scheduler is the one whose    *)
(* safety CoreScheduler's theorems are about.                                *)
ImplementsScheduler == Scheduler!Init /\ [][Scheduler!Next]_Scheduler!vars

(* Whatever the model, the plugins and the registry do, the caller of        *)
(* execute, batch_run or run gets an answer.                                 *)
EventuallyAnswers == agent.doing # "idle" ~> agent.doing = "done"
=============================================================================
