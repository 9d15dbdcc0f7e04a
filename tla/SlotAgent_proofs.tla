-------------------------- MODULE SlotAgent_proofs --------------------------
(***************************************************************************)
(* The agent over the scheduler, for any tools, any shipped plugins in any *)
(* configuration, any answers of a language model and any batch.           *)
(*                                                                         *)
(* The calls are CoreScheduler's: what is proved of it is used here under  *)
(* the substitution of Scheduler (P!Next is Scheduler!Next).               *)
(***************************************************************************)
EXTENDS SlotAgent, SchemaValidation_proofs

P == INSTANCE CoreScheduler_proofs WITH
    ApprovalIds <- {RequestId},
    Chains <- [Layers -> Plugins \cup {None}],
    PluginResults <- ReturnsOf,
    Raising <- RaisingPlugins,
    chain <- [t \in Tools |-> setup.plugins],
    pc <- at

-----------------------------------------------------------------------------
(* The invariant *)

(* How far the caller's thread is: one call at a time, in the order of the   *)
(* tasks, and no call before there are tasks.                                *)
AgentInv ==
    /\ setup \in Setups
    /\ agent \in [doing: {"idle", "asking", "calling", "waiting", "done"},
                  tasks: Seq(Tasks), results: Seq(Executions), outcome: Endings \cup {None}]
    /\ agent.outcome = None <=> agent.doing # "done"
    /\ agent.results = [i \in 1 .. Len(agent.results) |-> i]
    /\ Len(agent.results) <= Len(agent.tasks) /\ Len(agent.tasks) <= MaxTasks
    /\ agent.doing \in {"idle", "asking"} => agent.tasks = <<>>
    /\ agent.doing = "waiting" => Current <= Len(agent.tasks)
    /\ agent.outcome = "returned" => Len(agent.results) = Len(agent.tasks)

(* Where each call is then. *)
CallOf(e) ==
    /\ e < Current => at[e] = "returned" /\ ctx[e].tool = agent.tasks[e].tool_id
    /\ e > Current => at[e] = "idle"
    /\ e = Current =>
          /\ agent.doing \in {"idle", "asking", "calling"} => at[e] = "idle"
          /\ agent.doing = "waiting" => /\ at[e] \notin {"idle", "raised"}
                                        /\ ctx[e].tool = agent.tasks[e].tool_id
          /\ agent.doing = "done" => at[e] \in {"idle", "raised"}

CallInv == \A e \in Executions : CallOf(e)

BeforeGuardRan(e) ==
    at[e] \in {"idle", "schema", "run_schema", "schema_failed", "guard", "run_guard"}

(* What a guard may say of a tool. *)
Rulings(g, t) ==
    IF Permitted(g, t) THEN {Passed}
    ELSE IF g.kind = "GuardHumanInLoop" THEN {Awaiting, Raised} ELSE {Blocked}

(* What the plugins of the setup have said of a call, and what was made of   *)
(* it.                                                                       *)
JudgedOf(e) ==
    /\ \A l \in Layers : frame[e].plugin[l] \in {None, setup.plugins[l]}
    /\ ctx[e].plugin_results["guard"] # None =>
          /\ frame[e].plugin["guard"] # None
          /\ ctx[e].plugin_results["guard"] \in Rulings(GuardPlugin(e), ctx[e].tool)
    /\ BeforeGuardRan(e) => ctx[e].plugin_results["guard"] = None
    /\ at[e] = "schema_failed" => ctx[e].plugin_results["schema"].error \in {"plugin", "raised"}
    /\ at[e] = "guard_stopped" => ctx[e].plugin_results["guard"] \in {Blocked, Awaiting, Raised}
    /\ ctx[e].error = "blocked" => ctx[e].plugin_results["guard"] = Blocked
    /\ ctx[e].status = "PENDING_APPROVAL" => ctx[e].plugin_results["guard"] = Awaiting

JudgedInv == \A e \in Executions : JudgedOf(e)

(* What the schema plugin said, it said of the parameters the caller passed. *)
Shown(e) ==
    [tool_id |-> ctx[e].tool, params |-> log[e].asked, tool_schema |-> ToolSchema[ctx[e].tool],
     has_error |-> TRUE, has_result |-> TRUE, result_serialisable |-> TRUE]

ValidatedOf(e) ==
    /\ ctx[e].plugin_results["schema"] # None =>
          /\ frame[e].plugin["schema"] # None
          /\ ctx[e].tool \in Tools /\ log[e].asked \in Params
          /\ ctx[e].plugin_results["schema"] = PluginExecute(SchemaPlugin(e), Shown(e), NoReply)
    /\ at[e] = "schema" => ctx[e].plugin_results["schema"] = None

ValidatedInv == \A e \in Executions : ValidatedOf(e)

(* Each advice is followed by the run it asked for before the next is given. *)
AdvisedOf(e) == LET runs == log[e].calls IN
    /\ \A i \in 2 .. Len(runs) : runs[i].params = advice[e][i - 1]
    /\ at[e] \in P!BeforeTool \cup {"idle", "raised"} => advice[e] = <<>>
    /\ at[e] \in {"attempt", "retry"} =>
          /\ Len(runs) = Len(advice[e])
          /\ runs # <<>> => ctx[e].params = advice[e][Len(runs)]
    /\ at[e] = "heal" => Len(runs) = Len(advice[e]) + 1
    /\ Len(runs) <= Len(advice[e]) + 1
    /\ advice[e] # <<>> => /\ frame[e].plugin["healing"] # None
                           /\ Config[frame[e].plugin["healing"]].kind = "HealingLLM"

AdvisedInv ==
    /\ advice \in [Executions -> Seq(Params)]
    /\ \A e \in Executions : AdvisedOf(e)

SchedulerInv == P!TypeInv /\ P!AdmissionInv

BaseInv == SchedulerInv /\ AgentInv /\ CallInv /\ JudgedInv /\ ValidatedInv /\ AdvisedInv

-----------------------------------------------------------------------------
(* What the plugins return *)

(* The results any of them may return, field by field. *)
LEMMA ResultForms ==
    /\ Data = [pending_approval |-> FALSE, approval_id |-> None, recovered |-> FALSE,
               fixed_params |-> None]
    /\ \A s, c, x : Result(s, c, x) =
          [success |-> s, should_continue |-> c, data |-> Data, error |-> x]
    /\ Passed = Result(TRUE, TRUE, None) /\ Blocked = Result(TRUE, FALSE, None)
    /\ Invalid = [success |-> FALSE, should_continue |-> FALSE, data |-> None,
                  error |-> "plugin"]
    /\ Raised = [success |-> FALSE, should_continue |-> FALSE, data |-> None,
                 error |-> "raised"]
  <1>1. ASSUME NEW s, NEW c, NEW x
        PROVE  [Result(s, c, x) EXCEPT !.data = None] =
                  [success |-> s, should_continue |-> c, data |-> None, error |-> x]
    BY DEF Result
  <1> QED
    BY <1>1 DEF Result, Data, Passed, Blocked, Invalid, Raised

(* They are results CoreScheduler expects. *)
LEMMA FormsAreResults ==
    /\ Data \in P!Dict
    /\ \A x \in P!PluginErrors \cup {None}, s, c \in BOOLEAN : Result(s, c, x) \in P!PluginResult
    /\ {Passed, Blocked, Invalid, Raised} \subseteq P!PluginResult
  <1>1. Data \in P!Dict
    BY ResultForms DEF P!Dict
  <1>2. \A x \in P!PluginErrors \cup {None}, s, c \in BOOLEAN : Result(s, c, x) \in P!PluginResult
    BY <1>1, ResultForms DEF P!PluginResult, P!PluginErrors
  <1>3. Passed \in P!PluginResult /\ Blocked \in P!PluginResult
    BY <1>2 DEF Passed, Blocked
  <1>4. Invalid \in P!PluginResult /\ Raised \in P!PluginResult
    BY ResultForms DEF P!PluginResult, P!PluginErrors
  <1> QED
    BY <1>1, <1>2, <1>3, <1>4

(* The result of a plugin that recovers, with the parameters it offers. *)
Recovered(x) == [Passed EXCEPT !.data.recovered = TRUE, !.data.fixed_params = x]

(* It is a PluginResult, too, and carries those parameters. *)
LEMMA RecoveredForm ==
    ASSUME NEW x \in Params
    PROVE  /\ Recovered(x) \in P!PluginResult
           /\ Recovered(x).success /\ Recovered(x).should_continue
           /\ Recovered(x).data \in P!Dict
           /\ Recovered(x).data.recovered /\ ~Recovered(x).data.pending_approval
           /\ Recovered(x).data.fixed_params = x
  <1> DEFINE half == [Data EXCEPT !.recovered = TRUE]
  <1> DEFINE whole == [half EXCEPT !.fixed_params = x]
  <1>1. Data \in P!Dict /\ Passed \in P!PluginResult
    BY FormsAreResults
  <1>2. ~Data.pending_approval /\ Passed.data = Data /\ Passed.success /\ Passed.should_continue
    BY ResultForms
  <1>3. half \in P!Dict /\ half.recovered /\ ~half.pending_approval
    BY <1>1, <1>2 DEF P!Dict
  <1>4. whole \in P!Dict /\ whole.recovered /\ whole.fixed_params = x
        /\ ~whole.pending_approval
    <2> HIDE DEF half
    <2> QED
      BY <1>3 DEF P!Dict
  <1>5. Recovered(x) = [Passed EXCEPT !.data = whole]
    <2>1. [Passed EXCEPT !.data = half].data = half
      BY <1>1 DEF P!PluginResult
    <2>2. Recovered(x) = [[Passed EXCEPT !.data = half] EXCEPT !.data = whole]
      BY <1>2, <2>1 DEF Recovered
    <2> HIDE DEF half, whole
    <2> QED
      BY <1>1, <1>3, <1>4, <2>2 DEF P!PluginResult
  <1> HIDE DEF whole
  <1>6. /\ [Passed EXCEPT !.data = whole] \in P!PluginResult
        /\ [Passed EXCEPT !.data = whole].data = whole
        /\ [Passed EXCEPT !.data = whole].success = Passed.success
        /\ [Passed EXCEPT !.data = whole].should_continue = Passed.should_continue
    BY <1>1, <1>4 DEF P!PluginResult
  <1> QED
    BY <1>2, <1>4, <1>5, <1>6

(* The guard's word that a human is asked: it stops the call for the time    *)
(* being, and can be told from the other results.                            *)
LEMMA AwaitingForm ==
    /\ Awaiting \in P!PluginResult /\ ~Awaiting.should_continue
    /\ Awaiting.data \in P!Dict /\ Awaiting.data.pending_approval
    /\ Awaiting \notin {Passed, Blocked, Raised}
  <1> DEFINE half == [Data EXCEPT !.pending_approval = TRUE]
  <1> DEFINE whole == [half EXCEPT !.approval_id = RequestId]
  <1>1. Data \in P!Dict /\ Blocked \in P!PluginResult
    BY FormsAreResults
  <1>2. ~Data.pending_approval /\ Passed.data = Data /\ Blocked.data = Data
        /\ ~Blocked.should_continue /\ ~Raised.success /\ Blocked.success
    BY ResultForms
  <1>3. half \in P!Dict /\ half.pending_approval
    BY <1>1 DEF P!Dict
  <1>4. whole \in P!Dict /\ whole.pending_approval
    <2> HIDE DEF half
    <2> QED
      BY <1>3 DEF P!Dict
  <1>5. Awaiting = [Blocked EXCEPT !.data = whole]
    <2>1. [Blocked EXCEPT !.data = half].data = half
      BY <1>1 DEF P!PluginResult
    <2>2. Awaiting = [[Blocked EXCEPT !.data = half] EXCEPT !.data = whole]
      BY <1>2, <2>1 DEF Awaiting
    <2> HIDE DEF half, whole
    <2> QED
      BY <1>1, <1>3, <1>4, <2>2 DEF P!PluginResult
  <1> HIDE DEF whole
  <1>6. /\ [Blocked EXCEPT !.data = whole] \in P!PluginResult
        /\ [Blocked EXCEPT !.data = whole].data = whole
        /\ [Blocked EXCEPT !.data = whole].success = Blocked.success
        /\ [Blocked EXCEPT !.data = whole].should_continue = Blocked.should_continue
    BY <1>1, <1>4 DEF P!PluginResult
  <1> QED
    BY <1>2, <1>4, <1>5, <1>6

(* A schema plugin passes, rejects, or raises. *)
LEMMA SchemaOutcome ==
    ASSUME NEW p \in PluginsOf("schema"), NEW c, NEW r
    PROVE  PluginExecute(Config[p], c, r) \in {Passed, Invalid, Raised}
  <1>1. \A x, s : Judged(x, s) \in {Passed, Invalid, Raised}
    <2>1. \A x, s : Validate(x, s) \in {"valid", "invalid", "raises"}
      BY Zenon DEF Validate
    <2> QED
      BY <2>1 DEF Judged
  <1>2. SchemaDefault(Config[p], c) \in {Passed, Invalid, Raised}
    BY <1>1 DEF SchemaDefault
  <1>3. SchemaStrict(Config[p], c) \in {Passed, Invalid, Raised}
    BY <1>1 DEF SchemaStrict
  <1>4. CustomSchemaValidator(Config[p], c) \in {Passed, Invalid, Raised}
    BY DEF CustomSchemaValidator
  <1> QED
    BY <1>2, <1>3, <1>4 DEF PluginExecute, PluginsOf, Kinds

(* A guard passes exactly what it permits; of the rest, it blocks what its   *)
(* lists or roles do not name, and asks a human, or raises, if that is what  *)
(* it is for.                                                                *)
LEMMA GuardOutcome ==
    ASSUME NEW p \in PluginsOf("guard"), NEW c, NEW r
    PROVE  PluginExecute(Config[p], c, r) \in Rulings(Config[p], c.tool_id)
  <1>1. CASE Config[p].kind = "GuardDefault"
    BY <1>1 DEF PluginExecute, GuardDefault, Permitted, Rulings
  <1>2. CASE Config[p].kind = "RoleBasedGuard"
    BY <1>2 DEF PluginExecute, RoleBasedGuard, Permitted, Rulings
  <1>3. CASE Config[p].kind = "GuardHumanInLoop"
    BY <1>3 DEF PluginExecute, GuardHumanInLoop, Permitted, Rulings
  <1> QED
    BY <1>1, <1>2, <1>3 DEF PluginsOf, Kinds

(* What it says is a PluginResult, and lets the call go on only if it passes *)
(* it.                                                                       *)
LEMMA RulingForms ==
    ASSUME NEW g, NEW t, NEW x \in Rulings(g, t)
    PROVE  /\ x \in P!PluginResult
           /\ x.should_continue => Permitted(g, t)
           /\ ~x.should_continue => x \in {Blocked, Awaiting, Raised}
           /\ x = Blocked => ~Permitted(g, t) /\ g.kind # "GuardHumanInLoop"
           /\ x = Awaiting => g.kind = "GuardHumanInLoop"
  <1>1. /\ Passed.should_continue /\ ~Blocked.should_continue /\ ~Raised.should_continue
        /\ ~Awaiting.should_continue
    BY ResultForms, AwaitingForm
  <1>2. Blocked # Passed /\ Blocked # Raised /\ Awaiting \notin {Passed, Blocked, Raised}
    <2>1. Blocked.success /\ ~Raised.success
      BY ResultForms
    <2> QED
      BY <1>1, <2>1, AwaitingForm
  <1>3. {Passed, Blocked, Raised, Awaiting} \subseteq P!PluginResult
    BY FormsAreResults, AwaitingForm
  <1>4. CASE Permitted(g, t)
    BY <1>1, <1>2, <1>3, <1>4, Zenon DEF Rulings
  <1>5. CASE ~Permitted(g, t) /\ g.kind = "GuardHumanInLoop"
    BY <1>1, <1>2, <1>3, <1>5, Zenon DEF Rulings
  <1>6. CASE ~Permitted(g, t) /\ g.kind # "GuardHumanInLoop"
    BY <1>1, <1>2, <1>3, <1>6, Zenon DEF Rulings
  <1> QED
    BY <1>4, <1>5, <1>6

(* Only HealingLLM recovers, and only with parameters of the model's. *)
LEMMA HealingOutcome ==
    ASSUME NEW p \in PluginsOf("healing"), NEW c, NEW r \in Replies
    PROVE  \/ PluginExecute(Config[p], c, r)
                 \in {Passed, Raised, Result(FALSE, TRUE, "plugin"), Result(FALSE, TRUE, None)}
           \/ /\ Config[p].kind = "HealingLLM" /\ r.fixed_params \in Params
              /\ PluginExecute(Config[p], c, r) =
                    Recovered(r.fixed_params)
  <1>1. CASE Config[p].kind = "HealingRetry"
    BY <1>1 DEF PluginExecute, HealingRetry
  <1>2. CASE Config[p].kind = "HealingLLM"
    BY <1>2, RepliesAssumption
       DEF RepliesAssumption, PluginExecute, HealingLLM, Recovered, Truthy
  <1> QED
    BY <1>1, <1>2 DEF PluginsOf, Kinds

(* The plugins of the last layers pass or raise. *)
LEMMA LastOutcome ==
    ASSUME NEW p \in PluginsOf("reflect") \cup PluginsOf("observe"), NEW c, NEW r
    PROVE  PluginExecute(Config[p], c, r) \in {Passed, Raised}
  BY DEF PluginExecute, PluginsOf, Kinds, ReflectSimple, ReflectLLM, LogPlugin

(* So every plugin returns a PluginResult, whatever it is asked. *)
LEMMA OutcomeIsResult ==
    ASSUME NEW p \in Plugins, NEW c, NEW r \in Replies
    PROVE  PluginExecute(Config[p], c, r) \in P!PluginResult
  <1>1. PICK l \in Layers : p \in PluginsOf(l)
    BY PluginsAssumption DEF PluginsAssumption
  <1>2. CASE l = "schema"
    BY <1>1, <1>2, SchemaOutcome, FormsAreResults
  <1>3. CASE l = "guard"
    BY <1>1, <1>3, GuardOutcome, RulingForms
  <1>4. CASE l = "healing"
    <2>1. Result(FALSE, TRUE, "plugin") \in P!PluginResult
          /\ Result(FALSE, TRUE, None) \in P!PluginResult
      BY FormsAreResults DEF P!PluginErrors
    <2>2. \A x \in Params : Recovered(x) \in P!PluginResult
      BY RecoveredForm
    <2> QED
      BY <1>1, <1>4, <2>1, <2>2, HealingOutcome, FormsAreResults
  <1>5. CASE l \in {"reflect", "observe"}
    BY <1>1, <1>5, LastOutcome, FormsAreResults
  <1> QED
    BY <1>2, <1>3, <1>4, <1>5 DEF Layers

(* And in a call, one that CoreScheduler lets its plugin return.             *)
LEMMA OutcomeIsExpected ==
    ASSUME NEW p \in Plugins, NEW c \in Contexts, NEW r \in Replies
    PROVE  PluginExecute(Config[p], c, r) \in P!Outcomes(p)
  <1>1. PluginExecute(Config[p], c, r) \in ResultsOf[p]
    BY DEF ResultsOf
  <1>2. Raised = P!PluginExecutionError
    BY ResultForms DEF P!PluginExecutionError
  <1>3. PluginExecute(Config[p], c, r) # None
    BY OutcomeIsResult, SchedulerAssumption
       DEF SchedulerAssumption, Scheduler!NoneAssumption, Scheduler!PluginResult,
           P!PluginResult, Scheduler!PluginErrors, P!PluginErrors, Scheduler!Dict, P!Dict
  <1> QED
    BY <1>1, <1>2, <1>3 DEF P!Outcomes, ReturnsOf, RaisingPlugins

(* What CoreScheduler assumes of its constants holds.                        *)
LEMMA SchedulerConstants == P!ConstantsAssumption /\ P!NoneAssumption
  <1>1. P!NoneAssumption
    BY SchedulerAssumption DEF SchedulerAssumption, Scheduler!NoneAssumption, P!NoneAssumption,
       Scheduler!PluginResult, P!PluginResult, Scheduler!Errors, P!Errors,
       Scheduler!PluginErrors, P!PluginErrors, Scheduler!Dict, P!Dict
  <1>2. [Layers -> Plugins \cup {None}] \subseteq [P!Layers -> Plugins \cup {None}]
    BY DEF Layers, P!Layers
  <1>3. ReturnsOf \in [Plugins -> SUBSET (P!PluginResult \cup {None})]
    BY OutcomeIsResult DEF ReturnsOf, ResultsOf
  <1>4. RaisingPlugins \subseteq Plugins
    BY DEF RaisingPlugins
  <1> QED
    BY <1>1, <1>2, <1>3, <1>4, PluginsAssumption DEF P!ConstantsAssumption, PluginsAssumption

(* None is none of the names it may stand next to. *)
LEMMA NoneIsNew ==
    /\ None \notin Plugins /\ None \notin Params /\ None \notin P!PluginResult
    /\ None \notin P!Dict /\ None \notin Endings
  BY SchedulerConstants, SchedulerAssumption DEF P!NoneAssumption, SchedulerAssumption

-----------------------------------------------------------------------------
(* The steps of a call are CoreScheduler's *)

(* The types the scheduler's variables have. *)
LEMMA CallTypes ==
    ASSUME P!TypeInv
    PROVE  /\ registered \subseteq Tools
           /\ at \in [Executions -> P!Labels]
           /\ ctx \in [Executions -> P!Context]
           /\ frame \in [Executions -> P!Frame]
           /\ log \in [Executions -> P!Log]
  BY DEF P!TypeInv, P!TypeOK

(* The plugins of a setup are plugins of their layers. *)
LEMMA SetupPlugins ==
    ASSUME setup \in Setups, NEW l \in Layers
    PROVE  /\ setup.plugins \in [Layers -> Plugins \cup {None}]
           /\ setup.plugins[l] \in PluginsOf(l) \cup {None}
           /\ setup.plugins[l] \in Plugins \cup {None}
  BY SetupsAssumption DEF SetupsAssumption

(* The initial states. *)
LEMMA InitMaps == Init => P!Init
  <1> SUFFICES ASSUME Init PROVE P!Init
    OBVIOUS
  <1>1. setup.plugins \in [Layers -> Plugins \cup {None}]
    BY SetupPlugins DEF Init, Layers
  <1> QED
    BY <1>1 DEF Init, P!Init, Scheduler!NewContext, P!NewContext, Scheduler!NewFrame,
       P!NewFrame, Scheduler!NewLog, P!NewLog, Scheduler!Layers, P!Layers

(* The actions this module takes from CoreScheduler, under either name. *)
LEMMA ActionsMap ==
    ASSUME NEW e \in Executions
    PROVE  /\ \A t, p : Scheduler!Execute(e, t, p) <=> P!Execute(e, t, p)
           /\ \A t : Scheduler!ToolNotFound(e, t) <=> P!ToolNotFound(e, t)
           /\ Scheduler!SchemaLookup(e) <=> P!SchemaLookup(e)
           /\ Scheduler!GuardLookup(e) <=> P!GuardLookup(e)
           /\ \A r : Scheduler!RunSchema(e, r) <=> P!RunSchema(e, r)
           /\ \A r : Scheduler!RunGuard(e, r) <=> P!RunGuard(e, r)
           /\ \A r : Scheduler!Heal(e, r) <=> P!Heal(e, r)
           /\ Scheduler!SchemaFailed(e) <=> P!SchemaFailed(e)
           /\ Scheduler!GuardStopped(e) <=> P!GuardStopped(e)
           /\ Scheduler!BeforeExec(e) <=> P!BeforeExec(e)
           /\ Scheduler!HealingLookup(e) <=> P!HealingLookup(e)
           /\ Scheduler!ToolReturns(e) <=> P!ToolReturns(e)
           /\ Scheduler!ToolRaises(e) <=> P!ToolRaises(e)
           /\ Scheduler!StartRetry(e) <=> P!StartRetry(e)
           /\ Scheduler!GiveUp(e) <=> P!GiveUp(e)
           /\ Scheduler!Reflect(e) <=> P!Reflect(e)
           /\ Scheduler!Observe(e) <=> P!Observe(e)
  <1> USE DEF Scheduler!Jump, P!Jump, Scheduler!Emit, P!Emit, Scheduler!pool, P!pool,
          Scheduler!Conclude, P!Conclude, Scheduler!GetPlugin, P!GetPlugin,
          Scheduler!Recorded, P!Recorded, Scheduler!Noted, P!Noted, Scheduler!Called, P!Called
  <1>1. \A t, p : Scheduler!Execute(e, t, p) <=> P!Execute(e, t, p)
    BY DEF Scheduler!Execute, P!Execute, Scheduler!NewContext, P!NewContext,
       Scheduler!NewLog, P!NewLog, Scheduler!Layers, P!Layers
  <1>2. \A t : Scheduler!ToolNotFound(e, t) <=> P!ToolNotFound(e, t)
    BY DEF Scheduler!ToolNotFound, P!ToolNotFound
  <1>3. Scheduler!SchemaLookup(e) <=> P!SchemaLookup(e)
    BY DEF Scheduler!SchemaLookup, P!SchemaLookup, Scheduler!Lookup, P!Lookup
  <1>4. Scheduler!GuardLookup(e) <=> P!GuardLookup(e)
    BY DEF Scheduler!GuardLookup, P!GuardLookup, Scheduler!Lookup, P!Lookup
  <1>5. \A r : Scheduler!RunSchema(e, r) <=> P!RunSchema(e, r)
    BY DEF Scheduler!RunSchema, P!RunSchema, Scheduler!Admits, P!Admits
  <1>6. \A r : Scheduler!RunGuard(e, r) <=> P!RunGuard(e, r)
    BY DEF Scheduler!RunGuard, P!RunGuard, Scheduler!Admits, P!Admits
  <1>7. \A r : Scheduler!Heal(e, r) <=> P!Heal(e, r)
    BY DEF Scheduler!Heal, P!Heal, Scheduler!Dict, P!Dict, Scheduler!FixedParams, P!FixedParams
  <1>8. Scheduler!SchemaFailed(e) <=> P!SchemaFailed(e)
    BY DEF Scheduler!SchemaFailed, P!SchemaFailed
  <1>9. Scheduler!GuardStopped(e) <=> P!GuardStopped(e)
    BY DEF Scheduler!GuardStopped, P!GuardStopped, Scheduler!Dict, P!Dict,
       Scheduler!Crash, P!Crash
  <1>10. Scheduler!BeforeExec(e) <=> P!BeforeExec(e)
    BY DEF Scheduler!BeforeExec, P!BeforeExec
  <1>11. Scheduler!HealingLookup(e) <=> P!HealingLookup(e)
    BY DEF Scheduler!HealingLookup, P!HealingLookup, Scheduler!MaxAttempts, P!MaxAttempts
  <1>12. Scheduler!ToolReturns(e) <=> P!ToolReturns(e)
    BY DEF Scheduler!ToolReturns, P!ToolReturns
  <1>13. Scheduler!ToolRaises(e) <=> P!ToolRaises(e)
    BY DEF Scheduler!ToolRaises, P!ToolRaises, Scheduler!MayHeal, P!MayHeal
  <1>14. Scheduler!StartRetry(e) <=> P!StartRetry(e)
    BY DEF Scheduler!StartRetry, P!StartRetry
  <1>15. Scheduler!GiveUp(e) <=> P!GiveUp(e)
    BY DEF Scheduler!GiveUp, P!GiveUp
  <1>16. Scheduler!Reflect(e) <=> P!Reflect(e)
    BY DEF Scheduler!Reflect, P!Reflect, Scheduler!Outcomes, P!Outcomes,
       Scheduler!PluginExecutionError, P!PluginExecutionError
  <1>17. Scheduler!Observe(e) <=> P!Observe(e)
    BY DEF Scheduler!Observe, P!Observe, Scheduler!Outcomes, P!Outcomes,
       Scheduler!PluginExecutionError, P!PluginExecutionError
  <1> QED
    BY <1>1, <1>2, <1>3, <1>4, <1>5, <1>6, <1>7, <1>8, <1>9, <1>10, <1>11, <1>12, <1>13,
       <1>14, <1>15, <1>16, <1>17

(* A running call shows its plugins a context of the kind they expect. *)
LEMMA ContextIsExpected ==
    ASSUME P!TypeInv, NEW e \in Executions, at[e] \in P!Running,
           NEW some \in BOOLEAN, NEW result \in BOOLEAN, NEW plain \in BOOLEAN
    PROVE  /\ PluginContext(e) \in Contexts /\ PluginContext(e).tool_id = ctx[e].tool
           /\ [PluginContext(e) EXCEPT !.has_error = some] \in Contexts
           /\ [PluginContext(e) EXCEPT !.has_result = result, !.result_serialisable = plain]
                 \in Contexts
  <1>1. ctx[e].tool \in Tools /\ ctx[e].params \in Params
    BY DEF P!TypeInv, P!Shape, P!ShapeOf
  <1>2. PluginContext(e) \in Contexts /\ PluginContext(e).tool_id = ctx[e].tool
    BY <1>1 DEF PluginContext, Contexts
  <1> QED
    BY <1>2 DEF Contexts

(* The plugin a layer found is the setup's, and what it returns is expected. *)
LEMMA LayerRuns ==
    ASSUME P!TypeInv, AgentInv, JudgedInv, NEW e \in Executions, NEW l \in Layers,
           NEW c \in Contexts, NEW r \in Replies, frame[e].plugin[l] \in Plugins
    PROVE  /\ frame[e].plugin[l] = setup.plugins[l] /\ setup.plugins[l] \in PluginsOf(l)
           /\ ResultOf(l, c, r) \in P!Outcomes(frame[e].plugin[l])
           /\ ResultOf(l, c, r) \in P!PluginResult
  <1>1. frame[e].plugin[l] = setup.plugins[l]
    BY NoneIsNew DEF JudgedInv, JudgedOf
  <1>2. setup.plugins[l] \in PluginsOf(l)
    BY <1>1, SetupPlugins, NoneIsNew DEF AgentInv
  <1> QED
    BY <1>1, <1>2, OutcomeIsExpected, OutcomeIsResult DEF ResultOf

(* The plugins that run in a step of a call. *)
LEMMA PluginStep ==
    ASSUME P!TypeInv, AgentInv, JudgedInv, NEW e \in Executions,
           RunSchema(e) \/ RunGuard(e)
              \/ \E reply \in Replies, silent \in BOOLEAN : Heal(e, reply, silent)
    PROVE  P!RunPlugin(e)
  <1> USE DEF P!Running, Layers
  <1>1. NoReply \in Replies
    BY RepliesAssumption DEF RepliesAssumption
  <1>2. CASE RunSchema(e)
    <2>1. /\ at[e] = "run_schema"
          /\ P!RunSchema(e, ResultOf("schema", PluginContext(e), NoReply))
      BY <1>2, ActionsMap DEF RunSchema
    <2>2. frame[e].plugin["schema"] \in Plugins /\ PluginContext(e) \in Contexts
      BY <2>1, ContextIsExpected DEF P!TypeInv, P!Shape, P!ShapeOf
    <2>3. ResultOf("schema", PluginContext(e), NoReply) \in P!Outcomes(frame[e].plugin["schema"])
      BY <1>1, <2>2, LayerRuns
    <2> QED
      BY <2>1, <2>3 DEF P!RunPlugin
  <1>3. CASE RunGuard(e)
    <2>1. /\ at[e] = "run_guard"
          /\ P!RunGuard(e, ResultOf("guard", PluginContext(e), NoReply))
      BY <1>3, ActionsMap DEF RunGuard
    <2>2. frame[e].plugin["guard"] \in Plugins /\ PluginContext(e) \in Contexts
      BY <2>1, ContextIsExpected DEF P!TypeInv, P!Shape, P!ShapeOf
    <2>3. ResultOf("guard", PluginContext(e), NoReply) \in P!Outcomes(frame[e].plugin["guard"])
      BY <1>1, <2>2, LayerRuns
    <2> QED
      BY <2>1, <2>3 DEF P!RunPlugin
  <1>4. ASSUME NEW reply \in Replies, NEW silent \in BOOLEAN, Heal(e, reply, silent)
        PROVE  P!RunPlugin(e)
    <2> DEFINE c == [PluginContext(e) EXCEPT !.has_error = ~silent]
    <2>1. /\ at[e] = "heal"
          /\ P!Heal(e, ResultOf("healing", c, reply))
      BY <1>4, ActionsMap DEF Heal
    <2>2. frame[e].plugin["healing"] \in Plugins /\ c \in Contexts
      BY <2>1, ContextIsExpected DEF P!TypeInv, P!Shape, P!ShapeOf
    <2>3. ResultOf("healing", c, reply) \in P!Outcomes(frame[e].plugin["healing"])
      BY <2>2, LayerRuns
    <2> QED
      BY <2>1, <2>3 DEF P!RunPlugin
  <1> QED
    BY <1>2, <1>3, <1>4

(* A step inside a call. *)
LEMMA AdvanceMaps ==
    ASSUME P!TypeInv, AgentInv, JudgedInv, NEW e \in Executions, Advance(e)
    PROVE  P!Advance(e)
  BY PluginStep, ActionsMap DEF Advance, Reflect, P!Advance

(* A new call: the current task is the next one of the caller's. *)
LEMMA CallMaps ==
    ASSUME AgentInv, CallTool \/ ToolNotFound
    PROVE  /\ Current \in Executions /\ Current <= Len(agent.tasks)
           /\ agent.tasks[Current] \in Tasks
           /\ P!Call(Current)
  <1>1. /\ Current <= Len(agent.tasks) /\ agent.tasks \in Seq(Tasks)
        /\ Current \in Nat \ {0} /\ Len(agent.tasks) <= MaxTasks /\ Len(agent.tasks) \in Nat
    BY DEF CallTool, ToolNotFound, AgentInv, Current
  <1>2. Current \in Executions /\ agent.tasks[Current] \in Tasks
    BY <1>1, SetupsAssumption DEF SetupsAssumption, Executions
  <1>3. agent.tasks[Current].tool_id \in Tools /\ agent.tasks[Current].params \in Params
    BY <1>2 DEF CallTool, ToolNotFound, Tasks
  <1>4. CASE CallTool
    BY <1>2, <1>3, <1>4, ActionsMap DEF CallTool, P!Call
  <1>5. CASE ToolNotFound
    BY <1>2, <1>3, <1>5, ActionsMap DEF ToolNotFound, P!Call
  <1> QED
    BY <1>1, <1>2, <1>4, <1>5

(* Every step is one of CoreScheduler, or leaves its variables alone.        *)
LEMMA SchedulerStep ==
    ASSUME P!TypeInv, AgentInv, JudgedInv, [Next]_vars
    PROVE  [P!Next]_P!vars
  <1>1. ASSUME Begin \/ NoModel \/ ListTools \/ TaskWithoutTool \/ CallReturned \/ Return
                  \/ \E reply \in Replies : Choose(reply)
        PROVE  UNCHANGED P!vars
    BY <1>1 DEF Begin, NoModel, ListTools, TaskWithoutTool, CallReturned, Return, Choose,
       UnchangedCalls, UnchangedRest, calls, P!vars
  <1>2. CASE UNCHANGED vars
    BY <1>2 DEF vars, P!vars
  <1>3. CASE CallTool \/ ToolNotFound
    BY <1>3, CallMaps DEF P!Next
  <1>4. ASSUME NEW e \in Executions, Advance(e)
        PROVE  P!Next
    BY <1>4, AdvanceMaps DEF P!Next
  <1>5. ASSUME NEW t \in Tools, Register(t) \/ Unregister(t)
        PROVE  P!Reconfigure
    <2>1. /\ registered' \subseteq Tools /\ setup' = setup
          /\ UNCHANGED <<at, ctx, frame, event, log>>
      BY <1>5, CallTypes DEF Register, Unregister, UnchangedCalls, calls
    <2>2. setup.plugins \in [Layers -> Plugins \cup {None}]
      BY SetupPlugins DEF AgentInv, Layers
    <2> QED
      BY <2>1, <2>2 DEF P!Reconfigure
  <1> QED
    BY <1>1, <1>2, <1>3, <1>4, <1>5 DEF Next, Request, Continue, P!Next

-----------------------------------------------------------------------------
(* The caller's thread *)

(* Nothing has been asked for at first. *)
LEMMA InitAgent == Init => AgentInv /\ CallInv
  <1> SUFFICES ASSUME Init PROVE AgentInv /\ CallInv
    OBVIOUS
  <1>1. /\ agent = [doing |-> "idle", tasks |-> <<>>, results |-> <<>>, outcome |-> None]
        /\ setup \in Setups /\ at = [e \in Executions |-> "idle"]
    BY DEF Init
  <1>2. agent.results = [i \in 1 .. 0 |-> i] /\ Len(agent.results) = 0 /\ Len(agent.tasks) = 0
    BY <1>1
  <1>3. AgentInv
    BY <1>1, <1>2, SetupsAssumption DEF AgentInv, SetupsAssumption, Current
  <1>4. CallInv
    BY <1>1, <1>2 DEF CallInv, CallOf, Current, Executions
  <1> QED
    BY <1>3, <1>4

(* What is collected, and the call in hand. *)
LEMMA Collected ==
    ASSUME AgentInv
    PROVE  /\ agent.results \in Seq(Executions) /\ Len(agent.results) \in Nat
           /\ agent.tasks \in Seq(Tasks) /\ Len(agent.tasks) \in Nat
           /\ Current = Len(agent.results) + 1 /\ Current \in Nat \ {0}
           /\ Current <= Len(agent.tasks) => Current \in Executions
  BY SetupsAssumption DEF AgentInv, Current, Executions, SetupsAssumption

(* The caller's thread collects results in order and stops when it says so. *)
LEMMA AgentStep ==
    ASSUME AgentInv, [Next]_vars
    PROVE  AgentInv'
  <1> USE Collected
  <1>1. ASSUME setup' = setup, agent' = agent PROVE AgentInv'
    BY <1>1 DEF AgentInv, Current
  <1>2. ASSUME NEW from, NEW to \in {"asking", "waiting"}, Do(from, to), setup' = setup,
               to = "asking" => from = "idle",
               to = "waiting" => from = "calling" /\ Current <= Len(agent.tasks)
        PROVE  AgentInv'
    BY <1>2 DEF AgentInv, Do, Current
  <1>3. ASSUME NEW from \in {"idle", "asking", "calling"}, NEW outcome \in Endings,
               Leave(from, outcome), setup' = setup,
               outcome = "returned" => Len(agent.results) = Len(agent.tasks)
        PROVE  AgentInv'
    BY <1>3, NoneIsNew DEF AgentInv, Leave, Current
  <1>4. ASSUME NEW from \in {"idle", "asking"}, NEW tasks \in Seq(Tasks), Len(tasks) <= MaxTasks,
               Proceed(from, tasks), setup' = setup
        PROVE  AgentInv'
    <2>1. Len(agent.results) = 0 /\ Len(tasks) \in Nat
      BY <1>4 DEF AgentInv, Proceed
    <2>2. /\ agent'.doing = "calling" /\ agent'.tasks = tasks
          /\ agent'.results = agent.results /\ agent'.outcome = agent.outcome
          /\ agent' \in [doing: {"calling"}, tasks: Seq(Tasks), results: Seq(Executions),
                        outcome: Endings \cup {None}]
      BY <1>4 DEF AgentInv, Proceed
    <2>3. agent.outcome = None /\ None # "returned"
      BY <1>4, NoneIsNew DEF AgentInv, Proceed, Endings
    <2> QED
      BY <1>4, <2>1, <2>2, <2>3 DEF AgentInv, Current
  <1>5. CASE Begin
    <2>1. setup.tasks \in Seq(Tasks) /\ Len(setup.tasks) <= MaxTasks
      BY SetupsAssumption DEF AgentInv, SetupsAssumption
    <2> QED
      BY <1>4, <1>5, <2>1 DEF Begin, UnchangedRest
  <1>6. CASE NoModel \/ TaskWithoutTool \/ ToolNotFound
    BY <1>3, <1>6 DEF NoModel, TaskWithoutTool, ToolNotFound, UnchangedRest, Endings
  <1>7. CASE ListTools
    BY <1>2, <1>3, <1>7 DEF ListTools, UnchangedRest, Endings
  <1>8. CASE CallTool
    BY <1>2, <1>8 DEF CallTool
  <1>9. CASE CallReturned
    <2> DEFINE n == Current
    <2>1. /\ n \in Executions /\ n = Len(agent.results) + 1 /\ n <= Len(agent.tasks)
          /\ agent' = [agent EXCEPT !.doing = "calling", !.results = Append(@, n)]
          /\ setup' = setup
      BY <1>9 DEF CallReturned, AgentInv, UnchangedRest
    <2> HIDE DEF n
    <2>2. Append(agent.results, n) \in Seq(Executions) /\ Len(Append(agent.results, n)) = n
      BY <2>1
    <2>3. Append(agent.results, n) = [i \in 1 .. n |-> i]
      <3>1. agent.results = [i \in 1 .. Len(agent.results) |-> i]
        BY DEF AgentInv
      <3>2. \A i \in 1 .. n : Append(agent.results, n)[i] = i
        BY <2>1, <3>1
      <3> QED
        BY <2>2, <3>2
    <2>4. agent'.results = Append(agent.results, n) /\ agent'.doing = "calling"
          /\ agent'.tasks = agent.tasks /\ agent'.outcome = agent.outcome
      BY <2>1 DEF AgentInv
    <2>5. agent.outcome = None /\ agent.outcome # "returned"
      BY <1>9, NoneIsNew DEF CallReturned, AgentInv, Endings
    <2> QED
      BY <2>1, <2>2, <2>3, <2>4, <2>5 DEF AgentInv, Current
  <1>10. CASE Return
    <2>1. Len(agent.results) = Len(agent.tasks)
      BY <1>10 DEF Return, AgentInv
    <2> QED
      BY <1>3, <1>10, <2>1 DEF Return, UnchangedRest, Endings
  <1>11. ASSUME NEW reply \in Replies, Choose(reply) PROVE AgentInv'
    <2>1. reply.tool_id # None => Selected(reply) \in Tasks
      BY RepliesAssumption DEF RepliesAssumption, Selected, Task, Tasks
    <2>2. reply.tool_id # None => <<Selected(reply)>> \in Seq(Tasks) /\ Len(<<Selected(reply)>>) = 1
      BY <2>1
    <2>3. 1 <= MaxTasks
      BY SetupsAssumption DEF SetupsAssumption
    <2>4. \/ \E x \in {"LLMError", "TypeError", "ValueError"} : Leave("asking", x)
          \/ reply.tool_id # None /\ Proceed("asking", <<Selected(reply)>>)
      BY <1>11 DEF Choose
    <2> QED
      BY <1>3, <1>4, <1>11, <2>2, <2>3, <2>4 DEF Choose, UnchangedRest, Endings
  <1>12. ASSUME NEW e \in Executions, Advance(e) PROVE AgentInv'
    BY <1>1, <1>12 DEF Advance
  <1>13. ASSUME NEW t \in Tools, Register(t) \/ Unregister(t) PROVE AgentInv'
    BY <1>1, <1>13 DEF Register, Unregister
  <1>14. CASE UNCHANGED vars
    BY <1>1, <1>14 DEF vars
  <1> QED
    BY <1>5, <1>6, <1>7, <1>8, <1>9, <1>10, <1>11, <1>12, <1>13, <1>14
       DEF Next, Request, Continue

(* Of the calls, only the one in hand is under way. *)
LEMMA CallStep ==
    ASSUME P!TypeInv, AgentInv, AgentInv', CallInv, JudgedInv, [Next]_vars
    PROVE  CallInv'
  <1> USE CallTypes, Collected
  <1>1. ASSUME UNCHANGED calls, agent'.results = agent.results,
               agent.doing \in {"idle", "asking", "calling"},
               agent'.doing \in {"idle", "asking", "calling", "done"},
               agent'.tasks = agent.tasks \/ agent.doing \in {"idle", "asking"}
        PROVE  CallInv'
    <2>1. agent'.tasks # agent.tasks => Current = 1
      BY <1>1 DEF AgentInv
    <2> QED
      BY <1>1, <2>1 DEF CallInv, CallOf, Current, calls, Executions
  <1>2. ASSUME UNCHANGED calls, agent' = agent PROVE CallInv'
    BY <1>2 DEF CallInv, CallOf, Current, calls
  <1>3. ASSUME Begin \/ NoModel \/ ListTools \/ TaskWithoutTool \/ Return
                  \/ \E reply \in Replies : Choose(reply)
        PROVE  CallInv'
    <2>1. /\ UNCHANGED calls
          /\ \/ \E from \in {"idle", "asking", "calling"} : \E x : Leave(from, x)
             \/ \E from \in {"idle", "asking"} : \E tasks : Proceed(from, tasks)
             \/ Do("idle", "asking")
      BY <1>3 DEF Begin, NoModel, ListTools, TaskWithoutTool, Return, Choose, UnchangedCalls
    <2>2. /\ agent'.results = agent.results
          /\ agent.doing \in {"idle", "asking", "calling"}
          /\ agent'.doing \in {"idle", "asking", "calling", "done"}
          /\ agent'.tasks = agent.tasks \/ agent.doing \in {"idle", "asking"}
      BY <2>1 DEF Leave, Proceed, Do, AgentInv
    <2> QED
      BY <1>1, <2>1, <2>2
  <1>4. CASE CallTool
    <2> DEFINE task == agent.tasks[Current]
    <2>1. /\ Current \in Executions /\ at' = [at EXCEPT ![Current] = "schema"]
          /\ ctx' = [ctx EXCEPT ![Current] = P!NewContext(task.tool_id, task.params, "RUNNING")]
      BY <1>4, CallMaps, ActionsMap DEF CallTool, P!Execute, P!Jump
    <2>2. ctx'[Current].tool = task.tool_id
      BY <2>1 DEF P!NewContext
    <2>3. agent'.doing = "waiting" /\ agent'.tasks = agent.tasks
          /\ agent'.results = agent.results /\ agent.doing = "calling"
      BY <1>4 DEF CallTool, Do, AgentInv
    <2>4. Current' = Current
      BY <2>3 DEF Current
    <2> QED
      BY <2>1, <2>2, <2>3, <2>4 DEF CallInv, CallOf
  <1>5. CASE ToolNotFound
    <2>1. /\ Current \in Executions /\ at' = [at EXCEPT ![Current] = "raised"] /\ ctx' = ctx
      BY <1>5, CallMaps, ActionsMap DEF ToolNotFound, P!ToolNotFound, P!Jump
    <2>2. agent'.doing = "done" /\ agent'.tasks = agent.tasks /\ agent'.results = agent.results
      BY <1>5 DEF ToolNotFound, Leave, AgentInv
    <2>3. Current' = Current
      BY <2>2 DEF Current
    <2> QED
      BY <2>1, <2>2, <2>3 DEF CallInv, CallOf
  <1>6. CASE CallReturned
    <2>1. /\ at' = at /\ ctx' = ctx /\ at[Current] = "returned" /\ agent.doing = "waiting"
          /\ agent'.doing = "calling" /\ agent'.tasks = agent.tasks
          /\ agent'.results = Append(agent.results, Current) /\ Current \in Executions
      BY <1>6 DEF CallReturned, UnchangedCalls, calls, AgentInv
    <2>2. Current' = Current + 1
      BY <2>1 DEF Current
    <2>3. \A e \in Executions : e \in Nat /\ (e < Current + 1 <=> e < Current \/ e = Current)
                                 /\ (e > Current + 1 => e > Current) /\ (e = Current + 1 => e > Current)
      BY DEF Executions
    <2> QED
      BY <2>1, <2>2, <2>3 DEF CallInv, CallOf
  <1>7. ASSUME NEW e \in Executions, Advance(e) PROVE CallInv'
    <2>1. P!Advance(e) /\ agent' = agent
      BY <1>7, AdvanceMaps DEF Advance
    <2>2. /\ at[e] \in P!Running /\ at'[e] \notin {"idle", "raised"}
          /\ ctx'[e].tool = ctx[e].tool
      BY <2>1, SchedulerConstants, P!StaysInside
    <2>3. \A f \in Executions \ {e} : at'[f] = at[f] /\ ctx'[f] = ctx[f]
      BY <2>1, SchedulerConstants, P!OthersStay DEF P!Others, P!StepOf
    <2>4. Current' = Current
      BY <2>1 DEF Current
    <2>5. e = Current /\ agent.doing = "waiting"
      <3>1. CallOf(e) /\ at[e] \notin {"idle", "raised", "returned"}
        BY <2>2 DEF CallInv, P!Running
      <3>2. e \in Nat
        BY DEF Executions
      <3> QED
        BY <3>1, <3>2 DEF CallOf, AgentInv
    <2>6. CallOf(e)'
      BY <2>1, <2>2, <2>4, <2>5 DEF CallInv, CallOf
    <2>7. \A f \in Executions \ {e} : CallOf(f)'
      BY <2>1, <2>3, <2>4 DEF CallInv, CallOf
    <2> QED
      BY <2>6, <2>7 DEF CallInv
  <1>8. ASSUME NEW t \in Tools, Register(t) \/ Unregister(t) PROVE CallInv'
    BY <1>2, <1>8 DEF Register, Unregister, UnchangedCalls
  <1>9. CASE UNCHANGED vars
    BY <1>2, <1>9 DEF vars, calls
  <1> QED
    BY <1>3, <1>4, <1>5, <1>6, <1>7, <1>8, <1>9 DEF Next, Request, Continue

-----------------------------------------------------------------------------
(* What the guard said *)

(* No plugin has been looked up at first. *)
LEMMA InitJudged == Init => JudgedInv
  <1> SUFFICES ASSUME Init, NEW e \in Executions PROVE JudgedOf(e)
    BY DEF JudgedInv
  <1>1. None # "blocked" /\ "NEW" # "PENDING_APPROVAL"
    BY SchedulerConstants DEF P!NoneAssumption, P!Errors
  <1>2. /\ \A l \in Layers : frame[e].plugin[l] = None
        /\ ctx[e].plugin_results["guard"] = None /\ ctx[e].error = None
        /\ ctx[e].status = "NEW" /\ at[e] = "idle"
    BY DEF Init, Scheduler!NewFrame, Scheduler!NewContext, Scheduler!Layers, Layers
  <1> QED
    BY <1>1, <1>2 DEF JudgedOf

(* A step that neither asks the guard nor acts on its word. *)
LEMMA JudgedKept ==
    ASSUME NEW e \in Executions, JudgedOf(e), setup' = setup,
           \A l \in Layers : frame'[e].plugin[l] \in {frame[e].plugin[l], None, setup.plugins[l]},
           frame'[e].plugin["guard"] = frame[e].plugin["guard"],
           ctx'[e].tool = ctx[e].tool,
           ctx'[e].plugin_results["guard"] = ctx[e].plugin_results["guard"],
           ctx'[e].error # "blocked" \/ ctx'[e].error = ctx[e].error,
           ctx'[e].status # "PENDING_APPROVAL" \/ ctx'[e].status = ctx[e].status,
           at'[e] \notin {"schema_failed", "guard_stopped"},
           BeforeGuardRan(e)' => BeforeGuardRan(e)
    PROVE  JudgedOf(e)'
  <1>1. GuardPlugin(e)' = GuardPlugin(e)
    BY DEF GuardPlugin
  <1>2. Rulings(GuardPlugin(e), ctx[e].tool)' = Rulings(GuardPlugin(e), ctx[e].tool)
    BY <1>1 DEF Rulings, Permitted
  <1>3. \A l \in Layers : frame'[e].plugin[l] \in {None, setup'.plugins[l]}
    BY DEF JudgedOf
  <1> QED
    BY <1>2, <1>3 DEF JudgedOf

(* What is known of the call before each step of it. *)
LEMMA CallFacts ==
    ASSUME P!TypeInv, AgentInv, JudgedInv, NEW e \in Executions
    PROVE  /\ ctx \in [Executions -> P!Context] /\ ctx[e] \in P!Context
           /\ frame \in [Executions -> P!Frame] /\ frame[e] \in P!Frame
           /\ at \in [Executions -> P!Labels] /\ log[e] \in P!Log /\ JudgedOf(e)
           /\ at[e] \in P!Running => /\ ctx[e].tool \in Tools
                                     /\ \A l \in Layers : P!GetPlugin(e, l) = setup.plugins[l]
  BY CallTypes DEF JudgedInv, P!TypeInv, P!Shape, P!ShapeOf, P!GetPlugin

(* Up to the guard. *)
LEMMA JudgedSchema ==
    ASSUME P!TypeInv, AgentInv, JudgedInv, NEW e \in Executions, setup' = setup,
           P!SchemaLookup(e) \/ P!SchemaFailed(e) \/ RunSchema(e)
    PROVE  JudgedOf(e)'
  <1>0. /\ ctx \in [Executions -> P!Context] /\ ctx[e] \in P!Context
        /\ frame \in [Executions -> P!Frame] /\ frame[e] \in P!Frame
        /\ at \in [Executions -> P!Labels] /\ JudgedOf(e)
    BY CallFacts
  <1>1. CASE P!SchemaLookup(e)
    <2>1. /\ frame' = [frame EXCEPT ![e].plugin["schema"] = setup.plugins["schema"]]
          /\ at[e] = "schema" /\ at'[e] \in {"run_schema", "guard"} /\ ctx' = ctx
      BY <1>0, <1>1, CallFacts DEF P!SchemaLookup, P!Lookup, P!Jump, P!Running, Layers
    <2>2. /\ \A l \in Layers : frame'[e].plugin[l] \in {frame[e].plugin[l], setup.plugins[l]}
          /\ frame'[e].plugin["guard"] = frame[e].plugin["guard"]
      BY <1>0, <2>1 DEF P!Frame, P!Layers, Layers
    <2> QED
      BY <1>0, <2>1, <2>2, JudgedKept DEF BeforeGuardRan, JudgedOf
  <1>2. CASE P!SchemaFailed(e)
    <2>1. /\ at[e] = "schema_failed" /\ at'[e] = "returned" /\ frame' = frame
          /\ ctx' = [ctx EXCEPT ![e].status = "FAILED",
                                ![e].error = ctx[e].plugin_results["schema"].error]
      BY <1>0, <1>2 DEF P!SchemaFailed, P!Jump, P!Conclude
    <2>2. /\ ctx'[e].tool = ctx[e].tool /\ ctx'[e].plugin_results = ctx[e].plugin_results
          /\ ctx'[e].status = "FAILED"
          /\ ctx'[e].error = ctx[e].plugin_results["schema"].error
      BY <1>0, <2>1 DEF P!Context
    <2>3. ctx'[e].error # "blocked"
      BY <1>0, <2>1, <2>2 DEF JudgedOf
    <2> QED
      BY <1>0, <2>1, <2>2, <2>3, JudgedKept DEF BeforeGuardRan
  <1>3. CASE RunSchema(e)
    <2> DEFINE r == ResultOf("schema", PluginContext(e), NoReply)
    <2>1. P!RunSchema(e, r) /\ at[e] = "run_schema"
      BY <1>3, ActionsMap DEF RunSchema
    <2>2. r \in {Passed, Invalid, Raised} /\ r \in P!PluginResult
      <3>1. frame[e].plugin["schema"] \in Plugins /\ PluginContext(e) \in Contexts
            /\ NoReply \in Replies
        BY <2>1, ContextIsExpected, RepliesAssumption
           DEF RepliesAssumption, P!Running, P!TypeInv, P!Shape, P!ShapeOf
      <3>2. setup.plugins["schema"] \in PluginsOf("schema") /\ r \in P!PluginResult
        BY <3>1, LayerRuns DEF Layers
      <3> QED
        BY <3>2, SchemaOutcome DEF ResultOf
    <2> HIDE DEF r
    <2>3. /\ ctx' = [ctx EXCEPT ![e].plugin_results["schema"] = r]
          /\ frame' = [frame EXCEPT ![e].previous = @ \cup {"schema"}]
          /\ at'[e] = IF r.should_continue THEN "guard" ELSE "schema_failed"
      BY <1>0, <2>1 DEF P!RunSchema, P!Recorded, P!Noted, P!Jump, P!Admits
    <2>4. /\ ctx'[e].plugin_results["schema"] = r
          /\ ctx'[e].plugin_results["guard"] = ctx[e].plugin_results["guard"]
          /\ ctx'[e].tool = ctx[e].tool /\ ctx'[e].status = ctx[e].status
          /\ ctx'[e].error = ctx[e].error /\ frame'[e].plugin = frame[e].plugin
      BY <1>0, <2>2, <2>3 DEF P!Context, P!Frame, P!Layers
    <2>5. r.should_continue \/ r.error \in {"plugin", "raised"}
      <3>1. Passed.should_continue
        BY ResultForms
      <3>2. Invalid.error = "plugin" /\ Raised.error = "raised"
        BY ResultForms
      <3> QED
        BY <2>2, <3>1, <3>2
    <2>6. /\ ctx[e].plugin_results["guard"] = None /\ ctx[e].status # "PENDING_APPROVAL"
          /\ ctx[e].error # "blocked"
      BY <1>0, <2>1, AwaitingForm, FormsAreResults, NoneIsNew DEF JudgedOf, BeforeGuardRan
    <2>7. \A l \in Layers : frame'[e].plugin[l] \in {None, setup'.plugins[l]}
      BY <1>0, <2>4 DEF JudgedOf
    <2> QED
      BY <2>3, <2>4, <2>5, <2>6, <2>7 DEF JudgedOf
  <1> QED
    BY <1>1, <1>2, <1>3

(* The guard, and what follows when it stops the call. *)
LEMMA JudgedGuard ==
    ASSUME P!TypeInv, AgentInv, JudgedInv, NEW e \in Executions, setup' = setup,
           P!GuardLookup(e) \/ RunGuard(e) \/ P!GuardStopped(e)
    PROVE  JudgedOf(e)'
  <1>0. /\ ctx \in [Executions -> P!Context] /\ ctx[e] \in P!Context
        /\ frame \in [Executions -> P!Frame] /\ frame[e] \in P!Frame
        /\ at \in [Executions -> P!Labels] /\ JudgedOf(e)
    BY CallFacts
  <1>1. CASE P!GuardLookup(e)
    <2>1. /\ frame' = [frame EXCEPT ![e].plugin["guard"] = setup.plugins["guard"]]
          /\ at[e] = "guard" /\ at'[e] \in {"run_guard", "before_exec"} /\ ctx' = ctx
      BY <1>0, <1>1, CallFacts DEF P!GuardLookup, P!Lookup, P!Jump, P!Running, Layers
    <2>2. \A l \in Layers : frame'[e].plugin[l] \in {None, setup'.plugins[l]}
      BY <1>0, <2>1 DEF P!Frame, P!Layers, Layers, JudgedOf
    <2>3. ctx[e].plugin_results["guard"] = None
      BY <1>0, <2>1 DEF JudgedOf, BeforeGuardRan
    <2> QED
      BY <1>0, <2>1, <2>2, <2>3 DEF JudgedOf
  <1>2. CASE RunGuard(e)
    <2> DEFINE r == ResultOf("guard", PluginContext(e), NoReply)
    <2>1. P!RunGuard(e, r) /\ at[e] = "run_guard"
      BY <1>2, ActionsMap DEF RunGuard
    <2>2. /\ frame[e].plugin["guard"] \in Plugins /\ r \in P!PluginResult
          /\ r \in Rulings(GuardPlugin(e), ctx[e].tool)
      <3>1. frame[e].plugin["guard"] \in Plugins /\ PluginContext(e) \in Contexts
            /\ NoReply \in Replies /\ PluginContext(e).tool_id = ctx[e].tool
        BY <2>1, ContextIsExpected, RepliesAssumption
           DEF RepliesAssumption, P!Running, P!TypeInv, P!Shape, P!ShapeOf
      <3>2. /\ setup.plugins["guard"] \in PluginsOf("guard") /\ r \in P!PluginResult
            /\ frame[e].plugin["guard"] = setup.plugins["guard"]
        BY <3>1, LayerRuns DEF Layers
      <3> QED
        BY <3>1, <3>2, GuardOutcome DEF ResultOf, GuardPlugin
    <2> HIDE DEF r
    <2>3. /\ ctx' = [ctx EXCEPT ![e].plugin_results["guard"] = r]
          /\ frame' = [frame EXCEPT ![e].previous = @ \cup {"guard"}]
          /\ at'[e] = IF r.should_continue THEN "before_exec" ELSE "guard_stopped"
      BY <1>0, <2>1 DEF P!RunGuard, P!Recorded, P!Noted, P!Jump, P!Admits
    <2>4. /\ ctx'[e].plugin_results["guard"] = r
          /\ ctx'[e].tool = ctx[e].tool /\ ctx'[e].status = ctx[e].status
          /\ ctx'[e].error = ctx[e].error /\ frame'[e].plugin = frame[e].plugin
      BY <1>0, <2>2, <2>3 DEF P!Context, P!Frame, P!Layers
    <2>5. /\ ctx[e].plugin_results["guard"] = None /\ ctx[e].status # "PENDING_APPROVAL"
          /\ ctx[e].error # "blocked"
      BY <1>0, <2>1, AwaitingForm, FormsAreResults, NoneIsNew DEF JudgedOf, BeforeGuardRan
    <2>6. \A l \in Layers : frame'[e].plugin[l] \in {None, setup'.plugins[l]}
      BY <1>0, <2>4 DEF JudgedOf
    <2>7. GuardPlugin(e)' = GuardPlugin(e) /\ frame'[e].plugin["guard"] # None
      BY <2>2, <2>4, NoneIsNew DEF GuardPlugin
    <2>8. Rulings(GuardPlugin(e), ctx[e].tool)' = Rulings(GuardPlugin(e), ctx[e].tool)
      BY <2>4, <2>7 DEF Rulings, Permitted
    <2>9. at'[e] = "guard_stopped" => r \in {Blocked, Awaiting, Raised}
      BY <2>2, <2>3, RulingForms
    <2>10. at'[e] \in {"before_exec", "guard_stopped"}
      BY <2>3
    <2> QED
      BY <2>2, <2>4, <2>5, <2>6, <2>7, <2>8, <2>9, <2>10 DEF JudgedOf, BeforeGuardRan
  <1>3. CASE P!GuardStopped(e)
    <2> DEFINE r == ctx[e].plugin_results["guard"]
    <2>1. /\ at[e] = "guard_stopped" /\ at'[e] = "returned" /\ frame' = frame
          /\ r \in {Blocked, Awaiting, Raised}
      BY <1>0, <1>3 DEF P!GuardStopped, P!Jump, JudgedOf
    <2>2. /\ Blocked.data \in P!Dict /\ ~Blocked.data.pending_approval
          /\ Awaiting.data \in P!Dict /\ Awaiting.data.pending_approval
          /\ Raised.data \notin P!Dict
      BY ResultForms, FormsAreResults, AwaitingForm, NoneIsNew
    <2>3. \/ /\ r = Awaiting
             /\ ctx' = [ctx EXCEPT ![e].status = "PENDING_APPROVAL",
                                   ![e].approval_id = r.data.approval_id]
          \/ /\ r = Blocked
             /\ ctx' = [ctx EXCEPT ![e].status = "FAILED", ![e].error = "blocked"]
          \/ ctx' = [ctx EXCEPT ![e].status = "FAILED", ![e].error = "internal"]
      BY <1>3, <2>1, <2>2 DEF P!GuardStopped, P!Conclude, P!Crash
    <2>4. /\ ctx'[e].tool = ctx[e].tool /\ ctx'[e].plugin_results = ctx[e].plugin_results
          /\ \/ /\ r = Awaiting /\ ctx'[e].status = "PENDING_APPROVAL"
                /\ ctx'[e].error = ctx[e].error
             \/ /\ r = Blocked /\ ctx'[e].status = "FAILED"
                /\ ctx'[e].error = "blocked"
             \/ ctx'[e].status = "FAILED" /\ ctx'[e].error = "internal"
      BY <1>0, <2>3 DEF P!Context
    <2>5. GuardPlugin(e)' = GuardPlugin(e)
      BY <2>1 DEF GuardPlugin
    <2>6. Rulings(GuardPlugin(e), ctx[e].tool)' = Rulings(GuardPlugin(e), ctx[e].tool)
      BY <2>4, <2>5 DEF Rulings, Permitted
    <2> QED
      BY <1>0, <2>1, <2>4, <2>6 DEF JudgedOf, BeforeGuardRan
  <1> QED
    BY <1>1, <1>2, <1>3

(* Once the guard is passed, the rest of the call leaves its word alone. *)
LEMMA JudgedLater ==
    ASSUME P!TypeInv, AgentInv, JudgedInv, NEW e \in Executions, setup' = setup,
           \/ P!BeforeExec(e) \/ P!HealingLookup(e) \/ P!ToolReturns(e) \/ P!ToolRaises(e)
           \/ P!StartRetry(e) \/ P!GiveUp(e) \/ P!Reflect(e) \/ P!Observe(e)
           \/ \E r \in P!PluginResult : P!Heal(e, r)
    PROVE  JudgedOf(e)'
  <1>0. /\ ctx \in [Executions -> P!Context] /\ ctx[e] \in P!Context
        /\ frame \in [Executions -> P!Frame] /\ frame[e] \in P!Frame
        /\ at \in [Executions -> P!Labels] /\ JudgedOf(e)
    BY CallFacts
  <1>1. /\ at[e] \in P!Running
        /\ at'[e] \notin {"idle", "schema", "run_schema", "schema_failed", "guard", "run_guard",
                          "guard_stopped"}
    BY <1>0 DEF P!BeforeExec, P!HealingLookup, P!ToolReturns, P!ToolRaises, P!StartRetry,
       P!GiveUp, P!Reflect, P!Observe, P!Heal, P!Jump, P!Running
  <1>2. \A l \in Layers : P!GetPlugin(e, l) = setup.plugins[l]
    BY <1>1, CallFacts
  <1>3. \A l \in Layers : frame'[e].plugin[l] \in {frame[e].plugin[l], None, setup.plugins[l]}
    <2> USE <1>0 DEF P!Frame, Layers, P!Layers
    <2>1. CASE P!BeforeExec(e) \/ P!GiveUp(e)
      BY <2>1 DEF P!BeforeExec, P!GiveUp
    <2>2. CASE P!HealingLookup(e)
      BY <1>2, <2>2 DEF P!HealingLookup
    <2>3. CASE P!ToolReturns(e) \/ P!ToolRaises(e) \/ \E r \in P!PluginResult : P!Heal(e, r)
      <3>1. PICK key : frame' = P!Noted(e, key)
        BY <2>3 DEF P!ToolReturns, P!ToolRaises, P!Heal
      <3> QED
        BY <3>1 DEF P!Noted
    <2>4. CASE P!StartRetry(e)
      BY <2>4 DEF P!StartRetry
    <2>5. CASE P!Reflect(e)
      BY <1>2, <2>5 DEF P!Reflect, P!Noted
    <2>6. CASE P!Observe(e)
      BY <1>2, <2>6 DEF P!Observe, P!Noted
    <2> QED
      BY <2>1, <2>2, <2>3, <2>4, <2>5, <2>6
  <1>4. frame'[e].plugin["guard"] = frame[e].plugin["guard"]
    <2> USE <1>0 DEF P!Frame, Layers, P!Layers
    <2>1. CASE P!BeforeExec(e) \/ P!GiveUp(e)
      BY <2>1 DEF P!BeforeExec, P!GiveUp
    <2>2. CASE P!HealingLookup(e)
      BY <2>2 DEF P!HealingLookup
    <2>3. CASE P!ToolReturns(e) \/ P!ToolRaises(e) \/ \E r \in P!PluginResult : P!Heal(e, r)
      <3>1. PICK key : frame' = P!Noted(e, key)
        BY <2>3 DEF P!ToolReturns, P!ToolRaises, P!Heal
      <3> QED
        BY <3>1 DEF P!Noted
    <2>4. CASE P!StartRetry(e)
      BY <2>4 DEF P!StartRetry
    <2>5. CASE P!Reflect(e)
      BY <2>5 DEF P!Reflect, P!Noted
    <2>6. CASE P!Observe(e)
      BY <2>6 DEF P!Observe, P!Noted
    <2> QED
      BY <2>1, <2>2, <2>3, <2>4, <2>5, <2>6
  <1>5. /\ ctx'[e].tool = ctx[e].tool
        /\ ctx'[e].plugin_results["guard"] = ctx[e].plugin_results["guard"]
        /\ ctx'[e].error \in {ctx[e].error, "tool"}
        /\ ctx'[e].status \in {ctx[e].status, "FAILED", "COMPLETED"}
    <2> USE <1>0 DEF P!Context, Layers, P!Layers
    <2>1. CASE P!BeforeExec(e) \/ P!HealingLookup(e) \/ P!ToolRaises(e) \/ P!StartRetry(e)
      BY <2>1 DEF P!BeforeExec, P!HealingLookup, P!ToolRaises, P!StartRetry
    <2>2. CASE P!ToolReturns(e) \/ P!GiveUp(e)
      <3>1. \/ \E some \in BOOLEAN : ctx' = [ctx EXCEPT ![e].final_result = some]
            \/ ctx' = [ctx EXCEPT ![e].status = "FAILED", ![e].error = "tool"]
        BY <2>2 DEF P!ToolReturns, P!GiveUp, P!Conclude
      <3> QED
        BY <3>1
    <2>3. ASSUME NEW r \in P!PluginResult, P!Heal(e, r)
          PROVE  /\ ctx'[e].tool = ctx[e].tool
                 /\ ctx'[e].plugin_results["guard"] = ctx[e].plugin_results["guard"]
                 /\ ctx'[e].error = ctx[e].error /\ ctx'[e].status = ctx[e].status
      BY <2>3 DEF P!Heal, P!Recorded
    <2>4. CASE P!Reflect(e)
      BY <2>4 DEF P!Reflect, P!Recorded
    <2>5. CASE P!Observe(e)
      <3>1. \/ ctx' = [ctx EXCEPT ![e].status = "COMPLETED"]
            \/ \E r \in P!Outcomes(P!GetPlugin(e, "observe")) :
                  ctx' = [P!Recorded(e, "observe", r) EXCEPT ![e].status = "COMPLETED"]
        BY <2>5 DEF P!Observe
      <3>2. ASSUME NEW r, ctx' = [P!Recorded(e, "observe", r) EXCEPT ![e].status = "COMPLETED"]
            PROVE  /\ ctx'[e].tool = ctx[e].tool /\ ctx'[e].error = ctx[e].error
                   /\ ctx'[e].plugin_results["guard"] = ctx[e].plugin_results["guard"]
                   /\ ctx'[e].status = "COMPLETED"
        <4> DEFINE seen == [ctx[e] EXCEPT !.plugin_results["observe"] = r]
        <4>1. seen.tool = ctx[e].tool /\ seen.error = ctx[e].error
              /\ seen.plugin_results["guard"] = ctx[e].plugin_results["guard"]
              /\ DOMAIN seen = DOMAIN ctx[e]
          OBVIOUS
        <4>2. ctx'[e] = [seen EXCEPT !.status = "COMPLETED"]
          BY <3>2 DEF P!Recorded
        <4> HIDE DEF seen
        <4> QED
          BY <4>1, <4>2
      <3>3. CASE ctx' = [ctx EXCEPT ![e].status = "COMPLETED"]
        BY <3>3
      <3> QED
        BY <3>1, <3>2, <3>3
    <2> QED
      BY <2>1, <2>2, <2>3, <2>4, <2>5
  <1> QED
    BY <1>0, <1>1, <1>3, <1>4, <1>5, JudgedKept DEF BeforeGuardRan

(* What a call's part of the invariant speaks of, before and after a step.   *)
Untouched(e) ==
    /\ at'[e] = at[e] /\ ctx'[e] = ctx[e] /\ frame'[e] = frame[e] /\ log'[e] = log[e]
    /\ advice'[e] = advice[e]

(* A step that does not touch the call leaves its verdicts. *)
LEMMA JudgedSame ==
    ASSUME NEW e \in Executions, JudgedOf(e), Untouched(e), setup' = setup
    PROVE  JudgedOf(e)'
  <1>1. GuardPlugin(e)' = GuardPlugin(e)
    BY DEF Untouched, GuardPlugin
  <1>2. Rulings(GuardPlugin(e), ctx[e].tool)' = Rulings(GuardPlugin(e), ctx[e].tool)
    BY <1>1 DEF Untouched, Rulings, Permitted
  <1> QED
    BY <1>2 DEF JudgedOf, BeforeGuardRan, Untouched

(* A step of one call touches no other. *)
LEMMA OthersUntouched ==
    ASSUME P!TypeInv, AgentInv, JudgedInv, AdvisedInv, NEW e \in Executions, Advance(e)
    PROVE  \A f \in Executions \ {e} : Untouched(f)
  <1>1. \A f \in Executions \ {e} :
           /\ at'[f] = at[f] /\ ctx'[f] = ctx[f] /\ frame'[f] = frame[f] /\ log'[f] = log[f]
    BY AdvanceMaps, SchedulerConstants, P!OthersStay DEF P!Others, P!StepOf
  <1>2. advice' = advice \/ \E x : advice' = [advice EXCEPT ![e] = x]
    BY DEF Advance, Heal
  <1>3. \A f \in Executions \ {e} : advice'[f] = advice[f]
    BY <1>2 DEF AdvisedInv
  <1> QED
    BY <1>1, <1>3 DEF Untouched

(* A new call comes with no verdicts; no other call is touched. *)
LEMMA JudgedCall ==
    ASSUME P!TypeInv, AgentInv, JudgedInv, CallTool \/ ToolNotFound
    PROVE  JudgedInv'
  <1> USE CallTypes
  <1>1. PICK e \in Executions :
           /\ setup' = setup /\ UNCHANGED <<frame, advice>>
           /\ \/ /\ at' = [at EXCEPT ![e] = "schema"]
                 /\ \E t, p : /\ ctx' = [ctx EXCEPT ![e] = P!NewContext(t, p, "RUNNING")]
                              /\ log' = [log EXCEPT ![e] = P!NewLog(p)]
              \/ at' = [at EXCEPT ![e] = "raised"] /\ UNCHANGED <<ctx, log>>
    BY CallMaps, ActionsMap DEF CallTool, ToolNotFound, P!Execute, P!ToolNotFound, P!Jump
  <1>2. JudgedOf(e)'
    <2>1. None # "blocked"
      BY SchedulerConstants DEF P!NoneAssumption, P!Errors
    <2>2. JudgedOf(e) /\ \A l \in Layers : frame'[e].plugin[l] \in {None, setup'.plugins[l]}
      BY <1>1 DEF JudgedInv, JudgedOf
    <2>3. CASE at' = [at EXCEPT ![e] = "schema"]
      <3>1. /\ at'[e] = "schema"
            /\ \E t, p : ctx'[e] = P!NewContext(t, p, "RUNNING")
        BY <1>1, <2>3
      <3>2. /\ ctx'[e].plugin_results["guard"] = None /\ ctx'[e].error = None
            /\ ctx'[e].status = "RUNNING"
        BY <3>1 DEF P!NewContext, P!Layers
      <3> QED
        BY <2>1, <2>2, <3>1, <3>2 DEF JudgedOf
    <2>4. CASE at' = [at EXCEPT ![e] = "raised"] /\ UNCHANGED <<ctx, log>>
      BY <1>1, <2>2, <2>4, JudgedKept DEF JudgedOf, BeforeGuardRan
    <2> QED
      BY <1>1, <2>3, <2>4
  <1>3. ASSUME NEW f \in Executions \ {e} PROVE JudgedOf(f)'
    <2>1. Untouched(f)
      BY <1>1 DEF Untouched
    <2> QED
      BY <1>1, <2>1, JudgedSame DEF JudgedInv
  <1> QED
    BY <1>2, <1>3 DEF JudgedInv

(* Every step keeps the verdicts. *)
LEMMA JudgedStep ==
    ASSUME P!TypeInv, AgentInv, JudgedInv, AdvisedInv, [Next]_vars
    PROVE  JudgedInv'
  <1>1. ASSUME setup' = setup, UNCHANGED <<at, ctx, frame, log, advice>>
        PROVE  JudgedInv'
    BY <1>1, JudgedSame DEF Untouched, JudgedInv
  <1>2. ASSUME Begin \/ NoModel \/ ListTools \/ TaskWithoutTool \/ CallReturned \/ Return
                  \/ \E reply \in Replies : Choose(reply)
        PROVE  JudgedInv'
    <2>1. setup' = setup /\ UNCHANGED <<at, ctx, frame, log, advice>>
      BY <1>2 DEF Begin, NoModel, ListTools, TaskWithoutTool, CallReturned, Return, Choose,
         UnchangedCalls, UnchangedRest, calls
    <2> QED
      BY <1>1, <2>1
  <1>3. ASSUME NEW t \in Tools, Register(t) \/ Unregister(t) PROVE JudgedInv'
    BY <1>1, <1>3 DEF Register, Unregister, UnchangedCalls, calls
  <1>4. ASSUME NEW e \in Executions, Advance(e) PROVE JudgedInv'
    <2>1. setup' = setup
      BY <1>4 DEF Advance
    <2>2. \/ P!SchemaLookup(e) \/ P!SchemaFailed(e) \/ RunSchema(e)
          \/ P!GuardLookup(e) \/ RunGuard(e) \/ P!GuardStopped(e)
          \/ P!BeforeExec(e) \/ P!HealingLookup(e) \/ P!ToolReturns(e) \/ P!ToolRaises(e)
          \/ P!StartRetry(e) \/ P!GiveUp(e) \/ P!Reflect(e) \/ P!Observe(e)
          \/ \E reply \in Replies, silent \in BOOLEAN : Heal(e, reply, silent)
      BY <1>4, ActionsMap DEF Advance, Reflect
    <2>3. ASSUME NEW reply \in Replies, NEW silent \in BOOLEAN, Heal(e, reply, silent)
          PROVE  \E r \in P!PluginResult : P!Heal(e, r)
      <3> DEFINE c == [PluginContext(e) EXCEPT !.has_error = ~silent]
      <3>1. at[e] = "heal" /\ P!Heal(e, ResultOf("healing", c, reply))
        BY <2>3, ActionsMap DEF Heal
      <3>2. frame[e].plugin["healing"] \in Plugins /\ c \in Contexts
        BY <3>1, ContextIsExpected DEF P!Running, P!TypeInv, P!Shape, P!ShapeOf
      <3> HIDE DEF c
      <3>3. ResultOf("healing", c, reply) \in P!PluginResult
        BY <3>2, LayerRuns DEF Layers
      <3> QED
        BY <3>1, <3>3
    <2>4. JudgedOf(e)'
      BY <2>1, <2>2, <2>3, JudgedSchema, JudgedGuard, JudgedLater
    <2>5. \A f \in Executions \ {e} : JudgedOf(f)'
      BY <1>4, <2>1, OthersUntouched, JudgedSame DEF JudgedInv
    <2> QED
      BY <2>4, <2>5 DEF JudgedInv
  <1>5. CASE UNCHANGED vars
    BY <1>1, <1>5 DEF vars
  <1> QED
    BY <1>2, <1>3, <1>4, <1>5, JudgedCall DEF Next, Request, Continue

-----------------------------------------------------------------------------
(* What the schema plugin said *)

(* Nothing at first. *)
LEMMA InitValidated == Init => ValidatedInv
  BY DEF Init, Scheduler!NewContext, Scheduler!Layers, ValidatedInv, ValidatedOf

(* A step that does not touch it leaves it true. *)
LEMMA ValidatedKept ==
    ASSUME NEW e \in Executions, ValidatedOf(e),
           frame'[e].plugin["schema"] = frame[e].plugin["schema"],
           ctx'[e].plugin_results["schema"] = ctx[e].plugin_results["schema"],
           ctx'[e].tool = ctx[e].tool, log'[e].asked = log[e].asked,
           at'[e] = "schema" => at[e] = "schema"
    PROVE  ValidatedOf(e)'
  <1>1. SchemaPlugin(e)' = SchemaPlugin(e) /\ Shown(e)' = Shown(e)
    BY DEF SchemaPlugin, Shown
  <1>2. PluginExecute(SchemaPlugin(e), Shown(e), NoReply)'
           = PluginExecute(SchemaPlugin(e), Shown(e), NoReply)
    BY <1>1, Zenon
  <1> QED
    BY <1>2 DEF ValidatedOf

(* The lookup and the run of the schema plugin.                              *)
LEMMA ValidatedSchema ==
    ASSUME P!TypeInv, P!AdmissionInv, AgentInv, JudgedInv, ValidatedInv, NEW e \in Executions,
           P!SchemaLookup(e) \/ RunSchema(e)
    PROVE  ValidatedOf(e)'
  <1>0. /\ ctx \in [Executions -> P!Context] /\ ctx[e] \in P!Context
        /\ frame \in [Executions -> P!Frame] /\ frame[e] \in P!Frame
        /\ at \in [Executions -> P!Labels] /\ ValidatedOf(e)
    BY CallFacts DEF ValidatedInv
  <1>1. CASE P!SchemaLookup(e)
    <2>1. ctx' = ctx /\ at[e] = "schema" /\ at'[e] \in {"run_schema", "guard"}
      BY <1>0, <1>1 DEF P!SchemaLookup, P!Lookup, P!Jump
    <2> QED
      BY <1>0, <2>1 DEF ValidatedOf
  <1>2. CASE RunSchema(e)
    <2> DEFINE r == ResultOf("schema", PluginContext(e), NoReply)
    <2>1. P!RunSchema(e, r) /\ at[e] = "run_schema"
      BY <1>2, ActionsMap DEF RunSchema
    <2>2. /\ frame[e].plugin["schema"] \in Plugins
          /\ ctx[e].tool \in Tools /\ log[e].asked \in Params
          /\ PluginContext(e) \in Contexts /\ NoReply \in Replies
      BY <2>1, ContextIsExpected, RepliesAssumption
         DEF RepliesAssumption, P!Running, P!TypeInv, P!Shape, P!ShapeOf
    <2>3. frame[e].plugin["schema"] = setup.plugins["schema"] /\ r \in P!PluginResult
      BY <2>2, LayerRuns DEF Layers
    <2>4. PluginContext(e) = Shown(e)
      <3>1. log[e].calls = <<>> /\ ctx[e].params = log[e].asked
        BY <2>1 DEF P!AdmissionInv, P!AdmissionOf, P!BeforeTool, P!Running
      <3> QED
        BY <3>1 DEF PluginContext, Shown
    <2>5. r = PluginExecute(SchemaPlugin(e), Shown(e), NoReply)
      BY <2>3, <2>4 DEF ResultOf, SchemaPlugin
    <2> HIDE DEF r
    <2>6. /\ ctx' = [ctx EXCEPT ![e].plugin_results["schema"] = r] /\ log' = log
          /\ frame' = [frame EXCEPT ![e].previous = @ \cup {"schema"}]
          /\ at'[e] = IF r.should_continue THEN "guard" ELSE "schema_failed"
      BY <1>0, <2>1 DEF P!RunSchema, P!Recorded, P!Noted, P!Jump, P!Admits
    <2>7. /\ ctx'[e].plugin_results["schema"] = r /\ ctx'[e].tool = ctx[e].tool
          /\ frame'[e].plugin = frame[e].plugin
      BY <1>0, <2>3, <2>6 DEF P!Context, P!Frame, P!Layers
    <2>8. SchemaPlugin(e)' = SchemaPlugin(e) /\ Shown(e)' = Shown(e)
      BY <2>6, <2>7 DEF SchemaPlugin, Shown
    <2>9. PluginExecute(SchemaPlugin(e), Shown(e), NoReply)'
             = PluginExecute(SchemaPlugin(e), Shown(e), NoReply)
      BY <2>8, Zenon
    <2>10. frame'[e].plugin["schema"] # None /\ at'[e] # "schema"
      BY <2>2, <2>6, <2>7, NoneIsNew
    <2> QED
      BY <2>2, <2>5, <2>6, <2>7, <2>9, <2>10 DEF ValidatedOf
  <1> QED
    BY <1>1, <1>2

(* Every step keeps it: a new call comes with no word of a plugin.           *)
LEMMA ValidatedStep ==
    ASSUME P!TypeInv, P!AdmissionInv, AgentInv, JudgedInv, ValidatedInv, AdvisedInv, [Next]_vars
    PROVE  ValidatedInv'
  <1> USE CallTypes
  <1>1. ASSUME NEW e \in Executions, Untouched(e) PROVE ValidatedOf(e)'
    BY <1>1, ValidatedKept DEF ValidatedInv, Untouched
  <1>2. ASSUME UNCHANGED <<at, ctx, frame, log, advice>> PROVE ValidatedInv'
    BY <1>1, <1>2 DEF ValidatedInv, Untouched
  <1>3. ASSUME Begin \/ NoModel \/ ListTools \/ TaskWithoutTool \/ CallReturned \/ Return
                  \/ \E reply \in Replies : Choose(reply)
        PROVE  ValidatedInv'
    <2>1. UNCHANGED <<at, ctx, frame, log, advice>>
      BY <1>3 DEF Begin, NoModel, ListTools, TaskWithoutTool, CallReturned, Return, Choose,
         UnchangedCalls, UnchangedRest, calls
    <2> QED
      BY <1>2, <2>1
  <1>4. ASSUME NEW t \in Tools, Register(t) \/ Unregister(t) PROVE ValidatedInv'
    BY <1>2, <1>4 DEF Register, Unregister, UnchangedCalls, calls
  <1>5. ASSUME NEW e \in Executions, Advance(e) PROVE ValidatedInv'
    <2>1. ASSUME P!SchemaLookup(e) \/ RunSchema(e) PROVE ValidatedOf(e)'
      BY <2>1, ValidatedSchema
    <2>2. ASSUME ~(P!SchemaLookup(e) \/ RunSchema(e)) PROVE ValidatedOf(e)'
      <3>1. at[e] \notin {"schema", "run_schema"}
        <4>1. \/ RunGuard(e) \/ P!Reflect(e) \/ P!SchemaFailed(e)
              \/ P!GuardLookup(e) \/ P!GuardStopped(e)
              \/ P!BeforeExec(e) \/ P!HealingLookup(e) \/ P!ToolReturns(e) \/ P!ToolRaises(e)
              \/ P!StartRetry(e) \/ P!GiveUp(e) \/ P!Observe(e)
              \/ \E reply \in Replies, silent \in BOOLEAN : Heal(e, reply, silent)
          BY <1>5, <2>2, ActionsMap DEF Advance, Reflect
        <4> QED
          BY <4>1 DEF RunGuard, P!Reflect, P!SchemaFailed, P!GuardLookup, P!Lookup,
             P!GuardStopped, P!BeforeExec, P!HealingLookup, P!ToolReturns, P!ToolRaises,
             P!StartRetry, P!GiveUp, P!Observe, Heal, P!Jump
      <3>2. P!SchemaWordStays(e)
        BY <1>5, <3>1, AdvanceMaps, SchedulerConstants, P!SchemaSettled
      <3> QED
        BY <3>2, ValidatedKept DEF P!SchemaWordStays, ValidatedInv
    <2>3. \A f \in Executions \ {e} : ValidatedOf(f)'
      BY <1>1, <1>5, OthersUntouched
    <2> QED
      BY <2>1, <2>2, <2>3 DEF ValidatedInv
  <1>6. CASE CallTool \/ ToolNotFound
    <2>1. PICK e \in Executions :
             /\ advice' = advice /\ frame' = frame /\ at[e] = "idle"
             /\ \/ /\ at' = [at EXCEPT ![e] = "schema"]
                   /\ \E t, p : /\ ctx' = [ctx EXCEPT ![e] = P!NewContext(t, p, "RUNNING")]
                                /\ log' = [log EXCEPT ![e] = P!NewLog(p)]
                \/ at' = [at EXCEPT ![e] = "raised"] /\ UNCHANGED <<ctx, log>>
      BY <1>6, CallMaps, ActionsMap
         DEF CallTool, ToolNotFound, P!Execute, P!ToolNotFound, P!Jump
    <2>2. ASSUME at' = [at EXCEPT ![e] = "schema"],
                 \E t, p : ctx' = [ctx EXCEPT ![e] = P!NewContext(t, p, "RUNNING")]
          PROVE  ValidatedOf(e)'
      <3>1. ctx'[e].plugin_results["schema"] = None
        BY <2>2 DEF P!NewContext, P!Layers
      <3> QED
        BY <3>1 DEF ValidatedOf
    <2>3. ASSUME at' = [at EXCEPT ![e] = "raised"], UNCHANGED <<ctx, log>>
          PROVE  ValidatedOf(e)'
      <3>1. at'[e] # "schema"
        BY <2>3
      <3> QED
        BY <2>1, <2>3, <3>1, ValidatedKept DEF ValidatedInv
    <2>4. \A f \in Executions \ {e} : Untouched(f)
      BY <2>1 DEF Untouched
    <2> QED
      BY <1>1, <2>1, <2>2, <2>3, <2>4 DEF ValidatedInv
  <1>7. CASE UNCHANGED vars
    BY <1>2, <1>7 DEF vars
  <1> QED
    BY <1>3, <1>4, <1>5, <1>6, <1>7 DEF Next, Request, Continue

-----------------------------------------------------------------------------
(* Advice and retries *)

(* What is known of the runs and the advice before each step of the call. *)
LEMMA AdviceFacts ==
    ASSUME P!TypeInv, P!AdmissionInv, AdvisedInv, NEW e \in Executions
    PROVE  /\ log \in [Executions -> P!Log] /\ log[e] \in P!Log
           /\ log[e].calls \in Seq([params: Params, ok: BOOLEAN]) /\ Len(log[e].calls) \in Nat
           /\ advice \in [Executions -> Seq(Params)]
           /\ advice[e] \in Seq(Params) /\ Len(advice[e]) \in Nat
           /\ at[e] \in P!BeforeTool \cup {"idle", "raised"} =>
                 log[e].calls = <<>> /\ advice[e] = <<>>
           /\ AdvisedOf(e)
  <1>1. log \in [Executions -> P!Log] /\ log[e] \in P!Log
    BY CallTypes
  <1>2. log[e].calls \in Seq([params: Params, ok: BOOLEAN])
    BY <1>1 DEF P!Log
  <1>3. at[e] \in P!BeforeTool \cup {"idle", "raised"} => log[e].calls = <<>>
    BY DEF P!AdmissionInv, P!AdmissionOf
  <1> QED
    BY <1>1, <1>2, <1>3 DEF AdvisedInv, AdvisedOf

(* No advice at first. *)
LEMMA InitAdvised == Init => AdvisedInv
  <1> SUFFICES ASSUME Init PROVE AdvisedInv
    OBVIOUS
  <1>1. /\ advice = [e \in Executions |-> <<>>]
        /\ \A e \in Executions : log[e].calls = <<>> /\ at[e] = "idle"
    BY DEF Init, Scheduler!NewLog
  <1> QED
    BY <1>1 DEF AdvisedInv, AdvisedOf

(* Before the tool has run there is nothing to retry. *)
LEMMA AdvisedEarly ==
    ASSUME NEW e \in Executions, advice'[e] = <<>>, log'[e].calls = <<>>, at'[e] # "heal"
    PROVE  AdvisedOf(e)'
  BY DEF AdvisedOf

(* A step that neither runs the tool nor asks for advice. *)
LEMMA AdvisedKept ==
    ASSUME NEW e \in Executions, AdvisedInv, advice'[e] = advice[e],
           log'[e].calls = log[e].calls, ctx'[e].params = ctx[e].params,
           frame'[e].plugin["healing"] = frame[e].plugin["healing"],
           \/ at'[e] \in {"returned", "observe"}
           \/ at[e] = "retry" /\ at'[e] = "attempt"
    PROVE  AdvisedOf(e)'
  <1>1. at'[e] \notin P!BeforeTool \cup {"idle", "raised"}
    BY DEF P!BeforeTool
  <1> QED
    BY <1>1 DEF AdvisedInv, AdvisedOf

(* A run of the tool uses up the advice it was given. *)
LEMMA AdvisedRun ==
    ASSUME P!TypeInv, P!AdmissionInv, AdvisedInv, NEW e \in Executions, advice' = advice,
           P!ToolReturns(e) \/ P!ToolRaises(e)
    PROVE  AdvisedOf(e)'
  <1> DEFINE runs == log[e].calls
  <1> DEFINE given == advice[e]
  <1>1. /\ runs \in Seq([params: Params, ok: BOOLEAN]) /\ Len(runs) \in Nat
        /\ given \in Seq(Params) /\ Len(given) \in Nat /\ AdvisedOf(e)
        /\ log \in [Executions -> P!Log] /\ log[e] \in P!Log
    BY AdviceFacts
  <1>2. /\ at[e] = "attempt" /\ at'[e] \in {"reflect", "heal", "give_up"}
        /\ \E ok \in BOOLEAN : P!Called(e, ok)
    BY CallTypes DEF P!ToolReturns, P!ToolRaises, P!Jump
  <1>3. ctx[e].params \in Params
    BY <1>2 DEF P!TypeInv, P!Shape, P!ShapeOf, P!Running
  <1>4. PICK ok \in BOOLEAN :
           log'[e].calls = Append(runs, [params |-> ctx[e].params, ok |-> ok])
    BY <1>1, <1>2 DEF P!Called, P!Log
  <1> DEFINE run == [params |-> ctx[e].params, ok |-> ok]
  <1>5. run \in [params: Params, ok: BOOLEAN] /\ run.params = ctx[e].params
    BY <1>3
  <1>6. /\ Len(runs) = Len(given) /\ (runs # <<>> => ctx[e].params = given[Len(runs)])
        /\ \A i \in 2 .. Len(runs) : runs[i].params = given[i - 1]
        /\ given # <<>> => /\ frame[e].plugin["healing"] # None
                           /\ Config[frame[e].plugin["healing"]].kind = "HealingLLM"
    BY <1>1, <1>2 DEF AdvisedOf
  <1>7. frame'[e].plugin["healing"] = frame[e].plugin["healing"]
    <2>1. PICK key : frame' = P!Noted(e, key)
      BY DEF P!ToolReturns, P!ToolRaises
    <2> QED
      BY <2>1, CallTypes DEF P!Noted, P!Frame
  <1> HIDE DEF runs, given, run
  <1>8. /\ Len(Append(runs, run)) = Len(runs) + 1
        /\ \A i \in 1 .. Len(runs) : Append(runs, run)[i] = runs[i]
        /\ Append(runs, run)[Len(runs) + 1] = run
    BY <1>1, <1>5
  <1>9. \A i \in 2 .. Len(runs) + 1 : Append(runs, run)[i].params = given[i - 1]
    <2> SUFFICES ASSUME NEW i \in 2 .. Len(runs) + 1
                 PROVE  Append(runs, run)[i].params = given[i - 1]
      OBVIOUS
    <2>1. CASE i = Len(runs) + 1
      <3>1. runs # <<>>
        BY <1>1, <2>1
      <3> QED
        BY <1>1, <1>5, <1>6, <1>8, <2>1, <3>1
    <2>2. CASE i # Len(runs) + 1
      BY <1>1, <1>6, <1>8, <2>2
    <2> QED
      BY <2>1, <2>2
  <1>10. /\ log'[e].calls = Append(runs, run) /\ advice'[e] = given
    BY <1>4 DEF run, runs, given
  <1>11. at'[e] \notin P!BeforeTool \cup {"idle", "raised", "attempt", "retry"}
    BY <1>2 DEF P!BeforeTool
  <1> QED
    BY <1>1, <1>6, <1>7, <1>8, <1>9, <1>10, <1>11 DEF AdvisedOf

(* Healing gives the advice it retries on, or neither. *)
LEMMA AdvisedHeal ==
    ASSUME P!TypeInv, P!AdmissionInv, AgentInv, JudgedInv, AdvisedInv, NEW e \in Executions,
           NEW reply \in Replies, NEW silent \in BOOLEAN, Heal(e, reply, silent)
    PROVE  AdvisedOf(e)' /\ advice' \in [Executions -> Seq(Params)]
  <1> DEFINE c == [PluginContext(e) EXCEPT !.has_error = ~silent]
  <1> DEFINE r == ResultOf("healing", c, reply)
  <1> DEFINE runs == log[e].calls
  <1> DEFINE given == advice[e]
  <1>1. /\ runs \in Seq([params: Params, ok: BOOLEAN]) /\ Len(runs) \in Nat
        /\ given \in Seq(Params) /\ Len(given) \in Nat /\ AdvisedOf(e)
        /\ log \in [Executions -> P!Log] /\ log[e] \in P!Log
        /\ advice \in [Executions -> Seq(Params)]
    BY AdviceFacts
  <1>2. /\ at[e] = "heal" /\ P!Heal(e, r)
        /\ advice' = [advice EXCEPT ![e] = IF r.data # None /\ r.data.fixed_params # None
                                          THEN Append(given, r.data.fixed_params) ELSE given]
    BY ActionsMap DEF Heal
  <1>3. frame[e].plugin["healing"] \in Plugins /\ c \in Contexts
    BY <1>2, ContextIsExpected DEF P!Running, P!TypeInv, P!Shape, P!ShapeOf
  <1>4. /\ frame[e].plugin["healing"] = setup.plugins["healing"]
        /\ setup.plugins["healing"] \in PluginsOf("healing") /\ r \in P!PluginResult
    <2> HIDE DEF c
    <2> QED
      BY <1>3, LayerRuns DEF Layers
  <1>5. \/ r \in {Passed, Raised, Result(FALSE, TRUE, "plugin"), Result(FALSE, TRUE, None)}
        \/ /\ Config[frame[e].plugin["healing"]].kind = "HealingLLM"
           /\ reply.fixed_params \in Params /\ r = Recovered(reply.fixed_params)
    <2> HIDE DEF c
    <2> QED
      BY <1>4, HealingOutcome DEF ResultOf
  <1>6. Len(runs) = Len(given) + 1 /\ \A i \in 2 .. Len(runs) : runs[i].params = given[i - 1]
        /\ (given # <<>> => /\ frame[e].plugin["healing"] # None
                            /\ Config[frame[e].plugin["healing"]].kind = "HealingLLM")
    BY <1>1, <1>2 DEF AdvisedOf
  <1> HIDE DEF c, r, given
  <1>7. log'[e].calls = runs
    BY <1>1, <1>2 DEF P!Heal, P!Log
  <1>8. frame'[e].plugin["healing"] = frame[e].plugin["healing"]
    BY <1>2, CallTypes DEF P!Heal, P!Noted, P!Frame
  <1>9. /\ at'[e] = IF r.success /\ r.data \in P!Dict /\ r.data.recovered THEN "retry" ELSE "give_up"
        /\ ctx'[e].params = P!FixedParams(e, r)
    BY <1>2, <1>4, CallTypes DEF P!Heal, P!Jump, P!Recorded, P!Context
  <1> HIDE DEF runs
  <1>10. CASE r \in {Passed, Raised, Result(FALSE, TRUE, "plugin"), Result(FALSE, TRUE, None)}
    <2>1. r.data = None \/ r.data = Data
      <3>1. Passed.data = Data /\ Raised.data = None
            /\ \A x \in {"plugin", None} : Result(FALSE, TRUE, x).data = Data
        BY ResultForms
      <3> QED
        BY <1>10, <3>1
    <2>2. ~(r.data # None /\ r.data.fixed_params # None)
      BY <2>1, ResultForms
    <2>3. ~(r.data \in P!Dict /\ r.data.recovered)
      <3>1. None \notin P!Dict /\ ~Data.recovered
        BY NoneIsNew, ResultForms
      <3> QED
        BY <2>1, <3>1
    <2>4. advice'[e] = given /\ advice' \in [Executions -> Seq(Params)] /\ at'[e] = "give_up"
      BY <1>1, <1>2, <1>9, <2>2, <2>3
    <2>5. at'[e] \notin P!BeforeTool \cup {"idle", "raised", "attempt", "retry", "heal"}
      BY <2>4 DEF P!BeforeTool
    <2>6. Len(runs) <= Len(given) + 1
      BY <1>1, <1>6 DEF runs
    <2>7. advice'[e] = given
      BY <2>4
    <2>8. AdvisedOf(e)'
      BY <1>6, <1>7, <1>8, <2>5, <2>6, <2>7 DEF AdvisedOf
    <2> QED
      BY <2>4, <2>8
  <1>11. ASSUME reply.fixed_params \in Params, r = Recovered(reply.fixed_params),
                Config[frame[e].plugin["healing"]].kind = "HealingLLM"
         PROVE  AdvisedOf(e)' /\ advice' \in [Executions -> Seq(Params)]
    <2> DEFINE x == reply.fixed_params
    <2>1. /\ r.success /\ r.data \in P!Dict /\ r.data.recovered /\ r.data.fixed_params = x
          /\ x \in Params
      BY <1>11, RecoveredForm
    <2>2. x # None /\ r.data # None /\ frame[e].plugin["healing"] # None
      BY <1>3, <2>1, NoneIsNew
    <2> HIDE DEF x
    <2>3. /\ advice' = [advice EXCEPT ![e] = Append(given, x)] /\ at'[e] = "retry"
          /\ ctx'[e].params = x
      BY <1>2, <1>9, <2>1, <2>2 DEF P!FixedParams
    <2>4. /\ Append(given, x) \in Seq(Params) /\ Len(Append(given, x)) = Len(given) + 1
          /\ Append(given, x)[Len(given) + 1] = x
          /\ \A i \in 1 .. Len(given) : Append(given, x)[i] = given[i]
      BY <1>1, <2>1
    <2>5. advice' \in [Executions -> Seq(Params)] /\ advice'[e] = Append(given, x)
      BY <1>1, <2>3, <2>4
    <2>6. \A i \in 2 .. Len(runs) : runs[i].params = Append(given, x)[i - 1]
      BY <1>1, <1>6, <2>4 DEF runs
    <2>7. Len(runs) = Len(Append(given, x)) /\ x = Append(given, x)[Len(runs)]
          /\ Len(runs) <= Len(Append(given, x)) + 1
      BY <1>1, <1>6, <2>4 DEF runs
    <2>8. at'[e] \notin P!BeforeTool \cup {"idle", "raised", "heal"}
      BY <2>3 DEF P!BeforeTool
    <2> QED
      BY <1>7, <1>8, <1>11, <2>2, <2>3, <2>5, <2>6, <2>7, <2>8 DEF AdvisedOf
  <1> QED
    BY <1>5, <1>10, <1>11

(* The other steps of a call neither run the tool nor ask for advice. *)
LEMMA AdvisedOther ==
    ASSUME P!TypeInv, P!AdmissionInv, AdvisedInv, NEW e \in Executions, advice' = advice,
           \/ P!SchemaLookup(e) \/ P!SchemaFailed(e) \/ RunSchema(e)
           \/ P!GuardLookup(e) \/ RunGuard(e) \/ P!GuardStopped(e)
           \/ P!BeforeExec(e) \/ P!HealingLookup(e)
           \/ P!StartRetry(e) \/ P!GiveUp(e) \/ P!Reflect(e) \/ P!Observe(e)
    PROVE  AdvisedOf(e)'
  <1>1. CASE P!SchemaLookup(e) \/ P!SchemaFailed(e) \/ RunSchema(e) \/ P!GuardLookup(e)
               \/ RunGuard(e) \/ P!GuardStopped(e) \/ P!BeforeExec(e) \/ P!HealingLookup(e)
    <2>1. /\ log' = log /\ at[e] \in P!BeforeTool /\ at'[e] # "heal"
      <3> USE CallTypes DEF P!BeforeTool, P!Jump
      <3>1. CASE P!SchemaLookup(e) \/ P!GuardLookup(e) \/ P!BeforeExec(e) \/ P!HealingLookup(e)
        BY <3>1 DEF P!SchemaLookup, P!GuardLookup, P!Lookup, P!BeforeExec, P!HealingLookup
      <3>2. CASE P!SchemaFailed(e) \/ P!GuardStopped(e)
        BY <3>2 DEF P!SchemaFailed, P!GuardStopped
      <3>3. CASE RunSchema(e) \/ RunGuard(e)
        BY <3>3, ActionsMap DEF RunSchema, RunGuard, P!RunSchema, P!RunGuard
      <3> QED
        BY <1>1, <3>1, <3>2, <3>3
    <2> QED
      BY <2>1, AdviceFacts, AdvisedEarly
  <1>2. CASE P!StartRetry(e) \/ P!GiveUp(e)
    <2>1. /\ log' = log /\ frame'[e].plugin["healing"] = frame[e].plugin["healing"]
          /\ ctx'[e].params = ctx[e].params
          /\ \/ at[e] = "retry" /\ at'[e] = "attempt"
             \/ at'[e] = "returned"
      <3>1. CASE P!StartRetry(e)
        <4>1. /\ log' = log /\ ctx' = ctx /\ at[e] = "retry" /\ at' = [at EXCEPT ![e] = "attempt"]
              /\ frame' = [frame EXCEPT ![e].attempt = @ + 1]
          BY <3>1 DEF P!StartRetry, P!Jump
        <4>2. frame'[e] = [frame[e] EXCEPT !.attempt = frame[e].attempt + 1]
          BY <4>1, CallTypes
        <4>3. frame[e] \in P!Frame
          BY CallTypes
        <4>4. frame'[e].plugin = frame[e].plugin
          BY <4>2, <4>3 DEF P!Frame
        <4> QED
          BY <4>1, <4>4, CallTypes
      <3>2. CASE P!GiveUp(e)
        <4>1. /\ log' = log /\ frame' = frame /\ at' = [at EXCEPT ![e] = "returned"]
              /\ ctx' = [ctx EXCEPT ![e].status = "FAILED", ![e].error = "tool"]
          BY <3>2 DEF P!GiveUp, P!Jump, P!Conclude
        <4> QED
          BY <4>1, CallTypes DEF P!Context
      <3> QED
        BY <1>2, <3>1, <3>2
    <2>2. advice'[e] = advice[e] /\ log'[e].calls = log[e].calls
      BY <2>1, AdviceFacts
    <2> QED
      BY <2>1, <2>2, AdvisedKept
  <1>3. CASE P!Reflect(e) \/ P!Observe(e)
    <2>1. log' = log /\ at'[e] \in {"returned", "observe"}
      BY <1>3, CallTypes DEF P!Reflect, P!Observe, P!Jump
    <2>2. frame'[e].plugin["healing"] = frame[e].plugin["healing"]
      <3>1. CASE P!Reflect(e)
        BY <3>1, CallTypes DEF P!Reflect, P!Noted, P!Frame, P!Layers
      <3>2. CASE P!Observe(e)
        BY <3>2, CallTypes DEF P!Observe, P!Noted, P!Frame, P!Layers
      <3> QED
        BY <1>3, <3>1, <3>2
    <2>3. ctx'[e].params = ctx[e].params
      <3>1. CASE P!Reflect(e)
        BY <3>1, CallTypes DEF P!Reflect, P!Recorded, P!Context
      <3>2. CASE P!Observe(e)
        <4>1. \/ ctx' = [ctx EXCEPT ![e].status = "COMPLETED"]
              \/ \E s \in P!Outcomes(P!GetPlugin(e, "observe")) :
                    ctx' = [P!Recorded(e, "observe", s) EXCEPT ![e].status = "COMPLETED"]
          BY <3>2 DEF P!Observe
        <4> QED
          BY <4>1, CallTypes DEF P!Recorded, P!Context
      <3> QED
        BY <1>3, <3>1, <3>2
    <2>4. advice'[e] = advice[e] /\ log'[e].calls = log[e].calls
      BY <2>1, AdviceFacts
    <2> QED
      BY <2>1, <2>2, <2>3, <2>4, AdvisedKept
  <1> QED
    BY <1>1, <1>2, <1>3

(* Every step keeps runs and advice in turn. *)
LEMMA AdvisedStep ==
    ASSUME P!TypeInv, P!AdmissionInv, AgentInv, JudgedInv, AdvisedInv, [Next]_vars
    PROVE  AdvisedInv'
  <1> USE CallTypes
  <1>1. ASSUME NEW e \in Executions, Untouched(e) PROVE AdvisedOf(e)'
    BY <1>1 DEF AdvisedInv, AdvisedOf, Untouched
  <1>2. ASSUME UNCHANGED <<at, ctx, frame, log, advice>> PROVE AdvisedInv'
    BY <1>1, <1>2 DEF AdvisedInv, Untouched
  <1>3. ASSUME Begin \/ NoModel \/ ListTools \/ TaskWithoutTool \/ CallReturned \/ Return
                  \/ \E reply \in Replies : Choose(reply)
        PROVE  AdvisedInv'
    <2>1. UNCHANGED <<at, ctx, frame, log, advice>>
      BY <1>3 DEF Begin, NoModel, ListTools, TaskWithoutTool, CallReturned, Return, Choose,
         UnchangedCalls, UnchangedRest, calls
    <2> QED
      BY <1>2, <2>1
  <1>4. ASSUME NEW t \in Tools, Register(t) \/ Unregister(t) PROVE AdvisedInv'
    BY <1>2, <1>4 DEF Register, Unregister, UnchangedCalls, calls
  <1>5. ASSUME NEW e \in Executions, Advance(e) PROVE AdvisedInv'
    <2>1. \/ /\ advice' = advice
             /\ \/ P!SchemaLookup(e) \/ P!SchemaFailed(e) \/ RunSchema(e)
                \/ P!GuardLookup(e) \/ RunGuard(e) \/ P!GuardStopped(e)
                \/ P!BeforeExec(e) \/ P!HealingLookup(e) \/ P!ToolReturns(e) \/ P!ToolRaises(e)
                \/ P!StartRetry(e) \/ P!GiveUp(e) \/ P!Reflect(e) \/ P!Observe(e)
          \/ \E reply \in Replies, silent \in BOOLEAN : Heal(e, reply, silent)
      BY <1>5, ActionsMap DEF Advance, Reflect
    <2>2. AdvisedOf(e)' /\ advice' \in [Executions -> Seq(Params)]
      BY <2>1, AdvisedOther, AdvisedRun, AdvisedHeal DEF AdvisedInv
    <2>3. \A f \in Executions \ {e} : AdvisedOf(f)'
      BY <1>1, <1>5, OthersUntouched
    <2> QED
      BY <2>2, <2>3 DEF AdvisedInv
  <1>6. CASE CallTool \/ ToolNotFound
    <2>1. PICK e \in Executions :
             /\ advice' = advice /\ frame' = frame /\ at[e] = "idle"
             /\ \/ /\ at' = [at EXCEPT ![e] = "schema"]
                   /\ \E t, p : /\ ctx' = [ctx EXCEPT ![e] = P!NewContext(t, p, "RUNNING")]
                                /\ log' = [log EXCEPT ![e] = P!NewLog(p)]
                \/ at' = [at EXCEPT ![e] = "raised"] /\ UNCHANGED <<ctx, log>>
      BY <1>6, CallMaps, ActionsMap
         DEF CallTool, ToolNotFound, P!Execute, P!ToolNotFound, P!Jump
    <2>2. log'[e].calls = <<>> /\ advice'[e] = <<>> /\ at'[e] \in {"schema", "raised"}
      <3>1. log[e].calls = <<>> /\ advice[e] = <<>>
        BY <2>1, AdviceFacts
      <3> QED
        BY <2>1, <3>1 DEF P!NewLog
    <2>3. AdvisedOf(e)'
      BY <2>2, AdvisedEarly
    <2>4. \A f \in Executions \ {e} : Untouched(f)
      BY <2>1 DEF Untouched
    <2> QED
      BY <1>1, <2>1, <2>3, <2>4 DEF AdvisedInv
  <1>7. CASE UNCHANGED vars
    BY <1>2, <1>7 DEF vars
  <1> QED
    BY <1>3, <1>4, <1>5, <1>6, <1>7 DEF Next, Request, Continue

-----------------------------------------------------------------------------
(* The invariant is inductive *)

(* Every step of the caller, of its calls and of the registry keeps it. *)
LEMMA BaseStep == BaseInv /\ [Next]_vars => BaseInv'
  <1> SUFFICES ASSUME BaseInv, [Next]_vars PROVE BaseInv'
    OBVIOUS
  <1> USE DEF BaseInv, SchedulerInv
  <1>1. [P!Next]_P!vars
    BY SchedulerStep
  <1>2. P!TypeInv'
    BY <1>1, SchedulerConstants, P!TypeStep
  <1>3. P!AdmissionInv'
    BY <1>1, SchedulerConstants, P!AdmissionStep
  <1>4. AgentInv'
    BY AgentStep
  <1>5. CallInv'
    BY <1>4, CallStep
  <1>6. JudgedInv'
    BY JudgedStep
  <1>7. ValidatedInv'
    BY ValidatedStep
  <1>8. AdvisedInv'
    BY AdvisedStep
  <1> QED
    BY <1>2, <1>3, <1>4, <1>5, <1>6, <1>7, <1>8

(* What is known of the agent's state in every state it reaches.             *)
THEOREM BaseInvariance == Spec => []BaseInv
  <1>1. Init => BaseInv
    <2>1. Init => P!TypeInv /\ P!AdmissionInv
      BY InitMaps, SchedulerConstants, P!InitType, P!InitAdmission
    <2> QED
      BY <2>1, InitAgent, InitJudged, InitValidated, InitAdvised DEF BaseInv, SchedulerInv
  <1> QED
    BY <1>1, BaseStep, PTL DEF Spec

-----------------------------------------------------------------------------
(* What follows from it *)

(* CoreScheduler's steps are the same under the name this module proves with *)
(* and the name SlotAgent states the refinement with.                        *)
LEMMA SameScheduler ==
    /\ P!Init <=> Scheduler!Init
    /\ P!Next <=> Scheduler!Next
    /\ UNCHANGED P!vars <=> UNCHANGED Scheduler!vars
  <1>1. P!Init <=> Scheduler!Init
    BY DEF Scheduler!Init, P!Init, Scheduler!NewContext, P!NewContext, Scheduler!NewFrame,
       P!NewFrame, Scheduler!NewLog, P!NewLog, Scheduler!Layers, P!Layers
  <1>2. Scheduler!Reconfigure <=> P!Reconfigure
    BY DEF Scheduler!Reconfigure, P!Reconfigure
  <1>3. ASSUME NEW e \in Executions
        PROVE  (Scheduler!Call(e) <=> P!Call(e)) /\ (Scheduler!Advance(e) <=> P!Advance(e))
    <2>1. \A r : Scheduler!HealCrash(e, r) <=> P!HealCrash(e, r)
      BY DEF Scheduler!HealCrash, P!HealCrash, Scheduler!Jump, P!Jump,
         Scheduler!Recorded, P!Recorded, Scheduler!Noted, P!Noted, Scheduler!pool, P!pool
    <2>2. \A p : Scheduler!Outcomes(p) = P!Outcomes(p)
      BY DEF Scheduler!Outcomes, P!Outcomes,
         Scheduler!PluginExecutionError, P!PluginExecutionError
    <2>3. Scheduler!RunPlugin(e) <=> P!RunPlugin(e)
      BY <2>1, <2>2, ActionsMap DEF Scheduler!RunPlugin, P!RunPlugin
    <2>4. Scheduler!Call(e) <=> P!Call(e)
      BY ActionsMap DEF Scheduler!Call, P!Call
    <2>5. \A layer \in Layers : Scheduler!ReturnedNoResult(e, layer)
                                  <=> P!ReturnedNoResult(e, layer)
      BY DEF Scheduler!ReturnedNoResult, P!ReturnedNoResult, Scheduler!Jump, P!Jump,
         Scheduler!Serving, P!Serving, Scheduler!GetPlugin, P!GetPlugin,
         Scheduler!RunLabel, P!RunLabel, Scheduler!Recorded, P!Recorded,
         Scheduler!pool, P!pool
    <2>6. Scheduler!Layers = Layers /\ P!Layers = Layers
      BY DEF Scheduler!Layers, P!Layers, Layers
    <2> QED
      BY <2>3, <2>4, <2>5, <2>6, ActionsMap DEF Scheduler!Advance, P!Advance
  <1>4. Scheduler!Layers = P!Layers
    BY DEF Scheduler!Layers, P!Layers
  <1>5. \A e \in Executions, layer \in P!Layers :
           Scheduler!LookupRaises(e, layer) <=> P!LookupRaises(e, layer)
    BY <1>4 DEF Scheduler!LookupRaises, P!LookupRaises, Scheduler!Jump, P!Jump,
       Scheduler!LookupLabel, P!LookupLabel, Scheduler!Crash, P!Crash,
       Scheduler!Conclude, P!Conclude, Scheduler!pool, P!pool
  <1>6. UNCHANGED P!vars <=> UNCHANGED Scheduler!vars
    BY DEF Scheduler!vars, P!vars
  <1> QED
    BY <1>1, <1>2, <1>3, <1>4, <1>5, <1>6 DEF Scheduler!Next, P!Next

(* Whatever execute, batch_run and run do, with whichever shipped plugins,   *)
(* answers of a model and changes of the registry: their calls are calls of  *)
(* CoreScheduler.execute, and all that is proved of it holds of them.        *)
THEOREM ImplementsSchedulerHolds == Spec => ImplementsScheduler
  <1>1. Init => Scheduler!Init
    BY InitMaps, SameScheduler
  <1>2. BaseInv /\ [Next]_vars => [Scheduler!Next]_Scheduler!vars
    <2> SUFFICES ASSUME BaseInv, [Next]_vars PROVE Scheduler!Next \/ UNCHANGED Scheduler!vars
      OBVIOUS
    <2>1. P!Next \/ UNCHANGED P!vars
      BY SchedulerStep DEF BaseInv, SchedulerInv
    <2> QED
      BY <2>1, SameScheduler
  <1> QED
    BY <1>1, <1>2, BaseInvariance, PTL DEF Spec, ImplementsScheduler

(* The schema plugins judge what the caller passed as JSON Schema does, at   *)
(* any depth, if parameters and schema are plain; a call that JSON Schema    *)
(* rejects is rejected, and one it accepts is let through.                   *)
THEOREM SchemaMeaningHolds == Spec => []SchemaMeaning
  <1>1. BaseInv => SchemaMeaning
    <2> SUFFICES ASSUME BaseInv, NEW e \in Executions,
                        ctx[e].plugin_results["schema"] # None,
                        SchemaPlugin(e).kind # "CustomSchemaValidator",
                        log[e].asked.type = "dict", Plain(log[e].asked, SchemaInForce(e))
                 PROVE  Scheduler!LetThrough(e, "schema")
                          <=> Conforms(log[e].asked, SchemaInForce(e)) /\ ~Additional(e)
      BY DEF SchemaMeaning
    <2> USE DEF BaseInv, SchedulerInv
    <2> DEFINE p == SchemaPlugin(e)
    <2> DEFINE asked == log[e].asked
    <2> DEFINE s == SchemaInForce(e)
    <2>1. /\ frame[e].plugin["schema"] # None /\ ctx[e].tool \in Tools /\ asked \in Params
          /\ ctx[e].plugin_results["schema"] = PluginExecute(p, Shown(e), NoReply)
      BY DEF ValidatedInv, ValidatedOf
    <2>2. /\ frame[e].plugin["schema"] \in PluginsOf("schema")
          /\ p.kind \in {"SchemaDefault", "SchemaStrict"} /\ p.schema \in Schemas
      <3>1. frame[e].plugin["schema"] \in {None, setup.plugins["schema"]}
        BY DEF JudgedInv, JudgedOf, Layers
      <3>2. frame[e].plugin["schema"] \in PluginsOf("schema")
        BY <2>1, <3>1, SetupPlugins DEF AgentInv, Layers
      <3>3. p.kind \in {"SchemaDefault", "SchemaStrict"}
        BY <3>2 DEF SchemaPlugin, PluginsOf, Kinds
      <3> QED
        BY <3>2, <3>3, PluginsAssumption DEF PluginsAssumption, SchemaPlugin
    <2>3. s \in Schemas /\ asked \in Dicts
      BY <2>1, <2>2, ValuesAssumption DEF ValuesAssumption, SchemaInForce, Dicts
    <2>4. Validate(asked, s) = "valid" <=> Conforms(asked, s)
      BY <2>3, ValidatorMeaning
    <2>5. Scheduler!LetThrough(e, "schema") <=> PluginExecute(p, Shown(e), NoReply).should_continue
      BY <2>1 DEF Scheduler!LetThrough
    <2>6. Judged(asked, s).should_continue <=> Validate(asked, s) = "valid"
      <3>1. Passed.should_continue /\ ~Invalid.should_continue /\ ~Raised.should_continue
        BY ResultForms
      <3>2. Validate(asked, s) \in {"valid", "invalid", "raises"}
        BY Zenon DEF Validate
      <3> QED
        BY <3>1, <3>2 DEF Judged
    <2>7. CASE p.kind = "SchemaDefault"
      <3>1. PluginExecute(p, Shown(e), NoReply) = Judged(asked, s)
        BY <2>7 DEF PluginExecute, SchemaDefault, Shown, SchemaInForce
      <3>2. ~Additional(e)
        BY <2>7 DEF Additional
      <3> QED
        BY <2>4, <2>5, <2>6, <3>1, <3>2
    <2>8. CASE p.kind = "SchemaStrict"
      <3>1. s = p.schema
        BY <2>8 DEF SchemaInForce
      <3>2. PluginExecute(p, Shown(e), NoReply) =
               IF Additional(e) THEN Invalid ELSE Judged(asked, s)
        BY <2>8, <3>1 DEF PluginExecute, SchemaStrict, Shown, Additional
      <3>3. ~Invalid.should_continue
        BY ResultForms
      <3> QED
        BY <2>4, <2>5, <2>6, <3>2, <3>3
    <2> QED
      BY <2>2, <2>7, <2>8
  <1> QED
    BY <1>1, BaseInvariance, PTL

(* A tool runs only if the guard permits it, and no tool a human is to       *)
(* approve of does.  Only a guard that goes by lists or roles blocks a call, *)
(* and only for what it does not permit; only one that asks a human leaves   *)
(* it waiting.                                                               *)
THEOREM AccessControlHolds == Spec => []AccessControl
  <1>1. BaseInv => AccessControl
    <2> SUFFICES ASSUME BaseInv, NEW e \in Executions, frame[e].plugin["guard"] # None
                 PROVE  /\ log[e].calls # <<>> => Permitted(GuardPlugin(e), ctx[e].tool)
                        /\ ctx[e].error = "blocked" =>
                              /\ ~Permitted(GuardPlugin(e), ctx[e].tool)
                              /\ GuardPlugin(e).kind # "GuardHumanInLoop"
                        /\ ctx[e].status = "PENDING_APPROVAL" =>
                              GuardPlugin(e).kind = "GuardHumanInLoop"
      BY DEF AccessControl
    <2> USE DEF BaseInv, SchedulerInv
    <2> DEFINE r == ctx[e].plugin_results["guard"]
    <2>1. Blocked # None /\ Awaiting # None
      BY FormsAreResults, AwaitingForm, NoneIsNew
    <2>2. r # None => r \in Rulings(GuardPlugin(e), ctx[e].tool)
      BY DEF JudgedInv, JudgedOf
    <2>3. ASSUME log[e].calls # <<>> PROVE Permitted(GuardPlugin(e), ctx[e].tool)
      <3>1. P!LetThrough(e, "guard")
        BY <2>3 DEF P!AdmissionInv, P!AdmissionOf
      <3> QED
        BY <2>2, <3>1, RulingForms DEF P!LetThrough
    <2>4. ASSUME ctx[e].error = "blocked"
          PROVE  /\ ~Permitted(GuardPlugin(e), ctx[e].tool)
                 /\ GuardPlugin(e).kind # "GuardHumanInLoop"
      <3>1. r = Blocked
        BY <2>4 DEF JudgedInv, JudgedOf
      <3> HIDE DEF r
      <3> QED
        BY <2>1, <2>2, <3>1, RulingForms
    <2>5. ASSUME ctx[e].status = "PENDING_APPROVAL"
          PROVE  GuardPlugin(e).kind = "GuardHumanInLoop"
      <3>1. r = Awaiting
        BY <2>5 DEF JudgedInv, JudgedOf
      <3> HIDE DEF r
      <3> QED
        BY <2>1, <2>2, <3>1, RulingForms
    <2> QED
      BY <2>3, <2>4, <2>5
  <1> QED
    BY <1>1, BaseInvariance, PTL

(* A tool runs again only on parameters a model gave since it last failed,   *)
(* so that without HealingLLM it runs once, whatever max_retries says.       *)
THEOREM RetriesOnAdviceHolds == Spec => []RetriesOnAdvice
  <1>1. BaseInv => RetriesOnAdvice
    <2> SUFFICES ASSUME BaseInv, NEW e \in Executions
                 PROVE  LET runs == log[e].calls IN
                        /\ Len(runs) <= Len(advice[e]) + 1
                        /\ \A i \in 2 .. Len(runs) : runs[i].params = advice[e][i - 1]
                        /\ Len(runs) > 1 =>
                              Config[frame[e].plugin["healing"]].kind = "HealingLLM"
      BY DEF RetriesOnAdvice
    <2>1. AdvisedOf(e) /\ Len(log[e].calls) \in Nat /\ Len(advice[e]) \in Nat
      BY AdviceFacts DEF BaseInv, SchedulerInv
    <2>2. Len(log[e].calls) > 1 => advice[e] # <<>>
      BY <2>1 DEF AdvisedOf
    <2> QED
      BY <2>1, <2>2 DEF AdvisedOf
  <1> QED
    BY <1>1, BaseInvariance, PTL

(* If execute, batch_run or run returned, every task ran to an end, in order *)
(* and as the tool it names; if it raised, the tasks before the one it       *)
(* raised for did and no other was begun.  As for the scheduler alone, this  *)
(* needs max_retries >= 0, which the plugins leave to who configures them.   *)
THEOREM AccountingHolds ==
    ASSUME \A p \in Plugins : MaxRetries[p] \in Nat
    PROVE  Spec => []Accounting
  <1>1. P!NonNegativeRetries
    BY DEF P!NonNegativeRetries
  <1>2. Init => P!ReturnsTerminal
    BY DEF Init, P!ReturnsTerminal
  <1>3. BaseInv /\ P!ReturnsTerminal /\ [Next]_vars => P!ReturnsTerminal'
    <2> SUFFICES ASSUME BaseInv, P!ReturnsTerminal, [Next]_vars PROVE P!ReturnsTerminal'
      OBVIOUS
    <2>1. P!TypeInv /\ [P!Next]_P!vars
      BY SchedulerStep DEF BaseInv, SchedulerInv
    <2> QED
      BY <1>1, <2>1, SchedulerConstants, P!TerminalStep
  <1>4. BaseInv /\ P!ReturnsTerminal => Accounting
    <2> SUFFICES ASSUME BaseInv, P!ReturnsTerminal PROVE Accounting
      OBVIOUS
    <2> USE DEF BaseInv, SchedulerInv
    <2>1. agent.results = [i \in DOMAIN agent.results |-> i]
      <3>1. DOMAIN agent.results = 1 .. Len(agent.results)
        BY Collected
      <3> QED
        BY <3>1 DEF AgentInv
    <2>2. ASSUME NEW e \in Executions, e < Current
          PROVE  /\ at[e] = "returned" /\ ctx[e].tool = agent.tasks[e].tool_id
                 /\ ctx[e].status \in {"COMPLETED", "FAILED", "PENDING_APPROVAL"}
      <3>1. at[e] = "returned" /\ ctx[e].tool = agent.tasks[e].tool_id
        BY <2>2 DEF CallInv, CallOf
      <3> QED
        BY <3>1 DEF P!ReturnsTerminal
    <2>3. \A e \in Executions : at[e] \in {"idle", "raised"} => log[e].calls = <<>>
      BY DEF P!AdmissionInv, P!AdmissionOf
    <2>4. \A e \in Executions : e > Current => at[e] = "idle"
      BY DEF CallInv, CallOf
    <2>5. ASSUME agent.outcome \notin {None, "returned"}, NEW e \in Executions, e >= Current
          PROVE  log[e].calls = <<>>
      <3>1. agent.doing = "done"
        BY <2>5 DEF AgentInv
      <3>2. e = Current \/ e > Current
        BY <2>5, Collected DEF Executions
      <3>3. at[e] \in {"idle", "raised"}
        BY <3>1, <3>2 DEF CallInv, CallOf
      <3> QED
        BY <2>3, <3>3
    <2>6. agent.outcome = "returned" => Len(agent.results) = Len(agent.tasks)
      BY DEF AgentInv
    <2> QED
      BY <2>1, <2>2, <2>3, <2>4, <2>5, <2>6 DEF Accounting
  <1> QED
    BY <1>2, <1>3, <1>4, BaseInvariance, PTL DEF Spec
=============================================================================
