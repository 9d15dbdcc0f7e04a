----------------------- MODULE ApprovalWorkflow_proofs -----------------------
(***************************************************************************)
(* A guarded call from its request to its announcement, for any number of  *)
(* calls, deciders and requests, any clock and any order of subscription.  *)
(*                                                                         *)
(* The calls are CoreScheduler's and the approvals ApprovalManager's: what *)
(* is proved of either is used here, CoreScheduler's under the             *)
(* substitution of Scheduler (P!Next is Scheduler!Next).                   *)
(***************************************************************************)
EXTENDS ApprovalWorkflow, ApprovalManager_proofs, FiniteSetTheorems

P == INSTANCE CoreScheduler_proofs WITH
    Tools <- {Tool},
    Plugins <- {Guard},
    Chains <- {Chain},
    PluginResults <- [p \in {Guard} |-> {AwaitApproval(i) : i \in ApprovalIds}],
    Raising <- {},
    MaxRetries <- [p \in {Guard} |-> 1],
    registered <- {Tool},
    chain <- [t \in {Tool} |-> Chain],
    pc <- at

-----------------------------------------------------------------------------
(* The invariant *)

(* Where a call may be, and what its label says of its request: a call that  *)
(* its guard has stopped asked for one, and ends with it.                    *)
CallOf(e) ==
    /\ at[e] \in {"idle", "schema", "guard", "run_guard", "guard_stopped", "returned"}
    /\ log[e].calls = <<>>
    /\ at[e] \in {"idle", "schema", "guard"} => asked[e] = None
    /\ at[e] # "returned" => ctx[e].approval_id = None /\ telling[e] = <<>>
    /\ at[e] = "guard_stopped" =>
          /\ asked[e] # None
          /\ ctx[e].plugin_results["guard"] = AwaitApproval(asked[e])
    /\ at[e] = "returned" =>
          /\ asked[e] # None
          /\ ctx[e].status = "PENDING_APPROVAL" /\ ctx[e].approval_id = asked[e]

CallInv ==
    /\ asked \in [Executions -> ApprovalIds \cup {None}]
    /\ telling \in [Executions -> Seq(Handlers)]
    /\ subscribed \in Subscriptions
    /\ \A e \in Executions : CallOf(e)

(* A request is its call's alone, stored as soon as the call is out of       *)
(* create_approval; and only calls make requests.                            *)
RequestOf(e) ==
    /\ pc[e] = "storing" => at[e] = "run_guard" /\ draft[e].id = asked[e]
    /\ asked[e] # None => /\ pc[e] # "storing" => Stored(asked[e])
                          /\ \A f \in Executions \ {e} : asked[f] # asked[e]

RequestInv ==
    /\ \A e \in Executions : RequestOf(e)
    /\ \A i \in ApprovalIds : Stored(i) => \E e \in Executions : asked[e] = i

(* A thread of the monitor is inside check_timeouts only while it sweeps, and *)
(* the one that stop joined has ended.                                       *)
MonitorInv ==
    /\ monitor \in [running: BOOLEAN, thread: Timers \cup {None},
                    stop: {"uncalled", "joining", "returned"}]
    /\ loop \in [Timers -> {"new", "testing", "sweeping", "ended"}]
    /\ \A t \in Timers : loop[t] # "sweeping" => pc[t] = "idle"
    /\ monitor.stop = "returned" /\ monitor.thread \in Timers => loop[monitor.thread] = "ended"

ManagerInv == TypeInv /\ DraftInv /\ RecordInv /\ EventInv

BaseInv == ManagerInv /\ P!TypeInv /\ CallInv /\ RequestInv /\ MonitorInv

(* What the monitor does.                                                    *)
Monitoring == (\E t \in Timers : Start(t) \/ MonitorStep(t)) \/ Stop \/ Joined

-----------------------------------------------------------------------------
(* What the parts assume of each other *)

(* A guard that awaits approval returns a PluginResult.                      *)
LEMMA AwaitIsResult ==
    ASSUME NEW i \in ApprovalIds
    PROVE  /\ AwaitApproval(i) \in P!PluginResult
           /\ AwaitApproval(i).data \in P!Dict
           /\ AwaitApproval(i).data.pending_approval
           /\ AwaitApproval(i).data.approval_id = i
           /\ ~AwaitApproval(i).should_continue
  <1>1. [pending_approval |-> TRUE, approval_id |-> i, recovered |-> FALSE,
         fixed_params |-> None] \in P!Dict
    BY DEF P!Dict
  <1> QED
    BY <1>1 DEF AwaitApproval, P!PluginResult

(* What CoreScheduler assumes of its constants holds.                        *)
LEMMA SchedulerConstants == P!ConstantsAssumption /\ P!NoneAssumption
  <1>1. P!NoneAssumption
    BY SchedulerAssumption DEF SchedulerAssumption, Scheduler!NoneAssumption, P!NoneAssumption,
       Scheduler!PluginResult, P!PluginResult, Scheduler!Errors, P!Errors,
       Scheduler!PluginErrors, P!PluginErrors,
       Scheduler!Dict, P!Dict
  <1>2. {Chain} \subseteq [P!Layers -> {Guard} \cup {None}]
    BY DEF Chain, P!Layers
  <1>3. [p \in {Guard} |-> {AwaitApproval(i) : i \in ApprovalIds}]
          \in [{Guard} -> SUBSET (P!PluginResult \cup {None})]
    BY AwaitIsResult
  <1> QED
    BY <1>1, <1>2, <1>3 DEF P!ConstantsAssumption

(* The guard is a plugin, not None; and calls are workers, never the monitor.*)
LEMMA Names ==
    /\ Guard # None
    /\ None \notin ApprovalIds
    /\ \A e \in Executions : e \in Workers /\ e \notin Timers
  BY SchedulerConstants, NoneAssumption, ExecutionsAssumption
     DEF P!NoneAssumption, NoneAssumption, ExecutionsAssumption

-----------------------------------------------------------------------------
(* The steps of a call are CoreScheduler's *)

(* The initial states.                                                       *)
LEMMA InitMaps == SystemInit => P!Init
  <1>1. [t \in {Tool} |-> Chain] \in [{Tool} -> {Chain}]
    OBVIOUS
  <1> QED
    BY <1>1 DEF SystemInit, P!Init, Scheduler!NewContext, P!NewContext, Scheduler!NewFrame,
       P!NewFrame, Scheduler!NewLog, P!NewLog, Scheduler!Layers, P!Layers

(* A new call, its lookups and the end of a stopped call.                    *)
LEMMA CallMaps ==
    ASSUME NEW e \in Executions
    PROVE  /\ \A p \in Params : Execute(e, p) => P!Execute(e, Tool, p)
           /\ ReachGuard(e) => P!SchemaLookup(e) \/ P!GuardLookup(e)
           /\ Suspend(e) => P!GuardStopped(e)
  <1> USE DEF Scheduler!Jump, P!Jump, Scheduler!Emit, P!Emit, Scheduler!pool, P!pool,
          Scheduler!Conclude, P!Conclude, Scheduler!GetPlugin, P!GetPlugin
  <1>1. \A p \in Params : Execute(e, p) => P!Execute(e, Tool, p)
    BY DEF Execute, Scheduler!Execute, P!Execute, Scheduler!NewContext, P!NewContext,
       Scheduler!NewLog, P!NewLog, Scheduler!Layers, P!Layers
  <1>2. Scheduler!SchemaLookup(e) => P!SchemaLookup(e)
    BY DEF Scheduler!SchemaLookup, P!SchemaLookup, Scheduler!Lookup, P!Lookup
  <1>3. Scheduler!GuardLookup(e) => P!GuardLookup(e)
    BY DEF Scheduler!GuardLookup, P!GuardLookup, Scheduler!Lookup, P!Lookup
  <1>4. Scheduler!GuardStopped(e) => P!GuardStopped(e)
    BY DEF Scheduler!GuardStopped, P!GuardStopped, Scheduler!Dict, P!Dict,
       Scheduler!Crash, P!Crash
  <1> QED
    BY <1>1, <1>2, <1>3, <1>4 DEF ReachGuard, Suspend

(* The guard's result is one CoreScheduler expects of the plugin it found.   *)
LEMMA GuardMaps ==
    ASSUME P!TypeInv, CallInv, NEW e \in Executions, GuardReturns(e)
    PROVE  /\ asked[e] \in ApprovalIds
           /\ P!RunGuard(e, AwaitApproval(asked[e]))
           /\ P!RunPlugin(e)
  <1>1. asked[e] \in ApprovalIds
    BY DEF GuardReturns, CallInv
  <1>2. P!RunGuard(e, AwaitApproval(asked[e]))
    BY DEF GuardReturns, Scheduler!RunGuard, P!RunGuard, Scheduler!Jump, P!Jump,
       Scheduler!Admits, P!Admits, Scheduler!Recorded, P!Recorded, Scheduler!Noted, P!Noted,
       Scheduler!pool, P!pool
  <1>3. at[e] = "run_guard"
    BY <1>2 DEF P!RunGuard, P!Jump
  <1>4. frame[e].plugin["guard"] = Guard
    BY <1>3 DEF P!TypeInv, P!Shape, P!ShapeOf
  <1>5. AwaitApproval(asked[e]) \in P!Outcomes(frame[e].plugin["guard"])
    BY <1>1, <1>4, AwaitIsResult, SchedulerConstants DEF P!Outcomes, P!NoneAssumption
  <1> QED
    BY <1>1, <1>2, <1>3, <1>5 DEF P!RunPlugin

(* Every step is one of CoreScheduler, or leaves its variables alone.        *)
LEMMA SchedulerStep ==
    ASSUME P!TypeInv, CallInv, [SystemNext]_systemVars
    PROVE  [P!Next]_P!vars
  <1>1. ASSUME NEW e \in Executions, NEW p \in Params, Execute(e, p)
        PROVE  P!Next
    BY <1>1, CallMaps DEF P!Next, P!Call
  <1>2. ASSUME NEW e \in Executions, ReachGuard(e) \/ GuardReturns(e) \/ Suspend(e)
        PROVE  P!Next
    BY <1>2, CallMaps, GuardMaps DEF P!Next, P!Advance
  <1>3. CASE UNCHANGED calls
    BY <1>3 DEF calls, P!vars
  <1>4. ASSUME NEW e \in Executions,
               StoreApproval(e) \/ Tell(e)
               \/ \E i \in ApprovalIds, t \in Timeouts : CreateApproval(e, i, t)
        PROVE  UNCHANGED calls
    BY <1>4 DEF StoreApproval, Tell, CreateApproval
  <1>5. ASSUME NEW w \in Workers,
               (\E ev \in outbox[w] : Announce(w, ev)) \/ \E i \in ApprovalIds : DecideOutside(w, i)
        PROVE  UNCHANGED calls
    BY <1>5 DEF Announce, DecideOutside
  <1>6. ASSUME Monitoring \/ PassTime
        PROVE  UNCHANGED calls
    BY <1>6 DEF Monitoring, Start, Stop, Joined, MonitorStep, TestRunning, Sweep, SleepInterval, PassTime,
       UnchangedWorkflow
  <1>7. CASE UNCHANGED systemVars
    BY <1>3, <1>7 DEF systemVars
  <1> QED
    BY <1>1, <1>2, <1>3, <1>4, <1>5, <1>6, <1>7 DEF SystemNext, Monitoring, Continue

-----------------------------------------------------------------------------
(* The steps of all of them are ApprovalManager's *)

(* A subscriber is told of the call's own request, and may only decide on it.*)
LEMMA Telling ==
    ASSUME CallInv, NEW e \in Executions, Tell(e)
    PROVE  /\ at[e] = "returned" /\ asked[e] \in ApprovalIds
           /\ telling[e] \in Seq(Handlers) /\ Head(telling[e]) \in Handlers
           /\ UNCHANGED vars \/ Approve(e, asked[e]) \/ Reject(e, asked[e])
  <1>1. telling[e] \in Seq(Handlers) /\ telling[e] # <<>>
    BY DEF Tell, CallInv
  <1>2. Head(telling[e]) \in Handlers
    BY <1>1
  <1>3. UNCHANGED vars \/ Approve(e, asked[e]) \/ Reject(e, asked[e])
    BY <1>2 DEF Tell, Told, Decide, Handlers
  <1>4. at[e] = "returned" /\ asked[e] \in ApprovalIds
    BY <1>1 DEF CallInv, CallOf
  <1> QED
    BY <1>1, <1>2, <1>3, <1>4

(* What subscribers, people and the monitor do to approvals is what          *)
(* ApprovalManager lets its workers do.                                      *)
LEMMA ManagerStep ==
    ASSUME CallInv, [SystemNext]_systemVars
    PROVE  [Next]_vars
  <1>1. ASSUME NEW e \in Executions, Continue(e)
        PROVE  [Next]_vars
    <2>1. CASE ReachGuard(e) \/ GuardReturns(e) \/ Suspend(e)
      BY <2>1 DEF ReachGuard, GuardReturns, Suspend
    <2>2. CASE StoreApproval(e)
      BY <2>2, Names DEF StoreApproval, Next, Proceed
    <2>3. ASSUME NEW i \in ApprovalIds, NEW t \in Timeouts, CreateApproval(e, i, t)
          PROVE  Next
      BY <2>3, Names DEF CreateApproval, Next, Request
    <2>4. CASE Tell(e)
      BY <2>4, Telling, Names DEF Next, Request
    <2> QED
      BY <1>1, <2>1, <2>2, <2>3, <2>4 DEF Continue
  <1>2. ASSUME NEW e \in Executions, NEW p \in Params, Execute(e, p)
        PROVE  UNCHANGED vars
    BY <1>2 DEF Execute
  <1>3. ASSUME NEW w \in Workers, NEW i \in ApprovalIds, DecideOutside(w, i)
        PROVE  Next
    BY <1>3 DEF DecideOutside, Next, Request
  <1>4. ASSUME NEW w \in Workers, NEW ev \in outbox[w], Announce(w, ev)
        PROVE  Next
    BY <1>4 DEF Announce, Next, Proceed
  <1>5. CASE Monitoring \/ PassTime
    BY <1>5, TimerAssumption DEF TimerAssumption, Monitoring, Start, Stop, Joined, MonitorStep, TestRunning,
       Sweep, SleepInterval, PassTime, Next, Request, Proceed
  <1>6. CASE UNCHANGED systemVars
    BY <1>6 DEF systemVars
  <1> QED
    BY <1>1, <1>2, <1>3, <1>4, <1>5, <1>6 DEF SystemNext, Monitoring

-----------------------------------------------------------------------------
(* Calls *)

(* The types the scheduler's variables have. *)
LEMMA CallTypes ==
    ASSUME P!TypeInv
    PROVE  /\ at \in [Executions -> P!Labels]
           /\ ctx \in [Executions -> P!Context]
           /\ log \in [Executions -> P!Log]
  BY DEF P!TypeInv, P!TypeOK

(* No call has begun at first. *)
LEMMA InitCalls == SystemInit => CallInv
  <1> SUFFICES ASSUME SystemInit PROVE CallInv
    OBVIOUS
  <1>1. \A e \in Executions : CallOf(e)
    BY DEF SystemInit, CallOf, Scheduler!NewContext, Scheduler!NewLog
  <1> QED
    BY <1>1 DEF SystemInit, CallInv

(* A step of one call leaves the others what they were. *)
LEMMA OtherCalls ==
    ASSUME CallInv, NEW e \in Executions, CallOf(e)',
           asked' \in [Executions -> ApprovalIds \cup {None}],
           telling' \in [Executions -> Seq(Handlers)], subscribed' = subscribed,
           \A f \in Executions \ {e} :
              /\ at'[f] = at[f] /\ log'[f] = log[f] /\ ctx'[f] = ctx[f]
              /\ asked'[f] = asked[f] /\ telling'[f] = telling[f]
    PROVE  CallInv'
  <1>1. ASSUME NEW f \in Executions \ {e} PROVE CallOf(f)'
    <2>1. /\ at'[f] = at[f] /\ log'[f] = log[f] /\ ctx'[f] = ctx[f]
          /\ asked'[f] = asked[f] /\ telling'[f] = telling[f]
      OBVIOUS
    <2>2. CallOf(f)
      BY DEF CallInv
    <2> QED
      BY ONLY <2>1, <2>2 DEF CallOf, AwaitApproval
  <1> QED
    BY <1>1 DEF CallInv

(* execute begins, and looks its plugins up: only the guard is there. *)
LEMMA BeginStep ==
    ASSUME P!TypeInv, CallInv, NEW e \in Executions,
           ReachGuard(e) \/ \E p \in Params : Execute(e, p)
    PROVE  CallInv'
  <1> USE CallTypes
  <1>1. UNCHANGED <<asked, telling, subscribed>> /\ CallOf(e)
    BY DEF ReachGuard, Execute, watchers, CallInv
  <1>2. CASE \E p \in Params : Execute(e, p)
    <2>1. PICK p \in Params :
             /\ at[e] = "idle" /\ at' = [at EXCEPT ![e] = "schema"]
             /\ ctx' = [ctx EXCEPT ![e] = Scheduler!NewContext(Tool, p, "RUNNING")]
             /\ log' = [log EXCEPT ![e] = Scheduler!NewLog(p)]
      BY <1>2 DEF Execute, Scheduler!Execute, Scheduler!Jump
    <2>2. CallOf(e)'
      BY <1>1, <2>1 DEF CallOf, Scheduler!NewContext, Scheduler!NewLog
    <2> QED
      BY <1>1, <2>1, <2>2, OtherCalls DEF CallInv
  <1>3. CASE ReachGuard(e)
    <2>1. /\ ctx' = ctx /\ log' = log
          /\ \/ /\ at[e] = "schema"
                /\ at' = [at EXCEPT ![e] =
                            IF Chain["schema"] = None THEN "guard" ELSE "run_schema"]
             \/ /\ at[e] = "guard"
                /\ at' = [at EXCEPT ![e] =
                            IF Chain["guard"] = None THEN "before_exec" ELSE "run_guard"]
      <3>1. at[e] \in {"schema", "guard"} => ctx[e].tool = Tool
        BY DEF P!TypeInv, P!Shape, P!ShapeOf, P!Running
      <3> QED
        BY <1>3, <3>1 DEF ReachGuard, Scheduler!SchemaLookup, Scheduler!GuardLookup,
           Scheduler!Lookup, Scheduler!Jump, Scheduler!GetPlugin
    <2>2. Chain["schema"] = None /\ Chain["guard"] # None
      BY Names DEF Chain
    <2>3. CallOf(e)'
      BY <1>1, <2>1, <2>2 DEF CallOf
    <2> QED
      BY <1>1, <2>1, <2>3, OtherCalls DEF CallInv
  <1> QED
    BY <1>2, <1>3

(* The guard asks. *)
LEMMA AskStep ==
    ASSUME CallInv, NEW e \in Executions, NEW i \in ApprovalIds, NEW t \in Timeouts,
           CreateApproval(e, i, t)
    PROVE  CallInv'
  <1>1. /\ at[e] = "run_guard" /\ asked' = [asked EXCEPT ![e] = i]
        /\ UNCHANGED <<at, ctx, log, telling, subscribed>>
    BY DEF CreateApproval, calls
  <1>2. CallOf(e)'
    BY <1>1 DEF CallInv, CallOf
  <1> QED
    BY <1>1, <1>2, OtherCalls DEF CallInv

(* The guard's result names what it asked for. *)
LEMMA GuardStep ==
    ASSUME P!TypeInv, CallInv, NEW e \in Executions, GuardReturns(e)
    PROVE  CallInv'
  <1> USE CallTypes
  <1>1. asked[e] \in ApprovalIds /\ P!RunGuard(e, AwaitApproval(asked[e]))
    BY GuardMaps
  <1>2. /\ at[e] = "run_guard" /\ at' = [at EXCEPT ![e] = "guard_stopped"]
        /\ ctx' = [ctx EXCEPT ![e].plugin_results["guard"] = AwaitApproval(asked[e])]
        /\ UNCHANGED <<log, asked, telling, subscribed>>
    BY <1>1, AwaitIsResult DEF GuardReturns, watchers, P!RunGuard, P!Jump, P!Admits, P!Recorded
  <1>3. ctx'[e].plugin_results["guard"] = AwaitApproval(asked[e])
        /\ ctx'[e].approval_id = ctx[e].approval_id
    BY <1>2 DEF P!Context, P!Layers
  <1>4. CallOf(e)'
    BY <1>1, <1>2, <1>3, Names DEF CallInv, CallOf
  <1> QED
    BY <1>2, <1>4, OtherCalls DEF CallInv

(* execute returns with the request its guard made. *)
LEMMA SuspendStep ==
    ASSUME P!TypeInv, CallInv, NEW e \in Executions, Suspend(e)
    PROVE  CallInv'
  <1> USE CallTypes
  <1>1. /\ at[e] = "guard_stopped" /\ P!GuardStopped(e)
        /\ UNCHANGED <<asked, subscribed>> /\ telling' = [telling EXCEPT ![e] = subscribed]
    BY CallMaps DEF Suspend, P!GuardStopped, P!Jump
  <1>2. /\ asked[e] \in ApprovalIds
        /\ ctx[e].plugin_results["guard"].data = AwaitApproval(asked[e]).data
    BY <1>1 DEF CallInv, CallOf
  <1>3. /\ at' = [at EXCEPT ![e] = "returned"] /\ log' = log
        /\ ctx' = [ctx EXCEPT ![e].status = "PENDING_APPROVAL", ![e].approval_id = asked[e]]
    BY <1>1, <1>2, AwaitIsResult DEF P!GuardStopped, P!Jump
  <1>4. ctx'[e].status = "PENDING_APPROVAL" /\ ctx'[e].approval_id = asked[e]
    BY <1>3 DEF P!Context
  <1>5. CallOf(e)'
    BY <1>1, <1>2, <1>3, <1>4, Names DEF CallInv, CallOf
  <1>6. subscribed \in Seq(Handlers)
    BY SubscriptionsAssumption DEF SubscriptionsAssumption, CallInv
  <1> QED
    BY <1>1, <1>3, <1>5, <1>6, OtherCalls DEF CallInv

(* Telling a subscriber changes only who is still to be told. *)
LEMMA TellStep ==
    ASSUME CallInv, NEW e \in Executions, Tell(e)
    PROVE  CallInv'
  <1>1. /\ telling[e] # <<>> /\ telling' = [telling EXCEPT ![e] = Tail(@)]
        /\ UNCHANGED <<at, ctx, log, asked, subscribed>>
    BY DEF Tell, calls
  <1>2. telling[e] \in Seq(Handlers) /\ Tail(telling[e]) \in Seq(Handlers)
    BY <1>1 DEF CallInv
  <1>3. CallOf(e)'
    BY <1>1 DEF CallInv, CallOf
  <1> QED
    BY <1>1, <1>2, <1>3, OtherCalls DEF CallInv

(* What the others do leaves the calls alone. *)
LEMMA Bystanders ==
    ASSUME \/ \E e \in Executions : StoreApproval(e)
           \/ \E w \in Workers, i \in ApprovalIds : DecideOutside(w, i)
           \/ \E w \in Workers : \E ev \in outbox[w] : Announce(w, ev)
           \/ Monitoring \/ PassTime
    PROVE  UNCHANGED <<calls, asked, subscribed, telling>>
  BY DEF StoreApproval, DecideOutside, Announce, Monitoring, Start, Stop, Joined, MonitorStep,
     TestRunning, Sweep, SleepInterval, PassTime, UnchangedWorkflow, watchers

(* Every step keeps what the calls are known to be. *)
LEMMA CallStep ==
    ASSUME P!TypeInv, CallInv, [SystemNext]_systemVars
    PROVE  CallInv'
  <1>1. CASE UNCHANGED <<calls, asked, subscribed, telling>>
    BY <1>1 DEF calls, CallInv, CallOf
  <1>2. CASE UNCHANGED systemVars
    BY <1>1, <1>2 DEF systemVars, watchers
  <1>3. ASSUME NEW e \in Executions, Continue(e) \/ \E p \in Params : Execute(e, p)
        PROVE  CallInv'
    BY <1>1, <1>3, Bystanders, BeginStep, AskStep, GuardStep, SuspendStep, TellStep
       DEF Continue
  <1> QED
    BY <1>1, <1>2, <1>3, Bystanders DEF SystemNext, Monitoring

-----------------------------------------------------------------------------
(* Requests *)

(* A step in which no request is made or stored.                             *)
Quiet ==
    /\ draft' = draft
    /\ \A i \in ApprovalIds : Stored(i)' <=> Stored(i)
    /\ \A w \in Workers : pc'[w] = "storing" <=> pc[w] = "storing"

(* Whatever of the manager is not create_approval is quiet.                  *)
LEMMA QuietSteps ==
    ASSUME TypeInv,
           \/ \E w \in Workers, i \in ApprovalIds : Approve(w, i) \/ Reject(w, i)
           \/ \E w \in Workers : BeginCheck(w) \/ MarkTimeouts(w)
           \/ \E w \in Workers : \E ev \in outbox[w] : EmitResolved(w, ev)
           \/ Tick \/ UNCHANGED vars
    PROVE  Quiet
  <1>1. ASSUME NEW w \in Workers, NEW i \in ApprovalIds, Approve(w, i) \/ Reject(w, i)
        PROVE  Quiet
    <2>1. approvals[i] \in Record /\ \A r \in Record : r # None
      BY <1>1, NoneIsNoRecord DEF Approve, Reject, Settle, Pending, Stored, TypeInv, TypeOK
    <2>2. PICK record, resolution : Settle(w, i, record, resolution) /\ record # None
      <3> DEFINE approved == [approvals[i] EXCEPT !.status = "APPROVED", !.approved_at = now,
                                                  !.approver = w]
                 rejected == [approvals[i] EXCEPT !.status = "REJECTED", !.rejected_at = now,
                                                  !.approver = w]
      <3>1. now \in Nat
        BY ClockReadings DEF TypeInv, TypeOK
      <3>2. approved \in Record /\ rejected \in Record
        BY <2>1, <3>1 DEF Record, Resolutions
      <3> HIDE DEF approved, rejected
      <3>3. Approve(w, i) => Settle(w, i, approved, "APPROVED")
        BY DEF Approve, approved
      <3>4. Reject(w, i) => Settle(w, i, rejected, "REJECTED")
        BY DEF Reject, rejected
      <3> QED
        BY <1>1, <2>1, <3>2, <3>3, <3>4
    <2> QED
      BY <2>2 DEF Settle, Pending, Stored, Quiet, TypeInv, TypeOK
  <1>2. ASSUME NEW w \in Workers, MarkTimeouts(w)
        PROVE  Quiet
    <2>1. ASSUME NEW i \in Expired(w)
          PROVE  Stored(i) /\ TimedOut(i, w) # None
      <3>1. Stored(i) /\ approvals[i] \in Record /\ checked_at[w] \in Nat
        BY ClockReadings DEF Expired, Pending, Stored, TypeInv, TypeOK
      <3>2. TimedOut(i, w) \in Record
        BY <3>1 DEF TimedOut, Record, Resolutions
      <3> QED
        BY <3>1, <3>2, NoneIsNoRecord
    <2>2. \A i \in ApprovalIds : Stored(i)' <=> Stored(i)
      BY <1>2, <2>1 DEF MarkTimeouts, Stored
    <2> QED
      BY <1>2, <2>2 DEF MarkTimeouts, Quiet, TypeInv, TypeOK
  <1>3. ASSUME NEW w \in Workers, BeginCheck(w) \/ \E ev \in outbox[w] : EmitResolved(w, ev)
        PROVE  Quiet
    BY <1>3 DEF BeginCheck, EmitResolved, Stored, Quiet, TypeInv, TypeOK
  <1>4. CASE Tick \/ UNCHANGED vars
    BY <1>4 DEF Tick, vars, Stored, Quiet
  <1> QED
    BY <1>1, <1>2, <1>3, <1>4

(* At first there are no requests. *)
LEMMA InitRequests == SystemInit => RequestInv
  BY Names DEF SystemInit, Init, RequestInv, RequestOf, Stored

(* A request that is made is of no other call, stored or about to be. *)
LEMMA RequestAsk ==
    ASSUME TypeInv, CallInv, RequestInv, NEW e \in Executions, NEW i \in ApprovalIds,
           NEW t \in Timeouts, CreateApproval(e, i, t)
    PROVE  RequestInv'
  <1>1. /\ at[e] = "run_guard" /\ asked[e] = None /\ pc[e] = "idle" /\ Fresh(i)
        /\ pc' = [pc EXCEPT ![e] = "storing"]
        /\ draft' = [draft EXCEPT ![e] = [id |-> i, record |-> NewRecord(t)]]
        /\ asked' = [asked EXCEPT ![e] = i]
        /\ UNCHANGED <<at, approvals>>
    BY DEF CreateApproval, BeginCreate, calls
  <1>2. /\ pc \in [Workers -> Labels] /\ draft \in [Workers -> Draft \cup {None}]
        /\ asked \in [Executions -> ApprovalIds \cup {None}]
    BY DEF TypeInv, TypeOK, CallInv
  <1>3. ASSUME NEW f \in Executions, f # e, asked[f] # None
        PROVE  asked[f] # i
    <2>1. CASE pc[f] = "storing"
      <3>1. draft[f].id = asked[f] /\ draft[f] # None
        BY <2>1, Names, NoneIsNoRecord DEF RequestInv, RequestOf, TypeInv, Shape
      <3> QED
        BY <3>1, <1>1, Names DEF Fresh
    <2>2. CASE pc[f] # "storing"
      BY <2>2, <1>1, <1>3 DEF RequestInv, RequestOf, Fresh
    <2> QED
      BY <2>1, <2>2
  <1>4. RequestOf(e)'
    BY <1>1, <1>2, <1>3, Names DEF RequestOf
  <1>5. ASSUME NEW f \in Executions, f # e
        PROVE  RequestOf(f)'
    BY <1>1, <1>2, <1>3, <1>5, Names DEF RequestInv, RequestOf, Stored
  <1>6. ASSUME NEW j \in ApprovalIds, Stored(j)'
        PROVE  \E f \in Executions : asked'[f] = j
    <2>1. PICK f \in Executions : asked[f] = j
      BY <1>1, <1>6 DEF RequestInv, Stored
    <2>2. f # e
      BY <2>1, <1>1, Names
    <2> QED
      BY <2>1, <2>2, <1>1, <1>2
  <1> QED
    BY <1>4, <1>5, <1>6 DEF RequestInv

(* What create_approval stores is what its call asked for. *)
LEMMA RequestStore ==
    ASSUME TypeInv, CallInv, RequestInv, NEW e \in Executions, StoreApproval(e)
    PROVE  RequestInv'
  <1>1. /\ pc[e] = "storing" /\ e \in Workers
        /\ approvals' = [approvals EXCEPT ![draft[e].id] = draft[e].record]
        /\ pc' = [pc EXCEPT ![e] = "idle"] /\ draft' = [draft EXCEPT ![e] = None]
        /\ UNCHANGED <<at, asked>>
    BY Names DEF StoreApproval, Store, calls, watchers
  <1>2. /\ pc \in [Workers -> Labels] /\ draft \in [Workers -> Draft \cup {None}]
        /\ approvals \in [ApprovalIds -> Record \cup {None}]
        /\ asked \in [Executions -> ApprovalIds \cup {None}]
    BY DEF TypeInv, TypeOK, CallInv
  <1>3. /\ draft[e].id = asked[e] /\ draft[e].id \in ApprovalIds
        /\ draft[e].record # None
    BY <1>1, NoneIsNoRecord DEF RequestInv, RequestOf, TypeInv, Shape, Draft
  <1>4. \A j \in ApprovalIds : Stored(j)' <=> Stored(j) \/ j = asked[e]
    BY <1>1, <1>2, <1>3 DEF Stored
  <1>5. \A f \in Executions : pc'[f] = "storing" <=> pc[f] = "storing" /\ f # e
    BY <1>1, <1>2, Names
  <1>6. \A f \in Executions \ {e} : draft'[f] = draft[f]
    BY <1>1, <1>2, Names
  <1>7. ASSUME NEW f \in Executions
        PROVE  RequestOf(f)'
    <2>1. RequestOf(f) /\ at'[f] = at[f] /\ asked'[f] = asked[f]
      BY <1>1 DEF RequestInv
    <2>2. asked[f] # None => asked[f] \in ApprovalIds
      BY <1>2
    <2> QED
      BY <2>1, <2>2, <1>1, <1>4, <1>5, <1>6 DEF RequestOf
  <1> QED
    BY <1>1, <1>4, <1>7 DEF RequestInv

(* Nothing else touches them. *)
LEMMA RequestFrame ==
    ASSUME CallInv, RequestInv, Quiet, asked' = asked,
           \A e \in Executions : pc[e] = "storing" => at'[e] = at[e]
    PROVE  RequestInv'
  <1>1. ASSUME NEW f \in Executions PROVE RequestOf(f)'
    <2>1. RequestOf(f) /\ f \in Workers /\ asked[f] \in ApprovalIds \cup {None}
      BY Names DEF RequestInv, CallInv
    <2> QED
      BY <2>1 DEF RequestOf, Quiet
  <1> QED
    BY <1>1 DEF RequestInv, Quiet

(* Every step keeps requests apart and stored. *)
LEMMA RequestStep ==
    ASSUME TypeInv, P!TypeInv, CallInv, RequestInv, [SystemNext]_systemVars
    PROVE  RequestInv'
  <1> USE CallTypes, TimerAssumption DEF TimerAssumption
  <1>1. ASSUME NEW e \in Executions, ReachGuard(e) \/ GuardReturns(e) \/ Suspend(e)
        PROVE  RequestInv'
    <2>1. /\ at[e] \in {"schema", "guard", "guard_stopped"} \/ pc[e] = "idle"
          /\ \E l \in P!Labels : at' = [at EXCEPT ![e] = l]
          /\ UNCHANGED vars /\ asked' = asked
      <3>1. CASE ReachGuard(e) \/ Suspend(e)
        <4>1. at[e] \in {"schema", "guard", "guard_stopped"}
              /\ \E l \in P!Labels : at' = [at EXCEPT ![e] = l]
          BY <3>1, CallMaps DEF P!SchemaLookup, P!GuardLookup, P!Lookup, P!GuardStopped,
             P!Jump, P!Labels, P!Running
        <4> QED
          BY <3>1, <4>1 DEF ReachGuard, Suspend, watchers
      <3>2. CASE GuardReturns(e)
        BY <3>2, GuardMaps DEF GuardReturns, watchers, P!RunGuard, P!Jump, P!Labels, P!Running
      <3> QED
        BY <1>1, <3>1, <3>2
    <2>2. pc[e] # "storing"
      BY <2>1 DEF RequestInv, RequestOf
    <2> QED
      BY <2>1, <2>2, QuietSteps, RequestFrame
  <1>2. ASSUME NEW e \in Executions, NEW p \in Params, Execute(e, p)
        PROVE  RequestInv'
    <2>1. /\ at[e] = "idle" /\ at' = [at EXCEPT ![e] = "schema"]
          /\ UNCHANGED vars /\ asked' = asked
      BY <1>2 DEF Execute, Scheduler!Execute, Scheduler!Jump, watchers
    <2>2. pc[e] # "storing"
      BY <2>1 DEF RequestInv, RequestOf
    <2> QED
      BY <2>1, <2>2, QuietSteps, RequestFrame
  <1>3. ASSUME NEW e \in Executions, Tell(e)
        PROVE  RequestInv'
    BY <1>3, Telling, Names, QuietSteps, RequestFrame DEF Tell, calls
  <1>4. ASSUME \/ \E w \in Workers, i \in ApprovalIds : DecideOutside(w, i)
               \/ \E w \in Workers : \E ev \in outbox[w] : Announce(w, ev)
        PROVE  RequestInv'
    BY <1>4, QuietSteps, RequestFrame DEF DecideOutside, Announce, calls, watchers
  <1>5. ASSUME Monitoring \/ PassTime \/ UNCHANGED systemVars
        PROVE  RequestInv'
    <2>1. /\ \/ UNCHANGED vars \/ Tick
             \/ \E w \in Workers : BeginCheck(w) \/ MarkTimeouts(w)
          /\ UNCHANGED <<at, asked>>
      BY <1>5 DEF Monitoring, Start, Stop, Joined, MonitorStep, TestRunning, Sweep, SleepInterval, PassTime,
         UnchangedWorkflow, calls, watchers, systemVars
    <2> QED
      BY <2>1, QuietSteps, RequestFrame
  <1> QED
    BY <1>1, <1>2, <1>3, <1>4, <1>5, RequestAsk, RequestStore DEF SystemNext, Monitoring, Continue

-----------------------------------------------------------------------------
(* The monitor *)

(* Every step keeps the monitor's threads and what they are doing together. *)
LEMMA MonitorKept ==
    ASSUME TypeInv, CallInv, MonitorInv, [SystemNext]_systemVars
    PROVE  MonitorInv'
  <1> USE TimerAssumption DEF TimerAssumption
  <1>1. pc \in [Workers -> Labels]
    BY DEF TypeInv, TypeOK
  <1>2. ASSUME UNCHANGED monitoring,
               \A t \in Timers : pc[t] = "idle" => pc'[t] = "idle"
        PROVE  MonitorInv'
    BY <1>2 DEF MonitorInv, monitoring
  <1>3. ASSUME NEW w \in Workers \ Timers,
               UNCHANGED monitoring, \E l \in Labels : pc' = [pc EXCEPT ![w] = l]
        PROVE  MonitorInv'
    BY <1>1, <1>2, <1>3
  <1>4. ASSUME NEW w \in Workers, NEW i \in ApprovalIds, Approve(w, i) \/ Reject(w, i)
        PROVE  w \notin Timers /\ \E l \in Labels : pc' = [pc EXCEPT ![w] = l]
    BY <1>4 DEF Approve, Reject, Settle, Labels
  <1>5. ASSUME NEW e \in Executions, Continue(e) \/ \E p \in Params : Execute(e, p)
        PROVE  MonitorInv'
    <2>1. CASE Tell(e)
      BY <2>1, Telling, <1>2, <1>3, <1>4, Names DEF Tell, vars
    <2>2. CASE UNCHANGED <<pc, monitoring>>
      BY <2>2, <1>2
    <2>3. CASE StoreApproval(e) \/ \E i \in ApprovalIds, t \in Timeouts : CreateApproval(e, i, t)
      <3>1. UNCHANGED monitoring /\ \E l \in Labels : pc' = [pc EXCEPT ![e] = l]
        BY <2>3 DEF StoreApproval, Store, CreateApproval, BeginCreate, Labels
      <3> QED
        BY <3>1, <1>3, Names
    <2> QED
      BY <1>5, <2>1, <2>2, <2>3 DEF Continue, Execute, ReachGuard, GuardReturns, Suspend, vars
  <1>6. ASSUME NEW w \in Workers, NEW i \in ApprovalIds, DecideOutside(w, i)
        PROVE  MonitorInv'
    BY <1>3, <1>4, <1>6 DEF DecideOutside
  <1>7. ASSUME NEW w \in Workers, NEW ev \in outbox[w], Announce(w, ev)
        PROVE  MonitorInv'
    BY <1>1, <1>2, <1>7 DEF Announce, EmitResolved
  <1>8. ASSUME NEW t \in Timers, Start(t)
        PROVE  MonitorInv'
    BY <1>8 DEF Start, Goto, MonitorInv, vars
  <1>9. CASE Stop \/ Joined
    <2>1. monitor.thread # None <=> monitor.thread \in Timers
      BY NoneAssumption DEF NoneAssumption, MonitorInv
    <2>2. CASE Stop
      <3>1. UNCHANGED <<pc, loop>> /\ monitor' = [monitor EXCEPT !.running = FALSE,
              !.stop = IF monitor.thread = None THEN "returned" ELSE "joining"]
        BY <2>2 DEF Stop, vars
      <3>2. /\ monitor'.thread = monitor.thread
            /\ monitor'.stop = IF monitor.thread = None THEN "returned" ELSE "joining"
            /\ monitor' \in [running: BOOLEAN, thread: Timers \cup {None},
                             stop: {"uncalled", "joining", "returned"}]
        BY <3>1 DEF MonitorInv
      <3>3. ~(monitor'.stop = "returned" /\ monitor'.thread \in Timers)
        BY <3>2, <2>1
      <3>4. /\ loop' \in [Timers -> {"new", "testing", "sweeping", "ended"}]
            /\ \A t \in Timers : loop'[t] # "sweeping" => pc'[t] = "idle"
        BY <3>1 DEF MonitorInv
      <3> QED
        BY <3>2, <3>3, <3>4 DEF MonitorInv
    <2>3. CASE Joined
      BY <2>3 DEF Joined, MonitorInv, vars
    <2> QED
      BY <1>9, <2>2, <2>3
  <1>10. ASSUME NEW t \in Timers, MonitorStep(t)
         PROVE  MonitorInv'
    <2>1. CASE Sweep(t)
      <3>1. pc[t] = "sweeping" /\ UNCHANGED monitoring
            /\ \A v \in Timers \ {t} : pc'[v] = pc[v]
        BY <1>1, <2>1 DEF Sweep, MarkTimeouts
      <3> QED
        BY <3>1, <1>2
    <2>2. ASSUME NEW l \in {"testing", "sweeping", "ended"},
                 loop[t] # "ended", Goto(t, l), UNCHANGED monitor,
                 l # "sweeping" => pc'[t] = "idle", \A v \in Timers \ {t} : pc'[v] = pc[v]
          PROVE  MonitorInv'
      BY <2>2 DEF Goto, MonitorInv
    <2>3. CASE TestRunning(t) /\ monitor.running
      <3>1. loop[t] = "testing" /\ Goto(t, "sweeping") /\ UNCHANGED monitor
            /\ \A v \in Timers \ {t} : pc'[v] = pc[v]
        BY <1>1, <2>3 DEF TestRunning, BeginCheck
      <3> QED
        BY <3>1, <2>2
    <2>4. CASE TestRunning(t) /\ ~monitor.running
      <3>1. loop[t] = "testing" /\ Goto(t, "ended") /\ UNCHANGED <<monitor, pc>>
        BY <2>4 DEF TestRunning, vars
      <3> QED
        BY <3>1, <2>2 DEF MonitorInv
    <2>5. CASE SleepInterval(t)
      <3>1. loop[t] = "sweeping" /\ pc[t] = "idle" /\ Goto(t, "testing")
            /\ UNCHANGED <<monitor, pc>>
        BY <2>5 DEF SleepInterval, vars
      <3> QED
        BY <3>1, <2>2
    <2> QED
      BY <1>10, <2>1, <2>3, <2>4, <2>5 DEF MonitorStep
  <1>11. CASE PassTime \/ UNCHANGED systemVars
    BY <1>2, <1>11 DEF PassTime, Tick, vars, systemVars
  <1> QED
    BY <1>5, <1>6, <1>7, <1>8, <1>9, <1>10, <1>11 DEF SystemNext

-----------------------------------------------------------------------------
(* Counting *)

(* Where x occurs in s.                                                      *)
Positions(s, x) == {k \in DOMAIN s : s[k] = x}

(* So there is a count of them.                                              *)
LEMMA PositionsAreFinite ==
    ASSUME NEW S, NEW s \in Seq(S), NEW x
    PROVE  IsFiniteSet(Positions(s, x)) /\ Count(s, x) \in Nat
  <1>1. IsFiniteSet(DOMAIN s)
    BY FS_Interval
  <1>2. IsFiniteSet(Positions(s, x))
    BY <1>1, FS_Subset DEF Positions
  <1> QED
    BY <1>2, FS_CardinalityType DEF Count, Positions

(* Nothing occurs in the empty sequence. *)
LEMMA CountEmpty == \A x : Count(<<>>, x) = 0
  <1>1. \A x : Positions(<<>>, x) = {}
    BY DEF Positions
  <1> QED
    BY <1>1, FS_EmptySet DEF Count, Positions

(* One more is heard. *)
LEMMA CountAppend ==
    ASSUME NEW S, NEW s \in Seq(S), NEW y \in S, NEW x
    PROVE  Count(Append(s, y), x) = IF y = x THEN Count(s, x) + 1 ELSE Count(s, x)
  <1>1. Positions(Append(s, y), x) =
          IF y = x THEN Positions(s, x) \cup {Len(s) + 1} ELSE Positions(s, x)
    BY DEF Positions
  <1>2. Len(s) + 1 \notin Positions(s, x)
    BY DEF Positions
  <1>3. IsFiniteSet(Positions(s, x))
    BY PositionsAreFinite
  <1>4. Cardinality(Positions(s, x) \cup {Len(s) + 1}) = Cardinality(Positions(s, x)) + 1
    BY <1>2, <1>3, FS_AddElement
  <1> QED
    BY <1>1, <1>4 DEF Count, Positions

(* One less is to be told. *)
LEMMA CountTail ==
    ASSUME NEW S, NEW s \in Seq(S), s # <<>>, NEW x
    PROVE  Count(s, x) = IF Head(s) = x THEN Count(Tail(s), x) + 1 ELSE Count(Tail(s), x)
  <1> DEFINE rest == Positions(s, x) \ {1}
             shift == [k \in Positions(Tail(s), x) |-> k + 1]
  <1>1. Tail(s) \in Seq(S) /\ Len(s) \in Nat /\ Len(s) >= 1 /\ Len(Tail(s)) = Len(s) - 1
    OBVIOUS
  <1>2. \A k \in 1 .. Len(s) - 1 : Tail(s)[k] = s[k + 1]
    OBVIOUS
  <1>3. \A k \in Positions(Tail(s), x) : k \in Nat /\ k + 1 \in rest
    BY <1>1, <1>2 DEF Positions
  <1>4. \A k \in rest : k \in Int /\ k - 1 \in Positions(Tail(s), x) /\ shift[k - 1] = k
    BY <1>1, <1>2 DEF Positions
  <1>5. shift \in Bijection(Positions(Tail(s), x), rest)
    <2>1. shift \in [Positions(Tail(s), x) -> rest]
      BY <1>3
    <2>2. \A a, b \in Positions(Tail(s), x) : shift[a] = shift[b] => a = b
      BY <1>3
    <2>3. \A k \in rest : \E a \in Positions(Tail(s), x) : shift[a] = k
      BY <1>4
    <2> HIDE DEF shift, rest
    <2> QED
      BY <2>1, <2>2, <2>3 DEF Bijection, Injection, Surjection, IsInjective
  <1>6. Cardinality(rest) = Count(Tail(s), x)
    <2>1. ExistsBijection(Positions(Tail(s), x), rest)
      BY <1>5 DEF ExistsBijection
    <2>2. IsFiniteSet(Positions(Tail(s), x))
      BY <1>1, PositionsAreFinite
    <2> QED
      BY <2>1, <2>2, FS_Bijection DEF Count, Positions
  <1>7. 1 \in Positions(s, x) <=> Head(s) = x
    BY <1>1 DEF Positions
  <1>8. IsFiniteSet(Positions(s, x)) /\ Count(s, x) \in Nat
    BY PositionsAreFinite
  <1>9. Cardinality(rest) = IF 1 \in Positions(s, x) THEN Count(s, x) - 1 ELSE Count(s, x)
    BY <1>8, FS_RemoveElement DEF Count, Positions
  <1> QED
    BY <1>6, <1>7, <1>8, <1>9

-----------------------------------------------------------------------------
(* News                                                                      *)
(*                                                                           *)
(* HeardOnce counts what the auditor heard against who is still to be told,  *)
(* and what it heard of resolutions against what the manager has published.  *)

HeardOf(i) ==
    /\ heard[i] # <<>> => Stored(i)
    /\ Count(heard[i], "resolved") = Len(published[i])
    /\ published[i] # <<>> => hooked

ToldOf(e) ==
    asked[e] # None =>
        IF at[e] = "returned"
        THEN /\ Count(heard[asked[e]], "wait") + Count(telling[e], "auditor") = 1
             /\ asked[e] \notin pending_approvals => Count(telling[e], "notifier") # 0
        ELSE Count(heard[asked[e]], "wait") = 0

(* The resolution of a settled request is on its way, or has been told.      *)
DueOf(i) ==
    hooked /\ Stored(i) /\ ~Pending(i) =>
        \/ published[i] # <<>>
        \/ \E w \in Workers : \E ev \in outbox[w] : ev.id = i

HeardInv ==
    /\ heard \in [ApprovalIds -> Seq({"wait", "resolved"})]
    /\ \A i \in pending_approvals : i \in ApprovalIds /\ Stored(i)
    /\ \A i \in ApprovalIds : HeardOf(i) /\ DueOf(i)
    /\ \A e \in Executions : ToldOf(e)

(* At first there is no news. *)
LEMMA InitHeard == SystemInit => HeardInv
  <1> SUFFICES ASSUME SystemInit PROVE HeardInv
    OBVIOUS
  <1>1. \A i \in ApprovalIds : HeardOf(i) /\ DueOf(i)
    BY CountEmpty DEF SystemInit, Init, HeardOf, DueOf, Stored
  <1> QED
    BY <1>1 DEF SystemInit, HeardInv, ToldOf

(* No step of the manager forgets a request. *)
LEMMA StoredStays ==
    ASSUME TypeInv, [Next]_vars
    PROVE  \A i \in ApprovalIds : Stored(i) => Stored(i)'
  <1>1. ASSUME NEW w \in Workers, Store(w)
        PROVE  \A i \in ApprovalIds : Stored(i) => Stored(i)'
    BY <1>1, NoneIsNoRecord DEF Store, Stored, TypeInv, TypeOK, Shape, Draft
  <1>2. CASE UNCHANGED approvals
    BY <1>2 DEF Stored
  <1> QED
    BY <1>1, <1>2, RecordSteps, QuietSteps DEF Quiet

(* A resolution never gets lost between the record and the event.            *)
LEMMA DueStep ==
    ASSUME TypeInv, DraftInv, [Next]_vars, hooked' = hooked,
           \A i \in ApprovalIds : DueOf(i)
    PROVE  \A i \in ApprovalIds : DueOf(i)'
  <1>1. /\ approvals \in [ApprovalIds -> Record \cup {None}]
        /\ outbox \in [Workers -> SUBSET Event] /\ published \in [ApprovalIds -> Seq(Event)]
        /\ \A w \in Workers : pc[w] # "emitting" => outbox[w] = {}
    BY DEF TypeInv, TypeOK, Shape
  <1>2. CASE UNCHANGED <<approvals, outbox, published>>
    BY <1>2 DEF DueOf, Pending, Stored
  <1>3. ASSUME NEW w \in Workers, Store(w)
        PROVE  \A i \in ApprovalIds : DueOf(i)'
    <2>1. /\ draft[w].id \in ApprovalIds /\ draft[w].record.status = "PENDING"
          /\ approvals' = [approvals EXCEPT ![draft[w].id] = draft[w].record]
          /\ UNCHANGED <<outbox, published>>
      BY <1>3, NoneIsNoRecord DEF Store, TypeInv, Shape, Draft, DraftInv, DraftOf
    <2>2. approvals'[draft[w].id].status = "PENDING"
      BY <1>1, <2>1
    <2>3. \A i \in ApprovalIds \ {draft[w].id} : approvals'[i] = approvals[i]
      BY <1>1, <2>1
    <2> QED
      BY <2>1, <2>2, <2>3 DEF DueOf, Pending, Stored
  <1>4. ASSUME NEW w \in Workers, NEW j \in ApprovalIds, Approve(w, j) \/ Reject(w, j)
        PROVE  \A i \in ApprovalIds : DueOf(i)'
    <2>0. PICK record, resolution : Settle(w, j, record, resolution)
      BY <1>4 DEF Approve, Reject
    <2> DEFINE ev == Resolved(j, resolution, w)
    <2>1. /\ ev.id = j /\ outbox' = [outbox EXCEPT ![w] = {ev}]
          /\ outbox[w] = {} /\ published' = published
          /\ \A i \in ApprovalIds \ {j} : approvals'[i] = approvals[i]
      BY <1>1, <2>0 DEF Settle, Resolved
    <2>2. ev \in outbox'[w]
      BY <1>1, <2>1
    <2>3. DueOf(j)'
      BY <2>1, <2>2 DEF DueOf
    <2>4. \A v \in Workers : outbox[v] \subseteq outbox'[v]
      BY <1>1, <2>1
    <2>5. ASSUME NEW i \in ApprovalIds, i # j
          PROVE  DueOf(i)'
      <3>1. DueOf(i) /\ approvals'[i] = approvals[i] /\ published'[i] = published[i]
        BY <2>1, <2>5
      <3> QED
        BY <2>4, <3>1 DEF DueOf, Pending, Stored
    <2> QED
      BY <2>3, <2>5
  <1>5. ASSUME NEW w \in Workers, MarkTimeouts(w)
        PROVE  \A i \in ApprovalIds : DueOf(i)'
    <2>1. /\ outbox' = [outbox EXCEPT ![w] = {Resolved(i, "TIMEOUT", None) : i \in Expired(w)}]
          /\ outbox[w] = {} /\ published' = published
      BY <1>1, <1>5 DEF MarkTimeouts
    <2>0. \A i \in ApprovalIds \ Expired(w) : approvals'[i] = approvals[i]
      BY <1>5 DEF MarkTimeouts
    <2>2. ASSUME NEW i \in Expired(w)
          PROVE  DueOf(i)'
      <3>1. Resolved(i, "TIMEOUT", None) \in outbox'[w] /\ Resolved(i, "TIMEOUT", None).id = i
        BY <1>1, <2>1 DEF Resolved
      <3> QED
        BY <3>1 DEF DueOf
    <2>3. \A v \in Workers : outbox[v] \subseteq outbox'[v]
      BY <1>1, <2>1
    <2>4. ASSUME NEW i \in ApprovalIds \ Expired(w)
          PROVE  DueOf(i)'
      <3>1. DueOf(i) /\ approvals'[i] = approvals[i] /\ published'[i] = published[i]
        BY <2>0, <2>1
      <3> QED
        BY <2>3, <3>1 DEF DueOf, Pending, Stored
    <2> QED
      BY <2>2, <2>4
  <1>6. ASSUME NEW w \in Workers, NEW ev \in outbox[w], EmitResolved(w, ev)
        PROVE  \A i \in ApprovalIds : DueOf(i)'
    <2>1. /\ outbox' = [outbox EXCEPT ![w] = @ \ {ev}] /\ approvals' = approvals
          /\ published' = IF hooked THEN [published EXCEPT ![ev.id] = Append(@, ev)]
                                    ELSE published
      BY <1>6 DEF EmitResolved
    <2>2. ASSUME NEW i \in ApprovalIds, hooked, i # ev.id
          PROVE  DueOf(i)'
      <3>1. \A v \in Workers : \A x \in outbox[v] : x # ev => x \in outbox'[v]
        BY <1>1, <2>1
      <3>2. DueOf(i) /\ approvals'[i] = approvals[i] /\ published'[i] = published[i]
        BY <1>1, <2>1, <2>2
      <3> QED
        BY <2>2, <3>1, <3>2 DEF DueOf, Pending, Stored
    <2>3. ASSUME NEW i \in ApprovalIds, hooked, i = ev.id
          PROVE  published'[i] # <<>>
      <3>1. published[i] \in Seq(Event) /\ ev \in Event
        BY <1>1
      <3>2. published'[i] = Append(published[i], ev)
        BY <1>1, <2>1, <2>3
      <3> QED
        BY <3>1, <3>2
    <2> QED
      BY <2>2, <2>3 DEF DueOf
  <1> QED
    BY <1>2, <1>3, <1>4, <1>5, <1>6 DEF Next, Request, Proceed, BeginCreate, BeginCheck, Tick,
       AttachHook, vars

(* Only a telling and an announcement bring news.                            *)
LEMMA NoNews ==
    ASSUME CallInv, [SystemNext]_systemVars,
           \/ \E e \in Executions : Continue(e) /\ ~Tell(e)
           \/ \E e \in Executions, p \in Params : Execute(e, p)
           \/ \E w \in Workers, i \in ApprovalIds : DecideOutside(w, i)
           \/ Monitoring \/ PassTime \/ UNCHANGED systemVars
    PROVE  UNCHANGED <<heard, pending_approvals, published, hooked>>
  <1>1. ASSUME NEW e \in Executions, Continue(e), ~Tell(e)
        PROVE  UNCHANGED <<heard, pending_approvals, published, hooked>>
    BY <1>1 DEF Continue, ReachGuard, StoreApproval, Store, GuardReturns, Suspend,
       CreateApproval, BeginCreate, watchers, vars
  <1>2. ASSUME NEW e \in Executions, NEW p \in Params, Execute(e, p)
        PROVE  UNCHANGED <<heard, pending_approvals, published, hooked>>
    BY <1>2 DEF Execute, watchers, vars
  <1>3. ASSUME NEW w \in Workers, NEW i \in ApprovalIds, DecideOutside(w, i)
        PROVE  UNCHANGED <<heard, pending_approvals, published, hooked>>
    BY <1>3 DEF DecideOutside, Approve, Reject, Settle, watchers
  <1>4. CASE Monitoring \/ PassTime \/ UNCHANGED systemVars
    BY <1>4 DEF Monitoring, Start, Stop, Joined, MonitorStep, TestRunning, BeginCheck, Sweep, MarkTimeouts,
       SleepInterval, PassTime, Tick, UnchangedWorkflow, watchers, vars, systemVars
  <1> QED
    BY <1>1, <1>2, <1>3, <1>4

(* The hook manager is the one there was from the start. *)
LEMMA SameHook ==
    ASSUME CallInv, [SystemNext]_systemVars
    PROVE  hooked' = hooked
  <1>1. ASSUME NEW e \in Executions, Tell(e)
        PROVE  hooked' = hooked
    BY <1>1, Telling DEF Approve, Reject, Settle, vars
  <1>2. ASSUME NEW w \in Workers, NEW ev \in outbox[w], Announce(w, ev)
        PROVE  hooked' = hooked
    BY <1>2 DEF Announce, EmitResolved
  <1> QED
    BY <1>1, <1>2, NoNews DEF SystemNext, Monitoring

(* What is known of the news stands in a step that brings none. *)
LEMMA NoNewsStep ==
    ASSUME TypeInv, P!TypeInv, CallInv, HeardInv, [SystemNext]_systemVars,
           UNCHANGED <<heard, pending_approvals, published, hooked>>,
           \A e \in Executions : ~Tell(e)
    PROVE  /\ \A i \in ApprovalIds : HeardOf(i)'
           /\ \A e \in Executions : ToldOf(e)'
  <1>1. \A i \in ApprovalIds : Stored(i) => Stored(i)'
    BY ManagerStep, StoredStays
  <1>2. \A i \in ApprovalIds : HeardOf(i)'
    BY <1>1 DEF HeardInv, HeardOf
  <1> USE CallTypes
  <1>3. \A e \in Executions : ToldOf(e)
    BY DEF HeardInv
  <1>4. ASSUME NEW e \in Executions, UNCHANGED <<at, asked, telling>> PROVE ToldOf(e)'
    BY <1>3, <1>4 DEF ToldOf
  <1>5. ASSUME NEW f \in Executions,
               at'[f] = "returned" <=> at[f] = "returned",
               asked'[f] = asked[f], telling'[f] = telling[f]
        PROVE  ToldOf(f)'
    BY <1>3, <1>5 DEF ToldOf
  <1>6. ASSUME NEW e \in Executions,
               ReachGuard(e) \/ GuardReturns(e) \/ \E p \in Params : Execute(e, p)
        PROVE  \A f \in Executions : ToldOf(f)'
    <2>1. /\ UNCHANGED <<asked, telling>> /\ at[e] # "returned"
          /\ \E l \in P!Labels \ {"returned"} : at' = [at EXCEPT ![e] = l]
      <3>1. CASE ReachGuard(e)
        BY <3>1, CallMaps DEF ReachGuard, watchers, P!SchemaLookup, P!GuardLookup, P!Lookup,
           P!Jump, P!Labels, P!Running
      <3>2. CASE GuardReturns(e)
        BY <3>2, GuardMaps DEF GuardReturns, watchers, P!RunGuard, P!Jump, P!Labels, P!Running
      <3>3. CASE \E p \in Params : Execute(e, p)
        BY <3>3 DEF Execute, watchers, Scheduler!Execute, Scheduler!Jump, P!Labels, P!Running
      <3> QED
        BY <1>6, <3>1, <3>2, <3>3
    <2>2. \A f \in Executions : at'[f] = "returned" <=> at[f] = "returned"
      BY <2>1
    <2> QED
      BY <2>1, <2>2, <1>5
  <1>7. ASSUME NEW e \in Executions, NEW i \in ApprovalIds, NEW t \in Timeouts,
               CreateApproval(e, i, t)
        PROVE  \A f \in Executions : ToldOf(f)'
    <2>1. /\ at[e] = "run_guard" /\ ~Stored(i) /\ asked' = [asked EXCEPT ![e] = i]
          /\ UNCHANGED <<at, telling>>
      BY <1>7 DEF CreateApproval, BeginCreate, Fresh, calls
    <2>2. Count(heard[i], "wait") = 0
      BY <2>1, CountEmpty DEF HeardInv, HeardOf
    <2>3. ToldOf(e)'
      BY <2>1, <2>2 DEF ToldOf, CallInv
    <2>4. \A f \in Executions \ {e} : asked'[f] = asked[f]
      BY <2>1 DEF CallInv
    <2> QED
      BY <2>1, <2>3, <2>4, <1>5
  <1>8. ASSUME NEW e \in Executions, Suspend(e)
        PROVE  \A f \in Executions : ToldOf(f)'
    <2>1. /\ at[e] = "guard_stopped" /\ at' = [at EXCEPT ![e] = "returned"]
          /\ asked' = asked /\ telling' = [telling EXCEPT ![e] = subscribed]
      BY <1>8, CallMaps DEF Suspend, P!GuardStopped, P!Jump
    <2>2. Count(subscribed, "auditor") = 1 /\ Count(subscribed, "notifier") = 1
      BY SubscriptionsAssumption DEF SubscriptionsAssumption, CallInv
    <2>3. asked[e] # None => Count(heard[asked[e]], "wait") = 0
      BY <2>1, <1>3 DEF ToldOf
    <2>4. ToldOf(e)'
      BY <2>1, <2>2, <2>3 DEF ToldOf, CallInv
    <2>5. ASSUME NEW f \in Executions, f # e PROVE ToldOf(f)'
      BY <2>1, <2>5, <1>5 DEF CallInv
    <2> QED
      BY <2>4, <2>5
  <1>9. ASSUME NEW e \in Executions, Continue(e) \/ \E p \in Params : Execute(e, p)
        PROVE  \A f \in Executions : ToldOf(f)'
    <2>1. CASE StoreApproval(e)
      BY <2>1, <1>4 DEF StoreApproval, calls, watchers
    <2>2. CASE \E i \in ApprovalIds, t \in Timeouts : CreateApproval(e, i, t)
      BY <2>2, <1>7
    <2>3. CASE ReachGuard(e) \/ GuardReturns(e) \/ \E p \in Params : Execute(e, p)
      BY <2>3, <1>6
    <2>4. CASE Suspend(e)
      BY <2>4, <1>8
    <2> QED
      BY <1>9, <2>1, <2>2, <2>3, <2>4 DEF Continue
  <1>10. CASE UNCHANGED systemVars
    BY <1>2, <1>4, <1>10 DEF systemVars, calls, watchers
  <1> QED
    BY <1>2, <1>4, <1>9, <1>10, Bystanders DEF SystemNext, Monitoring, calls

(* A subscriber is told: the auditor, the notifier, or one who may decide. *)
LEMMA TellNews ==
    ASSUME TypeInv, DraftInv, CallInv, RequestInv, HeardInv, NEW e \in Executions, Tell(e),
           [SystemNext]_systemVars
    PROVE  HeardInv'
  <1> DEFINE i == asked[e]
  <1>1. /\ at[e] = "returned" /\ i \in ApprovalIds /\ Stored(i)
        /\ telling[e] \in Seq(Handlers) /\ telling[e] # <<>>
        /\ telling' = [telling EXCEPT ![e] = Tail(@)] /\ UNCHANGED <<at, asked>>
    <2>1. pc[e] = "idle"
      BY DEF Tell
    <2> QED
      BY <2>1, Telling, Names DEF Tell, calls, RequestInv, RequestOf
  <1>2. UNCHANGED <<published, hooked>>
    BY Telling DEF Approve, Reject, Settle, vars
  <1>3. \A j \in ApprovalIds : Stored(j) => Stored(j)'
    BY ManagerStep, StoredStays
  <1>4. \A j \in ApprovalIds : DueOf(j)'
    BY <1>2, ManagerStep, DueStep DEF HeardInv
  <1> DEFINE told == Head(telling[e])
  <1>5. /\ heard' = IF told = "auditor" THEN [heard EXCEPT ![i] = Append(@, "wait")] ELSE heard
        /\ pending_approvals' =
             IF told = "notifier" THEN pending_approvals \cup {i} ELSE pending_approvals
    BY Telling DEF Tell, Told, Hear, Handlers
  <1>6. heard \in [ApprovalIds -> Seq({"wait", "resolved"})]
    BY DEF HeardInv
  <1>7. /\ Count(heard'[i], "wait") =
             Count(heard[i], "wait") + (IF told = "auditor" THEN 1 ELSE 0)
        /\ Count(heard'[i], "resolved") = Count(heard[i], "resolved")
        /\ Count(heard[i], "wait") \in Nat
    <2>1. heard[i] \in Seq({"wait", "resolved"})
      BY <1>1, <1>6
    <2>2. heard'[i] = IF told = "auditor" THEN Append(heard[i], "wait") ELSE heard[i]
      BY <1>1, <1>5, <1>6
    <2>3. Count(heard[i], "wait") \in Nat
      BY <2>1, PositionsAreFinite
    <2> QED
      BY <2>1, <2>2, <2>3, CountAppend
  <1>8. \A h : Count(telling'[e], h) =
                 Count(telling[e], h) - (IF told = h THEN 1 ELSE 0)
               /\ Count(telling[e], h) \in Nat /\ Count(telling'[e], h) \in Nat
    <2>1. telling'[e] = Tail(telling[e]) /\ Tail(telling[e]) \in Seq(Handlers)
      BY <1>1 DEF CallInv
    <2>2. ASSUME NEW h
          PROVE  Count(telling[e], h) \in Nat /\ Count(telling'[e], h) \in Nat
      BY <1>1, <2>1, PositionsAreFinite
    <2> QED
      BY <1>1, <2>1, <2>2, CountTail
  <1>9. ToldOf(e)'
    <2>1. /\ Count(heard[i], "wait") + Count(telling[e], "auditor") = 1
          /\ i \notin pending_approvals => Count(telling[e], "notifier") # 0
      BY <1>1, Names DEF HeardInv, ToldOf
    <2>2. Count(heard'[i], "wait") + Count(telling'[e], "auditor") = 1
      BY <2>1, <1>7, <1>8
    <2>3. i \notin pending_approvals' => Count(telling'[e], "notifier") # 0
      BY <2>1, <1>5, <1>8
    <2> QED
      BY <1>1, <2>2, <2>3 DEF ToldOf
  <1>10. ASSUME NEW f \in Executions, f # e
         PROVE  ToldOf(f)'
    <2>1. asked[f] # None => asked[f] # i /\ asked[f] \in ApprovalIds
      BY <1>10, Names, <1>1 DEF RequestInv, RequestOf, CallInv
    <2>2. asked[f] # None => heard'[asked[f]] = heard[asked[f]]
      BY <2>1, <1>5, <1>6
    <2>3. telling'[f] = telling[f] /\ pending_approvals \subseteq pending_approvals'
      BY <1>1, <1>5, <1>10 DEF CallInv
    <2>4. ToldOf(f)
      BY DEF HeardInv
    <2> QED
      BY <1>1, <2>2, <2>3, <2>4 DEF ToldOf
  <1>11. ASSUME NEW j \in ApprovalIds
         PROVE  HeardOf(j)'
    <2>1. HeardOf(j)
      BY DEF HeardInv
    <2>2. j # i => heard'[j] = heard[j]
      BY <1>5, <1>6
    <2> QED
      BY <1>1, <1>2, <1>3, <1>7, <2>1, <2>2 DEF HeardOf
  <1>12. heard' \in [ApprovalIds -> Seq({"wait", "resolved"})]
    BY <1>1, <1>5, <1>6
  <1>13. \A j \in pending_approvals' : j \in ApprovalIds /\ Stored(j)'
    BY <1>1, <1>3, <1>5 DEF HeardInv
  <1> QED
    BY <1>4, <1>9, <1>10, <1>11, <1>12, <1>13 DEF HeardInv

(* A resolution is announced: to the auditor too, if there is a hook manager. *)
LEMMA AnnounceNews ==
    ASSUME TypeInv, DraftInv, EventInv, CallInv, HeardInv, NEW w \in Workers,
           NEW ev \in outbox[w], Announce(w, ev), [SystemNext]_systemVars
    PROVE  HeardInv'
  <1> DEFINE i == ev.id
  <1>1. /\ i \in ApprovalIds /\ ev \in Event /\ Stored(i)
        /\ published \in [ApprovalIds -> Seq(Event)]
        /\ heard \in [ApprovalIds -> Seq({"wait", "resolved"})]
    <2>1. ev \in Event
      BY DEF TypeInv, TypeOK
    <2> QED
      BY <2>1 DEF TypeInv, TypeOK, Event, EventInv, OutboxOf, Agrees, HeardInv
  <1>2. /\ published' = IF hooked THEN [published EXCEPT ![i] = Append(@, ev)] ELSE published
        /\ heard' = IF hooked THEN [heard EXCEPT ![i] = Append(@, "resolved")] ELSE heard
        /\ UNCHANGED <<hooked, approvals, at, asked, telling, pending_approvals>>
    BY DEF Announce, EmitResolved, Hear, calls
  <1>3. \A j \in ApprovalIds : DueOf(j)'
    BY <1>2, ManagerStep, DueStep DEF HeardInv
  <1>4. \A j \in ApprovalIds \ {i} : heard'[j] = heard[j] /\ published'[j] = published[j]
    BY <1>1, <1>2
  <1>5. /\ Count(heard'[i], "wait") = Count(heard[i], "wait")
        /\ Count(heard'[i], "resolved") = Len(published'[i])
    <2>1. heard[i] \in Seq({"wait", "resolved"}) /\ published[i] \in Seq(Event)
          /\ Count(heard[i], "resolved") = Len(published[i])
      BY <1>1 DEF HeardInv, HeardOf
    <2>2. CASE hooked
      <3>1. heard'[i] = Append(heard[i], "resolved") /\ published'[i] = Append(published[i], ev)
        BY <1>1, <1>2, <2>2
      <3>2. /\ Count(heard'[i], "wait") = Count(heard[i], "wait")
            /\ Count(heard'[i], "resolved") = Count(heard[i], "resolved") + 1
        BY <2>1, <3>1, CountAppend
      <3>3. Len(published'[i]) = Len(published[i]) + 1
        BY <2>1, <3>1, <1>1
      <3> QED
        BY <2>1, <3>2, <3>3
    <2>3. CASE ~hooked
      BY <1>2, <2>1, <2>3
    <2> QED
      BY <2>2, <2>3
  <1>6. ASSUME NEW j \in ApprovalIds
        PROVE  HeardOf(j)'
    <2>1. HeardOf(j)
      BY DEF HeardInv
    <2>2. CASE j # i
      BY <1>2, <1>4, <2>1, <2>2 DEF HeardOf, Stored
    <2>3. CASE j = i
      BY <1>1, <1>2, <1>5, <2>1, <2>3 DEF HeardOf, Stored
    <2> QED
      BY <2>2, <2>3
  <1>7. ASSUME NEW f \in Executions
        PROVE  ToldOf(f)'
    <2>1. ToldOf(f)
      BY DEF HeardInv
    <2>2. asked[f] # None => Count(heard'[asked[f]], "wait") = Count(heard[asked[f]], "wait")
      BY <1>4, <1>5 DEF CallInv
    <2> QED
      BY <1>2, <2>1, <2>2 DEF ToldOf
  <1>8. heard' \in [ApprovalIds -> Seq({"wait", "resolved"})]
    BY <1>1, <1>2
  <1>9. \A j \in pending_approvals' : j \in ApprovalIds /\ Stored(j)'
    BY <1>2 DEF HeardInv, Stored
  <1> QED
    BY <1>3, <1>6, <1>7, <1>8, <1>9 DEF HeardInv

(* Every step keeps what has been heard in line with what has happened. *)
LEMMA HeardStep ==
    ASSUME BaseInv, HeardInv, [SystemNext]_systemVars
    PROVE  HeardInv'
  <1> USE DEF BaseInv, ManagerInv
  <1>1. CASE \E e \in Executions : Tell(e)
    BY <1>1, TellNews
  <1>2. CASE \E w \in Workers : \E ev \in outbox[w] : Announce(w, ev)
    BY <1>2, AnnounceNews
  <1>3. CASE /\ \A e \in Executions : ~Tell(e)
             /\ ~ \E w \in Workers : \E ev \in outbox[w] : Announce(w, ev)
    <2>1. UNCHANGED <<heard, pending_approvals, published, hooked>>
      BY <1>3, NoNews DEF SystemNext, Monitoring
    <2>2. /\ \A i \in ApprovalIds : HeardOf(i)'
          /\ \A e \in Executions : ToldOf(e)'
      BY <1>3, <2>1, NoNewsStep
    <2>3. \A i \in ApprovalIds : DueOf(i)'
      BY <2>1, ManagerStep, DueStep DEF HeardInv
    <2>4. \A i \in pending_approvals' : i \in ApprovalIds /\ Stored(i)'
      BY <2>1, ManagerStep, StoredStays DEF HeardInv
    <2> QED
      BY <2>1, <2>2, <2>3, <2>4 DEF HeardInv
  <1> QED
    BY <1>1, <1>2, <1>3

-----------------------------------------------------------------------------
(* The system *)

SystemInv == BaseInv /\ HeardInv

(* The system begins in its invariant. *)
LEMMA InitSystem == SystemInit => SystemInv
  <1> SUFFICES ASSUME SystemInit PROVE SystemInv
    OBVIOUS
  <1>1. ManagerInv
    BY InitType, InitDraft, InitRecords, InitEvents DEF SystemInit, ManagerInv
  <1>2. P!TypeInv
    BY InitMaps, SchedulerConstants, P!InitType
  <1>3. MonitorInv
    BY TimerAssumption DEF TimerAssumption, SystemInit, Init, MonitorInv
  <1> QED
    BY <1>1, <1>2, <1>3, InitCalls, InitRequests, InitHeard DEF SystemInv, BaseInv

(* And no step leaves it. *)
LEMMA SystemStep == SystemInv /\ [SystemNext]_systemVars => SystemInv'
  <1> SUFFICES ASSUME SystemInv, [SystemNext]_systemVars PROVE SystemInv'
    OBVIOUS
  <1> USE DEF SystemInv, BaseInv
  <1>1. ManagerInv'
    BY ManagerStep, TypeStep, DraftStep, RecordStep, EventStep DEF ManagerInv
  <1>2. P!TypeInv'
    BY SchedulerStep, SchedulerConstants, P!TypeStep
  <1>3. CallInv' /\ RequestInv' /\ MonitorInv'
    BY CallStep, RequestStep, MonitorKept DEF ManagerInv
  <1> QED
    BY <1>1, <1>2, <1>3, HeardStep

(* Calls, requests, news and the monitor are coherent in every reachable     *)
(* state.                                                                    *)
THEOREM SystemInvariance == SystemSpec => []SystemInv
  BY InitSystem, SystemStep, PTL DEF SystemSpec

(* GuardHumanInLoop, the subscribers of wait_approval, the people and the    *)
(* monitor use the approval manager as its own specification allows: every   *)
(* theorem about ApprovalManager holds under them.                           *)
THEOREM ImplementsApprovalsHolds == SystemSpec => ImplementsApprovals
  <1>1. SystemInit => Init
    BY DEF SystemInit
  <1>2. SystemInv /\ [SystemNext]_systemVars => [Next]_vars
    BY ManagerStep DEF SystemInv, BaseInv
  <1> QED
    BY <1>1, <1>2, SystemInvariance, PTL DEF SystemSpec, ImplementsApprovals

(* A guarded call is a call of CoreScheduler.execute, whatever happens to    *)
(* its request meanwhile.                                                    *)
THEOREM CallsAreScheduled == SystemSpec => P!Init /\ [][P!Next]_P!vars
  <1>1. SystemInv /\ [SystemNext]_systemVars => [P!Next]_P!vars
    BY SchedulerStep DEF SystemInv, BaseInv
  <1> QED
    BY <1>1, InitMaps, SystemInvariance, PTL DEF SystemSpec

(* Whoever learns of an approval finds it stored: the caller in its context, *)
(* a subscriber in wait_approval or approval_resolved.                       *)
THEOREM AnnouncedIsStoredHolds == SystemSpec => []AnnouncedIsStored
  <1>1. SystemInv => AnnouncedIsStored
    <2> SUFFICES ASSUME SystemInv PROVE AnnouncedIsStored
      OBVIOUS
    <2> USE DEF SystemInv, BaseInv
    <2>1. ASSUME NEW e \in Executions, ctx[e].approval_id # None
          PROVE  /\ at[e] = "returned" /\ ctx[e].approval_id = asked[e] /\ asked[e] # None
                 /\ Stored(asked[e])
      BY <2>1 DEF CallInv, CallOf, RequestInv, RequestOf
    <2>2. \A i \in ApprovalIds : i \in pending_approvals \/ heard[i] # <<>> => Stored(i)
      BY DEF HeardInv, HeardOf
    <2>3. \A i \in ApprovalIds : Stored(i) => \E e \in Executions : asked[e] = i
      BY DEF RequestInv
    <2> QED
      BY <2>1, <2>2, <2>3 DEF AnnouncedIsStored
  <1> QED
    BY <1>1, SystemInvariance, PTL

(* However the decision falls, a call that has returned was told of once,    *)
(* and its resolution once as soon as the thread that settled it is through. *)
THEOREM HeardOnceHolds == SystemSpec => []HeardOnce
  <1>1. SystemInv => HeardOnce
    <2> SUFFICES ASSUME SystemInv, NEW e \in Executions, Returned(e)
                 PROVE  LET i == asked[e] IN
                        /\ Count(heard[i], "wait") = 1
                        /\ i \in pending_approvals
                        /\ Count(heard[i], "resolved") =
                             IF hooked /\ ~Pending(i)
                                /\ \A w \in Workers : \A ev \in outbox[w] : ev.id # i
                             THEN 1 ELSE 0
      BY DEF HeardOnce
    <2> USE DEF SystemInv, BaseInv, ManagerInv
    <2> DEFINE i == asked[e]
               out == \E w \in Workers : \E ev \in outbox[w] : ev.id = i
    <2>1. at[e] = "returned" /\ telling[e] = <<>> /\ pc[e] = "idle"
      BY DEF Returned
    <2>2. i \in ApprovalIds /\ Stored(i)
      BY <2>1 DEF CallInv, CallOf, RequestInv, RequestOf
    <2>3. /\ Count(heard[i], "wait") + Count(telling[e], "auditor") = 1
          /\ i \notin pending_approvals => Count(telling[e], "notifier") # 0
      BY <2>1, <2>2, Names DEF HeardInv, ToldOf
    <2>4. Count(heard[i], "wait") = 1 /\ i \in pending_approvals
      <3>1. heard[i] \in Seq({"wait", "resolved"})
        BY <2>2 DEF HeardInv
      <3>2. Count(heard[i], "wait") \in Nat
        BY <3>1, PositionsAreFinite
      <3> QED
        BY <2>1, <2>3, <3>2, CountEmpty
    <2>5. /\ published[i] \in Seq(Event) /\ Len(published[i]) <= 1
          /\ Count(heard[i], "resolved") = Len(published[i])
          /\ published[i] # <<>> => hooked
      BY <2>2 DEF TypeInv, TypeOK, EventInv, PublishedOf, HeardInv, HeardOf
    <2>6. Pending(i) => published[i] = <<>>
      BY <2>2, PendingIsSilent
    <2>7. out => published[i] = <<>>
      BY DEF EventInv, OutboxOf
    <2>8. hooked /\ ~Pending(i) /\ ~out => published[i] # <<>>
      BY <2>2 DEF HeardInv, DueOf
    <2>9. Len(published[i]) = IF hooked /\ ~Pending(i) /\ ~out THEN 1 ELSE 0
      BY <2>5, <2>6, <2>7, <2>8
    <2> QED
      BY <2>4, <2>5, <2>9
  <1> QED
    BY <1>1, SystemInvariance, PTL

(* No request times out but by a sweep of one of the monitor's threads. *)
LEMMA TimersTimeOut ==
    ASSUME SystemInv, [SystemNext]_systemVars, NEW i \in ApprovalIds, TimesOut(i)
    PROVE  \E t \in Timers : MarkTimeouts(t)
  <1> USE TimerAssumption DEF TimerAssumption, SystemInv, BaseInv, ManagerInv
  <1>1. approvals \in [ApprovalIds -> Record \cup {None}]
    BY DEF TypeInv, TypeOK
  <1>2. approvals' # approvals
    BY DEF TimesOut, Pending, Stored
  <1>3. ASSUME NEW w \in Workers, NEW j \in ApprovalIds, Approve(w, j) \/ Reject(w, j)
        PROVE  FALSE
    <2>1. CASE j # i
      BY <1>1, <1>3, <2>1 DEF Approve, Reject, Settle, TimesOut, Pending, Stored
    <2>2. CASE j = i
      BY <1>1, <1>3, <2>2 DEF Approve, Reject, Settle, TimesOut, Pending, Stored, Record
    <2> QED
      BY <2>1, <2>2
  <1>4. ASSUME NEW w \in Workers, Store(w)
        PROVE  FALSE
    <2>1. approvals'[i] = approvals[i]
      BY <1>1, <1>4, NoneIsNoRecord
         DEF Store, TimesOut, Pending, DraftInv, DraftOf, TypeInv, Shape
    <2> QED
      BY <2>1 DEF TimesOut, Pending, Stored
  <1>5. ASSUME NEW e \in Executions, Continue(e)
        PROVE  FALSE
    <2>1. CASE Tell(e)
      BY <2>1, Telling, Names, <1>2, <1>3 DEF vars
    <2>2. CASE StoreApproval(e)
      BY <2>2, Names, <1>4 DEF StoreApproval
    <2>3. CASE ~Tell(e) /\ ~StoreApproval(e)
      BY <1>2, <1>5, <2>3 DEF Continue, ReachGuard, GuardReturns, Suspend, CreateApproval,
         BeginCreate, vars
    <2> QED
      BY <2>1, <2>2, <2>3
  <1>6. ASSUME \/ \E e \in Executions, p \in Params : Execute(e, p)
               \/ \E w \in Workers : \E ev \in outbox[w] : Announce(w, ev)
        PROVE  FALSE
    BY <1>2, <1>6 DEF Execute, Announce, EmitResolved, vars
  <1>7. ASSUME NEW w \in Workers, NEW j \in ApprovalIds, DecideOutside(w, j)
        PROVE  FALSE
    BY <1>3, <1>7 DEF DecideOutside
  <1>8. CASE Monitoring \/ PassTime \/ UNCHANGED systemVars
    BY <1>2, <1>8 DEF Monitoring, Start, Stop, Joined, MonitorStep, TestRunning, BeginCheck,
       Sweep, SleepInterval, PassTime, Tick, vars, systemVars
  <1> QED
    BY <1>5, <1>6, <1>7, <1>8 DEF SystemNext, Monitoring

(* The monitor's stop waits for the sweep of the thread it knows: afterwards *)
(* nothing times out, but by a sweep that a thread displaced by a second     *)
(* start was in.                                                             *)
THEOREM StopIsFinalHolds == SystemSpec => StopIsFinal
  <1> DEFINE Final == monitor.stop = "returned" /\ (\E i \in ApprovalIds : TimesOut(i)) =>
                        \E t \in Displaced : loop[t] = "sweeping" /\ pc[t] = "sweeping"
  <1>1. SystemInv /\ [SystemNext]_systemVars => [Final]_systemVars
    <2> SUFFICES ASSUME SystemInv, [SystemNext]_systemVars, monitor.stop = "returned",
                        NEW i \in ApprovalIds, TimesOut(i)
                 PROVE  \E t \in Displaced : loop[t] = "sweeping" /\ pc[t] = "sweeping"
      OBVIOUS
    <2>1. PICK t \in Timers : MarkTimeouts(t)
      BY TimersTimeOut
    <2>2. pc[t] = "sweeping" /\ MonitorInv
      BY <2>1 DEF MarkTimeouts, SystemInv, BaseInv
    <2>3. loop[t] = "sweeping"
      BY <2>2 DEF MonitorInv
    <2>4. t # monitor.thread
      BY <2>2, <2>3 DEF MonitorInv
    <2> QED
      BY <2>2, <2>3, <2>4 DEF Displaced
  <1> QED
    BY <1>1, SystemInvariance, PTL DEF SystemSpec, StopIsFinal
=============================================================================
