-------------------------- MODULE ApprovalWorkflow --------------------------
(***************************************************************************)
(* An execution that needs a human: GuardHumanInLoop between CoreScheduler *)
(* and ApprovalManager, the subscribers of the two approval events, the    *)
(* people who decide through SlotAgent.approve and reject, and the timeout *)
(* monitor of examples/approval_workflow_example.py.                       *)
(*                                                                         *)
(* A call of execute is a worker of the approval manager as well: the      *)
(* guard creates the approval, and a subscriber told of wait_approval runs *)
(* in the calling thread and may decide there and then.  An event is told  *)
(* to its subscribers one after the other; a nested one first.             *)
(***************************************************************************)
EXTENDS ApprovalManager, FiniteSets

CONSTANTS
    Executions,    \* calls of execute; Executions \subseteq Workers \ Timers
    Tool, Params,  \* the tool behind the guard
    Guard,         \* the GuardHumanInLoop plugin, registered globally
    Subscriptions, \* the orders in which wait_approval may be subscribed to
    Opaque

ASSUME ExecutionsAssumption == Executions \subseteq Workers \ Timers

(* notifier: ApprovalNotificationSystem.notify_approvers, for wait_approval; *)
(* auditor:  a handler subscribed to both events;                            *)
(* decider:  a handler of wait_approval that may approve or reject.          *)
Handlers == {"notifier", "auditor", "decider"}

(* How often x occurs in s. *)
Count(s, x) == Cardinality({k \in DOMAIN s : s[k] = x})

(* The notifier and the auditor subscribe once each, deciders as they like.  *)
ASSUME SubscriptionsAssumption ==
    /\ Subscriptions \subseteq Seq(Handlers)
    /\ \A s \in Subscriptions : Count(s, "notifier") = 1 /\ Count(s, "auditor") = 1

VARIABLES
    at, ctx, frame, event, log,   \* the calls: pc, ctx, frame, event, log of CoreScheduler
    asked,          \* approval_id in GuardHumanInLoop.execute: the request of each call
    subscribed,     \* the subscribers of wait_approval, in order
    telling,        \* those still to be told by a call that emits wait_approval
    pending_approvals,  \* the notifier's dict: approvals it was told of, never removed
    heard,          \* history: what the auditor heard of each approval
    monitor,        \* TimeoutMonitor: running, thread, and who started it in stop
    loop            \* where each thread of the monitor is in _monitor_loop

calls == <<at, ctx, frame, event, log>>
watchers == <<asked, subscribed, telling, pending_approvals, heard>>
monitoring == <<monitor, loop>>
systemVars == <<vars, calls, watchers, monitoring>>

Chain == [l \in {"schema", "guard", "healing", "reflect", "observe"} |->
            IF l = "guard" THEN Guard ELSE None]

(* GuardHumanInLoop.execute: the call stops, and data names the approval.    *)
AwaitApproval(i) ==
    [success |-> TRUE, should_continue |-> FALSE, error |-> None,
     data |-> [pending_approval |-> TRUE, approval_id |-> i,
               recovered |-> FALSE, fixed_params |-> None]]

Scheduler == INSTANCE CoreScheduler WITH
    Tools <- {Tool},
    Plugins <- {Guard},
    Chains <- {Chain},
    PluginResults <- [p \in {Guard} |-> {AwaitApproval(i) : i \in ApprovalIds}],
    Raising <- {},
    MaxRetries <- [p \in {Guard} |-> 1],
    registered <- {Tool},
    chain <- [t \in {Tool} |-> Chain],
    pc <- at

ASSUME SchedulerAssumption == Scheduler!NoneAssumption

SystemInit ==
    /\ Init
    /\ at = [e \in Executions |-> "idle"]
    /\ ctx = [e \in Executions |-> Scheduler!NewContext(None, None, "NEW")]
    /\ frame = [e \in Executions |-> Scheduler!NewFrame]
    /\ event = [e \in Executions |-> "none"]
    /\ log = [e \in Executions |-> Scheduler!NewLog(None)]
    /\ asked = [e \in Executions |-> None]
    /\ subscribed \in Subscriptions
    /\ telling = [e \in Executions |-> <<>>]
    /\ pending_approvals = {}
    /\ heard = [i \in ApprovalIds |-> <<>>]
    /\ monitor = [running |-> FALSE, thread |-> None, stop |-> "uncalled"]
    /\ loop = [t \in Timers |-> "new"]

-----------------------------------------------------------------------------
(* A call up to its guard, and the guard: create_approval in the calling     *)
(* thread, and only then the result with the approval's id.                  *)

Execute(e, p) ==
    /\ Scheduler!Execute(e, Tool, p)
    /\ UNCHANGED <<vars, watchers, monitoring>>

ReachGuard(e) ==
    /\ Scheduler!SchemaLookup(e) \/ Scheduler!GuardLookup(e)
    /\ UNCHANGED <<vars, watchers, monitoring>>

CreateApproval(e, i, t) ==
    /\ at[e] = "run_guard" /\ asked[e] = None
    /\ BeginCreate(e, i, t)
    /\ asked' = [asked EXCEPT ![e] = i]
    /\ UNCHANGED <<calls, subscribed, telling, pending_approvals, heard, monitoring>>

StoreApproval(e) ==
    /\ Store(e)
    /\ UNCHANGED <<calls, watchers, monitoring>>

GuardReturnsEarly(e) ==           \* mutant: the id is returned before the record is stored
    /\ asked[e] # None
    /\ Scheduler!RunGuard(e, AwaitApproval(asked[e]))
    /\ UNCHANGED <<vars, watchers, monitoring>>
GuardReturns(e) ==
    /\ asked[e] # None /\ pc[e] = "idle"
    /\ Scheduler!RunGuard(e, AwaitApproval(asked[e]))
    /\ UNCHANGED <<vars, watchers, monitoring>>

(* The scheduler emits wait_approval to those subscribed at that moment. *)
Suspend(e) ==
    /\ Scheduler!GuardStopped(e)
    /\ telling' = [telling EXCEPT ![e] = subscribed]
    /\ UNCHANGED <<vars, asked, subscribed, pending_approvals, heard, monitoring>>

-----------------------------------------------------------------------------
(* Subscribers *)

Hear(i, what) == heard' = [heard EXCEPT ![i] = Append(@, what)]

(* A decider may leave the request open; approve and reject of one that is   *)
(* settled raise ValueError, which the hook manager swallows.                *)
Decide(w, i) == Approve(w, i) \/ Reject(w, i) \/ UNCHANGED vars

Told(e, handler, i) ==
    CASE handler = "notifier" -> /\ pending_approvals' = pending_approvals \cup {i}
                                 /\ UNCHANGED <<heard, vars>>
      [] handler = "auditor"  -> Hear(i, "wait") /\ UNCHANGED <<pending_approvals, vars>>
      [] handler = "decider"  -> Decide(e, i) /\ UNCHANGED <<pending_approvals, heard>>

TellUntilError(e) ==              \* mutant: a handler that raises ends the dispatch
    /\ telling[e] # <<>> /\ pc[e] = "idle"
    /\ Told(e, Head(telling[e]), asked[e])
    /\ telling' = [telling EXCEPT ![e] =
                     IF Head(@) = "decider" /\ ~Pending(asked[e]) THEN <<>> ELSE Tail(@)]
    /\ UNCHANGED <<calls, asked, subscribed, monitoring>>
(* The next subscriber is told once the one before it has come back. *)
Tell(e) ==
    /\ telling[e] # <<>> /\ pc[e] = "idle"
    /\ Told(e, Head(telling[e]), asked[e])
    /\ telling' = [telling EXCEPT ![e] = Tail(@)]
    /\ UNCHANGED <<calls, asked, subscribed, monitoring>>

(* The manager emits approval_resolved in the thread that settled it. *)
Announce(w, ev) ==
    /\ EmitResolved(w, ev)
    /\ IF hooked THEN Hear(ev.id, "resolved") ELSE UNCHANGED heard
    /\ UNCHANGED <<calls, asked, subscribed, telling, pending_approvals, monitoring>>

(* A person outside the system decides on a request list_pending shows. *)
DecideOutside(w, i) ==
    /\ w \notin Executions \cup Timers
    /\ Approve(w, i) \/ Reject(w, i)
    /\ UNCHANGED <<calls, watchers, monitoring>>

-----------------------------------------------------------------------------
(* TimeoutMonitor.  One thread starts and stops it, in any order and as      *)
(* often as there are threads to start (a bound).  start keeps only the      *)
(* thread it made last, whatever became of the one before.                   *)

UnchangedWorkflow == UNCHANGED <<calls, watchers>>

Goto(t, label) == loop' = [loop EXCEPT ![t] = label]

Start(t) ==
    /\ monitor.stop # "joining" /\ loop[t] = "new"
    /\ monitor' = [running |-> TRUE, thread |-> t, stop |-> "uncalled"]
    /\ Goto(t, "testing")
    /\ UNCHANGED vars /\ UnchangedWorkflow

TestForever(t) ==                 \* mutant: `running` is not tested
    /\ loop[t] = "testing"
    /\ Goto(t, "sweeping") /\ BeginCheck(t)
    /\ UNCHANGED monitor /\ UnchangedWorkflow
(* while self.running: check_timeouts *)
TestRunning(t) ==
    /\ loop[t] = "testing"
    /\ \/ monitor.running /\ Goto(t, "sweeping") /\ BeginCheck(t)
       \/ ~monitor.running /\ Goto(t, "ended") /\ UNCHANGED vars
    /\ UNCHANGED monitor /\ UnchangedWorkflow

Sweep(t) ==
    /\ MarkTimeouts(t)
    /\ UNCHANGED monitoring /\ UnchangedWorkflow

SweepOnce(t) ==                   \* mutant: a thread ends with its first sweep
    /\ loop[t] = "sweeping" /\ pc[t] = "idle"
    /\ Goto(t, "ended")
    /\ UNCHANGED <<vars, monitor>> /\ UnchangedWorkflow
(* The records of the expired ids are looked up and printed; then it sleeps. *)
SleepInterval(t) ==
    /\ loop[t] = "sweeping" /\ pc[t] = "idle"
    /\ Goto(t, "testing")
    /\ UNCHANGED <<vars, monitor>> /\ UnchangedWorkflow

(* stop clears the flag and joins the thread, if there ever was one. *)
Stop ==
    /\ monitor.stop # "joining"
    /\ monitor' = [monitor EXCEPT !.running = FALSE,
                                  !.stop = IF monitor.thread = None THEN "returned" ELSE "joining"]
    /\ UNCHANGED <<vars, loop>> /\ UnchangedWorkflow

StopKills ==                      \* mutant: stop ends the thread in the middle of a sweep
    /\ monitor.stop = "joining"
    /\ monitor' = [monitor EXCEPT !.stop = "returned"]
    /\ Goto(monitor.thread, "ended")
    /\ pc' = [pc EXCEPT ![monitor.thread] = "idle"]
    /\ outbox' = [outbox EXCEPT ![monitor.thread] = {}]
    /\ UNCHANGED <<now, approvals, hooked, draft, checked_at, published>>
    /\ UnchangedWorkflow
StopWithoutJoin ==                \* mutant: stop returns at once
    /\ monitor.stop = "joining"
    /\ monitor' = [monitor EXCEPT !.stop = "returned"]
    /\ UNCHANGED <<vars, loop>> /\ UnchangedWorkflow
Joined ==
    /\ monitor.stop = "joining" /\ loop[monitor.thread] = "ended"
    /\ monitor' = [monitor EXCEPT !.stop = "returned"]
    /\ UNCHANGED <<vars, loop>> /\ UnchangedWorkflow

PassTime == Tick /\ UNCHANGED monitoring /\ UnchangedWorkflow

-----------------------------------------------------------------------------

(* What the thread of a call does next. *)
Continue(e) ==
    \/ ReachGuard(e) \/ StoreApproval(e) \/ GuardReturns(e) \/ Suspend(e) \/ Tell(e)
    \/ \E i \in ApprovalIds, t \in Timeouts : CreateApproval(e, i, t)

MonitorStep(t) == TestRunning(t) \/ Sweep(t) \/ SleepInterval(t)

SystemNext ==
    \/ \E e \in Executions : Continue(e) \/ \E p \in Params : Execute(e, p)
    \/ \E w \in Workers, i \in ApprovalIds : DecideOutside(w, i)
    \/ \E w \in Workers : \E ev \in outbox[w] : Announce(w, ev)
    \/ \E t \in Timers : Start(t) \/ MonitorStep(t)
    \/ Stop \/ Joined \/ PassTime

(* Threads inside a method go on, the monitor's too; time passes.  Nobody    *)
(* has to decide, to start the monitor or to stop it.                        *)
SystemFairness ==
    /\ \A e \in Executions : WF_systemVars(Continue(e))
    /\ \A w \in Workers : WF_systemVars(\E ev \in outbox[w] : Announce(w, ev))
    /\ \A t \in Timers : WF_systemVars(MonitorStep(t))
    /\ WF_systemVars(Joined) /\ WF_systemVars(PassTime)

SystemSpec == SystemInit /\ [][SystemNext]_systemVars /\ SystemFairness

-----------------------------------------------------------------------------
(* Properties *)

(* execute returned, its subscribers included. *)
Returned(e) == at[e] = "returned" /\ telling[e] = <<>> /\ pc[e] = "idle"

(* Whoever learns of an approval - the caller from its context, a subscriber *)
(* from wait_approval or approval_resolved - can decide on it: it is stored  *)
(* by then, and a call is there that asked for it.                           *)
AnnouncedIsStored ==
    /\ \A e \in Executions : ctx[e].approval_id # None =>
          Stored(ctx[e].approval_id) /\ ctx[e].approval_id = asked[e]
    /\ \A i \in ApprovalIds : i \in pending_approvals \/ heard[i] # <<>> =>
          Stored(i) /\ \E e \in Executions : asked[e] = i

(* However the decision falls - by a person, by the monitor, or by a handler *)
(* in the middle of the dispatch - when a call has returned the auditor has  *)
(* heard of its request exactly once, and of its resolution once as soon as  *)
(* the thread that settled it is through (the order of the two is open).     *)
HeardOnce ==
    \A e \in Executions : Returned(e) =>
        LET i == asked[e] IN
        /\ Count(heard[i], "wait") = 1
        /\ i \in pending_approvals
        /\ Count(heard[i], "resolved") =
             IF hooked /\ ~Pending(i) /\ \A w \in Workers : \A ev \in outbox[w] : ev.id # i
             THEN 1 ELSE 0

(* An approval is marked as timed out. *)
TimesOut(i) == Pending(i) /\ ~Pending(i)' /\ approvals'[i].status = "TIMEOUT"

(* Threads that a later start took out of reach of stop. *)
Displaced == {t \in Timers \ {monitor.thread} : loop[t] \in {"testing", "sweeping"}}

(* Once stop has returned, a request times out only if start had been called *)
(* over a running monitor, by the thread that call displaced and in a sweep  *)
(* it was in already: otherwise by nobody, although stop may have found its  *)
(* thread in the middle of a sweep.                                          *)
StopIsFinal ==
    [][monitor.stop = "returned" /\ (\E i \in ApprovalIds : TimesOut(i)) =>
         \E t \in Displaced : loop[t] = "sweeping" /\ pc[t] = "sweeping"]_systemVars

(* stop returns: the thread it joins notices the flag. *)
StopReturns == monitor.stop = "joining" ~> monitor.stop = "returned"

(* Under a running monitor no request stays pending, in whichever state the  *)
(* execution that made it is, and a subscriber to approval_resolved hears    *)
(* how it ended.                                                             *)
SettledUnlessStopped ==
    \A i \in ApprovalIds : Pending(i) /\ monitor.running ~>
        \/ ~monitor.running
        \/ ~Pending(i) /\ (hooked => Count(heard[i], "resolved") = 1)

(* The approval manager under these callers is the one whose safety the      *)
(* theorems about ApprovalManager are about.                                 *)
ImplementsApprovals == Init /\ [][Next]_vars
=============================================================================
