--------------------------- MODULE ToolLifecycle ---------------------------
(***************************************************************************)
(* What an observer of the hook events may rely on: the order in which the *)
(* events of one call follow each other, and which event each final status *)
(* leaves behind it.  Plugins, the pool, retries and the tool are hidden;  *)
(* CoreScheduler implements this specification.                            *)
(***************************************************************************)
EXTENDS Naturals

CONSTANT Executions

VARIABLES
    status,   \* ExecutionStatus of each call, "NEW" before it begins
    event,    \* the last event of each call
    broken    \* whether an exception left the chain of the call

lifecycle == <<status, event, broken>>

Final == {"COMPLETED", "FAILED", "PENDING_APPROVAL"}

(* The events that may come next. *)
Follows == [
    none              |-> {"before_schema", "before_guard", "before_exec"},
    before_schema     |-> {"after_schema"},
    after_schema      |-> {"schema_fail", "before_guard", "before_exec"},
    schema_fail       |-> {},
    before_guard      |-> {"wait_approval", "guard_block", "before_exec"},
    wait_approval     |-> {},
    guard_block       |-> {},
    before_exec       |-> {"after_exec", "exec_fail"},
    exec_fail         |-> {"healing_recovered", "healing_failed"},
    healing_recovered |-> {"retry_started"},
    healing_failed    |-> {},
    retry_started     |-> {"after_exec", "exec_fail"},
    after_exec        |-> {"after_reflect"},
    after_reflect     |-> {}]

(* The event a call that ends in each status leaves last. *)
LastEvent == [
    COMPLETED        |-> {"after_exec", "after_reflect"},
    PENDING_APPROVAL |-> {"wait_approval"},
    FAILED           |-> {"schema_fail", "guard_block", "exec_fail", "healing_failed"}]

(* The events after which an exception may leave the chain: the call fails   *)
(* and nobody is told.                                                       *)
Breakable == {"none", "before_schema", "after_schema", "before_guard", "before_exec",
              "exec_fail", "after_exec", "after_reflect"}

Init ==
    /\ status = [e \in Executions |-> "NEW"]
    /\ event = [e \in Executions |-> "none"]
    /\ broken = [e \in Executions |-> FALSE]

Begin(e) ==
    /\ status[e] = "NEW"
    /\ status' = [status EXCEPT ![e] = "RUNNING"]
    /\ UNCHANGED <<event, broken>>

Notify(e) ==
    /\ status[e] = "RUNNING"
    /\ \E next \in Follows[event[e]] : event' = [event EXCEPT ![e] = next]
    /\ UNCHANGED <<status, broken>>

Close(e) ==
    /\ status[e] = "RUNNING"
    /\ \E s \in Final, last \in Follows[event[e]] \cup {event[e]} :
          /\ last \in LastEvent[s]
          /\ status' = [status EXCEPT ![e] = s]
          /\ event' = [event EXCEPT ![e] = last]
    /\ UNCHANGED broken

Break(e) ==
    /\ status[e] = "RUNNING" /\ event[e] \in Breakable
    /\ status' = [status EXCEPT ![e] = "FAILED"]
    /\ broken' = [broken EXCEPT ![e] = TRUE]
    /\ UNCHANGED event

Proceed(e) == Notify(e) \/ Close(e) \/ Break(e)

Next == \E e \in Executions : Begin(e) \/ Proceed(e)

Spec == /\ Init /\ [][Next]_lifecycle
        /\ \A e \in Executions : WF_lifecycle(Proceed(e))

=============================================================================
