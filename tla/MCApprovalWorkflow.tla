------------------------- MODULE MCApprovalWorkflow -------------------------
(* A small instance of ApprovalWorkflow for TLC: one call of a guarded tool, *)
(* one person who decides, handlers that decide before or after the others   *)
(* are told, and a monitor that is started up to twice.                      *)
EXTENDS ApprovalWorkflow

CONSTANTS e1, admin, a1, tool, params

MCExecutions == {e1}
MCWorkers == MCExecutions \cup {admin} \cup Timers
MCApprovalIds == {a1}
MCParams == {params}
MCSubscriptions == {<<"decider", "auditor", "notifier">>,
                    <<"auditor", "decider", "notifier", "decider">>}
=============================================================================
