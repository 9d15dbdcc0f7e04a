---------------------------- MODULE CustomPlugins ----------------------------
(***************************************************************************)
(* RateLimitGuard in front of a tool and MetricsCollector behind it, both  *)
(* of examples/custom_plugin_example.py, in threads that call one tool.    *)
(*                                                                         *)
(* MetricsCollector counts with += on dictionary entries and no lock: each *)
(* count is read and written in two steps.  tool_counts of the one tool    *)
(* goes with total_executions.                                             *)
(***************************************************************************)
EXTENDS RateLimitGuard

CONSTANT MaxTime   \* bound: the clock stops here

VARIABLES
    at,        \* where a call that the guard let through is
    metrics,   \* total_executions and successful_executions
    read,      \* the value a += has read
    crowded    \* history: have two calls ever been inside the collector at once

counting == <<at, metrics, read, crowded>>
systemVars == <<vars, counting>>

Counters == {"total_executions", "successful_executions"}

SystemInit ==
    /\ Init
    /\ at = [c \in Calls |-> "tool"]
    /\ metrics = [k \in Counters |-> 0]
    /\ read = [c \in Calls |-> 0]
    /\ crowded = FALSE

InCollector(c) == at[c] \notin {"tool", "raised", "counted"}

Move(c, from, to) == at[c] = from /\ at' = [at EXCEPT ![c] = to]

ToolRaises(c) ==
    /\ pc[c] = "admitted"
    /\ Move(c, "tool", "raised")
    /\ UNCHANGED <<vars, metrics, read, crowded>>

(* Only a call whose tool returned reaches the observe layer.  It counts as  *)
(* successful if there are previous_results, and the guard has left one.     *)
EnterCollector(c) ==
    /\ pc[c] = "admitted"
    /\ Move(c, "tool", "load_total")
    /\ crowded' = (crowded \/ \E d \in Calls : InCollector(d))
    /\ UNCHANGED <<vars, metrics, read>>

Load(c, from, to, counter) ==
    /\ Move(c, from, to)
    /\ read' = [read EXCEPT ![c] = metrics[counter]]
    /\ UNCHANGED <<vars, metrics, crowded>>

StoreFirst(c, from, to, counter) ==   \* mutant: the count is stored, not added to
    /\ Move(c, from, to)
    /\ metrics' = [metrics EXCEPT ![counter] = 1]
    /\ UNCHANGED <<vars, read, crowded>>
StoreTwice(c, from, to, counter) ==   \* mutant: the entry is read again for the sum
    /\ Move(c, from, to)
    /\ metrics' = [metrics EXCEPT ![counter] = metrics[counter] + read[c] + 1]
    /\ UNCHANGED <<vars, read, crowded>>
Store(c, from, to, counter) ==
    /\ Move(c, from, to)
    /\ metrics' = [metrics EXCEPT ![counter] = read[c] + 1]
    /\ UNCHANGED <<vars, read, crowded>>

LoadTotal(c) == Load(c, "load_total", "store_total", "total_executions")
StoreTotal(c) == Store(c, "store_total", "load_success", "total_executions")
LoadSuccess(c) == Load(c, "load_success", "store_success", "successful_executions")
StoreSuccess(c) == Store(c, "store_success", "counted", "successful_executions")

Bounded == now' \in 0 .. MaxTime

SystemNext ==
    \/ Bounded /\ PassTime /\ UNCHANGED counting
    \/ \E c \in Calls : Step(c) /\ UNCHANGED counting
    \/ \E c \in Calls : \/ ToolRaises(c) \/ EnterCollector(c)
                        \/ LoadTotal(c) \/ StoreTotal(c) \/ LoadSuccess(c) \/ StoreSuccess(c)

SystemSpec == SystemInit /\ [][SystemNext]_systemVars

-----------------------------------------------------------------------------
(* Properties *)

SystemTypeOK ==
    /\ TypeOK
    /\ at \in [Calls -> {"tool", "raised", "load_total", "store_total", "load_success",
                         "store_success", "counted"}]
    /\ metrics \in [Counters -> Nat]
    /\ read \in [Calls -> Nat]
    /\ crowded \in BOOLEAN

Added == [total_executions |-> {c \in Calls : at[c] \in {"load_success", "store_success", "counted"}},
          successful_executions |-> {c \in Calls : at[c] = "counted"}]

(* Between two calls of the collector its metrics are exact as long as no    *)
(* two calls were ever in it at once: both counters give the calls whose     *)
(* tool returned, and calls that were refused or raised are in neither.      *)
MetricsExact ==
    ~crowded => \A k \in Counters : metrics[k] = Cardinality(Added[k])

(* Whatever races, a counter loses executions but never invents one, and it  *)
(* has not lost all of them.                                                 *)
NeverOvercounted ==
    \A k \in Counters : /\ metrics[k] <= Cardinality(Added[k])
                        /\ Added[k] # {} => metrics[k] >= 1
=============================================================================
