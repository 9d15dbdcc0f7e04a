--------------------------- MODULE RateLimitGuard ---------------------------
(***************************************************************************)
(* RateLimitGuard of examples/custom_plugin_example.py: a guard plugin     *)
(* that lets max_calls calls of a tool through per window_seconds.         *)
(*                                                                         *)
(* The plugin keeps one list of time stamps per tool and no lock; tools do *)
(* not share lists, so one is enough.  execute is cut where another thread *)
(* can come between: at the clock, and at each access to the list.  A call *)
(* appends at most one stamp, its own: the list is the set of the calls    *)
(* whose stamps are in it.                                                 *)
(***************************************************************************)
EXTENDS Integers, FiniteSets

CONSTANTS
    Calls,       \* calls of execute
    MaxCalls,    \* max_calls
    Window       \* window_seconds

ASSUME CallsAssumption == IsFiniteSet(Calls)

(* What validate demands of the configuration. *)
ASSUME ConfigAssumption == MaxCalls \in Nat \ {0} /\ Window \in Nat \ {0}

VARIABLES
    now,            \* time.time()
    call_history,   \* the list of the tool
    pc,             \* where each call is
    current_time,   \* its reading of the clock
    kept,           \* the list its comprehension built
    overlapped      \* history: have two calls ever been inside execute at once

vars == <<now, call_history, pc, current_time, kept, overlapped>>

Inside == {"cleaning", "storing", "checking", "recording"}
Labels == Inside \cup {"idle", "admitted", "refused"}

Init ==
    /\ now = 0
    /\ call_history = {}
    /\ pc = [c \in Calls |-> "idle"]
    /\ current_time = [c \in Calls |-> 0]
    /\ kept = [c \in Calls |-> {}]
    /\ overlapped = FALSE

-----------------------------------------------------------------------------

Jump(c, from, to) == pc[c] = from /\ pc' = [pc EXCEPT ![c] = to]

Busy(c) == pc[c] \in Inside

Admitted == {c \in Calls : pc[c] = "admitted"}

ReadCutoff(c) ==                  \* mutant: the start of the window is kept in its place
    /\ Jump(c, "idle", "cleaning")
    /\ current_time' = [current_time EXCEPT ![c] = now - Window]
    /\ overlapped' = (overlapped \/ \E d \in Calls : Busy(d))
    /\ UNCHANGED <<now, call_history, kept>>
ReadClock(c) ==
    /\ Jump(c, "idle", "cleaning")
    /\ current_time' = [current_time EXCEPT ![c] = now]
    /\ overlapped' = (overlapped \/ \E d \in Calls : Busy(d))
    /\ UNCHANGED <<now, call_history, kept>>

FreshUpTo(c, t) == current_time[c] - t <= Window   \* mutant: <= for <
Fresh(c, t) == current_time[c] - t < Window

(* The comprehension reads the list into a new one ... *)
Clean(c) ==
    /\ Jump(c, "cleaning", "storing")
    /\ kept' = [kept EXCEPT ![c] = {d \in call_history : Fresh(c, current_time[d])}]
    /\ UNCHANGED <<now, call_history, current_time, overlapped>>

(* ... and the assignment puts that in its place, with whatever was appended *)
(* to the old one in between gone.                                           *)
Assign(c) ==
    /\ Jump(c, "storing", "checking")
    /\ call_history' = kept[c]
    /\ UNCHANGED <<now, current_time, kept, overlapped>>

CheckOneMore(c) ==                \* mutant: > for >=
    /\ Jump(c, "checking",
            IF Cardinality(call_history) > MaxCalls THEN "refused" ELSE "recording")
    /\ UNCHANGED <<now, call_history, current_time, kept, overlapped>>
Check(c) ==
    /\ Jump(c, "checking",
            IF Cardinality(call_history) >= MaxCalls THEN "refused" ELSE "recording")
    /\ UNCHANGED <<now, call_history, current_time, kept, overlapped>>

Record(c) ==
    /\ Jump(c, "recording", "admitted")
    /\ call_history' = call_history \cup {c}
    /\ UNCHANGED <<now, current_time, kept, overlapped>>

(* Wall-clock time, taken not to go back. *)
PassTime ==
    /\ now' \in Nat /\ now' > now
    /\ UNCHANGED <<call_history, pc, current_time, kept, overlapped>>

Step(c) == ReadClock(c) \/ Clean(c) \/ Assign(c) \/ Check(c) \/ Record(c)

Next == PassTime \/ \E c \in Calls : Step(c)

Spec == Init /\ [][Next]_vars

-----------------------------------------------------------------------------
(* Properties *)

TypeOK ==
    /\ now \in Nat
    /\ call_history \subseteq Calls
    /\ pc \in [Calls -> Labels]
    /\ current_time \in [Calls -> Nat]
    /\ kept \in [Calls -> SUBSET Calls]
    /\ overlapped \in BOOLEAN

(* The calls let through in the window that ends with call c. *)
WindowOf(c) ==
    {d \in Admitted : /\ current_time[d] <= current_time[c]
                      /\ current_time[c] - current_time[d] < Window}

(* The limit: as long as no two calls were ever inside the guard at once, no *)
(* window holds more than max_calls calls that were let through - the window *)
(* slides with every call, it does not start anew.                           *)
WindowBound ==
    ~overlapped => \A c \in Admitted : Cardinality(WindowOf(c)) <= MaxCalls

(* And no call is refused that the limit allows: its window held max_calls   *)
(* calls already.                                                            *)
RefusedOnlyWhenFull ==
    ~overlapped => \A c \in Calls : pc[c] = "refused" =>
                       Cardinality(WindowOf(c)) >= MaxCalls
=============================================================================
