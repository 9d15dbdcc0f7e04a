---------------------------- MODULE HookManager ----------------------------
(***************************************************************************)
(* slotagent.core.hook_manager: threads subscribe, unsubscribe and emit.   *)
(*                                                                         *)
(* The methods that change the subscribers are one critical section each.  *)
(* emit copies the handlers of its event type under the lock and calls     *)
(* them one after the other after it released it, so other threads, and    *)
(* the handlers themselves, may use the manager in the meantime: a handler *)
(* that emits adds an emission to the stack of its thread.  Calls with an  *)
(* unknown event type raise ValueError and change nothing.                 *)
(***************************************************************************)
EXTENDS Naturals, SequencesExt

CONSTANTS
    Threads,       \* threads that use the manager
    EventTypes,    \* VALID_EVENT_TYPES
    Handlers,      \* callables
    Raising,       \* those that may raise
    MaxEmits,      \* bound: emissions in all
    MaxHandlers    \* bound: handlers subscribed to one event type

ASSUME HandlersAssumption == Raising \subseteq Handlers
ASSUME BoundsAssumption == MaxEmits \in Nat /\ MaxHandlers \in Nat

VARIABLES
    subscribers,   \* _subscribers: the handlers of each event type, in order
    stack,         \* the emissions each thread is in, the innermost last
    due,           \* history: the handlers subscribed when each emission began
    heard          \* history: the handlers each emission has called

vars == <<subscribers, stack, due, heard>>
history == <<due, heard>>

(* One run of emit: its copy of the handlers, how many of them have          *)
(* returned, and whether the next one is running.                            *)
Emission == [id: 1 .. MaxEmits, event_type: EventTypes, copy: Seq(Handlers),
             returned: Nat, running: BOOLEAN]

Init ==
    /\ subscribers = [t \in EventTypes |-> <<>>]
    /\ stack = [w \in Threads |-> <<>>]
    /\ due = <<>> /\ heard = <<>>

-----------------------------------------------------------------------------
(* Helpers *)

Current(w) == Last(stack[w])

(* A thread in an emission is in a handler or between two of them; it uses   *)
(* the manager from a handler, or from code that no emission runs.           *)
InHandler(w) == stack[w] # <<>> /\ Current(w).running
Dispatching(w) == stack[w] # <<>> /\ ~Current(w).running
Outside(w) == ~Dispatching(w)

Copied(t) == subscribers[t]

LiveList(em) == subscribers[em.event_type]   \* mutant: emit walks the list itself
Dispatched(em) == em.copy

Update(w, em) == stack' = [stack EXCEPT ![w] = Append(Front(@), em)]

-----------------------------------------------------------------------------
(* subscribe, unsubscribe, clear_subscribers *)

Subscribe(w, t, h) ==
    /\ Outside(w)
    /\ Len(subscribers[t]) < MaxHandlers   \* bound
    /\ subscribers' = [subscribers EXCEPT ![t] = Append(@, h)]
    /\ UNCHANGED <<stack, history>>

(* The first of its subscriptions goes, later ones stay. *)
Unsubscribe(w, t, h) ==
    /\ Outside(w)
    /\ subscribers' = [subscribers EXCEPT ![t] = RemoveFirst(@, h)]
    /\ UNCHANGED <<stack, history>>

ClearSubscribers(w, types) ==
    /\ Outside(w)
    /\ subscribers' = [t \in EventTypes |-> IF t \in types THEN <<>> ELSE subscribers[t]]
    /\ UNCHANGED <<stack, history>>

(* emit: the copy, then one handler after the other. *)

BeginEmit(w, t) ==
    /\ Outside(w)
    /\ Len(due) < MaxEmits                 \* bound
    /\ stack' = [stack EXCEPT ![w] = Append(@,
           [id |-> Len(due) + 1, event_type |-> t, copy |-> Copied(t),
            returned |-> 0, running |-> FALSE])]
    /\ due' = Append(due, subscribers[t])
    /\ heard' = Append(heard, <<>>)
    /\ UNCHANGED subscribers

CallHandler(w) ==
    /\ Dispatching(w)
    /\ LET em == Current(w) IN
       /\ em.returned < Len(Dispatched(em))
       /\ Update(w, [em EXCEPT !.running = TRUE])
       /\ heard' = [heard EXCEPT ![em.id] = Append(@, Dispatched(em)[em.returned + 1])]
    /\ UNCHANGED <<subscribers, due>>

(* The handler returns, or raises and the exception is logged. *)
HandlerReturns(w) ==
    /\ InHandler(w)
    /\ Update(w, [Current(w) EXCEPT !.returned = @ + 1, !.running = FALSE])
    /\ UNCHANGED <<subscribers, history>>

RaiseEscapes(w) ==                \* mutant: the exception ends the emission
    /\ InHandler(w)
    /\ Last(heard[Current(w).id]) \in Raising
    /\ stack' = [stack EXCEPT ![w] = Front(@)]
    /\ UNCHANGED <<subscribers, history>>

HandlerRaises(w) ==
    /\ InHandler(w)
    /\ Last(heard[Current(w).id]) \in Raising
    /\ Update(w, [Current(w) EXCEPT !.returned = @ + 1, !.running = FALSE])
    /\ UNCHANGED <<subscribers, history>>

EndEmit(w) ==
    /\ Dispatching(w)
    /\ Current(w).returned >= Len(Dispatched(Current(w)))
    /\ stack' = [stack EXCEPT ![w] = Front(@)]
    /\ UNCHANGED <<subscribers, history>>

(* What emit and the handlers it calls do next. *)
Dispatch(w) == CallHandler(w) \/ HandlerReturns(w) \/ HandlerRaises(w) \/ EndEmit(w)

Use(w) ==
    \/ \E t \in EventTypes, h \in Handlers : Subscribe(w, t, h) \/ Unsubscribe(w, t, h)
    \/ \E t \in EventTypes : ClearSubscribers(w, {t}) \/ BeginEmit(w, t)
    \/ ClearSubscribers(w, EventTypes)

Next == \E w \in Threads : Use(w) \/ Dispatch(w)

(* Handlers are assumed to end: emit calls them synchronously. *)
Fairness == \A w \in Threads : WF_vars(Dispatch(w))

Spec == Init /\ [][Next]_vars /\ Fairness

-----------------------------------------------------------------------------
(* Properties *)

TypeOK ==
    /\ subscribers \in [EventTypes -> Seq(Handlers)]
    /\ stack \in [Threads -> Seq(Emission)]
    /\ due \in Seq(Seq(Handlers)) /\ Len(due) <= MaxEmits
    /\ heard \in Seq(Seq(Handlers)) /\ Len(heard) = Len(due)

Active(id) == \E w \in Threads : \E k \in DOMAIN stack[w] : stack[w][k].id = id

(* Whatever threads and handlers do to the subscriptions while an event is   *)
(* dispatched, and whichever handlers raise: the event reaches the handlers  *)
(* that were subscribed when it was emitted, in their order, once for each   *)
(* subscription - all of them by the time emit returns.                      *)
Delivery ==
    \A id \in DOMAIN due :
        /\ IsPrefix(heard[id], due[id])
        /\ ~Active(id) => heard[id] = due[id]

(* Every emission reaches its last handler, through nested emissions and     *)
(* handlers that raise.                                                      *)
EventuallyHeard ==
    \A id \in 1 .. MaxEmits :
        id \in DOMAIN due ~> id \in DOMAIN due /\ heard[id] = due[id] /\ ~Active(id)
=============================================================================
