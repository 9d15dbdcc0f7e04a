-------------------------- MODULE ApprovalManager --------------------------
(***************************************************************************)
(* slotagent.core.approval_manager: approval records that threads create,  *)
(* approve, reject and time out at once.                                   *)
(*                                                                         *)
(* Each method is cut where other threads can come between: the clock is   *)
(* read before the lock is taken, the record changes under the lock, and   *)
(* approval_resolved is emitted after the lock is released.  A decision on *)
(* an unknown or settled approval raises ValueError and changes nothing:   *)
(* it is not a step.                                                       *)
(***************************************************************************)
EXTENDS Naturals, Sequences

CONSTANTS
    Workers,       \* threads that call the manager
    Timers,        \* the workers that run check_timeouts as background jobs
    ApprovalIds,   \* the uuids create_approval may draw
    Timeouts,      \* lengths of time a request may be given
    MaxTime,       \* bound: the clock stops here
    None

ASSUME TimeAssumption == MaxTime \in Nat /\ Timeouts \subseteq Nat
ASSUME TimerAssumption == Timers \subseteq Workers

VARIABLES
    now,          \* time.time()
    approvals,    \* _approvals: the record of each id, None when there is none
    hooked,       \* is _hook_manager attached
    pc,           \* what each worker is doing
    draft,        \* the record of a create_approval before it is stored
    checked_at,   \* current_time of a check_timeouts
    outbox,       \* resolutions a worker has recorded and not yet emitted
    published     \* history: the approval_resolved events of each id

vars == <<now, approvals, hooked, pc, draft, checked_at, outbox, published>>

Time == 0 .. MaxTime
Resolutions == {"APPROVED", "REJECTED", "TIMEOUT"}
Labels == {"idle", "storing", "sweeping", "emitting"}

Record == [status: Resolutions \cup {"PENDING"}, created_at: Nat, timeout_at: Nat,
           approved_at: Nat \cup {None}, rejected_at: Nat \cup {None},
           approver: Workers \cup {None}]

Draft == [id: ApprovalIds, record: Record]

ASSUME NoneAssumption ==
    /\ None \notin Nat \cup Workers \cup ApprovalIds
    /\ None \notin Record /\ None \notin Draft

(* ApprovalResolvedEvent: resolution and approver are arguments of           *)
(* _emit_resolved, not fields of the record.                                 *)
Event == [id: ApprovalIds, resolution: Resolutions, approver: Workers \cup {None}]

Init ==
    /\ now = 0
    /\ approvals = [i \in ApprovalIds |-> None]
    /\ hooked \in BOOLEAN
    /\ pc = [w \in Workers |-> "idle"]
    /\ draft = [w \in Workers |-> None]
    /\ checked_at = [w \in Workers |-> 0]
    /\ outbox = [w \in Workers |-> {}]
    /\ published = [i \in ApprovalIds |-> <<>>]

-----------------------------------------------------------------------------
(* Helpers *)

Stored(i) == approvals[i] # None

Pending(i) == Stored(i) /\ approvals[i].status = "PENDING"

(* uuid4 never draws an id that is in use. *)
Fresh(i) == ~Stored(i) /\ \A w \in Workers : draft[w] # None => draft[w].id # i

ZeroMeansNever(t) ==              \* mutant: a timeout of 0 taken for no timeout
    [status |-> "PENDING", created_at |-> now,
     timeout_at |-> IF t = 0 THEN None ELSE now + t,
     approved_at |-> None, rejected_at |-> None, approver |-> None]
NewRecord(t) ==
    [status |-> "PENDING", created_at |-> now, timeout_at |-> now + t,
     approved_at |-> None, rejected_at |-> None, approver |-> None]

Resolved(i, resolution, approver) ==
    [id |-> i, resolution |-> resolution, approver |-> approver]

ExpiredAtDeadline(w) ==           \* mutant: >= for >
    {i \in ApprovalIds : Pending(i) /\ checked_at[w] >= approvals[i].timeout_at}
Expired(w) == {i \in ApprovalIds : Pending(i) /\ checked_at[w] > approvals[i].timeout_at}

-----------------------------------------------------------------------------
(* create_approval: the record is built from a clock reading of its own and  *)
(* stored under the lock later.                                              *)

BeginCreate(w, i, t) ==
    /\ pc[w] = "idle" /\ w \notin Timers
    /\ Fresh(i)
    /\ now + t < MaxTime          \* bound: the clock goes past every deadline
    /\ pc' = [pc EXCEPT ![w] = "storing"]
    /\ draft' = [draft EXCEPT ![w] = [id |-> i, record |-> NewRecord(t)]]
    /\ UNCHANGED <<now, approvals, hooked, checked_at, outbox, published>>

Store(w) ==
    /\ pc[w] = "storing"
    /\ approvals' = [approvals EXCEPT ![draft[w].id] = draft[w].record]
    /\ pc' = [pc EXCEPT ![w] = "idle"]
    /\ draft' = [draft EXCEPT ![w] = None]
    /\ UNCHANGED <<now, hooked, checked_at, outbox, published>>

(* approve and reject: one critical section, the event after it. *)

SettleUnchecked(w, i, record, resolution) ==   \* mutant: the status is not checked
    /\ pc[w] = "idle" /\ w \notin Timers
    /\ Stored(i)
    /\ approvals' = [approvals EXCEPT ![i] = record]
    /\ outbox' = [outbox EXCEPT ![w] = {Resolved(i, resolution, w)}]
    /\ pc' = [pc EXCEPT ![w] = "emitting"]
    /\ UNCHANGED <<now, hooked, draft, checked_at, published>>

Settle(w, i, record, resolution) ==
    /\ pc[w] = "idle" /\ w \notin Timers
    /\ Pending(i)
    /\ approvals' = [approvals EXCEPT ![i] = record]
    /\ outbox' = [outbox EXCEPT ![w] = {Resolved(i, resolution, w)}]
    /\ pc' = [pc EXCEPT ![w] = "emitting"]
    /\ UNCHANGED <<now, hooked, draft, checked_at, published>>

Approve(w, i) ==
    Settle(w, i, [approvals[i] EXCEPT !.status = "APPROVED", !.approved_at = now,
                                      !.approver = w], "APPROVED")

Reject(w, i) ==
    Settle(w, i, [approvals[i] EXCEPT !.status = "REJECTED", !.rejected_at = now,
                                      !.approver = w], "REJECTED")

(* check_timeouts: current_time is read before the lock is taken, and every  *)
(* expired record is marked in one critical section.                         *)

BeginCheck(w) ==
    /\ pc[w] = "idle"
    /\ pc' = [pc EXCEPT ![w] = "sweeping"]
    /\ checked_at' = [checked_at EXCEPT ![w] = now]
    /\ UNCHANGED <<now, approvals, hooked, draft, outbox, published>>

TimedOut(i, w) ==
    [approvals[i] EXCEPT !.status = "TIMEOUT", !.rejected_at = checked_at[w]]

MarkFirst(w) ==                   \* mutant: the loop ends at the first expired record
    /\ pc[w] = "sweeping"
    /\ LET S == IF Expired(w) = {} THEN {} ELSE {CHOOSE i \in Expired(w) : TRUE} IN
       /\ approvals' = [i \in ApprovalIds |->
                           IF i \in S THEN TimedOut(i, w) ELSE approvals[i]]
       /\ outbox' = [outbox EXCEPT ![w] = {Resolved(i, "TIMEOUT", None) : i \in S}]
       /\ pc' = [pc EXCEPT ![w] = IF S = {} THEN "idle" ELSE "emitting"]
    /\ checked_at' = [checked_at EXCEPT ![w] = 0]
    /\ UNCHANGED <<now, hooked, draft, published>>

MarkTimeouts(w) ==
    /\ pc[w] = "sweeping"
    /\ approvals' = [i \in ApprovalIds |->
                        IF i \in Expired(w) THEN TimedOut(i, w) ELSE approvals[i]]
    /\ outbox' = [outbox EXCEPT ![w] = {Resolved(i, "TIMEOUT", None) : i \in Expired(w)}]
    /\ pc' = [pc EXCEPT ![w] = IF Expired(w) = {} THEN "idle" ELSE "emitting"]
    /\ checked_at' = [checked_at EXCEPT ![w] = 0]   \* the local is gone
    /\ UNCHANGED <<now, hooked, draft, published>>

(* _emit_resolved, for one event; without a hook manager nothing is emitted. *)
(* A sweep's events are taken in any order.                                  *)
EmitResolved(w, ev) ==
    /\ pc[w] = "emitting"
    /\ ev \in outbox[w]
    /\ published' = IF hooked THEN [published EXCEPT ![ev.id] = Append(@, ev)]
                              ELSE published
    /\ outbox' = [outbox EXCEPT ![w] = @ \ {ev}]
    /\ pc' = [pc EXCEPT ![w] = IF outbox[w] = {ev} THEN "idle" ELSE @]
    /\ UNCHANGED <<now, approvals, hooked, draft, checked_at>>

(* The environment: time passes, and SlotAgent attaches its hook manager to  *)
(* a manager that has none.                                                  *)

Tick ==
    /\ now < MaxTime
    /\ now' = now + 1
    /\ UNCHANGED <<approvals, hooked, pc, draft, checked_at, outbox, published>>

AttachHook ==
    /\ ~hooked
    /\ hooked' = TRUE
    /\ UNCHANGED <<now, approvals, pc, draft, checked_at, outbox, published>>

(* What a worker inside a method does next. *)
Proceed(w) == Store(w) \/ MarkTimeouts(w) \/ \E ev \in outbox[w] : EmitResolved(w, ev)

Request(w) ==
    \/ \E i \in ApprovalIds, t \in Timeouts : BeginCreate(w, i, t)
    \/ \E i \in ApprovalIds : Approve(w, i) \/ Reject(w, i)
    \/ BeginCheck(w)

Next == \/ \E w \in Workers : Request(w) \/ Proceed(w)
        \/ Tick \/ AttachHook

Spec == Init /\ [][Next]_vars

-----------------------------------------------------------------------------
(* Properties *)

TypeOK ==
    /\ now \in Time
    /\ approvals \in [ApprovalIds -> Record \cup {None}]
    /\ hooked \in BOOLEAN
    /\ pc \in [Workers -> Labels]
    /\ draft \in [Workers -> Draft \cup {None}]
    /\ checked_at \in [Workers -> Time]
    /\ outbox \in [Workers -> SUBSET Event]
    /\ published \in [ApprovalIds -> Seq(Event)]

(* A settled approval never changes again, not by a racing decision, not by  *)
(* a sweep, and not by the late store of a create_approval.                  *)
SettledForGood ==
    [][\A i \in ApprovalIds :
          Stored(i) /\ ~Pending(i) => approvals'[i] = approvals[i]]_vars

(* However decisions and sweeps race, an approval has at most one            *)
(* approval_resolved event, and it tells what the record says.               *)
OneResolvedEvent ==
    \A i \in ApprovalIds :
        /\ Len(published[i]) <= 1
        /\ \A k \in 1 .. Len(published[i]) :
              /\ Stored(i)
              /\ published[i][k].resolution = approvals[i].status
              /\ published[i][k].approver = approvals[i].approver

(* The resolution, its time stamps and the approver of a record agree, and   *)
(* an approval times out only after its deadline although the sweep judges   *)
(* by a clock read before it had the lock.                                   *)
RecordsCoherent ==
    \A i \in ApprovalIds : Stored(i) =>
        LET r == approvals[i] IN
        /\ r.status = "APPROVED" <=> r.approved_at # None
        /\ r.status \in {"REJECTED", "TIMEOUT"} <=> r.rejected_at # None
        /\ r.status \in {"APPROVED", "REJECTED"} <=> r.approver # None
        /\ r.status = "TIMEOUT" => r.timeout_at < r.rejected_at /\ r.rejected_at <= now

(* A sweep leaves no request pending whose deadline it had seen pass.        *)
SweepComplete ==
    [][\A w \in Workers : pc[w] = "sweeping" /\ pc'[w] # "sweeping" =>
          \A i \in ApprovalIds :
              ~(Pending(i)' /\ checked_at[w] > approvals'[i].timeout_at)]_vars

(* Threads, locks and sweeps keep the promise of ApprovalLifecycle. *)
Status(i) == IF Stored(i) THEN approvals[i].status ELSE "NONE"

Lifecycle == INSTANCE ApprovalLifecycle WITH
    status <- [i \in ApprovalIds |-> Status(i)],
    announced <- [i \in ApprovalIds |->
                    [k \in 1 .. Len(published[i]) |-> published[i][k].resolution]]

ImplementsLifecycle == Lifecycle!Spec
=============================================================================
