------------------------ MODULE ApprovalManager_proofs ------------------------
(* Theorems about ApprovalManager, for any number of workers, requests and   *)
(* lengths of time.                                                          *)
EXTENDS ApprovalManager, TLAPS

(* TypeOK needs to know what a worker carries at each label: a draft exactly *)
(* while it is to be stored, events only while they are to be emitted; and   *)
(* that no clock reading is ahead of the clock.                              *)
Shape ==
    \A w \in Workers :
        /\ pc[w] = "storing" => draft[w] \in Draft
        /\ pc[w] # "storing" => draft[w] = None
        /\ pc[w] # "emitting" => outbox[w] = {}
        /\ checked_at[w] <= now

TypeInv == TypeOK /\ Shape

(* What the clock shows is a natural number. *)
LEMMA ClockReadings == Time \subseteq Nat /\ 0 \in Time
  BY TimeAssumption DEF TimeAssumption, Time

(* None cannot be mistaken for a record or a draft. *)
LEMMA NoneIsNoRecord == None \notin Record /\ None \notin Draft
  BY NoneAssumption DEF NoneAssumption

(* A new manager has its types and shape. *)
LEMMA InitType == Init => TypeInv
  BY ClockReadings DEF Init, TypeInv, TypeOK, Shape, Labels

(* create_approval builds a draft. *)
LEMMA CreateType ==
    ASSUME TypeInv, NEW w \in Workers, NEW i \in ApprovalIds, NEW t \in Timeouts,
           BeginCreate(w, i, t)
    PROVE  TypeInv'
<1>0. now \in Nat /\ t \in Nat
  BY ClockReadings, TimeAssumption DEF TimeAssumption, TypeInv, TypeOK
<1>1. [id |-> i, record |-> NewRecord(t)] \in Draft
  BY <1>0 DEF NewRecord, Draft, Record
<1>2. TypeOK'
  BY <1>1 DEF BeginCreate, TypeInv, TypeOK, Labels
<1>3. Shape'
  BY <1>1 DEF BeginCreate, TypeInv, TypeOK, Shape
<1>4. QED
  BY <1>2, <1>3 DEF TypeInv

(* What create_approval stores is a record. *)
LEMMA StoreType ==
    ASSUME TypeInv, NEW w \in Workers, Store(w)
    PROVE  TypeInv'
<1>1. draft[w].id \in ApprovalIds /\ draft[w].record \in Record
  BY DEF Store, TypeInv, Shape, Draft
<1>2. TypeOK'
  BY <1>1 DEF Store, TypeInv, TypeOK, Labels
<1>3. Shape'
  BY DEF Store, TypeInv, TypeOK, Shape
<1>4. QED
  BY <1>2, <1>3 DEF TypeInv

(* approve and reject leave records and one event to emit. *)
LEMMA SettleType ==
    ASSUME TypeInv, NEW w \in Workers, NEW i \in ApprovalIds, Approve(w, i) \/ Reject(w, i)
    PROVE  TypeInv'
<1>1. PICK record, resolution :
        /\ Settle(w, i, record, resolution)
        /\ resolution \in Resolutions
        /\ \/ record = [approvals[i] EXCEPT !.status = "APPROVED", !.approved_at = now,
                                            !.approver = w]
           \/ record = [approvals[i] EXCEPT !.status = "REJECTED", !.rejected_at = now,
                                            !.approver = w]
  BY DEF Approve, Reject, Resolutions
<1>2. approvals[i] \in Record /\ now \in Nat
  BY <1>1, ClockReadings DEF Settle, Pending, Stored, TypeInv, TypeOK
<1>3. record \in Record
  BY <1>1, <1>2 DEF Record, Resolutions
<1>4. Resolved(i, resolution, w) \in Event
  BY <1>1 DEF Resolved, Event
<1>5. TypeOK'
  BY <1>1, <1>3, <1>4 DEF Settle, TypeInv, TypeOK, Labels
<1>6. Shape'
  BY <1>1 DEF Settle, TypeInv, TypeOK, Shape
<1>7. QED
  BY <1>5, <1>6 DEF TypeInv

(* check_timeouts leaves records and events. *)
LEMMA SweepType ==
    ASSUME TypeInv, NEW w \in Workers, BeginCheck(w) \/ MarkTimeouts(w)
    PROVE  TypeInv'
<1>1. CASE BeginCheck(w)
  <2>1. TypeOK'
    BY <1>1 DEF BeginCheck, TypeInv, TypeOK, Labels
  <2>2. Shape'
    BY <1>1, ClockReadings DEF BeginCheck, TypeInv, TypeOK, Shape
  <2>3. QED
    BY <2>1, <2>2 DEF TypeInv
<1>2. CASE MarkTimeouts(w)
  <2>1. ASSUME NEW i \in Expired(w)
        PROVE  /\ approvals[i] \in Record /\ TimedOut(i, w) \in Record
               /\ Resolved(i, "TIMEOUT", None) \in Event
    <3>1. approvals[i] \in Record /\ checked_at[w] \in Nat /\ i \in ApprovalIds
      BY ClockReadings DEF Expired, Pending, Stored, TypeInv, TypeOK
    <3>2. QED
      BY <3>1 DEF TimedOut, Record, Resolutions, Resolved, Event
  <2>2. approvals' \in [ApprovalIds -> Record \cup {None}]
    BY <1>2, <2>1 DEF MarkTimeouts, TypeInv, TypeOK
  <2>3. outbox' \in [Workers -> SUBSET Event]
    BY <1>2, <2>1 DEF MarkTimeouts, TypeInv, TypeOK
  <2>4. TypeOK'
    BY <1>2, <2>2, <2>3, ClockReadings DEF MarkTimeouts, TypeInv, TypeOK, Labels
  <2>5. ASSUME NEW v \in Workers
        PROVE  /\ pc'[v] = "storing" => draft'[v] \in Draft
               /\ pc'[v] # "storing" => draft'[v] = None
               /\ pc'[v] # "emitting" => outbox'[v] = {}
               /\ checked_at'[v] <= now'
    BY <1>2, ClockReadings DEF MarkTimeouts, TypeInv, TypeOK, Shape
  <2>6. QED
    BY <2>4, <2>5 DEF TypeInv, Shape
<1>3. QED
  BY <1>1, <1>2

(* Emitting an event only moves it. *)
LEMMA EmitType ==
    ASSUME TypeInv, NEW w \in Workers, NEW ev \in outbox[w], EmitResolved(w, ev)
    PROVE  TypeInv'
<1>1. ev \in Event /\ ev.id \in ApprovalIds
  BY DEF TypeInv, TypeOK, Event
<1>2. Append(published[ev.id], ev) \in Seq(Event)
  BY <1>1 DEF TypeInv, TypeOK
<1>3. TypeOK'
  BY <1>1, <1>2 DEF EmitResolved, TypeInv, TypeOK, Labels
<1>4. Shape'
  BY DEF EmitResolved, TypeInv, TypeOK, Shape
<1>5. QED
  BY <1>3, <1>4 DEF TypeInv

(* Time and the hook manager keep the invariant. *)
LEMMA EnvironmentType ==
    ASSUME TypeInv, Tick \/ AttachHook
    PROVE  TypeInv'
<1>1. CASE Tick
  <2>1. now' \in Time /\ \A w \in Workers : checked_at[w] <= now'
    BY <1>1, TimeAssumption, ClockReadings
    DEF TimeAssumption, Tick, TypeInv, TypeOK, Shape, Time
  <2>2. QED
    BY <1>1, <2>1 DEF Tick, TypeInv, TypeOK, Shape
<1>2. CASE AttachHook
  BY <1>2 DEF AttachHook, TypeInv, TypeOK, Shape
<1>3. QED
  BY <1>1, <1>2

(* Every step keeps types and shape. *)
LEMMA TypeStep == TypeInv /\ [Next]_vars => TypeInv'
<1> SUFFICES ASSUME TypeInv, [Next]_vars PROVE TypeInv'
  OBVIOUS
<1>1. ASSUME NEW w \in Workers, Request(w) \/ Proceed(w) PROVE TypeInv'
  BY <1>1, CreateType, StoreType, SettleType, SweepType, EmitType DEF Request, Proceed
<1>2. CASE UNCHANGED vars
  BY <1>2 DEF vars, TypeInv, TypeOK, Shape
<1>3. QED
  BY <1>1, <1>2, EnvironmentType DEF Next

(* Types and shape hold in every reachable state of the manager. *)
THEOREM TypeInvariance == Spec => []TypeInv
  BY InitType, TypeStep, PTL DEF Spec

(* Every variable keeps its type, however the workers interleave and for     *)
(* every length of the clock.                                                *)
THEOREM TypeCorrect == Spec => []TypeOK
<1>1. TypeInv => TypeOK
  BY DEF TypeInv
<1>2. QED
  BY <1>1, TypeInvariance, PTL

-----------------------------------------------------------------------------
(* Settlement *)

(* A draft is of a request that is not stored yet, still undecided, and of   *)
(* one worker only: its late store overwrites nothing.                       *)
DraftOf(w) ==
    draft[w] # None =>
        /\ ~Stored(draft[w].id)
        /\ draft[w].record.status = "PENDING"
        /\ \A v \in Workers : v # w /\ draft[v] # None => draft[v].id # draft[w].id

DraftInv == \A w \in Workers : DraftOf(w)

(* At first there are no drafts. *)
LEMMA InitDraft == Init => DraftInv
  BY DEF Init, DraftInv, DraftOf

(* Every step keeps drafts apart from each other and from what is stored. *)
LEMMA DraftStep == TypeInv /\ DraftInv /\ [Next]_vars => DraftInv'
<1> SUFFICES ASSUME TypeInv, DraftInv, [Next]_vars PROVE DraftInv'
  OBVIOUS
<1>1. ASSUME NEW w \in Workers, NEW i \in ApprovalIds, NEW t \in Timeouts,
             BeginCreate(w, i, t)
      PROVE  DraftInv'
  <2>1. draft' = [draft EXCEPT ![w] = [id |-> i, record |-> NewRecord(t)]]
        /\ approvals' = approvals /\ draft \in [Workers -> Draft \cup {None}]
    BY <1>1 DEF BeginCreate, TypeInv, TypeOK
  <2>2. ~Stored(i) /\ \A v \in Workers : draft[v] # None => draft[v].id # i
    BY <1>1 DEF BeginCreate, Fresh
  <2>3. QED
    BY <2>1, <2>2 DEF DraftInv, DraftOf, NewRecord, Stored
<1>2. ASSUME NEW w \in Workers, Store(w) PROVE DraftInv'
  <2>1. /\ draft[w] \in Draft /\ draft' = [draft EXCEPT ![w] = None]
        /\ approvals' = [approvals EXCEPT ![draft[w].id] = draft[w].record]
        /\ approvals \in [ApprovalIds -> Record \cup {None}]
        /\ draft \in [Workers -> Draft \cup {None}]
    BY <1>2 DEF Store, TypeInv, TypeOK, Shape
  <2>2. ASSUME NEW v \in Workers, draft'[v] # None
        PROVE  v # w /\ draft'[v] = draft[v] /\ draft[v].id # draft[w].id
               /\ draft[v].id \in ApprovalIds
    BY <2>1, <2>2, NoneIsNoRecord DEF DraftInv, DraftOf, Draft
  <2>3. QED
    BY <2>1, <2>2 DEF DraftInv, DraftOf, Stored
<1>3. ASSUME NEW w \in Workers, NEW i \in ApprovalIds, Approve(w, i) \/ Reject(w, i)
      PROVE  DraftInv'
  <2>1. draft' = draft /\ \A j \in ApprovalIds : ~Stored(j) => ~Stored(j)'
    BY <1>3 DEF Approve, Reject, Settle, Pending, Stored, TypeInv, TypeOK
  <2>2. \A v \in Workers : draft[v] # None => draft[v].id \in ApprovalIds
    BY DEF TypeInv, TypeOK, Draft
  <2>3. QED
    BY <2>1, <2>2 DEF DraftInv, DraftOf
<1>4. ASSUME NEW w \in Workers, MarkTimeouts(w) PROVE DraftInv'
  <2>1. draft' = draft /\ \A i \in ApprovalIds : ~Stored(i) => ~Stored(i)'
    BY <1>4 DEF MarkTimeouts, Expired, Pending, Stored
  <2>2. \A v \in Workers : draft[v] # None => draft[v].id \in ApprovalIds
    BY DEF TypeInv, TypeOK, Draft
  <2>3. QED
    BY <2>1, <2>2 DEF DraftInv, DraftOf
<1>5. ASSUME draft' = draft, approvals' = approvals PROVE DraftInv'
  BY <1>5 DEF DraftInv, DraftOf, Stored
<1>6. ASSUME NEW w \in Workers, BeginCheck(w) \/ \E ev \in outbox[w] : EmitResolved(w, ev)
      PROVE  draft' = draft /\ approvals' = approvals
  BY <1>6 DEF BeginCheck, EmitResolved
<1>7. CASE Tick \/ AttachHook \/ UNCHANGED vars
  BY <1>5, <1>7 DEF Tick, AttachHook, vars
<1>8. QED
  BY <1>1, <1>2, <1>3, <1>4, <1>5, <1>6, <1>7 DEF Next, Request, Proceed

(* create_approval never overwrites a stored approval. *)
THEOREM DraftInvariance == Spec => []DraftInv
  BY InitDraft, DraftStep, TypeInvariance, PTL DEF Spec

(* What one step may do to the records: store a draft, settle one pending    *)
(* request, or time out a set of them.                                       *)
LEMMA RecordSteps ==
    ASSUME TypeInv, [Next]_vars
    PROVE  \/ UNCHANGED approvals
           \/ \E w \in Workers : Store(w)
           \/ \E w \in Workers, i \in ApprovalIds : Approve(w, i) \/ Reject(w, i)
           \/ \E w \in Workers : MarkTimeouts(w)
  BY DEF Next, Request, Proceed, BeginCreate, BeginCheck, EmitResolved, Tick, AttachHook,
     vars

(* No step changes a settled record. *)
LEMMA SettledStay ==
    ASSUME TypeInv, DraftInv, [Next]_vars, NEW i \in ApprovalIds, Stored(i), ~Pending(i)
    PROVE  approvals'[i] = approvals[i]
<1>1. ASSUME NEW w \in Workers, Store(w) PROVE approvals'[i] = approvals[i]
  <2>1. draft[w].id # i
    BY <1>1, NoneIsNoRecord DEF Store, TypeInv, Shape, DraftInv, DraftOf
  <2>2. QED
    BY <1>1, <2>1 DEF Store, TypeInv, TypeOK
<1>2. ASSUME NEW w \in Workers, NEW j \in ApprovalIds, Approve(w, j) \/ Reject(w, j)
      PROVE  approvals'[i] = approvals[i]
  BY <1>2 DEF Approve, Reject, Settle, TypeInv, TypeOK
<1>3. ASSUME NEW w \in Workers, MarkTimeouts(w) PROVE approvals'[i] = approvals[i]
  BY <1>3 DEF MarkTimeouts, Expired
<1>4. QED
  BY <1>1, <1>2, <1>3, RecordSteps

(* A decision and a sweep that race, or a create_approval that stores late,  *)
(* never change an approval that is settled.                                 *)
THEOREM SettledForGoodHolds == Spec => SettledForGood
<1>1. TypeInv /\ DraftInv /\ [Next]_vars =>
         [\A i \in ApprovalIds :
             Stored(i) /\ ~Pending(i) => approvals'[i] = approvals[i]]_vars
  BY SettledStay
<1>2. QED
  BY <1>1, TypeInvariance, DraftInvariance, PTL DEF Spec, SettledForGood

(* A sweep leaves pending nothing it saw expired.                            *)
THEOREM SweepCompleteHolds == Spec => SweepComplete
<1> DEFINE Swept(w) == pc[w] = "sweeping" /\ pc'[w] # "sweeping" =>
              \A i \in ApprovalIds :
                  ~(Pending(i)' /\ checked_at[w] > approvals'[i].timeout_at)
<1>1. TypeInv /\ [Next]_vars => [\A w \in Workers : Swept(w)]_vars
  <2> SUFFICES ASSUME TypeInv, [Next]_vars, NEW w \in Workers,
                      pc[w] = "sweeping", pc'[w] # "sweeping"
               PROVE  \A i \in ApprovalIds :
                          ~(Pending(i)' /\ checked_at[w] > approvals'[i].timeout_at)
    OBVIOUS
  <2>1. MarkTimeouts(w)
    BY DEF Next, Request, Proceed, BeginCreate, Store, Approve, Reject, Settle, BeginCheck,
       MarkTimeouts, EmitResolved, Tick, AttachHook, vars, TypeInv, TypeOK
  <2>2. ASSUME NEW i \in ApprovalIds, Pending(i)' PROVE i \notin Expired(w)
    BY <2>1, <2>2 DEF MarkTimeouts, Expired, Pending, Stored, TimedOut, TypeInv, TypeOK, Record
  <2>3. ASSUME NEW i \in ApprovalIds, i \notin Expired(w), Pending(i)'
        PROVE  ~(checked_at[w] > approvals'[i].timeout_at)
    <3>1. approvals'[i] = approvals[i]
      BY <2>1, <2>3 DEF MarkTimeouts
    <3>2. QED
      BY <2>3, <3>1 DEF Expired, Pending, Stored
  <2>4. QED
    BY <2>2, <2>3
<1>2. QED
  BY <1>1, TypeInvariance, PTL DEF Spec, SweepComplete

-----------------------------------------------------------------------------
(* Records *)

Coherent(r) ==
    /\ r.status = "APPROVED" <=> r.approved_at # None
    /\ r.status \in {"REJECTED", "TIMEOUT"} <=> r.rejected_at # None
    /\ r.status \in {"APPROVED", "REJECTED"} <=> r.approver # None
    /\ r.status = "TIMEOUT" => r.timeout_at < r.rejected_at /\ r.rejected_at <= now

(* RecordsCoherent needs the drafts to be coherent too. *)
RecordInv ==
    /\ \A i \in ApprovalIds : Stored(i) => Coherent(approvals[i])
    /\ \A w \in Workers : draft[w] # None => Coherent(draft[w].record)

(* At first there are no records. *)
LEMMA InitRecords == Init => RecordInv
  BY DEF Init, RecordInv, Stored

(* time.time() never goes back. *)
LEMMA TimePasses ==
    ASSUME TypeInv, [Next]_vars
    PROVE  now \in Nat /\ now' \in Nat /\ now <= now'
<1>1. now \in Nat
  BY ClockReadings DEF TypeInv, TypeOK
<1>2. now' = now \/ now' = now + 1
  BY DEF Next, Request, Proceed, BeginCreate, Store, Approve, Reject, Settle, BeginCheck,
     MarkTimeouts, EmitResolved, Tick, AttachHook, vars
<1>3. QED
  BY <1>1, <1>2

(* Every step keeps records and drafts coherent. *)
LEMMA RecordStep == TypeInv /\ RecordInv /\ [Next]_vars => RecordInv'
<1> SUFFICES ASSUME TypeInv, RecordInv, [Next]_vars PROVE RecordInv'
  OBVIOUS
<1>1. None \notin Nat /\ \A w \in Workers : w # None
  BY NoneAssumption DEF NoneAssumption
<1>2. now \in Nat /\ now' \in Nat /\ now <= now'
  BY TimePasses
<1>3. ASSUME NEW i \in ApprovalIds, Stored(i)
      PROVE  approvals[i] \in Record /\ Coherent(approvals[i])
  BY <1>3 DEF TypeInv, TypeOK, Stored, RecordInv
<1>4. ASSUME NEW i \in ApprovalIds, Stored(i), approvals'[i] = approvals[i]
      PROVE  Coherent(approvals[i])'
  <2>1. approvals[i].status = "TIMEOUT" => approvals[i].rejected_at \in Nat
    BY <1>3, <1>4 DEF Coherent, Record
  <2>2. QED
    BY <1>2, <1>3, <1>4, <2>1 DEF Coherent
<1>5. ASSUME NEW w \in Workers, draft'[w] = draft[w], draft[w] # None
      PROVE  Coherent(draft[w].record)'
  <2>1. draft[w].record \in Record /\ Coherent(draft[w].record)
    BY <1>5 DEF TypeInv, TypeOK, Draft, RecordInv
  <2>2. draft[w].record.status = "TIMEOUT" => draft[w].record.rejected_at \in Nat
    BY <2>1 DEF Coherent, Record
  <2>3. QED
    BY <1>2, <1>5, <2>1, <2>2 DEF Coherent
<1>6. ASSUME NEW w \in Workers, NEW i \in ApprovalIds, NEW t \in Timeouts,
             BeginCreate(w, i, t)
      PROVE  RecordInv'
  <2>1. approvals' = approvals
        /\ draft' = [draft EXCEPT ![w] = [id |-> i, record |-> NewRecord(t)]]
        /\ draft \in [Workers -> Draft \cup {None}]
    BY <1>6 DEF BeginCreate, TypeInv, TypeOK
  <2>2. Coherent(draft[w].record)'
    BY <1>1, <2>1 DEF NewRecord, Coherent
  <2>3. QED
    BY <1>4, <1>5, <2>1, <2>2 DEF RecordInv, Stored
<1>7. ASSUME NEW w \in Workers, Store(w) PROVE RecordInv'
  <2> PICK i \in ApprovalIds : i = draft[w].id
    BY <1>7 DEF Store, TypeInv, Shape, Draft
  <2>1. /\ draft[w] # None
        /\ approvals' = [approvals EXCEPT ![i] = draft[w].record]
        /\ draft' = [draft EXCEPT ![w] = None]
        /\ approvals \in [ApprovalIds -> Record \cup {None}]
        /\ draft \in [Workers -> Draft \cup {None}]
        /\ now' = now
    BY <1>7, NoneIsNoRecord DEF Store, TypeInv, TypeOK, Shape, Draft
  <2>2. Coherent(approvals[i])'
    BY <2>1 DEF RecordInv, Coherent
  <2>3. QED
    BY <1>4, <1>5, <2>1, <2>2 DEF RecordInv, Stored
<1>8. ASSUME NEW w \in Workers, NEW i \in ApprovalIds, Approve(w, i) \/ Reject(w, i)
      PROVE  RecordInv'
  <2>1. /\ approvals[i] \in Record /\ Coherent(approvals[i]) /\ approvals[i].status = "PENDING"
        /\ draft' = draft /\ approvals \in [ApprovalIds -> Record \cup {None}]
        /\ \A j \in ApprovalIds : j # i => approvals'[j] = approvals[j]
    BY <1>3, <1>8 DEF Approve, Reject, Settle, Pending, TypeInv, TypeOK
  <2>2. Coherent(approvals[i])'
    <3>1. CASE Approve(w, i)
      BY <1>1, <1>2, <2>1, <3>1 DEF Approve, Settle, Coherent, Record
    <3>2. CASE Reject(w, i)
      BY <1>1, <1>2, <2>1, <3>2 DEF Reject, Settle, Coherent, Record
    <3>3. QED
      BY <1>8, <3>1, <3>2
  <2>3. QED
    BY <1>4, <1>5, <2>1, <2>2 DEF RecordInv, Stored
<1>9. ASSUME NEW w \in Workers, MarkTimeouts(w) PROVE RecordInv'
  <2>1. ASSUME NEW i \in Expired(w) PROVE Coherent(approvals[i])'
    <3>1. /\ i \in ApprovalIds /\ Pending(i) /\ approvals[i] \in Record
          /\ Coherent(approvals[i]) /\ approvals'[i] = TimedOut(i, w)
          /\ checked_at[w] > approvals[i].timeout_at
      BY <1>3, <1>9 DEF MarkTimeouts, Expired, Pending
    <3>2. checked_at[w] \in Nat /\ checked_at[w] <= now
      BY ClockReadings DEF TypeInv, TypeOK, Shape
    <3>3. QED
      BY <1>1, <1>2, <3>1, <3>2 DEF TimedOut, Pending, Coherent, Record
  <2>2. draft' = draft /\ \A i \in ApprovalIds \ Expired(w) : approvals'[i] = approvals[i]
    BY <1>9 DEF MarkTimeouts
  <2>3. QED
    BY <1>4, <1>5, <2>1, <2>2 DEF RecordInv, Stored
<1>10. CASE approvals' = approvals /\ draft' = draft
  BY <1>4, <1>5, <1>10 DEF RecordInv, Stored
<1>11. QED
  BY <1>6, <1>7, <1>8, <1>9, <1>10
  DEF Next, Request, Proceed, BeginCheck, EmitResolved, Tick, AttachHook, vars

(* Records and drafts are coherent in every reachable state. *)
THEOREM RecordInvariance == Spec => []RecordInv
  BY InitRecords, RecordStep, TypeInvariance, PTL DEF Spec

(* In every reachable state the resolution, the time stamps and the approver *)
(* of each record agree, and nothing times out before its deadline.          *)
THEOREM RecordsCoherentHolds == Spec => []RecordsCoherent
<1>1. RecordInv => RecordsCoherent
  BY DEF RecordInv, RecordsCoherent, Coherent
<1>2. QED
  BY <1>1, RecordInvariance, PTL

-----------------------------------------------------------------------------
(* Announcements *)

Agrees(ev, i) ==
    /\ Stored(i)
    /\ ev.resolution = approvals[i].status
    /\ ev.approver = approvals[i].approver

(* OneResolvedEvent is not inductive: an event still to be emitted must      *)
(* already agree with its record, be the only one of its request among all   *)
(* workers, and have no predecessor.                                         *)
OutboxOf(w) ==
    \A ev \in outbox[w] :
        /\ Agrees(ev, ev.id)
        /\ published[ev.id] = <<>>
        /\ \A v \in Workers : \A other \in outbox[v] :
              other.id = ev.id => v = w /\ other = ev

PublishedOf(i) ==
    /\ Len(published[i]) <= 1
    /\ \A k \in 1 .. Len(published[i]) :
          published[i][k].resolution \in Resolutions /\ Agrees(published[i][k], i)

EventInv == /\ \A w \in Workers : OutboxOf(w)
            /\ \A i \in ApprovalIds : PublishedOf(i)

(* At first there are no events. *)
LEMMA InitEvents == Init => EventInv
  BY DEF Init, EventInv, OutboxOf, PublishedOf

(* An event that agrees with its record is of a settled request, and goes on *)
(* agreeing.                                                                 *)
LEMMA AgreementStays ==
    ASSUME TypeInv, DraftInv, [Next]_vars, NEW i \in ApprovalIds, NEW ev,
           ev.resolution \in Resolutions, Agrees(ev, i)
    PROVE  Agrees(ev, i)' /\ ~Pending(i)
<1>1. Stored(i) /\ ~Pending(i)
  BY DEF Agrees, Pending, Resolutions
<1>2. approvals'[i] = approvals[i]
  BY <1>1, SettledStay
<1>3. QED
  BY <1>1, <1>2 DEF Agrees, Stored

(* Pending requests have no event at all. *)
LEMMA PendingIsSilent ==
    ASSUME TypeInv, EventInv, NEW i \in ApprovalIds, Pending(i)
    PROVE  /\ published[i] = <<>>
           /\ \A w \in Workers : \A ev \in outbox[w] : ev.id # i
<1>1. ASSUME NEW w \in Workers, NEW ev \in outbox[w], ev.id = i PROVE FALSE
  <2>1. ev.resolution \in Resolutions /\ ev.resolution = approvals[i].status
    BY <1>1 DEF TypeInv, TypeOK, Event, EventInv, OutboxOf, Agrees
  <2>2. QED
    BY <2>1 DEF Pending, Resolutions
<1>2. ~(1 \in 1 .. Len(published[i]))
  <2>1. SUFFICES ASSUME 1 \in 1 .. Len(published[i]) PROVE FALSE
    OBVIOUS
  <2>2. /\ published[i][1].resolution \in Resolutions
        /\ published[i][1].resolution = approvals[i].status
    BY <2>1 DEF EventInv, PublishedOf, Agrees
  <2>3. QED
    BY <2>2 DEF Pending, Resolutions
<1>3. published[i] = <<>>
  BY <1>2 DEF TypeInv, TypeOK
<1>4. QED
  BY <1>1, <1>3

(* Resolving pending requests fills an empty outbox with one event each. *)
LEMMA ResolutionKeepsEvents ==
    ASSUME TypeInv, DraftInv, EventInv, [Next]_vars, NEW w \in Workers,
           NEW new \in SUBSET Event,
           \A ev \in new : Pending(ev.id) /\ Agrees(ev, ev.id)',
           \A ev \in new : \A other \in new : other.id = ev.id => other = ev,
           outbox' = [outbox EXCEPT ![w] = new], published' = published
    PROVE  EventInv'
<1>1. outbox \in [Workers -> SUBSET Event] /\ new \subseteq Event
  BY DEF TypeInv, TypeOK
<1>2. ASSUME NEW ev \in new
      PROVE  /\ ev.id \in ApprovalIds /\ published[ev.id] = <<>>
             /\ \A v \in Workers : \A other \in outbox[v] : other.id # ev.id
  BY <1>1, <1>2, PendingIsSilent DEF Event
<1>3. ASSUME NEW v \in Workers, NEW ev \in outbox[v]
      PROVE  ev.id \in ApprovalIds /\ ev.resolution \in Resolutions /\ Agrees(ev, ev.id)'
  BY <1>1, <1>3, AgreementStays DEF Event, EventInv, OutboxOf
<1>4. ASSUME NEW v \in Workers PROVE OutboxOf(v)'
  <2>1. CASE v = w
    <3>1. ASSUME NEW ev \in new, NEW u \in Workers, NEW other \in outbox'[u],
                 other.id = ev.id
          PROVE  u = w /\ other = ev
      BY <1>1, <1>2, <3>1
    <3>2. QED
      BY <1>1, <1>2, <2>1, <3>1 DEF OutboxOf
  <2>2. CASE v # w
    <3>1. outbox'[v] = outbox[v]
      BY <1>1, <2>2
    <3>2. ASSUME NEW ev \in outbox[v], NEW u \in Workers, NEW other \in outbox'[u],
                 other.id = ev.id
          PROVE  u = v /\ other = ev
      BY <1>1, <1>2, <3>2 DEF EventInv, OutboxOf
    <3>3. QED
      BY <1>3, <3>1, <3>2 DEF EventInv, OutboxOf
  <2>3. QED
    BY <2>1, <2>2
<1>5. ASSUME NEW i \in ApprovalIds PROVE PublishedOf(i)'
  BY <1>5, AgreementStays DEF EventInv, PublishedOf
<1>6. QED
  BY <1>4, <1>5 DEF EventInv

(* A step that neither owes nor emits an event keeps the others in agreement. *)
LEMMA QuietStepKeepsEvents ==
    ASSUME TypeInv, DraftInv, EventInv, [Next]_vars,
           outbox' = outbox, published' = published
    PROVE  EventInv'
<1>1. ASSUME NEW v \in Workers, NEW ev \in outbox[v]
      PROVE  Agrees(ev, ev.id)'
  <2>1. ev \in Event /\ Agrees(ev, ev.id)
    BY <1>1 DEF TypeInv, TypeOK, EventInv, OutboxOf
  <2>2. QED
    BY <2>1, AgreementStays DEF Event
<1>2. ASSUME NEW i \in ApprovalIds PROVE PublishedOf(i)'
  BY <1>2, AgreementStays DEF EventInv, PublishedOf
<1>3. QED
  BY <1>1, <1>2 DEF EventInv, OutboxOf

(* _emit_resolved moves the only event of a request from outbox to history. *)
LEMMA EmissionKeepsEvents ==
    ASSUME TypeInv, DraftInv, EventInv, [Next]_vars, NEW w \in Workers,
           NEW ev \in outbox[w], EmitResolved(w, ev)
    PROVE  EventInv'
<1>1. /\ outbox \in [Workers -> SUBSET Event] /\ published \in [ApprovalIds -> Seq(Event)]
      /\ ev \in Event /\ ev.id \in ApprovalIds /\ approvals' = approvals
      /\ outbox' = [outbox EXCEPT ![w] = @ \ {ev}]
  <2>1. /\ outbox \in [Workers -> SUBSET Event] /\ published \in [ApprovalIds -> Seq(Event)]
        /\ approvals' = approvals /\ outbox' = [outbox EXCEPT ![w] = @ \ {ev}]
    BY DEF EmitResolved, TypeInv, TypeOK
  <2>2. ev \in Event
    BY <2>1
  <2>3. ev.id \in ApprovalIds
    BY <2>2 DEF Event
  <2>4. QED
    BY <2>1, <2>2, <2>3
<1>2. \A i \in ApprovalIds : i # ev.id => published'[i] = published[i]
  BY <1>1 DEF EmitResolved
<1>3. ASSUME NEW v \in Workers PROVE OutboxOf(v)'
  <2>1. ASSUME NEW other \in outbox'[v]
        PROVE  other \in outbox[v] /\ other.id # ev.id /\ other.id \in ApprovalIds
    BY <1>1, <2>1 DEF EventInv, OutboxOf, Event
  <2>2. \A u \in Workers : outbox'[u] \subseteq outbox[u]
    BY <1>1
  <2>3. QED
    BY <1>1, <1>2, <2>1, <2>2 DEF EventInv, OutboxOf, Agrees, Stored
<1>4. ASSUME NEW i \in ApprovalIds PROVE PublishedOf(i)'
  <2>1. CASE i # ev.id \/ published' = published
    BY <1>1, <1>2, <2>1 DEF EventInv, PublishedOf, Agrees, Stored
  <2>2. CASE i = ev.id /\ published' = [published EXCEPT ![ev.id] = Append(@, ev)]
    <3>1. published[i] = <<>> /\ Agrees(ev, i) /\ ev.resolution \in Resolutions
      BY <1>1, <2>2 DEF EventInv, OutboxOf, Event
    <3>2. published'[i] = <<ev>>
      BY <1>1, <2>2, <3>1
    <3>3. QED
      BY <1>1, <3>1, <3>2 DEF PublishedOf, Agrees, Stored
  <2>3. QED
    BY <2>1, <2>2 DEF EmitResolved
<1>5. QED
  BY <1>3, <1>4 DEF EventInv

(* Every step keeps EventInv. *)
LEMMA EventStep == TypeInv /\ DraftInv /\ RecordInv /\ EventInv /\ [Next]_vars => EventInv'
<1> SUFFICES ASSUME TypeInv, DraftInv, RecordInv, EventInv, [Next]_vars PROVE EventInv'
  OBVIOUS
<1>1. ASSUME NEW w \in Workers, NEW i \in ApprovalIds, Approve(w, i) \/ Reject(w, i)
      PROVE  EventInv'
  <2>1. PICK record, resolution :
           /\ Settle(w, i, record, resolution) /\ resolution \in Resolutions
           /\ record.status = resolution /\ record.approver = w /\ record \in Record
    <3>1. approvals[i] \in Record /\ now \in Nat
      BY <1>1, ClockReadings DEF Approve, Reject, Settle, Pending, Stored, TypeInv, TypeOK
    <3> DEFINE approved == [approvals[i] EXCEPT !.status = "APPROVED", !.approved_at = now,
                                                !.approver = w]
               rejected == [approvals[i] EXCEPT !.status = "REJECTED", !.rejected_at = now,
                                                !.approver = w]
    <3>0. /\ approved.status = "APPROVED" /\ approved.approver = w /\ approved \in Record
          /\ rejected.status = "REJECTED" /\ rejected.approver = w /\ rejected \in Record
      BY <3>1 DEF Record, Resolutions
    <3> HIDE DEF approved, rejected
    <3>2. CASE Approve(w, i)
      <4>1. Settle(w, i, approved, "APPROVED")
        BY <3>2 DEF Approve, approved
      <4>2. QED
        BY <3>0, <4>1 DEF Resolutions
    <3>3. CASE Reject(w, i)
      <4>1. Settle(w, i, rejected, "REJECTED")
        BY <3>3 DEF Reject, rejected
      <4>2. QED
        BY <3>0, <4>1 DEF Resolutions
    <3>4. QED
      BY <1>1, <3>2, <3>3
  <2>2. /\ Pending(i) /\ Resolved(i, resolution, w) \in Event
        /\ approvals'[i] = record /\ published' = published
        /\ outbox' = [outbox EXCEPT ![w] = {Resolved(i, resolution, w)}]
    BY <2>1 DEF Settle, Resolved, Event, TypeInv, TypeOK
  <2>3. Agrees(Resolved(i, resolution, w), i)'
    BY <2>1, <2>2, NoneIsNoRecord DEF Agrees, Stored, Resolved
  <2>4. Resolved(i, resolution, w).id = i
    BY DEF Resolved
  <2> DEFINE new == {Resolved(i, resolution, w)}
  <2>5. /\ new \in SUBSET Event /\ outbox' = [outbox EXCEPT ![w] = new]
        /\ \A ev \in new : Pending(ev.id) /\ Agrees(ev, ev.id)'
        /\ \A ev \in new : \A other \in new : other.id = ev.id => other = ev
    BY <2>2, <2>3, <2>4
  <2>6. QED
    BY <2>2, <2>5, ResolutionKeepsEvents
<1>2. ASSUME NEW w \in Workers, MarkTimeouts(w) PROVE EventInv'
  <2> DEFINE new == {Resolved(i, "TIMEOUT", None) : i \in Expired(w)}
  <2>1. outbox' = [outbox EXCEPT ![w] = new] /\ published' = published
    BY <1>2 DEF MarkTimeouts
  <2>2. ASSUME NEW i \in Expired(w)
        PROVE  /\ Pending(i) /\ Resolved(i, "TIMEOUT", None).id = i
               /\ Resolved(i, "TIMEOUT", None) \in Event
               /\ Agrees(Resolved(i, "TIMEOUT", None), i)'
    <3>1. approvals[i] \in Record /\ i \in ApprovalIds /\ Pending(i)
      BY DEF Expired, Pending, Stored, TypeInv, TypeOK
    <3>2. approvals'[i] = TimedOut(i, w) /\ approvals[i].approver = None
      BY <1>2, <3>1 DEF MarkTimeouts, RecordInv, Coherent, Pending
    <3>3. /\ approvals'[i].status = "TIMEOUT" /\ approvals'[i].approver = None
          /\ approvals'[i] # None
      <4>1. checked_at[w] \in Nat
        BY ClockReadings DEF TypeInv, TypeOK
      <4>2. TimedOut(i, w) \in Record
        BY <3>1, <4>1 DEF TimedOut, Record, Resolutions
      <4>3. TimedOut(i, w).status = "TIMEOUT" /\ TimedOut(i, w).approver = None
        BY <3>1, <3>2 DEF TimedOut, Record
      <4>4. QED
        BY <3>2, <4>2, <4>3, NoneIsNoRecord
    <3>4. QED
      BY <3>1, <3>3 DEF Agrees, Stored, Resolved, Event, Resolutions
  <2>3. /\ new \in SUBSET Event
        /\ \A ev \in new : Pending(ev.id) /\ Agrees(ev, ev.id)'
        /\ \A ev \in new : \A other \in new : other.id = ev.id => other = ev
    BY <2>2
  <2>4. QED
    BY <2>1, <2>3, ResolutionKeepsEvents
<1>3. ASSUME outbox' = outbox, published' = published PROVE EventInv'
  BY <1>3, QuietStepKeepsEvents
<1>4. ASSUME NEW w \in Workers, NEW ev \in outbox[w], EmitResolved(w, ev) PROVE EventInv'
  BY <1>4, EmissionKeepsEvents
<1>5. QED
  BY <1>1, <1>2, <1>3, <1>4
  DEF Next, Request, Proceed, BeginCreate, Store, BeginCheck, Tick, AttachHook, vars

(* Owed and published events are in agreement with the records, always. *)
THEOREM EventInvariance == Spec => []EventInv
  BY InitEvents, EventStep, TypeInvariance, DraftInvariance, RecordInvariance, PTL DEF Spec

(* However decisions and sweeps race, no request is announced twice, and     *)
(* what is announced is what its record says.                                *)
THEOREM OneResolvedEventHolds == Spec => []OneResolvedEvent
<1>1. EventInv => OneResolvedEvent
  BY DEF EventInv, PublishedOf, Agrees, OneResolvedEvent
<1>2. QED
  BY <1>1, EventInvariance, PTL

-----------------------------------------------------------------------------
(* The promise of ApprovalLifecycle *)

Announced(i) == [k \in 1 .. Len(published[i]) |-> published[i][k].resolution]
AllStatus == [i \in ApprovalIds |-> Status(i)]
AllTold == [i \in ApprovalIds |-> Announced(i)]

(* An empty history is an empty sequence of resolutions. *)
LEMMA NothingTold ==
    ASSUME TypeInv, NEW i \in ApprovalIds, published[i] = <<>>
    PROVE  Announced(i) = <<>>
  BY DEF Announced

(* The initial states are initial states of ApprovalLifecycle. *)
LEMMA InitLifecycle == Init => Lifecycle!Init
  BY DEF Init, Lifecycle!Init, Status, Stored

(* Every step is a step of ApprovalLifecycle or changes nothing of it. *)
LEMMA StepLifecycle ==
    ASSUME TypeInv, DraftInv, EventInv, [Next]_vars
    PROVE  [Lifecycle!Next]_(Lifecycle!approval)
<1> USE DEF AllStatus, AllTold
<1>1. ASSUME published' = published PROVE AllTold' = AllTold
  BY <1>1 DEF Announced
<1>2. ASSUME approvals' = approvals PROVE AllStatus' = AllStatus
  BY <1>2 DEF Status, Stored
<1>3. ASSUME NEW w \in Workers, Store(w) PROVE Lifecycle!Next
  <2>1. PICK i \in ApprovalIds : i = draft[w].id
    BY <1>3 DEF Store, TypeInv, Shape, Draft
  <2>2. /\ Status(i) = "NONE" /\ draft[w].record.status = "PENDING"
        /\ draft[w].record # None /\ published' = published
        /\ approvals' = [approvals EXCEPT ![i] = draft[w].record]
        /\ approvals \in [ApprovalIds -> Record \cup {None}]
    BY <1>3, <2>1, NoneIsNoRecord
    DEF Store, TypeInv, TypeOK, Shape, Draft, DraftInv, DraftOf, Status
  <2>3. AllStatus' = [AllStatus EXCEPT ![i] = "PENDING"]
    BY <2>2 DEF Status, Stored
  <2>4. QED
    BY <1>1, <2>2, <2>3 DEF Lifecycle!Next, Lifecycle!Ask, Announced
<1>4. ASSUME NEW w \in Workers, NEW i \in ApprovalIds, Approve(w, i) \/ Reject(w, i)
      PROVE  Lifecycle!Next
  <2>1. /\ Status(i) = "PENDING" /\ published' = published
        /\ approvals[i] \in Record /\ approvals'[i] \in Record \cup {None}
        /\ \A j \in ApprovalIds : j # i => approvals'[j] = approvals[j]
    BY <1>4, TypeStep
    DEF Approve, Reject, Settle, Pending, Stored, Status, TypeInv, TypeOK
  <2>2. approvals'[i] \in Record /\ approvals'[i].status \in {"APPROVED", "REJECTED"}
    <3>1. now \in Nat
      BY ClockReadings DEF TypeInv, TypeOK
    <3>2. CASE Approve(w, i)
      BY <2>1, <3>1, <3>2 DEF Approve, Settle, TypeInv, TypeOK, Record, Resolutions
    <3>3. CASE Reject(w, i)
      BY <2>1, <3>1, <3>3 DEF Reject, Settle, TypeInv, TypeOK, Record, Resolutions
    <3>4. QED
      BY <1>4, <3>2, <3>3
  <2>3. AllStatus' = [AllStatus EXCEPT ![i] = approvals'[i].status]
    BY <2>1, <2>2, NoneIsNoRecord DEF Status, Stored
  <2>4. QED
    BY <1>1, <2>1, <2>2, <2>3 DEF Lifecycle!Next, Lifecycle!Decide
<1>5. ASSUME NEW w \in Workers, MarkTimeouts(w) PROVE Lifecycle!Next
  <2>1. \A i \in Expired(w) : i \in ApprovalIds /\ Status(i) = "PENDING"
    BY DEF Expired, Pending, Status
  <2>2. ASSUME NEW i \in ApprovalIds
        PROVE  Status(i)' = IF i \in Expired(w) THEN "TIMEOUT" ELSE Status(i)
    <3>1. CASE i \in Expired(w)
      <4>1. approvals'[i] = TimedOut(i, w) /\ approvals[i] \in Record
            /\ checked_at[w] \in Nat
        BY <1>5, <3>1, ClockReadings DEF MarkTimeouts, Expired, Pending, Stored, TypeInv, TypeOK
      <4>2. TimedOut(i, w) \in Record /\ TimedOut(i, w).status = "TIMEOUT"
        BY <4>1 DEF TimedOut, Record, Resolutions
      <4>3. QED
        BY <3>1, <4>1, <4>2, NoneIsNoRecord DEF Status, Stored
    <3>2. CASE i \notin Expired(w)
      BY <1>5, <3>2 DEF MarkTimeouts, Status, Stored
    <3>3. QED
      BY <3>1, <3>2
  <2>3. published' = published
    BY <1>5 DEF MarkTimeouts
  <2>4. Lifecycle!Expire(Expired(w))
    BY <1>1, <2>1, <2>2, <2>3 DEF Lifecycle!Expire
  <2>5. QED
    BY <2>1, <2>4 DEF Lifecycle!Next
<1>6. ASSUME NEW w \in Workers, NEW ev \in outbox[w], EmitResolved(w, ev)
      PROVE  Lifecycle!Next \/ UNCHANGED Lifecycle!approval
  <2>1. ev \in Event
    BY DEF TypeInv, TypeOK
  <2>2. PICK i \in ApprovalIds : i = ev.id
    BY <2>1 DEF Event
  <2>3. /\ Status(i) \in Resolutions /\ ev.resolution = Status(i)
        /\ published[i] = <<>> /\ approvals' = approvals
        /\ published \in [ApprovalIds -> Seq(Event)]
    BY <1>6, <2>1, <2>2
    DEF EmitResolved, EventInv, OutboxOf, Agrees, Status, Event, TypeInv, TypeOK
  <2>4. CASE published' = published
    BY <1>1, <1>2, <2>3, <2>4 DEF Lifecycle!approval
  <2>5. CASE published' = [published EXCEPT ![i] = Append(@, ev)]
    <3>1. published'[i] = <<ev>> /\ \A j \in ApprovalIds : j # i => published'[j] = published[j]
      BY <2>1, <2>3, <2>5
    <3>2. Announced(i) = <<>>
      BY <2>3, NothingTold
    <3>3. Announced(i)' = <<Status(i)>>
      BY <2>3, <3>1 DEF Announced
    <3>4. AllTold' = [AllTold EXCEPT ![i] = <<Status(i)>>]
      BY <3>1, <3>3 DEF Announced
    <3>5. Lifecycle!Announce(i)
      BY <1>2, <2>3, <3>2, <3>4 DEF Lifecycle!Announce, Lifecycle!Resolutions, Resolutions, Announced
    <3>6. QED
      BY <3>5 DEF Lifecycle!Next
  <2>6. QED
    BY <1>6, <2>2, <2>4, <2>5 DEF EmitResolved
<1>7. CASE approvals' = approvals /\ published' = published
  BY <1>1, <1>2, <1>7 DEF Lifecycle!approval
<1>8. QED
  BY <1>3, <1>4, <1>5, <1>6, <1>7
  DEF Next, Request, Proceed, BeginCreate, BeginCheck, Tick, AttachHook, vars

(* ApprovalManager implements ApprovalLifecycle: whatever threads and sweeps *)
(* do, a request is resolved once and then announced at most once.           *)
THEOREM ImplementsLifecycleHolds == Spec => ImplementsLifecycle
  BY InitLifecycle, StepLifecycle, TypeInvariance, DraftInvariance, EventInvariance, PTL
  DEF Spec, ImplementsLifecycle, Lifecycle!Spec
=============================================================================
