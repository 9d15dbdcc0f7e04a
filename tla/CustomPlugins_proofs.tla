------------------------ MODULE CustomPlugins_proofs ------------------------
(***************************************************************************)
(* The guard with a tool and a collector behind it, for any number of      *)
(* calls, any limit and any window: WindowBound and RefusedOnlyWhenFull of *)
(* RateLimitGuard; MetricsExact and NeverOvercounted, what the collector's *)
(* unlocked counters can and cannot lose; and every type.                  *)
(***************************************************************************)
EXTENDS CustomPlugins, FiniteSetTheorems, TLAPS

(* The guard's invariant: while calls do not overlap, an admitted call is    *)
(* missing from the list only if it is out of every window still to come.    *)
Past == \A c \in Calls : current_time[c] <= now

Alone == \A b, c \in Calls : Busy(b) /\ Busy(c) => b = c

HistoryAdmitted == call_history \subseteq Admitted

Latest == \A b \in Calls, c \in Admitted : Busy(b) => current_time[c] <= current_time[b]

Dropped == \A c \in Admitted \ call_history :
              /\ now - current_time[c] >= Window
              /\ \A b \in Calls : Busy(b) => current_time[b] - current_time[c] >= Window

Built == \A b \in Calls : pc[b] = "storing" =>
            kept[b] = {d \in call_history : Fresh(b, current_time[d])}

Cleaned == \A b \in Calls : pc[b] \in {"checking", "recording"} =>
              \A d \in call_history : Fresh(b, current_time[d])

Room == \A b \in Calls : pc[b] = "recording" => Cardinality(call_history) < MaxCalls

Bounded1 == \A c \in Admitted : Cardinality(WindowOf(c)) <= MaxCalls

Full == \A c \in Calls : pc[c] = "refused" => Cardinality(WindowOf(c)) >= MaxCalls

InOrder == /\ Alone /\ HistoryAdmitted /\ Latest /\ Dropped /\ Built /\ Cleaned
           /\ Room /\ Bounded1 /\ Full

Inv == TypeOK /\ Past /\ (~overlapped => InOrder)

-----------------------------------------------------------------------------

(* Any set of calls is finite, and its cardinality a number. *)
LEMMA CallsCount ==
    ASSUME NEW S, S \subseteq Calls
    PROVE  IsFiniteSet(S) /\ Cardinality(S) \in Nat
  <1>1. IsFiniteSet(Calls)
    BY CallsAssumption DEF CallsAssumption
  <1>2. IsFiniteSet(S)
    BY <1>1, FS_Subset
  <1> QED
    BY <1>2, FS_CardinalityType

(* A smaller set of calls has a smaller cardinality. *)
LEMMA Fewer ==
    ASSUME NEW S, NEW T, T \subseteq Calls, S \subseteq T
    PROVE  Cardinality(S) <= Cardinality(T)
  <1>1. IsFiniteSet(T)
    BY CallsCount
  <1> QED
    BY <1>1, FS_Subset

(* A window changes only with the calls let through and their stamps. *)
LEMMA SameWindow ==
    ASSUME NEW c \in Calls, Admitted' = Admitted, current_time'[c] = current_time[c],
           \A d \in Admitted : current_time'[d] = current_time[d]
    PROVE  WindowOf(c)' = WindowOf(c)
  BY DEF WindowOf

(* Types, and stamps that lie in the past, in every step. *)
LEMMA TypeStep ==
    ASSUME TypeOK, Past, [Next]_vars
    PROVE  TypeOK' /\ Past'
  <1> USE DEF TypeOK, Past, Labels, Inside
  <1>1. CASE PassTime
    BY <1>1 DEF PassTime
  <1>2. ASSUME NEW c \in Calls, ReadClock(c)
        PROVE  TypeOK' /\ Past'
    BY <1>2 DEF ReadClock, Jump, Busy
  <1>3. ASSUME NEW c \in Calls, Clean(c)
        PROVE  TypeOK' /\ Past'
    BY <1>3 DEF Clean, Jump
  <1>4. ASSUME NEW c \in Calls, Assign(c)
        PROVE  TypeOK' /\ Past'
    BY <1>4 DEF Assign, Jump
  <1>5. ASSUME NEW c \in Calls, Check(c)
        PROVE  TypeOK' /\ Past'
    BY <1>5 DEF Check, Jump
  <1>6. ASSUME NEW c \in Calls, Record(c)
        PROVE  TypeOK' /\ Past'
    BY <1>6 DEF Record, Jump
  <1>7. CASE UNCHANGED vars
    BY <1>7 DEF vars
  <1> QED
    BY <1>1, <1>2, <1>3, <1>4, <1>5, <1>6, <1>7 DEF Next, Step
-----------------------------------------------------------------------------

(* A call that leaves the idle state does so alone, or the calls overlap: it *)
(* reads the largest stamp so far, and what the list lost lies a window back. *)
LEMMA ClockStep ==
    ASSUME TypeOK, Past, InOrder, NEW c \in Calls, ReadClock(c), ~overlapped'
    PROVE  InOrder'
  <1> USE DEF Inside, Labels
  <1>1. /\ \A d \in Calls : ~Busy(d)
        /\ pc[c] = "idle" /\ pc'[c] = "cleaning" /\ current_time'[c] = now
        /\ \A d \in Calls \ {c} : pc'[d] = pc[d] /\ current_time'[d] = current_time[d]
        /\ UNCHANGED <<now, call_history, kept>>
    BY DEF ReadClock, Jump, TypeOK
  <1>2. Admitted' = Admitted /\ c \notin Admitted /\ Admitted \subseteq Calls
    BY <1>1 DEF Admitted
  <1>3. \A b \in Calls : Busy(b)' => b = c
    BY <1>1 DEF Busy
  <1>4. Alone' /\ Built' /\ Cleaned' /\ Room'
    BY <1>1, <1>3 DEF Alone, Built, Cleaned, Room, Busy
  <1>5. HistoryAdmitted'
    BY <1>1, <1>2 DEF InOrder, HistoryAdmitted
  <1>6. Latest'
    BY <1>1, <1>2, <1>3 DEF Past, Latest
  <1>7. Dropped'
    BY <1>1, <1>2, <1>3 DEF InOrder, Dropped
  <1>8. \A d \in Calls \ {c} : WindowOf(d)' = WindowOf(d)
    BY <1>1, <1>2, SameWindow
  <1>9. Bounded1' /\ Full'
    BY <1>1, <1>2, <1>8 DEF InOrder, Bounded1, Full
  <1> QED
    BY <1>4, <1>5, <1>6, <1>7, <1>9 DEF InOrder

(* What a call builds is the part of the list that is in its window. *)
LEMMA CleanStep ==
    ASSUME TypeOK, Past, InOrder, NEW c \in Calls, Clean(c)
    PROVE  InOrder'
  <1> USE DEF Inside, Labels
  <1>1. /\ pc[c] = "cleaning" /\ pc'[c] = "storing"
        /\ \A d \in Calls \ {c} : pc'[d] = pc[d]
        /\ kept'[c] = {d \in call_history : Fresh(c, current_time[d])}
        /\ UNCHANGED <<now, call_history, current_time>>
    BY DEF Clean, Jump, TypeOK
  <1>2. Admitted' = Admitted /\ Admitted \subseteq Calls
    BY <1>1 DEF Admitted
  <1>3. \A b \in Calls : Busy(b)' = Busy(b)
    BY <1>1 DEF Busy
  <1>4. \A b \in Calls : Busy(b) => b = c
    BY <1>1 DEF InOrder, Alone, Busy
  <1>5. Alone' /\ HistoryAdmitted' /\ Latest' /\ Dropped'
    BY <1>1, <1>2, <1>3 DEF InOrder, Alone, HistoryAdmitted, Latest, Dropped
  <1>6. Built'
    BY <1>1, <1>4 DEF Built, Busy, Fresh
  <1>7. Cleaned' /\ Room'
    BY <1>1, <1>4 DEF Cleaned, Room, Busy
  <1>8. \A d \in Calls : WindowOf(d)' = WindowOf(d)
    BY <1>1, <1>2, SameWindow
  <1>9. Bounded1' /\ Full'
    BY <1>1, <1>2, <1>8 DEF InOrder, Bounded1, Full
  <1> QED
    BY <1>5, <1>6, <1>7, <1>9 DEF InOrder

(* With no other call inside, the assignment loses only stamps that are out *)
(* of the window of this call, and so of every later one.                   *)
LEMMA AssignStep ==
    ASSUME TypeOK, Past, InOrder, NEW c \in Calls, Assign(c)
    PROVE  InOrder'
  <1> USE DEF Inside, Labels
  <1>1. /\ pc[c] = "storing" /\ pc'[c] = "checking"
        /\ \A d \in Calls \ {c} : pc'[d] = pc[d]
        /\ call_history' = {d \in call_history : Fresh(c, current_time[d])}
        /\ UNCHANGED <<now, current_time, kept>>
    BY DEF Assign, Jump, TypeOK, InOrder, Built
  <1>2. Admitted' = Admitted /\ Admitted \subseteq Calls
    BY <1>1 DEF Admitted
  <1>3. \A b \in Calls : Busy(b)' = Busy(b)
    BY <1>1 DEF Busy
  <1>4. \A b \in Calls : Busy(b) => b = c
    BY <1>1 DEF InOrder, Alone, Busy
  <1>5. Alone' /\ HistoryAdmitted' /\ Latest'
    BY <1>1, <1>2, <1>3 DEF InOrder, Alone, HistoryAdmitted, Latest
  <1>6. ASSUME NEW d \in Admitted, d \notin call_history'
        PROVE  now' - current_time'[d] >= Window
               /\ \A b \in Calls : Busy(b)' => current_time'[b] - current_time'[d] >= Window
    <2>1. CASE d \notin call_history
      BY <2>1, <1>1, <1>3 DEF InOrder, Dropped
    <2>2. CASE d \in call_history
      <3>1. ~Fresh(c, current_time[d])
        BY <2>2, <1>1, <1>6
      <3>2. /\ current_time[c] - current_time[d] >= Window /\ current_time[c] <= now
            /\ current_time[c] \in Nat /\ current_time[d] \in Nat /\ now \in Nat
        BY <3>1, <1>2, ConfigAssumption DEF ConfigAssumption, Fresh, TypeOK, Past
      <3> QED
        BY <3>2, <1>1, <1>3, <1>4, ConfigAssumption DEF ConfigAssumption
    <2> QED
      BY <2>1, <2>2
  <1>7. Dropped'
    BY <1>2, <1>6 DEF Dropped
  <1>8. Built' /\ Cleaned' /\ Room'
    BY <1>1, <1>4 DEF Built, Cleaned, Room, Busy, Fresh
  <1>9. \A d \in Calls : WindowOf(d)' = WindowOf(d)
    BY <1>1, <1>2, SameWindow
  <1>10. Bounded1' /\ Full'
    BY <1>1, <1>2, <1>9 DEF InOrder, Bounded1, Full
  <1> QED
    BY <1>5, <1>7, <1>8, <1>10 DEF InOrder

(* The list a call counts is all in its window: a refusal is due to the limit. *)
LEMMA CheckStep ==
    ASSUME TypeOK, Past, InOrder, NEW c \in Calls, Check(c)
    PROVE  InOrder'
  <1> USE DEF Inside, Labels
  <1>1. /\ pc[c] = "checking"
        /\ pc'[c] = IF Cardinality(call_history) >= MaxCalls THEN "refused" ELSE "recording"
        /\ \A d \in Calls \ {c} : pc'[d] = pc[d]
        /\ UNCHANGED <<now, call_history, current_time, kept>>
    BY DEF Check, Jump, TypeOK
  <1>2. Admitted' = Admitted /\ Admitted \subseteq Calls
    BY <1>1 DEF Admitted
  <1>3. \A b \in Calls : Busy(b)' => Busy(b)
    BY <1>1 DEF Busy
  <1>4. \A b \in Calls : Busy(b) => b = c
    BY <1>1 DEF InOrder, Alone, Busy
  <1>5. Alone' /\ HistoryAdmitted' /\ Latest' /\ Dropped'
    BY <1>1, <1>2, <1>3 DEF InOrder, Alone, HistoryAdmitted, Latest, Dropped
  <1>6. Built' /\ Cleaned'
    BY <1>1, <1>4 DEF InOrder, Built, Cleaned, Busy, Fresh
  <1>7. call_history \subseteq Calls /\ Cardinality(call_history) \in Nat
    BY CallsCount DEF TypeOK
  <1>8. Room'
    BY <1>1, <1>4, <1>7, ConfigAssumption DEF ConfigAssumption, Room, Busy
  <1>9. \A d \in Calls : WindowOf(d)' = WindowOf(d)
    BY <1>1, <1>2, SameWindow
  <1>10. Bounded1'
    BY <1>2, <1>9 DEF InOrder, Bounded1
  <1>11. ASSUME NEW d \in Calls, pc'[d] = "refused"
         PROVE  Cardinality(WindowOf(d)') >= MaxCalls
    <2>1. CASE d # c
      BY <2>1, <1>1, <1>9, <1>11 DEF InOrder, Full
    <2>2. CASE d = c
      <3>1. call_history \subseteq WindowOf(c)
        BY <1>1, <1>2 DEF InOrder, HistoryAdmitted, Latest, Cleaned, WindowOf, Busy, Fresh
      <3>2. WindowOf(c) \subseteq Calls
        BY <1>2 DEF WindowOf
      <3>3. Cardinality(call_history) <= Cardinality(WindowOf(c))
        BY <3>1, <3>2, Fewer
      <3>4. Cardinality(WindowOf(c)) \in Nat
        BY <3>2, CallsCount
      <3>5. Cardinality(call_history) >= MaxCalls
        BY <2>2, <1>1, <1>11
      <3> QED
        BY <2>2, <3>3, <3>4, <3>5, <1>7, <1>9, ConfigAssumption DEF ConfigAssumption
    <2> QED
      BY <2>1, <2>2
  <1>12. Full'
    BY <1>11 DEF Full
  <1> QED
    BY <1>5, <1>6, <1>8, <1>10, <1>12 DEF InOrder

(* A call that is let through is the latest: it counts in its own window and  *)
(* in those of its own instant, and these hold what is in the list.           *)
LEMMA RecordStep ==
    ASSUME TypeOK, Past, InOrder, NEW c \in Calls, Record(c)
    PROVE  InOrder'
  <1> USE DEF Inside, Labels
  <1>1. /\ pc[c] = "recording" /\ pc'[c] = "admitted"
        /\ \A d \in Calls \ {c} : pc'[d] = pc[d]
        /\ call_history' = call_history \cup {c}
        /\ UNCHANGED <<now, current_time, kept>>
    BY DEF Record, Jump, TypeOK
  <1>2. Admitted' = Admitted \cup {c} /\ Admitted \subseteq Calls
    BY <1>1 DEF Admitted
  <1>3. Busy(c) /\ \A b \in Calls : Busy(b) => b = c
    BY <1>1 DEF InOrder, Alone, Busy
  <1>4. \A b \in Calls : ~Busy(b)'
    BY <1>1, <1>3 DEF Busy
  <1>5. Alone' /\ Latest' /\ Built' /\ Cleaned' /\ Room'
    BY <1>2, <1>4 DEF Alone, Latest, Built, Cleaned, Room, Busy
  <1>6. HistoryAdmitted' /\ Dropped'
    BY <1>1, <1>2, <1>4 DEF InOrder, HistoryAdmitted, Dropped
  <1>7. Cardinality(call_history \cup {c}) <= MaxCalls
    <2>1. IsFiniteSet(call_history) /\ Cardinality(call_history) \in Nat
      BY CallsCount DEF TypeOK
    <2>2. Cardinality(call_history) < MaxCalls
      BY <1>1 DEF InOrder, Room
    <2>3. Cardinality(call_history \cup {c}) =
              IF c \in call_history THEN Cardinality(call_history)
                                    ELSE Cardinality(call_history) + 1
      BY <2>1, FS_AddElement
    <2> QED
      BY <2>1, <2>2, <2>3, ConfigAssumption DEF ConfigAssumption
  <1>8. \A d \in Calls : current_time[d] \in Nat
    BY DEF TypeOK
  <1>9. \A d \in Calls : WindowOf(d)' =
            {e \in Admitted \cup {c} : /\ current_time[e] <= current_time[d]
                                       /\ current_time[d] - current_time[e] < Window}
    BY <1>1, <1>2 DEF WindowOf
  <1>10. ASSUME NEW d \in Admitted'
         PROVE  Cardinality(WindowOf(d)') <= MaxCalls
    <2>1. d \in Calls /\ current_time[d] <= current_time[c]
      BY <1>2, <1>3, <1>8 DEF InOrder, Latest
    <2>2. CASE current_time[d] = current_time[c]
      <3>1. ASSUME NEW e \in Admitted, e \notin call_history
            PROVE  e \notin WindowOf(d)'
        <4>1. e \in Calls /\ current_time[c] - current_time[e] >= Window
          BY <3>1, <1>2, <1>3 DEF InOrder, Dropped
        <4> QED
          BY <4>1, <2>1, <2>2, <1>8, <1>9, ConfigAssumption DEF ConfigAssumption
      <3>2. WindowOf(d)' \subseteq call_history \cup {c}
        BY <2>1, <3>1, <1>9
      <3>3. call_history \cup {c} \subseteq Calls
        BY DEF TypeOK
      <3>4. Cardinality(WindowOf(d)') <= Cardinality(call_history \cup {c})
        BY <3>2, <3>3, Fewer
      <3>5. Cardinality(WindowOf(d)') \in Nat /\ Cardinality(call_history \cup {c}) \in Nat
        BY <3>2, <3>3, CallsCount
      <3> QED
        BY <3>4, <3>5, <1>7, ConfigAssumption DEF ConfigAssumption
    <2>3. CASE current_time[d] < current_time[c]
      <3>1. WindowOf(d)' = WindowOf(d)
        BY <2>1, <2>3, <1>8, <1>9 DEF WindowOf
      <3>2. d \in Admitted
        BY <2>3, <1>2, <1>8
      <3> QED
        BY <3>1, <3>2 DEF InOrder, Bounded1
    <2> QED
      BY <2>1, <2>2, <2>3, <1>8
  <1>11. ASSUME NEW d \in Calls, pc'[d] = "refused"
         PROVE  Cardinality(WindowOf(d)') >= MaxCalls
    <2>1. Cardinality(WindowOf(d)) >= MaxCalls
      BY <1>1, <1>11 DEF InOrder, Full
    <2>2. WindowOf(d) \subseteq WindowOf(d)' /\ WindowOf(d)' \subseteq Calls
      BY <1>2, <1>9 DEF WindowOf
    <2>3. Cardinality(WindowOf(d)) <= Cardinality(WindowOf(d)')
      BY <2>2, Fewer
    <2>4. Cardinality(WindowOf(d)) \in Nat /\ Cardinality(WindowOf(d)') \in Nat
      BY <2>2, CallsCount
    <2> QED
      BY <2>1, <2>3, <2>4, ConfigAssumption DEF ConfigAssumption
  <1>12. Bounded1' /\ Full'
    BY <1>10, <1>11 DEF Bounded1, Full
  <1> QED
    BY <1>5, <1>6, <1>12 DEF InOrder

(* Time moves no stamp into a window. *)
LEMMA PassStep ==
    ASSUME TypeOK, Past, InOrder, PassTime
    PROVE  InOrder'
  <1>1. now' \in Nat /\ now \in Nat /\ now' > now
    BY DEF PassTime, TypeOK
  <1>2. UNCHANGED <<call_history, pc, current_time, kept>>
    BY DEF PassTime
  <1>3. Admitted' = Admitted /\ Admitted \subseteq Calls
    BY <1>2 DEF Admitted
  <1>4. \A b \in Calls : Busy(b)' = Busy(b) /\ current_time[b] \in Nat
    BY <1>2 DEF Busy, TypeOK
  <1>5. Alone' /\ HistoryAdmitted' /\ Latest'
    BY <1>2, <1>3, <1>4 DEF InOrder, Alone, HistoryAdmitted, Latest
  <1>6. Dropped'
    BY <1>1, <1>2, <1>3, <1>4, ConfigAssumption DEF ConfigAssumption, InOrder, Dropped
  <1>7. Built' /\ Cleaned' /\ Room'
    BY <1>2 DEF InOrder, Built, Cleaned, Room, Fresh
  <1>8. \A d \in Calls : WindowOf(d)' = WindowOf(d)
    BY <1>2, <1>3, SameWindow
  <1>9. Bounded1' /\ Full'
    BY <1>2, <1>3, <1>8 DEF InOrder, Bounded1, Full
  <1> QED
    BY <1>5, <1>6, <1>7, <1>9 DEF InOrder

(* The tool and the collector change nothing of the guard. *)
LEMMA OutsideStep ==
    ASSUME InOrder, UNCHANGED vars
    PROVE  InOrder'
  <1>1. UNCHANGED <<now, call_history, pc, current_time, kept>>
    BY DEF vars
  <1>2. /\ Admitted' = Admitted /\ Admitted \subseteq Calls
        /\ \A b \in Calls : Busy(b)' = Busy(b)
    BY <1>1 DEF Admitted, Busy
  <1>3. \A d \in Calls : WindowOf(d)' = WindowOf(d)
    BY <1>1, <1>2, SameWindow
  <1>4. Alone' /\ HistoryAdmitted' /\ Latest' /\ Dropped'
    BY <1>1, <1>2 DEF InOrder, Alone, HistoryAdmitted, Latest, Dropped
  <1>5. Built' /\ Cleaned' /\ Room'
    BY <1>1 DEF InOrder, Built, Cleaned, Room, Fresh
  <1>6. Bounded1' /\ Full'
    BY <1>1, <1>2, <1>3 DEF InOrder, Bounded1, Full
  <1> QED
    BY <1>4, <1>5, <1>6 DEF InOrder
-----------------------------------------------------------------------------

(* The invariant holds when nothing has been called. *)
LEMMA InvInit ==
    ASSUME Init
    PROVE  Inv
  <1> USE DEF Init, Labels, Inside
  <1>1. TypeOK
    BY DEF TypeOK
  <1>2. Past
    BY DEF Past
  <1>3. Admitted = {} /\ \A c \in Calls : ~Busy(c)
    BY DEF Admitted, Busy
  <1>4. Alone /\ HistoryAdmitted /\ Latest /\ Dropped
    BY <1>3 DEF Alone, HistoryAdmitted, Latest, Dropped
  <1>5. Built /\ Cleaned /\ Room /\ Bounded1 /\ Full
    BY <1>3 DEF Built, Cleaned, Room, Bounded1, Full
  <1> QED
    BY <1>1, <1>2, <1>4, <1>5 DEF Inv, InOrder

(* Every step of the guard keeps the invariant. *)
LEMMA InvStep ==
    ASSUME Inv, [Next]_vars
    PROVE  Inv'
  <1>1. TypeOK' /\ Past'
    BY TypeStep DEF Inv
  <1>2. ASSUME ~overlapped'
        PROVE  InOrder'
    <2>1. ASSUME NEW c \in Calls, ReadClock(c)
          PROVE  ~overlapped
      BY <1>2, <2>1 DEF ReadClock, Inv, TypeOK
    <2>2. ~overlapped
      BY <1>2, <2>1 DEF Next, Step, PassTime, Clean, Assign, Check, Record, vars
    <2>3. TypeOK /\ Past /\ InOrder
      BY <2>2 DEF Inv
    <2>4. CASE PassTime
      BY <2>3, <2>4, PassStep
    <2>5. ASSUME NEW c \in Calls, Step(c)
          PROVE  InOrder'
      <3>1. CASE ReadClock(c)
        BY <3>1, <2>3, <1>2, ClockStep
      <3>2. CASE Clean(c)
        BY <3>2, <2>3, CleanStep
      <3>3. CASE Assign(c)
        BY <3>3, <2>3, AssignStep
      <3>4. CASE Check(c)
        BY <3>4, <2>3, CheckStep
      <3>5. CASE Record(c)
        BY <3>5, <2>3, RecordStep
      <3> QED
        BY <2>5, <3>1, <3>2, <3>3, <3>4, <3>5 DEF Step
    <2>6. CASE UNCHANGED vars
      BY <2>3, <2>6, OutsideStep
    <2> QED
      BY <2>4, <2>5, <2>6 DEF Next
  <1> QED
    BY <1>1, <1>2 DEF Inv

(* A step of the system is a step of the guard, or the guard stands still. *)
LEMMA SystemStep ==
    ASSUME [SystemNext]_systemVars
    PROVE  [Next]_vars
  <1>1. ASSUME NEW c \in Calls, ToolRaises(c) \/ EnterCollector(c)
        PROVE  UNCHANGED vars
    BY <1>1 DEF ToolRaises, EnterCollector
  <1>2. ASSUME NEW c \in Calls, LoadTotal(c) \/ StoreTotal(c) \/ LoadSuccess(c) \/ StoreSuccess(c)
        PROVE  UNCHANGED vars
    BY <1>2 DEF LoadTotal, StoreTotal, LoadSuccess, StoreSuccess, Load, Store
  <1> QED
    BY <1>1, <1>2 DEF SystemNext, systemVars, Next

(* The inductive invariant, for every number of calls, limit and window. *)
THEOREM InvHolds == SystemSpec => []Inv
  <1>1. SystemInit => Inv
    BY InvInit DEF SystemInit
  <1>2. Inv /\ [SystemNext]_systemVars => Inv'
    BY SystemStep, InvStep
  <1> QED
    BY <1>1, <1>2, PTL DEF SystemSpec

(* The rate limit: no window of any call holds more than max_calls calls that *)
(* were let through, whatever the clock did between them.                     *)
THEOREM WindowBoundHolds == SystemSpec => []WindowBound
  <1>1. Inv => WindowBound
    BY DEF Inv, InOrder, Bounded1, WindowBound
  <1> QED
    BY <1>1, InvHolds, PTL

(* No call is refused without max_calls calls let through in its window. *)
THEOREM RefusedOnlyWhenFullHolds == SystemSpec => []RefusedOnlyWhenFull
  <1>1. Inv => RefusedOnlyWhenFull
    BY DEF Inv, InOrder, Full, RefusedOnlyWhenFull
  <1> QED
    BY <1>1, InvHolds, PTL

-----------------------------------------------------------------------------
(* The collector                                                             *)
(*                                                                           *)
(* The invariant bounds what a call has read, not only what is stored: a     *)
(* stored count comes from a value read earlier.                             *)

Places == {"tool", "raised", "load_total", "store_total", "load_success",
           "store_success", "counted"}

CountType ==
    /\ at \in [Calls -> Places]
    /\ metrics \in [Counters -> Nat]
    /\ read \in [Calls -> Nat]

(* The counter a call is about to store.                                     *)
Storing(c, k) ==
    \/ k = "total_executions" /\ at[c] = "store_total"
    \/ k = "successful_executions" /\ at[c] = "store_success"

(* No value is ahead of the calls it counts, and a count is never zero again.*)
Behind ==
    \A k \in Counters :
        /\ metrics[k] <= Cardinality(Added[k])
        /\ Added[k] # {} => metrics[k] >= 1
        /\ \A c \in Calls : Storing(c, k) => read[c] <= Cardinality(Added[k])

(* A call alone in the collector reads and stores exact values.              *)
AloneInside == \A b, c \in Calls : InCollector(b) /\ InCollector(c) => b = c
Exact ==
    \A k \in Counters :
        /\ metrics[k] = Cardinality(Added[k])
        /\ \A c \in Calls : Storing(c, k) => read[c] = metrics[k]

CountInv == CountType /\ Behind /\ (~crowded => AloneInside /\ Exact)

-----------------------------------------------------------------------------
(* Counting *)

(* The calls a counter should have added are finitely many.                  *)
LEMMA AddedIsFinite ==
    ASSUME NEW k \in Counters
    PROVE  IsFiniteSet(Added[k]) /\ Cardinality(Added[k]) \in Nat
  <1>1. Added[k] \subseteq Calls
    BY DEF Added, Counters
  <1>2. IsFiniteSet(Added[k])
    BY <1>1, CallsAssumption, FS_Subset DEF CallsAssumption
  <1> QED
    BY <1>2, FS_CardinalityType

(* A call that moves without storing a count changes no Added.               *)
LEMMA SameAdded ==
    ASSUME CountType, NEW c \in Calls, NEW from, NEW to \in Places, Move(c, from, to),
           <<from, to>> \in {<<"tool", "raised">>, <<"tool", "load_total">>,
                             <<"load_total", "store_total">>, <<"load_success", "store_success">>}
    PROVE  \A k \in Counters : Added'[k] = Added[k]
  BY DEF CountType, Move, Added, Counters

(* Storing a count adds the call to it and to no other.                      *)
LEMMA OneAdded ==
    ASSUME CountType, NEW c \in Calls, NEW k \in Counters, Storing(c, k),
           at' = [at EXCEPT ![c] =
                    IF k = "total_executions" THEN "load_success" ELSE "counted"]
    PROVE  /\ Added'[k] = Added[k] \cup {c} /\ c \notin Added[k]
           /\ \A j \in Counters : j # k => Added'[j] = Added[j]
  <1>1. CASE k = "total_executions"
    BY <1>1 DEF CountType, Storing, Added, Counters
  <1>2. CASE k = "successful_executions"
    BY <1>2 DEF CountType, Storing, Added, Counters
  <1> QED
    BY <1>1, <1>2 DEF Counters

-----------------------------------------------------------------------------
(* Steps *)

(* The initial state. *)
LEMMA InitCount == SystemInit => CountInv
  <1> SUFFICES ASSUME SystemInit PROVE CountInv
    OBVIOUS
  <1>1. \A k \in Counters : Added[k] = {} /\ metrics[k] = 0
    BY DEF SystemInit, Added, Counters
  <1>2. Cardinality({}) = 0
    BY FS_EmptySet
  <1>3. \A c \in Calls : at[c] = "tool"
    BY DEF SystemInit
  <1>4. CountType
    BY DEF SystemInit, CountType, Places
  <1>5. Behind
    BY <1>1, <1>2, <1>3 DEF Behind, Storing
  <1>6. AloneInside /\ Exact
    BY <1>1, <1>2, <1>3 DEF AloneInside, InCollector, Exact, Storing
  <1> QED
    BY <1>4, <1>5, <1>6 DEF CountInv

(* A step that only moves a call: into the tool's exception, or into the     *)
(* collector.                                                                *)
LEMMA EnterStep ==
    ASSUME CountInv, NEW c \in Calls, ToolRaises(c) \/ EnterCollector(c)
    PROVE  CountInv'
  <1>1. /\ at[c] = "tool" /\ UNCHANGED <<metrics, read>>
        /\ \/ at' = [at EXCEPT ![c] = "raised"] /\ crowded' = crowded
           \/ /\ at' = [at EXCEPT ![c] = "load_total"]
              /\ crowded' = (crowded \/ \E d \in Calls : InCollector(d))
    BY DEF ToolRaises, EnterCollector, Move
  <1>2. \A k \in Counters : Added'[k] = Added[k]
    BY SameAdded DEF ToolRaises, EnterCollector, CountInv, Places
  <1>3. CountType'
    BY <1>1 DEF CountInv, CountType, Places
  <1>4. \A d \in Calls, k \in Counters : Storing(d, k)' => Storing(d, k)
    BY <1>1 DEF Storing, CountInv, CountType
  <1>5. Behind'
    BY <1>1, <1>2, <1>4 DEF CountInv, Behind
  <1>6. ASSUME ~crowded' PROVE AloneInside' /\ Exact'
    <2>1. ~crowded
      BY <1>1, <1>6
    <2>2. Exact'
      BY <1>1, <1>2, <1>4, <2>1 DEF CountInv, Exact
    <2>3. AloneInside'
      BY <1>1, <1>6, <2>1 DEF CountInv, CountType, AloneInside, InCollector
    <2> QED
      BY <2>2, <2>3
  <1> QED
    BY <1>3, <1>5, <1>6 DEF CountInv

(* The += reads the count.                                                   *)
LEMMA LoadStep ==
    ASSUME CountInv, NEW c \in Calls, LoadTotal(c) \/ LoadSuccess(c)
    PROVE  CountInv'
  <1>1. PICK k \in Counters :
          /\ at[c] = IF k = "total_executions" THEN "load_total" ELSE "load_success"
          /\ at' = [at EXCEPT ![c] =
                      IF k = "total_executions" THEN "store_total" ELSE "store_success"]
          /\ read' = [read EXCEPT ![c] = metrics[k]]
          /\ UNCHANGED <<metrics, crowded>>
    BY DEF LoadTotal, LoadSuccess, Load, Move, Counters
  <1>2. \A j \in Counters : Added'[j] = Added[j]
    BY SameAdded DEF LoadTotal, LoadSuccess, Load, CountInv, Places
  <1>3. CountType'
    BY <1>1 DEF CountInv, CountType, Places
  <1>4. \A j \in Counters : Storing(c, j)' => j = k
    BY <1>1 DEF Storing, CountInv, CountType, Counters
  <1>5. \A d \in Calls, j \in Counters : d # c => (Storing(d, j)' <=> Storing(d, j))
    BY <1>1 DEF Storing, CountInv, CountType
  <1>6. read'[c] = metrics[k] /\ \A d \in Calls : d # c => read'[d] = read[d]
    BY <1>1 DEF CountInv, CountType
  <1>7. Behind'
    BY <1>1, <1>2, <1>4, <1>5, <1>6 DEF CountInv, Behind
  <1>8. ASSUME ~crowded PROVE AloneInside' /\ Exact'
    <2>1. Exact'
      BY <1>1, <1>2, <1>4, <1>5, <1>6, <1>8 DEF CountInv, Exact
    <2>2. \A d \in Calls : InCollector(d)' <=> InCollector(d)
      BY <1>1 DEF CountInv, CountType, InCollector
    <2> QED
      BY <1>8, <2>1, <2>2 DEF CountInv, AloneInside
  <1> QED
    BY <1>1, <1>3, <1>7, <1>8 DEF CountInv

(* The += writes the value it read, plus one.                                *)
LEMMA StoreStep ==
    ASSUME CountInv, NEW c \in Calls, StoreTotal(c) \/ StoreSuccess(c)
    PROVE  CountInv'
  <1>1. PICK k \in Counters :
          /\ Storing(c, k)
          /\ at' = [at EXCEPT ![c] =
                      IF k = "total_executions" THEN "load_success" ELSE "counted"]
          /\ metrics' = [metrics EXCEPT ![k] = read[c] + 1]
          /\ UNCHANGED <<read, crowded>>
    BY DEF StoreTotal, StoreSuccess, Store, Move, Counters, Storing
  <1>2. /\ Added'[k] = Added[k] \cup {c} /\ c \notin Added[k]
        /\ \A j \in Counters : j # k => Added'[j] = Added[j]
    BY <1>1, OneAdded DEF CountInv
  <1>3. Cardinality(Added'[k]) = Cardinality(Added[k]) + 1
    BY <1>2, AddedIsFinite, FS_AddElement
  <1>4. metrics'[k] = read[c] + 1 /\ \A j \in Counters : j # k => metrics'[j] = metrics[j]
    BY <1>1 DEF CountInv, CountType
  <1>5. CountType'
    BY <1>1 DEF CountInv, CountType, Places
  <1>6. \A d \in Calls, j \in Counters : Storing(d, j)' => d # c /\ Storing(d, j)
    BY <1>1 DEF Storing, CountInv, CountType
  <1>7. \A j \in Counters : Cardinality(Added[j]) \in Nat
    BY AddedIsFinite
  <1>8. read[c] \in Nat /\ read[c] <= Cardinality(Added[k])
    BY <1>1 DEF CountInv, CountType, Behind
  <1>9. Behind'
    <2> SUFFICES ASSUME NEW j \in Counters
                 PROVE  /\ metrics'[j] <= Cardinality(Added'[j])
                        /\ Added'[j] # {} => metrics'[j] >= 1
                        /\ \A d \in Calls : Storing(d, j)' => read[d] <= Cardinality(Added'[j])
      BY <1>1 DEF Behind
    <2>1. \A d \in Calls : Storing(d, j)' => read[d] \in Nat /\ read[d] <= Cardinality(Added[j])
      BY <1>6 DEF CountInv, CountType, Behind
    <2>2. CASE j = k
      BY <1>3, <1>4, <1>7, <1>8, <2>1, <2>2
    <2>3. CASE j # k
      BY <1>2, <1>4, <2>1, <2>3 DEF CountInv, Behind
    <2> QED
      BY <2>2, <2>3
  <1>10. ASSUME ~crowded PROVE AloneInside' /\ Exact'
    <2>1. AloneInside /\ Exact
      BY <1>10 DEF CountInv
    <2>2. \A d \in Calls : InCollector(d)' => InCollector(d)
      BY <1>1 DEF CountInv, CountType, InCollector, Storing
    <2>3. InCollector(c)
      BY <1>1 DEF InCollector, Storing
    <2>4. \A d \in Calls, j \in Counters : ~Storing(d, j)'
      BY <1>6, <2>1, <2>3 DEF AloneInside, Storing, InCollector
    <2>5. AloneInside'
      BY <2>1, <2>2 DEF AloneInside
    <2>6. Exact'
      BY <1>1, <1>2, <1>3, <1>4, <2>1, <2>4 DEF Exact
    <2> QED
      BY <2>5, <2>6
  <1> QED
    BY <1>1, <1>5, <1>9, <1>10 DEF CountInv

(* The guard and the clock leave the collector alone.                        *)
LEMMA CountFrame ==
    ASSUME CountInv, UNCHANGED counting
    PROVE  CountInv'
  <1>1. UNCHANGED <<at, metrics, read, crowded>>
    BY DEF counting
  <1>2. \A k \in Counters : Added'[k] = Added[k]
    BY <1>1 DEF Added, Counters
  <1>3. CountType'
    BY <1>1 DEF CountInv, CountType
  <1>4. Behind'
    BY <1>1, <1>2 DEF CountInv, Behind, Storing
  <1>5. ~crowded => AloneInside' /\ Exact'
    BY <1>1, <1>2 DEF CountInv, AloneInside, InCollector, Exact, Storing
  <1> QED
    BY <1>1, <1>3, <1>4, <1>5 DEF CountInv

(* Every step keeps the invariant. *)
LEMMA NextCount == CountInv /\ [SystemNext]_systemVars => CountInv'
  BY EnterStep, LoadStep, StoreStep, CountFrame DEF SystemNext, systemVars

(* While no two calls are ever in the collector at once, its metrics are     *)
(* exactly the calls whose tool returned.                                    *)
THEOREM MetricsExactHolds == SystemSpec => []MetricsExact
  <1>1. CountInv => MetricsExact
    BY DEF CountInv, Exact, MetricsExact
  <1> QED
    BY <1>1, InitCount, NextCount, PTL DEF SystemSpec

(* However calls interleave in it, a counter never invents an execution, and *)
(* never loses all of them.                                                  *)
THEOREM NeverOvercountedHolds == SystemSpec => []NeverOvercounted
  <1>1. CountInv => NeverOvercounted
    BY DEF CountInv, Behind, NeverOvercounted
  <1> QED
    BY <1>1, InitCount, NextCount, PTL DEF SystemSpec

(* Guard and collector keep their types, however the calls interleave.       *)
THEOREM SystemTypeCorrect == SystemSpec => []SystemTypeOK
  <1>1. SystemInit => crowded \in BOOLEAN
    BY DEF SystemInit
  <1>2. crowded \in BOOLEAN /\ [SystemNext]_systemVars => (crowded \in BOOLEAN)'
    BY DEF SystemNext, systemVars, counting, ToolRaises, EnterCollector, LoadTotal, StoreTotal,
       LoadSuccess, StoreSuccess, Load, Store
  <1>3. Inv /\ CountInv /\ crowded \in BOOLEAN => SystemTypeOK
    BY DEF Inv, CountInv, CountType, Places, SystemTypeOK
  <1>4. SystemInit => CountInv
    BY InitCount
  <1>5. CountInv /\ [SystemNext]_systemVars => CountInv'
    BY NextCount
  <1> QED
    BY <1>1, <1>2, <1>3, <1>4, <1>5, InvHolds, PTL DEF SystemSpec
=============================================================================
