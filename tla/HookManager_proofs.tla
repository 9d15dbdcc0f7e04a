------------------------- MODULE HookManager_proofs -------------------------
(***************************************************************************)
(* Delivery, for any number of threads, handlers, event types and nested   *)
(* emissions.                                                              *)
(*                                                                         *)
(* The invariant follows each run of emit: it works on the handlers that   *)
(* were subscribed when it began, it has called as many of them as have    *)
(* returned, and the one that is running; and no other run shares its id.  *)
(***************************************************************************)
EXTENDS HookManager, WellFoundedInduction, TLAPS

Called(em) == IF em.running THEN em.returned + 1 ELSE em.returned

HeardFirst(d, h, id, n) == Len(h[id]) = n /\ \A i \in 1 .. n : h[id][i] = d[id][i]

OnCourse(d, h, em) ==
    /\ em.id \in DOMAIN d /\ em.copy = d[em.id]
    /\ Called(em) <= Len(em.copy)
    /\ HeardFirst(d, h, em.id, Called(em))

AllOnCourse ==
    \A w \in Threads : \A k \in DOMAIN stack[w] : OnCourse(due, heard, stack[w][k])

OneRun ==
    \A v, w \in Threads : \A j \in DOMAIN stack[v], k \in DOMAIN stack[w] :
        stack[v][j].id = stack[w][k].id => v = w /\ j = k

Done == \A id \in DOMAIN due : ~Active(id) => heard[id] = due[id]

Inv == TypeOK /\ AllOnCourse /\ OneRun /\ Done

-----------------------------------------------------------------------------
(* Sequences *)

(* What is left of a sequence without its last element.                      *)
LEMMA FrontOf ==
    ASSUME NEW S, NEW s \in Seq(S), s # <<>>
    PROVE  /\ Front(s) \in Seq(S) /\ Len(Front(s)) = Len(s) - 1
           /\ \A k \in 1 .. Len(s) - 1 : Front(s)[k] = s[k]
           /\ Last(s) \in S
  <1>1. Len(s) \in Nat /\ Len(s) # 0
    OBVIOUS
  <1>2. /\ SubSeq(s, 1, Len(s) - 1) \in Seq(S)
        /\ Len(SubSeq(s, 1, Len(s) - 1)) = Len(s) - 1
        /\ \A k \in 1 .. Len(s) - 1 : SubSeq(s, 1, Len(s) - 1)[k] = s[k]
    <2>1. \A k \in 1 .. Len(s) - 1 : s[k] \in S
      BY <1>1
    <2>2. SubSeq(s, 1, Len(s) - 1) = [k \in 1 .. Len(s) - 1 |-> s[k]]
      BY <1>1
    <2>3. PICK n \in Nat : n = Len(s) - 1
      BY <1>1
    <2>4. SubSeq(s, 1, n) \in [1 .. n -> S]
      BY <2>1, <2>2, <2>3
    <2>5. \A r \in [1 .. n -> S] : r \in Seq(S) /\ Len(r) = n
      OBVIOUS
    <2> QED
      BY <2>2, <2>3, <2>4, <2>5
  <1>3. s[Len(s)] \in S
    BY <1>1
  <1> QED
    BY <1>2, <1>3 DEF Front, Last

(* Changing the last element of a sequence.                                  *)
LEMMA ChangeLast ==
    ASSUME NEW S, NEW s \in Seq(S), s # <<>>, NEW e \in S
    PROVE  /\ Append(Front(s), e) \in Seq(S)
           /\ Len(Append(Front(s), e)) = Len(s)
           /\ \A k \in 1 .. Len(s) :
                 Append(Front(s), e)[k] = IF k = Len(s) THEN e ELSE s[k]
  BY FrontOf

(* A nonempty set of numbers has a least one.                                *)
LEMMA Least ==
    ASSUME NEW T, T \subseteq Nat, T # {}
    PROVE  \E x \in T : \A y \in T : x <= y
  <1>1. \E x \in T : \A y \in T : ~ (<<y, x>> \in OpToRel(<, Nat))
    BY NatLessThanWellFounded, WFMin
  <1>2. PICK x \in T : \A y \in T : ~ (<<y, x>> \in OpToRel(<, Nat))
    BY <1>1
  <1>3. \A y \in T : <<y, x>> \in OpToRel(<, Nat) <=> y < x
    BY DEF OpToRel
  <1>4. \A y \in T : ~ (y < x)
    BY <1>2, <1>3, Zenon
  <1>5. x \in Nat /\ \A y \in T : y \in Nat
    OBVIOUS
  <1> QED
    BY <1>4, <1>5

(* list.remove leaves a list of handlers.                                    *)
LEMMA RemoveFirstType ==
    ASSUME NEW s \in Seq(Handlers), NEW h
    PROVE  RemoveFirst(s, h) \in Seq(Handlers)
  <1> DEFINE I == {i \in 1 .. Len(s) : s[i] = h}
  <1>1. CASE I = {}
    BY <1>1 DEF RemoveFirst
  <1>2. CASE I # {}
    <2>1. Min(I) \in I
      <3>1. I \subseteq Nat
        OBVIOUS
      <3>2. \E x \in I : \A y \in I : x <= y
        BY <1>2, <3>1, Least
      <3> HIDE DEF I
      <3> QED
        BY <3>2 DEF Min
    <2>2. RemoveFirst(s, h) = RemoveAt(s, Min(I))
      BY <1>2 DEF RemoveFirst, SelectInSeq
    <2>3. ASSUME NEW i \in 1 .. Len(s) PROVE RemoveAt(s, i) \in Seq(Handlers)
      <3>1. SubSeq(s, 1, i - 1) \in Seq(Handlers)
        OBVIOUS
      <3>2. SubSeq(s, i + 1, Len(s)) \in Seq(Handlers)
        OBVIOUS
      <3> QED
        BY <3>1, <3>2 DEF RemoveAt
    <2> QED
      BY <2>1, <2>2, <2>3
  <1> QED
    BY <1>1, <1>2

-----------------------------------------------------------------------------
(* Types *)

(* Replacing the innermost emission of a thread.                             *)
LEMMA UpdateEffect ==
    ASSUME TypeOK, NEW w \in Threads, stack[w] # <<>>, NEW em \in Emission, Update(w, em)
    PROVE  /\ stack' \in [Threads -> Seq(Emission)]
           /\ Len(stack'[w]) = Len(stack[w])
           /\ \A k \in DOMAIN stack[w] :
                 stack'[w][k] = IF k = Len(stack[w]) THEN em ELSE stack[w][k]
           /\ \A v \in Threads : v # w => stack'[v] = stack[v]
  <1>1. stack[w] \in Seq(Emission) /\ stack \in [Threads -> Seq(Emission)]
    BY DEF TypeOK
  <1>2. /\ Append(Front(stack[w]), em) \in Seq(Emission)
        /\ Len(Append(Front(stack[w]), em)) = Len(stack[w])
        /\ \A k \in 1 .. Len(stack[w]) : Append(Front(stack[w]), em)[k] =
              IF k = Len(stack[w]) THEN em ELSE stack[w][k]
    BY <1>1, ChangeLast
  <1>3. stack' = [stack EXCEPT ![w] = Append(Front(stack[w]), em)]
    BY DEF Update
  <1>4. DOMAIN stack[w] = 1 .. Len(stack[w])
    BY <1>1
  <1>5. stack'[w] = Append(Front(stack[w]), em) /\ \A v \in Threads : v # w => stack'[v] = stack[v]
    BY <1>1, <1>3
  <1>6. stack' \in [Threads -> Seq(Emission)]
    BY <1>1, <1>2, <1>3
  <1> QED
    BY <1>2, <1>4, <1>5, <1>6

(* The innermost emission of a thread.                                       *)
LEMMA CurrentType ==
    ASSUME TypeOK, NEW w \in Threads, stack[w] # <<>>
    PROVE  /\ Len(stack[w]) \in DOMAIN stack[w] /\ Current(w) = stack[w][Len(stack[w])]
           /\ Current(w) \in Emission
  <1>1. stack[w] \in Seq(Emission)
    BY DEF TypeOK
  <1>2. Len(stack[w]) \in Nat /\ Len(stack[w]) # 0
    BY <1>1
  <1> QED
    BY <1>1, <1>2 DEF Current, Last

(* An emission ends.                                                         *)
LEMMA PopEffect ==
    ASSUME TypeOK, NEW w \in Threads, stack[w] # <<>>,
           stack' = [stack EXCEPT ![w] = Front(@)]
    PROVE  /\ stack' \in [Threads -> Seq(Emission)]
           /\ DOMAIN stack'[w] = DOMAIN stack[w] \ {Len(stack[w])}
           /\ \A k \in DOMAIN stack'[w] : stack'[w][k] = stack[w][k]
           /\ \A v \in Threads : v # w => stack'[v] = stack[v]
  <1>1. stack[w] \in Seq(Emission) /\ stack \in [Threads -> Seq(Emission)]
    BY DEF TypeOK
  <1>2. /\ Front(stack[w]) \in Seq(Emission) /\ Len(Front(stack[w])) = Len(stack[w]) - 1
        /\ \A k \in 1 .. Len(stack[w]) - 1 : Front(stack[w])[k] = stack[w][k]
    BY <1>1, FrontOf
  <1>3. stack'[w] = Front(stack[w]) /\ \A v \in Threads : v # w => stack'[v] = stack[v]
    BY <1>1
  <1>4. stack' \in [Threads -> Seq(Emission)]
    BY <1>1, <1>2
  <1>5. DOMAIN Front(stack[w]) = 1 .. Len(stack[w]) - 1
    BY <1>2
  <1>6. 1 .. Len(stack[w]) - 1 = (1 .. Len(stack[w])) \ {Len(stack[w])}
    BY <1>1
  <1>7. DOMAIN stack[w] = 1 .. Len(stack[w])
    BY <1>1
  <1> QED
    BY <1>2, <1>3, <1>4, <1>5, <1>6, <1>7

(* An emission begins.                                                       *)
LEMMA PushEffect ==
    ASSUME TypeOK, NEW w \in Threads, NEW t \in EventTypes, BeginEmit(w, t)
    PROVE  LET n == Len(due) + 1
               em == [id |-> n, event_type |-> t, copy |-> subscribers[t],
                      returned |-> 0, running |-> FALSE]
           IN /\ em \in Emission
              /\ stack' \in [Threads -> Seq(Emission)]
              /\ DOMAIN stack'[w] = DOMAIN stack[w] \cup {Len(stack[w]) + 1}
              /\ stack'[w][Len(stack[w]) + 1] = em
              /\ \A k \in DOMAIN stack[w] : stack'[w][k] = stack[w][k]
              /\ \A v \in Threads : v # w => stack'[v] = stack[v]
  <1> DEFINE em == [id |-> Len(due) + 1, event_type |-> t, copy |-> subscribers[t],
                    returned |-> 0, running |-> FALSE]
  <1>1. stack[w] \in Seq(Emission) /\ stack \in [Threads -> Seq(Emission)]
    BY DEF TypeOK
  <1>2. Len(due) + 1 \in 1 .. MaxEmits /\ subscribers[t] \in Seq(Handlers)
    BY BoundsAssumption DEF BeginEmit, TypeOK, BoundsAssumption
  <1>3. em \in Emission
    BY <1>2 DEF Emission
  <1>4. stack' = [stack EXCEPT ![w] = Append(stack[w], em)]
    BY DEF BeginEmit, Copied
  <1> HIDE DEF em
  <1>5. /\ Append(stack[w], em) \in Seq(Emission)
        /\ Len(Append(stack[w], em)) = Len(stack[w]) + 1
        /\ Append(stack[w], em)[Len(stack[w]) + 1] = em
        /\ \A k \in 1 .. Len(stack[w]) : Append(stack[w], em)[k] = stack[w][k]
    BY <1>1, <1>3
  <1>6. stack'[w] = Append(stack[w], em) /\ \A v \in Threads : v # w => stack'[v] = stack[v]
    BY <1>1, <1>4
  <1>7. stack' \in [Threads -> Seq(Emission)]
    BY <1>1, <1>4, <1>5
  <1>8. DOMAIN stack[w] = 1 .. Len(stack[w]) /\ Len(stack[w]) \in Nat
    BY <1>1
  <1>9. DOMAIN stack'[w] = 1 .. Len(stack[w]) + 1
    BY <1>5, <1>6
  <1>10. 1 .. Len(stack[w]) + 1 = (1 .. Len(stack[w])) \cup {Len(stack[w]) + 1}
    BY <1>8
  <1> QED
    BY <1>3, <1>5, <1>6, <1>7, <1>8, <1>9, <1>10 DEF em

(* A step of the current emission that counts a handler as running or as     *)
(* returned.                                                                 *)
LEMMA CountType ==
    ASSUME NEW em \in Emission
    PROVE  /\ [em EXCEPT !.running = TRUE] \in Emission
           /\ [em EXCEPT !.returned = @ + 1, !.running = FALSE] \in Emission
  <1>1. em.returned + 1 \in Nat
    BY DEF Emission
  <1>2. [em EXCEPT !.running = TRUE] \in Emission
    BY DEF Emission
  <1>3. [em EXCEPT !.returned = em.returned + 1] \in Emission
    BY <1>1 DEF Emission
  <1>4. [[em EXCEPT !.returned = em.returned + 1] EXCEPT !.running = FALSE] \in Emission
    BY <1>3 DEF Emission
  <1>5. [em EXCEPT !.returned = @ + 1, !.running = FALSE] =
          [[em EXCEPT !.returned = em.returned + 1] EXCEPT !.running = FALSE]
    BY DEF Emission
  <1> QED
    BY <1>2, <1>4, <1>5

(* The initial state. *)
LEMMA InitInv == Init => Inv
  <1> SUFFICES ASSUME Init PROVE Inv
    OBVIOUS
  <1>1. due = <<>> /\ heard = <<>> /\ \A w \in Threads : stack[w] = <<>>
    BY DEF Init
  <1>2. TypeOK
    BY BoundsAssumption DEF Init, TypeOK, BoundsAssumption
  <1>3. DOMAIN due = {} /\ \A w \in Threads : DOMAIN stack[w] = {}
    BY <1>1
  <1> QED
    BY <1>2, <1>3 DEF Inv, AllOnCourse, OneRun, Done

-----------------------------------------------------------------------------
(* One lemma for each kind of step *)

(* subscribe, unsubscribe, clear_subscribers: no emission is touched.        *)
LEMMA SubscriptionStep ==
    ASSUME Inv, UNCHANGED <<stack, history>>, subscribers' \in [EventTypes -> Seq(Handlers)]
    PROVE  Inv'
  <1> USE DEF Inv, history
  <1>1. TypeOK'
    BY DEF TypeOK
  <1>2. AllOnCourse'
    BY DEF AllOnCourse, OnCourse, HeardFirst, Called
  <1>3. OneRun'
    BY DEF OneRun
  <1>4. Done'
    BY DEF Done, Active
  <1> QED
    BY <1>1, <1>2, <1>3, <1>4

(* The current emission of a thread goes on, under its id.                   *)
LEMMA ProgressStep ==
    ASSUME Inv, NEW w \in Threads, stack[w] # <<>>, NEW em \in Emission, Update(w, em),
           em.id = Current(w).id, OnCourse(due', heard', em), UNCHANGED <<subscribers, due>>,
           heard' \in Seq(Seq(Handlers)), Len(heard') = Len(heard),
           \A id \in DOMAIN due : id # em.id => heard'[id] = heard[id]
    PROVE  Inv'
  <1>1. /\ stack' \in [Threads -> Seq(Emission)]
        /\ DOMAIN stack'[w] = DOMAIN stack[w]
        /\ \A k \in DOMAIN stack[w] :
              stack'[w][k] = IF k = Len(stack[w]) THEN em ELSE stack[w][k]
        /\ \A v \in Threads : v # w => stack'[v] = stack[v]
    <2>1. stack' \in [Threads -> Seq(Emission)] /\ Len(stack'[w]) = Len(stack[w])
      BY UpdateEffect DEF Inv
    <2>2. DOMAIN stack'[w] = DOMAIN stack[w]
      BY <2>1 DEF Inv, TypeOK
    <2> QED
      BY <2>1, <2>2, UpdateEffect DEF Inv
  <1>2. /\ Len(stack[w]) \in DOMAIN stack[w]
        /\ stack[w][Len(stack[w])].id = em.id
    BY CurrentType DEF Inv
  <1>3. \A v \in Threads : /\ DOMAIN stack'[v] = DOMAIN stack[v]
                           /\ \A k \in DOMAIN stack[v] : stack'[v][k].id = stack[v][k].id
    BY <1>1, <1>2
  <1>4. TypeOK'
    BY <1>1 DEF Inv, TypeOK
  <1>5. OneRun'
    BY <1>3 DEF Inv, OneRun
  <1>6. AllOnCourse'
    <2> SUFFICES ASSUME NEW v \in Threads, NEW k \in DOMAIN stack[v]
                 PROVE  OnCourse(due', heard', stack'[v][k])
      BY <1>3 DEF AllOnCourse
    <2>1. CASE v = w /\ k = Len(stack[w])
      BY <1>1, <2>1
    <2>2. CASE ~(v = w /\ k = Len(stack[w]))
      <3>1. stack'[v][k] = stack[v][k]
        BY <1>1, <2>2
      <3>2. stack[v][k].id # em.id
        BY <1>2, <2>2 DEF Inv, OneRun
      <3>3. OnCourse(due, heard, stack[v][k])
        BY DEF Inv, AllOnCourse
      <3>4. heard'[stack[v][k].id] = heard[stack[v][k].id]
        BY <3>2, <3>3 DEF OnCourse
      <3> QED
        BY <3>1, <3>3, <3>4 DEF OnCourse, HeardFirst, Called
    <2> QED
      BY <2>1, <2>2
  <1>7. Done'
    <2> SUFFICES ASSUME NEW id \in DOMAIN due, ~Active(id)' PROVE heard'[id] = due[id]
      BY DEF Done
    <2>1. ~Active(id)
      BY <1>3 DEF Active
    <2>2. id # em.id
      BY <1>2, <2>1 DEF Active
    <2> QED
      BY <2>1, <2>2 DEF Inv, Done
  <1> QED
    BY <1>4, <1>5, <1>6, <1>7 DEF Inv

(* The next handler of the copy is called.                                   *)
LEMMA CallStep ==
    ASSUME Inv, NEW w \in Threads, CallHandler(w)
    PROVE  Inv'
  <1> DEFINE em == Current(w)
             next == [em EXCEPT !.running = TRUE]
             h == em.copy[em.returned + 1]
  <1>1. stack[w] # <<>> /\ em.running = FALSE /\ em.returned < Len(em.copy)
    <2>1. stack[w] # <<>> /\ ~em.running /\ em.returned < Len(em.copy)
      BY DEF CallHandler, Dispatching, Dispatched
    <2>2. em.running \in BOOLEAN
      BY <2>1, CurrentType DEF Inv, Emission
    <2> QED
      BY <2>1, <2>2
  <1>2. em \in Emission /\ OnCourse(due, heard, em)
    BY <1>1, CurrentType DEF Inv, AllOnCourse
  <1>3. /\ next \in Emission /\ next.id = em.id /\ next.copy = em.copy
        /\ next.returned = em.returned /\ next.running = TRUE
    BY <1>2, CountType DEF Emission
  <1>4. /\ em.id \in DOMAIN due /\ em.id \in DOMAIN heard
        /\ heard[em.id] \in Seq(Handlers) /\ due[em.id] \in Seq(Handlers)
        /\ heard \in Seq(Seq(Handlers)) /\ em.returned \in Nat /\ em.copy = due[em.id]
        /\ Len(heard[em.id]) = em.returned
    <2>1. em.id \in DOMAIN due /\ em.copy = due[em.id] /\ HeardFirst(due, heard, em.id, em.returned)
      BY <1>1, <1>2 DEF OnCourse, Called
    <2>2. DOMAIN due = DOMAIN heard /\ due \in Seq(Seq(Handlers)) /\ heard \in Seq(Seq(Handlers))
      BY DEF Inv, TypeOK
    <2>3. em.returned \in Nat
      BY <1>2 DEF Emission
    <2> QED
      BY <2>1, <2>2, <2>3 DEF HeardFirst
  <1>5. h \in Handlers
    BY <1>1, <1>4
  <1>6. heard' = [heard EXCEPT ![em.id] = Append(heard[em.id], h)]
    BY DEF CallHandler, Dispatched
  <1>7. /\ heard' \in Seq(Seq(Handlers)) /\ Len(heard') = Len(heard)
        /\ heard'[em.id] = Append(heard[em.id], h)
        /\ \A id \in DOMAIN heard : id # em.id => heard'[id] = heard[id]
    <2>1. Append(heard[em.id], h) \in Seq(Handlers)
      BY <1>4, <1>5
    <2> QED
      BY <1>4, <1>6, <2>1
  <1>8. DOMAIN due = DOMAIN heard
    BY DEF Inv, TypeOK
  <1>9. UNCHANGED <<subscribers, due>> /\ Update(w, next)
    BY DEF CallHandler
  <1>10. OnCourse(due', heard', next)
    <2>1. Called(next) = em.returned + 1
      BY <1>3 DEF Called
    <2>2. /\ Len(heard'[em.id]) = em.returned + 1
          /\ \A i \in 1 .. em.returned : heard'[em.id][i] = heard[em.id][i]
          /\ heard'[em.id][em.returned + 1] = due[em.id][em.returned + 1]
      BY <1>4, <1>5, <1>7
    <2>3. \A i \in 1 .. em.returned : heard[em.id][i] = due[em.id][i]
      BY <1>1, <1>2 DEF OnCourse, Called, HeardFirst
    <2>4. \A i \in 1 .. em.returned + 1 : heard'[em.id][i] = due[em.id][i]
      <3>1. \A i \in 1 .. em.returned + 1 : i = em.returned + 1 \/ i \in 1 .. em.returned
        BY <1>4
      <3> HIDE DEF em
      <3> QED
        BY <2>2, <2>3, <3>1
    <2>5. HeardFirst(due', heard', em.id, em.returned + 1)
      BY <1>3, <1>9, <2>2, <2>4 DEF HeardFirst, CallHandler
    <2>6. em.returned + 1 <= Len(em.copy)
      BY <1>1, <1>4
    <2>7. next.id \in DOMAIN due' /\ next.copy = due'[next.id]
      BY <1>3, <1>4, <1>9
    <2> HIDE DEF next, em
    <2>8. HeardFirst(due', heard', next.id, Called(next))
      BY <1>3, <1>9, <2>1, <2>2, <2>4 DEF HeardFirst
    <2> QED
      BY <1>3, <2>1, <2>6, <2>7, <2>8 DEF OnCourse
  <1> HIDE DEF em, next, h
  <1> QED
    BY <1>1, <1>3, <1>7, <1>8, <1>9, <1>10, ProgressStep DEF em

(* The handler returns, or raises and is logged.                             *)
LEMMA ReturnStep ==
    ASSUME Inv, NEW w \in Threads, HandlerReturns(w)
    PROVE  Inv'
  <1> DEFINE em == Current(w)
             next == [em EXCEPT !.returned = @ + 1, !.running = FALSE]
  <1>1. stack[w] # <<>> /\ em.running
    BY DEF HandlerReturns, InHandler
  <1>2. em \in Emission /\ OnCourse(due, heard, em)
    BY <1>1, CurrentType DEF Inv, AllOnCourse
  <1>3. /\ next \in Emission /\ next.id = em.id /\ next.copy = em.copy
        /\ next.returned = em.returned + 1 /\ next.running = FALSE
    BY <1>2, CountType DEF Emission
  <1>4. UNCHANGED <<subscribers, due, heard>> /\ Update(w, next)
    BY DEF HandlerReturns, history
  <1>5. Called(next) = Called(em)
    BY <1>1, <1>3 DEF Called
  <1>6. OnCourse(due, heard, next)
    BY <1>2, <1>3, <1>5 DEF OnCourse
  <1> HIDE DEF next, em
  <1>7. OnCourse(due', heard', next)
    BY <1>4, <1>6 DEF OnCourse, HeardFirst, Called
  <1>8. heard' \in Seq(Seq(Handlers)) /\ Len(heard') = Len(heard)
    BY <1>4 DEF Inv, TypeOK
  <1> QED
    BY <1>1, <1>3, <1>4, <1>7, <1>8, ProgressStep DEF em

(* The loop is over: every handler of the copy was called.                   *)
LEMMA EndStep ==
    ASSUME Inv, NEW w \in Threads, EndEmit(w)
    PROVE  Inv'
  <1> DEFINE em == Current(w)
  <1>1. /\ stack[w] # <<>> /\ ~em.running /\ em.returned >= Len(em.copy)
        /\ UNCHANGED <<subscribers, due, heard>>
        /\ stack' = [stack EXCEPT ![w] = Front(@)]
    BY DEF EndEmit, Dispatching, Dispatched, history
  <1>2. /\ em \in Emission /\ OnCourse(due, heard, em) /\ em = stack[w][Len(stack[w])]
        /\ Len(stack[w]) \in DOMAIN stack[w]
    BY <1>1, CurrentType DEF Inv, AllOnCourse
  <1>3. /\ stack' \in [Threads -> Seq(Emission)]
        /\ DOMAIN stack'[w] = DOMAIN stack[w] \ {Len(stack[w])}
        /\ \A k \in DOMAIN stack'[w] : stack'[w][k] = stack[w][k]
        /\ \A v \in Threads : v # w => stack'[v] = stack[v]
    BY <1>1, PopEffect DEF Inv
  <1>4. \A v \in Threads : /\ DOMAIN stack'[v] \subseteq DOMAIN stack[v]
                           /\ \A k \in DOMAIN stack'[v] : stack'[v][k] = stack[v][k]
    BY <1>3
  <1>5. heard[em.id] = due[em.id]
    <2>1. /\ em.id \in DOMAIN due /\ em.copy = due[em.id] /\ em.returned <= Len(em.copy)
          /\ HeardFirst(due, heard, em.id, em.returned)
      BY <1>1, <1>2 DEF OnCourse, Called
    <2>2. heard[em.id] \in Seq(Handlers) /\ due[em.id] \in Seq(Handlers)
      <3>1. DOMAIN due = DOMAIN heard /\ due \in Seq(Seq(Handlers))
            /\ heard \in Seq(Seq(Handlers))
        BY DEF Inv, TypeOK
      <3> QED
        BY <2>1, <3>1
    <2>3. em.returned \in Nat
      BY <1>2 DEF Emission
    <2>4. Len(heard[em.id]) = Len(due[em.id])
      BY <1>1, <2>1, <2>2, <2>3 DEF HeardFirst
    <2>5. \A i \in 1 .. Len(due[em.id]) : heard[em.id][i] = due[em.id][i]
      BY <2>1, <2>4 DEF HeardFirst
    <2> QED
      BY <2>2, <2>4, <2>5
  <1>6. TypeOK'
    BY <1>1, <1>3 DEF Inv, TypeOK
  <1>7. AllOnCourse'
    BY <1>1, <1>4 DEF Inv, AllOnCourse, OnCourse, HeardFirst, Called
  <1>8. OneRun'
    BY <1>4 DEF Inv, OneRun
  <1>9. Done'
    <2> SUFFICES ASSUME NEW id \in DOMAIN due, ~Active(id)' PROVE heard[id] = due[id]
      BY <1>1 DEF Done
    <2>1. CASE Active(id)
      <3>0. PICK v \in Threads : \E k \in DOMAIN stack[v] : stack[v][k].id = id
        BY <2>1 DEF Active
      <3>1. PICK k \in DOMAIN stack[v] : stack[v][k].id = id
        BY <3>0
      <3>2. v = w /\ k = Len(stack[w])
        BY <1>3, <3>1 DEF Active
      <3> QED
        BY <1>2, <1>5, <3>1, <3>2
    <2>2. CASE ~Active(id)
      BY <2>2 DEF Inv, Done
    <2> QED
      BY <2>1, <2>2
  <1> QED
    BY <1>6, <1>7, <1>8, <1>9 DEF Inv

(* emit begins.                                                              *)
LEMMA BeginStep ==
    ASSUME Inv, NEW w \in Threads, NEW t \in EventTypes, BeginEmit(w, t)
    PROVE  Inv'
  <1> DEFINE n == Len(due) + 1
             last == Len(stack[w]) + 1
             em == [id |-> n, event_type |-> t, copy |-> subscribers[t],
                    returned |-> 0, running |-> FALSE]
  <1>1. /\ em \in Emission /\ stack' \in [Threads -> Seq(Emission)]
        /\ DOMAIN stack'[w] = DOMAIN stack[w] \cup {last} /\ stack'[w][last] = em
        /\ \A k \in DOMAIN stack[w] : stack'[w][k] = stack[w][k]
        /\ \A v \in Threads : v # w => stack'[v] = stack[v]
    BY PushEffect DEF Inv
  <1>2. /\ due' = Append(due, subscribers[t]) /\ heard' = Append(heard, <<>>)
        /\ UNCHANGED subscribers /\ Len(due) < MaxEmits
    BY DEF BeginEmit
  <1>3. /\ due \in Seq(Seq(Handlers)) /\ heard \in Seq(Seq(Handlers)) /\ Len(due) \in Nat
        /\ subscribers[t] \in Seq(Handlers) /\ Len(heard) = Len(due)
    BY DEF Inv, TypeOK
  <1>4. /\ due' \in Seq(Seq(Handlers)) /\ heard' \in Seq(Seq(Handlers))
        /\ Len(due') = n /\ Len(heard') = n /\ due'[n] = subscribers[t] /\ heard'[n] = <<>>
        /\ \A id \in DOMAIN due : /\ id \in DOMAIN due' /\ id # n
                                  /\ due'[id] = due[id] /\ heard'[id] = heard[id]
        /\ DOMAIN due' = DOMAIN due \cup {n}
    BY <1>2, <1>3
  <1>5. TypeOK'
    BY <1>1, <1>2, <1>3, <1>4, BoundsAssumption DEF Inv, TypeOK, BoundsAssumption
  <1>6. /\ em.id = n /\ em.copy = subscribers[t] /\ Called(em) = 0
    BY DEF Called
  <1> HIDE DEF em
  <1>7. \A v \in Threads : \A k \in DOMAIN stack'[v] :
           \/ v = w /\ k = last /\ stack'[v][k] = em
           \/ k \in DOMAIN stack[v] /\ stack'[v][k] = stack[v][k]
    BY <1>1
  <1>8. \A v \in Threads : \A k \in DOMAIN stack[v] : stack[v][k].id \in DOMAIN due
    BY DEF Inv, AllOnCourse, OnCourse
  <1>9. AllOnCourse'
    <2> SUFFICES ASSUME NEW v \in Threads, NEW k \in DOMAIN stack'[v]
                 PROVE  OnCourse(due', heard', stack'[v][k])
      BY DEF AllOnCourse
    <2>1. CASE stack'[v][k] = em
      <3>1. n \in DOMAIN due' /\ Len(heard'[n]) = 0 /\ 0 <= Len(em.copy)
        BY <1>3, <1>4, <1>6
      <3>2. HeardFirst(due', heard', n, 0)
        BY <1>4, <3>1 DEF HeardFirst
      <3> QED
        BY <1>4, <1>6, <2>1, <3>1, <3>2 DEF OnCourse, HeardFirst, Called
    <2>2. CASE k \in DOMAIN stack[v] /\ stack'[v][k] = stack[v][k]
      <3>1. OnCourse(due, heard, stack[v][k])
        BY <2>2 DEF Inv, AllOnCourse
      <3>2. /\ stack[v][k].id \in DOMAIN due'
            /\ due'[stack[v][k].id] = due[stack[v][k].id]
            /\ heard'[stack[v][k].id] = heard[stack[v][k].id]
        BY <1>4, <3>1 DEF OnCourse
      <3> QED
        BY <2>2, <3>1, <3>2 DEF OnCourse, HeardFirst
    <2> QED
      BY <1>7, <2>1, <2>2
  <1>10. OneRun'
    <2> SUFFICES ASSUME NEW u \in Threads, NEW v \in Threads, NEW j \in DOMAIN stack'[u],
                        NEW k \in DOMAIN stack'[v], stack'[u][j].id = stack'[v][k].id
                 PROVE  u = v /\ j = k
      BY DEF OneRun
    <2>1. CASE stack'[u][j] = em
      <3>1. \A i \in DOMAIN stack[v] : stack[v][i].id # n
        BY <1>4, <1>8
      <3>2. v = w /\ k = last
        BY <1>6, <1>7, <2>1, <3>1
      <3>3. \A i \in DOMAIN stack[u] : stack[u][i].id # n
        BY <1>4, <1>8
      <3>4. u = w /\ j = last
        BY <1>6, <1>7, <2>1, <3>3
      <3> QED
        BY <3>2, <3>4
    <2>2. CASE j \in DOMAIN stack[u] /\ stack'[u][j] = stack[u][j]
      <3>1. stack[u][j].id # n
        BY <1>4, <1>8, <2>2
      <3>2. k \in DOMAIN stack[v] /\ stack'[v][k] = stack[v][k]
        BY <1>6, <1>7, <2>2, <3>1
      <3> QED
        BY <2>2, <3>2 DEF Inv, OneRun
    <2> QED
      BY <1>7, <2>1, <2>2
  <1>11. Done'
    <2> SUFFICES ASSUME NEW id \in DOMAIN due', ~Active(id)' PROVE heard'[id] = due'[id]
      BY DEF Done
    <2>1. id # n
      BY <1>1, <1>6 DEF Active
    <2>2. id \in DOMAIN due
      BY <1>4, <2>1
    <2>3. ~Active(id)
      BY <1>1 DEF Active
    <2> QED
      BY <1>4, <2>2, <2>3 DEF Inv, Done
  <1> QED
    BY <1>5, <1>9, <1>10, <1>11 DEF Inv

-----------------------------------------------------------------------------

(* Every step keeps the invariant. *)
LEMMA NextInv == Inv /\ [Next]_vars => Inv'
  <1> SUFFICES ASSUME Inv, [Next]_vars PROVE Inv'
    OBVIOUS
  <1>1. ASSUME NEW w \in Threads, NEW t \in EventTypes, NEW h \in Handlers, Subscribe(w, t, h)
        PROVE  Inv'
    <2>1. Append(subscribers[t], h) \in Seq(Handlers)
      BY DEF Inv, TypeOK
    <2>2. subscribers' \in [EventTypes -> Seq(Handlers)]
      BY <1>1, <2>1 DEF Subscribe, Inv, TypeOK
    <2> QED
      BY <1>1, <2>2, SubscriptionStep DEF Subscribe
  <1>2. ASSUME NEW w \in Threads, NEW t \in EventTypes, NEW h \in Handlers, Unsubscribe(w, t, h)
        PROVE  Inv'
    <2>1. RemoveFirst(subscribers[t], h) \in Seq(Handlers)
      BY RemoveFirstType DEF Inv, TypeOK
    <2>2. subscribers' \in [EventTypes -> Seq(Handlers)]
      BY <1>2, <2>1 DEF Unsubscribe, Inv, TypeOK
    <2> QED
      BY <1>2, <2>2, SubscriptionStep DEF Unsubscribe
  <1>3. ASSUME NEW w \in Threads, NEW types, ClearSubscribers(w, types) PROVE Inv'
    <2>1. subscribers' \in [EventTypes -> Seq(Handlers)]
      BY <1>3 DEF ClearSubscribers, Inv, TypeOK
    <2> QED
      BY <1>3, <2>1, SubscriptionStep DEF ClearSubscribers
  <1>4. ASSUME NEW w \in Threads, HandlerRaises(w) PROVE Inv'
    BY <1>4, ReturnStep DEF HandlerRaises, HandlerReturns
  <1>5. CASE UNCHANGED vars
    BY <1>5, SubscriptionStep DEF vars, history, Inv, TypeOK
  <1> QED
    BY <1>1, <1>2, <1>3, <1>4, <1>5, CallStep, ReturnStep, EndStep, BeginStep
       DEF Next, Use, Dispatch

(* The invariant holds in every state. *)
THEOREM InvHolds == Spec => []Inv
  BY InitInv, NextInv, PTL DEF Spec

(* What has been heard is a prefix of what is due; all of it once emit       *)
(* returned.                                                                 *)
LEMMA InvDelivers == Inv => Delivery
  <1> SUFFICES ASSUME Inv, NEW id \in DOMAIN due
               PROVE  IsPrefix(heard[id], due[id]) /\ (~Active(id) => heard[id] = due[id])
    BY DEF Delivery
  <1>1. heard[id] \in Seq(Handlers) /\ due[id] \in Seq(Handlers)
    <2>1. DOMAIN due = DOMAIN heard /\ due \in Seq(Seq(Handlers)) /\ heard \in Seq(Seq(Handlers))
      BY DEF Inv, TypeOK
    <2> QED
      BY <2>1
  <1>2. CASE ~Active(id)
    <2>1. heard[id] = due[id]
      BY <1>2 DEF Inv, Done
    <2>2. IsPrefix(due[id], due[id])
      BY <1>1 DEF IsPrefix
    <2> QED
      BY <2>1, <2>2
  <1>3. CASE Active(id)
    <2>0. PICK w \in Threads : \E k \in DOMAIN stack[w] : stack[w][k].id = id
      BY <1>3 DEF Active
    <2>1. PICK k \in DOMAIN stack[w] : stack[w][k].id = id
      BY <2>0
    <2>2. OnCourse(due, heard, stack[w][k])
      BY DEF Inv, AllOnCourse
    <2>3. PICK n : n <= Len(due[id]) /\ Len(heard[id]) = n /\ HeardFirst(due, heard, id, n)
      BY <2>1, <2>2 DEF OnCourse, HeardFirst
    <2>4. /\ SubSeq(heard[id], 1, n) \in Seq(Handlers) /\ SubSeq(due[id], 1, n) \in Seq(Handlers)
          /\ Len(SubSeq(heard[id], 1, n)) = n /\ Len(SubSeq(due[id], 1, n)) = n
          /\ \A i \in 1 .. n : SubSeq(heard[id], 1, n)[i] = SubSeq(due[id], 1, n)[i]
      BY <1>1, <2>3 DEF HeardFirst
    <2>5. SubSeq(heard[id], 1, n) = SubSeq(due[id], 1, n)
      BY <2>4
    <2> QED
      BY <1>3, <2>3, <2>5 DEF IsPrefix
  <1> QED
    BY <1>2, <1>3

(* Every event reaches the handlers that were subscribed when it was         *)
(* emitted, in their order, once per subscription, whatever happens to the   *)
(* subscriptions meanwhile and whichever handlers raise.                     *)
THEOREM DeliveryHolds == Spec => []Delivery
  BY InvHolds, InvDelivers, PTL
=============================================================================
