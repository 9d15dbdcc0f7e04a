----------------------- MODULE SchemaValidation_proofs -----------------------
(***************************************************************************)
(* What the validator accepts is what JSON Schema does, for parameters and *)
(* schemas of any depth.                                                   *)
(***************************************************************************)
EXTENDS SchemaValidation, TLAPS, WellFoundedInduction

-----------------------------------------------------------------------------
(* Functions defined by recursion on what is inside a value *)

Below == {p \in Nat \X Nat : p[1] < p[2]}

(* Every set of natural numbers has a least one. *)
LEMMA LeastNat ==
    ASSUME NEW T \in SUBSET Nat, T # {}
    PROVE  \E x \in T : \A y \in T : x <= y
  <1>1. OpToRel(<, Nat) = Below
    BY Zenon DEF OpToRel, Below
  <1>2. IsWellFoundedOn(Below, Nat)
    BY <1>1, NatLessThanWellFounded, Zenon
  <1>3. PICK x \in T : \A y \in T : ~(<<y, x>> \in Below)
    BY <1>2, WFMin
  <1>4. \A y \in T : y \in Nat /\ x \in Nat /\ ~(y < x)
    <2>1. ASSUME NEW y \in Nat, y < x PROVE <<y, x>> \in Below
      BY <2>1, x \in Nat DEF Below
    <2> QED
      BY <1>3, <2>1
  <1> QED
    BY <1>4

(* So what passes from everything of a lesser rank to the next is true of    *)
(* everything.                                                               *)
LEMMA ByRank ==
    ASSUME NEW S, NEW rank \in [S -> Nat], NEW Good \in SUBSET S,
           \A x \in S : (\A y \in S : rank[y] < rank[x] => y \in Good) => x \in Good
    PROVE  Good = S
  <1> SUFFICES ASSUME S \ Good # {} PROVE FALSE
    OBVIOUS
  <1> DEFINE T == {rank[x] : x \in S \ Good}
  <1>1. PICK n \in T : \A m \in T : n <= m
    <2>1. T \in SUBSET Nat /\ T # {}
      OBVIOUS
    <2> HIDE DEF T
    <2> QED
      BY <2>1, LeastNat
  <1>2. PICK x \in S \ Good : n = rank[x]
    OBVIOUS
  <1>3. \A y \in S : rank[y] < rank[x] => y \in Good
    <2> SUFFICES ASSUME NEW y \in S \ Good PROVE ~(rank[y] < rank[x])
      OBVIOUS
    <2>1. rank[x] <= rank[y]
      BY <1>1, <1>2
    <2> QED
      BY <2>1
  <1> QED
    BY <1>2, <1>3

(* The same for numbers, one by one. *)
LEMMA ByOne ==
    ASSUME NEW Good \in SUBSET Nat, 0 \in Good, \A n \in Good : n + 1 \in Good
    PROVE  Good = Nat
  <1> SUFFICES ASSUME Nat \ Good # {} PROVE FALSE
    OBVIOUS
  <1>1. PICK n \in Nat \ Good : \A m \in Nat \ Good : n <= m
    BY LeastNat
  <1>2. n - 1 \in Nat
    BY <1>1
  <1>3. n - 1 \in Good
    BY <1>1, <1>2
  <1> QED
    BY <1>1, <1>3

(* The equations that give a function's value at x from its values at what   *)
(* has a lesser rank.                                                        *)
Recursions(S, R, rank) ==
    {next \in [[S -> R] -> [S -> R]] :
        \A g, h \in [S -> R], x \in S :
           (\A y \in S : rank[y] < rank[x] => g[y] = h[y]) => next[g][x] = next[h][x]}

(* Such an equation has a solution. *)
LEMMA Solution ==
    ASSUME NEW S, NEW R, R # {}, NEW rank \in [S -> Nat], NEW next \in Recursions(S, R, rank)
    PROVE  \E f \in [S -> R] : f = next[f]
  <1> next \in [[S -> R] -> [S -> R]]
    BY DEF Recursions
  <1>0. \A g, h \in [S -> R], x \in S :
           (\A y \in S : rank[y] < rank[x] => g[y] = h[y]) => next[g][x] = next[h][x]
    BY DEF Recursions
  <1> DEFINE Upto(n) == {g \in [S -> R] : \A x \in S : rank[x] < n => next[g][x] = g[x]}
  (* the solutions up to a rank agree there *)
  <1>1. ASSUME NEW n \in Nat, NEW g \in Upto(n), NEW m \in Nat, NEW h \in Upto(m)
        PROVE  \A x \in S : rank[x] < n /\ rank[x] < m => g[x] = h[x]
    <2> DEFINE Good == {x \in S : rank[x] < n /\ rank[x] < m => g[x] = h[x]}
    <2>1. ASSUME NEW x \in S, \A y \in S : rank[y] < rank[x] => y \in Good
          PROVE  x \in Good
      <3> SUFFICES ASSUME rank[x] < n, rank[x] < m PROVE g[x] = h[x]
        OBVIOUS
      <3>1. \A y \in S : rank[y] < rank[x] => g[y] = h[y]
        <4> SUFFICES ASSUME NEW y \in S, rank[y] < rank[x] PROVE g[y] = h[y]
          OBVIOUS
        <4>1. rank[y] < n /\ rank[y] < m
          OBVIOUS
        <4> QED
          BY <2>1, <4>1
      <3>2. next[g][x] = next[h][x]
        BY <1>0, <3>1
      <3> QED
        BY <3>2
    <2> HIDE DEF Good
    <2>2. Good = S
      <3>1. Good \in SUBSET S
        BY DEF Good
      <3> QED
        BY <2>1, <3>1, ByRank
    <2> QED
      BY <2>2 DEF Good
  (* there are solutions up to any rank *)
  <1>2. \A n \in Nat : Upto(n) # {}
    <2> DEFINE Good == {n \in Nat : Upto(n) # {}}
    <2>1. Upto(0) # {}
      <3>1. PICK r \in R : TRUE
        OBVIOUS
      <3>2. \A x \in S : ~(rank[x] < 0)
        OBVIOUS
      <3>3. [x \in S |-> r] \in Upto(0)
        BY <3>2
      <3> QED
        BY <3>3
    <2>2. ASSUME NEW n \in Nat, NEW g \in Upto(n) PROVE next[g] \in Upto(n + 1)
      <3>1. g \in [S -> R] /\ next[g] \in [S -> R]
        OBVIOUS
      <3>2. ASSUME NEW x \in S, rank[x] < n + 1 PROVE next[next[g]][x] = next[g][x]
        <4>1. \A y \in S : rank[y] < rank[x] => next[g][y] = g[y]
          BY <3>2
        <4> QED
          BY <1>0, <3>1, <4>1
      <3> QED
        BY <3>1, <3>2
    <2>3. 0 \in Good /\ \A n \in Good : n + 1 \in Good
      <3> HIDE DEF Upto
      <3> QED
        BY <2>1, <2>2
    <2> HIDE DEF Good
    <2>4. Good = Nat
      <3>1. Good \in SUBSET Nat
        BY DEF Good
      <3> QED
        BY <2>3, <3>1, ByOne
    <2> QED
      BY <2>4 DEF Good
  (* put together, they solve the equation *)
  <1> DEFINE part(x) == CHOOSE g : g \in Upto(rank[x] + 1)
  <1> DEFINE f == [x \in S |-> part(x)[x]]
  <1>3. \A x \in S : rank[x] + 1 \in Nat /\ part(x) \in Upto(rank[x] + 1)
    <2> HIDE DEF Upto
    <2> SUFFICES ASSUME NEW x \in S
                 PROVE  rank[x] + 1 \in Nat /\ part(x) \in Upto(rank[x] + 1)
      OBVIOUS
    <2>1. rank[x] + 1 \in Nat
      OBVIOUS
    <2>2. \E g : g \in Upto(rank[x] + 1)
      BY <1>2, <2>1
    <2> QED
      BY <2>1, <2>2
  <1>4. f \in [S -> R]
    BY <1>3
  <1>5. ASSUME NEW x \in S PROVE next[f][x] = f[x]
    <2>1. part(x) \in [S -> R] /\ next[part(x)][x] = part(x)[x]
      <3>1. rank[x] < rank[x] + 1
        OBVIOUS
      <3> HIDE DEF part
      <3> QED
        BY <1>3, <3>1
    <2>2. ASSUME NEW y \in S, rank[y] < rank[x] PROVE f[y] = part(x)[y]
      <3>1. part(y)[y] = part(x)[y]
        <4> HIDE DEF Upto, part
        <4> QED
          BY <1>1, <1>3, <2>2
      <3> QED
        BY <3>1
    <2> HIDE DEF part
    <2>3. next[f][x] = next[part(x)][x]
      <3> HIDE DEF f
      <3> QED
        BY <1>0, <1>4, <2>1, <2>2
    <2> QED
      BY <2>1, <2>3
  <1> HIDE DEF f
  <1>6. next[f] \in [S -> R]
    BY <1>4
  <1>7. f = next[f]
    BY <1>4, <1>5, <1>6
  <1> QED
    BY <1>4, <1>7
-----------------------------------------------------------------------------
(* The equations of ValidUnder and Nodes *)

(* A dict is valid under a schema by what is inside of both. *)
LEMMA ValidUnderIs ==
    ValidUnder = [v \in Dicts |->
       {s \in Schemas : s # Unset =>
          /\ s.required \subseteq DOMAIN v.items
          /\ \A k \in DOMAIN v.items \cap DOMAIN s.properties :
                LET w == v.items[k]
                    t == s.properties[k]
                IN  Accepts(w, t) /\ (t.type = "object" /\ w.type = "dict" => t \in ValidUnder[w])}]
  <1> DEFINE meets(g, v, s) ==
         s # Unset =>
           /\ s.required \subseteq DOMAIN v.items
           /\ \A k \in DOMAIN v.items \cap DOMAIN s.properties :
                 LET w == v.items[k]
                     t == s.properties[k]
                 IN  Accepts(w, t) /\ (t.type = "object" /\ w.type = "dict" => t \in g[w])
  <1> DEFINE R == SUBSET Schemas
  <1> DEFINE next == [g \in [Dicts -> R] |-> [v \in Dicts |-> {s \in Schemas : meets(g, v, s)}]]
  <1> DEFINE rank == [v \in Dicts |-> Depth[v]]
  <1>1. R # {}
    OBVIOUS
  <1>2. next \in [[Dicts -> R] -> [Dicts -> R]]
    OBVIOUS
  <1>3. rank \in [Dicts -> Nat]
    BY NestingAssumption DEF Dicts
  <1>4. ASSUME NEW g \in [Dicts -> R], NEW h \in [Dicts -> R], NEW v \in Dicts,
               \A w \in Dicts : rank[w] < rank[v] => g[w] = h[w]
        PROVE  next[g][v] = next[h][v]
    <2>1. ASSUME NEW s \in Schemas PROVE meets(g, v, s) <=> meets(h, v, s)
      <3>1. ASSUME NEW k \in DOMAIN v.items, v.items[k].type = "dict"
            PROVE  g[v.items[k]] = h[v.items[k]]
        BY <1>4, <3>1, NestingAssumption DEF Dicts
      <3> QED
        BY <3>1
    <2> HIDE DEF meets
    <2> QED
      BY <2>1
  <1>5. \E f \in [Dicts -> R] : f = next[f]
    <2> HIDE DEF R, next, rank
    <2>1. next \in Recursions(Dicts, R, rank)
      BY <1>2, <1>4 DEF Recursions
    <2> QED
      BY <1>1, <1>3, <2>1, Solution
  <1>6. PICK f : f = [v \in Dicts |-> {s \in Schemas : meets(f, v, s)}]
    <2> HIDE DEF meets
    <2> QED
      BY <1>5
  <1> QED
    BY <1>6 DEF ValidUnder

(* The places of a value, with the schemas at those places.                  *)
LEMMA NodesAre ==
    Nodes = [v \in Values |-> [s \in Schemas |->
       {<<v, s>>} \cup
       IF v.type # "dict" THEN {}
       ELSE UNION {Nodes[v.items[k]][s.properties[k]] :
                       k \in DOMAIN v.items \cap DOMAIN s.properties}]]
  <1> DEFINE body(g, v, s) ==
         {<<v, s>>} \cup
         IF v.type # "dict" THEN {}
         ELSE UNION {g[v.items[k]][s.properties[k]] :
                         k \in DOMAIN v.items \cap DOMAIN s.properties}
  <1> DEFINE R == [Schemas -> SUBSET (Values \X Schemas)]
  <1> DEFINE next == [g \in [Values -> R] |-> [v \in Values |-> [s \in Schemas |-> body(g, v, s)]]]
  <1>1. R # {}
    <2>1. [s \in Schemas |-> {}] \in R
      OBVIOUS
    <2> QED
      BY <2>1
  <1>2. next \in [[Values -> R] -> [Values -> R]]
    <2>1. ASSUME NEW g \in [Values -> R], NEW v \in Values, NEW s \in Schemas
          PROVE  body(g, v, s) \in SUBSET (Values \X Schemas)
      <3>1. ASSUME v.type = "dict", NEW k \in DOMAIN v.items \cap DOMAIN s.properties
            PROVE  g[v.items[k]][s.properties[k]] \in SUBSET (Values \X Schemas)
        <4>1. v.items[k] \in Values /\ s.properties[k] \in Schemas
          BY <3>1, NestingAssumption DEF Dicts
        <4> QED
          BY <4>1
      <3> QED
        BY <3>1
    <2> HIDE DEF body
    <2> QED
      BY <2>1
  <1>3. Depth \in [Values -> Nat]
    BY NestingAssumption
  <1>4. ASSUME NEW g \in [Values -> R], NEW h \in [Values -> R], NEW v \in Values,
               \A w \in Values : Depth[w] < Depth[v] => g[w] = h[w]
        PROVE  next[g][v] = next[h][v]
    <2>1. ASSUME NEW s \in Schemas PROVE body(g, v, s) = body(h, v, s)
      <3>1. ASSUME v.type = "dict", NEW k \in DOMAIN v.items
            PROVE  g[v.items[k]] = h[v.items[k]]
        BY <1>4, <3>1, NestingAssumption DEF Dicts
      <3> QED
        BY <3>1
    <2> HIDE DEF body
    <2>2. [s \in Schemas |-> body(g, v, s)] = [s \in Schemas |-> body(h, v, s)]
      BY <2>1, Zenon
    <2> QED
      BY <2>2
  <1>5. \E f \in [Values -> R] : f = next[f]
    <2> HIDE DEF R, next
    <2>1. next \in Recursions(Values, R, Depth)
      BY <1>2, <1>4 DEF Recursions
    <2> QED
      BY <1>1, <1>3, <2>1, Solution
  <1>6. PICK f : f = [v \in Values |-> [s \in Schemas |-> body(f, v, s)]]
    <2> HIDE DEF body
    <2> QED
      BY <1>5
  <1> QED
    BY <1>6 DEF Nodes

-----------------------------------------------------------------------------
(* The two readings of a schema *)

(* The places of a dict are its own and those inside of it. *)
LEMMA PlacesOf ==
    ASSUME NEW v \in Values, NEW s \in Schemas
    PROVE  /\ v.type # "dict" => Nodes[v][s] = {<<v, s>>}
           /\ v.type = "dict" =>
                 Nodes[v][s] = {<<v, s>>} \cup
                    UNION {Nodes[v.items[k]][s.properties[k]] :
                              k \in DOMAIN v.items \cap DOMAIN s.properties}
  <1> DEFINE places(t) == {<<v, t>>} \cup
         IF v.type # "dict" THEN {}
         ELSE UNION {Nodes[v.items[k]][t.properties[k]] :
                         k \in DOMAIN v.items \cap DOMAIN t.properties}
  <1>1. Nodes[v] = [t \in Schemas |-> places(t)]
    BY NodesAre, Zenon
  <1>2. Nodes[v][s] = places(s)
    <2> HIDE DEF places
    <2> QED
      BY <1>1
  <1>3. {<<v, s>>} \cup {} = {<<v, s>>}
    OBVIOUS
  <1>4. CASE v.type # "dict"
    BY <1>2, <1>3, <1>4, Zenon
  <1>5. CASE v.type = "dict"
    BY <1>2, <1>5, Zenon
  <1> QED
    BY <1>4, <1>5

(* What is at a place and what is inside of it conforms. *)
LEMMA ConformsIs ==
    ASSUME NEW v \in Values, NEW s \in Schemas
    PROVE  Conforms(v, s) <=>
             /\ Meets(v, s)
             /\ v.type = "dict" => \A k \in DOMAIN v.items \cap DOMAIN s.properties :
                                      Conforms(v.items[k], s.properties[k])
  <1>0. \A S : (\A n \in {<<v, s>>} \cup S : Meets(n[1], n[2])) <=>
               Meets(v, s) /\ \A n \in S : Meets(n[1], n[2])
    <2>1. <<v, s>>[1] = v /\ <<v, s>>[2] = s
      OBVIOUS
    <2>2. \A S : (\A n \in {<<v, s>>} \cup S : Meets(n[1], n[2])) <=>
               Meets(<<v, s>>[1], <<v, s>>[2]) /\ \A n \in S : Meets(n[1], n[2])
      BY Zenon
    <2> QED
      BY <2>1, <2>2, Zenon
  <1>1. CASE v.type # "dict"
    <2>1. Nodes[v][s] = {<<v, s>>} \cup {}
      BY <1>1, PlacesOf
    <2>2. Conforms(v, s) <=> Meets(v, s)
      BY <1>0, <2>1 DEF Conforms
    <2> QED
      BY <1>1, <2>2
  <1>2. CASE v.type = "dict"
    <2> DEFINE inside == UNION {Nodes[v.items[k]][s.properties[k]] :
                                   k \in DOMAIN v.items \cap DOMAIN s.properties}
    <2>1. Nodes[v][s] = {<<v, s>>} \cup inside
      BY <1>2, PlacesOf
    <2>2. (\A n \in inside : Meets(n[1], n[2])) <=>
          \A k \in DOMAIN v.items \cap DOMAIN s.properties :
             \A n \in Nodes[v.items[k]][s.properties[k]] : Meets(n[1], n[2])
      BY Zenon
    <2> HIDE DEF inside
    <2>3. Conforms(v, s) <=> Meets(v, s) /\ \A n \in inside : Meets(n[1], n[2])
      BY <1>0, <2>1 DEF Conforms
    <2>4. (\A k \in DOMAIN v.items \cap DOMAIN s.properties :
             \A n \in Nodes[v.items[k]][s.properties[k]] : Meets(n[1], n[2]))
          <=> \A k \in DOMAIN v.items \cap DOMAIN s.properties :
                 Conforms(v.items[k], s.properties[k])
      BY Zenon DEF Conforms
    <2> QED
      BY <1>2, <2>2, <2>3, <2>4, Zenon
  <1> QED
    BY <1>1, <1>2

(* So is plain, for a place and what is inside of it. *)
PlainWithin(v, s) == \A n \in Nodes[v][s] : PlainNode(n[1], n[2])

(* It is plain itself, then, and so is what is inside of it.                 *)
LEMMA PlainWithinIs ==
    ASSUME NEW v \in Values, NEW s \in Schemas, PlainWithin(v, s)
    PROVE  /\ PlainNode(v, s)
           /\ v.type = "dict" => \A k \in DOMAIN v.items \cap DOMAIN s.properties :
                                    PlainWithin(v.items[k], s.properties[k])
  <1>1. <<v, s>> \in Nodes[v][s]
    BY PlacesOf
  <1>2. ASSUME v.type = "dict", NEW k \in DOMAIN v.items \cap DOMAIN s.properties
        PROVE  Nodes[v.items[k]][s.properties[k]] \subseteq Nodes[v][s]
    BY <1>2, PlacesOf
  <1> QED
    BY <1>1, <1>2 DEF PlainWithin

(* Python's == is equality on what a plain enum compares. *)
LEMMA EnumMeaning ==
    ASSUME NEW v \in Values, NEW s \in Schemas, PlainNode(v, s), s.enum # None
    PROVE  (\E w \in s.enum : Equal(v, w)) <=> v \in s.enum
  <1>1. Formed(v) /\ \A w \in s.enum : Formed(w)
    BY FormsAssumption
  <1>2. CASE ~Numeric(v)
    BY <1>2 DEF Equal
  <1>3. CASE Numeric(v)
    <2>1. ASSUME NEW w \in s.enum, Equal(v, w) PROVE v = w
      <3>1. CASE ~Numeric(w)
        BY <1>3, <2>1, <3>1 DEF Equal
      <3>2. CASE Numeric(w)
        <4>1. v.num = w.num
          BY <1>3, <2>1, <3>2 DEF Equal
        <4>2. /\ v \in [type : {"int", "float", "bool"}, num : Int]
              /\ w \in [type : {"int", "float", "bool"}, num : Int]
          BY <1>1, <1>3, <3>2 DEF Formed
        <4>3. v.type # "bool" /\ w.type # "bool"
          BY <1>3 DEF PlainNode
        <4>4. v.type = "float" => ~IsWhole(v)
          BY DEF PlainNode
        <4>5. w.type = "float" => ~IsWhole(w)
          BY <1>3 DEF PlainNode
        <4>6. (v.type = "int" => IsWhole(v)) /\ (w.type = "int" => IsWhole(w))
          BY <1>1 DEF Formed
        <4>7. IsWhole(v) <=> IsWhole(w)
          BY <4>1 DEF IsWhole
        <4>8. v.type = w.type
          BY <4>2, <4>3, <4>4, <4>5, <4>6, <4>7
        <4> QED
          BY <4>1, <4>2, <4>8
      <3> QED
        BY <3>1, <3>2
    <2>2. Equal(v, v)
      BY DEF Equal
    <2> QED
      BY <2>1, <2>2
  <1> QED
    BY <1>2, <1>3

(* At one plain place the code accepts what JSON Schema does, but for the    *)
(* keys that are required, which it looks up when it looks inside.           *)
LEMMA NodeMeaning ==
    ASSUME NEW v \in Values, NEW s \in Schemas, PlainNode(v, s)
    PROVE  (/\ Accepts(v, s)
            /\ s.type = "object" /\ v.type = "dict" => s.required \subseteq DOMAIN v.items)
           <=> Meets(v, s)
  <1>1. Formed(v) /\ None \notin DOMAIN Instances
    BY FormsAssumption
  <1>2. DOMAIN Instances = {"string", "integer", "number", "boolean", "object", "array"}
    BY DEF Instances
  <1>3. (s.type \in DOMAIN Instances => v.type \in Instances[s.type]) <=>
        (s.type # None => s.type \in JsonTypes(v))
    <2>1. s.type \in DOMAIN Instances \cup {None}
      BY DEF PlainNode
    <2>2. CASE s.type = None
      BY <1>1, <2>2
    <2>3. ASSUME s.type \in DOMAIN Instances
          PROVE  v.type \in Instances[s.type] <=> s.type \in JsonTypes(v)
      <3>1. v.type = "bool" => s.type \notin {"integer", "number"}
        BY DEF PlainNode
      <3>2. v.type = "float" /\ s.type = "integer" => ~IsWhole(v)
        BY DEF PlainNode
      <3>3. v.type = "int" => IsWhole(v)
        BY <1>1 DEF Formed
      <3>4. v.type \in {"int", "float", "bool", "str", "dict", "list", "object"}
        BY <1>1 DEF Formed
      <3> QED
        BY <1>2, <2>3, <3>1, <3>2, <3>3, <3>4 DEF Instances, JsonTypes
    <2> QED
      BY <1>1, <2>1, <2>2, <2>3
  <1>4. (Numeric(v) => Within(v, s)) <=>
        (v.type \in {"int", "float"} => /\ s.minimum # None => v.num >= s.minimum
                                        /\ s.maximum # None => v.num <= s.maximum)
    BY DEF Numeric, Within, PlainNode
  <1>5. (s.enum # None => \E w \in s.enum : Equal(v, w)) <=> (s.enum # None => v \in s.enum)
    BY EnumMeaning
  <1>6. (s.type = "object" /\ v.type = "dict" => s.required \subseteq DOMAIN v.items) <=>
        (v.type = "dict" => s.required \subseteq DOMAIN v.items)
    BY DEF PlainNode
  <1>7. (s.pattern # None /\ v.type = "str" => v.text \in s.pattern.match) <=>
        (v.type = "str" /\ s.pattern # None => v.text \in s.pattern.search)
    <2>1. s.pattern # None => s.pattern.match \subseteq s.pattern.search
      BY FormsAssumption
    <2> QED
      BY <2>1 DEF PlainNode
  <1> QED
    BY <1>3, <1>4, <1>5, <1>6, <1>7 DEF Accepts, Meets

(* So the code accepts what is at and inside a plain place if it conforms.   *)
LEMMA PropertyMeaning ==
    \A v \in Values, s \in Schemas : PlainWithin(v, s) =>
       ((/\ Accepts(v, s)
         /\ s.type = "object" /\ v.type = "dict" => s \in ValidUnder[v]) <=> Conforms(v, s))
  <1> DEFINE Agree(v, s) ==
         (/\ Accepts(v, s)
          /\ s.type = "object" /\ v.type = "dict" => s \in ValidUnder[v]) <=> Conforms(v, s)
  <1> DEFINE Good == {v \in Values : \A s \in Schemas : PlainWithin(v, s) => Agree(v, s)}
  <1>1. ASSUME NEW v \in Values, \A w \in Values : Depth[w] < Depth[v] => w \in Good
        PROVE  v \in Good
    <2> SUFFICES ASSUME NEW s \in Schemas, PlainWithin(v, s) PROVE Agree(v, s)
      OBVIOUS
    <2>1. PlainNode(v, s)
      BY PlainWithinIs
    <2>2. (/\ Accepts(v, s)
           /\ s.type = "object" /\ v.type = "dict" => s.required \subseteq DOMAIN v.items)
          <=> Meets(v, s)
      BY <2>1, NodeMeaning
    <2>3. CASE v.type = "dict" /\ s.type = "object"
      <3>1. s # Unset
        BY <2>3, FormsAssumption DEF Unset, Instances
      <3>2. v \in Dicts
        BY <2>3 DEF Dicts
      <3>3. ASSUME NEW k \in DOMAIN v.items \cap DOMAIN s.properties
            PROVE  Agree(v.items[k], s.properties[k])
        <4>1. v.items[k] \in Values /\ Depth[v.items[k]] < Depth[v] /\ s.properties[k] \in Schemas
          BY <3>2, NestingAssumption
        <4>2. PlainWithin(v.items[k], s.properties[k])
          BY <2>3, PlainWithinIs
        <4> QED
          BY <1>1, <4>1, <4>2
      <3>4. s \in ValidUnder[v] <=>
              /\ s.required \subseteq DOMAIN v.items
              /\ \A k \in DOMAIN v.items \cap DOMAIN s.properties :
                    /\ Accepts(v.items[k], s.properties[k])
                    /\ s.properties[k].type = "object" /\ v.items[k].type = "dict" =>
                          s.properties[k] \in ValidUnder[v.items[k]]
        BY <3>1, <3>2, ValidUnderIs
      <3>5. (\A k \in DOMAIN v.items \cap DOMAIN s.properties :
                /\ Accepts(v.items[k], s.properties[k])
                /\ s.properties[k].type = "object" /\ v.items[k].type = "dict" =>
                      s.properties[k] \in ValidUnder[v.items[k]])
            <=> \A k \in DOMAIN v.items \cap DOMAIN s.properties :
                   Conforms(v.items[k], s.properties[k])
        BY <3>3
      <3> QED
        BY <2>2, <2>3, <3>4, <3>5, ConformsIs
    <2>4. CASE ~(v.type = "dict" /\ s.type = "object")
      <3>1. v.type = "dict" => DOMAIN s.properties = {}
        BY <2>1, <2>4 DEF PlainNode
      <3>2. Conforms(v, s) <=> Meets(v, s)
        BY <3>1, ConformsIs
      <3> QED
        BY <2>2, <2>4, <3>2
    <2> QED
      BY <2>3, <2>4
  <1>2. Good = Values
    <2>1. Good \in SUBSET Values /\ Depth \in [Values -> Nat]
      BY NestingAssumption
    <2> HIDE DEF Good
    <2> QED
      BY <1>1, <2>1, ByRank
  <1> QED
    BY <1>2

(* _validate_simple_schema accepts the parameters JSON Schema accepts, if    *)
(* the two are plain.                                                        *)
THEOREM ValidatorMeaning ==
    ASSUME NEW v \in Dicts, NEW s \in Schemas, Plain(v, s)
    PROVE  Validate(v, s) = "valid" <=> Conforms(v, s)
  <1>1. v \in Values /\ v.type = "dict"
    BY DEF Dicts
  <1>2. Validate(v, s) = "valid" <=> s \in ValidUnder[v]
    BY <1>1 DEF Validate
  <1>3. Meets(v, s) <=> s.required \subseteq DOMAIN v.items
    BY <1>1 DEF Meets, Plain, JsonTypes
  <1>4. ASSUME NEW k \in DOMAIN v.items \cap DOMAIN s.properties
        PROVE  (LET w == v.items[k]
                    t == s.properties[k]
                IN  Accepts(w, t) /\ (t.type = "object" /\ w.type = "dict" => t \in ValidUnder[w]))
               <=> Conforms(v.items[k], s.properties[k])
    <2>1. v.items[k] \in Values /\ s.properties[k] \in Schemas
      BY NestingAssumption
    <2>2. PlainWithin(v.items[k], s.properties[k])
      BY DEF Plain, PlainWithin
    <2> QED
      BY <2>1, <2>2, PropertyMeaning
  <1>5. Conforms(v, s) <=>
          /\ s.required \subseteq DOMAIN v.items
          /\ \A k \in DOMAIN v.items \cap DOMAIN s.properties :
                Conforms(v.items[k], s.properties[k])
    BY <1>1, <1>3, ConformsIs
  <1>6. CASE s = Unset
    <2>1. s.required = {} /\ DOMAIN s.properties = {}
      BY <1>6 DEF Unset
    <2>2. s \in ValidUnder[v]
      BY <1>6, ValidUnderIs
    <2> QED
      BY <1>2, <1>5, <2>1, <2>2
  <1>7. CASE s # Unset
    <2>1. s \in ValidUnder[v] <=>
            /\ s.required \subseteq DOMAIN v.items
            /\ \A k \in DOMAIN v.items \cap DOMAIN s.properties :
                  LET w == v.items[k]
                      t == s.properties[k]
                  IN  Accepts(w, t) /\ (t.type = "object" /\ w.type = "dict" => t \in ValidUnder[w])
      BY <1>7, ValidUnderIs
    <2> QED
      BY <1>2, <1>4, <1>5, <2>1
  <1> QED
    BY <1>6, <1>7
=============================================================================
