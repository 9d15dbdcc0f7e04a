-------------------------- MODULE SchemaValidation --------------------------
(***************************************************************************)
(* slotagent.plugins.schema: what _validate_simple_schema accepts, and what *)
(* JSON Schema would.                                                      *)
(*                                                                         *)
(* A parameter value is a record tagged with its Python type:              *)
(*   [type |-> "int" | "float" | "bool", num |-> twice the number]         *)
(*   [type |-> "str", text |-> t]       [type |-> "dict", items |-> f]     *)
(*   [type |-> "list", empty |-> b]   a list is never looked into          *)
(*   [type |-> "object"] an object json.dumps cannot write                 *)
(* A schema is a record of its keywords; None stands for an absent one.    *)
(* A pattern is the texts re.match finds it in, at their start, and those  *)
(* it is found anywhere in.                                                *)
(* Values and schemas nest; what looks into them is a recursive function.  *)
(***************************************************************************)
EXTENDS Integers, Sequences, FiniteSets

CONSTANTS
    None,
    Values,      \* the values of parameters, those inside other ones included
    Depth,       \* how deep each of them nests
    Schemas      \* the schemas, those of properties included

Unset == [type |-> None, minimum |-> None, maximum |-> None, enum |-> None,
          pattern |-> None, required |-> {}, properties |-> << >>]

(* The isinstance tests.  A bool is an int, and an unknown type name is not  *)
(* tested at all.                                                            *)
Instances == [string |-> {"str"}, integer |-> {"int", "bool"},
              number |-> {"int", "float", "bool"}, boolean |-> {"bool"},
              object |-> {"dict"}, array |-> {"list"}]

Numeric(v) == v.type \in {"int", "float", "bool"}
IsWhole(v) == v.num % 2 = 0

Dicts == {v \in Values : v.type = "dict"}

(* What is inside a value or a schema is one itself, and values are finite.  *)
ASSUME NestingAssumption ==
    /\ Depth \in [Values -> Nat]
    /\ \A v \in Dicts : \A k \in DOMAIN v.items :
          v.items[k] \in Values /\ Depth[v.items[k]] < Depth[v]
    /\ \A s \in Schemas : \A k \in DOMAIN s.properties : s.properties[k] \in Schemas

Formed(v) ==
    /\ v.type \in {"int", "float", "bool", "str", "dict", "list", "object"}
    /\ Numeric(v) => v \in [type : {"int", "float", "bool"}, num : Int]
    /\ v.type = "int" => IsWhole(v)

(* Python's `if v:`. *)
Truthy(v) ==
    /\ v # None
    /\ Numeric(v) => v.num # 0
    /\ v.type = "str" => v.text # ""
    /\ v.type = "dict" => DOMAIN v.items # {}
    /\ v.type = "list" => ~v.empty

(* Values have the forms above, those in an enum as well; and what a pattern *)
(* matches at its start it matches.                                          *)
ASSUME FormsAssumption ==
    /\ None \notin DOMAIN Instances
    /\ \A v \in Values : Formed(v)
    /\ \A s \in Schemas : /\ s.enum # None => \A v \in s.enum : Formed(v)
                          /\ s.pattern # None => s.pattern.match \subseteq s.pattern.search

(* Python's ==, by which enum looks a value up. *)
Equal(v, w) == IF Numeric(v) /\ Numeric(w) THEN v.num = w.num ELSE v = w

WithinStrictly(v, s) ==           \* mutant: <= for < in the test of minimum
    /\ s.minimum # None => v.num > s.minimum
    /\ s.maximum # None => v.num <= s.maximum

Within(v, s) == /\ s.minimum # None => v.num >= s.minimum
                /\ s.maximum # None => v.num <= s.maximum

(* The keywords that are tested on a property without looking into it. *)
Accepts(v, s) ==
    /\ s.type \in DOMAIN Instances => v.type \in Instances[s.type]
    /\ Numeric(v) => Within(v, s)
    /\ s.enum # None => \E w \in s.enum : Equal(v, w)
    /\ s.pattern # None /\ v.type = "str" => v.text \in s.pattern.match

(* The schemas a dict is valid under.  Unknown keys are ignored; the type    *)
(* keyword of the schema that is entered is not looked at, only those of its *)
(* properties.                                                               *)
ValidUnder[v \in Dicts] ==
    {s \in Schemas : s # Unset =>
        /\ s.required \subseteq DOMAIN v.items
        /\ \A k \in DOMAIN v.items \cap DOMAIN s.properties :
              LET w == v.items[k]
                  t == s.properties[k]
              IN  Accepts(w, t) /\ (t.type = "object" /\ w.type = "dict" => t \in ValidUnder[w])}

(* Parameters that are no dict: `in` works on a list, .items() does not.  (A *)
(* list or a text that holds every required name raises too; the call fails  *)
(* either way.)                                                              *)
Validate(params, s) ==
    IF params.type = "dict" THEN IF s \in ValidUnder[params] THEN "valid" ELSE "invalid"
    ELSE IF s = Unset THEN "valid"
    ELSE IF s.required # {} /\ params.type \in {"list", "str"} THEN "invalid"
    ELSE "raises"

-----------------------------------------------------------------------------
(* JSON Schema's own reading: every node of the parameters meets every       *)
(* keyword of the schema at its place.                                       *)

Nodes[v \in Values] == [s \in Schemas |->
    {<<v, s>>} \cup
    IF v.type # "dict" THEN {}
    ELSE UNION {Nodes[v.items[k]][s.properties[k]] :
                    k \in DOMAIN v.items \cap DOMAIN s.properties}]

JsonTypes(v) ==
    CASE v.type = "str" -> {"string"}
      [] v.type = "bool" -> {"boolean"}
      [] v.type = "dict" -> {"object"}
      [] v.type = "list" -> {"array"}
      [] v.type = "object" -> {}
      [] OTHER -> {"number"} \cup (IF IsWhole(v) THEN {"integer"} ELSE {})

Meets(v, s) ==
    /\ s.type # None => s.type \in JsonTypes(v)
    /\ v.type \in {"int", "float"} => /\ s.minimum # None => v.num >= s.minimum
                                      /\ s.maximum # None => v.num <= s.maximum
    /\ s.enum # None => v \in s.enum
    /\ v.type = "str" /\ s.pattern # None => v.text \in s.pattern.search
    /\ v.type = "dict" => s.required \subseteq DOMAIN v.items

Conforms(v, s) == \A n \in Nodes[v][s] : Meets(n[1], n[2])

(* Where the two readings of a node are meant to agree: its type, if it has  *)
(* one, is a known one; every keyword it uses is one that type has; no       *)
(* Boolean is compared with a number, and no whole float with an integer;    *)
(* and no text has a pattern in it, but not at its start.                    *)
PlainNode(v, s) ==
    /\ s.type \in DOMAIN Instances \cup {None}
    /\ s.required # {} \/ DOMAIN s.properties # {} => s.type = "object"
    /\ v.type = "bool" => /\ s.type \notin {"integer", "number"}
                          /\ s.minimum = None /\ s.maximum = None /\ s.enum = None
    /\ v.type = "float" /\ IsWhole(v) => s.type # "integer" /\ s.enum = None
    /\ Numeric(v) /\ s.enum # None =>
          \A w \in s.enum : w.type # "bool" /\ (w.type = "float" => ~IsWhole(w))
    /\ v.type = "str" /\ s.pattern # None =>
          (v.text \in s.pattern.search => v.text \in s.pattern.match)

(* The same for a dict and the schema that is entered: that one describes an *)
(* object, by its properties alone, and what is inside of both is plain.     *)
Plain(v, s) ==
    /\ s.type \in {"object", None} /\ s.enum = None
    /\ \A k \in DOMAIN v.items \cap DOMAIN s.properties :
          \A n \in Nodes[v.items[k]][s.properties[k]] : PlainNode(n[1], n[2])
=============================================================================
