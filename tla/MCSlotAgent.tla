---------------------------- MODULE MCSlotAgent ----------------------------
(* A small instance of SlotAgent for TLC.  Three families of set-ups: every  *)
(* schema plugin on every kind of parameters, every guard on every tool, and *)
(* every healing and reflect plugin; through execute, batch_run and run.     *)
EXTENDS SlotAgent, TLC, Functions, FiniteSetsExt

CONSTANTS refund, report, note,      \* tools; a note has no schema
          byTool, default, strict, custom, lists, exclusive, roles, human,
          retry, healer, simple, reviewer, logger

Whole(n) == [type |-> "int", num |-> 2 * n]
Half == [type |-> "float", num |-> 1]
Yes == [type |-> "bool", num |-> 2]
Str(t) == [type |-> "str", text |-> t]
Dict(f) == [type |-> "dict", items |-> f]
List == [type |-> "list", empty |-> FALSE]
Alien == [type |-> "object"]

Property(t) == [Unset EXCEPT !.type = t]
Object(required, properties) ==
    [Unset EXCEPT !.type = "object", !.required = required, !.properties = properties]

(* {amount: number from 0, order: {id: one of two}}, the amount is required. *)
Order == Object({"id"}, [id |-> [Property("string") EXCEPT !.enum = {Str("A1"), Str("A2")}]])
RefundSchema == Object({"amount"},
    [amount |-> [Property("number") EXCEPT !.minimum = 0], order |-> Order])
(* {page: integer up to 1, kind: a string of a pattern}, nothing required.   *)
Daily == [match |-> {"daily"}, search |-> {"daily", "bidaily"}]
ReportSchema == Object({},
    [page |-> [Property("integer") EXCEPT !.maximum = 2],
     kind |-> [Property("string") EXCEPT !.pattern = Daily]])

MCTools == {refund, report, note}
MCToolSchema == refund :> RefundSchema @@ report :> ReportSchema @@ note :> Unset

Good == Dict([amount |-> Whole(0)])
Empty == Dict(<< >>)
Poor == Dict([amount |-> Alien])

Judgeable == {Good, Empty, List,
    Dict([amount |-> Half]), Dict([amount |-> Whole(-1)]), Dict([amount |-> Str("A1")]),
    Dict([amount |-> Yes]), Dict([amount |-> Whole(1), memo |-> Str("A1")]),
    Dict([amount |-> Whole(1), order |-> Dict([id |-> Str("A1")])]),
    Dict([amount |-> Whole(1), order |-> Dict([id |-> Str("A3")])]),
    Dict([amount |-> Whole(1), order |-> Dict([memo |-> Str("A1")])]),
    Dict([amount |-> Whole(1), order |-> List]),
    Dict([page |-> Whole(1)]), Dict([page |-> Whole(2)]), Dict([page |-> Half]),
    Dict([kind |-> Str("daily")]), Dict([kind |-> Str("yearly")]), Dict([kind |-> Str("bidaily")])}

MCParams == Judgeable \cup {Poor}

(* What is inside the dicts of S, and inside the schemas of S. *)
ItemsOf(S) == UNION {Range(v.items) : v \in {w \in S : w.type = "dict"}}
PropertiesOf(S) == UNION {Range(s.properties) : s \in S}

MCValues == MCParams \cup ItemsOf(MCParams) \cup ItemsOf(ItemsOf(MCParams))
MCDepth[v \in MCValues] ==
    IF v.type # "dict" \/ DOMAIN v.items = {} THEN 0
    ELSE 1 + Max({MCDepth[v.items[k]] : k \in DOMAIN v.items})
Outermost == {Unset, Property("object"), RefundSchema, ReportSchema}
MCSchemas == Outermost \cup PropertiesOf(Outermost) \cup PropertiesOf(PropertiesOf(Outermost))

Rule == [minimum |-> 0, maximum |-> None, texts |-> {"daily"}, rejects |-> {Half}, raises |-> {Yes}]

MCConfig ==
       byTool    :> [kind |-> "SchemaDefault", schema |-> Unset]
    @@ default   :> [kind |-> "SchemaDefault", schema |-> RefundSchema]
    @@ strict    :> [kind |-> "SchemaStrict", schema |-> RefundSchema]
    @@ custom    :> [kind |-> "CustomSchemaValidator",
                     custom_rules |-> [amount |-> Rule, kind |-> Rule]]
    @@ lists     :> [kind |-> "GuardDefault", whitelist |-> {refund}, blacklist |-> {refund, report},
                     whitelist_only |-> FALSE]
    @@ exclusive :> [kind |-> "GuardDefault", whitelist |-> {report}, blacklist |-> {},
                     whitelist_only |-> TRUE]
    @@ human     :> [kind |-> "GuardHumanInLoop"]
    @@ roles     :> [kind |-> "RoleBasedGuard",
                     allowed |-> refund :> {"admin"} @@ report :> {"guest"} @@ note :> {}]
    @@ retry     :> [kind |-> "HealingRetry"]
    @@ healer    :> [kind |-> "HealingLLM"]
    @@ simple    :> [kind |-> "ReflectSimple"]
    @@ reviewer  :> [kind |-> "ReflectLLM"]
    @@ logger    :> [kind |-> "LogPlugin"]

MCPlugins == DOMAIN MCConfig
MCMaxRetries == [p \in MCPlugins |-> IF p = retry THEN 3 ELSE IF p = healer THEN 2 ELSE 1]

Chosen(bare, t, p) == [ObjectIn(bare) EXCEPT !.tool_id = t, !.params = p]
Fix(bare, p) == [ObjectIn(bare) EXCEPT !.fixed_params = p]


Responses == [status : {"ok", "error"}, well_formed : BOOLEAN,
              content : {Text, OtherJson, Chosen(TRUE, refund, Good), Chosen(TRUE, note, None),
                         Chosen(TRUE, report, List), Chosen(FALSE, refund, Good),
                         Fix(TRUE, Good), Fix(FALSE, Poor), Fix(TRUE, List), Fix(TRUE, Empty)}]
MCReplies == {QwenComplete(http) : http \in Responses}

Bare == [l \in Layers |-> None]
Setup(api, llm, plugins, tasks) ==
    [api |-> api, llm |-> llm, plugins |-> plugins, tasks |-> tasks]

Validating ==
    {Setup("execute", FALSE, [Bare EXCEPT !["schema"] = s], <<Task(t, p)>>) :
        s \in {byTool, default, strict, custom}, t \in {refund, report}, p \in Judgeable}

Guarding ==
    {Setup("batch_run", FALSE, [Bare EXCEPT !["guard"] = g, !["observe"] = logger], tasks) :
        g \in {lists, exclusive, roles, human},
        tasks \in {<<Task(refund, Good), Task(report, Empty)>>,
                   <<Task(report, Empty), Task(note, Good)>>,
                   <<Task(refund, List), Task(None, Good)>>}}

Healing ==
    {Setup(api, TRUE, [Bare EXCEPT !["healing"] = h, !["reflect"] = r], <<Task(refund, p)>>) :
        api \in {"execute", "run"}, h \in {retry, healer}, r \in {simple, reviewer},
        p \in {Good, Poor}}

MCSetups == Validating \cup Guarding \cup Healing \cup
            {Setup("run", FALSE, Bare, <<>>), Setup("batch_run", FALSE, Bare, <<>>),
             Setup("run", TRUE, [Bare EXCEPT !["schema"] = byTool, !["guard"] = lists], <<>>)}
=============================================================================
