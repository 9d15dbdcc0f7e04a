--------------------------- MODULE BuiltinPlugins ---------------------------
(***************************************************************************)
(* slotagent.plugins, the plugins of examples/custom_plugin_example.py and *)
(* slotagent.llm: what `execute` of each plugin returns.                   *)
(*                                                                         *)
(* A plugin is a record: its kind (the class) and its configuration.  A    *)
(* result has the fields CoreScheduler reads.  Of what a language model    *)
(* answers, only what the callers' parsers tell apart is kept.             *)
(***************************************************************************)
EXTENDS SchemaValidation

CONSTANT RequestId  \* the uuid create_approval gives out: requests are not told apart here

(* PluginResult, with the keys of data the scheduler looks for. *)
Data == [pending_approval |-> FALSE, approval_id |-> None, recovered |-> FALSE,
         fixed_params |-> None]

Result(success, continue, error) ==
    [success |-> success, should_continue |-> continue, data |-> Data, error |-> error]

Passed == Result(TRUE, TRUE, None)
Blocked == Result(TRUE, FALSE, None)
Awaiting == [Blocked EXCEPT !.data.pending_approval = TRUE, !.data.approval_id = RequestId]
Invalid == [Result(FALSE, FALSE, "plugin") EXCEPT !.data = None]

(* An exception in execute, as _execute_plugin returns it. *)
Raised == [Result(FALSE, FALSE, "raised") EXCEPT !.data = None]

(* json.dumps *)
Serialisable[v \in Values] ==
    CASE v.type = "object" -> FALSE
      [] v.type = "dict" -> \A k \in DOMAIN v.items : Serialisable[v.items[k]]
      [] OTHER -> TRUE

-----------------------------------------------------------------------------
(* Language models: complete raises, or returns a text that holds an object, *)
(* other JSON (or is no text at all), or no JSON.  `bare` tells whether the  *)
(* object is the whole text or stands between fences or words.               *)

NoReply == [raises |-> TRUE, json |-> "none", bare |-> FALSE, tool_id |-> None,
            params |-> None, fixed_params |-> None]
Text == [NoReply EXCEPT !.raises = FALSE]
OtherJson == [Text EXCEPT !.json = "other", !.bare = TRUE]
ObjectIn(bare) == [Text EXCEPT !.json = "object", !.bare = bare]

(* QwenLLM.complete: a response that is an error, is no JSON or lacks        *)
(* choices[0].message.content raises.                                        *)
QwenComplete(http) ==
    IF http.status = "ok" /\ http.well_formed THEN http.content ELSE NoReply

-----------------------------------------------------------------------------
(* Schema *)

Judged(params, schema) ==
    LET v == Validate(params, schema) IN
    CASE v = "valid" -> Passed [] v = "invalid" -> Invalid [] v = "raises" -> Raised

(* The tool's schema serves when the plugin has none. *)
SchemaDefault(p, c) ==
    Judged(c.params, IF p.schema = Unset THEN c.tool_schema ELSE p.schema)

(* The strict plugin looks at its own schema only, and at additional keys    *)
(* only at the top level.                                                    *)
SchemaStrict(p, c) ==
    IF c.params.type # "dict" THEN Raised
    ELSE IF DOMAIN c.params.items \subseteq DOMAIN p.schema.properties
         THEN Judged(c.params, p.schema)
         ELSE Invalid

(* custom_rules: a numeric range, the texts whose length a rule admits, and  *)
(* the values of whatever type that its custom_validator rejects, or raises  *)
(* for.  The schema the plugin is given is never read.  Dicts have no order  *)
(* here: when one field is wrong and the validator of another raises, it     *)
(* raises.                                                                   *)
CustomSchemaValidator(p, c) ==
    IF c.params.type # "dict" THEN Raised
    ELSE LET items == c.params.items
             Ruled == DOMAIN items \cap DOMAIN p.custom_rules
             InRange(v, rule) ==
                 /\ Numeric(v) => Within(v, rule)
                 /\ v.type = "str" /\ rule.texts # None => v.text \in rule.texts
             Raises(v, rule) == InRange(v, rule) /\ v \in rule.raises
             Obeys(v, rule) == InRange(v, rule) /\ v \notin rule.rejects
         IN  IF \E k \in Ruled : Raises(items[k], p.custom_rules[k]) THEN Raised
             ELSE IF \A k \in Ruled : Obeys(items[k], p.custom_rules[k]) THEN Passed
             ELSE Invalid

-----------------------------------------------------------------------------
(* Guard *)

BlacklistFirst(p, c) ==           \* mutant: the blacklist overrides the whitelist
    IF c.tool_id \in p.blacklist THEN Blocked
    ELSE IF c.tool_id \in p.whitelist \/ ~p.whitelist_only THEN Passed
    ELSE Blocked

GuardDefault(p, c) ==
    IF c.tool_id \in p.whitelist THEN Passed
    ELSE IF c.tool_id \in p.blacklist \/ p.whitelist_only THEN Blocked
    ELSE Passed

(* The request is made before params.copy() or params.items() raises, or     *)
(* not: ApprovalWorkflow is about it, and takes params to be a dict.         *)
GuardHumanInLoop(p, c) ==
    IF Truthy(c.params) /\ c.params.type # "dict" THEN Raised ELSE Awaiting

(* The scheduler passes no metadata: whoever calls is a guest. *)
RoleBasedGuard(p, c) ==
    IF p.allowed[c.tool_id] = {} \/ "guest" \in p.allowed[c.tool_id] THEN Passed ELSE Blocked

-----------------------------------------------------------------------------
(* Healing *)

(* It never claims to have recovered, so nothing is ever retried. *)
HealingRetry(p, c) == Passed

HopefulHealing(p, c, reply) ==    \* mutant: an answer without fixed_params recovers
    IF ~c.has_error THEN Passed
    ELSE IF ~Serialisable[c.params] THEN Raised
    ELSE IF reply.raises \/ reply.json # "object" THEN Result(FALSE, TRUE, "plugin")
    ELSE [Passed EXCEPT !.data.recovered = TRUE, !.data.fixed_params = reply.fixed_params]

(* The prompt is built outside the try block; an object is found wherever it *)
(* stands in the text; and no answer without fixed_params, or with ones that *)
(* are falsy, recovers.                                                      *)
HealingLLM(p, c, reply) ==
    IF ~c.has_error THEN Passed
    ELSE IF ~Serialisable[c.params] THEN Raised
    ELSE IF reply.raises \/ reply.json # "object" THEN Result(FALSE, TRUE, "plugin")
    ELSE IF ~Truthy(reply.fixed_params) THEN Result(FALSE, TRUE, None)
    ELSE [Passed EXCEPT !.data.recovered = TRUE, !.data.fixed_params = reply.fixed_params]

-----------------------------------------------------------------------------
(* Reflect and Observe: what they find out goes into data the scheduler does *)
(* not read; they always let the call go on, or raise.                       *)

ReflectSimple(p, c) == Passed

(* Also when the model fails: the result is then taken for complete. *)
ReflectLLM(p, c) ==
    IF c.has_result /\ ~(Serialisable[c.params] /\ c.result_serialisable) THEN Raised ELSE Passed

LogPlugin(p, c) == Passed

-----------------------------------------------------------------------------

(* execute of plugin p in context c; the reply is what its model would say.  *)
PluginExecute(p, c, reply) ==
    CASE p.kind = "SchemaDefault" -> SchemaDefault(p, c)
      [] p.kind = "SchemaStrict" -> SchemaStrict(p, c)
      [] p.kind = "CustomSchemaValidator" -> CustomSchemaValidator(p, c)
      [] p.kind = "GuardDefault" -> GuardDefault(p, c)
      [] p.kind = "GuardHumanInLoop" -> GuardHumanInLoop(p, c)
      [] p.kind = "RoleBasedGuard" -> RoleBasedGuard(p, c)
      [] p.kind = "HealingRetry" -> HealingRetry(p, c)
      [] p.kind = "HealingLLM" -> HealingLLM(p, c, reply)
      [] p.kind = "ReflectSimple" -> ReflectSimple(p, c)
      [] p.kind = "ReflectLLM" -> ReflectLLM(p, c)
      [] p.kind = "LogPlugin" -> LogPlugin(p, c)
=============================================================================
