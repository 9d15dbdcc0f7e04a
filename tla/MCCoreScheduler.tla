-------------------------- MODULE MCCoreScheduler --------------------------
(* Small instances of CoreScheduler for TLC. *)
EXTENDS CoreScheduler, TLC

CONSTANTS checker, keeper, doctor, judge, scribe,   \* one plugin per layer
          asked, mended,                            \* params
          slip                                      \* an approval id

MCPlugins == {checker, keeper, doctor, judge, scribe}
MCParams == {asked, mended}
MCApprovalIds == {slip}

Answer(pending, recovered, fixed) ==
    [pending_approval |-> pending, approval_id |-> IF pending THEN slip ELSE None,
     recovered |-> recovered, fixed_params |-> fixed]

Result(success, continue, data) ==
    [success |-> success, should_continue |-> continue, data |-> data,
     error |-> IF success THEN None ELSE "plugin"]

Pass == Result(TRUE, TRUE, None)

Chain(s, g, h, r, o) ==
    [schema |-> s, guard |-> g, healing |-> h, reflect |-> r, observe |-> o]

FullChain == Chain(checker, keeper, doctor, judge, scribe)

(* Every combination of the optional schema, guard and healing plugins, and  *)
(* both or neither of the others.                                            *)
MCChains == {Chain(s, g, h, r, o) :
               s \in {checker, None}, g \in {keeper, None}, h \in {doctor, None},
               r \in {judge}, o \in {scribe}} \cup {[l \in Layers |-> None]}

FewChains == {FullChain, Chain(checker, None, doctor, None, scribe), [l \in Layers |-> None]}

(* Results that obey the contract of PluginInterface: an unsuccessful one    *)
(* has an error.  A schema plugin may stop the chain although it succeeded,  *)
(* and any plugin may forget its return statement (None).                    *)
MCResults ==
       checker :> {Pass, Result(FALSE, FALSE, None), Result(TRUE, FALSE, None),
                   Result(FALSE, TRUE, None), None}
    @@ keeper  :> {Pass, Result(FALSE, TRUE, None), Result(TRUE, FALSE, None),
                   Result(TRUE, FALSE, Opaque),
                   Result(FALSE, FALSE, Answer(TRUE, FALSE, None)),
                   Result(TRUE, FALSE, Answer(FALSE, FALSE, None)), None}
    @@ doctor  :> {Result(TRUE, TRUE, Answer(FALSE, TRUE, mended)),
                   Result(TRUE, TRUE, Answer(FALSE, TRUE, None)),
                   Result(TRUE, TRUE, Answer(FALSE, FALSE, mended)),
                   Result(FALSE, TRUE, Answer(FALSE, TRUE, None)),
                   Result(FALSE, TRUE, None), Result(TRUE, TRUE, Opaque), None}
    @@ judge   :> {Pass, Result(FALSE, FALSE, None), None}
    @@ scribe  :> {Pass, None}

FewResults ==
       checker :> {Pass, Result(FALSE, FALSE, None)}
    @@ keeper  :> {Pass, Result(FALSE, FALSE, Answer(TRUE, FALSE, None)),
                   Result(TRUE, FALSE, Answer(FALSE, FALSE, None))}
    @@ doctor  :> {Result(TRUE, TRUE, Answer(FALSE, TRUE, mended)),
                   Result(TRUE, TRUE, Answer(FALSE, FALSE, None))}
    @@ judge   :> {Pass}
    @@ scribe  :> {Pass}

Retries(n) == [p \in MCPlugins |-> IF p = doctor THEN n ELSE 1]
MCMaxRetries == Retries(2)
OneRetry == Retries(1)
NegativeRetries == Retries(-1)
=============================================================================
