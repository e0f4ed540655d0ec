------------------------------ MODULE CompositeRule ------------------------------
(***************************************************************************)
(* aodh/evaluator/composite.py: a rule that joins threshold rules with     *)
(* `and' and `or'.  A sub-rule is evaluated when the first of the two      *)
(* expressions asks for it.  A composite rule is [type |-> "and" or "or",  *)
(* rules |-> sequence], a sub-rule has a name of its own.                  *)
(***************************************************************************)
EXTENDS ThresholdRule

CONSTANT Rules  \* the rules there are, those within a rule included

IsComposite(rule) == rule.type \in {"and", "or"}
SubRules(rule) == IF IsComposite(rule) THEN {rule.rules[i] : i \in DOMAIN rule.rules} ELSE {}

\* A rule comes as JSON: no rule is within itself, however deep.
ASSUME RulesAssumption ==
    /\ \A rule \in Rules : IsComposite(rule) => rule.rules \in Seq(Rules)
    /\ \A S \in SUBSET Rules : S # {} => \E rule \in S : SubRules(rule) \cap S = {}

RuleTargets[rule \in Rules] ==
    IF IsComposite(rule) THEN UNION {RuleTargets[sub] : sub \in SubRules(rule)} ELSE {rule}

\* CompositeRule.valid_composite_rule: what the API accepts.
ValidCompositeRule[rule \in Rules] ==
    IF IsComposite(rule) THEN \A sub \in SubRules(rule) : ValidCompositeRule[sub]
    ELSE rule.type \in {"prometheus", "gnocchi"}

\* _parse_composite_rule cannot unpack the pair of expressions of an empty list.
Parses[rule \in Rules] == \/ ~IsComposite(rule)
                          \/ rule.rules # <<>> /\ \A sub \in SubRules(rule) : Parses[sub]

--------------------------------------------------------------------------------
(* The two expressions of a rule: TRUE, FALSE, or Raised. *)

\* Mutant: the expressions for ALARM and for OK join the sub-rules alike.
ConjunctiveAlike(rule, wanted) == rule.type = "and"

\* Not ( a and b ) is not a, or not b: the expression for OK swaps the two.
Conjunctive(rule, wanted) == (rule.type = "and") = (wanted = ALARM)

\* AndOp, OrOp, AlarmEvaluation and OkEvaluation: all() and any() go on to the
\* next rule until one decides, or raises.
Ask(wanted, verdicts) ==
    LET ask[rule \in Rules] ==
            IF IsComposite(rule)
              THEN LET ends == {i \in DOMAIN rule.rules :
                                   ask[rule.rules[i]] # Conjunctive(rule, wanted)}
                   IN  IF ends = {} THEN Conjunctive(rule, wanted)
                       ELSE ask[rule.rules[Earliest(ends)]]
              ELSE IF verdicts[rule] = Raised THEN Raised
              ELSE verdicts[rule].state = wanted
    IN  ask

\* _evaluate_sufficient: the state that is decided, None or Raised.
EvaluateSufficient(rule, verdicts) ==
    LET alarm == Ask(ALARM, verdicts)[rule]
        ok == Ask(OK, verdicts)[rule]
    IN  IF alarm = Raised THEN Raised
        ELSE IF alarm THEN ALARM
        ELSE IF ok = Raised THEN Raised
        ELSE IF ok THEN OK ELSE None

\* What _evaluate_sufficient makes of a sub-rule whose window is mixed.
Settle(verdict, state) ==
    IF verdict = Raised \/ verdict.trending = None THEN verdict
    ELSE IF state = UNKNOWN THEN Verdict(verdict.trending, verdict.trending)
    ELSE Verdict(IF verdict.trending = ALARM THEN OK ELSE ALARM, verdict.trending)

Fails(verdicts) == \E t \in DOMAIN verdicts : verdicts[t] = Raised

\* CompositeEvaluator.evaluate: `outcome' is what each sub-rule evaluates to.  At
\* first none has been evaluated that could be settled, then all have been.
CompositeVerdict(rule, state, outcome) ==
    LET first == EvaluateSufficient(rule, outcome)
        second == EvaluateSufficient(rule, [t \in RuleTargets[rule] |-> Settle(outcome[t], state)])
    IN  IF ~Parses[rule] THEN Raised
        ELSE IF first # None THEN first
        ELSE IF Fails(outcome) THEN Raised
        ELSE IF second # None THEN second
        ELSE UNKNOWN

\* None when an alarm in UNKNOWN stays there.
CompositeTransition(state, verdict) ==
    IF verdict = UNKNOWN /\ state = UNKNOWN THEN None ELSE verdict

--------------------------------------------------------------------------------
(* The reference: the rules that are met if these sub-rules are. *)

Meets(met) ==
    LET meets[rule \in Rules] ==
            IF ~IsComposite(rule) THEN rule \in met
            ELSE IF rule.type = "and" THEN \A sub \in SubRules(rule) : meets[sub]
            ELSE \E sub \in SubRules(rule) : meets[sub]
    IN  meets

\* A state holds if it does however the sub-rules without a state turn out.
Decided(rule, verdicts) ==
    LET met == {t \in RuleTargets[rule] : verdicts[t].state = ALARM}
        unknown == {t \in RuleTargets[rule] : verdicts[t].state = UNKNOWN}
    IN  IF \A u \in SUBSET unknown : Meets(met \cup u)[rule] THEN ALARM
        ELSE IF \A u \in SUBSET unknown : ~Meets(met \cup u)[rule] THEN OK
        ELSE UNKNOWN
================================================================================
