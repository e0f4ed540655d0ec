----------------------------- MODULE RuleEvaluation -----------------------------
(***************************************************************************)
(* An alarm whose rule is evaluated again and again, aodh/evaluator, while *)
(* time passes, measures arrive and services fail; with the counters of    *)
(* the results, increment_alarm_counter of storage/impl_sqlalchemy.py.     *)
(*                                                                         *)
(* Evaluators that overlap (a cycle that outlasts the interval) evaluate   *)
(* the same alarm.  A counter is read and written back in one transaction, *)
(* but a read takes no lock: they are two steps, between which another     *)
(* transaction may write.                                                  *)
(* How the row of the alarm itself is read and written is the subject of   *)
(* module AlarmEvaluation: here an evaluation sees the state it replaces.  *)
(***************************************************************************)
EXTENDS CompositeRule, FiniteSets

CONSTANTS
    AlarmDefinitions, \* [type, rule, repeat_actions, time_constraints] records
    Evaluators,
    Values,           \* the values a point may have
    Granularity,      \* the granularity of the archives of Gnocchi
    Answers,          \* the answers of Prometheus and of Octavia, by sub-rule type
    ResetAt,          \* COUNTER_RESET_AT_VALUE
    CountResults,     \* conf.enable_evaluation_results_metrics
    MaxNow,           \* bound on the clock
    MaxEvaluations    \* bound on the evaluations of a behaviour

RuleTypes == {"gnocchi", "prometheus", "loadbalancer_member_health"}

ASSUME BoundsAssumption ==
    /\ {Minute, Granularity, ResetAt} \subseteq Nat \ {0}
    /\ {IngestionLag, MaxNow, MaxEvaluations} \subseteq Nat
    /\ CountResults \in BOOLEAN
    /\ IsFiniteSet(Evaluators)

ASSUME ValuesAssumption ==
    /\ None \notin States
    /\ Raised \notin States \cup {None}
    /\ Down \notin Seq(Values)

\* What the schemas of the rules let through.
ASSUME AlarmsAssumption ==
    \A d \in AlarmDefinitions :
        /\ d.rule \in Rules
        /\ IF d.type = "composite" THEN ValidCompositeRule[d.rule]
           ELSE d.rule.type = d.type /\ d.type \in RuleTypes
        /\ d.repeat_actions \in BOOLEAN
        /\ \A tc \in d.time_constraints : tc.starts \subseteq Int /\ tc.duration \in Nat
        /\ \A t \in RuleTargets[d.rule] :
               t.type = "gnocchi" => t.evaluation_periods \in Nat \ {0}

VARIABLES
    alarm,      \* the definition of the alarm
    state,      \* its column state
    notified,   \* did the last evaluation call notify?
    now,        \* the clock
    measures,   \* what the service of each sub-rule holds
    down,       \* the sub-rules whose service cannot be reached
    counter,    \* table alarm_counter, 0 where there is no row
    results,    \* the evaluations that gave each state
    overlap,    \* have two evaluators counted at the same time?
    pc, held    \* where each evaluator is, and the counter it has read

alarmVars == <<alarm, state, notified>>
sources == <<now, measures, down>>
counts == <<counter, results, overlap>>
vars == <<alarmVars, sources, counts, pc, held>>

Evaluations ==
    results[UNKNOWN] + results[OK] + results[ALARM] + results[None]

--------------------------------------------------------------------------------
(* What a sub-rule evaluates to at this moment. *)

Outcome(rule) ==
    LET answer == IF rule \in down THEN Down ELSE measures[rule]
    IN  CASE rule.type = "gnocchi" ->
                 GnocchiRule(rule, [granularity |-> Granularity, points |-> answer], now)
          [] rule.type = "prometheus" -> PrometheusRule(rule, answer)
          [] rule.type = "loadbalancer_member_health" -> LoadBalancerRule(answer)

Outcomes == [t \in RuleTargets[alarm.rule] |-> Outcome(t)]

\* What an evaluation finds for an alarm in state s, and the state it hands
\* to _refresh, or None.
Finding(s) ==
    IF alarm.type = "composite" THEN Verdict(CompositeVerdict(alarm.rule, s, Outcomes), None)
    ELSE Outcome(alarm.rule)

Target(s, found) ==
    IF alarm.type = "composite" THEN CompositeTransition(s, found.state)
    ELSE IF alarm.type = "loadbalancer_member_health" THEN found.state
    ELSE TransitionAlarm(s, alarm.repeat_actions, found)

Init ==
    /\ alarm \in AlarmDefinitions
    /\ state = UNKNOWN
    /\ notified = FALSE
    /\ now = 0
    /\ measures = [t \in RuleTargets[alarm.rule] |-> <<>>]
    /\ down = {}
    /\ counter = [s \in States |-> 0]
    /\ results = [s \in States \cup {None} |-> 0]
    /\ overlap = FALSE
    /\ pc = [e \in Evaluators |-> "idle"]
    /\ held = [e \in Evaluators |-> <<>>]

--------------------------------------------------------------------------------
(* The environment. *)

Tick == /\ now < MaxNow
        /\ now' = now + 1
        /\ UNCHANGED <<alarmVars, measures, down, counts, pc, held>>

\* A period that has ended is aggregated into a point.
Ingest(t, value) ==
    /\ t.type = "gnocchi"
    /\ (Len(measures[t]) + 1) * Granularity <= now
    /\ measures' = [measures EXCEPT ![t] = Append(@, value)]
    /\ UNCHANGED <<alarmVars, now, down, counts, pc, held>>

Replace(t, answer) ==
    /\ t.type # "gnocchi"
    /\ measures[t] # answer
    /\ measures' = [measures EXCEPT ![t] = answer]
    /\ UNCHANGED <<alarmVars, now, down, counts, pc, held>>

FailOrRecover(t) ==
    /\ down' = IF t \in down THEN down \ {t} ELSE down \cup {t}
    /\ UNCHANGED <<alarmVars, now, measures, counts, pc, held>>

--------------------------------------------------------------------------------
(* The evaluators. *)

\* ThresholdEvaluator alone counts, and a mixed window has no result.
Counted(found) ==
    /\ CountResults
    /\ alarm.type \in {"gnocchi", "prometheus"}
    /\ found.state # None

\* evaluate() and _refresh of an alarm.
Evaluate(e) ==
    /\ pc[e] = "idle"
    /\ Evaluations < MaxEvaluations
    /\ WithinTimeConstraint(alarm.time_constraints, now)
    /\ LET found == Finding(state)
           target == Target(state, found)
       IN  /\ found # Raised /\ found.state # Raised
           /\ state' = IF target = None THEN state ELSE target
           /\ notified' = (target # None /\ (target # state \/ alarm.repeat_actions))
           /\ results' = [results EXCEPT ![found.state] = @ + 1]
           /\ pc' = [pc EXCEPT ![e] = IF Counted(found) THEN "read" ELSE "idle"]
           /\ held' = [held EXCEPT ![e] = IF Counted(found) THEN <<found.state>> ELSE <<>>]
           /\ overlap' = (overlap \/ (Counted(found) /\ \E f \in Evaluators : pc[f] # "idle"))
    /\ UNCHANGED <<alarm, sources, counter>>

\* get_alarm_counters
ReadCounter(e) ==
    /\ pc[e] = "read"
    /\ pc' = [pc EXCEPT ![e] = "write"]
    /\ held' = [held EXCEPT ![e] = Append(@, counter[held[e][1]])]
    /\ UNCHANGED <<alarmVars, sources, counts>>

\* Mutant: a new counter starts at zero.
NewValueFromZero(value, row) == IF value >= ResetAt \/ value = 0 THEN row ELSE value + 1

\* What increment_alarm_counter leaves in a row, having read `value': at the
\* limit nothing is written, and an insert that meets a row is undone.
NewValue(value, row) ==
    IF value >= ResetAt \/ (value = 0 /\ row # 0) THEN row ELSE value + 1

WriteCounter(e) ==
    /\ pc[e] = "write"
    /\ counter' = [counter EXCEPT ![held[e][1]] = NewValue(held[e][2], @)]
    /\ pc' = [pc EXCEPT ![e] = "idle"]
    /\ held' = [held EXCEPT ![e] = <<>>]
    /\ UNCHANGED <<alarmVars, sources, results, overlap>>

Next ==
    \/ Tick
    \/ \E t \in RuleTargets[alarm.rule] :
           \/ \E v \in Values : Ingest(t, v)
           \/ t.type \in DOMAIN Answers /\ \E a \in Answers[t.type] : Replace(t, a)
           \/ FailOrRecover(t)
    \/ \E e \in Evaluators : Evaluate(e) \/ ReadCounter(e) \/ WriteCounter(e)

Spec == Init /\ [][Next]_vars

--------------------------------------------------------------------------------
(* Properties. *)

Evaluated == Evaluations' = Evaluations + 1

\* A composite alarm goes where its rule, read as a formula over the sub-rules,
\* says for certain: lazy evaluation, the two passes and the two expressions of
\* composite.py never decide more, or less, than the formula does.
CompositeDecidesRule ==
    [][Evaluated /\ alarm.type = "composite" =>
           LET verdicts == [t \in RuleTargets[alarm.rule] |-> Settle(Outcome(t), state)]
           IN  Fails(verdicts) \/ state' = Decided(alarm.rule, verdicts)]_vars

\* Evaluating the same measures again finds nothing to change, so an alarm does
\* not flap on its own.  (A composite alarm with a mixed sub-rule may.)
SettlesOnSameMeasures ==
    [][Evaluated /\ (\A t \in DOMAIN Outcomes : Outcomes[t] # Raised => Outcomes[t].trending = None
                                                  \/ alarm.type # "composite")
           => Target(state', Finding(state')) \in {None, state'}]_vars

\* An evaluation that leaves the state alone notifies if and only if the alarm
\* repeats its actions, and one that changes it always does, whatever the type
\* of the rule.  (A composite alarm does not repeat "insufficient data".)
NotifiesWhenDue ==
    [][Evaluated /\ ~(alarm.type = "composite" /\ {state, state'} = {UNKNOWN})
           => notified' = (state' # state \/ alarm.repeat_actions)]_vars

\* The query of a rule looks back far enough: once every period that ended
\* IngestionLag ago is in the archive, the rule has the points it asks for.
LagIsTolerated ==
    \A t \in RuleTargets[alarm.rule] :
        /\ t.type = "gnocchi" /\ t.granularity = Granularity /\ t \notin down
        /\ now >= t.evaluation_periods * Granularity + IngestionLag
        /\ (Len(measures[t]) + 1) * Granularity + IngestionLag > now
        => Outcome(t) # Insufficient

InsideWindow ==
    \/ alarm.time_constraints = {}
    \/ \E tc \in alarm.time_constraints : \E t \in tc.starts :
           t <= now /\ now <= t + tc.duration

\* An alarm is evaluated at every instant from a start of one of its constraints
\* until the duration has passed, the start itself included, where croniter
\* looks back to the start before.
OpenInsideWindows ==
    InsideWindow => WithinTimeConstraint(alarm.time_constraints, now)

\* What the docstring of _is_exact_match and the API say: outside the windows,
\* which begin at their starts, the alarm rests.
ClosedOutsideWindows ==
    WithinTimeConstraint(alarm.time_constraints, now) => InsideWindow

\* A counter never runs ahead of the evaluations it counts, and while it has not
\* seen as many results as its limit it falls behind only if two evaluators met.
\* (Of a counter at its limit nothing is claimed.)
CountersFollowResults ==
    \A s \in States :
        /\ counter[s] <= results[s]
        /\ CountResults /\ ~overlap /\ results[s] <= ResetAt
                /\ alarm.type \in {"gnocchi", "prometheus"}
           => counter[s] = results[s] - Cardinality({e \in Evaluators :
                                                       held[e] # <<>> /\ held[e][1] = s})
================================================================================
