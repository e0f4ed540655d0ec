------------------------------ MODULE ThresholdRule ------------------------------
(***************************************************************************)
(* The rules that compare measures with a threshold, aodh/evaluator:       *)
(* threshold.py, gnocchi.py, prometheus.py and loadbalancer.py, and the    *)
(* time constraints of an alarm.  An instant and a duration are numbers of *)
(* one unit.  A verdict is a state, or a state the measures tend to.       *)
(***************************************************************************)
EXTENDS Integers, Sequences

CONSTANTS
    Minute,         \* a minute, in units
    IngestionLag,   \* conf.additional_ingestion_lag
    Down,           \* the answer of a service that cannot be reached
    Raised,         \* an exception leaves evaluate_rule
    None            \* no value

UNKNOWN == "insufficient data"
OK == "ok"
ALARM == "alarm"
States == {UNKNOWN, OK, ALARM}

Verdict(state, trending) == [state |-> state, trending |-> trending]
Insufficient == Verdict(UNKNOWN, None)

--------------------------------------------------------------------------------
(* Evaluator.within_time_constraint: `starts' are the instants the cron       *)
(* expression `start' names.                                                  *)

Latest(instants) == CHOOSE t \in instants : \A u \in instants : u <= t
Earliest(instants) == CHOOSE t \in instants : \A u \in instants : t <= u

\* The start after the last one before now, less than a minute away.
IsExactMatch(starts, now) ==
    LET before == {t \in starts : t < now}
        next == {t \in starts : before = {} \/ t > Latest(before)}
    IN  next # {} /\ Earliest(next) - now < Minute /\ now - Earliest(next) < Minute

InWindow(tc, now) ==
    \/ IsExactMatch(tc.starts, now)
    \/ LET before == {t \in tc.starts : t < now}
       IN  before # {} /\ now <= Latest(before) + tc.duration

\* Mutant: the exact match is left out.
WithoutExactMatch(constraints, now) ==
    \/ constraints = {}
    \/ \E tc \in constraints : \E t \in tc.starts : t < now /\ now <= t + tc.duration

WithinTimeConstraint(constraints, now) ==
    constraints = {} \/ \E tc \in constraints : InWindow(tc, now)

--------------------------------------------------------------------------------
(* ThresholdEvaluator.evaluate_rule. *)

Compare(op, value, limit) ==
    \/ op = "gt" /\ value > limit
    \/ op = "lt" /\ value < limit
    \/ op = "ge" /\ value >= limit
    \/ op = "le" /\ value <= limit
    \/ op = "eq" /\ value = limit
    \/ op = "ne" /\ value # limit

ProcessStatistics(rule, statistics) ==
    LET outside == {i \in DOMAIN statistics :
                       Compare(rule.comparison_operator, statistics[i], rule.threshold)}
    IN  IF outside = DOMAIN statistics THEN Verdict(ALARM, None)
        ELSE IF outside = {} THEN Verdict(OK, None)
        ELSE Verdict(None, IF Len(statistics) \in outside THEN ALARM ELSE OK)

\* Mutant: the duration of the query does not look back beyond the periods.
BoundShortly(rule, now) == now - (rule.granularity * rule.evaluation_periods + IngestionLag)

\* _bound_duration: where the query begins.
BoundDuration(rule, now) ==
    now - (rule.granularity * (rule.evaluation_periods + 1) + IngestionLag)

LastOf(s, n) == IF Len(s) <= n THEN s ELSE SubSeq(s, Len(s) - n + 1, Len(s))

\* GnocchiBase: point i of a metric aggregates the period that begins at
\* (i - 1) * granularity; the archive holds points of that granularity alone.
\* Every exception of the client becomes InsufficientDataError.
GnocchiStatistics(rule, archive, now) ==
    IF archive.points = Down \/ archive.granularity # rule.granularity THEN <<>>
    ELSE LET begin == {i \in DOMAIN archive.points :
                          (i - 1) * archive.granularity >= BoundDuration(rule, now)}
         IN  IF begin = {} THEN <<>>
             ELSE LastOf(SubSeq(archive.points, Earliest(begin), Len(archive.points)),
                         rule.evaluation_periods)

GnocchiRule(rule, archive, now) ==
    LET statistics == GnocchiStatistics(rule, archive, now)
    IN  IF Len(statistics) < rule.evaluation_periods THEN Insufficient
        ELSE ProcessStatistics(rule, statistics)

\* PrometheusEvaluator: an instant query; an error of the client is not caught.
PrometheusRule(rule, metrics) ==
    IF metrics = Down THEN Raised
    ELSE IF metrics = <<>> THEN Insufficient
    ELSE ProcessStatistics(rule, metrics)

\* LoadBalancerMemberHealthEvaluator: a member that is young, or whose age
\* cannot be told, does not count.
UnhealthyMembers(members) ==
    {i \in DOMAIN members : /\ members[i].age = "old"
                            /\ members[i].admin_state_up
                            /\ members[i].operating_status = "ERROR"}

LoadBalancerRule(members) ==
    IF members = Down THEN Insufficient
    ELSE Verdict(IF UnhealthyMembers(members) # {} THEN ALARM ELSE OK, None)

--------------------------------------------------------------------------------
(* What an evaluation does with a verdict: the state _refresh is called with, *)
(* or None.                                                                   *)

\* Mutant: a mixed window makes a known state unknown.
TransitionToUnknown(state, continuous, verdict) ==
    IF verdict.trending # None THEN IF state = UNKNOWN THEN verdict.trending ELSE UNKNOWN
    ELSE IF verdict.state # state \/ continuous THEN verdict.state ELSE None

\* Mutant: a mixed window is passed over also by an alarm that repeats its actions.
TransitionSilently(state, continuous, verdict) ==
    IF verdict.trending # None THEN IF state = UNKNOWN THEN verdict.trending ELSE None
    ELSE IF verdict.state # state \/ continuous THEN verdict.state ELSE None

\* ThresholdEvaluator._transition_alarm.
TransitionAlarm(state, continuous, verdict) ==
    IF verdict.trending # None
    THEN IF state = UNKNOWN THEN verdict.trending
         ELSE IF continuous THEN state ELSE None
    ELSE IF verdict.state # state \/ continuous THEN verdict.state ELSE None
================================================================================
