-------------------------- MODULE RuleEvaluationProofs --------------------------
(* What the evaluation of a rule, of aodh/evaluator, and the counters of its *)
(* results keep for every rule, every measure and any number of evaluators.  *)
EXTENDS RuleEvaluation, FiniteSetTheorems, SequenceTheorems, WellFoundedInduction,
        RecursionTheorems, TLAPS

--------------------------------------------------------------------------------
(* The invariants. *)

PlaceOK(e) ==
    \/ pc[e] = "idle" /\ held[e] = <<>>
    \/ pc[e] = "read" /\ \E s \in States : held[e] = <<s>>
    \/ pc[e] = "write" /\ held[e] # <<>> /\ held[e][1] \in States /\ held[e][2] \in Nat

TypeOK ==
    /\ alarm \in AlarmDefinitions
    /\ state \in States
    /\ now \in Nat
    /\ DOMAIN measures = RuleTargets[alarm.rule]
    /\ \A t \in DOMAIN measures : t.type = "gnocchi" => measures[t] \in Seq(Values)
    /\ counter \in [States -> Nat]
    /\ results \in [States \cup {None} -> Nat]
    /\ overlap \in BOOLEAN
    /\ pc \in [Evaluators -> {"idle", "read", "write"}]
    /\ DOMAIN held = Evaluators
    /\ \A e \in Evaluators : PlaceOK(e)

\* The evaluators that have yet to count a result s.
Pending(s) == {e \in Evaluators : held[e] # <<>> /\ held[e][1] = s}

\* However the evaluators overlap, what they have yet to write is in the results.
NeverAhead ==
    \A s \in States :
        /\ counter[s] <= ResetAt
        /\ counter[s] + Cardinality(Pending(s)) <= results[s]
        /\ \A e \in Pending(s) :
               pc[e] = "write" => held[e][2] + Cardinality(Pending(s)) <= results[s]

\* As long as they do not, what an evaluator has read is what the row holds.
InStep ==
    overlap = FALSE =>
        /\ \A e, f \in Evaluators : pc[e] # "idle" /\ pc[f] # "idle" => e = f
        /\ \A e \in Evaluators : pc[e] = "write" => held[e][2] = counter[held[e][1]]
        /\ CountResults /\ alarm.type \in {"gnocchi", "prometheus"} =>
               \A s \in States : \/ counter[s] = ResetAt
                                 \/ counter[s] = results[s] - Cardinality(Pending(s))

--------------------------------------------------------------------------------
(* The first and the last of a set of instants, and time constraints. *)

LEMMA EarliestIsFirst ==
    ASSUME NEW S \in SUBSET Int, S # {}, NEW low \in Int, \A t \in S : low <= t
    PROVE  Earliest(S) \in S /\ \A t \in S : Earliest(S) <= t
<1> DEFINE After == {t - low : t \in S}
<1>1. \A t \in S : t \in Int /\ t - low \in Nat
  OBVIOUS
<1>2. After \in SUBSET Nat /\ After # {}
  BY <1>1
<1>3. PICK d \in After : \A q \in After : d <= q
  BY <1>2, SomeLeast
<1>4. PICK t \in S : d = t - low
  OBVIOUS
<1>5. ASSUME NEW u \in S PROVE t <= u
  <2>1. u - low \in After
    OBVIOUS
  <2>2. t - low <= u - low
    BY <1>3, <1>4, <2>1
  <2>3. QED
    BY <1>1, <2>2
<1>6. QED
  BY <1>5 DEF Earliest

LEMMA LatestIsLast ==
    ASSUME NEW S \in SUBSET Int, S # {}, NEW high \in Int, \A t \in S : t <= high
    PROVE  Latest(S) \in S /\ \A t \in S : t <= Latest(S)
<1> DEFINE Before == {high - t : t \in S}
<1>1. \A t \in S : t \in Int /\ high - t \in Nat
  OBVIOUS
<1>2. Before \in SUBSET Nat /\ Before # {}
  BY <1>1
<1>3. PICK d \in Before : \A q \in Before : d <= q
  BY <1>2, SomeLeast
<1>4. PICK t \in S : d = high - t
  OBVIOUS
<1>5. ASSUME NEW u \in S PROVE u <= t
  <2>1. high - u \in Before
    OBVIOUS
  <2>2. high - t <= high - u
    BY <1>3, <1>4, <2>1
  <2>3. QED
    BY <1>1, <2>2
<1>6. QED
  BY <1>5 DEF Latest

\* One time constraint: the two tests of within_time_constraint together.
LEMMA WindowOfStarts ==
    ASSUME NEW tc, NEW now_ \in Int, tc.starts \subseteq Int, tc.duration \in Nat
    PROVE  InWindow(tc, now_) <=>
               \E t \in tc.starts : t - Minute < now_ /\ now_ <= t + tc.duration
<1> DEFINE before == {t \in tc.starts : t < now_}
           next == {t \in tc.starts : before = {} \/ t > Latest(before)}
<1>1. Minute \in Nat /\ Minute > 0
  BY BoundsAssumption
<1>2. before # {} => Latest(before) \in before /\ \A t \in before : t <= Latest(before)
  <2>1. before \in SUBSET Int /\ \A t \in before : t <= now_
    OBVIOUS
  <2>2. QED
    BY <2>1, LatestIsLast
<1>3. \A t \in next : t \in Int /\ now_ <= t
  <2>1. SUFFICES ASSUME NEW t \in next PROVE t \in Int /\ now_ <= t
    OBVIOUS
  <2>2. CASE before = {}
    BY <2>2
  <2>3. CASE before # {}
    <3>1. Latest(before) \in Int /\ t \in Int /\ t > Latest(before)
      BY <1>2, <2>3
    <3>2. ~ (t \in before)
      BY <1>2, <2>3, <3>1
    <3>3. QED
      BY <3>1, <3>2
  <2>4. QED
    BY <2>2, <2>3
<1>4. next # {} => Earliest(next) \in next /\ \A t \in next : Earliest(next) <= t
  <2>1. next \in SUBSET Int
    BY <1>3
  <2>2. QED
    BY <1>3, <2>1, EarliestIsFirst
<1>5. \A t \in tc.starts : now_ <= t => t \in next
  <2>1. SUFFICES ASSUME NEW t \in tc.starts, now_ <= t PROVE before = {} \/ t > Latest(before)
    OBVIOUS
  <2>2. before # {} => Latest(before) < now_ /\ Latest(before) \in Int
    BY <1>2
  <2>3. QED
    BY <2>1, <2>2
<1>6. IsExactMatch(tc.starts, now_) <=>
          next # {} /\ Earliest(next) - now_ < Minute /\ now_ - Earliest(next) < Minute
  BY DEF IsExactMatch
<1>7. InWindow(tc, now_) <=> \/ IsExactMatch(tc.starts, now_)
                             \/ before # {} /\ now_ <= Latest(before) + tc.duration
  BY DEF InWindow
<1> HIDE DEF before, next
<1>8. ASSUME InWindow(tc, now_)
      PROVE  \E t \in tc.starts : t - Minute < now_ /\ now_ <= t + tc.duration
  <2>1. CASE IsExactMatch(tc.starts, now_)
    <3>1. Earliest(next) \in next /\ Earliest(next) \in Int /\ now_ <= Earliest(next)
      BY <1>3, <1>4, <1>6, <2>1
    <3>2. Earliest(next) \in tc.starts
      BY <3>1 DEF next
    <3>3. Earliest(next) - Minute < now_ /\ now_ <= Earliest(next) + tc.duration
      BY <1>1, <1>6, <2>1, <3>1
    <3>4. QED
      BY <3>2, <3>3
  <2>2. CASE before # {} /\ now_ <= Latest(before) + tc.duration
    <3>1. Latest(before) \in tc.starts /\ Latest(before) < now_ /\ Latest(before) \in Int
      BY <1>2, <2>2 DEF before
    <3>2. Latest(before) - Minute < now_
      BY <1>1, <3>1
    <3>3. QED
      BY <2>2, <3>1, <3>2
  <2>3. QED
    BY <1>7, <1>8, <2>1, <2>2
<1>9. ASSUME NEW t \in tc.starts, t - Minute < now_, now_ <= t + tc.duration
      PROVE  InWindow(tc, now_)
  <2>1. t \in Int
    OBVIOUS
  <2>2. CASE t < now_
    <3>1. t \in before
      BY <2>2 DEF before
    <3>2. Latest(before) \in Int /\ t <= Latest(before)
      BY <1>2, <3>1 DEF before
    <3>3. now_ <= Latest(before) + tc.duration
      BY <1>9, <2>1, <3>2
    <3>4. QED
      BY <1>7, <3>1, <3>3
  <2>3. CASE now_ <= t
    <3>1. t \in next
      BY <1>5, <2>3
    <3>2. Earliest(next) \in Int /\ Earliest(next) <= t /\ now_ <= Earliest(next)
      BY <1>3, <1>4, <3>1
    <3>3. Earliest(next) - now_ < Minute /\ now_ - Earliest(next) < Minute
      BY <1>1, <1>9, <2>1, <3>2
    <3>4. QED
      BY <1>6, <1>7, <3>1, <3>3
  <2>4. QED
    BY <2>1, <2>2, <2>3
<1>10. QED
  BY <1>8, <1>9

LEMMA WithinWhenAWindowIs ==
    ASSUME NEW constraints, NEW now_ \in Int,
           \A tc \in constraints : tc.starts \subseteq Int /\ tc.duration \in Nat
    PROVE  WithinTimeConstraint(constraints, now_) <=>
               \/ constraints = {}
               \/ \E tc \in constraints : \E t \in tc.starts :
                      t - Minute < now_ /\ now_ <= t + tc.duration
<1>1. \A tc \in constraints :
          InWindow(tc, now_) <=>
              \E t \in tc.starts : t - Minute < now_ /\ now_ <= t + tc.duration
  BY WindowOfStarts
<1>2. QED
  BY <1>1 DEF WithinTimeConstraint

--------------------------------------------------------------------------------
(* Verdicts. *)

Verdicts == {Verdict(s, None) : s \in States} \cup {Verdict(None, s) : s \in {OK, ALARM}}

LEMMA VerdictFields ==
    ASSUME NEW v \in Verdicts
    PROVE  \/ v.state \in States /\ v.trending = None
           \/ v.state = None /\ v.trending \in {OK, ALARM}
BY DEF Verdicts, Verdict

LEMMA StatisticsVerdict ==
    ASSUME NEW rule, NEW statistics
    PROVE  /\ ProcessStatistics(rule, statistics) \in Verdicts
           /\ ProcessStatistics(rule, statistics) # Insufficient
<1>1. ProcessStatistics(rule, statistics)
          \in {Verdict(ALARM, None), Verdict(OK, None), Verdict(None, ALARM), Verdict(None, OK)}
  BY DEF ProcessStatistics
<1>2. Verdict(ALARM, None) # Insufficient /\ Verdict(OK, None) # Insufficient
  BY DEF Verdict, Insufficient, States, UNKNOWN, OK, ALARM
<1>3. Verdict(None, ALARM) # Insufficient /\ Verdict(None, OK) # Insufficient
  BY ValuesAssumption DEF Verdict, Insufficient, States, UNKNOWN, OK, ALARM
<1>4. QED
  BY <1>1, <1>2, <1>3 DEF Verdicts, States

\* A threshold rule has a verdict, or its evaluation raises.
LEMMA OutcomeIsVerdict ==
    ASSUME NEW rule, rule.type \in RuleTypes
    PROVE  Outcome(rule) \in Verdicts \cup {Raised}
<1>1. Insufficient \in Verdicts
  BY DEF Insufficient, Verdicts, States
<1>2. \A archive, n : GnocchiRule(rule, archive, n) \in Verdicts
  BY <1>1, StatisticsVerdict DEF GnocchiRule
<1>3. \A answer : PrometheusRule(rule, answer) \in Verdicts \cup {Raised}
  BY <1>1, StatisticsVerdict DEF PrometheusRule
<1>4. \A answer : LoadBalancerRule(answer) \in Verdicts
  BY <1>1 DEF LoadBalancerRule, Verdicts, States
<1>5. QED
  BY <1>2, <1>3, <1>4 DEF Outcome, RuleTypes

LEMMA CompositeVerdictIsState ==
    ASSUME NEW rule, NEW s, NEW outcome
    PROVE  CompositeVerdict(rule, s, outcome) \in States \cup {Raised}
<1>1. \A verdicts : EvaluateSufficient(rule, verdicts) \in {Raised, ALARM, OK, None}
  BY DEF EvaluateSufficient
<1>2. QED
  BY <1>1 DEF CompositeVerdict, States

\* What an evaluation that does not raise finds: a state, or a tendency.
LEMMA FindingIsVerdict ==
    ASSUME alarm \in AlarmDefinitions, NEW s,
           Finding(s) # Raised, Finding(s).state # Raised
    PROVE  /\ Finding(s) \in Verdicts
           /\ alarm.type = "composite" => Finding(s).state \in States
<1>1. CASE alarm.type = "composite"
  <2>1. Finding(s) = Verdict(CompositeVerdict(alarm.rule, s, Outcomes), None)
    BY <1>1 DEF Finding
  <2>2. Finding(s).state = CompositeVerdict(alarm.rule, s, Outcomes)
    BY <2>1 DEF Verdict
  <2>3. Finding(s).state \in States
    BY <2>2, CompositeVerdictIsState
  <2>4. QED
    BY <2>1, <2>2, <2>3 DEF Verdicts
<1>2. CASE alarm.type # "composite"
  <2>1. alarm.rule.type \in RuleTypes
    BY <1>2, AlarmsAssumption
  <2>2. QED
    BY <1>2, <2>1, OutcomeIsVerdict DEF Finding
<1>3. QED
  BY <1>1, <1>2

--------------------------------------------------------------------------------
(* The points of a metric that a query finds. *)

LEMMA PeriodsFit ==
    ASSUME NEW length \in Nat, NEW periods \in Nat, NEW width \in Nat \ {0},
           NEW lag \in Nat, NEW n \in Nat,
           periods * width + lag <= n, n < (length + 1) * width + lag
    PROVE  /\ periods <= length
           /\ (length - periods) * width >= n - (width * (periods + 1) + lag)
<1>1. periods * width \in Nat /\ (length + 1) * width \in Nat
  OBVIOUS
<1>2. periods * width < (length + 1) * width
  BY <1>1
<1>3. periods <= length
  <2>1. SUFFICES ASSUME length + 1 <= periods PROVE FALSE
    OBVIOUS
  <2>2. PICK d \in Nat : periods = (length + 1) + d
    <3>1. periods - (length + 1) \in Nat /\ periods = (length + 1) + (periods - (length + 1))
      BY <2>1
    <3>2. QED
      BY <3>1
  <2>3. periods * width = (length + 1) * width + d * width /\ d * width \in Nat
    BY <2>2
  <2>4. QED
    BY <1>1, <1>2, <2>3
<1>4. (length - periods) * width = length * width - periods * width
  OBVIOUS
<1>5. width * (periods + 1) = periods * width + width
  OBVIOUS
<1>6. (length + 1) * width = length * width + width
  OBVIOUS
<1>7. length * width \in Nat
  OBVIOUS
<1>8. QED
  BY <1>1, <1>3, <1>4, <1>5, <1>6, <1>7

LEMMA FirstPosition ==
    ASSUME NEW S \in SUBSET Int, S # {}, \A i \in S : 1 <= i
    PROVE  Earliest(S) \in S /\ \A i \in S : Earliest(S) <= i
<1>1. 1 \in Int
  OBVIOUS
<1>2. QED
  BY <1>1, EarliestIsFirst

\* Once every period that ended the lag ago is in the archive, a query finds
\* the points its rule asks for.
LEMMA EnoughPoints ==
    ASSUME NEW rule, NEW points \in Seq(Values), NEW n \in Nat,
           rule.granularity = Granularity, rule.evaluation_periods \in Nat \ {0},
           n >= rule.evaluation_periods * Granularity + IngestionLag,
           (Len(points) + 1) * Granularity + IngestionLag > n
    PROVE  Len(GnocchiStatistics(rule, [granularity |-> Granularity, points |-> points], n))
               = rule.evaluation_periods
<1> DEFINE archive == [granularity |-> Granularity, points |-> points]
           periods == rule.evaluation_periods
           begin == {i \in DOMAIN points : (i - 1) * Granularity >= BoundDuration(rule, n)}
           wanted == Len(points) - periods + 1
<1>1. Granularity \in Nat \ {0} /\ IngestionLag \in Nat /\ Len(points) \in Nat
  BY BoundsAssumption
<1>2. /\ periods <= Len(points)
      /\ (Len(points) - periods) * Granularity
             >= n - (Granularity * (periods + 1) + IngestionLag)
  BY <1>1, PeriodsFit
<1>3. wanted \in DOMAIN points /\ wanted - 1 = Len(points) - periods
  BY <1>1, <1>2
<1>4. BoundDuration(rule, n) = n - (Granularity * (periods + 1) + IngestionLag)
  BY DEF BoundDuration
<1>5. wanted \in begin
  BY <1>2, <1>3, <1>4
<1>6. Earliest(begin) \in begin /\ Earliest(begin) <= wanted
  <2>1. begin \in SUBSET Int /\ \A i \in begin : 1 <= i
    OBVIOUS
  <2> HIDE DEF begin, wanted
  <2>2. QED
    BY <1>5, <2>1, FirstPosition
<1>7. PICK first \in DOMAIN points : first = Earliest(begin) /\ first <= wanted
  BY <1>6
<1>8. GnocchiStatistics(rule, archive, n) = LastOf(SubSeq(points, first, Len(points)), periods)
  <2>1. archive.points = points /\ archive.granularity = Granularity
    OBVIOUS
  <2>2. points # Down
    BY ValuesAssumption
  <2>3. begin # {}
    BY <1>5
  <2>4. QED
    BY <1>7, <2>1, <2>2, <2>3 DEF GnocchiStatistics
<1>9. PICK found \in Seq(Values) : /\ found = SubSeq(points, first, Len(points))
                                   /\ Len(found) = Len(points) - first + 1
  <2>1. first \in Nat /\ 1 <= first /\ first <= Len(points)
    BY <1>1
  <2>2. SubSeq(points, first, Len(points)) \in Seq(Values)
    <3>1. \A i \in first..Len(points) : points[i] \in Values
      BY <1>1, <2>1
    <3>2. QED
      BY <1>1, <2>1, <3>1, SubSeqProperties
  <2>3. Len(SubSeq(points, first, Len(points))) = Len(points) - first + 1
    BY <1>1, <2>1
  <2>4. QED
    BY <2>2, <2>3
<1>10. Len(found) >= periods
  <2>1. periods \in Nat /\ Len(points) \in Nat /\ first \in Nat
    BY <1>1
  <2>2. first <= Len(points) - periods + 1
    BY <1>7
  <2>3. Len(found) = Len(points) - first + 1
    BY <1>9
  <2> HIDE DEF periods
  <2>4. Len(points) - first + 1 >= periods
    BY <2>1, <2>2
  <2>5. QED
    BY <2>3, <2>4
<1>11. Len(LastOf(found, periods)) = periods
  BY <1>9, <1>10 DEF LastOf
<1>12. QED
  BY <1>8, <1>9, <1>11

--------------------------------------------------------------------------------
(* Type correctness. *)

LEMMA TargetIsState ==
    ASSUME alarm \in AlarmDefinitions, NEW s \in States, NEW found \in Verdicts,
           alarm.type = "composite" => found.state \in States,
           alarm.type = "loadbalancer_member_health" => found.trending = None
    PROVE  Target(s, found) \in States \cup {None}
<1>1. \/ found.state \in States /\ found.trending = None
      \/ found.state = None /\ found.trending \in {OK, ALARM}
  BY VerdictFields
<1>2. CASE alarm.type = "composite"
  BY <1>2 DEF Target, CompositeTransition
<1>3. CASE alarm.type = "loadbalancer_member_health"
  BY <1>1, <1>3, ValuesAssumption DEF Target, States
<1>4. CASE alarm.type \notin {"composite", "loadbalancer_member_health"}
  BY <1>1, <1>4 DEF Target, TransitionAlarm, States
<1>5. QED
  BY <1>2, <1>3, <1>4

LEMMA MembersHaveAState ==
    ASSUME alarm \in AlarmDefinitions, alarm.type = "loadbalancer_member_health", NEW s
    PROVE  Finding(s) \in Verdicts /\ Finding(s).trending = None
<1>1. \A answer : /\ LoadBalancerRule(answer) \in Verdicts
                  /\ LoadBalancerRule(answer).trending = None
  BY DEF LoadBalancerRule, Insufficient, Verdicts, Verdict, States
<1>2. alarm.rule.type = "loadbalancer_member_health"
  BY AlarmsAssumption
<1>3. QED
  BY <1>1, <1>2 DEF Finding, Outcome

\* What an evaluation does to the state and to the counts of the results.
LEMMA EvaluateFinds ==
    ASSUME TypeOK, NEW e \in Evaluators, Evaluate(e)
    PROVE  /\ Finding(state) \in Verdicts
           /\ Finding(state).state \in States \cup {None}
           /\ Target(state, Finding(state)) \in States \cup {None}
           /\ state' = IF Target(state, Finding(state)) = None THEN state
                       ELSE Target(state, Finding(state))
           /\ state' \in States
<1>1. Finding(state) # Raised /\ Finding(state).state # Raised
  BY DEF Evaluate
<1>2. Finding(state) \in Verdicts /\ (alarm.type = "composite" => Finding(state).state \in States)
  BY <1>1, FindingIsVerdict DEF TypeOK
<1>3. Finding(state).state \in States \cup {None}
  BY <1>2, VerdictFields
<1>4. alarm.type = "loadbalancer_member_health" => Finding(state).trending = None
  BY MembersHaveAState DEF TypeOK
<1>5. Target(state, Finding(state)) \in States \cup {None}
  BY <1>2, <1>4, TargetIsState DEF TypeOK
<1>6. state' = IF Target(state, Finding(state)) = None THEN state
               ELSE Target(state, Finding(state))
  BY DEF Evaluate
<1>7. QED
  BY <1>2, <1>3, <1>5, <1>6 DEF TypeOK

LEMMA TypeInit == Init => TypeOK
<1>1. SUFFICES ASSUME Init PROVE TypeOK
  OBVIOUS
<1>2. state \in States /\ now \in Nat /\ overlap \in BOOLEAN
  BY <1>1 DEF Init, States
<1>3. counter \in [States -> Nat] /\ results \in [States \cup {None} -> Nat]
  BY <1>1 DEF Init
<1>4. \A t \in DOMAIN measures : measures[t] \in Seq(Values)
  BY <1>1 DEF Init
<1>5. DOMAIN measures = RuleTargets[alarm.rule]
  BY <1>1 DEF Init
<1>6. pc \in [Evaluators -> {"idle", "read", "write"}] /\ DOMAIN held = Evaluators
  BY <1>1 DEF Init
<1>7. \A e \in Evaluators : PlaceOK(e)
  BY <1>1 DEF Init, PlaceOK
<1>8. alarm \in AlarmDefinitions
  BY <1>1 DEF Init
<1>9. QED
  BY <1>2, <1>3, <1>4, <1>5, <1>6, <1>7, <1>8 DEF TypeOK

\* The steps of the environment leave the evaluators and their counts alone.
Environment ==
    \/ Tick
    \/ \E t \in RuleTargets[alarm.rule] :
           \/ \E v \in Values : Ingest(t, v)
           \/ t.type \in DOMAIN Answers /\ \E a \in Answers[t.type] : Replace(t, a)
           \/ FailOrRecover(t)

LEMMA NextSteps ==
    Next <=> \/ Environment
             \/ \E e \in Evaluators : Evaluate(e) \/ ReadCounter(e) \/ WriteCounter(e)
BY DEF Next, Environment

LEMMA EnvironmentLeaves == Environment => UNCHANGED <<alarmVars, counts, pc, held>>
BY DEF Environment, Tick, Ingest, Replace, FailOrRecover

LEMMA EnvironmentType == TypeOK /\ Environment => TypeOK'
<1>1. SUFFICES ASSUME TypeOK, Environment PROVE TypeOK'
  OBVIOUS
<1>2. /\ UNCHANGED <<alarm, state, notified>> /\ UNCHANGED <<counter, results, overlap>>
      /\ UNCHANGED <<pc, held>>
  BY <1>1, EnvironmentLeaves DEF alarmVars, counts
<1>3. now' \in Nat
  BY <1>1 DEF TypeOK, Environment, Tick, Ingest, Replace, FailOrRecover
<1> DEFINE Kept == /\ DOMAIN measures' = DOMAIN measures
                   /\ \A t \in DOMAIN measures :
                          t.type = "gnocchi" => measures'[t] \in Seq(Values)
<1>4. Kept
  <2>1. CASE UNCHANGED measures
    BY <1>1, <2>1 DEF TypeOK
  <2>2. ASSUME NEW t \in RuleTargets[alarm.rule], NEW v \in Values, Ingest(t, v)
        PROVE  Kept
    <3>1. t \in DOMAIN measures /\ measures[t] \in Seq(Values)
      BY <1>1, <2>2 DEF TypeOK, Ingest
    <3>2. Append(measures[t], v) \in Seq(Values)
      BY <3>1
    <3>3. measures' = [measures EXCEPT ![t] = Append(measures[t], v)]
      BY <2>2 DEF Ingest
    <3>4. QED
      BY <1>1, <3>1, <3>2, <3>3 DEF TypeOK
  <2>3. ASSUME NEW t \in RuleTargets[alarm.rule], NEW a, Replace(t, a)
        PROVE  Kept
    <3>1. t.type # "gnocchi" /\ measures' = [measures EXCEPT ![t] = a]
      BY <2>3 DEF Replace
    <3>2. QED
      BY <1>1, <3>1 DEF TypeOK
  <2>4. QED
    BY <1>1, <2>1, <2>2, <2>3 DEF Environment, Tick, FailOrRecover
<1>5. \A e \in Evaluators : PlaceOK(e)'
  BY <1>1, <1>2 DEF TypeOK, PlaceOK
<1>6. QED
  BY <1>1, <1>2, <1>3, <1>4, <1>5 DEF TypeOK

\* A place of the others is what it was.
LEMMA OthersInPlace ==
    ASSUME TypeOK, NEW e \in Evaluators, NEW p \in {"idle", "read", "write"}, NEW h,
           pc' = [pc EXCEPT ![e] = p], held' = [held EXCEPT ![e] = h],
           PlaceOK(e)'
    PROVE  /\ pc' \in [Evaluators -> {"idle", "read", "write"}] /\ DOMAIN held' = Evaluators
           /\ \A f \in Evaluators : PlaceOK(f)'
<1>1. pc' \in [Evaluators -> {"idle", "read", "write"}] /\ DOMAIN held' = Evaluators
  BY DEF TypeOK
<1>2. ASSUME NEW f \in Evaluators, f # e PROVE PlaceOK(f)'
  <2>1. pc'[f] = pc[f] /\ held'[f] = held[f]
    BY <1>2 DEF TypeOK
  <2>2. PlaceOK(f)
    BY DEF TypeOK
  <2>3. QED
    BY <2>1, <2>2 DEF PlaceOK
<1>3. QED
  BY <1>1, <1>2

LEMMA EvaluateType == ASSUME TypeOK, NEW e \in Evaluators, Evaluate(e) PROVE TypeOK'
<1>1. PICK found : /\ found = Finding(state) /\ found.state \in States \cup {None}
                   /\ results' = [results EXCEPT ![found.state] = @ + 1]
                   /\ pc' = [pc EXCEPT ![e] = IF Counted(found) THEN "read" ELSE "idle"]
                   /\ held' = [held EXCEPT ![e] = IF Counted(found) THEN <<found.state>> ELSE <<>>]
                   /\ overlap' = (overlap \/ (Counted(found) /\ \E f \in Evaluators : pc[f] # "idle"))
  BY EvaluateFinds DEF Evaluate
<1>2. UNCHANGED <<alarm, now, measures, down, counter>>
  BY DEF Evaluate, sources
<1>3. state' \in States
  BY EvaluateFinds
<1>4. results' \in [States \cup {None} -> Nat]
  BY <1>1 DEF TypeOK
<1>5. overlap' \in BOOLEAN
  BY <1>1 DEF TypeOK
<1>6. PICK h : h = (IF Counted(found) THEN <<found.state>> ELSE <<>>)
  OBVIOUS
<1>7. PICK p \in {"idle", "read", "write"} : p = (IF Counted(found) THEN "read" ELSE "idle")
  OBVIOUS
<1>8. pc'[e] = p /\ held'[e] = h
  BY <1>1, <1>6, <1>7 DEF TypeOK
<1>9. PlaceOK(e)'
  <2>1. Counted(found) => found.state \in States
    BY <1>1 DEF Counted
  <2>2. QED
    BY <1>6, <1>7, <1>8, <2>1 DEF PlaceOK
<1>10. /\ pc' \in [Evaluators -> {"idle", "read", "write"}] /\ DOMAIN held' = Evaluators
       /\ \A f \in Evaluators : PlaceOK(f)'
  BY <1>1, <1>6, <1>7, <1>9, OthersInPlace
<1>11. QED
  BY <1>2, <1>3, <1>4, <1>5, <1>10 DEF TypeOK

LEMMA AppendToOne ==
    ASSUME NEW a, NEW b
    PROVE  Append(<<a>>, b) # <<>> /\ Append(<<a>>, b)[1] = a /\ Append(<<a>>, b)[2] = b
<1>1. PICK S : S = {a, b}
  OBVIOUS
<1>2. PICK s \in Seq(S) : s = <<a>> /\ Len(s) = 1 /\ s[1] = a
  <2>1. <<a>> \in Seq(S)
    BY <1>1
  <2>2. Len(<<a>>) = 1 /\ <<a>>[1] = a
    OBVIOUS
  <2>3. QED
    BY <2>1, <2>2, Zenon
<1>3. Append(s, b) # <<>>
  BY <1>1, AppendProperties
<1>4. \A i \in 1..Len(s) : Append(s, b)[i] = s[i]
  BY <1>1, AppendProperties
<1>5. Append(s, b)[Len(s) + 1] = b
  BY <1>1, AppendProperties
<1>6. 1 \in 1..Len(s) /\ Len(s) + 1 = 2
  BY <1>2
<1>7. Append(s, b)[1] = a /\ Append(s, b)[2] = b
  BY <1>2, <1>4, <1>5, <1>6
<1>8. QED
  BY <1>2, <1>3, <1>7

\* What an evaluator holds while it reads, and while it writes.
LEMMA ReadsFor ==
    ASSUME TypeOK, NEW e \in Evaluators, ReadCounter(e)
    PROVE  \E s \in States :
               /\ held[e] = <<s>>
               /\ held' = [held EXCEPT ![e] = held'[e]]
               /\ held'[e] # <<>> /\ held'[e][1] = s /\ held'[e][2] = counter[s]
<1>1. PlaceOK(e) /\ pc[e] = "read"
  BY DEF TypeOK, ReadCounter
<1>2. PICK s \in States : held[e] = <<s>>
  BY <1>1 DEF PlaceOK
<1>3. PICK h : h = Append(<<s>>, counter[s])
  OBVIOUS
<1>4. held' = [held EXCEPT ![e] = h]
  <2>1. <<s>>[1] = s
    OBVIOUS
  <2>2. QED
    BY <1>2, <1>3, <2>1 DEF ReadCounter
<1>5. h # <<>> /\ h[1] = s /\ h[2] = counter[s]
  BY <1>3, AppendToOne
<1>6. held'[e] = h
  BY <1>4 DEF TypeOK
<1>7. QED
  BY <1>2, <1>4, <1>5, <1>6

LEMMA WritesFor ==
    ASSUME TypeOK, NEW e \in Evaluators, WriteCounter(e)
    PROVE  \E s \in States, n \in Nat :
               /\ held[e] # <<>> /\ held[e][1] = s /\ held[e][2] = n
               /\ counter' = [counter EXCEPT ![s] = NewValue(n, counter[s])]
               /\ counter'[s] = NewValue(n, counter[s])
               /\ NewValue(n, counter[s]) \in Nat
<1>1. PlaceOK(e) /\ pc[e] = "write"
  BY DEF TypeOK, WriteCounter
<1>2. PICK s \in States, n \in Nat : held[e] # <<>> /\ held[e][1] = s /\ held[e][2] = n
  BY <1>1 DEF PlaceOK
<1>3. counter' = [counter EXCEPT ![s] = NewValue(n, counter[s])]
  BY <1>2 DEF WriteCounter
<1>4. NewValue(n, counter[s]) \in Nat
  BY DEF NewValue, TypeOK
<1>5. QED
  BY <1>2, <1>3, <1>4 DEF TypeOK

LEMMA ReadType == ASSUME TypeOK, NEW e \in Evaluators, ReadCounter(e) PROVE TypeOK'
<1>1. UNCHANGED <<alarm, state, now, measures, counter, results, overlap>>
  BY DEF ReadCounter, alarmVars, sources, counts
<1>2. PICK s \in States :
          /\ held' = [held EXCEPT ![e] = held'[e]]
          /\ held'[e] # <<>> /\ held'[e][1] = s /\ held'[e][2] = counter[s]
  BY ReadsFor
<1>3. pc' = [pc EXCEPT ![e] = "write"]
  BY DEF ReadCounter
<1>4. PlaceOK(e)'
  BY <1>2, <1>3 DEF TypeOK, PlaceOK
<1>5. /\ pc' \in [Evaluators -> {"idle", "read", "write"}] /\ DOMAIN held' = Evaluators
      /\ \A f \in Evaluators : PlaceOK(f)'
  BY <1>2, <1>3, <1>4, OthersInPlace
<1>6. QED
  BY <1>1, <1>5 DEF TypeOK

LEMMA WriteType == ASSUME TypeOK, NEW e \in Evaluators, WriteCounter(e) PROVE TypeOK'
<1>1. UNCHANGED <<alarm, state, now, measures, results, overlap>>
  BY DEF WriteCounter, alarmVars, sources
<1>2. counter' \in [States -> Nat]
  BY WritesFor DEF TypeOK
<1>3. pc' = [pc EXCEPT ![e] = "idle"] /\ held' = [held EXCEPT ![e] = <<>>]
  BY DEF WriteCounter
<1>4. PlaceOK(e)'
  BY <1>3 DEF TypeOK, PlaceOK
<1>5. /\ pc' \in [Evaluators -> {"idle", "read", "write"}] /\ DOMAIN held' = Evaluators
      /\ \A f \in Evaluators : PlaceOK(f)'
  BY <1>3, <1>4, OthersInPlace
<1>6. QED
  BY <1>1, <1>2, <1>5 DEF TypeOK

LEMMA TypeStep == TypeOK /\ [Next]_vars => TypeOK'
<1>1. SUFFICES ASSUME TypeOK, [Next]_vars PROVE TypeOK'
  OBVIOUS
<1>2. CASE UNCHANGED vars
  BY <1>1, <1>2 DEF TypeOK, PlaceOK, vars, alarmVars, sources, counts
<1>3. CASE Next
  BY <1>1, <1>3, NextSteps, EnvironmentType, EvaluateType, ReadType, WriteType
<1>4. QED
  BY <1>1, <1>2, <1>3

--------------------------------------------------------------------------------
(* The evaluators that have yet to count. *)

LEMMA PendingFinite ==
    ASSUME NEW s PROVE IsFiniteSet(Pending(s)) /\ Cardinality(Pending(s)) \in Nat
<1>1. Pending(s) \in SUBSET Evaluators /\ IsFiniteSet(Evaluators)
  BY BoundsAssumption DEF Pending
<1>2. IsFiniteSet(Pending(s))
  BY <1>1, FS_Subset
<1>3. QED
  BY <1>2, FS_CardinalityType

\* Pending(s) is made of evaluators that are not idle.
LEMMA PendingAtWork ==
    ASSUME TypeOK, NEW s, NEW e \in Pending(s)
    PROVE  e \in Evaluators /\ pc[e] \in {"read", "write"} /\ held[e] # <<>> /\ held[e][1] = s
BY DEF Pending, TypeOK, PlaceOK

LEMMA EvaluatePending ==
    ASSUME TypeOK, NEW e \in Evaluators, Evaluate(e), NEW s \in States
    PROVE  LET counts_ == Counted(Finding(state)) /\ Finding(state).state = s
           IN  /\ Pending(s)' = IF counts_ THEN Pending(s) \cup {e} ELSE Pending(s)
               /\ Cardinality(Pending(s)') =
                      IF counts_ THEN Cardinality(Pending(s)) + 1 ELSE Cardinality(Pending(s))
<1> DEFINE counts_ == Counted(Finding(state)) /\ Finding(state).state = s
<1>1. PICK h : /\ h = IF Counted(Finding(state)) THEN <<Finding(state).state>> ELSE <<>>
               /\ held' = [held EXCEPT ![e] = h]
  BY DEF Evaluate
<1>2. held[e] = <<>>
  BY DEF TypeOK, PlaceOK, Evaluate
<1>3. e \notin Pending(s)
  BY <1>2 DEF Pending
<1>4. h # <<>> /\ h[1] = s <=> counts_
  BY <1>1
<1>5. held'[e] = h /\ \A f \in Evaluators : f # e => held'[f] = held[f]
  BY <1>1 DEF TypeOK
<1>6. Pending(s)' = IF counts_ THEN Pending(s) \cup {e} ELSE Pending(s)
  <2>1. \A f \in Evaluators : f # e => (f \in Pending(s)' <=> f \in Pending(s))
    BY <1>5 DEF Pending
  <2>2. e \in Pending(s)' <=> counts_
    BY <1>4, <1>5 DEF Pending
  <2>3. Pending(s) \subseteq Evaluators /\ Pending(s)' \subseteq Evaluators
    BY DEF Pending
  <2> HIDE DEF counts_
  <2>4. QED
    BY <1>3, <2>1, <2>2, <2>3
<1>7. Cardinality(Pending(s) \cup {e}) = Cardinality(Pending(s)) + 1
  BY <1>3, PendingFinite, FS_AddElement
<1>8. QED
  BY <1>6, <1>7

LEMMA ReadPending ==
    ASSUME TypeOK, NEW e \in Evaluators, ReadCounter(e), NEW s
    PROVE  Pending(s)' = Pending(s)
<1>1. PICK t \in States : /\ held[e] = <<t>>
                          /\ held' = [held EXCEPT ![e] = held'[e]]
                          /\ held'[e] # <<>> /\ held'[e][1] = t
  BY ReadsFor
<1>2. \A f \in Evaluators : f # e => held'[f] = held[f]
  BY <1>1 DEF TypeOK
<1>3. held[e] # <<>> /\ held[e][1] = t
  BY <1>1
<1>4. QED
  BY <1>1, <1>2, <1>3 DEF Pending

LEMMA WritePending ==
    ASSUME TypeOK, NEW e \in Evaluators, WriteCounter(e), NEW s
    PROVE  /\ Pending(s)' = Pending(s) \ {e}
           /\ Cardinality(Pending(s)') =
                  IF e \in Pending(s) THEN Cardinality(Pending(s)) - 1
                  ELSE Cardinality(Pending(s))
<1>1. held' = [held EXCEPT ![e] = <<>>]
  BY DEF WriteCounter
<1>2. held'[e] = <<>> /\ \A f \in Evaluators : f # e => held'[f] = held[f]
  BY <1>1 DEF TypeOK
<1>3. Pending(s)' = Pending(s) \ {e}
  BY <1>2 DEF Pending
<1>4. QED
  BY <1>3, PendingFinite, FS_RemoveElement

LEMMA EnvironmentPending == Environment => \A s : Pending(s)' = Pending(s)
BY EnvironmentLeaves DEF Pending

--------------------------------------------------------------------------------
(* A counter does not run ahead of the results. *)

LEMMA CountInit == Init => NeverAhead /\ InStep
<1>1. SUFFICES ASSUME Init PROVE NeverAhead /\ InStep
  OBVIOUS
<1>2. /\ \A s \in States : counter[s] = 0 /\ results[s] = 0
      /\ \A e \in Evaluators : pc[e] = "idle" /\ held[e] = <<>>
  BY <1>1 DEF Init
<1>3. \A s : Pending(s) = {}
  BY <1>2 DEF Pending
<1>4. ResetAt \in Nat /\ \A s : Cardinality(Pending(s)) = 0
  BY <1>3, FS_EmptySet, BoundsAssumption
<1>5. NeverAhead
  <2>1. ASSUME NEW s \in States
        PROVE  /\ counter[s] <= ResetAt
               /\ counter[s] + Cardinality(Pending(s)) <= results[s]
               /\ \A e \in Pending(s) : pc[e] # "write"
    BY <1>2, <1>3, <1>4
  <2>2. QED
    BY <2>1 DEF NeverAhead
<1>6. InStep
  <2>1. \A e \in Evaluators : ~ (pc[e] # "idle") /\ ~ (pc[e] = "write")
    BY <1>2
  <2>2. \A s \in States : counter[s] = results[s] - Cardinality(Pending(s))
    BY <1>2, <1>4
  <2>3. QED
    BY <2>1, <2>2 DEF InStep
<1>7. QED
  BY <1>5, <1>6

LEMMA EvaluateNeverAhead ==
    ASSUME TypeOK, NeverAhead, NEW e \in Evaluators, Evaluate(e) PROVE NeverAhead'
<1>1. SUFFICES ASSUME NEW s \in States
               PROVE  /\ counter'[s] <= ResetAt
                      /\ counter'[s] + Cardinality(Pending(s)') <= results'[s]
                      /\ \A f \in Pending(s)' :
                             pc'[f] = "write" =>
                                 held'[f][2] + Cardinality(Pending(s)') <= results'[s]
  BY DEF NeverAhead
<1>2. PICK found : found = Finding(state)
  OBVIOUS
<1> DEFINE counts_ == Counted(found) /\ found.state = s
<1>3. counter' = counter /\ results' = [results EXCEPT ![found.state] = @ + 1]
  BY <1>2 DEF Evaluate
<1>4. /\ Pending(s)' = IF counts_ THEN Pending(s) \cup {e} ELSE Pending(s)
      /\ Cardinality(Pending(s)') =
             IF counts_ THEN Cardinality(Pending(s)) + 1 ELSE Cardinality(Pending(s))
  BY <1>2, EvaluatePending
<1>5. Cardinality(Pending(s)) \in Nat /\ counter[s] \in Nat /\ results[s] \in Nat
  BY PendingFinite DEF TypeOK
<1>6. /\ counts_ => results'[s] = results[s] + 1
      /\ results'[s] \in {results[s], results[s] + 1}
  BY <1>3 DEF TypeOK
<1>7. /\ counter[s] <= ResetAt
      /\ counter[s] + Cardinality(Pending(s)) <= results[s]
      /\ \A f \in Pending(s) :
             pc[f] = "write" => held[f][2] + Cardinality(Pending(s)) <= results[s]
  BY DEF NeverAhead
<1>8. Cardinality(Pending(s)') - Cardinality(Pending(s)) <= results'[s] - results[s]
  <2> HIDE DEF counts_
  <2>1. QED
    BY <1>4, <1>5, <1>6
<1>9. ASSUME NEW f \in Pending(s)', pc'[f] = "write"
      PROVE  held'[f][2] + Cardinality(Pending(s)') <= results'[s]
  <2>1. pc'[e] # "write"
    BY DEF Evaluate, TypeOK
  <2>2. f \in Pending(s) /\ f # e
    BY <1>4, <1>9, <2>1
  <2>3. pc'[f] = pc[f] /\ held'[f] = held[f]
    BY <2>2, PendingAtWork DEF Evaluate, TypeOK
  <2>4. held[f][2] \in Nat
    BY <1>9, <2>2, <2>3, PendingAtWork DEF TypeOK, PlaceOK
  <2>5. held[f][2] + Cardinality(Pending(s)) <= results[s]
    BY <1>7, <1>9, <2>2, <2>3
  <2>6. Cardinality(Pending(s)') \in Nat /\ results'[s] \in Nat
    BY <1>4, <1>5, <1>6
  <2> HIDE DEF counts_
  <2>7. held[f][2] + Cardinality(Pending(s)') <= results'[s]
    BY <1>5, <1>8, <2>4, <2>5, <2>6
  <2>8. QED
    BY <2>3, <2>7
<1>10. counter'[s] + Cardinality(Pending(s)') <= results'[s]
  <2>1. Cardinality(Pending(s)') \in Nat /\ results'[s] \in Nat
    BY <1>4, <1>5, <1>6
  <2> HIDE DEF counts_
  <2>2. QED
    BY <1>3, <1>5, <1>7, <1>8, <2>1
<1>11. QED
  BY <1>3, <1>7, <1>9, <1>10

LEMMA ReadNeverAhead ==
    ASSUME TypeOK, NeverAhead, NEW e \in Evaluators, ReadCounter(e) PROVE NeverAhead'
<1>1. counter' = counter /\ results' = results
  BY DEF ReadCounter, counts
<1>2. SUFFICES ASSUME NEW s \in States, NEW f \in Pending(s), pc'[f] = "write"
               PROVE  held'[f][2] + Cardinality(Pending(s)) <= results[s]
  BY <1>1, ReadPending DEF NeverAhead
<1>3. PICK t \in States : /\ held[e] = <<t>>
                          /\ held' = [held EXCEPT ![e] = held'[e]]
                          /\ held'[e][2] = counter[t]
  BY ReadsFor
<1>4. CASE f = e
  <2>1. t = s
    BY <1>3, <1>4, PendingAtWork
  <2>2. QED
    BY <1>3, <1>4, <2>1 DEF NeverAhead
<1>5. CASE f # e
  <2>1. f \in Evaluators
    BY PendingAtWork
  <2>2. pc'[f] = pc[f] /\ held'[f] = held[f]
    BY <1>3, <1>5, <2>1 DEF ReadCounter, TypeOK
  <2>3. QED
    BY <1>2, <2>2 DEF NeverAhead
<1>6. QED
  BY <1>4, <1>5

LEMMA WriteNeverAhead ==
    ASSUME TypeOK, NeverAhead, NEW e \in Evaluators, WriteCounter(e) PROVE NeverAhead'
<1>1. results' = results
  BY DEF WriteCounter
<1>2. PICK t \in States, n \in Nat :
          /\ held[e] # <<>> /\ held[e][1] = t /\ held[e][2] = n
          /\ counter' = [counter EXCEPT ![t] = NewValue(n, counter[t])]
          /\ counter'[t] = NewValue(n, counter[t])
          /\ NewValue(n, counter[t]) \in Nat
  BY WritesFor
<1>3. SUFFICES ASSUME NEW s \in States
               PROVE  /\ counter'[s] <= ResetAt
                      /\ counter'[s] + Cardinality(Pending(s)') <= results[s]
                      /\ \A f \in Pending(s)' :
                             pc'[f] = "write" =>
                                 held'[f][2] + Cardinality(Pending(s)') <= results[s]
  BY <1>1 DEF NeverAhead
<1>4. /\ counter[s] <= ResetAt
      /\ counter[s] + Cardinality(Pending(s)) <= results[s]
      /\ \A f \in Pending(s) :
             pc[f] = "write" => held[f][2] + Cardinality(Pending(s)) <= results[s]
  BY DEF NeverAhead
<1>5. /\ Pending(s)' = Pending(s) \ {e}
      /\ Cardinality(Pending(s)') =
             IF e \in Pending(s) THEN Cardinality(Pending(s)) - 1 ELSE Cardinality(Pending(s))
  BY WritePending
<1>6. /\ Cardinality(Pending(s)) \in Nat /\ Cardinality(Pending(s)') \in Nat
      /\ counter[s] \in Nat /\ results[s] \in Nat /\ ResetAt \in Nat
  <2>1. Cardinality(Pending(s)) \in Nat
    BY PendingFinite
  <2>2. IsFiniteSet(Pending(s)')
    BY <1>5, PendingFinite, FS_RemoveElement
  <2>3. QED
    BY <2>1, <2>2, FS_CardinalityType, BoundsAssumption DEF TypeOK
<1>7. Cardinality(Pending(s)') <= Cardinality(Pending(s))
  BY <1>5, <1>6
<1>8. ASSUME NEW f \in Pending(s)', pc'[f] = "write"
      PROVE  held'[f][2] + Cardinality(Pending(s)') <= results[s]
  <2>1. f \in Pending(s) /\ f # e
    BY <1>5
  <2>2. f \in Evaluators
    BY <2>1, PendingAtWork
  <2>3. pc'[f] = pc[f] /\ held'[f] = held[f]
    BY <2>1, <2>2 DEF WriteCounter, TypeOK
  <2>4. held[f][2] \in Nat
    BY <1>8, <2>1, <2>2, <2>3 DEF TypeOK, PlaceOK
  <2>5. held[f][2] + Cardinality(Pending(s)) <= results[s]
    BY <1>4, <1>8, <2>1, <2>3
  <2>6. held[f][2] + Cardinality(Pending(s)') <= results[s]
    BY <1>6, <1>7, <2>4, <2>5
  <2>7. QED
    BY <2>3, <2>6
<1>9. counter'[s] <= ResetAt /\ counter'[s] + Cardinality(Pending(s)') <= results[s]
  <2>1. CASE s # t
    <3>1. counter'[s] = counter[s]
      BY <1>2, <2>1 DEF TypeOK
    <3>2. QED
      BY <1>4, <1>6, <1>7, <3>1
  <2>2. CASE s = t
    <3>1. e \in Pending(s) /\ pc[e] = "write"
      BY <1>2, <2>2 DEF Pending, WriteCounter
    <3>2. Cardinality(Pending(s)') = Cardinality(Pending(s)) - 1
      BY <1>5, <3>1
    <3>3. n + Cardinality(Pending(s)) <= results[s]
      BY <1>2, <1>4, <3>1
    <3>4. CASE n >= ResetAt \/ (n = 0 /\ counter[s] # 0)
      <4>1. counter'[s] = counter[s]
        BY <1>2, <2>2, <3>4 DEF NewValue
      <4>2. QED
        BY <1>4, <1>6, <1>7, <4>1
    <3>5. CASE ~ (n >= ResetAt \/ (n = 0 /\ counter[s] # 0))
      <4>1. counter'[s] = n + 1
        BY <1>2, <2>2, <3>5 DEF NewValue
      <4>2. n < ResetAt
        BY <1>6, <3>5
      <4>3. QED
        BY <1>6, <3>2, <3>3, <4>1, <4>2
    <3>6. QED
      BY <3>4, <3>5
  <2>3. QED
    BY <2>1, <2>2
<1>10. QED
  BY <1>8, <1>9

--------------------------------------------------------------------------------
(* Evaluators that do not overlap. *)

LEMMA EvaluateInStep ==
    ASSUME TypeOK, NeverAhead, InStep, NEW e \in Evaluators, Evaluate(e) PROVE InStep'
<1>1. PICK found : found = Finding(state)
  OBVIOUS
<1>2. SUFFICES ASSUME overlap' = FALSE
               PROVE  /\ \A f, g \in Evaluators : pc'[f] # "idle" /\ pc'[g] # "idle" => f = g
                      /\ \A f \in Evaluators : pc'[f] = "write" => held'[f][2] = counter'[held'[f][1]]
                      /\ CountResults /\ alarm'.type \in {"gnocchi", "prometheus"} =>
                             \A s \in States :
                                 \/ counter'[s] = ResetAt
                                 \/ counter'[s] = results'[s] - Cardinality(Pending(s)')
  BY DEF InStep
<1>3. /\ counter' = counter /\ alarm' = alarm
      /\ results' = [results EXCEPT ![found.state] = @ + 1]
      /\ pc' = [pc EXCEPT ![e] = IF Counted(found) THEN "read" ELSE "idle"]
      /\ overlap' = (overlap \/ (Counted(found) /\ \E f \in Evaluators : pc[f] # "idle"))
  BY <1>1 DEF Evaluate
<1>4. overlap = FALSE /\ (Counted(found) => \A f \in Evaluators : pc[f] = "idle")
  BY <1>2, <1>3 DEF TypeOK
<1>5. \A f \in Evaluators : f # e => pc'[f] = pc[f] /\ held'[f] = held[f]
  BY DEF Evaluate, TypeOK
<1>6. /\ pc'[e] # "write" /\ pc[e] = "idle"
      /\ pc'[e] # "idle" => Counted(found)
  BY <1>1 DEF Evaluate, TypeOK
<1>7. \A f, g \in Evaluators : pc'[f] # "idle" /\ pc'[g] # "idle" => f = g
  <2>1. CASE Counted(found)
    BY <1>4, <1>5, <2>1
  <2>2. CASE ~ Counted(found)
    BY <1>4, <1>5, <1>6, <2>2 DEF InStep
  <2>3. QED
    BY <2>1, <2>2
<1>8. \A f \in Evaluators : pc'[f] = "write" => held'[f][2] = counter'[held'[f][1]]
  BY <1>3, <1>4, <1>5, <1>6 DEF InStep
<1>9. ASSUME CountResults, alarm.type \in {"gnocchi", "prometheus"}, NEW s \in States
      PROVE  \/ counter'[s] = ResetAt
             \/ counter'[s] = results'[s] - Cardinality(Pending(s)')
  <2>1. counter[s] = ResetAt \/ counter[s] = results[s] - Cardinality(Pending(s))
    BY <1>4, <1>9 DEF InStep
  <2>2. Counted(found) <=> found.state # None
    BY <1>9 DEF Counted
  <2>3. found.state = s => Counted(found)
    BY <2>2, ValuesAssumption
  <2>4. Cardinality(Pending(s)') =
            IF found.state = s THEN Cardinality(Pending(s)) + 1 ELSE Cardinality(Pending(s))
    BY <1>1, <2>3, EvaluatePending
  <2>5. results'[s] = IF found.state = s THEN results[s] + 1 ELSE results[s]
    BY <1>3 DEF TypeOK
  <2>6. Cardinality(Pending(s)) \in Nat /\ results[s] \in Nat
    BY PendingFinite DEF TypeOK
  <2>7. results'[s] - Cardinality(Pending(s)') = results[s] - Cardinality(Pending(s))
    BY <2>4, <2>5, <2>6
  <2>8. QED
    BY <1>3, <2>1, <2>7
<1>10. QED
  BY <1>3, <1>7, <1>8, <1>9

LEMMA ReadInStep ==
    ASSUME TypeOK, InStep, NEW e \in Evaluators, ReadCounter(e) PROVE InStep'
<1>1. /\ counter' = counter /\ results' = results /\ overlap' = overlap /\ alarm' = alarm
      /\ pc[e] = "read" /\ pc' = [pc EXCEPT ![e] = "write"]
  BY DEF ReadCounter, counts, alarmVars
<1>2. CASE overlap # FALSE
  BY <1>1, <1>2 DEF InStep
<1>3. CASE overlap = FALSE
  <2>1. PICK t \in States : /\ held' = [held EXCEPT ![e] = held'[e]]
                            /\ held'[e][1] = t /\ held'[e][2] = counter[t]
    BY ReadsFor
  <2>2. \A f \in Evaluators : /\ pc'[f] # "idle" <=> pc[f] # "idle"
                              /\ f # e => pc'[f] = pc[f] /\ held'[f] = held[f]
    BY <1>1, <2>1 DEF TypeOK
  <2>3. \A f, g \in Evaluators : pc'[f] # "idle" /\ pc'[g] # "idle" => f = g
    BY <1>3, <2>2 DEF InStep
  <2>4. \A f \in Evaluators : pc'[f] = "write" => held'[f][2] = counter'[held'[f][1]]
    BY <1>1, <1>3, <2>1, <2>2 DEF InStep
  <2>5. CountResults /\ alarm'.type \in {"gnocchi", "prometheus"} =>
            \A s \in States : \/ counter'[s] = ResetAt
                              \/ counter'[s] = results'[s] - Cardinality(Pending(s)')
    <3>1. \A s : Pending(s)' = Pending(s)
      BY ReadPending
    <3>2. QED
      BY <1>1, <1>3, <3>1 DEF InStep
  <2>6. QED
    BY <2>3, <2>4, <2>5 DEF InStep
<1>4. QED
  BY <1>2, <1>3

LEMMA WriteInStep ==
    ASSUME TypeOK, NeverAhead, InStep, NEW e \in Evaluators, WriteCounter(e) PROVE InStep'
<1>1. /\ results' = results /\ overlap' = overlap /\ alarm' = alarm
      /\ pc[e] = "write" /\ pc' = [pc EXCEPT ![e] = "idle"]
  BY DEF WriteCounter, alarmVars
<1>2. SUFFICES ASSUME overlap = FALSE
               PROVE  /\ \A f, g \in Evaluators : pc'[f] # "idle" /\ pc'[g] # "idle" => f = g
                      /\ \A f \in Evaluators : pc'[f] = "write" => held'[f][2] = counter'[held'[f][1]]
                      /\ CountResults /\ alarm.type \in {"gnocchi", "prometheus"} =>
                             \A s \in States :
                                 \/ counter'[s] = ResetAt
                                 \/ counter'[s] = results[s] - Cardinality(Pending(s)')
  BY <1>1 DEF InStep
<1>3. \A f \in Evaluators : pc'[f] = "idle"
  <2>1. \A f \in Evaluators : pc[f] # "idle" => f = e
    BY <1>1, <1>2 DEF InStep
  <2>2. QED
    BY <1>1, <2>1 DEF TypeOK
<1>4. PICK t \in States, n \in Nat :
          /\ held[e] # <<>> /\ held[e][1] = t /\ held[e][2] = n
          /\ counter' = [counter EXCEPT ![t] = NewValue(n, counter[t])]
          /\ counter'[t] = NewValue(n, counter[t])
          /\ NewValue(n, counter[t]) \in Nat
  BY WritesFor
<1>5. n = counter[t]
  BY <1>1, <1>2, <1>4 DEF InStep
<1>6. ASSUME CountResults, alarm.type \in {"gnocchi", "prometheus"}, NEW s \in States
      PROVE  \/ counter'[s] = ResetAt
             \/ counter'[s] = results[s] - Cardinality(Pending(s)')
  <2>1. counter[s] = ResetAt \/ counter[s] = results[s] - Cardinality(Pending(s))
    BY <1>2, <1>6 DEF InStep
  <2>2. Cardinality(Pending(s)) \in Nat /\ results[s] \in Nat /\ counter[s] \in Nat /\ ResetAt \in Nat
    BY PendingFinite, BoundsAssumption DEF TypeOK
  <2>3. Cardinality(Pending(s)') =
            IF e \in Pending(s) THEN Cardinality(Pending(s)) - 1 ELSE Cardinality(Pending(s))
    BY WritePending
  <2>4. CASE s # t
    <3>1. counter'[s] = counter[s]
      BY <1>4, <2>4 DEF TypeOK
    <3>2. e \notin Pending(s)
      BY <1>4, <2>4 DEF Pending
    <3>3. QED
      BY <2>1, <2>3, <3>1, <3>2
  <2>5. CASE s = t
    <3>1. e \in Pending(s)
      BY <1>4, <2>5 DEF Pending
    <3>2. counter[s] <= ResetAt
      BY DEF NeverAhead
    <3>3. CASE counter[s] = ResetAt
      <4>1. counter'[s] = ResetAt
        BY <1>4, <1>5, <2>2, <2>5, <3>3 DEF NewValue
      <4>2. QED
        BY <4>1
    <3>4. CASE counter[s] # ResetAt
      <4>1. counter'[s] = counter[s] + 1
        BY <1>4, <1>5, <2>2, <2>5, <3>2, <3>4 DEF NewValue
      <4>2. QED
        BY <2>1, <2>2, <2>3, <3>1, <3>4, <4>1
    <3>5. QED
      BY <3>3, <3>4
  <2>6. QED
    BY <2>4, <2>5
<1>7. QED
  BY <1>3, <1>6

LEMMA CountStep ==
    TypeOK /\ NeverAhead /\ InStep /\ [Next]_vars => NeverAhead' /\ InStep'
<1>1. SUFFICES ASSUME TypeOK, NeverAhead, InStep, [Next]_vars PROVE NeverAhead' /\ InStep'
  OBVIOUS
<1>2. ASSUME UNCHANGED <<alarmVars, counts, pc, held>> PROVE NeverAhead' /\ InStep'
  <2>1. /\ UNCHANGED <<alarm, state, notified>> /\ UNCHANGED <<counter, results, overlap>>
        /\ UNCHANGED <<pc, held>>
    BY <1>2 DEF alarmVars, counts
  <2>2. \A s : Pending(s)' = Pending(s)
    BY <2>1 DEF Pending
  <2>3. NeverAhead'
    BY <1>1, <2>1, <2>2 DEF NeverAhead
  <2>4. InStep'
    BY <1>1, <2>1, <2>2 DEF InStep
  <2>5. QED
    BY <2>3, <2>4
<1>3. CASE UNCHANGED vars
  BY <1>2, <1>3 DEF vars
<1>4. CASE Environment
  BY <1>2, <1>4, EnvironmentLeaves
<1>5. ASSUME NEW e \in Evaluators, Evaluate(e) PROVE NeverAhead' /\ InStep'
  BY <1>1, <1>5, EvaluateNeverAhead, EvaluateInStep
<1>6. ASSUME NEW e \in Evaluators, ReadCounter(e) PROVE NeverAhead' /\ InStep'
  BY <1>1, <1>6, ReadNeverAhead, ReadInStep
<1>7. ASSUME NEW e \in Evaluators, WriteCounter(e) PROVE NeverAhead' /\ InStep'
  BY <1>1, <1>7, WriteNeverAhead, WriteInStep
<1>8. QED
  BY <1>1, <1>3, <1>4, <1>5, <1>6, <1>7, NextSteps

--------------------------------------------------------------------------------
(* The theorems. *)

\* The variables of the evaluation keep their types: an evaluation that does not
\* raise gives one of the three states, and a counter is a number.
THEOREM TypeCorrect == Spec => []TypeOK
<1>1. QED
  BY TypeInit, TypeStep, PTL DEF Spec

\* However many evaluators count the results of an alarm at the same time, its
\* counters never run ahead of its evaluations, and up to the limit they keep up
\* with them unless two evaluators met.
THEOREM CountersAreKept == Spec => []CountersFollowResults
<1>1. TypeOK /\ NeverAhead /\ InStep => CountersFollowResults
  <2>1. SUFFICES ASSUME TypeOK, NeverAhead, InStep, NEW s \in States
                 PROVE  /\ counter[s] <= results[s]
                        /\ CountResults /\ ~overlap /\ results[s] <= ResetAt
                                /\ alarm.type \in {"gnocchi", "prometheus"}
                           => counter[s] = results[s] - Cardinality(Pending(s))
    BY DEF CountersFollowResults, Pending
  <2>2. counter[s] + Cardinality(Pending(s)) <= results[s]
    BY <2>1 DEF NeverAhead
  <2>3. /\ Cardinality(Pending(s)) \in Nat /\ counter[s] \in Nat /\ results[s] \in Nat
        /\ ResetAt \in Nat
    BY <2>1, PendingFinite, BoundsAssumption DEF TypeOK
  <2>4. counter[s] <= results[s]
    BY <2>2, <2>3
  <2>5. ASSUME CountResults, ~overlap, results[s] <= ResetAt,
               alarm.type \in {"gnocchi", "prometheus"}
        PROVE  counter[s] = results[s] - Cardinality(Pending(s))
    <3>1. counter[s] = ResetAt \/ counter[s] = results[s] - Cardinality(Pending(s))
      BY <2>1, <2>5, BoundsAssumption DEF InStep, TypeOK
    <3>2. CASE counter[s] = ResetAt
      BY <2>2, <2>3, <2>5, <3>2
    <3>3. QED
      BY <3>1, <3>2
  <2>6. QED
    BY <2>4, <2>5
<1>2. Init => TypeOK /\ NeverAhead /\ InStep
  BY TypeInit, CountInit
<1>3. TypeOK /\ NeverAhead /\ InStep /\ [Next]_vars => (TypeOK /\ NeverAhead /\ InStep)'
  BY TypeStep, CountStep
<1>4. QED
  BY <1>1, <1>2, <1>3, PTL DEF Spec

\* The two tests of within_time_constraint leave no gap in the windows of an
\* alarm, whatever instants the cron expressions name.
THEOREM WindowsAreOpen == Spec => []OpenInsideWindows
<1>1. TypeOK => OpenInsideWindows
  <2>1. SUFFICES ASSUME TypeOK, InsideWindow
                 PROVE  WithinTimeConstraint(alarm.time_constraints, now)
    BY DEF OpenInsideWindows
  <2>2. PICK constraints : constraints = alarm.time_constraints
    OBVIOUS
  <2>3. PICK n \in Int : n = now
    BY <2>1 DEF TypeOK
  <2>4. \A tc \in constraints : tc.starts \subseteq Int /\ tc.duration \in Nat
    BY <2>1, <2>2, AlarmsAssumption DEF TypeOK
  <2>5. \/ constraints = {}
        \/ \E tc \in constraints : \E t \in tc.starts : t <= n /\ n <= t + tc.duration
    BY <2>1, <2>2, <2>3 DEF InsideWindow
  <2>6. \A t \in Int : t <= n => t - Minute < n
    BY BoundsAssumption
  <2>7. \/ constraints = {}
        \/ \E tc \in constraints : \E t \in tc.starts :
               t - Minute < n /\ n <= t + tc.duration
    BY <2>4, <2>5, <2>6
  <2>8. QED
    BY <2>2, <2>3, <2>4, <2>7, WithinWhenAWindowIs
<1>2. QED
  BY <1>1, TypeInit, TypeStep, PTL DEF Spec

\* The duration that _bound_duration adds to the periods of a rule is enough for
\* measures that are as late as the configured lag: an alarm does not turn to
\* "insufficient data" because the last period is not aggregated yet.
THEOREM LagNeverStarves == Spec => []LagIsTolerated
<1>1. TypeOK => LagIsTolerated
  <2>1. SUFFICES ASSUME TypeOK, NEW t \in RuleTargets[alarm.rule],
                        t.type = "gnocchi", t.granularity = Granularity, t \notin down,
                        now >= t.evaluation_periods * Granularity + IngestionLag,
                        (Len(measures[t]) + 1) * Granularity + IngestionLag > now
                 PROVE  Outcome(t) # Insufficient
    BY DEF LagIsTolerated
  <2>2. PICK points \in Seq(Values) : points = measures[t]
    BY <2>1 DEF TypeOK
  <2>3. t.evaluation_periods \in Nat \ {0}
    BY <2>1, AlarmsAssumption DEF TypeOK
  <2>4. PICK n \in Nat : n = now
    BY <2>1 DEF TypeOK
  <2>5. PICK archive : archive = [granularity |-> Granularity, points |-> points]
    OBVIOUS
  <2>6. Len(GnocchiStatistics(t, archive, n)) = t.evaluation_periods
    BY <2>1, <2>2, <2>3, <2>4, <2>5, EnoughPoints
  <2>7. Outcome(t) = GnocchiRule(t, archive, n)
    BY <2>1, <2>2, <2>4, <2>5 DEF Outcome
  <2>8. GnocchiRule(t, archive, n) = ProcessStatistics(t, GnocchiStatistics(t, archive, n))
    BY <2>3, <2>6 DEF GnocchiRule
  <2>9. QED
    BY <2>7, <2>8, StatisticsVerdict
<1>2. QED
  BY <1>1, TypeInit, TypeStep, PTL DEF Spec

--------------------------------------------------------------------------------
(* What an evaluation may do to an alarm. *)

LEMMA OnlyEvaluationsCount ==
    ASSUME TypeOK, [Next]_vars, Evaluated PROVE \E e \in Evaluators : Evaluate(e)
<1>1. Evaluations \in Nat
  BY DEF Evaluations, TypeOK, States
<1>2. results' = results => Evaluations' = Evaluations
  BY DEF Evaluations
<1>3. results' # results
  BY <1>1, <1>2 DEF Evaluated
<1>4. ~ Environment /\ ~ UNCHANGED vars
  BY <1>3, EnvironmentLeaves DEF vars, counts
<1>5. \A e \in Evaluators : ~ ReadCounter(e) /\ ~ WriteCounter(e)
  BY <1>3 DEF ReadCounter, WriteCounter, counts
<1>6. QED
  BY <1>4, <1>5, NextSteps

\* An evaluation hands no state to _refresh only when it has nothing to repeat.
LEMMA SilentOnlyWhenDue ==
    ASSUME TypeOK, NEW e \in Evaluators, Evaluate(e), Target(state, Finding(state)) = None
    PROVE  \/ alarm.type = "composite" /\ state = UNKNOWN
           \/ ~ alarm.repeat_actions
<1>1. PICK found \in Verdicts : found = Finding(state)
  BY EvaluateFinds
<1>2. \/ found.state \in States /\ found.trending = None
      \/ found.state = None /\ found.trending \in {OK, ALARM}
  BY VerdictFields
<1>3. None \notin States
  BY ValuesAssumption
<1>4. CASE alarm.type = "composite"
  <2>1. found.state \in States
    BY <1>1, <1>4, FindingIsVerdict DEF TypeOK, Evaluate
  <2>2. CompositeTransition(state, found.state) = None
    BY <1>1, <1>4 DEF Target
  <2>3. QED
    BY <1>3, <1>4, <2>1, <2>2 DEF CompositeTransition
<1>5. CASE alarm.type = "loadbalancer_member_health"
  <2>1. found.trending = None
    BY <1>1, <1>5, MembersHaveAState DEF TypeOK
  <2>2. found.state = None
    BY <1>1, <1>5 DEF Target
  <2>3. QED
    BY <1>2, <1>3, <2>1, <2>2 DEF States
<1>6. CASE alarm.type \notin {"composite", "loadbalancer_member_health"}
  <2>1. TransitionAlarm(state, alarm.repeat_actions, found) = None
    BY <1>1, <1>6 DEF Target
  <2>2. state # None
    BY <1>3 DEF TypeOK
  <2>3. QED
    BY <1>2, <1>3, <2>1, <2>2 DEF TransitionAlarm, States
<1>7. QED
  BY <1>4, <1>5, <1>6

\* A sub-rule without a tendency means the same to an alarm in any state.
LEMMA SettledAlike ==
    ASSUME NEW s, NEW u,
           \A t \in RuleTargets[alarm.rule] : Outcomes[t] # Raised => Outcomes[t].trending = None
    PROVE  CompositeVerdict(alarm.rule, s, Outcomes) = CompositeVerdict(alarm.rule, u, Outcomes)
<1> DEFINE settled(x) == [t \in RuleTargets[alarm.rule] |-> Settle(Outcomes[t], x)]
<1>1. \A t \in RuleTargets[alarm.rule] : Settle(Outcomes[t], s) = Settle(Outcomes[t], u)
  BY DEF Settle
<1>2. settled(s) = settled(u)
  BY <1>1
<1>3. QED
  BY <1>2 DEF CompositeVerdict

LEMMA FoundAlike ==
    ASSUME NEW s, NEW u,
           \A t \in DOMAIN Outcomes : Outcomes[t] # Raised => \/ Outcomes[t].trending = None
                                                             \/ alarm.type # "composite"
    PROVE  Finding(s) = Finding(u)
<1>1. CASE alarm.type = "composite"
  <2>1. DOMAIN Outcomes = RuleTargets[alarm.rule]
    BY DEF Outcomes
  <2>2. CompositeVerdict(alarm.rule, s, Outcomes) = CompositeVerdict(alarm.rule, u, Outcomes)
    BY <1>1, <2>1, SettledAlike
  <2>3. QED
    BY <2>2 DEF Finding
<1>2. CASE alarm.type # "composite"
  BY <1>2 DEF Finding
<1>3. QED
  BY <1>1, <1>2

\* Whatever the type of the rule, an evaluation that changes the state notifies,
\* and one that does not notifies if and only if the alarm repeats its actions.
THEOREM NotifiesAlways == Spec => NotifiesWhenDue
<1>1. ASSUME TypeOK, [Next]_vars, Evaluated,
             ~ (alarm.type = "composite" /\ {state, state'} = {UNKNOWN})
      PROVE  notified' = (state' # state \/ alarm.repeat_actions)
  <2>1. PICK e \in Evaluators : Evaluate(e)
    BY <1>1, OnlyEvaluationsCount
  <2>2. PICK target : target = Target(state, Finding(state))
    OBVIOUS
  <2>3. /\ state' = IF target = None THEN state ELSE target
        /\ notified' = (target # None /\ (target # state \/ alarm.repeat_actions))
    BY <2>1, <2>2 DEF Evaluate
  <2>4. alarm.repeat_actions \in BOOLEAN
    BY <1>1, AlarmsAssumption DEF TypeOK
  <2>5. CASE target # None
    BY <2>3, <2>5
  <2>6. CASE target = None
    <3>1. ~ alarm.repeat_actions
      BY <1>1, <2>1, <2>2, <2>3, <2>6, SilentOnlyWhenDue
    <3>2. QED
      BY <2>3, <2>6, <3>1
  <2>7. QED
    BY <2>5, <2>6
<1>2. TypeOK /\ [Next]_vars
          => [Evaluated /\ ~ (alarm.type = "composite" /\ {state, state'} = {UNKNOWN})
                  => notified' = (state' # state \/ alarm.repeat_actions)]_vars
  BY <1>1
<1>3. QED
  BY <1>2, TypeCorrect, PTL DEF Spec, NotifiesWhenDue

\* An alarm does not flap on its own: evaluated again on the same measures, it
\* stays in the state the first evaluation gave it.
THEOREM SettlesAlways == Spec => SettlesOnSameMeasures
<1> DEFINE Plain == \A t \in DOMAIN Outcomes : Outcomes[t] # Raised =>
                        Outcomes[t].trending = None \/ alarm.type # "composite"
<1>1. TypeOK /\ [Next]_vars /\ Evaluated /\ Plain
          => Target(state', Finding(state')) \in {None, state'}
  <2>1. SUFFICES ASSUME TypeOK, [Next]_vars, Evaluated, Plain
                 PROVE  Target(state', Finding(state')) \in {None, state'}
    OBVIOUS
  <2>2. PICK e \in Evaluators : Evaluate(e)
    BY <2>1, OnlyEvaluationsCount
  <2>3. PICK found \in Verdicts, u \in States : found = Finding(state) /\ u = state'
    BY <2>1, <2>2, EvaluateFinds
  <2>4. Finding(state') = found
    BY <2>1, <2>3, FoundAlike
  <2>5. /\ u = IF Target(state, found) = None THEN state ELSE Target(state, found)
        /\ state \in States
    BY <2>1, <2>2, <2>3, EvaluateFinds DEF TypeOK
  <2>6. /\ \/ found.state \in States /\ found.trending = None
           \/ found.state = None /\ found.trending \in {OK, ALARM}
        /\ None \notin States
    BY VerdictFields, ValuesAssumption
  <2>7. Target(u, found) \in {None, u}
    <3>1. CASE alarm.type = "composite"
      BY <2>5, <3>1 DEF Target, CompositeTransition
    <3>2. CASE alarm.type = "loadbalancer_member_health"
      BY <2>5, <3>2 DEF Target
    <3>3. CASE alarm.type \notin {"composite", "loadbalancer_member_health"}
      <4>1. /\ Target(u, found) = TransitionAlarm(u, alarm.repeat_actions, found)
            /\ Target(state, found) = TransitionAlarm(state, alarm.repeat_actions, found)
        BY <3>3 DEF Target
      <4>2. QED
        BY <2>5, <2>6, <4>1 DEF TransitionAlarm, States, UNKNOWN, OK, ALARM
    <3>4. QED
      BY <3>1, <3>2, <3>3
  <2>8. QED
    BY <2>3, <2>4, <2>7
<1>2. TypeOK /\ [Next]_vars
          => [Evaluated /\ Plain => Target(state', Finding(state')) \in {None, state'}]_vars
  BY <1>1
<1>3. QED
  BY <1>2, TypeCorrect, PTL DEF Spec, SettlesOnSameMeasures

--------------------------------------------------------------------------------
(* Rules within rules: the functions of module CompositeRule satisfy their    *)
(* definitions, and what holds of a rule if it holds of its sub-rules holds.  *)

Within == [rule \in Rules |-> SubRules(rule)]

LEMMA RulesWellFounded ==
    /\ WellFounded(Rules, Within)
    /\ \A rule \in Rules : Within[rule] = SubRules(rule) /\ SubRules(rule) \subseteq Rules
<1>1. \A rule \in Rules : SubRules(rule) \subseteq Rules
  BY RulesAssumption DEF SubRules
<1>2. ASSUME NEW T \in SUBSET Rules, T # {} PROVE \E rule \in T : Within[rule] \cap T = {}
  <2>1. PICK rule \in T : SubRules(rule) \cap T = {}
    BY <1>2, RulesAssumption
  <2>2. QED
    BY <2>1 DEF Within
<1>3. QED
  BY <1>1, <1>2 DEF WellFounded, Within

\* Nothing is wrong with a rule if nothing is when nothing is with its sub-rules.
LEMMA NoBadRule ==
    ASSUME NEW Bad \in SUBSET Rules,
           \A rule \in Bad : SubRules(rule) \cap Bad # {}
    PROVE  Bad = {}
BY RulesAssumption

LEMMA SubRulePlaces ==
    ASSUME NEW rule \in Rules, IsComposite(rule)
    PROVE  /\ rule.rules \in Seq(Rules)
           /\ DOMAIN rule.rules = 1..Len(rule.rules)
           /\ \A i \in DOMAIN rule.rules : rule.rules[i] \in SubRules(rule)
           /\ \A sub \in SubRules(rule) : \E i \in DOMAIN rule.rules : sub = rule.rules[i]
<1>1. rule.rules \in Seq(Rules)
  BY RulesAssumption
<1>2. DOMAIN rule.rules = 1..Len(rule.rules)
  BY <1>1
<1>3. QED
  BY <1>1, <1>2 DEF SubRules

LEMMA TargetsUnfold ==
    \A rule \in Rules :
        RuleTargets[rule] = IF IsComposite(rule) THEN UNION {RuleTargets[sub] : sub \in SubRules(rule)}
                            ELSE {rule}
<1> DEFINE Value(rule, f) == IF IsComposite(rule) THEN UNION {f[sub] : sub \in SubRules(rule)}
                             ELSE {rule}
           Body == [rule \in Rules |-> [f \in [Rules -> SUBSET Rules] |-> Value(rule, f)]]
           Solves(f) == f = [rule \in Rules |-> Value(rule, f)]
<1>1. \A rule \in Rules, f \in [Rules -> SUBSET Rules] : Value(rule, f) \in SUBSET Rules
  BY RulesWellFounded
<1>2. \A rule \in Rules, f \in [Rules -> SUBSET Rules] :
          Body[rule][f] = Value(rule, f) /\ Body[rule][f] \in SUBSET Rules
  BY <1>1
<1>3. Local(Rules, SUBSET Rules, Within, Body)
  <2>1. ASSUME NEW rule \in Rules, NEW f \in [Rules -> SUBSET Rules],
               NEW g \in [Rules -> SUBSET Rules], \A sub \in Within[rule] : f[sub] = g[sub]
        PROVE  Value(rule, f) = Value(rule, g)
    BY <2>1, RulesWellFounded
  <2> HIDE DEF Value, Body
  <2>2. QED
    BY <1>2, <2>1 DEF Local
<1>4. PICK V, B : V = SUBSET Rules /\ B = Body
  OBVIOUS
<1>5. /\ V # {} /\ \A rule \in Rules : Within[rule] \subseteq Rules
      /\ \A rule \in Rules, f \in [Rules -> V] : B[rule][f] \in V /\ B[rule][f] = Value(rule, f)
      /\ WellFounded(Rules, Within) /\ Local(Rules, V, Within, B)
  BY <1>2, <1>3, <1>4, RulesWellFounded
<1> HIDE DEF Body, Value
<1>6. PICK f \in [Rules -> V] : \A rule \in Rules : f[rule] = B[rule][f]
  BY <1>5, RecursiveFunctionExists
<1>7. f = [rule \in Rules |-> Value(rule, f)]
  BY <1>5, <1>6
<1>8. Solves(f)
  BY <1>7
<1>9. RuleTargets = CHOOSE g : Solves(g)
  BY DEF RuleTargets, Value
<1> HIDE DEF Solves
<1>10. Solves(RuleTargets)
  BY <1>8, <1>9
<1>11. RuleTargets = [rule \in Rules |-> Value(rule, RuleTargets)]
  BY <1>10 DEF Solves
<1>12. QED
  BY <1>11 DEF Value

\* The sub-rules of what the API accepts are threshold rules.
LEMMA ValidTargets ==
    ASSUME NEW rule \in Rules, ValidCompositeRule[rule]
    PROVE  /\ RuleTargets[rule] \subseteq Rules
           /\ \A t \in RuleTargets[rule] : t.type \in {"gnocchi", "prometheus"}
<1> DEFINE Value(r, f) == IF IsComposite(r) THEN \A sub \in SubRules(r) : f[sub]
                          ELSE r.type \in {"prometheus", "gnocchi"}
           Body == [r \in Rules |-> [f \in [Rules -> BOOLEAN] |-> Value(r, f)]]
           Solves(f) == f = [r \in Rules |-> Value(r, f)]
<1>1. ASSUME NEW r \in Rules, NEW f \in [Rules -> BOOLEAN] PROVE Value(r, f) \in BOOLEAN
  <2>1. (\A sub \in SubRules(r) : f[sub]) \in BOOLEAN
    BY Zenon
  <2>2. CASE IsComposite(r)
    BY <2>1, <2>2, Zenon
  <2>3. CASE ~ IsComposite(r)
    <3>1. (r.type \in {"prometheus", "gnocchi"}) \in BOOLEAN
      OBVIOUS
    <3>2. QED
      BY <2>3, <3>1, Zenon
  <2>4. QED
    BY <2>2, <2>3
<1>2. Local(Rules, BOOLEAN, Within, Body)
  <2>1. ASSUME NEW r \in Rules, NEW f \in [Rules -> BOOLEAN], NEW g \in [Rules -> BOOLEAN],
               \A sub \in Within[r] : f[sub] = g[sub]
        PROVE  Value(r, f) = Value(r, g)
    BY <2>1, RulesWellFounded
  <2>2. \A r \in Rules, f \in [Rules -> BOOLEAN] : Body[r][f] = Value(r, f)
    OBVIOUS
  <2> HIDE DEF Value, Body
  <2>3. QED
    BY <2>1, <2>2 DEF Local
<1>3. PICK V, B : V = BOOLEAN /\ B = Body
  OBVIOUS
<1>4. /\ V # {} /\ \A r \in Rules : Within[r] \subseteq Rules
      /\ \A r \in Rules, f \in [Rules -> V] : B[r][f] \in V /\ B[r][f] = Value(r, f)
      /\ WellFounded(Rules, Within) /\ Local(Rules, V, Within, B)
  BY <1>1, <1>2, <1>3, RulesWellFounded
<1> HIDE DEF Body, Value
<1>5. PICK f \in [Rules -> V] : \A r \in Rules : f[r] = B[r][f]
  BY <1>4, RecursiveFunctionExists
<1>6. f = [r \in Rules |-> Value(r, f)]
  BY <1>4, <1>5
<1>7. Solves(f)
  BY <1>6
<1>8. ValidCompositeRule = CHOOSE g : Solves(g)
  BY DEF ValidCompositeRule, Value
<1> HIDE DEF Solves
<1>9. Solves(ValidCompositeRule)
  BY <1>7, <1>8
<1>10. ValidCompositeRule = [r \in Rules |-> Value(r, ValidCompositeRule)]
  BY <1>9 DEF Solves
<1>11. \A r \in Rules : ValidCompositeRule[r] = Value(r, ValidCompositeRule)
  BY <1>10
<1> DEFINE Bad == {r \in Rules : /\ ValidCompositeRule[r]
                                 /\ \E t \in RuleTargets[r] :
                                       ~ (t \in Rules /\ t.type \in {"gnocchi", "prometheus"})}
<1>12. ASSUME NEW r \in Bad PROVE SubRules(r) \cap Bad # {}
  <2>1. PICK t \in RuleTargets[r] : ~ (t \in Rules /\ t.type \in {"gnocchi", "prometheus"})
    OBVIOUS
  <2> r \in Rules /\ ValidCompositeRule[r]
    OBVIOUS
  <2> HIDE DEF Bad
  <2>2. CASE ~ IsComposite(r)
    <3>1. t = r
      BY <2>2, TargetsUnfold
    <3>2. r.type \in {"prometheus", "gnocchi"}
      BY <1>11, <2>2 DEF Value
    <3>3. QED
      BY <2>1, <3>1, <3>2
  <2>3. CASE IsComposite(r)
    <3> RuleTargets[r] = UNION {RuleTargets[sub] : sub \in SubRules(r)}
      BY <2>3, TargetsUnfold
    <3>1. PICK sub \in SubRules(r) : t \in RuleTargets[sub]
      OBVIOUS
    <3>2. ValidCompositeRule[sub] /\ sub \in Rules
      BY <1>11, <2>3, RulesWellFounded DEF Value
    <3>3. sub \in Bad
      BY <2>1, <3>1, <3>2 DEF Bad
    <3>4. QED
      BY <3>3
  <2>4. QED
    BY <2>2, <2>3
<1>13. Bad = {}
  <2> HIDE DEF Bad
  <2>1. Bad \in SUBSET Rules
    BY DEF Bad
  <2>2. QED
    BY <1>12, <2>1, NoBadRule
<1>14. QED
  BY <1>13

LEMMA MeetsUnfold ==
    ASSUME NEW met, NEW rule \in Rules
    PROVE  Meets(met)[rule] = IF ~ IsComposite(rule) THEN rule \in met
                              ELSE IF rule.type = "and" THEN \A sub \in SubRules(rule) : Meets(met)[sub]
                              ELSE \E sub \in SubRules(rule) : Meets(met)[sub]
<1> DEFINE Value(r, f) == IF ~ IsComposite(r) THEN r \in met
                          ELSE IF r.type = "and" THEN \A sub \in SubRules(r) : f[sub]
                          ELSE \E sub \in SubRules(r) : f[sub]
           Body == [r \in Rules |-> [f \in [Rules -> BOOLEAN] |-> Value(r, f)]]
           Solves(f) == f = [r \in Rules |-> Value(r, f)]
<1>1. ASSUME NEW r \in Rules, NEW f \in [Rules -> BOOLEAN] PROVE Value(r, f) \in BOOLEAN
  <2>1. /\ (\A sub \in SubRules(r) : f[sub]) \in BOOLEAN
        /\ (\E sub \in SubRules(r) : f[sub]) \in BOOLEAN
    BY Zenon
  <2>2. CASE ~ IsComposite(r)
    <3>1. (r \in met) \in BOOLEAN
      OBVIOUS
    <3>2. QED
      BY <2>2, <3>1, Zenon
  <2>3. CASE IsComposite(r) /\ r.type = "and"
    BY <2>1, <2>3, Zenon
  <2>4. CASE IsComposite(r) /\ r.type # "and"
    BY <2>1, <2>4, Zenon
  <2>5. QED
    BY <2>2, <2>3, <2>4
<1>2. Local(Rules, BOOLEAN, Within, Body)
  <2>1. ASSUME NEW r \in Rules, NEW f \in [Rules -> BOOLEAN], NEW g \in [Rules -> BOOLEAN],
               \A sub \in Within[r] : f[sub] = g[sub]
        PROVE  Value(r, f) = Value(r, g)
    BY <2>1, RulesWellFounded
  <2>2. \A r \in Rules, f \in [Rules -> BOOLEAN] : Body[r][f] = Value(r, f)
    OBVIOUS
  <2> HIDE DEF Value, Body
  <2>3. QED
    BY <2>1, <2>2 DEF Local
<1>3. PICK V, B : V = BOOLEAN /\ B = Body
  OBVIOUS
<1>4. /\ V # {} /\ \A r \in Rules : Within[r] \subseteq Rules
      /\ \A r \in Rules, f \in [Rules -> V] : B[r][f] \in V /\ B[r][f] = Value(r, f)
      /\ WellFounded(Rules, Within) /\ Local(Rules, V, Within, B)
  BY <1>1, <1>2, <1>3, RulesWellFounded
<1> HIDE DEF Body, Value
<1>5. PICK f \in [Rules -> V] : \A r \in Rules : f[r] = B[r][f]
  BY <1>4, RecursiveFunctionExists
<1>6. f = [r \in Rules |-> Value(r, f)]
  BY <1>4, <1>5
<1>7. Solves(f)
  BY <1>6
<1>8. Meets(met) = CHOOSE g : Solves(g)
  BY DEF Meets, Value
<1> HIDE DEF Solves
<1>9. Solves(Meets(met))
  BY <1>7, <1>8
<1>10. Meets(met) = [r \in Rules |-> Value(r, Meets(met))]
  BY <1>9 DEF Solves
<1>11. Meets(met)[rule] = Value(rule, Meets(met))
  BY <1>10
<1>12. QED
  BY <1>11 DEF Value

LEMMA MeetsBoolean ==
    ASSUME NEW met, NEW rule \in Rules
    PROVE  Meets(met)[rule] \in BOOLEAN
<1>1. /\ (\A sub \in SubRules(rule) : Meets(met)[sub]) \in BOOLEAN
      /\ (\E sub \in SubRules(rule) : Meets(met)[sub]) \in BOOLEAN
      /\ (rule \in met) \in BOOLEAN
  OBVIOUS
<1>2. QED
  BY <1>1, MeetsUnfold

\* A rule has no "not": the more sub-rules are met, the more rules are.
LEMMA MeetsMonotone ==
    ASSUME NEW fewer, NEW more, fewer \subseteq more, NEW rule \in Rules, Meets(fewer)[rule]
    PROVE  Meets(more)[rule]
<1> DEFINE Bad == {r \in Rules : Meets(fewer)[r] /\ ~ Meets(more)[r]}
<1>1. ASSUME NEW r \in Bad PROVE SubRules(r) \cap Bad # {}
  <2>1. r \in Rules /\ Meets(fewer)[r] /\ ~ Meets(more)[r]
    OBVIOUS
  <2>2. SubRules(r) \subseteq Rules
    BY RulesWellFounded
  <2>3. SUFFICES \E sub \in SubRules(r) : Meets(fewer)[sub] /\ ~ Meets(more)[sub]
    BY <2>2
  <2> HIDE DEF Bad
  <2>4. QED
    BY <2>1, MeetsUnfold
<1>2. Bad = {}
  <2>1. Bad \in SUBSET Rules
    OBVIOUS
  <2> HIDE DEF Bad
  <2>2. QED
    BY <1>1, <2>1, NoBadRule
<1>3. QED
  BY <1>2

\* A rule that joins others takes the value of one that decides, if one does.
LEMMA AskUnfold ==
    ASSUME NEW wanted, NEW verdicts, NEW rule \in Rules
    PROVE  /\ ~ IsComposite(rule) /\ verdicts[rule] # Raised =>
                  Ask(wanted, verdicts)[rule] = (verdicts[rule].state = wanted)
           /\ IsComposite(rule) =>
                  \/ /\ Ask(wanted, verdicts)[rule] = Conjunctive(rule, wanted)
                     /\ \A sub \in SubRules(rule) :
                            Ask(wanted, verdicts)[sub] = Conjunctive(rule, wanted)
                  \/ \E sub \in SubRules(rule) :
                         /\ Ask(wanted, verdicts)[sub] # Conjunctive(rule, wanted)
                         /\ Ask(wanted, verdicts)[rule] = Ask(wanted, verdicts)[sub]
<1> DEFINE Ends(r, f) == {i \in DOMAIN r.rules : f[r.rules[i]] # Conjunctive(r, wanted)}
           Value(r, f) == IF IsComposite(r)
                            THEN IF Ends(r, f) = {} THEN Conjunctive(r, wanted)
                                 ELSE f[r.rules[Earliest(Ends(r, f))]]
                            ELSE IF verdicts[r] = Raised THEN Raised
                            ELSE verdicts[r].state = wanted
           Body == [r \in Rules |-> [f \in [Rules -> BOOLEAN \cup {Raised}] |-> Value(r, f)]]
           Solves(f) == f = [r \in Rules |-> Value(r, f)]
<1>1. ASSUME NEW r \in Rules, NEW f, IsComposite(r)
      PROVE  /\ Ends(r, f) # {} => Earliest(Ends(r, f)) \in Ends(r, f)
             /\ \A i \in Ends(r, f) : r.rules[i] \in SubRules(r)
  <2>1. /\ DOMAIN r.rules = 1..Len(r.rules) /\ Len(r.rules) \in Nat
        /\ \A i \in DOMAIN r.rules : r.rules[i] \in SubRules(r)
    BY <1>1, SubRulePlaces
  <2>2. Ends(r, f) \subseteq DOMAIN r.rules
    OBVIOUS
  <2> HIDE DEF Ends
  <2>3. Ends(r, f) \in SUBSET Int /\ \A i \in Ends(r, f) : 1 <= i
    BY <2>1, <2>2
  <2>4. QED
    BY <2>1, <2>2, <2>3, FirstPosition
<1>2. ASSUME NEW r \in Rules, NEW f \in [Rules -> BOOLEAN \cup {Raised}]
      PROVE  Value(r, f) \in BOOLEAN \cup {Raised}
  <2>1. CASE IsComposite(r) /\ Ends(r, f) # {}
    <3>1. r.rules[Earliest(Ends(r, f))] \in Rules
      BY <1>1, <2>1, RulesWellFounded
    <3>2. Value(r, f) = f[r.rules[Earliest(Ends(r, f))]]
      BY <2>1
    <3>3. QED
      BY <3>1, <3>2
  <2>2. CASE IsComposite(r) /\ Ends(r, f) = {}
    <3>1. Value(r, f) = Conjunctive(r, wanted)
      BY <2>2
    <3>2. Conjunctive(r, wanted) \in BOOLEAN
      BY DEF Conjunctive
    <3>3. QED
      BY <3>1, <3>2
  <2>3. CASE ~ IsComposite(r)
    <3>1. Value(r, f) = IF verdicts[r] = Raised THEN Raised ELSE verdicts[r].state = wanted
      BY <2>3
    <3>2. (verdicts[r].state = wanted) \in BOOLEAN
      OBVIOUS
    <3>3. QED
      BY <3>1, <3>2
  <2>4. QED
    BY <2>1, <2>2, <2>3
<1>3. Local(Rules, BOOLEAN \cup {Raised}, Within, Body)
  <2>1. ASSUME NEW r \in Rules, NEW f \in [Rules -> BOOLEAN \cup {Raised}],
               NEW g \in [Rules -> BOOLEAN \cup {Raised}],
               \A sub \in Within[r] : f[sub] = g[sub]
        PROVE  Value(r, f) = Value(r, g)
    <3>1. CASE IsComposite(r)
      <4>1. \A i \in DOMAIN r.rules : f[r.rules[i]] = g[r.rules[i]]
        BY <2>1, <3>1, SubRulePlaces, RulesWellFounded
      <4>2. Ends(r, f) = Ends(r, g)
        BY <4>1
      <4>3. Ends(r, f) # {} => Earliest(Ends(r, f)) \in DOMAIN r.rules
        BY <1>1, <3>1
      <4> HIDE DEF Ends
      <4>4. QED
        BY <3>1, <4>1, <4>2, <4>3
    <3>2. CASE ~ IsComposite(r)
      BY <3>2
    <3>3. QED
      BY <3>1, <3>2
  <2>2. \A r \in Rules, f \in [Rules -> BOOLEAN \cup {Raised}] : Body[r][f] = Value(r, f)
    OBVIOUS
  <2> HIDE DEF Value, Body
  <2>3. QED
    BY <2>1, <2>2 DEF Local
<1>4. PICK V, B : V = BOOLEAN \cup {Raised} /\ B = Body
  OBVIOUS
<1> HIDE DEF Value
<1>5. \A r \in Rules, f \in [Rules -> V] : B[r][f] \in V /\ B[r][f] = Value(r, f)
  BY <1>2, <1>4
<1>6. /\ V # {} /\ \A r \in Rules : Within[r] \subseteq Rules
      /\ WellFounded(Rules, Within) /\ Local(Rules, V, Within, B)
  BY <1>3, <1>4, RulesWellFounded
<1> HIDE DEF Body
<1>7. PICK f \in [Rules -> V] : \A r \in Rules : f[r] = B[r][f]
  BY <1>5, <1>6, RecursiveFunctionExists
<1>8. f = [r \in Rules |-> Value(r, f)]
  BY <1>5, <1>7
<1>9. Solves(f)
  BY <1>8
<1>10. Ask(wanted, verdicts) = CHOOSE g : Solves(g)
  BY DEF Ask, Value
<1> HIDE DEF Solves
<1>11. Solves(Ask(wanted, verdicts))
  BY <1>9, <1>10
<1>12. Ask(wanted, verdicts) = [r \in Rules |-> Value(r, Ask(wanted, verdicts))]
  BY <1>11 DEF Solves
<1>13. Ask(wanted, verdicts)[rule] = Value(rule, Ask(wanted, verdicts))
  BY <1>12
<1>14. CASE ~ IsComposite(rule)
  BY <1>13, <1>14 DEF Value
<1>15. CASE IsComposite(rule) /\ Ends(rule, Ask(wanted, verdicts)) = {}
  <2>1. Ask(wanted, verdicts)[rule] = Conjunctive(rule, wanted)
    BY <1>13, <1>15 DEF Value
  <2>2. \A sub \in SubRules(rule) : Ask(wanted, verdicts)[sub] = Conjunctive(rule, wanted)
    BY <1>15, SubRulePlaces
  <2>3. QED
    BY <1>15, <2>1, <2>2
<1>16. CASE IsComposite(rule) /\ Ends(rule, Ask(wanted, verdicts)) # {}
  <2>1. PICK i \in Ends(rule, Ask(wanted, verdicts)) :
            Ask(wanted, verdicts)[rule] = Ask(wanted, verdicts)[rule.rules[i]]
    <3> HIDE DEF Ends
    <3>1. QED
      BY <1>1, <1>13, <1>16 DEF Value
  <2>2. PICK sub \in SubRules(rule) : sub = rule.rules[i]
    BY <1>1, <1>16
  <2>3. Ask(wanted, verdicts)[sub] # Conjunctive(rule, wanted)
    BY <2>2
  <2>4. QED
    BY <1>16, <2>1, <2>2, <2>3
<1>17. QED
  BY <1>14, <1>15, <1>16

\* If no sub-rule raises, the lazy expressions decide what the formula does.
LEMMA AskIsFormula ==
    ASSUME NEW top \in Rules, NEW verdicts, NEW wanted, NEW met,
           \A t \in RuleTargets[top] :
               /\ verdicts[t] # Raised
               /\ (t \in met) = ((verdicts[t].state = wanted) = (wanted = ALARM))
    PROVE  Ask(wanted, verdicts)[top] = (Meets(met)[top] = (wanted = ALARM))
<1> DEFINE Right(r) == Ask(wanted, verdicts)[r] = (Meets(met)[r] = (wanted = ALARM))
           Bad == {r \in Rules : RuleTargets[r] \subseteq RuleTargets[top] /\ ~ Right(r)}
<1>1. \A r \in Rules : Meets(met)[r] \in BOOLEAN
  BY MeetsBoolean
<1>2. ASSUME NEW r \in Rules, ~ IsComposite(r), RuleTargets[r] \subseteq RuleTargets[top]
      PROVE  Right(r)
  <2>1. r \in RuleTargets[top]
    BY <1>2, TargetsUnfold
  <2>2. Ask(wanted, verdicts)[r] = (verdicts[r].state = wanted)
    BY <1>2, <2>1, AskUnfold
  <2>3. Meets(met)[r] = (r \in met)
    BY <1>2, MeetsUnfold
  <2>4. (r \in met) = ((verdicts[r].state = wanted) = (wanted = ALARM))
    BY <2>1
  <2>5. QED
    BY <2>2, <2>3, <2>4
<1>3. ASSUME NEW r \in Rules, IsComposite(r), \A sub \in SubRules(r) : Right(sub)
      PROVE  Right(r)
  <2>1. PICK both : both = Conjunctive(r, wanted)
    OBVIOUS
  <2>2. both = ((r.type = "and") = (wanted = ALARM))
    BY <2>1 DEF Conjunctive
  <2>3. Meets(met)[r] = IF r.type = "and" THEN \A sub \in SubRules(r) : Meets(met)[sub]
                        ELSE \E sub \in SubRules(r) : Meets(met)[sub]
    BY <1>3, MeetsUnfold
  <2>4. \A sub \in SubRules(r) :
            /\ Meets(met)[sub] \in BOOLEAN
            /\ Ask(wanted, verdicts)[sub] = (Meets(met)[sub] = (wanted = ALARM))
    BY <1>1, <1>3, RulesWellFounded
  <2>5. CASE /\ Ask(wanted, verdicts)[r] = both
             /\ \A sub \in SubRules(r) : Ask(wanted, verdicts)[sub] = both
    <3>1. \A sub \in SubRules(r) : Meets(met)[sub] = (r.type = "and")
      BY <2>2, <2>4, <2>5
    <3>2. Meets(met)[r] = (r.type = "and")
      BY <2>3, <3>1
    <3>3. QED
      BY <2>2, <2>5, <3>2
  <2>6. ASSUME NEW sub \in SubRules(r), Ask(wanted, verdicts)[sub] # both,
               Ask(wanted, verdicts)[r] = Ask(wanted, verdicts)[sub]
        PROVE  Right(r)
    <3>1. Meets(met)[sub] = (r.type # "and")
      BY <2>2, <2>4, <2>6
    <3>2. Meets(met)[r] = Meets(met)[sub]
      BY <2>3, <3>1
    <3>3. QED
      BY <2>4, <2>6, <3>2
  <2>7. QED
    BY <1>3, <2>1, <2>5, <2>6, AskUnfold
<1> HIDE DEF Right
<1>4. ASSUME NEW r \in Bad PROVE SubRules(r) \cap Bad # {}
  <2>1. r \in Rules /\ RuleTargets[r] \subseteq RuleTargets[top] /\ ~ Right(r)
    OBVIOUS
  <2>2. IsComposite(r)
    BY <1>2, <2>1
  <2>3. PICK sub \in SubRules(r) : ~ Right(sub)
    BY <1>3, <2>1, <2>2
  <2>4. sub \in Rules /\ RuleTargets[sub] \subseteq RuleTargets[r]
    BY <2>1, <2>2, RulesWellFounded, TargetsUnfold
  <2>5. QED
    BY <2>1, <2>3, <2>4
<1>5. Bad = {}
  <2>1. Bad \in SUBSET Rules
    OBVIOUS
  <2> HIDE DEF Bad
  <2>2. QED
    BY <1>4, <2>1, NoBadRule
<1>6. QED
  BY <1>5 DEF Right

\* What _evaluate_sufficient decides, if no sub-rule raises.
LEMMA SufficientIsFormula ==
    ASSUME NEW top \in Rules, NEW verdicts, \A t \in RuleTargets[top] : verdicts[t] # Raised
    PROVE  EvaluateSufficient(top, verdicts) \in
               {Raised, IF Meets({t \in RuleTargets[top] : verdicts[t].state = ALARM})[top] THEN ALARM
                        ELSE IF ~ Meets({t \in RuleTargets[top] : verdicts[t].state # OK})[top] THEN OK
                        ELSE None}
<1>1. PICK met, other : /\ met = {t \in RuleTargets[top] : verdicts[t].state = ALARM}
                        /\ other = {t \in RuleTargets[top] : verdicts[t].state # OK}
  OBVIOUS
<1>2. OK # ALARM
  BY DEF OK, ALARM
<1>3. Ask(ALARM, verdicts)[top] = (Meets(met)[top] = (ALARM = ALARM))
  <2>1. \A t \in RuleTargets[top] : (t \in met) = ((verdicts[t].state = ALARM) = (ALARM = ALARM))
    BY <1>1
  <2>2. QED
    BY <2>1, AskIsFormula
<1>4. Ask(OK, verdicts)[top] = (Meets(other)[top] = (OK = ALARM))
  <2>1. \A t \in RuleTargets[top] : (t \in other) = ((verdicts[t].state = OK) = (OK = ALARM))
    BY <1>1, <1>2
  <2>2. QED
    BY <2>1, AskIsFormula
<1>5. Ask(ALARM, verdicts)[top] = (Meets(met)[top] = TRUE)
  BY <1>3
<1>6. Ask(OK, verdicts)[top] = (Meets(other)[top] = FALSE)
  BY <1>2, <1>4
<1>7. PICK yes, no : yes = Ask(ALARM, verdicts)[top] /\ no = Ask(OK, verdicts)[top]
  OBVIOUS
<1>8. EvaluateSufficient(top, verdicts) \in {Raised, IF yes THEN ALARM ELSE IF no THEN OK ELSE None}
  BY <1>7 DEF EvaluateSufficient
<1>9. (yes <=> Meets(met)[top]) /\ (no <=> ~ Meets(other)[top])
  <2>1. Meets(met)[top] \in BOOLEAN /\ Meets(other)[top] \in BOOLEAN
    BY MeetsBoolean
  <2>2. QED
    BY <1>5, <1>6, <1>7, <2>1
<1>10. (IF yes THEN ALARM ELSE IF no THEN OK ELSE None)
           = IF Meets(met)[top] THEN ALARM ELSE IF ~ Meets(other)[top] THEN OK ELSE None
  BY <1>9
<1>11. QED
  BY <1>1, <1>8, <1>10

LEMMA SettledVerdict ==
    ASSUME NEW v \in Verdicts, v # Raised, NEW s
    PROVE  /\ Settle(v, s).state \in States
           /\ v.state = ALARM => Settle(v, s).state = ALARM
           /\ v.state = OK => Settle(v, s).state = OK
<1>1. \/ v.state \in States /\ v.trending = None
      \/ v.state = None /\ v.trending \in {OK, ALARM}
  BY VerdictFields
<1>2. None \notin States /\ {OK, ALARM} \subseteq States
  BY ValuesAssumption DEF States
<1>3. CASE v.trending = None
  BY <1>1, <1>2, <1>3 DEF Settle
<1>4. CASE v.trending # None
  BY <1>1, <1>2, <1>4 DEF Settle, Verdict
<1>5. QED
  BY <1>3, <1>4

\* Neither pass decides what the formula leaves open, and what the formula
\* decides the second pass does.
LEMMA CompositeDecides ==
    ASSUME NEW top \in Rules, NEW s, NEW outcome, NEW settled,
           settled = [t \in RuleTargets[top] |-> Settle(outcome[t], s)],
           \A t \in RuleTargets[top] : /\ outcome[t] \in Verdicts
                                       /\ outcome[t] # Raised /\ settled[t] # Raised
    PROVE  CompositeVerdict(top, s, outcome) \in {Raised, Decided(top, settled)}
<1> DEFINE targets == RuleTargets[top]
<1>1. PICK met, other : /\ met = {t \in targets : outcome[t].state = ALARM}
                        /\ other = {t \in targets : outcome[t].state # OK}
  OBVIOUS
<1>2. PICK sure, open, possible : /\ sure = {t \in targets : settled[t].state = ALARM}
                                  /\ open = {t \in targets : settled[t].state = UNKNOWN}
                                  /\ possible = {t \in targets : settled[t].state # OK}
  OBVIOUS
<1>3. \A t \in targets : /\ settled[t].state \in States
                         /\ outcome[t].state = ALARM => settled[t].state = ALARM
                         /\ outcome[t].state = OK => settled[t].state = OK
  BY SettledVerdict
<1>4. /\ met \subseteq sure /\ possible \subseteq other /\ possible = sure \cup open
  BY <1>1, <1>2, <1>3 DEF States, UNKNOWN, OK, ALARM
<1>5. PICK first, second : /\ first = EvaluateSufficient(top, outcome)
                           /\ second = EvaluateSufficient(top, settled)
  OBVIOUS
<1>6. first \in {Raised, IF Meets(met)[top] THEN ALARM
                        ELSE IF ~ Meets(other)[top] THEN OK ELSE None}
  BY <1>1, <1>5, SufficientIsFormula
<1>7. second \in {Raised, IF Meets(sure)[top] THEN ALARM
                         ELSE IF ~ Meets(possible)[top] THEN OK ELSE None}
  BY <1>2, <1>5, SufficientIsFormula
<1>8. /\ Meets(met)[top] => Meets(sure)[top]
      /\ Meets(possible)[top] => Meets(other)[top]
      /\ Meets(sure)[top] => Meets(possible)[top]
  BY <1>4, MeetsMonotone
<1>9. Decided(top, settled) = IF Meets(sure)[top] THEN ALARM
                              ELSE IF ~ Meets(possible)[top] THEN OK ELSE UNKNOWN
  <2>1. (\A u \in SUBSET open : Meets(sure \cup u)[top]) <=> Meets(sure)[top]
    <3>1. sure \cup {} = sure /\ {} \in SUBSET open
      OBVIOUS
    <3>2. \A u \in SUBSET open : Meets(sure)[top] => Meets(sure \cup u)[top]
      BY MeetsMonotone
    <3>3. QED
      BY <3>1, <3>2
  <2>2. (\A u \in SUBSET open : ~ Meets(sure \cup u)[top]) <=> ~ Meets(possible)[top]
    <3>1. sure \cup open = possible /\ open \in SUBSET open
      BY <1>4
    <3>2. \A u \in SUBSET open : Meets(sure \cup u)[top] => Meets(possible)[top]
      BY <1>4, MeetsMonotone
    <3>3. QED
      BY <3>1, <3>2
  <2>3. QED
    BY <1>2, <2>1, <2>2 DEF Decided
<1>10. CompositeVerdict(top, s, outcome) \in
           {Raised, IF first # None THEN first ELSE IF second # None THEN second ELSE UNKNOWN}
  BY <1>5 DEF CompositeVerdict
<1>11. None \notin {Raised, OK, ALARM}
  BY ValuesAssumption DEF States
<1>12. QED
  BY <1>6, <1>7, <1>8, <1>9, <1>10, <1>11

\* A composite alarm goes where its rule, read as a formula, says for certain.
THEOREM DecidesAlways == Spec => CompositeDecidesRule
<1> DEFINE Settled == [t \in RuleTargets[alarm.rule] |-> Settle(Outcome(t), state)]
<1>1. ASSUME TypeOK, [Next]_vars, Evaluated, alarm.type = "composite", ~ Fails(Settled)
      PROVE  state' = Decided(alarm.rule, Settled)
  <2>1. PICK e \in Evaluators : Evaluate(e)
    BY <1>1, OnlyEvaluationsCount
  <2>2. PICK top, s, outcome, settled :
            top = alarm.rule /\ s = state /\ outcome = Outcomes /\ settled = Settled
    OBVIOUS
  <2>3. top \in Rules /\ ValidCompositeRule[top]
    BY <1>1, <2>2, AlarmsAssumption DEF TypeOK
  <2>4. \A t \in RuleTargets[top] : outcome[t] = Outcome(t)
    BY <2>2 DEF Outcomes
  <2>5. settled = [t \in RuleTargets[top] |-> Settle(outcome[t], s)]
    BY <2>2, <2>4
  <2>6. \A t \in RuleTargets[top] : outcome[t] \in Verdicts \cup {Raised}
    BY <2>3, <2>4, ValidTargets, OutcomeIsVerdict DEF RuleTypes
  <2>7. \A t \in RuleTargets[top] : settled[t] # Raised
    BY <1>1, <2>2 DEF Fails
  <2>8. \A t \in RuleTargets[top] : outcome[t] # Raised
    BY <2>5, <2>7 DEF Settle
  <2>9. PICK verdict : verdict = CompositeVerdict(top, s, outcome)
    OBVIOUS
  <2>10. verdict \in {Raised, Decided(top, settled)}
    BY <2>3, <2>5, <2>6, <2>7, <2>8, <2>9, CompositeDecides
  <2>11. Finding(state).state = verdict
    BY <1>1, <2>2, <2>9 DEF Finding, Verdict
  <2>12. verdict # Raised /\ verdict \in States
    BY <2>1, <2>9, <2>11, CompositeVerdictIsState DEF Evaluate
  <2>13. Target(state, Finding(state)) = CompositeTransition(state, verdict)
    BY <1>1, <2>11 DEF Target
  <2>14. state' = verdict
    BY <2>1, <2>12, <2>13, EvaluateFinds, ValuesAssumption, <1>1 DEF CompositeTransition
  <2>15. QED
    BY <2>2, <2>10, <2>12, <2>14
<1>2. TypeOK /\ [Next]_vars
          => [Evaluated /\ alarm.type = "composite" =>
                  Fails(Settled) \/ state' = Decided(alarm.rule, Settled)]_vars
  BY <1>1
<1>3. QED
  BY <1>2, TypeCorrect, PTL DEF Spec, CompositeDecidesRule
================================================================================
