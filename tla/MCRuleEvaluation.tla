---------------------------- MODULE MCRuleEvaluation ----------------------------
(* RuleEvaluation on a few alarms, for TLC. *)
EXTENDS RuleEvaluation

Gnocchi(name, op, granularity, periods) ==
    [type |-> "gnocchi", name |-> name, comparison_operator |-> op, threshold |-> 1,
     granularity |-> granularity, evaluation_periods |-> periods]
Prometheus(name, op) ==
    [type |-> "prometheus", name |-> name, comparison_operator |-> op, threshold |-> 1]
Octavia == [type |-> "loadbalancer_member_health", name |-> "pool"]
Joined(type, rules) == [type |-> type, rules |-> rules]

Alarm(type, rule, repeat, constraints) ==
    [type |-> type, rule |-> rule, repeat_actions |-> repeat, time_constraints |-> constraints]

g == Gnocchi("g", "gt", 2, 2)
p == Prometheus("p", "ge")
q == Prometheus("q", "lt")
qOrG == Joined("or", <<q, g>>)
pAndQ == Joined("and", <<p, q>>)
MCAlarms ==
    {Alarm("gnocchi", g, FALSE, {}),
     Alarm("gnocchi", g, TRUE, {[starts |-> {0, 6}, duration |-> 1], [starts |-> {4}, duration |-> 0]}),
     Alarm("gnocchi", Gnocchi("h", "ne", 3, 1), FALSE, {}),
     Alarm("prometheus", p, TRUE, {}),
     Alarm("loadbalancer_member_health", Octavia, FALSE, {}),
     Alarm("composite", p, FALSE, {}),
     Alarm("composite", Joined("and", <<>>), FALSE, {}),
     Alarm("composite", Joined("or", <<p, q>>), TRUE, {}),
     Alarm("composite", Joined("and", <<p, qOrG>>), FALSE, {}),
     Alarm("composite", Joined("or", <<pAndQ, Prometheus("r", "eq")>>), FALSE, {})}
MCRules == {d.rule : d \in MCAlarms} \cup {p, q, Prometheus("r", "eq"), g, qOrG, pAndQ}

Member(age, up, status) ==
    [age |-> age, admin_state_up |-> up, operating_status |-> status]
MCAnswers ==
    [prometheus |-> {<<>>, <<0>>, <<2>>, <<0, 2>>, <<2, 0>>},
     loadbalancer_member_health |->
        {<<>>, <<Member("old", TRUE, "ERROR")>>, <<Member("young", TRUE, "ERROR")>>,
         <<Member("unparsable", TRUE, "ERROR"), Member("old", FALSE, "ERROR"),
           Member("old", TRUE, "ONLINE")>>}]
================================================================================
