------------------------------ MODULE MCApiQueries ------------------------------
(* ApiQueries on small tables and short expressions, for TLC. *)
EXTENDS ApiQueries

CONSTANTS True, False
MCBooleans == {True, False}

Caller(project, roles) == [project |-> project, roles |-> roles]
MCCallers == {Caller("p1", {"reader", "member", "admin"}), Caller("p1", {"reader"}),
              Caller("p2", {})}

AlarmRow(a, enabled, project, state, severity, timestamp) ==
    [alarm_id |-> a, enabled |-> enabled, project_id |-> project, state |-> state,
     severity |-> severity, timestamp |-> timestamp]
MCAlarms == {AlarmRow("a1", True, "p1", "ok", "low", 2),
             AlarmRow("a2", False, "p1", "alarm", NULL, 1),
             AlarmRow("a3", True, "p1", "ok", "low", 1),
             AlarmRow("a4", NULL, "p2", "ok", "critical", 2)}
MCNewcomers == {AlarmRow("a0", True, "p1", "alarm", "low", 1)}

Change(e, a, onBehalfOf, project, type, severity, timestamp) ==
    [event_id |-> e, alarm_id |-> a, on_behalf_of |-> onBehalfOf, project_id |-> project,
     type |-> type, severity |-> severity, timestamp |-> timestamp]
MCChanges == {Change(1, "a1", "p1", "p1", "creation", "low", 1),
              Change(2, "a1", "p1", "p2", "rule change", NULL, 2),
              Change(3, "a1", "p2", "p2", "rule change", "low", 3),
              Change(4, "a4", "p2", "p2", "creation", "critical", 2)}

MCIsoTime == [instant1 |-> 1, instant2 |-> 2]

Comparison(op, field, value) == [op |-> op, field |-> field, value |-> value]
Leaves ==
    {<<dict>> : dict \in
        {Comparison("=", "project", "p1"), Comparison("!=", "project_id", "p2"),
         Comparison("=", "on_behalf_of", "p1"), Comparison("=", "severity", "low"),
         Comparison("!=", "severity", "low"), Comparison("=~", "state", "ok"),
         Comparison("=<", "timestamp", "instant1"), Comparison(">", "timestamp", "instant1"),
         Comparison("=", "timestamp", "yesterday"), Comparison("!=", "enabled", True),
         Comparison("<", "severity", True), Comparison("~", "severity", "low"),
         [op |-> "IN", field |-> "severity", values |-> {"low", "critical"}],
         [op |-> "in", field |-> "timestamp", values |-> {"instant1"}],
         [op |-> "in", field |-> "project_id", values |-> {"p1"}]}}
Negated(exprs) ==
    {Append(e, [op |-> op, args |-> <<Len(e)>>]) : op \in {"not", "NOT"}, e \in exprs}
Moved(dict, k) ==
    IF IsComplex(dict) THEN [dict EXCEPT !.args = [i \in DOMAIN @ |-> @[i] + k]] ELSE dict
Join(op, d, e) ==
    d \o [n \in DOMAIN e |-> Moved(e[n], Len(d))]
      \o <<[op |-> op, args |-> <<Len(d), Len(d) + Len(e)>>]>>
Joined(op, exprs) == {Join(op, d, e) : d, e \in exprs}
Small == Leaves \cup Negated(Leaves)
Flat == {e \in Small : e[Len(e)].op # "not"}
Filters == {<<>>} \cup Small \cup Joined("AND", Flat) \cup Joined("or", Leaves)
               \cup Negated(Joined("or", Leaves))
               \cup {Append(e, [op |-> "and", args |-> <<1>>]) : e \in Leaves}
Query(filter, orderby, limit) == [filter |-> filter, orderby |-> orderby, limit |-> limit]
MCComplexQueries ==
    {Query(f, Unset, Unset) : f \in Filters}
        \cup {Query(f, o, n) : f \in {<<>>, <<Comparison("=", "severity", "low")>>},
                 o \in {Unset, <<[field |-> "project", dir |-> "DESC"]>>,
                        <<[field |-> "severity", dir |-> "ASC"]>>,
                        <<[field |-> "colour", dir |-> "ASC"]>>},
                 n \in {Unset, 0, 1, 2}}

Items == {Comparison("gt", "timestamp", 1), Comparison("ge", "timestamp", 2),
          Comparison("lt", "timestamp", 3), Comparison("le", "timestamp", 2),
          Comparison("eq", "timestamp", 2), Comparison("eq", "search_offset", 1),
          Comparison("eq", "project", "p1"), Comparison("eq", "project_id", "p2"),
          Comparison("eq", "type", "creation"), Comparison("ne", "severity", "low"),
          Comparison("eq", "on_behalf_of", "p1")}
MCItemLists == UNION {[1..n -> Items] : n \in 0..2}
                   \cup {<<i, j, Comparison("eq", "search_offset", 1)>> : i, j \in Items}

MCCollation == [a0 |-> 0, a1 |-> 1, a2 |-> 2, a3 |-> 3, a4 |-> 4, p1 |-> 1, p2 |-> 2,
                alarm |-> 1, ok |-> 2]
Key(field, dir) == [field |-> field, dir |-> dir]
MCSortKeys == {<<Key("alarm_id", "desc")>>, <<Key("state", "asc"), Key("alarm_id", "asc")>>,
               <<Key("timestamp", "desc"), Key("alarm_id", "asc")>>,
               <<Key("alarm_id", "asc"), Key("severity", "desc")>>}
================================================================================
