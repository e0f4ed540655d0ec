------------------------------ MODULE ComplexQuery ------------------------------
(***************************************************************************)
(* The complex queries of the API: a JSON expression is validated,         *)
(* rewritten and limited to the caller's project by ValidatedComplexQuery  *)
(* of aodh/api/controllers/v2/query.py, and turned into a WHERE clause by  *)
(* QueryTransformer of aodh/storage/sqlalchemy/utils.py.                   *)
(*                                                                         *)
(* An expression is the sequence of its dicts, each after its parts as in  *)
(* _traverse_postorder; <<>> if there is none.  A dict is a comparison     *)
(* [op, field, value], a membership [op, field, values], or, for and, or   *)
(* and not, [op, args], where args are the places of its parts.  The       *)
(* spelling of an operator matters, the code lowers it; that of a          *)
(* timestamp too, the code parses it.                                      *)
(*                                                                         *)
(* A value is of the type of the column it is compared with: what a        *)
(* database makes of another type differs between databases.  The          *)
(* exception is a boolean after <, >, <= or >=, which SQLAlchemy refuses   *)
(* whatever the column.                                                    *)
(***************************************************************************)
EXTENDS Integers, SequencesExt, AccessPolicy

CONSTANTS
    NULL,       \* the SQL NULL
    Unset,      \* a part of the request that is left out
    Booleans,   \* the JSON booleans
    IsoTime     \* the datetime of each well-formed timestamp

Columns(table) ==
    IF table = "alarm"
      THEN {"alarm_id", "enabled", "project_id", "state", "severity", "timestamp"}
      ELSE {"event_id", "alarm_id", "on_behalf_of", "project_id", "type", "severity",
            "timestamp"}

VisibilityField(table) == IF table = "alarm" THEN "project_id" ELSE "on_behalf_of"

NameMapping == [project |-> "project_id"]
ColumnOf(name) == IF name \in DOMAIN NameMapping THEN NameMapping[name] ELSE name

TimestampFields == {"timestamp", "state_timestamp"}

Lower(word) ==
    CASE word = "AND" -> "and"
      [] word = "OR" -> "or"
      [] word = "NOT" -> "not"
      [] word = "IN" -> "in"
      [] word = "ASC" -> "asc"
      [] word = "DESC" -> "desc"
      [] OTHER -> word

OrderOps == {"<", ">", "<=", "=<", ">=", "=>"}
SimpleOps == {"=", "!=", "=~"} \cup OrderOps
IsComplex(dict) == "args" \in DOMAIN dict

\* A tree: every dict has its parts before it.
WellFormed(expr) ==
    /\ expr \in Seq(ToSet(expr))
    /\ \A n \in DOMAIN expr :
           \/ DOMAIN expr[n] = {"op", "args"} /\ expr[n].args \in Seq(1..(n - 1))
           \/ DOMAIN expr[n] \in {{"op", "field", "value"}, {"op", "field", "values"}}

--------------------------------------------------------------------------------
(* ValidatedComplexQuery. *)

FieldNames(table) == Columns(table) \cup DOMAIN NameMapping

\* The JSON schema.
ValidDict(table, dict) ==
    \/ /\ IsComplex(dict)
       /\ \/ Lower(dict.op) \in {"and", "or"} /\ Len(dict.args) >= 2
          \/ Lower(dict.op) = "not" /\ Len(dict.args) = 1
    \/ /\ ~IsComplex(dict)
       /\ dict.field \in FieldNames(table)
       /\ \/ dict.op \in SimpleOps /\ "value" \in DOMAIN dict
          \/ Lower(dict.op) = "in" /\ "values" \in DOMAIN dict /\ dict.values # {}

ValidFilter(table, expr) == \A n \in DOMAIN expr : ValidDict(table, expr[n])

IsTimestamp(dict) == ~IsComplex(dict) /\ dict.field \in TimestampFields

\* _replace_isotime_with_datetime: a list is not a timestamp either.
Converts(expr) ==
    \A n \in DOMAIN expr :
        IsTimestamp(expr[n]) => "value" \in DOMAIN expr[n] /\ expr[n].value \in DOMAIN IsoTime

\* Mutant: the operator of a membership keeps its case.
RewriteKeepingCase(dict) ==
    CASE IsComplex(dict) -> [dict EXCEPT !.op = Lower(@)]
      [] IsTimestamp(dict) -> [dict EXCEPT !.value = IsoTime[@]]
      [] OTHER -> [dict EXCEPT !.field = ColumnOf(@)]

\* Timestamps, the case of operators, the names of fields.
RewriteDict(dict) ==
    CASE IsComplex(dict) -> [dict EXCEPT !.op = Lower(@)]
      [] IsTimestamp(dict) -> [dict EXCEPT !.value = IsoTime[@]]
      [] OTHER -> [dict EXCEPT !.op = Lower(@), !.field = ColumnOf(@)]

Rewrite(expr) == [n \in DOMAIN expr |-> RewriteDict(expr[n])]

\* Mutant: the restriction is one alternative of two.
RestrictLoosely(expr, project, field) ==
    LET restriction == [op |-> "=", field |-> field, value |-> project]
    IN  IF expr = <<>> THEN <<restriction>>
        ELSE expr \o <<restriction, [op |-> "or", args |-> <<Len(expr) + 1, Len(expr)>>]>>

RestrictToProject(expr, project, field) ==
    LET restriction == [op |-> "=", field |-> field, value |-> project]
    IN  IF expr = <<>> THEN <<restriction>>
        ELSE expr \o <<restriction, [op |-> "and", args |-> <<Len(expr) + 1, Len(expr)>>]>>

\* _check_cross_project_references: any comparison of the visibility field with
\* something else than the caller's project, a list being something else.
CrossProject(expr, project, field) ==
    \E n \in DOMAIN expr :
        /\ ~IsComplex(expr[n])
        /\ expr[n].field = field
        /\ "value" \in DOMAIN expr[n] => expr[n].value # project

ValidOrder(table, orderby) ==
    orderby # Unset =>
        \A i \in DOMAIN orderby : /\ orderby[i].field \in FieldNames(table)
                                  /\ Lower(orderby[i].dir) \in {"asc", "desc"}

RewriteOrder(orderby) ==
    IF orderby = Unset THEN Unset
      ELSE [i \in DOMAIN orderby |-> [field |-> ColumnOf(orderby[i].field),
                                      dir |-> Lower(orderby[i].dir)]]

\* validate: the status of the answer, or the query for the storage.
Validate(caller, table, query) ==
    LET project == LimitedToProject(caller)
        field == VisibilityField(table)
        rewritten == Rewrite(query.filter)
        expr == IF project = None THEN rewritten ELSE RestrictToProject(rewritten, project, field)
        Refused(status) == [status |-> status]
    IN  IF ~(ValidFilter(table, query.filter) /\ Converts(query.filter)) THEN Refused(400)
        ELSE IF project # None /\ CrossProject(expr, project, field) THEN Refused(401)
        ELSE IF ~ValidOrder(table, query.orderby) THEN Refused(400)
        ELSE IF query.limit # Unset /\ query.limit = 0 THEN Refused(400)
        ELSE [status |-> 200, filter |-> expr,
              orderby |-> RewriteOrder(query.orderby), limit |-> query.limit]

--------------------------------------------------------------------------------
(* QueryTransformer: the meaning of the clause in SQL's three values, "true", *)
(* "false" and "null". *)

Truth(b) == IF b THEN "true" ELSE "false"

Negation(v) == CASE v = "true" -> "false" [] v = "false" -> "true" [] v = "null" -> "null"

Conjunction(vs) ==
    CASE "false" \in vs -> "false"
      [] "false" \notin vs /\ "null" \in vs -> "null"
      [] OTHER -> "true"

Disjunction(vs) == Negation(Conjunction({Negation(v) : v \in vs}))

Compare(op, left, right) ==
    CASE op \in {"=", "=~"} -> left = right      \* a word as its own pattern
      [] op = "!=" -> left # right
      [] op = "<" -> left < right
      [] op = ">" -> left > right
      [] op \in {"<=", "=<"} -> left <= right
      [] op \in {">=", "=>"} -> left >= right

\* The schema lets a boolean follow any operator.
OrdersBoolean(dict) == ~IsComplex(dict) /\ dict.op \in OrderOps /\ dict.value \in Booleans

\* Can the clause be built?  An unknown operator is a KeyError, an unknown
\* column an AttributeError, an order of booleans an ArgumentError.
Transformable(table, expr) ==
    \A n \in DOMAIN expr :
        \/ expr[n].op \in {"and", "or", "not"}
        \/ /\ expr[n].op \in SimpleOps \cup {"in"}
           /\ expr[n].field \in Columns(table)
           /\ ~OrdersBoolean(expr[n])

\* An order by severity calls the function field() that only MySQL has.
Orderable(dialect, orderby) ==
    dialect = "mysql" \/ orderby = Unset \/ \A i \in DOMAIN orderby : orderby[i].field # "severity"

\* What a comparison or a membership gives, of the value it finds in a column.
Test(op, column, operand) ==
    IF column = NULL THEN "null"
    ELSE IF op = "in" THEN Truth(column \in operand)
    ELSE Truth(Compare(op, column, operand))

Holds(expr, row) ==
    LET holds[n \in DOMAIN expr] ==
            LET parts == {holds[expr[n].args[i]] : i \in DOMAIN expr[n].args}
            IN  CASE expr[n].op = "and" -> Conjunction(parts)
                  [] expr[n].op = "or" -> Disjunction(parts)
                  [] expr[n].op = "not" -> Negation(holds[expr[n].args[1]])
                  [] expr[n].op = "in" -> Test("in", row[expr[n].field], expr[n].values)
                  [] OTHER -> Test(expr[n].op, row[expr[n].field], expr[n].value)
    IN  holds[Len(expr)]

--------------------------------------------------------------------------------
(* What a client means by an expression: its operators in either case, the   *)
(* names of the API, timestamps as text. *)

Operand(dict) == IF dict.field \in TimestampFields THEN IsoTime[dict.value] ELSE dict.value

Meant(expr, row) ==
    LET meant[n \in DOMAIN expr] ==
            LET parts == {meant[expr[n].args[i]] : i \in DOMAIN expr[n].args}
            IN  CASE IsComplex(expr[n]) /\ expr[n].op \in {"and", "AND"} -> Conjunction(parts)
                  [] IsComplex(expr[n]) /\ expr[n].op \in {"or", "OR"} -> Disjunction(parts)
                  [] IsComplex(expr[n]) /\ expr[n].op \in {"not", "NOT"} ->
                         Negation(meant[expr[n].args[1]])
                  [] ~IsComplex(expr[n]) /\ expr[n].op \in {"in", "IN"} ->
                         Test("in", row[ColumnOf(expr[n].field)], expr[n].values)
                  [] OTHER -> Test(expr[n].op, row[ColumnOf(expr[n].field)], Operand(expr[n]))
    IN  meant[Len(expr)]
================================================================================
