------------------------------- MODULE ApiQueries -------------------------------
(***************************************************************************)
(* The reading side of the API: the complex queries, the list of alarms    *)
(* and the history of an alarm, with the filters of                        *)
(* aodh/api/controllers/v2/utils.py and alarms.py, the access policy, and  *)
(* the queries of aodh/storage/impl_sqlalchemy.py that they end in.        *)
(*                                                                         *)
(* A request that is answered at once is one step.  A client that lists    *)
(* alarms page by page (limit and marker) makes several, while rows come,  *)
(* go and change.                                                          *)
(***************************************************************************)
EXTENDS ComplexQuery, FiniteSets

CONSTANTS
    Callers,        \* [project, roles] records
    InitialAlarms,  \* the rows of table alarm at the start
    Changes,        \* the rows of table alarm_history
    Newcomers,      \* rows that may be inserted while a client pages
    ComplexQueries, \* the bodies of POST /query/alarms and /query/alarms/history
    ItemLists,      \* the values of q, sequences of [field, op, value]
    Collation,      \* the place of each text in the order of the database
    SortKeys,       \* the values of sort, sequences of [field, dir]
    PageSize,       \* the value of limit
    MaxWrites       \* bound on the writes of a behaviour

ASSUME CallersAssumption ==
    \A c \in Callers : c.roles \subseteq {"reader", "member", "admin"} /\ c.project # NULL

ASSUME RequestsAssumption ==
    /\ \A query \in ComplexQueries :
           WellFormed(query.filter) /\ (query.limit # Unset => query.limit \in Nat)
    /\ \A q \in ItemLists \cup SortKeys : q \in Seq(ToSet(q))
    /\ \A keys \in SortKeys : /\ \E i \in DOMAIN keys : keys[i].field # "severity"
                              /\ \A i, j \in DOMAIN keys : keys[i].field = keys[j].field => i = j
    /\ PageSize \in Nat \ {0} /\ Unset \notin Nat
    /\ \A text \in DOMAIN IsoTime : IsoTime[text] \notin Booleans

\* Identifiers are not used twice.
ASSUME TablesAssumption ==
    /\ IsFiniteSet(InitialAlarms) /\ IsFiniteSet(Changes)
    /\ \A row \in InitialAlarms \cup Newcomers \cup Changes : row.timestamp \in Int
    /\ \A row \in InitialAlarms \cup Newcomers :
           /\ {"alarm_id", "project_id", "state", "severity"} \subseteq DOMAIN row
           /\ row.alarm_id # None
           /\ \A other \in InitialAlarms \cup Newcomers :
                  row.alarm_id = other.alarm_id => row = other

VARIABLES
    dialect,    \* the database: "mysql" or "postgresql"
    alarms,     \* table alarm
    answer,     \* the last request that was answered at once, and its answer
    walk,       \* the client that pages: [caller, keys, marker, got, status]
    touched,    \* the alarms written since the walk began
    writes      \* number of writes so far

vars == <<dialect, alarms, answer, walk, touched, writes>>

--------------------------------------------------------------------------------
(* Order and limit, of either table. *)

\* field(severity, 'low', 'moderate', 'critical') is 0 for anything else.
SeverityPlace(severity) ==
    CASE severity = "low" -> 1 [] severity = "moderate" -> 2 [] severity = "critical" -> 3
      [] OTHER -> 0

Place(row, field) ==
    CASE field \in TimestampFields -> row[field]
      [] field = "severity" -> SeverityPlace(row.severity)
      [] OTHER -> Collation[row[field]]

\* A row as it is and as updates may leave it.
Versions(row) == {row} \cup {[row EXCEPT !.state = state] : state \in {"ok", "alarm"}}

ASSUME CollationAssumption ==
    \A row, other \in InitialAlarms \cup Newcomers :
        /\ \A keys \in SortKeys : \A i \in DOMAIN keys :
               /\ keys[i].field \in DOMAIN row
               /\ \A version \in Versions(row) : Place(version, keys[i].field) \in Int
        /\ Place(row, "alarm_id") = Place(other, "alarm_id") => row = other

Precedes(left, right, key) ==
    IF key.dir = "asc" THEN Place(left, key.field) < Place(right, key.field)
                       ELSE Place(left, key.field) > Place(right, key.field)

\* Mutant: only the first sort key is compared with the marker.
AfterFirstKey(row, marker, keys) == Precedes(marker, row, keys[1])

\* ORDER BY, and the criterion of paginate_query for a marker: the first key
\* that differs decides.
After(row, marker, keys) ==
    \E i \in DOMAIN keys :
        /\ Precedes(marker, row, keys[i])
        /\ \A j \in 1..(i - 1) : Place(row, keys[j].field) = Place(marker, keys[j].field)

\* The answers the database may give: rows that tie come in any order.
Orders(rows, keys, limit) ==
    LET Sorted(s) == \A i, j \in DOMAIN s : i < j => ~After(s[i], s[j], keys)
        n == IF limit = Unset \/ limit > Cardinality(rows) THEN Cardinality(rows) ELSE limit
    IN  {SubSeq(s, 1, n) : s \in {t \in SetToSeqs(rows) : Sorted(t)}}

Newest == <<[field |-> "timestamp", dir |-> "desc"]>>

--------------------------------------------------------------------------------
(* QueryAlarmsController.post and QueryAlarmHistoryController.post. *)

Rows(table) == IF table = "alarm" THEN alarms ELSE Changes

QueryOperation(table) == IF table = "alarm" THEN "query_alarm" ELSE "query_alarm_history"

\* Connection._retrieve_data.
RetrieveData(table, query) ==
    LET matching == {row \in Rows(table) :
                        query.filter = <<>> \/ Holds(query.filter, row) = "true"}
    IN  Orders(matching, IF query.orderby = Unset THEN Newest ELSE query.orderby,
               query.limit)

\* One request of a behaviour is enough: they read and change nothing.
Quiet == walk.status = "none" /\ answer = None

Answer(request, status, rows) ==
    answer' = [request |-> request, status |-> status, rows |-> rows]

AskComplex(caller, table, query) ==
    LET request == [kind |-> "complex", caller |-> caller, table |-> table, query |-> query]
        valid == Validate(caller, table, query)
    IN  /\ Quiet
        /\ \/ /\ ~Enforce(QueryOperation(table), caller, SegregationTarget(caller))
              /\ Answer(request, 403, <<>>)
           \/ /\ Enforce(QueryOperation(table), caller, SegregationTarget(caller))
              /\ valid.status # 200
              /\ Answer(request, valid.status, <<>>)
           \/ /\ Enforce(QueryOperation(table), caller, SegregationTarget(caller))
              /\ valid.status = 200
              /\ IF ~(Transformable(table, valid.filter) /\ Orderable(dialect, valid.orderby))
                   THEN Answer(request, 500, <<>>)
                   ELSE \E rows \in RetrieveData(table, valid) : Answer(request, 200, rows)
        /\ UNCHANGED <<dialect, alarms, walk, touched, writes>>

--------------------------------------------------------------------------------
(* AlarmController.history: query_to_kwargs, then get_alarm_changes. *)

\* _enforce_rbac: the alarm, or the status of the refusal.
EnforceRbac(op, caller, a) ==
    LET seen == {row \in alarms : row.alarm_id = a
                    /\ (IsAdmin(caller) \/ row.project_id = caller.project)}
    IN  CASE seen = {} -> 404
          [] seen # {} /\ ~Enforce(op, caller, (CHOOSE row \in seen : TRUE).project_id) -> 403
          [] OTHER -> 200

\* _verify_query_segregation.
OtherProject(caller, q) ==
    /\ LimitedToProject(caller) # None
    /\ \E i \in DOMAIN q : q[i].field \in {"project", "project_id"}
                              /\ q[i].value # caller.project

FirstItem(q, field) ==
    LET found == {i \in DOMAIN q : q[i].field = field}
    IN  IF found = {} THEN 0 ELSE CHOOSE i \in found : \A j \in found : i <= j
LastItem(q, field, ops) ==
    LET found == {i \in DOMAIN q : q[i].field = field /\ q[i].op \in ops}
    IN  IF found = {} THEN 0 ELSE CHOOSE i \in found : \A j \in found : i >= j

LowerOps == {"gt", "ge"}
UpperOps == {"lt", "le"}

\* validate_query: of the timestamps and the offsets only the first is looked at.
ValidItems(q) ==
    LET t == FirstItem(q, "timestamp")
        o == FirstItem(q, "search_offset")
    IN  /\ t # 0 => q[t].op \in LowerOps \cup UpperOps
        /\ o # 0 => q[o].op = "eq" /\ t # 0
        /\ \A i \in DOMAIN q : q[i].field \notin {"timestamp", "search_offset"} =>
               /\ q[i].field \in {"project", "project_id", "type", "severity"}
               /\ q[i].op = "eq"

\* Mutant: the offset narrows the range.
NarrowingRange(q) ==
    LET lower == LastItem(q, "timestamp", LowerOps)
        upper == LastItem(q, "timestamp", UpperOps)
        o == LastItem(q, "search_offset", {"eq"})
        offset == IF o = 0 THEN 0 ELSE q[o].value
    IN  {row \in Changes :
            /\ lower # 0 => IF q[lower].op = "gt" THEN row.timestamp > q[lower].value + offset
                                                  ELSE row.timestamp >= q[lower].value + offset
            /\ upper # 0 => IF q[upper].op = "le" THEN row.timestamp + offset <= q[upper].value
                                                  ELSE row.timestamp + offset < q[upper].value}

\* _get_query_timestamps, and the range of get_alarm_changes: the last bound of
\* either side, widened by the last offset.
InRange(q) ==
    LET lower == LastItem(q, "timestamp", LowerOps)
        upper == LastItem(q, "timestamp", UpperOps)
        o == LastItem(q, "search_offset", {"eq"})
        offset == IF o = 0 THEN 0 ELSE q[o].value
    IN  {row \in Changes :
            /\ lower # 0 => IF q[lower].op = "gt" THEN row.timestamp + offset > q[lower].value
                                                  ELSE row.timestamp + offset >= q[lower].value
            /\ upper # 0 => IF q[upper].op = "le" THEN row.timestamp <= q[upper].value + offset
                                                  ELSE row.timestamp < q[upper].value + offset}

\* query_to_kwargs: an argument per field, the last item wins.
Column(field) == IF field = "project" THEN "project_id" ELSE field
EqualsLast(row, q) ==
    \A i \in DOMAIN q :
        q[i].field \notin {"timestamp", "search_offset"} =>
            LET last == CHOOSE j \in DOMAIN q :
                            /\ Column(q[j].field) = Column(q[i].field)
                            /\ \A k \in DOMAIN q : Column(q[k].field) = Column(q[i].field) => k <= j
            IN  row[Column(q[last].field)] = q[last].value

\* get_alarm_changes.
AlarmChanges(a, onBehalfOf, q) ==
    {row \in InRange(q) :
        /\ row.alarm_id = a
        /\ onBehalfOf # None => row.on_behalf_of = onBehalfOf
        /\ EqualsLast(row, q)}

AskHistory(caller, a, q) ==
    LET request == [kind |-> "history", caller |-> caller, alarm |-> a, q |-> q]
        status == EnforceRbac("alarm_history", caller, a)
    IN  /\ Quiet
        /\ CASE status # 200 -> Answer(request, status, <<>>)
             [] status = 200 /\ OtherProject(caller, q) -> Answer(request, 401, <<>>)
             [] status = 200 /\ ~OtherProject(caller, q) /\ ~ValidItems(q) ->
                  Answer(request, 400, <<>>)
             [] OTHER ->
                  \E rows \in Orders(AlarmChanges(a, LimitedToProject(caller), q), Newest, Unset) :
                      Answer(request, 200, rows)
        /\ UNCHANGED <<dialect, alarms, walk, touched, writes>>

--------------------------------------------------------------------------------
(* AlarmsController.get_all with limit and marker, page after page. *)

NoWalk == [status |-> "none"]

StartWalk(caller, keys) ==
    /\ Quiet
    /\ Enforce("get_alarms", caller, SegregationTarget(caller))
    /\ walk' = [status |-> "paging", caller |-> caller, keys |-> keys, marker |-> None,
                got |-> <<>>]
    /\ touched' = {}
    /\ UNCHANGED <<dialect, alarms, answer, writes>>

\* Without a project_id in q, the caller's own project is asked for, also for an
\* administrator.
Listed(caller) == {row \in alarms : row.project_id = caller.project}

\* _get_pagination_query orders by severity before anything else, wherever the
\* client has put it, and leaves it out of the criterion for a marker.
SeverityAt(keys) == {i \in DOMAIN keys : keys[i].field = "severity"}
MarkerKeys(keys) ==
    IF SeverityAt(keys) = {} THEN keys ELSE RemoveAt(keys, CHOOSE i \in SeverityAt(keys) : TRUE)
OrderKeys(keys) ==
    IF SeverityAt(keys) = {} THEN keys
      ELSE <<keys[CHOOSE i \in SeverityAt(keys) : TRUE]>> \o MarkerKeys(keys)

\* get_alarms with _get_pagination_query: a client takes the last row of a page
\* for the marker of the next; a page that is not full is the last one.
NextPage ==
    /\ walk.status = "paging"
    /\ LET found == {row \in Listed(walk.caller) : row.alarm_id = walk.marker}
       IN  CASE walk.marker # None /\ found = {} ->
                  walk' = [walk EXCEPT !.status = "marker not found"]
             [] ~(walk.marker # None /\ found = {}) /\ ~Orderable(dialect, walk.keys) ->
                  walk' = [walk EXCEPT !.status = "not implemented"]
             [] OTHER ->
                  LET rest == IF walk.marker = None THEN Listed(walk.caller)
                              ELSE {row \in Listed(walk.caller) :
                                       After(row, CHOOSE m \in found : TRUE,
                                             MarkerKeys(walk.keys))}
                  IN  \E page \in Orders(rest, OrderKeys(walk.keys), PageSize) :
                          walk' = IF Len(page) < PageSize
                                    THEN [walk EXCEPT !.got = @ \o page, !.status = "complete"]
                                    ELSE [walk EXCEPT !.got = @ \o page,
                                                      !.marker = page[PageSize].alarm_id]
    /\ UNCHANGED <<dialect, alarms, answer, touched, writes>>

--------------------------------------------------------------------------------
(* What other requests do to the table meanwhile. *)

Writes(a) ==
    /\ walk.status = "paging"
    /\ writes < MaxWrites
    /\ writes' = writes + 1
    /\ touched' = touched \cup {a}
    /\ UNCHANGED <<dialect, answer, walk>>

Insert(row) ==
    /\ \A other \in alarms : other.alarm_id # row.alarm_id
    /\ alarms' = alarms \cup {row}
    /\ Writes(row.alarm_id)

Delete(row) ==
    /\ alarms' = alarms \ {row}
    /\ Writes(row.alarm_id)

\* A put, a put_state or an evaluator: the state is a column one can sort by.
Update(row) ==
    /\ \E state \in {"ok", "alarm"} \ {row.state} :
           alarms' = (alarms \ {row}) \cup {[row EXCEPT !.state = state]}
    /\ Writes(row.alarm_id)

--------------------------------------------------------------------------------
Init ==
    /\ dialect \in {"mysql", "postgresql"}
    /\ alarms = InitialAlarms
    /\ answer = None
    /\ walk = NoWalk
    /\ touched = {}
    /\ writes = 0

Ask(caller) ==
    \/ \E table \in {"alarm", "alarm_history"}, query \in ComplexQueries :
           AskComplex(caller, table, query)
    \/ \E row \in InitialAlarms, q \in ItemLists : AskHistory(caller, row.alarm_id, q)
    \/ \E keys \in SortKeys : StartWalk(caller, keys)

Next ==
    \/ \E caller \in Callers : Ask(caller)
    \/ NextPage
    \/ \E row \in Newcomers : Insert(row)
    \/ \E row \in alarms : Delete(row) \/ Update(row)

Spec == Init /\ [][Next]_vars

--------------------------------------------------------------------------------
(* Properties. *)

Answered(kind) == answer # None /\ answer.status = 200 /\ answer.request.kind = kind

\* A complex query that is answered selects what its expression says, whatever
\* the nesting of and, or and not, the case of the operators, the old names of
\* fields and the NULLs in the table, within the caller's project; and a limit
\* keeps the first rows of the order.
ComplexMeansFilter ==
    Answered("complex") =>
        LET req == answer.request
            project == LimitedToProject(req.caller)
            meant == {row \in Rows(req.table) :
                         /\ req.query.filter # <<>> => Meant(req.query.filter, row) = "true"
                         /\ project # None => row[VisibilityField(req.table)] = project}
            got == ToSet(answer.rows)
        IN  /\ got \subseteq meant
            /\ req.query.limit = Unset => got = meant
            /\ req.query.orderby = Unset =>
                   \A in \in got, out \in meant \ got : out.timestamp <= in.timestamp

\* What the schema of query.py accepts, the rewriting turns into something that
\* QueryTransformer and the database can handle, with two exceptions that the
\* schema lets through and that end in a server error: a boolean after an order
\* operator, and an order by severity on another database than MySQL.
AcceptedIsTranslated ==
    answer # None /\ answer.status = 500 =>
        LET query == answer.request.query
        IN  \/ \E n \in DOMAIN query.filter : OrdersBoolean(query.filter[n])
            \/ ~Orderable(dialect, query.orderby)

\* The history that is returned meets every condition of the request, and none
\* that meets them all is left out, as long as no two conditions are about the
\* same bound or field.
OneItemEach(q) ==
    \A i, j \in DOMAIN q :
        i # j => \/ Column(q[i].field) # Column(q[j].field)
                 \/ q[i].op \in LowerOps /\ q[j].op \in UpperOps
                 \/ q[i].op \in UpperOps /\ q[j].op \in LowerOps
Meets(row, item, offset) ==
    CASE item.field = "timestamp" /\ item.op = "gt" -> row.timestamp + offset > item.value
      [] item.field = "timestamp" /\ item.op = "ge" -> row.timestamp + offset >= item.value
      [] item.field = "timestamp" /\ item.op = "lt" -> row.timestamp < item.value + offset
      [] item.field = "timestamp" /\ item.op = "le" -> row.timestamp <= item.value + offset
      [] item.field = "search_offset" -> TRUE
      [] OTHER -> row[Column(item.field)] = item.value
HistoryMeetsItems ==
    Answered("history") /\ OneItemEach(answer.request.q) =>
        LET req == answer.request
            o == FirstItem(req.q, "search_offset")
            offset == IF o = 0 THEN 0 ELSE req.q[o].value
        IN  ToSet(answer.rows) =
                {row \in Changes :
                    /\ row.alarm_id = req.alarm
                    /\ LimitedToProject(req.caller) # None =>
                           row.on_behalf_of = req.caller.project
                    /\ \A i \in DOMAIN req.q : Meets(row, req.q[i], offset)}

\* A client that follows the markers to the end has seen every alarm that nobody
\* wrote meanwhile exactly once, whatever was inserted, deleted and updated in
\* between.  The sort keys have to tell any two alarms apart, and what moves a
\* marker in the order moves the end of the page with it.  Nothing is claimed of
\* a sort by severity: its pages do miss alarms and repeat them, as the order
\* knows the severity and the marker does not.
Times(a) == Cardinality({i \in DOMAIN walk.got : walk.got[i].alarm_id = a})
KeysTellApart ==
    /\ \E i \in DOMAIN walk.keys : walk.keys[i].field = "alarm_id"
    /\ SeverityAt(walk.keys) = {}
MarkersStay ==
    \/ \A i \in DOMAIN walk.keys : walk.keys[i].field # "state"
    \/ \A i \in DOMAIN walk.got : i % PageSize = 0 => walk.got[i].alarm_id \notin touched
PagesMissNothing ==
    walk.status \in {"paging", "complete"} /\ KeysTellApart /\ MarkersStay =>
        \A row \in InitialAlarms :
            row.alarm_id \notin touched /\ row \in Listed(walk.caller) =>
                /\ Times(row.alarm_id) <= 1
                /\ walk.status = "complete" => Times(row.alarm_id) = 1
================================================================================
