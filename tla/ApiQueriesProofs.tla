---------------------------- MODULE ApiQueriesProofs ----------------------------
(***************************************************************************)
(* Proofs about ApiQueries and ComplexQuery, for every set of callers,     *)
(* requests and rows: an expression of any depth, pages of any length and  *)
(* any number of writes between them.                                      *)
(***************************************************************************)
EXTENDS ApiQueries, RecursionTheorems, SequenceTheorems, FiniteSetTheorems, TLAPS

(* Sequences. *)

LEMMA SeqOfItself ==
    ASSUME NEW s, s \in Seq(ToSet(s))
    PROVE  /\ Len(s) \in Nat /\ DOMAIN s = 1..Len(s)
           /\ s # <<>> => Len(s) \in 1..Len(s)
<1> DEFINE T == ToSet(s)
<1>1. s \in Seq(T)
  OBVIOUS
<1> HIDE DEF T
<1>2. QED
  BY <1>1, LenProperties, EmptySeq

\* A full order of a set is a list of all of it, each member once.
LEMMA ListOfSet ==
    ASSUME NEW S, IsFiniteSet(S), NEW s \in SetToSeqs(S)
    PROVE  /\ Cardinality(S) \in Nat
           /\ s \in [1..Cardinality(S) -> S]
           /\ \A i, j \in 1..Cardinality(S) : s[i] = s[j] => i = j
           /\ \A x \in S : \E i \in 1..Cardinality(S) : s[i] = x
<1>1. PICK n : n = Cardinality(S) /\ n \in Nat
  BY FS_CardinalityType
<1>2. s \in [1..n -> S] /\ \A i, j \in 1..n : i # j => s[i] # s[j]
  BY <1>1 DEF SetToSeqs
<1>3. s \in Injection(1..n, S)
  BY <1>2 DEF Injection, IsInjective
<1>4. IsFiniteSet(1..n) /\ Cardinality(1..n) = n
  BY <1>1, FS_Interval
<1>5. s \in Surjection(1..n, S)
  BY <1>1, <1>3, <1>4, FS_Injection
<1>6. QED
  BY <1>1, <1>2, <1>5 DEF Surjection

\* What a query of the database may answer: the first rows of a sorted list of
\* all, or all of them.
LEMMA PageOfRows ==
    ASSUME NEW rows, IsFiniteSet(rows), NEW keys, NEW limit, limit # Unset => limit \in Nat,
           NEW page \in Orders(rows, keys, limit)
    PROVE  /\ page \in Seq(rows)
           /\ limit # Unset => Len(page) <= limit
           /\ \A i, j \in 1..Len(page) : page[i] = page[j] => i = j
           /\ \A i, j \in 1..Len(page) : i < j => ~ After(page[i], page[j], keys)
           /\ \A row \in rows : \/ row \in ToSet(page)
                                \/ \A i \in 1..Len(page) : ~ After(page[i], row, keys)
           /\ limit = Unset \/ Len(page) < limit => \A row \in rows : row \in ToSet(page)
<1>1. PICK size : size = Cardinality(rows) /\ size \in Nat
  BY FS_CardinalityType
<1>2. PICK n : n = IF limit = Unset \/ limit > size THEN size ELSE limit
  OBVIOUS
<1>3. n \in 0..size
  BY <1>1, <1>2
<1>4. PICK s \in SetToSeqs(rows) : /\ \A i, j \in DOMAIN s : i < j => ~ After(s[i], s[j], keys)
                                   /\ page = SubSeq(s, 1, n)
  BY <1>1, <1>2 DEF Orders
<1>5. /\ s \in [1..size -> rows]
      /\ \A i, j \in 1..size : s[i] = s[j] => i = j
      /\ \A row \in rows : \E i \in 1..size : s[i] = row
  BY <1>1, ListOfSet
<1>6. /\ page \in Seq(rows) /\ Len(page) = n
      /\ \A i \in 1..n : page[i] = s[i]
  <2>1. \A i \in 1..n : s[i] \in rows
    BY <1>1, <1>3, <1>5
  <2>2. QED
    BY <1>3, <1>4, <2>1, SubSeqProperties
<1>7. DOMAIN page = 1..n
  BY <1>6, LenProperties
<1>8. \A i, j \in 1..size : i < j => ~ After(s[i], s[j], keys)
  BY <1>4, <1>5
<1>9. ASSUME NEW row \in rows, row \notin ToSet(page)
      PROVE  n < size /\ \A i \in 1..n : ~ After(page[i], row, keys)
  <2>1. PICK k \in 1..size : s[k] = row
    BY <1>5
  <2>2. k \notin 1..n
    BY <1>6, <1>7, <1>9, <2>1 DEF ToSet
  <2>3. QED
    BY <1>1, <1>3, <1>6, <1>8, <2>1, <2>2
<1>10. limit = Unset \/ n < limit => n = size
  BY <1>1, <1>2
<1>11. limit # Unset => n <= limit
  BY <1>1, <1>2
<1>12. \A i, j \in 1..n : /\ page[i] = page[j] => i = j
                          /\ i < j => ~ After(page[i], page[j], keys)
  BY <1>1, <1>3, <1>5, <1>6, <1>8
<1>13. QED
  BY <1>1, <1>6, <1>9, <1>10, <1>11, <1>12

--------------------------------------------------------------------------------
(* The table and the walk: what rows there may be, and what is known of those *)
(* that nobody wrote.  An answer is given while the table is as at the start. *)

Base == InitialAlarms \cup Newcomers
StoredRows == UNION {Versions(row) : row \in Base}

Walks == [status : {"paging", "complete", "marker not found", "not implemented"},
          caller : Callers,
          keys : SortKeys, marker : {row.alarm_id : row \in Base} \cup {None},
          got : Seq(StoredRows)]

TableInv ==
    /\ alarms \subseteq StoredRows
    /\ IsFiniteSet(alarms)
    /\ \A x, y \in alarms : x.alarm_id = y.alarm_id => x = y
    /\ \A row \in InitialAlarms : row.alarm_id \notin touched => row \in alarms
    /\ \A x \in alarms : x.alarm_id \notin touched => x \in InitialAlarms

WalkInv ==
    /\ walk = NoWalk => alarms = InitialAlarms
    /\ answer # None => walk = NoWalk
    /\ walk # NoWalk => /\ walk \in Walks
                        /\ \A i \in DOMAIN walk.got :
                               walk.got[i].alarm_id \notin touched =>
                                   walk.got[i] \in InitialAlarms

LEMMA VersionsOf ==
    ASSUME NEW x \in StoredRows
    PROVE  /\ x.alarm_id # None
           /\ \E row \in Base : /\ x \in Versions(row)
                               /\ x.alarm_id = row.alarm_id /\ x.project_id = row.project_id
                               /\ \A f \in DOMAIN row : f # "state" => x[f] = row[f]
<1>1. PICK row \in Base : x \in Versions(row)
  BY DEF StoredRows
<1>2. {"alarm_id", "project_id", "state"} \subseteq DOMAIN row /\ row.alarm_id # None
  BY TablesAssumption DEF Base
<1>3. \A f \in DOMAIN row : f # "state" => x[f] = row[f]
  BY <1>1 DEF Versions
<1>4. "alarm_id" # "state" /\ "project_id" # "state"
  OBVIOUS
<1>5. QED
  BY <1>1, <1>2, <1>3, <1>4

LEMMA BaseIsStored == Base \subseteq StoredRows
BY DEF StoredRows, Versions

LEMMA UpdatedIsStored ==
    ASSUME NEW x \in StoredRows, NEW state \in {"ok", "alarm"}
    PROVE  /\ [x EXCEPT !.state = state] \in StoredRows
           /\ [x EXCEPT !.state = state].alarm_id = x.alarm_id
<1>1. PICK row \in Base : x \in Versions(row)
  BY DEF StoredRows
<1>2. {"alarm_id", "project_id", "state"} \subseteq DOMAIN row
  BY TablesAssumption DEF Base
<1>3. DOMAIN x = DOMAIN row
  BY <1>1 DEF Versions
<1>4. [x EXCEPT !.state = state] = [row EXCEPT !.state = state]
  BY <1>1, <1>3 DEF Versions
<1>5. [x EXCEPT !.state = state] \in Versions(row)
  BY <1>4 DEF Versions
<1>6. QED
  BY <1>2, <1>3, <1>5 DEF StoredRows

LEMMA InvInit == Init => TableInv /\ WalkInv
<1> SUFFICES ASSUME Init PROVE TableInv /\ WalkInv
  OBVIOUS
<1>1. WalkInv
  BY DEF Init, WalkInv
<1>2. InitialAlarms \subseteq Base
  BY DEF Base
<1>3. TableInv
  BY <1>2, BaseIsStored, TablesAssumption DEF Init, TableInv, Base
<1>4. QED
  BY <1>1, <1>3

LEMMA WalkIsRecord ==
    ASSUME WalkInv, walk.status # "none"
    PROVE  walk # NoWalk /\ walk \in Walks
BY DEF WalkInv, NoWalk

LEMMA AskInv ==
    ASSUME TableInv, WalkInv, NEW caller \in Callers, Ask(caller)
    PROVE  TableInv' /\ WalkInv'
<1>1. walk = NoWalk /\ answer = None /\ alarms' = alarms /\ alarms = InitialAlarms
  <2>1. Quiet /\ alarms' = alarms
    BY DEF Ask, AskComplex, AskHistory, StartWalk
  <2>2. walk = NoWalk
    BY <2>1 DEF Quiet, WalkInv, Walks
  <2>3. QED
    BY <2>1, <2>2 DEF Quiet, WalkInv
<1>2. CASE UNCHANGED <<alarms, walk, touched>>
  BY <1>1, <1>2 DEF TableInv, WalkInv
<1>3. ASSUME NEW keys \in SortKeys, StartWalk(caller, keys)
      PROVE  TableInv' /\ WalkInv'
  <2>1. walk' = [status |-> "paging", caller |-> caller, keys |-> keys, marker |-> None,
                 got |-> <<>>] /\ UNCHANGED <<alarms, answer>>
    BY <1>3 DEF StartWalk
  <2>2. <<>> \in Seq(StoredRows)
    BY EmptySeq
  <2>3. walk' \in Walks /\ walk'.got = <<>>
    BY <2>1, <2>2 DEF Walks
  <2>4. walk' # NoWalk
    BY <2>1 DEF NoWalk
  <2>5. WalkInv'
    BY <1>1, <2>1, <2>3, <2>4 DEF WalkInv
  <2>6. TableInv'
    BY <1>1, <2>1 DEF TableInv
  <2>7. QED
    BY <2>5, <2>6
<1>4. QED
  BY <1>2, <1>3 DEF Ask, AskComplex, AskHistory

\* What NextPage asks the database for.
Rest(found) ==
    IF walk.marker = None THEN Listed(walk.caller)
    ELSE {row \in Listed(walk.caller) :
             After(row, CHOOSE m \in found : TRUE, MarkerKeys(walk.keys))}

Pages(found) == Orders(Rest(found), OrderKeys(walk.keys), PageSize)

LEMMA PageOfWalk ==
    ASSUME TableInv, WalkInv, NEW found, NEW page \in Pages(found),
           NEW keys, keys = OrderKeys(walk.keys)
    PROVE  /\ page \in Seq(Rest(found)) /\ page \in Seq(StoredRows)
           /\ Len(page) \in Nat /\ Len(page) <= PageSize
           /\ DOMAIN page = 1..Len(page)
           /\ \A i \in 1..Len(page) : page[i] \in Rest(found) /\ page[i] \in alarms
           /\ \A i, j \in 1..Len(page) : page[i] = page[j] => i = j
           /\ \A i, j \in 1..Len(page) : i < j => ~ After(page[i], page[j], keys)
           /\ \A row \in Rest(found) : \/ row \in ToSet(page)
                                      \/ \A i \in 1..Len(page) : ~ After(page[i], row, keys)
           /\ Len(page) < PageSize => \A row \in Rest(found) : row \in ToSet(page)
<1>1. PICK rest : rest = Rest(found)
  OBVIOUS
<1>2. rest \subseteq alarms
  BY <1>1 DEF Rest, Listed
<1>3. IsFiniteSet(rest)
  BY <1>2, FS_Subset DEF TableInv
<1>4. PageSize \in Nat /\ PageSize # Unset
  BY RequestsAssumption
<1>5. page \in Orders(rest, keys, PageSize)
  BY <1>1 DEF Pages
<1>6. /\ page \in Seq(rest)
      /\ PageSize # Unset => Len(page) <= PageSize
      /\ \A i, j \in 1..Len(page) : page[i] = page[j] => i = j
      /\ \A i, j \in 1..Len(page) : i < j => ~ After(page[i], page[j], keys)
      /\ \A row \in rest : \/ row \in ToSet(page)
                          \/ \A i \in 1..Len(page) : ~ After(page[i], row, keys)
      /\ PageSize = Unset \/ Len(page) < PageSize => \A row \in rest : row \in ToSet(page)
  BY <1>3, <1>4, <1>5, PageOfRows
<1>7. /\ Len(page) \in Nat /\ DOMAIN page = 1..Len(page)
      /\ \A i \in 1..Len(page) : page[i] \in rest
  BY <1>6, LenProperties, ElementOfSeq
<1>8. page \in Seq(StoredRows)
  BY <1>2, <1>6, SeqMonotonic DEF TableInv
<1>9. QED
  BY <1>1, <1>2, <1>4, <1>6, <1>7, <1>8, Zenon

\* The two ends of a step of the client that pages.
LEMMA NextPageGives ==
    ASSUME TableInv, WalkInv, NextPage
    PROVE  /\ walk \in Walks /\ walk # NoWalk /\ walk.status = "paging"
           /\ UNCHANGED <<alarms, answer, touched>>
           /\ \/ \E status \in {"marker not found", "not implemented"} :
                     walk' = [walk EXCEPT !.status = status]
              \/ \E found : \E page \in Pages(found) :
                     /\ found = {row \in Listed(walk.caller) : row.alarm_id = walk.marker}
                     /\ walk.marker = None \/ found # {}
                     /\ walk' = IF Len(page) < PageSize
                                  THEN [walk EXCEPT !.got = @ \o page, !.status = "complete"]
                                  ELSE [walk EXCEPT !.got = @ \o page,
                                                    !.marker = page[PageSize].alarm_id]
<1>1. walk.status = "paging" /\ UNCHANGED <<alarms, answer, touched>>
  BY DEF NextPage
<1>2. walk \in Walks /\ walk # NoWalk
  BY <1>1, WalkIsRecord
<1>3. PICK found : found = {row \in Listed(walk.caller) : row.alarm_id = walk.marker}
  OBVIOUS
<1>4. CASE walk.marker # None /\ found = {}
  BY <1>1, <1>2, <1>3, <1>4 DEF NextPage
<1>5. CASE ~ (walk.marker # None /\ found = {}) /\ ~ Orderable(dialect, walk.keys)
  BY <1>1, <1>2, <1>3, <1>5 DEF NextPage
<1>6. CASE ~ (walk.marker # None /\ found = {}) /\ Orderable(dialect, walk.keys)
  <2>1. PICK page \in Pages(found) :
            walk' = IF Len(page) < PageSize
                      THEN [walk EXCEPT !.got = @ \o page, !.status = "complete"]
                      ELSE [walk EXCEPT !.got = @ \o page, !.marker = page[PageSize].alarm_id]
    BY <1>3, <1>6 DEF NextPage, Rest, Pages
  <2>2. QED
    BY <1>1, <1>2, <1>3, <1>6, <2>1
<1>7. QED
  BY <1>4, <1>5, <1>6

LEMMA NextPageInv == TableInv /\ WalkInv /\ NextPage => TableInv' /\ WalkInv'
<1> SUFFICES ASSUME TableInv, WalkInv, NextPage PROVE TableInv' /\ WalkInv'
  OBVIOUS
<1>1. /\ walk \in Walks /\ walk # NoWalk /\ walk.status = "paging"
      /\ UNCHANGED <<alarms, answer, touched>>
  BY NextPageGives
<1>2. TableInv'
  BY <1>1 DEF TableInv
<1>3. ASSUME NEW status \in {"marker not found", "not implemented"},
             walk' = [walk EXCEPT !.status = status]
      PROVE  WalkInv'
  <2>1. walk' \in Walks /\ walk' # NoWalk /\ walk'.got = walk.got
    BY <1>1, <1>3 DEF Walks, NoWalk
  <2>2. QED
    BY <1>1, <1>2, <2>1 DEF WalkInv
<1>4. ASSUME NEW found, NEW page \in Pages(found),
             walk' = IF Len(page) < PageSize
                       THEN [walk EXCEPT !.got = @ \o page, !.status = "complete"]
                       ELSE [walk EXCEPT !.got = @ \o page, !.marker = page[PageSize].alarm_id]
      PROVE  WalkInv'
  <2>1. /\ page \in Seq(StoredRows) /\ Len(page) \in Nat
        /\ Len(page) <= PageSize /\ PageSize \in Nat \ {0}
        /\ \A i \in 1..Len(page) : page[i] \in alarms
    BY PageOfWalk, RequestsAssumption
  <2>2. walk.got \in Seq(StoredRows)
    BY <1>1 DEF Walks
  <2>3. /\ walk.got \o page \in Seq(StoredRows)
        /\ DOMAIN walk.got = 1..Len(walk.got) /\ Len(walk.got) \in Nat
        /\ DOMAIN (walk.got \o page) = 1..(Len(walk.got) + Len(page))
        /\ \A i \in 1..(Len(walk.got) + Len(page)) :
               (walk.got \o page)[i] = IF i <= Len(walk.got) THEN walk.got[i]
                                       ELSE page[i - Len(walk.got)]
    <3>1. DOMAIN walk.got = 1..Len(walk.got) /\ Len(walk.got) \in Nat
      BY <2>2, LenProperties
    <3>2. /\ walk.got \o page \in Seq(StoredRows)
          /\ Len(walk.got \o page) = Len(walk.got) + Len(page)
      BY <2>1, <2>2, ConcatProperties
    <3>3. QED
      BY <2>1, <2>2, <3>1, <3>2, ConcatProperties, LenProperties
  <2>4. ASSUME Len(page) >= PageSize
        PROVE  page[PageSize].alarm_id \in {row.alarm_id : row \in Base}
    <3>1. page[PageSize] \in StoredRows
      BY <2>1, <2>4, ElementOfSeq
    <3>2. QED
      BY <3>1, VersionsOf
  <2>5. walk' \in Walks /\ walk' # NoWalk /\ walk'.got = walk.got \o page
    <3>1. PICK got : got = walk.got \o page
      OBVIOUS
    <3>2. PICK ids : ids = {row.alarm_id : row \in Base} \cup {None}
      OBVIOUS
    <3>3. PICK rows : rows = Seq(StoredRows)
      OBVIOUS
    <3>4. got \in rows
      BY <2>3, <3>1, <3>3
    <3>5. CASE Len(page) < PageSize
      <4>1. walk' = [walk EXCEPT !.got = got, !.status = "complete"]
        BY <1>4, <3>1, <3>5
      <4>2. QED
        BY <1>1, <3>1, <3>3, <3>4, <4>1 DEF Walks, NoWalk
    <3>6. CASE ~ (Len(page) < PageSize)
      <4>1. PICK marker : marker = page[PageSize].alarm_id
        OBVIOUS
      <4>2. walk' = [walk EXCEPT !.got = got, !.marker = marker]
        BY <1>4, <3>1, <3>6, <4>1
      <4>3. marker \in ids
        BY <2>1, <2>4, <3>2, <3>6, <4>1
      <4>4. QED
        BY <1>1, <3>1, <3>2, <3>3, <3>4, <4>2, <4>3 DEF Walks, NoWalk
    <3>7. QED
      BY <3>5, <3>6
  <2>6. ASSUME NEW i \in DOMAIN walk'.got, walk'.got[i].alarm_id \notin touched
        PROVE  walk'.got[i] \in InitialAlarms
    <3>1. CASE i <= Len(walk.got)
      BY <1>1, <2>3, <2>5, <2>6, <3>1 DEF WalkInv
    <3>2. CASE ~ (i <= Len(walk.got))
      <4>1. i - Len(walk.got) \in 1..Len(page) /\ walk'.got[i] = page[i - Len(walk.got)]
        BY <2>1, <2>3, <2>5, <2>6, <3>2
      <4>2. QED
        BY <2>1, <2>6, <4>1 DEF TableInv
    <3>3. QED
      BY <3>1, <3>2
  <2>7. QED
    BY <1>1, <2>5, <2>6 DEF WalkInv
<1>5. QED
  BY <1>2, <1>3, <1>4, NextPageGives

LEMMA WriteInv ==
    ASSUME TableInv, WalkInv,
           \/ \E row \in Newcomers : Insert(row)
           \/ \E row \in alarms : Delete(row) \/ Update(row)
    PROVE  TableInv' /\ WalkInv'
<1>1. PICK a : Writes(a)
  BY DEF Insert, Delete, Update
<1>2. walk.status = "paging" /\ touched' = touched \cup {a} /\ UNCHANGED <<answer, walk>>
  BY <1>1 DEF Writes
<1>3. walk # NoWalk /\ walk' # NoWalk
  BY <1>2, WalkIsRecord
<1>4. WalkInv'
  BY <1>2, <1>3 DEF WalkInv, NoWalk
<1>5. ASSUME NEW row \in Newcomers, Insert(row) PROVE TableInv'
  <2>1. /\ alarms' = alarms \cup {row} /\ touched' = touched \cup {row.alarm_id}
        /\ \A other \in alarms : other.alarm_id # row.alarm_id
    BY <1>5 DEF Insert, Writes
  <2>2. row \in StoredRows
    BY BaseIsStored DEF Base
  <2>3. IsFiniteSet(alarms')
    BY <2>1, FS_AddElement DEF TableInv
  <2>4. QED
    BY <2>1, <2>2, <2>3 DEF TableInv
<1>6. ASSUME NEW row \in alarms, Delete(row) PROVE TableInv'
  <2>1. alarms' = alarms \ {row} /\ touched' = touched \cup {row.alarm_id}
    BY <1>6 DEF Delete, Writes
  <2>2. IsFiniteSet(alarms')
    BY <2>1, FS_RemoveElement DEF TableInv
  <2>3. QED
    BY <2>1, <2>2 DEF TableInv
<1>7. ASSUME NEW row \in alarms, Update(row) PROVE TableInv'
  <2>1. PICK state \in {"ok", "alarm"} :
            alarms' = (alarms \ {row}) \cup {[row EXCEPT !.state = state]}
    BY <1>7 DEF Update
  <2>2. PICK new : new = [row EXCEPT !.state = state]
    OBVIOUS
  <2>3. /\ alarms' = (alarms \ {row}) \cup {new} /\ touched' = touched \cup {row.alarm_id}
        /\ new \in StoredRows /\ new.alarm_id = row.alarm_id
    BY <1>7, <2>1, <2>2, UpdatedIsStored DEF Update, Writes, TableInv
  <2>4. IsFiniteSet(alarms')
    BY <2>3, FS_AddElement, FS_RemoveElement DEF TableInv
  <2>5. \A x \in alarms' : x = new \/ (x \in alarms /\ x.alarm_id # row.alarm_id)
    BY <2>3 DEF TableInv
  <2>6. QED
    BY <2>3, <2>4, <2>5 DEF TableInv
<1>8. QED
  BY <1>4, <1>5, <1>6, <1>7

LEMMA InvStep == TableInv /\ WalkInv /\ [Next]_vars => TableInv' /\ WalkInv'
<1> SUFFICES ASSUME TableInv, WalkInv, [Next]_vars PROVE TableInv' /\ WalkInv'
  OBVIOUS
<1>1. CASE UNCHANGED vars
  BY <1>1 DEF vars, TableInv, WalkInv, Walks, NoWalk
<1>2. QED
  BY <1>1, AskInv, NextPageInv, WriteInv DEF Next

LEMMA InvAlways == Spec => [](TableInv /\ WalkInv)
BY InvInit, InvStep, PTL DEF Spec

\* The requests that are answered at once, and what a property of an answer has
\* to survive.
LEMMA AnswersStep ==
    ASSUME TableInv, WalkInv, [Next]_vars
    PROVE  \/ answer' = answer /\ (answer = None \/ alarms' = alarms)
           \/ /\ alarms' = alarms
              /\ \E caller \in Callers :
                     \/ \E table \in {"alarm", "alarm_history"}, query \in ComplexQueries :
                            AskComplex(caller, table, query)
                     \/ \E row \in InitialAlarms, q \in ItemLists :
                            AskHistory(caller, row.alarm_id, q)
<1>1. CASE UNCHANGED vars
  BY <1>1 DEF vars
<1>2. ASSUME NEW caller \in Callers, Ask(caller)
      PROVE  \/ answer' = answer /\ alarms' = alarms
             \/ alarms' = alarms /\ \E table \in {"alarm", "alarm_history"},
                                         query \in ComplexQueries :
                                        AskComplex(caller, table, query)
             \/ alarms' = alarms /\ \E row \in InitialAlarms, q \in ItemLists :
                                        AskHistory(caller, row.alarm_id, q)
  <2>1. CASE \E keys \in SortKeys : StartWalk(caller, keys)
    BY <2>1 DEF StartWalk
  <2>2. ASSUME NEW table \in {"alarm", "alarm_history"}, NEW query \in ComplexQueries,
               AskComplex(caller, table, query)
        PROVE  alarms' = alarms
    BY <2>2 DEF AskComplex
  <2>3. ASSUME NEW a, NEW q, AskHistory(caller, a, q)
        PROVE  alarms' = alarms
    BY <2>3 DEF AskHistory
  <2>4. QED
    BY <1>2, <2>1, <2>2, <2>3, Zenon DEF Ask
<1>3. ASSUME walk.status = "paging", answer' = answer
      PROVE  answer' = answer /\ answer = None
  BY <1>3, WalkIsRecord DEF WalkInv
<1>4. CASE NextPage
  BY <1>3, <1>4 DEF NextPage
<1>5. CASE \/ \E row \in Newcomers : Insert(row)
           \/ \E row \in alarms : Delete(row) \/ Update(row)
  BY <1>3, <1>5 DEF Insert, Delete, Update, Writes
<1>6. QED
  BY <1>1, <1>2, <1>4, <1>5 DEF Next

--------------------------------------------------------------------------------
(* What the rewriting makes of a dict. *)

Tables == {"alarm", "alarm_history"}

\* The dicts of a valid filter whose timestamps convert.
Sound(table, dict) ==
    /\ \/ DOMAIN dict = {"op", "args"}
       \/ DOMAIN dict \in {{"op", "field", "value"}, {"op", "field", "values"}}
    /\ ValidDict(table, dict)
    /\ IsTimestamp(dict) => "value" \in DOMAIN dict /\ dict.value \in DOMAIN IsoTime

LEMMA ColumnsHaveNames ==
    ASSUME NEW table \in Tables, NEW field \in FieldNames(table)
    PROVE  /\ ColumnOf(field) \in Columns(table)
           /\ field \in TimestampFields => ColumnOf(field) = field
<1>1. DOMAIN NameMapping = {"project"} /\ NameMapping["project"] = "project_id"
  BY DEF NameMapping
<1>2. QED
  BY <1>1 DEF ColumnOf, FieldNames, Columns, Tables, TimestampFields

LEMMA ComplexRewritten ==
    ASSUME NEW table, NEW dict, Sound(table, dict), IsComplex(dict)
    PROVE  /\ dict.op \in {"and", "AND", "or", "OR", "not", "NOT"}
           /\ RewriteDict(dict).op = Lower(dict.op)
           /\ RewriteDict(dict).args = dict.args
           /\ Lower(dict.op) = "not" => Len(dict.args) = 1
<1>1. DOMAIN dict = {"op", "args"}
  BY DEF Sound, IsComplex
<1>2. RewriteDict(dict) = [dict EXCEPT !.op = Lower(@)]
  BY DEF RewriteDict, IsTimestamp
<1>3. \/ Lower(dict.op) \in {"and", "or"}
      \/ Lower(dict.op) = "not" /\ Len(dict.args) = 1
  BY DEF Sound, ValidDict
<1>4. dict.op \in {"and", "AND", "or", "OR", "not", "NOT"}
  BY <1>3 DEF Lower
<1>5. Lower(dict.op) = "not" => Len(dict.args) = 1
  BY <1>3
<1>6. QED
  BY <1>1, <1>2, <1>4, <1>5

LEMMA SimpleRewritten ==
    ASSUME NEW table \in Tables, NEW dict, Sound(table, dict), ~ IsComplex(dict)
    PROVE  /\ RewriteDict(dict).field = ColumnOf(dict.field)
           /\ RewriteDict(dict).field \in Columns(table)
           /\ \/ /\ dict.op \in {"in", "IN"} /\ RewriteDict(dict).op = "in"
                 /\ RewriteDict(dict).values = dict.values
              \/ /\ dict.op \in SimpleOps /\ RewriteDict(dict).op = dict.op
                 /\ RewriteDict(dict).value = Operand(dict)
<1>1. \/ DOMAIN dict = {"op", "field", "value"}
      \/ DOMAIN dict = {"op", "field", "values"} /\ ~ IsTimestamp(dict)
  BY DEF Sound, IsComplex
<1>2. /\ dict.field \in FieldNames(table)
      /\ \/ dict.op \in SimpleOps /\ "value" \in DOMAIN dict
         \/ Lower(dict.op) = "in" /\ "values" \in DOMAIN dict
  BY DEF Sound, ValidDict
<1>3. ColumnOf(dict.field) \in Columns(table)
      /\ (dict.field \in TimestampFields => ColumnOf(dict.field) = dict.field)
  BY <1>2, ColumnsHaveNames
<1>4. dict.op \in SimpleOps => Lower(dict.op) = dict.op
  BY DEF SimpleOps, OrderOps, Lower
<1>5. Lower(dict.op) = "in" => dict.op \in {"in", "IN"}
  BY DEF Lower
<1>6. CASE IsTimestamp(dict)
  <2>1. RewriteDict(dict) = [dict EXCEPT !.value = IsoTime[@]]
    BY <1>6 DEF RewriteDict
  <2>2. dict.field \in TimestampFields /\ dict.op \in SimpleOps
    BY <1>1, <1>2, <1>6 DEF IsTimestamp
  <2>3. QED
    BY <1>1, <1>3, <1>6, <2>1, <2>2 DEF Operand
<1>7. CASE ~ IsTimestamp(dict)
  <2>1. RewriteDict(dict) = [dict EXCEPT !.op = Lower(@), !.field = ColumnOf(@)]
    BY <1>7 DEF RewriteDict
  <2>2. dict.field \notin TimestampFields
    BY <1>7 DEF IsTimestamp
  <2>3. /\ RewriteDict(dict).op = Lower(dict.op)
        /\ RewriteDict(dict).field = ColumnOf(dict.field)
        /\ "value" \in DOMAIN dict => RewriteDict(dict).value = dict.value
        /\ "values" \in DOMAIN dict => RewriteDict(dict).values = dict.values
    BY <1>1, <2>1
  <2>4. QED
    BY <1>2, <1>3, <1>4, <1>5, <2>2, <2>3 DEF Operand
<1>8. QED
  BY <1>6, <1>7

--------------------------------------------------------------------------------
(* The truth of an expression, dict by dict. *)

Truths == {"true", "false", "null"}

LEMMA TruthValues ==
    /\ \A v \in Truths : Negation(v) \in Truths
    /\ \A vs : Conjunction(vs) \in Truths /\ Disjunction(vs) \in Truths
    /\ \A op, column, operand : Test(op, column, operand) \in Truths
<1>1. \A v \in Truths : Negation(v) \in Truths
  BY DEF Truths, Negation
<1>2. \A vs : Conjunction(vs) \in Truths
  BY DEF Truths, Conjunction
<1>3. \A vs : Disjunction(vs) \in Truths
  BY <1>1, <1>2 DEF Disjunction
<1>4. \A b : Truth(b) \in Truths
  BY DEF Truths, Truth
<1>5. \A op, column, operand : Test(op, column, operand) \in Truths
  <2>1. SUFFICES ASSUME NEW op, NEW column, NEW operand
                 PROVE  Test(op, column, operand) \in Truths
    OBVIOUS
  <2>2. "null" \in Truths
    BY DEF Truths
  <2>3. CASE column = NULL
    BY <2>2, <2>3 DEF Test
  <2>4. CASE column # NULL /\ op = "in"
    BY <1>4, <2>4 DEF Test
  <2>5. CASE column # NULL /\ op # "in"
    BY <1>4, <2>5 DEF Test
  <2>6. QED
    BY <2>3, <2>4, <2>5
<1>6. QED
  BY <1>1, <1>2, <1>3, <1>5

\* The places before each place of a sequence.
Before(length) == [n \in 1..length |-> 1..(n - 1)]

LEMMA PlacesWellFounded ==
    ASSUME NEW length \in Nat
    PROVE  /\ WellFounded(1..length, Before(length))
           /\ \A n \in 1..length : /\ Before(length)[n] = 1..(n - 1)
                                   /\ Before(length)[n] \subseteq 1..length
<1>1. \A n \in 1..length : Before(length)[n] = 1..(n - 1) /\ Before(length)[n] \subseteq 1..length
  BY DEF Before
<1>2. ASSUME NEW T \in SUBSET (1..length), T # {}
      PROVE  \E n \in T : Before(length)[n] \cap T = {}
  <2>1. T \subseteq Nat
    OBVIOUS
  <2>2. PICK n \in T : \A m \in T : n <= m
    BY <1>2, <2>1, SomeLeast
  <2>3. n \in 1..length
    OBVIOUS
  <2>4. QED
    BY <1>1, <2>2, <2>3
<1>3. QED
  BY <1>1, <1>2 DEF WellFounded

\* Two functions that agree at a place when they agree before it agree everywhere.
FollowAlike(f, g, length) ==
    \A n \in 1..length : (\A k \in 1..(n - 1) : f[k] = g[k]) => f[n] = g[n]

LEMMA AgreeEverywhere ==
    ASSUME NEW length \in Nat, NEW f, NEW g, FollowAlike(f, g, length)
    PROVE  \A n \in 1..length : f[n] = g[n]
<1>1. PICK T : T = {n \in 1..length : f[n] # g[n]}
  OBVIOUS
<1>2. SUFFICES ASSUME T # {} PROVE FALSE
  BY <1>1
<1>3. PICK n \in T : Before(length)[n] \cap T = {}
  <2>1. T \in SUBSET (1..length)
    BY <1>1
  <2>2. QED
    BY <1>2, <2>1, PlacesWellFounded DEF WellFounded
<1>4. n \in 1..length /\ f[n] # g[n] /\ \A k \in 1..(n - 1) : k \notin T /\ k \in 1..length
  BY <1>1, <1>3, PlacesWellFounded
<1>5. \A k \in 1..(n - 1) : f[k] = g[k]
  BY <1>1, <1>4
<1>6. QED
  BY <1>4, <1>5 DEF FollowAlike

\* Expressions that QueryTransformer can go through.
Usable(expr) ==
    /\ expr \in Seq(ToSet(expr))
    /\ \A n \in DOMAIN expr :
           \/ /\ expr[n].op \in {"and", "or"} /\ expr[n].args \in Seq(1..(n - 1))
           \/ /\ expr[n].op = "not" /\ expr[n].args \in Seq(1..(n - 1))
              /\ Len(expr[n].args) = 1
           \/ expr[n].op \notin {"and", "or", "not"}

Parts(h, args) == {h[args[i]] : i \in DOMAIN args}

\* The value at a place, of the values before it.
HoldsAt(expr, row, h, n) ==
    CASE expr[n].op = "and" -> Conjunction(Parts(h, expr[n].args))
      [] expr[n].op = "or" -> Disjunction(Parts(h, expr[n].args))
      [] expr[n].op = "not" -> Negation(h[expr[n].args[1]])
      [] expr[n].op = "in" -> Test("in", row[expr[n].field], expr[n].values)
      [] OTHER -> Test(expr[n].op, row[expr[n].field], expr[n].value)

LEMMA HoldsAtCases ==
    ASSUME NEW expr, NEW row, NEW h, NEW n
    PROVE  /\ expr[n].op = "and" =>
                  HoldsAt(expr, row, h, n) = Conjunction(Parts(h, expr[n].args))
           /\ expr[n].op = "or" =>
                  HoldsAt(expr, row, h, n) = Disjunction(Parts(h, expr[n].args))
           /\ expr[n].op = "not" => HoldsAt(expr, row, h, n) = Negation(h[expr[n].args[1]])
           /\ expr[n].op = "in" =>
                  HoldsAt(expr, row, h, n) = Test("in", row[expr[n].field], expr[n].values)
           /\ expr[n].op \notin {"and", "or", "not", "in"} =>
                  HoldsAt(expr, row, h, n) = Test(expr[n].op, row[expr[n].field], expr[n].value)
BY DEF HoldsAt

LEMMA HoldsAtLocal ==
    ASSUME NEW expr, Usable(expr), NEW row, NEW n \in 1..Len(expr), NEW f, NEW g,
           \A k \in 1..(n - 1) : f[k] = g[k] /\ f[k] \in Truths
    PROVE  /\ HoldsAt(expr, row, f, n) = HoldsAt(expr, row, g, n)
           /\ HoldsAt(expr, row, f, n) \in Truths
<1>1. n \in DOMAIN expr
  BY SeqOfItself DEF Usable
<1>2. ASSUME NEW args \in Seq(1..(n - 1)), NEW i \in DOMAIN args
      PROVE  f[args[i]] = g[args[i]] /\ f[args[i]] \in Truths
  <2>1. args[i] \in 1..(n - 1)
    BY ElementOfSeq, LenProperties
  <2>2. QED
    BY <2>1
<1>3. CASE expr[n].op \in {"and", "or"} /\ expr[n].args \in Seq(1..(n - 1))
  <2>1. Parts(f, expr[n].args) = Parts(g, expr[n].args)
    <3>1. PICK args \in Seq(1..(n - 1)) : args = expr[n].args
      BY <1>3
    <3>2. \A i \in DOMAIN args : f[args[i]] = g[args[i]]
      BY <1>2
    <3>3. QED
      BY <3>1, <3>2 DEF Parts
  <2>2. CASE expr[n].op = "and"
    <3>1. /\ HoldsAt(expr, row, f, n) = Conjunction(Parts(f, expr[n].args))
          /\ HoldsAt(expr, row, g, n) = Conjunction(Parts(g, expr[n].args))
      BY <2>2 DEF HoldsAt
    <3>2. QED
      BY <2>1, <3>1, TruthValues
  <2>3. CASE expr[n].op = "or"
    <3>1. /\ HoldsAt(expr, row, f, n) = Disjunction(Parts(f, expr[n].args))
          /\ HoldsAt(expr, row, g, n) = Disjunction(Parts(g, expr[n].args))
      BY <2>3 DEF HoldsAt
    <3>2. QED
      BY <2>1, <3>1, TruthValues
  <2>4. QED
    BY <1>3, <2>2, <2>3
<1>4. CASE /\ expr[n].op = "not" /\ expr[n].args \in Seq(1..(n - 1))
           /\ Len(expr[n].args) = 1
  <2>1. 1 \in DOMAIN expr[n].args
    BY <1>4, LenProperties
  <2>2. f[expr[n].args[1]] = g[expr[n].args[1]] /\ f[expr[n].args[1]] \in Truths
    BY <1>2, <1>4, <2>1
  <2>3. /\ HoldsAt(expr, row, f, n) = Negation(f[expr[n].args[1]])
        /\ HoldsAt(expr, row, g, n) = Negation(g[expr[n].args[1]])
    BY <1>4, HoldsAtCases
  <2>4. QED
    BY <2>2, <2>3, TruthValues
<1>5. CASE expr[n].op \notin {"and", "or", "not"}
  <2>1. \/ /\ HoldsAt(expr, row, f, n) = Test("in", row[expr[n].field], expr[n].values)
           /\ HoldsAt(expr, row, g, n) = Test("in", row[expr[n].field], expr[n].values)
        \/ /\ HoldsAt(expr, row, f, n) = Test(expr[n].op, row[expr[n].field], expr[n].value)
           /\ HoldsAt(expr, row, g, n) = Test(expr[n].op, row[expr[n].field], expr[n].value)
    BY <1>5, HoldsAtCases
  <2>2. QED
    BY <2>1, TruthValues
<1>6. QED
  BY <1>1, <1>3, <1>4, <1>5 DEF Usable

LEMMA HoldsUnfold ==
    ASSUME NEW expr, Usable(expr), NEW row
    PROVE  \E h \in [1..Len(expr) -> Truths] :
               /\ Holds(expr, row) = h[Len(expr)]
               /\ \A n \in 1..Len(expr) : h[n] = HoldsAt(expr, row, h, n)
<1>1. Len(expr) \in Nat /\ DOMAIN expr = 1..Len(expr)
  BY SeqOfItself DEF Usable
<1>2. PICK S : S = 1..Len(expr)
  OBVIOUS
<1> DEFINE Body == [n \in S |-> [f \in [S -> Truths] |-> HoldsAt(expr, row, f, n)]]
           Solves(f) == f = [n \in S |-> HoldsAt(expr, row, f, n)]
<1>3. PICK V, B, Below : V = Truths /\ B = Body /\ Below = Before(Len(expr))
  OBVIOUS
<1>4. \A n \in S, f \in [S -> V] : B[n][f] = HoldsAt(expr, row, f, n)
  BY <1>3
<1> HIDE DEF Body
<1>5. /\ WellFounded(S, Below)
      /\ \A n \in S : Below[n] = 1..(n - 1) /\ Below[n] \subseteq S
  BY <1>1, <1>2, <1>3, PlacesWellFounded
<1>6. ASSUME NEW n \in S, NEW f \in [S -> V], NEW g \in [S -> V],
             \A k \in Below[n] : f[k] = g[k]
      PROVE  B[n][f] \in V /\ B[n][f] = B[n][g]
  <2>1. \A k \in 1..(n - 1) : f[k] = g[k] /\ f[k] \in Truths
    BY <1>3, <1>5, <1>6
  <2>2. HoldsAt(expr, row, f, n) = HoldsAt(expr, row, g, n) /\ HoldsAt(expr, row, f, n) \in Truths
    BY <1>2, <2>1, HoldsAtLocal
  <2>3. QED
    BY <1>3, <1>4, <2>2
<1>7. Local(S, V, Below, B)
  BY <1>6 DEF Local
<1>8. V # {}
  BY <1>3 DEF Truths
<1>9. PICK f \in [S -> V] : \A n \in S : f[n] = B[n][f]
  BY <1>5, <1>6, <1>7, <1>8, RecursiveFunctionExists
<1>10. \A n \in S : f[n] = HoldsAt(expr, row, f, n)
  BY <1>4, <1>9
<1>11. PICK h : h = CHOOSE g : Solves(g)
  OBVIOUS
<1>12. Holds(expr, row) = h[Len(expr)]
  BY <1>1, <1>2, <1>11, Zenon DEF Holds, HoldsAt, Parts
<1>13. Solves(f)
  BY <1>10
<1> HIDE DEF Solves
<1>14. Solves(h)
  BY <1>11, <1>13
<1>15. h = [n \in S |-> HoldsAt(expr, row, h, n)]
  BY <1>14 DEF Solves
<1>16. ASSUME NEW n \in 1..Len(expr), \A k \in 1..(n - 1) : f[k] = h[k]
       PROVE  f[n] = h[n]
  <2>1. \A k \in 1..(n - 1) : f[k] = h[k] /\ f[k] \in Truths
    BY <1>1, <1>2, <1>3, <1>16
  <2>2. HoldsAt(expr, row, f, n) = HoldsAt(expr, row, h, n)
    BY <2>1, HoldsAtLocal
  <2>3. QED
    BY <1>2, <1>10, <1>15, <2>2
<1>17. \A n \in 1..Len(expr) : f[n] = h[n]
  <2>1. FollowAlike(f, h, Len(expr))
    BY <1>16 DEF FollowAlike
  <2>2. QED
    BY <1>1, <2>1, AgreeEverywhere
<1>18. f = h
  BY <1>2, <1>15, <1>17
<1>19. QED
  BY <1>2, <1>3, <1>10, <1>12, <1>18

--------------------------------------------------------------------------------
(* The rewriting keeps what an expression means. *)

MeantAt(expr, row, m, n) ==
    CASE IsComplex(expr[n]) /\ expr[n].op \in {"and", "AND"} -> Conjunction(Parts(m, expr[n].args))
      [] IsComplex(expr[n]) /\ expr[n].op \in {"or", "OR"} -> Disjunction(Parts(m, expr[n].args))
      [] IsComplex(expr[n]) /\ expr[n].op \in {"not", "NOT"} -> Negation(m[expr[n].args[1]])
      [] ~IsComplex(expr[n]) /\ expr[n].op \in {"in", "IN"} ->
             Test("in", row[ColumnOf(expr[n].field)], expr[n].values)
      [] OTHER -> Test(expr[n].op, row[ColumnOf(expr[n].field)], Operand(expr[n]))

SoundFilter(table, expr) == WellFormed(expr) /\ \A n \in DOMAIN expr : Sound(table, expr[n])

LEMMA ValidIsSound ==
    ASSUME NEW table, NEW expr, WellFormed(expr), ValidFilter(table, expr), Converts(expr)
    PROVE  SoundFilter(table, expr)
BY DEF SoundFilter, Sound, WellFormed, ValidFilter, Converts

LEMMA RewrittenPlaces ==
    ASSUME NEW table \in Tables, NEW expr, SoundFilter(table, expr)
    PROVE  /\ Len(expr) \in Nat /\ DOMAIN expr = 1..Len(expr)
           /\ DOMAIN Rewrite(expr) = 1..Len(expr)
           /\ Len(Rewrite(expr)) = Len(expr)
           /\ Rewrite(expr) \in Seq(ToSet(Rewrite(expr)))
           /\ \A n \in 1..Len(expr) : Rewrite(expr)[n] = RewriteDict(expr[n])
<1>1. Len(expr) \in Nat /\ DOMAIN expr = 1..Len(expr)
  BY SeqOfItself DEF SoundFilter, WellFormed
<1>2. PICK new, len : new = Rewrite(expr) /\ len = Len(expr)
  OBVIOUS
<1>3. new = [n \in 1..len |-> RewriteDict(expr[n])]
  BY <1>1, <1>2 DEF Rewrite
<1>4. PICK S : S = ToSet(new)
  OBVIOUS
<1>5. \A n \in 1..len : new[n] \in S
  BY <1>3, <1>4 DEF ToSet
<1>6. new \in [1..len -> S]
  BY <1>3, <1>5
<1>7. new \in Seq(S) /\ Len(new) = len
  BY <1>1, <1>2, <1>6
<1>8. QED
  BY <1>1, <1>2, <1>3, <1>4, <1>7

\* Dict by dict: an operator in lower case, a column and a datetime mean what
\* the client wrote.
LEMMA RewrittenAlike ==
    ASSUME NEW table \in Tables, NEW expr, SoundFilter(table, expr), NEW row, NEW h,
           NEW n \in 1..Len(expr)
    PROVE  HoldsAt(Rewrite(expr), row, h, n) = MeantAt(expr, row, h, n)
<1>1. PICK new, dict : new = Rewrite(expr)[n] /\ dict = expr[n]
  OBVIOUS
<1>2. new = RewriteDict(dict) /\ Sound(table, dict)
  BY <1>1, RewrittenPlaces DEF SoundFilter
<1>3. HoldsAt(Rewrite(expr), row, h, n) =
          CASE new.op = "and" -> Conjunction(Parts(h, new.args))
            [] new.op = "or" -> Disjunction(Parts(h, new.args))
            [] new.op = "not" -> Negation(h[new.args[1]])
            [] new.op = "in" -> Test("in", row[new.field], new.values)
            [] OTHER -> Test(new.op, row[new.field], new.value)
  BY <1>1, Zenon DEF HoldsAt
<1>4. MeantAt(expr, row, h, n) =
          CASE IsComplex(dict) /\ dict.op \in {"and", "AND"} -> Conjunction(Parts(h, dict.args))
            [] IsComplex(dict) /\ dict.op \in {"or", "OR"} -> Disjunction(Parts(h, dict.args))
            [] IsComplex(dict) /\ dict.op \in {"not", "NOT"} -> Negation(h[dict.args[1]])
            [] ~IsComplex(dict) /\ dict.op \in {"in", "IN"} ->
                   Test("in", row[ColumnOf(dict.field)], dict.values)
            [] OTHER -> Test(dict.op, row[ColumnOf(dict.field)], Operand(dict))
  BY <1>1, Zenon DEF MeantAt
<1>5. CASE IsComplex(dict)
  <2>1. /\ dict.op \in {"and", "AND", "or", "OR", "not", "NOT"}
        /\ new.op = Lower(dict.op) /\ new.args = dict.args
    BY <1>2, <1>5, ComplexRewritten
  <2>2. CASE dict.op \in {"and", "AND"}
    <3>1. new.op = "and"
      BY <2>1, <2>2 DEF Lower
    <3>2. QED
      BY <1>3, <1>4, <1>5, <2>1, <2>2, <3>1
  <2>3. CASE dict.op \in {"or", "OR"}
    <3>1. new.op = "or"
      BY <2>1, <2>3 DEF Lower
    <3>2. QED
      BY <1>3, <1>4, <1>5, <2>1, <2>3, <3>1
  <2>4. CASE dict.op \in {"not", "NOT"}
    <3>1. new.op = "not"
      BY <2>1, <2>4 DEF Lower
    <3>2. QED
      BY <1>3, <1>4, <1>5, <2>1, <2>4, <3>1
  <2>5. QED
    BY <2>1, <2>2, <2>3, <2>4
<1>6. CASE ~ IsComplex(dict)
  <2>1. new.field = ColumnOf(dict.field)
    BY <1>2, <1>6, SimpleRewritten
  <2>2. CASE /\ dict.op \in {"in", "IN"} /\ new.op = "in" /\ new.values = dict.values
    BY <1>3, <1>4, <1>6, <2>1, <2>2
  <2>3. CASE /\ dict.op \in SimpleOps /\ new.op = dict.op /\ new.value = Operand(dict)
    <3>1. dict.op \notin {"in", "IN", "and", "or", "not"}
      BY <2>3 DEF SimpleOps, OrderOps
    <3>2. QED
      BY <1>3, <1>4, <1>6, <2>1, <2>3, <3>1
  <2>4. QED
    BY <1>2, <1>6, <2>2, <2>3, SimpleRewritten
<1>7. QED
  BY <1>5, <1>6

LEMMA RewrittenUsable ==
    ASSUME NEW table \in Tables, NEW expr, SoundFilter(table, expr)
    PROVE  Usable(Rewrite(expr))
<1>1. SUFFICES ASSUME NEW n \in 1..Len(expr)
               PROVE  LET new == RewriteDict(expr[n])
                      IN  \/ new.op \in {"and", "or"} /\ new.args \in Seq(1..(n - 1))
                          \/ /\ new.op = "not" /\ new.args \in Seq(1..(n - 1))
                             /\ Len(new.args) = 1
                          \/ new.op \notin {"and", "or", "not"}
  BY RewrittenPlaces DEF Usable
<1>2. PICK new, dict : new = RewriteDict(dict) /\ dict = expr[n]
  OBVIOUS
<1>3. n \in DOMAIN expr /\ Sound(table, dict)
  BY <1>2, RewrittenPlaces DEF SoundFilter
<1>4. CASE IsComplex(dict)
  <2>1. dict.args \in Seq(1..(n - 1))
    BY <1>2, <1>3, <1>4 DEF SoundFilter, WellFormed, IsComplex
  <2>2. /\ dict.op \in {"and", "AND", "or", "OR", "not", "NOT"}
        /\ new.op = Lower(dict.op) /\ new.args = dict.args
        /\ Lower(dict.op) = "not" => Len(dict.args) = 1
    BY <1>2, <1>3, <1>4, ComplexRewritten
  <2>3. Lower(dict.op) \in {"and", "or", "not"}
    BY <2>2 DEF Lower
  <2>4. QED
    BY <1>2, <2>1, <2>2, <2>3
<1>5. CASE ~ IsComplex(dict)
  <2>1. new.op \in SimpleOps \cup {"in"}
    BY <1>2, <1>3, <1>5, SimpleRewritten
  <2>2. QED
    BY <1>2, <2>1 DEF SimpleOps, OrderOps
<1>6. QED
  BY <1>4, <1>5

LEMMA RewritingKeepsMeaning ==
    ASSUME NEW table \in Tables, NEW expr, SoundFilter(table, expr), expr # <<>>, NEW row
    PROVE  Holds(Rewrite(expr), row) = Meant(expr, row)
<1>1. /\ Len(expr) \in Nat /\ DOMAIN expr = 1..Len(expr)
      /\ Len(Rewrite(expr)) = Len(expr) /\ Len(expr) \in 1..Len(expr)
  BY RewrittenPlaces, SeqOfItself DEF SoundFilter, WellFormed
<1>2. PICK S, new : S = 1..Len(expr) /\ new = Rewrite(expr)
  OBVIOUS
<1>3. Usable(new)
  BY <1>2, RewrittenUsable
<1>4. PICK h \in [S -> Truths] : /\ Holds(new, row) = h[Len(expr)]
                                 /\ \A n \in S : h[n] = HoldsAt(new, row, h, n)
  BY <1>1, <1>2, <1>3, HoldsUnfold
<1>5. \A g : \A n \in S : HoldsAt(new, row, g, n) = MeantAt(expr, row, g, n)
  BY <1>2, RewrittenAlike
<1> DEFINE Solves(f) == f = [n \in S |-> MeantAt(expr, row, f, n)]
<1>6. PICK m : m = CHOOSE g : Solves(g)
  OBVIOUS
<1>7. Meant(expr, row) = m[Len(expr)]
  BY <1>1, <1>2, <1>6, Zenon DEF Meant, MeantAt, Parts
<1>8. Solves(h)
  BY <1>4, <1>5
<1> HIDE DEF Solves
<1>9. Solves(m)
  BY <1>6, <1>8
<1>10. \A n \in S : m[n] = HoldsAt(new, row, m, n)
  <2>1. m = [n \in S |-> MeantAt(expr, row, m, n)]
    BY <1>9 DEF Solves
  <2>2. \A n \in S : m[n] = MeantAt(expr, row, m, n)
    BY <2>1
  <2>3. QED
    BY <1>5, <2>2
<1>11. ASSUME NEW n \in S, \A k \in 1..(n - 1) : h[k] = m[k]
       PROVE  h[n] = m[n]
  <2>1. \A k \in 1..(n - 1) : h[k] = m[k] /\ h[k] \in Truths
    BY <1>1, <1>2, <1>4, <1>11
  <2>2. n \in 1..Len(new)
    BY <1>1, <1>2
  <2>3. HoldsAt(new, row, h, n) = HoldsAt(new, row, m, n)
    BY <1>3, <2>1, <2>2, HoldsAtLocal
  <2>4. QED
    BY <1>4, <1>10, <2>3
<1>12. FollowAlike(h, m, Len(expr))
  BY <1>2, <1>11 DEF FollowAlike
<1>13. h[Len(expr)] = m[Len(expr)]
  BY <1>1, <1>12, AgreeEverywhere
<1>14. QED
  BY <1>2, <1>4, <1>7, <1>13

\* The restriction to a project is one more condition.
Restriction(project, field) == [op |-> "=", field |-> field, value |-> project]

\* The conjunction of an expression, or of nothing, with the restriction.
Conjoined(expr, project, field, new) ==
    /\ new \in Seq(ToSet(new)) /\ Len(new) # 0
    /\ expr = <<>> => Len(new) = 1 /\ new[1] = Restriction(project, field)
    /\ expr # <<>> =>
           /\ Len(expr) \in Nat \ {0} /\ Len(new) = Len(expr) + 2
           /\ \A n \in 1..Len(expr) : new[n] = expr[n]
           /\ new[Len(expr) + 1] = Restriction(project, field)
           /\ new[Len(expr) + 2] = [op |-> "and", args |-> <<Len(expr) + 1, Len(expr)>>]

LEMMA RestrictedPlaces ==
    ASSUME NEW expr, Usable(expr), NEW project, NEW field
    PROVE  Conjoined(expr, project, field, RestrictToProject(expr, project, field))
<1> SUFFICES ASSUME NEW new, new = RestrictToProject(expr, project, field)
             PROVE  Conjoined(expr, project, field, new)
  OBVIOUS
<1>1. PICK r, a : r = Restriction(project, field)
                  /\ a = [op |-> "and", args |-> <<Len(expr) + 1, Len(expr)>>]
  OBVIOUS
<1>2. CASE expr = <<>>
  <2>1. new = <<r>>
    BY <1>1, <1>2 DEF RestrictToProject, Restriction
  <2>2. ToSet(new) = {r}
    BY <2>1 DEF ToSet
  <2>3. QED
    BY <1>1, <1>2, <2>1, <2>2 DEF Conjoined
<1>3. CASE expr # <<>>
  <2>1. new = expr \o <<r, a>>
    BY <1>1, <1>3 DEF RestrictToProject, Restriction
  <2>2. PICK S : S = ToSet(expr) \cup {r, a}
    OBVIOUS
  <2>3. expr \in Seq(S) /\ <<r, a>> \in Seq(S)
    BY <2>2, SeqMonotonic DEF Usable
  <2>4. Len(expr) \in Nat \ {0} /\ DOMAIN expr = 1..Len(expr)
    BY <1>3, SeqOfItself DEF Usable
  <2>5. /\ new \in Seq(S) /\ Len(new) = Len(expr) + 2
        /\ \A n \in 1..(Len(expr) + 2) :
               new[n] = IF n <= Len(expr) THEN expr[n] ELSE <<r, a>>[n - Len(expr)]
    BY <2>1, <2>3, ConcatProperties
  <2>6. /\ \A n \in 1..Len(expr) : new[n] = expr[n]
        /\ new[Len(expr) + 1] = r /\ new[Len(expr) + 2] = a
    BY <2>4, <2>5
  <2>7. new \in Seq(ToSet(new))
    <3>1. DOMAIN new = 1..(Len(expr) + 2)
      BY <2>5, LenProperties
    <3>2. new \in [1..(Len(expr) + 2) -> ToSet(new)]
      BY <2>5, <3>1, LenProperties DEF ToSet
    <3>3. QED
      BY <2>4, <3>1, <3>2
  <2>8. QED
    BY <1>1, <1>3, <2>4, <2>5, <2>6, <2>7 DEF Conjoined
<1>4. QED
  BY <1>2, <1>3

LEMMA RestrictedUsable ==
    ASSUME NEW expr, Usable(expr), NEW project, NEW field
    PROVE  /\ Usable(RestrictToProject(expr, project, field))
           /\ RestrictToProject(expr, project, field) # <<>>
<1>1. PICK new, r : new = RestrictToProject(expr, project, field) /\ r = Restriction(project, field)
  OBVIOUS
<1>2. Conjoined(expr, project, field, new)
  BY <1>1, RestrictedPlaces
<1>3. new \in Seq(ToSet(new)) /\ Len(new) # 0
  BY <1>2 DEF Conjoined
<1>4. r.op = "="
  BY <1>1 DEF Restriction
<1>5. ASSUME NEW n \in DOMAIN new
      PROVE  \/ new[n].op \in {"and", "or"} /\ new[n].args \in Seq(1..(n - 1))
             \/ /\ new[n].op = "not" /\ new[n].args \in Seq(1..(n - 1))
                /\ Len(new[n].args) = 1
             \/ new[n].op \notin {"and", "or", "not"}
  <2>1. DOMAIN new = 1..Len(new)
    BY <1>3, SeqOfItself
  <2>2. CASE expr = <<>>
    <3>1. Len(new) = 1 /\ new[1] = r
      BY <1>2, <1>1, <2>2 DEF Conjoined
    <3>2. QED
      BY <1>4, <1>5, <2>1, <3>1
  <2>3. CASE expr # <<>>
    <3>1. /\ Len(expr) \in Nat \ {0} /\ Len(new) = Len(expr) + 2
          /\ \A m \in 1..Len(expr) : new[m] = expr[m]
          /\ new[Len(expr) + 1] = r
          /\ new[Len(expr) + 2] = [op |-> "and", args |-> <<Len(expr) + 1, Len(expr)>>]
      BY <1>2, <1>1, <2>3 DEF Conjoined
    <3>2. DOMAIN expr = 1..Len(expr)
      BY SeqOfItself DEF Usable
    <3>3. CASE n \in 1..Len(expr)
      BY <3>1, <3>2, <3>3 DEF Usable
    <3>4. CASE n = Len(expr) + 1
      BY <1>4, <3>1, <3>4
    <3>5. CASE n = Len(expr) + 2
      <4>1. new[n].op = "and" /\ new[n].args = <<Len(expr) + 1, Len(expr)>>
        BY <3>1, <3>5
      <4>2. Len(expr) + 1 \in 1..(n - 1) /\ Len(expr) \in 1..(n - 1)
        BY <3>1, <3>5
      <4>3. new[n].args \in Seq(1..(n - 1))
        BY <4>1, <4>2
      <4>4. QED
        BY <4>1, <4>3
    <3>6. QED
      BY <1>5, <2>1, <3>1, <3>3, <3>4, <3>5
  <2>4. QED
    BY <2>2, <2>3
<1>6. Usable(new)
  BY <1>3, <1>5 DEF Usable
<1>7. new # <<>>
  BY <1>3
<1>8. QED
  BY <1>1, <1>6, <1>7

LEMMA RestrictionHolds ==
    ASSUME NEW project, project # NULL, NEW field, NEW row, NEW v,
           v = Test("=", row[field], project)
    PROVE  v = "true" <=> row[field] = project
BY DEF Test, Compare, Truth

LEMMA BothHold ==
    ASSUME NEW v \in Truths, NEW w \in Truths
    PROVE  Conjunction({v, w}) = "true" <=> v = "true" /\ w = "true"
BY DEF Truths, Conjunction

LEMMA RestrictedHolds ==
    ASSUME NEW expr, Usable(expr), NEW project, project # NULL, NEW field, NEW row
    PROVE  Holds(RestrictToProject(expr, project, field), row) = "true" <=>
               /\ expr # <<>> => Holds(expr, row) = "true"
               /\ row[field] = project
<1>1. PICK new, len : new = RestrictToProject(expr, project, field) /\ len = Len(expr)
  OBVIOUS
<1>2. Usable(new)
  BY <1>1, RestrictedUsable, Zenon
<1>3. PICK h \in [1..Len(new) -> Truths] :
          /\ Holds(new, row) = h[Len(new)]
          /\ \A n \in 1..Len(new) : h[n] = HoldsAt(new, row, h, n)
  BY <1>2, HoldsUnfold
<1>4. PICK r : r = Restriction(project, field)
  OBVIOUS
<1>5. r.op = "=" /\ r.field = field /\ r.value = project
  BY <1>4 DEF Restriction
<1>6. ASSUME NEW n \in 1..Len(new), new[n] = r
      PROVE  h[n] = "true" <=> row[field] = project
  <2>1. HoldsAt(new, row, h, n) = Test("=", row[field], project)
    BY <1>5, <1>6, HoldsAtCases
  <2>2. h[n] = Test("=", row[field], project)
    BY <1>3, <2>1
  <2>3. QED
    BY <2>2, RestrictionHolds
<1>7. CASE expr = <<>>
  <2>1. Len(new) = 1 /\ new[1] = r
    BY <1>1, <1>4, <1>7 DEF RestrictToProject, Restriction
  <2>2. QED
    BY <1>1, <1>3, <1>6, <1>7, <2>1
<1>8. CASE expr # <<>>
  <2>1. /\ len \in Nat \ {0} /\ Len(new) = len + 2
        /\ \A n \in 1..len : new[n] = expr[n]
        /\ new[len + 1] = r /\ new[len + 2] = [op |-> "and", args |-> <<len + 1, len>>]
    <3>1. Conjoined(expr, project, field, new)
      BY <1>1, RestrictedPlaces
    <3>2. QED
      BY <1>1, <1>4, <1>8, <3>1 DEF Conjoined
  <2>2. PICK g \in [1..len -> Truths] :
            /\ Holds(expr, row) = g[len]
            /\ \A n \in 1..len : g[n] = HoldsAt(expr, row, g, n)
    BY <1>1, HoldsUnfold
  <2>3. ASSUME NEW n \in 1..len, \A k \in 1..(n - 1) : g[k] = h[k]
        PROVE  g[n] = h[n]
    <3>1. HoldsAt(new, row, h, n) = HoldsAt(expr, row, h, n)
      BY <2>1 DEF HoldsAt
    <3>2. \A k \in 1..(n - 1) : g[k] = h[k] /\ g[k] \in Truths
      <4>1. \A k \in 1..(n - 1) : k \in 1..len
        BY <2>1
      <4>2. QED
        BY <2>2, <2>3, <4>1
    <3>3. HoldsAt(expr, row, g, n) = HoldsAt(expr, row, h, n)
      BY <1>1, <3>2, HoldsAtLocal
    <3>4. n \in 1..Len(new)
      BY <2>1
    <3>5. QED
      BY <1>3, <2>2, <3>1, <3>3, <3>4
  <2>4. g[len] = h[len]
    <3>1. FollowAlike(g, h, len)
      BY <2>3 DEF FollowAlike
    <3>2. QED
      BY <2>1, <3>1, AgreeEverywhere
  <2>5. /\ len \in 1..Len(new) /\ len + 1 \in 1..Len(new) /\ len + 2 \in 1..Len(new)
    BY <2>1
  <2>6. h[len + 2] = Conjunction({h[len + 1], h[len]})
    <3>1. PICK a : a = new[len + 2]
      OBVIOUS
    <3>2. a.op = "and" /\ a.args = <<len + 1, len>>
      BY <2>1, <3>1
    <3>3. Parts(h, a.args) = {h[len + 1], h[len]}
      <4>1. DOMAIN <<len + 1, len>> = {1, 2} /\ <<len + 1, len>>[1] = len + 1
            /\ <<len + 1, len>>[2] = len
        OBVIOUS
      <4>2. Parts(h, <<len + 1, len>>) = {h[<<len + 1, len>>[i]] : i \in {1, 2}}
        BY <4>1 DEF Parts
      <4>3. QED
        BY <3>2, <4>1, <4>2
    <3>4. HoldsAt(new, row, h, len + 2) = Conjunction(Parts(h, a.args))
      BY <3>1, <3>2, HoldsAtCases
    <3>5. QED
      BY <1>3, <2>5, <3>3, <3>4
  <2>7. h[len + 1] = "true" <=> row[field] = project
    BY <1>6, <2>1, <2>5
  <2>8. h[len + 2] = "true" <=> h[len + 1] = "true" /\ h[len] = "true"
    BY <1>3, <2>5, <2>6, BothHold
  <2>9. QED
    BY <1>1, <1>3, <1>8, <2>1, <2>2, <2>4, <2>7, <2>8
<1>9. QED
  BY <1>7, <1>8

--------------------------------------------------------------------------------
(* What passes the validation. *)

\* The filter that the storage is asked for.
StorageFilter(table, expr, project) ==
    IF project = None THEN Rewrite(expr)
    ELSE RestrictToProject(Rewrite(expr), project, VisibilityField(table))

LEMMA ValidatedQuery ==
    ASSUME NEW caller, NEW table \in Tables, NEW query \in ComplexQueries,
           NEW valid, valid = Validate(caller, table, query), valid.status = 200
    PROVE  /\ SoundFilter(table, query.filter)
           /\ valid.filter = StorageFilter(table, query.filter, LimitedToProject(caller))
           /\ valid.limit = query.limit
           /\ valid.orderby = RewriteOrder(query.orderby)
           /\ query.orderby = Unset => valid.orderby = Unset
<1>1. PICK expr : expr = StorageFilter(table, query.filter, LimitedToProject(caller))
  OBVIOUS
<1>2. /\ ValidFilter(table, query.filter) /\ Converts(query.filter)
      /\ valid = [status |-> 200, filter |-> expr, orderby |-> RewriteOrder(query.orderby),
                  limit |-> query.limit]
  BY <1>1 DEF Validate, StorageFilter
<1>3. WellFormed(query.filter)
  BY RequestsAssumption
<1>4. SoundFilter(table, query.filter)
  BY <1>2, <1>3, ValidIsSound
<1>5. query.orderby = Unset => RewriteOrder(query.orderby) = Unset
  BY DEF RewriteOrder
<1>6. QED
  BY <1>1, <1>2, <1>4, <1>5

\* The severity is called by that name only.
LEMMA OrderStaysPossible ==
    ASSUME NEW orderby, Orderable(dialect, orderby)
    PROVE  Orderable(dialect, RewriteOrder(orderby))
<1>1. CASE dialect = "mysql" \/ orderby = Unset
  BY <1>1 DEF Orderable, RewriteOrder
<1>2. CASE orderby # Unset /\ \A i \in DOMAIN orderby : orderby[i].field # "severity"
  <2>1. \A i \in DOMAIN orderby : ColumnOf(orderby[i].field) # "severity"
    BY <1>2 DEF ColumnOf, NameMapping
  <2>2. QED
    BY <1>2, <2>1 DEF Orderable, RewriteOrder
<1>3. QED
  BY <1>1, <1>2 DEF Orderable

LEMMA RewrittenEmpty ==
    ASSUME NEW table \in Tables, NEW expr, SoundFilter(table, expr)
    PROVE  Rewrite(expr) = <<>> <=> expr = <<>>
<1>1. PICK new, S, T : new = Rewrite(expr) /\ S = ToSet(new) /\ T = ToSet(expr)
  OBVIOUS
<1>2. new \in Seq(S) /\ expr \in Seq(T) /\ Len(new) = Len(expr)
  BY <1>1, RewrittenPlaces DEF SoundFilter, WellFormed
<1>3. (new = <<>> <=> Len(new) = 0) /\ (expr = <<>> <=> Len(expr) = 0)
  BY <1>2, EmptySeq
<1>4. QED
  BY <1>1, <1>2, <1>3

\* It selects what the client means, within the project.
LEMMA FilterMeans ==
    ASSUME NEW table \in Tables, NEW expr, SoundFilter(table, expr),
           NEW project, project # None => project # NULL, NEW row,
           NEW filter, filter = StorageFilter(table, expr, project)
    PROVE  filter = <<>> \/ Holds(filter, row) = "true" <=>
               /\ expr # <<>> => Meant(expr, row) = "true"
               /\ project # None => row[VisibilityField(table)] = project
<1>1. Rewrite(expr) = <<>> <=> expr = <<>>
  BY RewrittenEmpty
<1>2. expr # <<>> => Holds(Rewrite(expr), row) = Meant(expr, row)
  BY RewritingKeepsMeaning
<1>3. CASE project = None
  BY <1>1, <1>2, <1>3 DEF StorageFilter
<1>4. CASE project # None
  <2>1. PICK new, field : new = Rewrite(expr) /\ field = VisibilityField(table)
    OBVIOUS
  <2>2. Usable(new)
    BY <2>1, RewrittenUsable
  <2>3. filter = RestrictToProject(new, project, field)
    BY <1>4, <2>1 DEF StorageFilter
  <2>4. filter # <<>>
    BY <2>2, <2>3, RestrictedUsable, Zenon
  <2>5. Holds(filter, row) = "true" <=> /\ new # <<>> => Holds(new, row) = "true"
                                        /\ row[field] = project
    BY <1>4, <2>2, <2>3, RestrictedHolds
  <2>6. QED
    BY <1>1, <1>2, <1>4, <2>1, <2>4, <2>5
<1>5. QED
  BY <1>3, <1>4

\* It orders a boolean only if the client does.
LEMMA OrdersNoBoolean ==
    ASSUME NEW table \in Tables, NEW dict, Sound(table, dict), ~ IsComplex(dict),
           ~ OrdersBoolean(dict)
    PROVE  ~ OrdersBoolean(RewriteDict(dict))
<1>1. CASE dict.op \in {"in", "IN"} /\ RewriteDict(dict).op = "in"
  BY <1>1 DEF OrdersBoolean, OrderOps
<1>2. CASE /\ dict.op \in SimpleOps /\ RewriteDict(dict).op = dict.op
           /\ RewriteDict(dict).value = Operand(dict)
  <2>1. CASE IsTimestamp(dict)
    <3>1. Operand(dict) \notin Booleans
      BY <2>1, RequestsAssumption DEF Sound, Operand, IsTimestamp
    <3>2. QED
      BY <1>2, <3>1 DEF OrdersBoolean
  <2>2. CASE ~ IsTimestamp(dict)
    BY <1>2, <2>2 DEF OrdersBoolean, Operand, IsTimestamp
  <2>3. QED
    BY <2>1, <2>2
<1>3. QED
  BY <1>1, <1>2, SimpleRewritten

\* Its operators and columns are known to QueryTransformer.
LEMMA FilterTransforms ==
    ASSUME NEW table \in Tables, NEW expr, SoundFilter(table, expr), NEW project,
           \A n \in DOMAIN expr : ~ OrdersBoolean(expr[n]),
           NEW filter, filter = StorageFilter(table, expr, project)
    PROVE  Transformable(table, filter)
<1>1. PICK new : new = Rewrite(expr)
  OBVIOUS
<1>2. /\ DOMAIN new = 1..Len(new) /\ Len(new) = Len(expr) /\ new \in Seq(ToSet(new))
      /\ \A n \in 1..Len(new) : new[n] = RewriteDict(expr[n]) /\ Sound(table, expr[n])
  BY <1>1, RewrittenPlaces DEF SoundFilter
<1> DEFINE Known(dict) == \/ dict.op \in {"and", "or", "not"}
                          \/ /\ dict.op \in SimpleOps \cup {"in"}
                             /\ dict.field \in Columns(table)
                             /\ ~ OrdersBoolean(dict)
<1>3. ASSUME NEW n \in 1..Len(new) PROVE Known(new[n])
  <2>1. PICK dict : dict = expr[n]
    OBVIOUS
  <2>2. new[n] = RewriteDict(dict) /\ Sound(table, dict) /\ ~ OrdersBoolean(dict)
    BY <1>2, <1>3, <2>1, RewrittenPlaces DEF SoundFilter
  <2>3. CASE IsComplex(dict)
    <3>1. /\ dict.op \in {"and", "AND", "or", "OR", "not", "NOT"}
          /\ new[n].op = Lower(dict.op)
      BY <2>2, <2>3, ComplexRewritten
    <3>2. QED
      BY <3>1 DEF Lower
  <2>4. CASE ~ IsComplex(dict)
    <3>1. new[n].op \in SimpleOps \cup {"in"} /\ new[n].field \in Columns(table)
      BY <2>2, <2>4, SimpleRewritten
    <3>2. ~ OrdersBoolean(new[n])
      BY <2>2, <2>4, OrdersNoBoolean
    <3>3. QED
      BY <3>1, <3>2
  <2>5. QED
    BY <2>3, <2>4
<1>4. Known(Restriction(project, VisibilityField(table)))
  BY DEF Restriction, VisibilityField, Columns, SimpleOps, OrderOps, OrdersBoolean
<1>5. \A args : Known([op |-> "and", args |-> args])
  OBVIOUS
<1> HIDE DEF Known
<1>6. ASSUME NEW n \in DOMAIN filter PROVE Known(filter[n])
  <2>1. CASE project = None
    BY <1>1, <1>2, <1>3, <1>6, <2>1 DEF StorageFilter
  <2>2. CASE project # None
    <3>1. PICK field : field = VisibilityField(table)
      OBVIOUS
    <3>2. Usable(new)
      BY <1>1, RewrittenUsable
    <3>3. filter = RestrictToProject(new, project, field)
      BY <1>1, <2>2, <3>1 DEF StorageFilter
    <3>4. DOMAIN filter = 1..Len(filter)
      <4>1. Usable(filter)
        BY <3>2, <3>3, RestrictedUsable, Zenon
      <4>2. QED
        BY <4>1, SeqOfItself DEF Usable
    <3>5. CASE new = <<>>
      <4>1. filter = <<Restriction(project, field)>>
        BY <3>3, <3>5 DEF RestrictToProject, Restriction
      <4>2. n = 1 /\ filter[n] = Restriction(project, field)
        BY <1>6, <3>4, <4>1
      <4>3. QED
        BY <1>4, <3>1, <4>2
    <3>6. CASE new # <<>>
      <4>1. /\ Len(new) \in Nat \ {0} /\ Len(filter) = Len(new) + 2
            /\ \A m \in 1..Len(new) : filter[m] = new[m]
            /\ filter[Len(new) + 1] = Restriction(project, field)
            /\ filter[Len(new) + 2] = [op |-> "and", args |-> <<Len(new) + 1, Len(new)>>]
        <5>1. Conjoined(new, project, field, filter)
          BY <3>2, <3>3, RestrictedPlaces
        <5>2. QED
          BY <3>6, <5>1 DEF Conjoined
      <4>2. \/ n \in 1..Len(new) \/ n = Len(new) + 1 \/ n = Len(new) + 2
        BY <1>6, <3>4, <4>1
      <4>3. QED
        BY <1>3, <1>4, <1>5, <3>1, <4>1, <4>2
    <3>7. QED
      BY <3>5, <3>6
  <2>3. QED
    BY <2>1, <2>2
<1>7. QED
  BY <1>6 DEF Transformable, Known

--------------------------------------------------------------------------------
(* The answers to complex queries. *)

LEMMA EnforceRbacStatus ==
    ASSUME NEW op, NEW caller, NEW a
    PROVE  EnforceRbac(op, caller, a) \in {200, 403, 404}
<1> DEFINE seen == {row \in alarms : row.alarm_id = a
                       /\ (IsAdmin(caller) \/ row.project_id = caller.project)}
           refused == ~ Enforce(op, caller, (CHOOSE row \in seen : TRUE).project_id)
<1>1. EnforceRbac(op, caller, a) =
          CASE seen = {} -> 404 [] seen # {} /\ refused -> 403 [] OTHER -> 200
  BY DEF EnforceRbac
<1> HIDE DEF seen, refused
<1>2. QED
  BY <1>1

LEMMA TranslatedStep == TableInv /\ WalkInv /\ AcceptedIsTranslated /\ [Next]_vars
                            => AcceptedIsTranslated'
<1> SUFFICES ASSUME TableInv, WalkInv, AcceptedIsTranslated, [Next]_vars
             PROVE  AcceptedIsTranslated'
  OBVIOUS
<1>1. dialect' = dialect
  <2>1. ASSUME NEW caller, Ask(caller) PROVE dialect' = dialect
    <3>1. ASSUME NEW table, NEW query, AskComplex(caller, table, query)
          PROVE  dialect' = dialect
      BY <3>1 DEF AskComplex
    <3>2. ASSUME NEW a, NEW q, AskHistory(caller, a, q) PROVE dialect' = dialect
      BY <3>2 DEF AskHistory
    <3>3. ASSUME NEW keys, StartWalk(caller, keys) PROVE dialect' = dialect
      BY <3>3 DEF StartWalk
    <3>4. QED
      BY <2>1, <3>1, <3>2, <3>3 DEF Ask
  <2>2. NextPage => dialect' = dialect
    BY DEF NextPage
  <2>3. \A row : Insert(row) \/ Delete(row) \/ Update(row) => dialect' = dialect
    BY DEF Insert, Delete, Update, Writes
  <2>4. QED
    BY <2>1, <2>2, <2>3 DEF Next, vars
<1>2. CASE answer' = answer
  BY <1>1, <1>2 DEF AcceptedIsTranslated
<1>3. ASSUME NEW caller, NEW table \in Tables, NEW query \in ComplexQueries,
             AskComplex(caller, table, query), answer'.status = 500
      PROVE  /\ answer'.request.query = query
             /\ \/ \E n \in DOMAIN query.filter : OrdersBoolean(query.filter[n])
                \/ ~ Orderable(dialect, query.orderby)
  <2>1. PICK valid : valid = Validate(caller, table, query)
    OBVIOUS
  <2>2. /\ answer'.request.query = query
        /\ \/ answer'.status = 403
           \/ valid.status # 200 /\ answer'.status = valid.status
           \/ valid.status = 200 /\ answer'.status = 200
           \/ /\ valid.status = 200
              /\ ~ (Transformable(table, valid.filter) /\ Orderable(dialect, valid.orderby))
    BY <1>3, <2>1 DEF AskComplex, Answer
  <2>3. valid.status \in {200, 400, 401}
    BY <2>1 DEF Validate
  <2>4. /\ valid.status = 200
        /\ ~ (Transformable(table, valid.filter) /\ Orderable(dialect, valid.orderby))
    BY <1>3, <2>2, <2>3
  <2>5. PICK project : project = LimitedToProject(caller)
    OBVIOUS
  <2>6. /\ SoundFilter(table, query.filter)
        /\ valid.filter = StorageFilter(table, query.filter, project)
        /\ valid.orderby = RewriteOrder(query.orderby)
    BY <2>1, <2>4, <2>5, ValidatedQuery
  <2>7. ASSUME \A n \in DOMAIN query.filter : ~ OrdersBoolean(query.filter[n])
        PROVE  Transformable(table, valid.filter)
    BY <2>6, <2>7, FilterTransforms
  <2>8. ASSUME Orderable(dialect, query.orderby)
        PROVE  Orderable(dialect, valid.orderby)
    BY <2>6, <2>8, OrderStaysPossible
  <2>9. QED
    BY <2>2, <2>4, <2>7, <2>8
<1>4. ASSUME NEW caller, NEW a, NEW q, AskHistory(caller, a, q)
      PROVE  answer'.status # 500
  <2>1. PICK status : status = EnforceRbac("alarm_history", caller, a)
    OBVIOUS
  <2>2. answer'.status \in {status, 401, 400, 200}
    BY <1>4, <2>1 DEF AskHistory, Answer
  <2>3. QED
    BY <2>1, <2>2, EnforceRbacStatus
<1>5. QED
  BY <1>1, <1>2, <1>3, <1>4, AnswersStep DEF AcceptedIsTranslated, Tables

\* What the schema of query.py accepts ends in a server error only for the two
\* reasons that the schema misses, for any filter: every operator and column of
\* the rewritten filter is one that QueryTransformer knows, and it applies an
\* order to a boolean only if the client's filter does.
THEOREM TranslatesAlways == Spec => []AcceptedIsTranslated
<1>1. Init => AcceptedIsTranslated
  BY DEF Init, AcceptedIsTranslated
<1>2. QED
  BY <1>1, TranslatedStep, InvAlways, PTL DEF Spec

\* The rows that an expression and a project select.
Selected(table, query, project) ==
    {row \in Rows(table) :
        /\ query.filter # <<>> => Meant(query.filter, row) = "true"
        /\ project # None => row[VisibilityField(table)] = project}

\* The answer to a query of these rows.
Answers(rows, query, meant) ==
    /\ ToSet(rows) \subseteq meant
    /\ query.limit = Unset => ToSet(rows) = meant
    /\ query.orderby = Unset =>
           \A in \in ToSet(rows), out \in meant \ ToSet(rows) : out.timestamp <= in.timestamp

LEMMA NotAfterIsNotNewer ==
    ASSUME NEW left, NEW right, left.timestamp \in Int, right.timestamp \in Int,
           ~ After(left, right, Newest)
    PROVE  right.timestamp <= left.timestamp
<1>1. DOMAIN Newest = {1} /\ Newest[1] = [field |-> "timestamp", dir |-> "desc"]
  BY DEF Newest
<1>2. Place(left, "timestamp") = left.timestamp /\ Place(right, "timestamp") = right.timestamp
  BY DEF Place, TimestampFields
<1>3. ~ Precedes(right, left, Newest[1])
  BY <1>1 DEF After
<1>4. QED
  BY <1>1, <1>2, <1>3 DEF Precedes

LEMMA RetrievedRows ==
    ASSUME NEW caller \in Callers, NEW table \in Tables, NEW query \in ComplexQueries,
           NEW valid, valid = Validate(caller, table, query), valid.status = 200,
           NEW rows \in RetrieveData(table, valid),
           IsFiniteSet(Rows(table)), \A row \in Rows(table) : row.timestamp \in Int
    PROVE  Answers(rows, query, Selected(table, query, LimitedToProject(caller)))
<1>1. PICK project : project = LimitedToProject(caller)
  OBVIOUS
<1>2. project # None => project # NULL
  BY <1>1, CallersAssumption DEF LimitedToProject
<1>3. /\ SoundFilter(table, query.filter)
      /\ valid.filter = StorageFilter(table, query.filter, project)
      /\ valid.limit = query.limit /\ (query.orderby = Unset => valid.orderby = Unset)
  BY <1>1, ValidatedQuery
<1>4. PICK keys : keys = IF valid.orderby = Unset THEN Newest ELSE valid.orderby
  OBVIOUS
<1>5. PICK meant : meant = Selected(table, query, project)
  OBVIOUS
<1>6. {row \in Rows(table) : valid.filter = <<>> \/ Holds(valid.filter, row) = "true"} = meant
  <2>1. \A row : valid.filter = <<>> \/ Holds(valid.filter, row) = "true" <=>
                    /\ query.filter # <<>> => Meant(query.filter, row) = "true"
                    /\ project # None => row[VisibilityField(table)] = project
    BY <1>2, <1>3, FilterMeans
  <2>2. QED
    BY <1>5, <2>1 DEF Selected
<1>7. rows \in Orders(meant, keys, query.limit)
  BY <1>3, <1>4, <1>6 DEF RetrieveData
<1>8. meant \subseteq Rows(table) /\ IsFiniteSet(meant)
  <2>1. meant \subseteq Rows(table)
    BY <1>5 DEF Selected
  <2>2. QED
    BY <2>1, FS_Subset
<1>9. query.limit # Unset => query.limit \in Nat
  BY RequestsAssumption
<1>10. /\ rows \in Seq(meant)
       /\ \A row \in meant : \/ row \in ToSet(rows)
                             \/ \A i \in 1..Len(rows) : ~ After(rows[i], row, keys)
       /\ query.limit = Unset => \A row \in meant : row \in ToSet(rows)
  BY <1>7, <1>8, <1>9, PageOfRows
<1>11. DOMAIN rows = 1..Len(rows) /\ \A i \in DOMAIN rows : rows[i] \in meant
  BY <1>10, LenProperties, ElementOfSeq
<1>12. ToSet(rows) \subseteq meant
  BY <1>11 DEF ToSet
<1>13. ASSUME query.orderby = Unset, NEW in \in ToSet(rows), NEW out \in meant \ ToSet(rows)
       PROVE  out.timestamp <= in.timestamp
  <2>1. PICK i \in 1..Len(rows) : in = rows[i]
    BY <1>11 DEF ToSet
  <2>2. ~ After(in, out, Newest)
    BY <1>3, <1>4, <1>10, <1>13, <2>1
  <2>3. in.timestamp \in Int /\ out.timestamp \in Int
    BY <1>8, <1>12
  <2>4. QED
    BY <2>2, <2>3, NotAfterIsNotNewer
<1>14. QED
  BY <1>1, <1>5, <1>10, <1>12, <1>13 DEF Answers

LEMMA ComplexStep == TableInv /\ WalkInv /\ ComplexMeansFilter /\ [Next]_vars
                         => ComplexMeansFilter'
<1> SUFFICES ASSUME TableInv, WalkInv, ComplexMeansFilter, [Next]_vars
             PROVE  ComplexMeansFilter'
  OBVIOUS
<1>1. CASE answer' = answer /\ (answer = None \/ alarms' = alarms)
  BY <1>1 DEF ComplexMeansFilter, Answered, Rows
<1>2. ASSUME NEW caller \in Callers, NEW table \in Tables, NEW query \in ComplexQueries,
             AskComplex(caller, table, query), alarms' = alarms
      PROVE  ComplexMeansFilter'
  <2>1. PICK request, valid :
            /\ request = [kind |-> "complex", caller |-> caller, table |-> table,
                          query |-> query]
            /\ valid = Validate(caller, table, query)
    OBVIOUS
  <2>2. \/ answer'.status # 200
        \/ /\ valid.status = 200
           /\ \E rows \in RetrieveData(table, valid) :
                  answer' = [request |-> request, status |-> 200, rows |-> rows]
    BY <1>2, <2>1 DEF AskComplex, Answer
  <2>3. CASE answer'.status # 200
    BY <2>3 DEF ComplexMeansFilter, Answered
  <2>4. ASSUME valid.status = 200, NEW rows \in RetrieveData(table, valid),
               answer' = [request |-> request, status |-> 200, rows |-> rows]
        PROVE  ComplexMeansFilter'
    <3>1. alarms = InitialAlarms
      <4>1. Quiet
        BY <1>2 DEF AskComplex
      <4>2. walk = NoWalk
        BY <4>1 DEF Quiet, WalkInv, Walks
      <4>3. QED
        BY <4>2 DEF WalkInv
    <3>2. IsFiniteSet(Rows(table)) /\ \A row \in Rows(table) : row.timestamp \in Int
      BY <3>1, TablesAssumption DEF Rows
    <3>3. PICK meant : meant = Selected(table, query, LimitedToProject(caller))
      OBVIOUS
    <3>4. Answers(rows, query, meant)
      BY <2>1, <2>4, <3>2, <3>3, RetrievedRows
    <3>5. meant = {row \in Rows(table)' :
                      /\ query.filter # <<>> => Meant(query.filter, row) = "true"
                      /\ LimitedToProject(caller) # None =>
                             row[VisibilityField(table)] = LimitedToProject(caller)}
      BY <1>2, <3>3 DEF Selected, Rows
    <3>6. /\ answer'.rows = rows /\ answer'.request.query = query
          /\ answer'.request.caller = caller /\ answer'.request.table = table
      BY <2>1, <2>4
    <3>7. QED
      BY <3>4, <3>5, <3>6 DEF ComplexMeansFilter, Answers
  <2>5. QED
    BY <2>2, <2>3, <2>4
<1>3. ASSUME NEW caller, NEW a, NEW q, AskHistory(caller, a, q)
      PROVE  ~ Answered("complex")'
  <2>1. answer'.request.kind = "history"
    BY <1>3 DEF AskHistory, Answer
  <2>2. QED
    BY <2>1 DEF Answered
<1>4. CASE ~ Answered("complex")'
  BY <1>4 DEF ComplexMeansFilter
<1>5. QED
  BY <1>1, <1>2, <1>3, <1>4, AnswersStep DEF Tables

\* An answered complex query selects what its expression says and no row of
\* another project; without a limit it gives all of them, and a limit keeps the
\* newest.
THEOREM ComplexAlways == Spec => []ComplexMeansFilter
<1>1. Init => ComplexMeansFilter
  BY DEF Init, ComplexMeansFilter, Answered
<1>2. QED
  BY <1>1, ComplexStep, InvAlways, PTL DEF Spec

--------------------------------------------------------------------------------
(* The answers to the history of an alarm. *)

LEMMA SomeGreatest ==
    ASSUME NEW length \in Nat, NEW T, T \subseteq 1..length, T # {}
    PROVE  \E m \in T : \A n \in T : m >= n
<1>1. PICK U : U = {length - n : n \in T}
  OBVIOUS
<1>2. U \subseteq Nat /\ U # {}
  <2>1. \A n \in T : length - n \in Nat
    OBVIOUS
  <2>2. U \subseteq Nat
    BY <1>1, <2>1
  <2>3. U # {}
    BY <1>1
  <2>4. QED
    BY <2>2, <2>3
<1>3. PICK u \in U : \A v \in U : u <= v
  BY <1>2, SomeLeast
<1>4. PICK m \in T : u = length - m
  BY <1>1
<1>5. ASSUME NEW n \in T PROVE m >= n
  <2>1. length - m <= length - n
    BY <1>1, <1>3, <1>4
  <2>2. QED
    BY <2>1
<1>6. QED
  BY <1>5

\* The item that _get_query_timestamps and validate_query look at, 0 if there is
\* none.
LEMMA FirstItemIs ==
    ASSUME NEW q, q \in Seq(ToSet(q)), NEW field, NEW first, first = FirstItem(q, field)
    PROVE  \/ first = 0 /\ \A i \in DOMAIN q : q[i].field # field
           \/ first \in DOMAIN q /\ q[first].field = field /\ first # 0
<1>1. PICK found : found = {i \in DOMAIN q : q[i].field = field}
  OBVIOUS
<1>2. Len(q) \in Nat /\ DOMAIN q = 1..Len(q)
  BY SeqOfItself
<1>3. CASE found = {}
  BY <1>1, <1>3 DEF FirstItem
<1>4. CASE found # {}
  <2>1. first = CHOOSE i \in found : \A j \in found : i <= j
    BY <1>1, <1>4 DEF FirstItem
  <2>2. found \subseteq Nat
    BY <1>1, <1>2
  <2>3. \E i \in found : \A j \in found : i <= j
    BY <1>4, <2>2, SomeLeast
  <2>4. first \in found
    BY <2>1, <2>3
  <2>5. QED
    BY <1>1, <1>2, <2>4
<1>5. QED
  BY <1>3, <1>4

LEMMA LastItemIs ==
    ASSUME NEW q, q \in Seq(ToSet(q)), NEW field, NEW ops, NEW last,
           last = LastItem(q, field, ops)
    PROVE  \/ last = 0 /\ \A i \in DOMAIN q : ~ (q[i].field = field /\ q[i].op \in ops)
           \/ /\ last \in DOMAIN q /\ last # 0
              /\ q[last].field = field /\ q[last].op \in ops
<1>1. PICK found : found = {i \in DOMAIN q : q[i].field = field /\ q[i].op \in ops}
  OBVIOUS
<1>2. Len(q) \in Nat /\ DOMAIN q = 1..Len(q)
  BY SeqOfItself
<1>3. CASE found = {}
  BY <1>1, <1>3 DEF LastItem
<1>4. CASE found # {}
  <2>1. last = CHOOSE i \in found : \A j \in found : i >= j
    BY <1>1, <1>4 DEF LastItem
  <2>2. found \subseteq 1..Len(q)
    BY <1>1, <1>2
  <2>3. \E i \in found : \A j \in found : i >= j
    BY <1>2, <1>4, <2>2, SomeGreatest
  <2>4. last \in found
    BY <2>1, <2>3
  <2>5. QED
    BY <1>1, <1>2, <2>4
<1>5. QED
  BY <1>3, <1>4

\* Of a valid list with one item each, no two items share a bound or a column.
OneAndValid(q) == q \in Seq(ToSet(q)) /\ ValidItems(q) /\ OneItemEach(q)

LEMMA ItemsApart ==
    ASSUME NEW q, OneAndValid(q), NEW i \in DOMAIN q, NEW j \in DOMAIN q
    PROVE  /\ q[i].field = "timestamp" => q[i].op \in LowerOps \cup UpperOps
           /\ q[i].field = "search_offset" => q[i].op = "eq"
           /\ q[i].field \notin {"timestamp", "search_offset"} =>
                  /\ q[i].field \in {"project", "project_id", "type", "severity"}
                  /\ q[i].op = "eq"
           /\ q[i].field # "timestamp" /\ Column(q[j].field) = Column(q[i].field) => j = i
           /\ /\ q[i].field = "timestamp" /\ q[j].field = "timestamp"
              /\ \/ q[i].op \in LowerOps /\ q[j].op \in LowerOps
                 \/ q[i].op \in UpperOps /\ q[j].op \in UpperOps
              => j = i
<1>1. PICK t, o : t = FirstItem(q, "timestamp") /\ o = FirstItem(q, "search_offset")
  OBVIOUS
<1>2. \/ t = 0 /\ \A k \in DOMAIN q : q[k].field # "timestamp"
      \/ t \in DOMAIN q /\ q[t].field = "timestamp" /\ t # 0
  BY <1>1, FirstItemIs DEF OneAndValid
<1>3. \/ o = 0 /\ \A k \in DOMAIN q : q[k].field # "search_offset"
      \/ o \in DOMAIN q /\ q[o].field = "search_offset" /\ o # 0
  BY <1>1, FirstItemIs DEF OneAndValid
<1>4. /\ t # 0 => q[t].op \in LowerOps \cup UpperOps
      /\ o # 0 => q[o].op = "eq"
      /\ \A k \in DOMAIN q : q[k].field \notin {"timestamp", "search_offset"} =>
             /\ q[k].field \in {"project", "project_id", "type", "severity"}
             /\ q[k].op = "eq"
  BY <1>1 DEF OneAndValid, ValidItems
<1>5. \A k, l \in DOMAIN q :
          k # l => \/ Column(q[k].field) # Column(q[l].field)
                   \/ q[k].op \in LowerOps /\ q[l].op \in UpperOps
                   \/ q[k].op \in UpperOps /\ q[l].op \in LowerOps
  BY DEF OneAndValid, OneItemEach
<1>6. "eq" \notin LowerOps \cup UpperOps /\ LowerOps \cap UpperOps = {}
  BY DEF LowerOps, UpperOps
<1>7. q[i].field = "timestamp" => q[i].op \in LowerOps \cup UpperOps
  <2>1. CASE i = t
    BY <1>2, <1>4, <2>1
  <2>2. CASE i # t /\ q[i].field = "timestamp"
    BY <1>2, <1>5, <2>2
  <2>3. QED
    BY <2>1, <2>2
<1>8. q[i].field = "search_offset" => q[i].op = "eq" /\ i = o
  <2>1. CASE i = o
    BY <1>3, <1>4, <2>1
  <2>2. CASE i # o /\ q[i].field = "search_offset"
    <3>1. o \in DOMAIN q /\ q[o].field = q[i].field /\ q[o].op = "eq"
      BY <1>3, <1>4, <2>2
    <3>2. q[o].op \in LowerOps \cup UpperOps
      BY <1>5, <2>2, <3>1
    <3>3. QED
      BY <1>6, <3>1, <3>2
  <2>3. QED
    BY <2>1, <2>2
<1>9. q[i].field \notin {"timestamp", "search_offset"} =>
          /\ q[i].field \in {"project", "project_id", "type", "severity"}
          /\ q[i].op = "eq"
  BY <1>4
<1>10. ASSUME q[i].field # "timestamp", Column(q[j].field) = Column(q[i].field)
       PROVE  j = i
  <2>1. q[i].op = "eq"
    BY <1>8, <1>9, <1>10
  <2>2. QED
    BY <1>5, <1>6, <1>10, <2>1
<1>11. ASSUME q[i].field = "timestamp", q[j].field = "timestamp",
              \/ q[i].op \in LowerOps /\ q[j].op \in LowerOps
              \/ q[i].op \in UpperOps /\ q[j].op \in UpperOps
       PROVE  j = i
  BY <1>5, <1>6, <1>11
<1>12. QED
  BY <1>7, <1>8, <1>9, <1>10, <1>11

LowerMet(row, item, offset) ==
    IF item.op = "gt" THEN row.timestamp + offset > item.value
                      ELSE row.timestamp + offset >= item.value
UpperMet(row, item, offset) ==
    IF item.op = "le" THEN row.timestamp <= item.value + offset
                      ELSE row.timestamp < item.value + offset

LEMMA MeetsByField ==
    ASSUME NEW q, OneAndValid(q), NEW i \in DOMAIN q, NEW row, NEW offset
    PROVE  /\ q[i].field = "timestamp" /\ q[i].op \in LowerOps =>
                  (Meets(row, q[i], offset) <=> LowerMet(row, q[i], offset))
           /\ q[i].field = "timestamp" /\ q[i].op \in UpperOps =>
                  (Meets(row, q[i], offset) <=> UpperMet(row, q[i], offset))
           /\ q[i].field = "search_offset" => Meets(row, q[i], offset)
           /\ q[i].field \notin {"timestamp", "search_offset"} =>
                  (Meets(row, q[i], offset) <=> row[Column(q[i].field)] = q[i].value)
<1>1. PICK item : item = q[i]
  OBVIOUS
<1>2. /\ item.field = "timestamp" /\ item.op \in LowerOps =>
             (Meets(row, item, offset) <=> LowerMet(row, item, offset))
      /\ item.field = "timestamp" /\ item.op \in UpperOps =>
             (Meets(row, item, offset) <=> UpperMet(row, item, offset))
  BY DEF Meets, LowerMet, UpperMet, LowerOps, UpperOps
<1>3. item.field = "search_offset" => Meets(row, item, offset)
  BY DEF Meets
<1>4. item.field \notin {"timestamp", "search_offset"} =>
          (Meets(row, item, offset) <=> row[Column(item.field)] = item.value)
  BY DEF Meets
<1>5. QED
  BY <1>1, <1>2, <1>3, <1>4

\* The last item of a column is the only one.
LEMMA EqualsEach ==
    ASSUME NEW q, OneAndValid(q), NEW row
    PROVE  EqualsLast(row, q) <=>
               \A i \in DOMAIN q : q[i].field \notin {"timestamp", "search_offset"} =>
                                     row[Column(q[i].field)] = q[i].value
<1> DEFINE Chosen(i) == CHOOSE j \in DOMAIN q :
                          /\ Column(q[j].field) = Column(q[i].field)
                          /\ \A k \in DOMAIN q : Column(q[k].field) = Column(q[i].field) => k <= j
<1>1. ASSUME NEW i \in DOMAIN q, q[i].field \notin {"timestamp", "search_offset"}
      PROVE  Chosen(i) = i
  <2>1. \A j \in DOMAIN q : Column(q[j].field) = Column(q[i].field) => j = i
    BY <1>1, ItemsApart
  <2>2. DOMAIN q = 1..Len(q)
    BY SeqOfItself DEF OneAndValid
  <2>3. \A k \in DOMAIN q : Column(q[k].field) = Column(q[i].field) => k <= i
    BY <2>1, <2>2
  <2>4. QED
    BY <2>1, <2>3
<1>2. EqualsLast(row, q) <=>
          \A i \in DOMAIN q : q[i].field \notin {"timestamp", "search_offset"} =>
                                row[Column(q[Chosen(i)].field)] = q[Chosen(i)].value
  BY DEF EqualsLast
<1> HIDE DEF Chosen
<1>3. QED
  BY <1>1, <1>2

\* Is a row in the range of get_alarm_changes, with the items that it goes by?
Within(row, q, lower, upper, offset) ==
    /\ lower # 0 => LowerMet(row, q[lower], offset)
    /\ upper # 0 => UpperMet(row, q[upper], offset)

LEMMA ItemsMet ==
    ASSUME NEW q, OneAndValid(q), NEW row, NEW offset,
           NEW lower, lower = LastItem(q, "timestamp", LowerOps),
           NEW upper, upper = LastItem(q, "timestamp", UpperOps)
    PROVE  Within(row, q, lower, upper, offset) /\ EqualsLast(row, q) <=>
               \A i \in DOMAIN q : Meets(row, q[i], offset)
<1>1. \/ lower = 0 /\ \A i \in DOMAIN q : ~ (q[i].field = "timestamp" /\ q[i].op \in LowerOps)
      \/ /\ lower \in DOMAIN q /\ lower # 0
         /\ q[lower].field = "timestamp" /\ q[lower].op \in LowerOps
  BY LastItemIs DEF OneAndValid
<1>2. \/ upper = 0 /\ \A i \in DOMAIN q : ~ (q[i].field = "timestamp" /\ q[i].op \in UpperOps)
      \/ /\ upper \in DOMAIN q /\ upper # 0
         /\ q[upper].field = "timestamp" /\ q[upper].op \in UpperOps
  BY LastItemIs DEF OneAndValid
<1>3. ASSUME NEW i \in DOMAIN q, q[i].field = "timestamp", q[i].op \in LowerOps
      PROVE  lower = i /\ (Meets(row, q[i], offset) <=> LowerMet(row, q[i], offset))
  BY <1>1, <1>3, ItemsApart, MeetsByField
<1>4. ASSUME NEW i \in DOMAIN q, q[i].field = "timestamp", q[i].op \in UpperOps
      PROVE  upper = i /\ (Meets(row, q[i], offset) <=> UpperMet(row, q[i], offset))
  BY <1>2, <1>4, ItemsApart, MeetsByField
<1>5. \A i \in DOMAIN q : q[i].field = "timestamp" => q[i].op \in LowerOps \cup UpperOps
  BY ItemsApart
<1>6. ASSUME Within(row, q, lower, upper, offset), EqualsLast(row, q), NEW i \in DOMAIN q
      PROVE  Meets(row, q[i], offset)
  <2>1. CASE q[i].field = "timestamp" /\ q[i].op \in LowerOps
    BY <1>1, <1>3, <1>6, <2>1 DEF Within
  <2>2. CASE q[i].field = "timestamp" /\ q[i].op \in UpperOps
    BY <1>2, <1>4, <1>6, <2>2 DEF Within
  <2>3. CASE q[i].field # "timestamp"
    BY <1>6, <2>3, EqualsEach, MeetsByField
  <2>4. QED
    BY <1>5, <2>1, <2>2, <2>3
<1>7. ASSUME \A i \in DOMAIN q : Meets(row, q[i], offset)
      PROVE  Within(row, q, lower, upper, offset) /\ EqualsLast(row, q)
  <2>1. EqualsLast(row, q)
    BY <1>7, EqualsEach, MeetsByField
  <2>2. lower # 0 => LowerMet(row, q[lower], offset)
    BY <1>1, <1>3, <1>7
  <2>3. upper # 0 => UpperMet(row, q[upper], offset)
    BY <1>2, <1>4, <1>7
  <2>4. QED
    BY <2>1, <2>2, <2>3 DEF Within
<1>8. QED
  BY <1>6, <1>7

LEMMA SameOffset ==
    ASSUME NEW q, OneAndValid(q)
    PROVE  LastItem(q, "search_offset", {"eq"}) = FirstItem(q, "search_offset")
<1>1. PICK first, last : /\ first = FirstItem(q, "search_offset")
                         /\ last = LastItem(q, "search_offset", {"eq"})
  OBVIOUS
<1>2. \/ first = 0 /\ \A i \in DOMAIN q : q[i].field # "search_offset"
      \/ first \in DOMAIN q /\ q[first].field = "search_offset" /\ first # 0
  BY <1>1, FirstItemIs DEF OneAndValid
<1>3. \/ last = 0 /\ \A i \in DOMAIN q : ~ (q[i].field = "search_offset" /\ q[i].op \in {"eq"})
      \/ /\ last \in DOMAIN q /\ last # 0
         /\ q[last].field = "search_offset" /\ q[last].op \in {"eq"}
  BY <1>1, LastItemIs DEF OneAndValid
<1>4. ASSUME first \in DOMAIN q, q[first].field = "search_offset" PROVE q[first].op = "eq"
  BY <1>4, ItemsApart
<1>5. ASSUME first \in DOMAIN q, last \in DOMAIN q,
             q[first].field = "search_offset", q[last].field = "search_offset"
      PROVE  first = last
  BY <1>5, ItemsApart
<1>6. QED
  BY <1>1, <1>2, <1>3, <1>4, <1>5

\* What get_alarm_changes selects.
LEMMA ChangesMeet ==
    ASSUME NEW q, OneAndValid(q), NEW a, NEW project, NEW o, NEW offset,
           o = FirstItem(q, "search_offset"), offset = IF o = 0 THEN 0 ELSE q[o].value
    PROVE  AlarmChanges(a, project, q) =
               {row \in Changes :
                   /\ row.alarm_id = a
                   /\ project # None => row.on_behalf_of = project
                   /\ \A i \in DOMAIN q : Meets(row, q[i], offset)}
<1>1. PICK lower, upper : /\ lower = LastItem(q, "timestamp", LowerOps)
                          /\ upper = LastItem(q, "timestamp", UpperOps)
  OBVIOUS
<1>2. o = LastItem(q, "search_offset", {"eq"})
  BY SameOffset
<1>3. InRange(q) = {row \in Changes : Within(row, q, lower, upper, offset)}
  BY <1>1, <1>2 DEF InRange, Within, LowerMet, UpperMet
<1>4. \A row : Within(row, q, lower, upper, offset) /\ EqualsLast(row, q) <=>
                   \A i \in DOMAIN q : Meets(row, q[i], offset)
  BY <1>1, ItemsMet
<1>5. QED
  BY <1>3, <1>4 DEF AlarmChanges

LEMMA HistoryStep == TableInv /\ WalkInv /\ HistoryMeetsItems /\ [Next]_vars
                         => HistoryMeetsItems'
<1> SUFFICES ASSUME TableInv, WalkInv, HistoryMeetsItems, [Next]_vars
             PROVE  HistoryMeetsItems'
  OBVIOUS
<1>1. CASE answer' = answer
  BY <1>1 DEF HistoryMeetsItems, Answered
<1>2. ASSUME NEW caller, NEW a, NEW q \in ItemLists, AskHistory(caller, a, q)
      PROVE  HistoryMeetsItems'
  <2>1. PICK request, project :
            /\ request = [kind |-> "history", caller |-> caller, alarm |-> a, q |-> q]
            /\ project = LimitedToProject(caller)
    OBVIOUS
  <2>2. \/ answer'.status # 200
        \/ /\ ValidItems(q)
           /\ \E rows \in Orders(AlarmChanges(a, project, q), Newest, Unset) :
                  answer' = [request |-> request, status |-> 200, rows |-> rows]
    BY <1>2, <2>1 DEF AskHistory, Answer
  <2>3. CASE answer'.status # 200
    BY <2>3 DEF HistoryMeetsItems, Answered
  <2>4. ASSUME OneItemEach(q), ValidItems(q),
               NEW rows \in Orders(AlarmChanges(a, project, q), Newest, Unset),
               answer' = [request |-> request, status |-> 200, rows |-> rows]
        PROVE  HistoryMeetsItems'
    <3>1. PICK o, offset : /\ o = FirstItem(q, "search_offset")
                           /\ offset = IF o = 0 THEN 0 ELSE q[o].value
      OBVIOUS
    <3>2. OneAndValid(q)
      BY <2>4, RequestsAssumption DEF OneAndValid
    <3>3. PICK found : found = AlarmChanges(a, project, q)
      OBVIOUS
    <3>4. found = {row \in Changes :
                      /\ row.alarm_id = a
                      /\ project # None => row.on_behalf_of = project
                      /\ \A i \in DOMAIN q : Meets(row, q[i], offset)}
      BY <3>1, <3>2, <3>3, ChangesMeet
    <3>5. IsFiniteSet(found)
      <4>1. found \subseteq Changes
        BY <3>4
      <4>2. QED
        BY <4>1, FS_Subset, TablesAssumption
    <3>6. rows \in Seq(found) /\ \A row \in found : row \in ToSet(rows)
      BY <2>4, <3>3, <3>5, PageOfRows
    <3>7. DOMAIN rows = 1..Len(rows) /\ \A i \in DOMAIN rows : rows[i] \in found
      BY <3>6, LenProperties, ElementOfSeq
    <3>8. ToSet(rows) = found
      BY <3>6, <3>7 DEF ToSet
    <3>9. project # None => project = caller.project
      BY <2>1 DEF LimitedToProject
    <3>10. found = {row \in Changes :
                       /\ row.alarm_id = a
                       /\ LimitedToProject(caller) # None => row.on_behalf_of = caller.project
                       /\ \A i \in DOMAIN q : Meets(row, q[i], offset)}
      BY <2>1, <3>4, <3>9
    <3>11. /\ answer'.rows = rows /\ answer'.request.q = q
           /\ answer'.request.caller = caller /\ answer'.request.alarm = a
      BY <2>1, <2>4
    <3>12. QED
      BY <3>1, <3>8, <3>10, <3>11 DEF HistoryMeetsItems
  <2>5. CASE ~ OneItemEach(q) /\ \E rows : answer' = [request |-> request, status |-> 200,
                                                     rows |-> rows]
    BY <2>1, <2>5 DEF HistoryMeetsItems
  <2>6. QED
    BY <2>2, <2>3, <2>4, <2>5
<1>3. ASSUME NEW caller, NEW table, NEW query, AskComplex(caller, table, query)
      PROVE  ~ Answered("history")'
  <2>1. answer'.request.kind = "complex"
    BY <1>3 DEF AskComplex, Answer
  <2>2. QED
    BY <2>1 DEF Answered
<1>4. CASE ~ Answered("history")'
  BY <1>4 DEF HistoryMeetsItems
<1>5. QED
  BY <1>1, <1>2, <1>3, <1>4, AnswersStep

\* The history of an alarm that is returned is exactly the one that meets every
\* item of the request, for lists of items of any length.
THEOREM HistoryAlways == Spec => []HistoryMeetsItems
<1>1. Init => HistoryMeetsItems
  BY DEF Init, HistoryMeetsItems, Answered
<1>2. QED
  BY <1>1, HistoryStep, InvAlways, PTL DEF Spec

--------------------------------------------------------------------------------
(* The order of the pages. *)

\* The database can compare a row by each of the keys.
Comparable(row, keys) == \A i \in DOMAIN keys : Place(row, keys[i].field) \in Int

\* No key tells two rows apart.
Alike(x, y, keys) == \A i \in DOMAIN keys : Place(x, keys[i].field) = Place(y, keys[i].field)

LEMMA KeysAreSequences ==
    ASSUME NEW keys \in SortKeys
    PROVE  Len(keys) \in Nat /\ DOMAIN keys = 1..Len(keys)
           /\ \A i \in DOMAIN keys : \A j \in 1..(i - 1) : j \in DOMAIN keys
<1>1. Len(keys) \in Nat /\ DOMAIN keys = 1..Len(keys)
  BY RequestsAssumption, SeqOfItself
<1>2. QED
  BY <1>1

LEMMA AfterItself ==
    ASSUME NEW keys \in SortKeys, NEW x, Comparable(x, keys)
    PROVE  ~ After(x, x, keys)
BY DEF After, Precedes, Comparable

LEMMA AfterTransitive ==
    ASSUME NEW keys \in SortKeys, NEW x, NEW y, NEW z, Comparable(x, keys),
           Comparable(y, keys), Comparable(z, keys), After(x, y, keys), After(y, z, keys)
    PROVE  After(x, z, keys)
<1>1. /\ DOMAIN keys \subseteq Nat \ {0}
      /\ \A i \in DOMAIN keys : \A j \in 1..(i - 1) : j \in DOMAIN keys
  BY KeysAreSequences
<1>2. PICK i \in DOMAIN keys :
          /\ Precedes(y, x, keys[i])
          /\ \A j \in 1..(i - 1) : Place(x, keys[j].field) = Place(y, keys[j].field)
  BY DEF After
<1>3. PICK k \in DOMAIN keys :
          /\ Precedes(z, y, keys[k])
          /\ \A j \in 1..(k - 1) : Place(y, keys[j].field) = Place(z, keys[j].field)
  BY DEF After
<1>4. PICK m : m = IF i <= k THEN i ELSE k
  OBVIOUS
<1>5. m \in DOMAIN keys /\ m <= i /\ m <= k /\ (m = i \/ m = k) /\ i \in Nat /\ k \in Nat
  BY <1>1, <1>4
<1>6. \A j \in 1..(m - 1) : j \in 1..(i - 1) /\ j \in 1..(k - 1)
  BY <1>1, <1>5
<1>7. Precedes(z, x, keys[m])
  <2>1. CASE i = k
    BY <1>2, <1>3, <1>4, <2>1 DEF Precedes, Comparable
  <2>2. CASE i < k
    <3>1. m = i /\ i \in 1..(k - 1)
      BY <1>1, <1>4, <1>5, <2>2
    <3>2. Place(y, keys[i].field) = Place(z, keys[i].field)
      BY <1>3, <3>1
    <3>3. QED
      BY <1>2, <3>1, <3>2 DEF Precedes
  <2>3. CASE i > k
    <3>1. m = k /\ k \in 1..(i - 1)
      BY <1>1, <1>4, <1>5, <2>3
    <3>2. Place(x, keys[k].field) = Place(y, keys[k].field)
      BY <1>2, <3>1
    <3>3. QED
      BY <1>3, <3>1, <3>2 DEF Precedes
  <2>4. QED
    BY <1>5, <2>1, <2>2, <2>3
<1>8. \A j \in 1..(m - 1) : Place(x, keys[j].field) = Place(z, keys[j].field)
  BY <1>2, <1>3, <1>6
<1>9. QED
  BY <1>5, <1>7, <1>8 DEF After

LEMMA AfterTotal ==
    ASSUME NEW keys \in SortKeys, NEW x, NEW y, Comparable(x, keys), Comparable(y, keys)
    PROVE  After(x, y, keys) \/ After(y, x, keys) \/ Alike(x, y, keys)
<1>1. PICK T : T = {i \in DOMAIN keys : Place(x, keys[i].field) # Place(y, keys[i].field)}
  OBVIOUS
<1>2. CASE T = {}
  BY <1>1, <1>2 DEF Alike
<1>3. CASE T # {}
  <2>1. T \subseteq Nat
    BY <1>1, KeysAreSequences
  <2>2. PICK i \in T : \A j \in T : i <= j
    BY <1>3, <2>1, SomeLeast
  <2>3. i \in DOMAIN keys /\ i \in Nat /\ Place(x, keys[i].field) # Place(y, keys[i].field)
    BY <1>1, <2>1
  <2>4. \A j \in 1..(i - 1) : j \in DOMAIN keys /\ j \notin T
    BY <2>2, <2>3, KeysAreSequences
  <2>5. \A j \in 1..(i - 1) : Place(x, keys[j].field) = Place(y, keys[j].field)
    BY <1>1, <2>4
  <2>6. Precedes(y, x, keys[i]) \/ Precedes(x, y, keys[i])
    BY <2>3 DEF Precedes, Comparable
  <2>7. QED
    BY <2>3, <2>5, <2>6 DEF After
<1>4. QED
  BY <1>2, <1>3

LEMMA AfterAlike ==
    ASSUME NEW keys \in SortKeys, NEW x, NEW y, NEW z, Alike(y, z, keys)
    PROVE  After(x, y, keys) <=> After(x, z, keys)
<1>1. \A i \in DOMAIN keys : \A j \in 1..(i - 1) : j \in DOMAIN keys
  BY KeysAreSequences
<1>2. \A i \in DOMAIN keys : Precedes(y, x, keys[i]) <=> Precedes(z, x, keys[i])
  BY DEF Alike, Precedes
<1>3. QED
  BY <1>1, <1>2 DEF After, Alike

LEMMA StoredIsComparable ==
    ASSUME NEW keys \in SortKeys, NEW x \in StoredRows
    PROVE  Comparable(x, keys)
<1>1. PICK row \in Base : x \in Versions(row)
  BY DEF StoredRows
<1>2. \A i \in DOMAIN keys : \A version \in Versions(row) : Place(version, keys[i].field) \in Int
  BY CollationAssumption DEF Base
<1>3. QED
  BY <1>1, <1>2 DEF Comparable

LEMMA SameBase ==
    ASSUME NEW x \in StoredRows, NEW y \in StoredRows
    PROVE  /\ \A keys \in SortKeys : x.alarm_id = y.alarm_id =>
                  \A i \in DOMAIN keys : \/ keys[i].field = "state"
                                         \/ Place(x, keys[i].field) = Place(y, keys[i].field)
           /\ Place(x, "alarm_id") = Place(y, "alarm_id") => x.alarm_id = y.alarm_id
<1>1. PICK row \in Base : /\ x.alarm_id = row.alarm_id
                          /\ \A f \in DOMAIN row : f # "state" => x[f] = row[f]
  BY VersionsOf
<1>2. PICK other \in Base : /\ y.alarm_id = other.alarm_id
                            /\ \A f \in DOMAIN other : f # "state" => y[f] = other[f]
  BY VersionsOf
<1>3. \A r \in Base : "alarm_id" \in DOMAIN r
  BY TablesAssumption DEF Base
<1>4. ASSUME NEW keys \in SortKeys, x.alarm_id = y.alarm_id, NEW i \in DOMAIN keys,
             keys[i].field # "state"
      PROVE  Place(x, keys[i].field) = Place(y, keys[i].field)
  <2>1. row = other
    BY <1>1, <1>2, <1>4, TablesAssumption DEF Base
  <2>2. keys[i].field \in DOMAIN row
    BY CollationAssumption DEF Base
  <2>3. x[keys[i].field] = y[keys[i].field]
    BY <1>1, <1>2, <1>4, <2>1, <2>2
  <2>4. QED
    BY <2>3 DEF Place
<1>5. ASSUME Place(x, "alarm_id") = Place(y, "alarm_id") PROVE x.alarm_id = y.alarm_id
  <2>1. Place(row, "alarm_id") = Place(other, "alarm_id")
    BY <1>1, <1>2, <1>5 DEF Place, TimestampFields
  <2>2. row = other
    BY <2>1, CollationAssumption DEF Base
  <2>3. QED
    BY <1>1, <1>2, <2>2
<1>6. QED
  BY <1>4, <1>5

\* A whole page more is a whole number of pages.
LEMMA AddedPage ==
    ASSUME NEW n \in Nat, NEW p \in Nat \ {0}, n % p = 0
    PROVE  (n + p) % p = 0
<1>1. PICK q, s, r : q = n \div p /\ s = (n + p) \div p /\ r = (n + p) % p
  OBVIOUS
<1>2. q \in Int /\ s \in Int /\ r \in 0..(p - 1)
  BY <1>1
<1>3. n = p * q
  <2>1. n % p = n - p * (n \div p)
    BY SMTT(20)
  <2>2. QED
    BY <1>1, <1>2, <2>1
<1>4. r = n + p - p * s
  BY <1>1, SMTT(20)
<1>5. r = p * (q + 1 - s)
  <2>1. p * q + p - p * s = p * (q + 1 - s)
    BY <1>2
  <2>2. QED
    BY <1>3, <1>4, <2>1
<1>6. PICK k : k = q + 1 - s
  OBVIOUS
<1>7. k \in Int /\ r = p * k
  BY <1>2, <1>5, <1>6
<1>8. k >= 1 => p * k >= p
  BY <1>7
<1>9. k <= 0 - 1 => p * k <= 0 - p
  BY <1>7
<1>10. k = 0
  BY <1>2, <1>7, <1>8, <1>9
<1>11. QED
  BY <1>1, <1>7, <1>10

--------------------------------------------------------------------------------
(* What a client that pages has seen of an alarm that nobody wrote: while it  *)
(* pages, the alarm is among what it got if and only if it is not after the   *)
(* last row that it got, which is the marker. *)

End == walk.got[Len(walk.got)]

Steady(row) == row.alarm_id \notin touched /\ row.project_id = walk.caller.project

Seen(row) == \E i \in DOMAIN walk.got : walk.got[i].alarm_id = row.alarm_id

MarkerInv ==
    walk.status = "paging" =>
        /\ walk.got = <<>> => walk.marker = None
        /\ walk.got # <<>> => walk.marker = End.alarm_id /\ Len(walk.got) % PageSize = 0

PagesInv ==
    walk.status \in {"paging", "complete"} /\ KeysTellApart /\ MarkersStay =>
        \A row \in InitialAlarms : Steady(row) =>
            /\ \A i, j \in DOMAIN walk.got :
                   /\ walk.got[i].alarm_id = row.alarm_id
                   /\ walk.got[j].alarm_id = row.alarm_id
                   => i = j
            /\ walk.status = "complete" => Seen(row)
            /\ walk.status = "paging" /\ walk.got # <<>> =>
                   (Seen(row) <=> ~ After(row, End, walk.keys))

LEMMA WalkTypes ==
    ASSUME WalkInv, walk.status \in {"paging", "complete"}
    PROVE  /\ walk # NoWalk /\ walk \in Walks /\ walk.keys \in SortKeys
           /\ walk.got \in Seq(StoredRows) /\ Len(walk.got) \in Nat
           /\ DOMAIN walk.got = 1..Len(walk.got)
           /\ \A i \in DOMAIN walk.got : walk.got[i] \in StoredRows
           /\ walk.got # <<>> => Len(walk.got) \in DOMAIN walk.got /\ End \in StoredRows
<1>1. walk # NoWalk /\ walk \in Walks
  BY WalkIsRecord
<1>2. walk.keys \in SortKeys /\ walk.got \in Seq(StoredRows)
  BY <1>1 DEF Walks
<1>3. /\ Len(walk.got) \in Nat /\ DOMAIN walk.got = 1..Len(walk.got)
      /\ \A i \in DOMAIN walk.got : walk.got[i] \in StoredRows
  BY <1>2, LenProperties, ElementOfSeq
<1>4. walk.got # <<>> => Len(walk.got) \in DOMAIN walk.got
  BY <1>2, <1>3, EmptySeq
<1>5. QED
  BY <1>1, <1>2, <1>3, <1>4 DEF End

LEMMA SteadyIsListed ==
    ASSUME TableInv, NEW row \in InitialAlarms, Steady(row)
    PROVE  row \in alarms /\ row \in Listed(walk.caller) /\ row \in StoredRows
BY DEF TableInv, Steady, Listed

\* Without the severity, the order and the marker know the same keys.
LEMMA PlainKeys ==
    ASSUME KeysTellApart
    PROVE  MarkerKeys(walk.keys) = walk.keys /\ OrderKeys(walk.keys) = walk.keys
BY DEF KeysTellApart, MarkerKeys, OrderKeys

\* The row that the database finds for the marker stands where the last row of
\* the page stood.
LEMMA MarkerStandsStill ==
    ASSUME TableInv, WalkInv, MarkerInv, MarkersStay, walk.status = "paging",
           walk.marker # None, NEW m \in alarms, m.alarm_id = walk.marker
    PROVE  walk.got # <<>> /\ Alike(m, End, walk.keys)
<1>1. walk.got # <<>> /\ m.alarm_id = End.alarm_id /\ Len(walk.got) % PageSize = 0
  BY DEF MarkerInv
<1>2. /\ walk.keys \in SortKeys /\ m \in StoredRows /\ End \in StoredRows
      /\ Len(walk.got) \in DOMAIN walk.got
  BY <1>1, WalkTypes DEF TableInv
<1>3. CASE \A i \in DOMAIN walk.keys : walk.keys[i].field # "state"
  BY <1>1, <1>2, <1>3, SameBase DEF Alike
<1>4. CASE End.alarm_id \notin touched
  <2>1. m \in InitialAlarms
    BY <1>1, <1>4 DEF TableInv
  <2>2. End \in InitialAlarms
    BY <1>2, <1>4, WalkTypes DEF WalkInv, End
  <2>3. m = End
    BY <1>1, <2>1, <2>2, TablesAssumption
  <2>4. QED
    BY <1>1, <2>3 DEF Alike
<1>5. QED
  BY <1>1, <1>2, <1>3, <1>4 DEF MarkersStay, End

\* The database is asked for what the client has not seen.
LEMMA RestIsUnseen ==
    ASSUME TableInv, WalkInv, MarkerInv, PagesInv, KeysTellApart, MarkersStay,
           walk.status = "paging", NEW found,
           found = {row \in Listed(walk.caller) : row.alarm_id = walk.marker},
           walk.marker = None \/ found # {}
    PROVE  /\ walk.got # <<>> => \A x \in Rest(found) : After(x, End, walk.keys)
           /\ \A row \in InitialAlarms : Steady(row) => (row \in Rest(found) <=> ~ Seen(row))
<1>1. CASE walk.marker = None
  <2>1. walk.got = <<>>
    BY <1>1, WalkTypes, VersionsOf DEF MarkerInv
  <2>2. Rest(found) = Listed(walk.caller)
    BY <1>1 DEF Rest
  <2>3. DOMAIN walk.got = {}
    BY <2>1
  <2>4. QED
    BY <2>1, <2>2, <2>3, SteadyIsListed DEF Seen
<1>2. CASE walk.marker # None
  <2>1. PICK m : m = CHOOSE n \in found : TRUE
    OBVIOUS
  <2>2. m \in found
    BY <1>2, <2>1
  <2>3. m \in alarms /\ m.alarm_id = walk.marker
    BY <2>2 DEF Listed
  <2>4. walk.got # <<>> /\ Alike(m, End, walk.keys) /\ walk.keys \in SortKeys
    BY <1>2, <2>3, MarkerStandsStill, WalkTypes
  <2>5. \A x : After(x, m, walk.keys) <=> After(x, End, walk.keys)
    BY <2>4, AfterAlike
  <2>6. Rest(found) = {row \in Listed(walk.caller) : After(row, m, walk.keys)}
    BY <1>2, <2>1, PlainKeys DEF Rest
  <2>7. ASSUME NEW row \in InitialAlarms, Steady(row)
        PROVE  row \in Rest(found) <=> ~ Seen(row)
    <3>1. row \in Listed(walk.caller)
      BY <2>7, SteadyIsListed
    <3>2. Seen(row) <=> ~ After(row, End, walk.keys)
      BY <2>4, <2>7 DEF PagesInv
    <3>3. QED
      BY <2>5, <2>6, <3>1, <3>2
  <2>8. QED
    BY <2>4, <2>5, <2>6, <2>7
<1>3. QED
  BY <1>1, <1>2

\* What the client has after another page.
LEMMA PageAppended ==
    ASSUME TableInv, WalkInv, walk.status = "paging", NEW found,
           NEW page \in Pages(found),
           NEW got, got = walk.got \o page
    PROVE  /\ got \in Seq(StoredRows) /\ Len(got) = Len(walk.got) + Len(page)
           /\ DOMAIN got = 1..(Len(walk.got) + Len(page))
           /\ Len(walk.got) \in Nat /\ Len(page) \in Nat
           /\ \A i \in DOMAIN walk.got : i \in DOMAIN got /\ got[i] = walk.got[i]
           /\ \A i \in 1..Len(page) : /\ Len(walk.got) + i \in DOMAIN got
                                      /\ got[Len(walk.got) + i] = page[i]
           /\ \A i \in DOMAIN got : \/ i \in DOMAIN walk.got
                                    \/ /\ i - Len(walk.got) \in 1..Len(page)
                                       /\ got[i] = page[i - Len(walk.got)]
<1>1. page \in Seq(StoredRows) /\ Len(page) \in Nat
  BY PageOfWalk
<1>2. /\ walk.got \in Seq(StoredRows) /\ Len(walk.got) \in Nat
      /\ DOMAIN walk.got = 1..Len(walk.got)
  BY WalkTypes
<1>3. PICK n, m : n = Len(walk.got) /\ m = Len(page)
  OBVIOUS
<1>4. /\ got \in Seq(StoredRows) /\ Len(got) = n + m
      /\ \A i \in 1..(n + m) : got[i] = IF i <= n THEN walk.got[i] ELSE page[i - n]
  BY <1>1, <1>2, <1>3, ConcatProperties
<1>5. DOMAIN got = 1..(n + m) /\ n \in Nat /\ m \in Nat
  BY <1>1, <1>2, <1>3, <1>4, LenProperties
<1>6. \A i \in 1..n : i \in 1..(n + m) /\ got[i] = walk.got[i]
  BY <1>4, <1>5
<1>7. \A i \in 1..m : n + i \in 1..(n + m) /\ ~ (n + i <= n) /\ (n + i) - n = i
  BY <1>5
<1>8. \A i \in 1..m : n + i \in 1..(n + m) /\ got[n + i] = page[i]
  BY <1>4, <1>7
<1>9. \A i \in 1..(n + m) : i \in 1..n \/ (i - n \in 1..m /\ got[i] = page[i - n])
  BY <1>4, <1>5
<1>10. QED
  BY <1>2, <1>3, <1>4, <1>5, <1>6, <1>8, <1>9

\* A steady alarm and the page that comes.
Coming(page, row) == \E i \in 1..Len(page) : page[i].alarm_id = row.alarm_id

PageBrings(page, row, found) ==
    /\ \A i \in 1..Len(page) : page[i].alarm_id = row.alarm_id =>
           /\ page[i] = row /\ row \in Rest(found)
           /\ \A j \in 1..Len(page) : page[j].alarm_id = row.alarm_id => j = i
    /\ row \in Rest(found) /\ Len(page) < PageSize => Coming(page, row)
    /\ row \in Rest(found) /\ Len(page) >= PageSize =>
           (Coming(page, row) <=> ~ After(row, page[PageSize], walk.keys))

LEMMA PageOfSteady ==
    ASSUME TableInv, WalkInv, KeysTellApart, walk.status = "paging", NEW found,
           NEW page \in Pages(found),
           NEW row \in InitialAlarms, Steady(row)
    PROVE  PageBrings(page, row, found)
<1>1. /\ Len(page) \in Nat /\ Len(page) <= PageSize /\ DOMAIN page = 1..Len(page)
      /\ \A i \in 1..Len(page) : page[i] \in Rest(found) /\ page[i] \in alarms
      /\ \A i, j \in 1..Len(page) : page[i] = page[j] => i = j
      /\ \A i, j \in 1..Len(page) : i < j => ~ After(page[i], page[j], walk.keys)
      /\ \A x \in Rest(found) : \/ x \in ToSet(page)
                                \/ \A i \in 1..Len(page) : ~ After(page[i], x, walk.keys)
      /\ Len(page) < PageSize => \A x \in Rest(found) : x \in ToSet(page)
  BY PageOfWalk, PlainKeys
<1>2. row \in alarms /\ row \in StoredRows /\ walk.keys \in SortKeys
  BY SteadyIsListed, WalkTypes
<1>3. \A i \in 1..Len(page) : page[i].alarm_id = row.alarm_id => page[i] = row
  BY <1>1, <1>2 DEF TableInv
<1>4. \A i \in 1..Len(page) : page[i].alarm_id = row.alarm_id =>
          \A j \in 1..Len(page) : page[j].alarm_id = row.alarm_id => j = i
  BY <1>1, <1>3
<1>5. row \in ToSet(page) <=> Coming(page, row)
  BY <1>1, <1>3 DEF ToSet, Coming
<1>6. ASSUME row \in Rest(found), Len(page) >= PageSize
      PROVE  row \in ToSet(page) <=> ~ After(row, page[PageSize], walk.keys)
  <2>1. PageSize \in 1..Len(page) /\ Len(page) = PageSize
    <3>1. PageSize \in Nat \ {0}
      BY RequestsAssumption
    <3>2. Len(page) \in Nat /\ Len(page) <= PageSize
      BY <1>1
    <3>3. QED
      BY <1>6, <3>1, <3>2
  <2>2. PICK last : last = page[PageSize]
    OBVIOUS
  <2>3. last \in alarms /\ last \in StoredRows
    BY <1>1, <2>1, <2>2 DEF TableInv
  <2>4. Comparable(row, walk.keys) /\ Comparable(last, walk.keys)
    BY <1>2, <2>3, StoredIsComparable
  <2>5. ASSUME row \in ToSet(page) PROVE ~ After(row, last, walk.keys)
    <3>1. PICK i \in 1..Len(page) : page[i] = row
      BY <1>1, <2>5 DEF ToSet
    <3>2. CASE i = PageSize
      BY <1>2, <2>2, <2>4, <3>1, <3>2, AfterItself
    <3>3. CASE i # PageSize
      <4>1. i < PageSize
        BY <1>1, <2>1, <3>3
      <4>2. QED
        BY <1>1, <2>1, <2>2, <3>1, <4>1
    <3>4. QED
      BY <3>2, <3>3
  <2>6. ASSUME row \notin ToSet(page), ~ After(row, last, walk.keys) PROVE FALSE
    <3>1. ~ After(last, row, walk.keys)
      BY <1>1, <1>6, <2>1, <2>2, <2>6
    <3>2. Alike(row, last, walk.keys)
      BY <1>2, <2>4, <2>6, <3>1, AfterTotal
    <3>3. Place(row, "alarm_id") = Place(last, "alarm_id")
      BY <3>2 DEF KeysTellApart, Alike
    <3>4. row.alarm_id = last.alarm_id
      BY <1>2, <2>3, <3>3, SameBase
    <3>5. row = last
      BY <1>2, <2>3, <3>4 DEF TableInv
    <3>6. QED
      BY <1>1, <2>1, <2>2, <2>6, <3>5 DEF ToSet
  <2>7. QED
    BY <2>2, <2>5, <2>6
<1>7. QED
  BY <1>1, <1>3, <1>4, <1>5, <1>6 DEF PageBrings

\* And what the client has got of it then.
Brought(row, got, page) ==
    /\ \A i, j \in DOMAIN got :
           got[i].alarm_id = row.alarm_id /\ got[j].alarm_id = row.alarm_id => i = j
    /\ Len(page) < PageSize => \E i \in DOMAIN got : got[i].alarm_id = row.alarm_id
    /\ Len(page) >= PageSize =>
           ((\E i \in DOMAIN got : got[i].alarm_id = row.alarm_id) <=>
                ~ After(row, page[PageSize], walk.keys))

LEMMA SeenAfterPage ==
    ASSUME TableInv, WalkInv, MarkerInv, PagesInv, KeysTellApart, MarkersStay,
           walk.status = "paging", NEW found,
           found = {row \in Listed(walk.caller) : row.alarm_id = walk.marker},
           walk.marker = None \/ found # {},
           NEW page \in Pages(found),
           NEW got, got = walk.got \o page,
           NEW row \in InitialAlarms, Steady(row)
    PROVE  Brought(row, got, page)
<1>1. PICK n : n = Len(walk.got)
  OBVIOUS
<1>2. /\ n \in Nat /\ Len(page) \in Nat /\ DOMAIN walk.got = 1..n
      /\ DOMAIN got = 1..(n + Len(page))
      /\ \A i \in DOMAIN walk.got : i \in DOMAIN got /\ got[i] = walk.got[i]
      /\ \A i \in 1..Len(page) : n + i \in DOMAIN got /\ got[n + i] = page[i]
      /\ \A i \in DOMAIN got : \/ i \in DOMAIN walk.got
                               \/ i - n \in 1..Len(page) /\ got[i] = page[i - n]
  BY <1>1, PageAppended, WalkTypes
<1>3. (\E i \in DOMAIN got : got[i].alarm_id = row.alarm_id) <=> Seen(row) \/ Coming(page, row)
  <2>1. ASSUME NEW i \in DOMAIN got, got[i].alarm_id = row.alarm_id, ~ Seen(row)
        PROVE  Coming(page, row)
    <3>1. i - n \in 1..Len(page) /\ page[i - n].alarm_id = row.alarm_id
      BY <1>2, <2>1 DEF Seen
    <3>2. QED
      BY <3>1 DEF Coming
  <2>2. ASSUME Seen(row)
        PROVE  \E i \in DOMAIN got : got[i].alarm_id = row.alarm_id
    BY <1>2, <2>2 DEF Seen
  <2>3. ASSUME Coming(page, row)
        PROVE  \E i \in DOMAIN got : got[i].alarm_id = row.alarm_id
    <3>1. PICK i \in 1..Len(page) : page[i].alarm_id = row.alarm_id
      BY <2>3 DEF Coming
    <3>2. n + i \in DOMAIN got /\ got[n + i].alarm_id = row.alarm_id
      BY <1>2, <3>1
    <3>3. QED
      BY <3>2
  <2>4. QED
    BY <2>1, <2>2, <2>3
<1>4. row \in Rest(found) <=> ~ Seen(row)
  BY RestIsUnseen
<1>5. /\ \A i \in 1..Len(page) : page[i].alarm_id = row.alarm_id =>
             /\ page[i] = row /\ row \in Rest(found)
             /\ \A j \in 1..Len(page) : page[j].alarm_id = row.alarm_id => j = i
      /\ row \in Rest(found) /\ Len(page) < PageSize => Coming(page, row)
      /\ row \in Rest(found) /\ Len(page) >= PageSize =>
             (Coming(page, row) <=> ~ After(row, page[PageSize], walk.keys))
  <2>1. PageBrings(page, row, found)
    BY PageOfSteady
  <2>2. QED
    BY <2>1 DEF PageBrings
<1>6. \A i, j \in DOMAIN walk.got :
          walk.got[i].alarm_id = row.alarm_id /\ walk.got[j].alarm_id = row.alarm_id => i = j
  BY DEF PagesInv
<1>7. ASSUME NEW i \in DOMAIN got, NEW j \in DOMAIN got,
             got[i].alarm_id = row.alarm_id, got[j].alarm_id = row.alarm_id
      PROVE  i = j
  <2>1. CASE Seen(row)
    <3>1. \A k \in 1..Len(page) : page[k].alarm_id # row.alarm_id
      BY <1>4, <1>5, <2>1
    <3>2. ASSUME NEW k \in DOMAIN got, got[k].alarm_id = row.alarm_id
          PROVE  k \in DOMAIN walk.got /\ got[k] = walk.got[k]
      BY <1>2, <3>1, <3>2
    <3>3. QED
      BY <1>6, <1>7, <3>2
  <2>2. CASE ~ Seen(row)
    <3>1. i \notin DOMAIN walk.got /\ j \notin DOMAIN walk.got
      BY <1>2, <1>7, <2>2 DEF Seen
    <3>2. /\ i - n \in 1..Len(page) /\ page[i - n].alarm_id = row.alarm_id
          /\ j - n \in 1..Len(page) /\ page[j - n].alarm_id = row.alarm_id
      BY <1>2, <1>7, <3>1
    <3>3. j - n = i - n
      BY <1>5, <3>2
    <3>4. QED
      BY <1>2, <1>7, <3>3
  <2>3. QED
    BY <2>1, <2>2
<1>8. ASSUME Len(page) >= PageSize, Seen(row)
      PROVE  ~ After(row, page[PageSize], walk.keys)
  <2>1. walk.got # <<>>
    BY <1>8 DEF Seen
  <2>2. ~ After(row, End, walk.keys)
    BY <1>8, <2>1 DEF PagesInv
  <2>3. PageSize \in 1..Len(page)
    BY <1>2, <1>8, RequestsAssumption
  <2>4. PICK last : last = page[PageSize]
    OBVIOUS
  <2>5. last \in Rest(found) /\ last \in alarms
    BY <2>3, <2>4, PageOfWalk
  <2>6. After(last, End, walk.keys)
    BY <2>1, <2>5, RestIsUnseen
  <2>7. /\ row \in StoredRows /\ last \in StoredRows /\ End \in StoredRows
        /\ walk.keys \in SortKeys
    BY <2>1, <2>5, SteadyIsListed, WalkTypes DEF TableInv
  <2>8. Comparable(row, walk.keys) /\ Comparable(last, walk.keys) /\ Comparable(End, walk.keys)
    BY <2>7, StoredIsComparable
  <2>9. QED
    BY <2>2, <2>4, <2>6, <2>7, <2>8, AfterTransitive
<1>9. QED
  BY <1>3, <1>4, <1>5, <1>7, <1>8 DEF Brought

LEMMA NextPageSeen == TableInv /\ WalkInv /\ MarkerInv /\ PagesInv /\ NextPage
                          => MarkerInv' /\ PagesInv'
<1> SUFFICES ASSUME TableInv, WalkInv, MarkerInv, PagesInv, NextPage
             PROVE  MarkerInv' /\ PagesInv'
  OBVIOUS
<1>1. /\ walk \in Walks /\ walk # NoWalk /\ walk.status = "paging"
      /\ UNCHANGED <<alarms, answer, touched>>
  BY NextPageGives
<1>2. ASSUME NEW status \in {"marker not found", "not implemented"},
             walk' = [walk EXCEPT !.status = status]
      PROVE  MarkerInv' /\ PagesInv'
  <2>1. walk'.status \notin {"paging", "complete"}
    BY <1>1, <1>2 DEF Walks
  <2>3. QED
    BY <2>1 DEF MarkerInv, PagesInv
<1>3. ASSUME NEW found, NEW page \in Pages(found),
             found = {row \in Listed(walk.caller) : row.alarm_id = walk.marker},
             walk.marker = None \/ found # {},
             walk' = IF Len(page) < PageSize
                       THEN [walk EXCEPT !.got = @ \o page, !.status = "complete"]
                       ELSE [walk EXCEPT !.got = @ \o page, !.marker = page[PageSize].alarm_id]
      PROVE  MarkerInv' /\ PagesInv'
  <2>1. PICK got, marker : got = walk.got \o page /\ marker = page[PageSize].alarm_id
    OBVIOUS
  <2>2. /\ Len(page) \in Nat /\ Len(page) <= PageSize /\ PageSize \in Nat \ {0}
    BY <1>3, PageOfWalk, RequestsAssumption
  <2>3. /\ walk'.got = got /\ walk'.keys = walk.keys /\ walk'.caller = walk.caller
        /\ Len(page) < PageSize => walk'.status = "complete"
        /\ Len(page) >= PageSize => walk'.status = "paging" /\ walk'.marker = marker
    <3>1. CASE Len(page) < PageSize
      <4>1. walk' = [walk EXCEPT !.got = got, !.status = "complete"]
        BY <1>3, <2>1, <3>1
      <4>2. /\ walk'.got = got /\ walk'.keys = walk.keys /\ walk'.caller = walk.caller
            /\ walk'.status = "complete"
        BY <1>1, <4>1 DEF Walks
      <4>3. ~ (Len(page) >= PageSize)
        BY <2>2, <3>1
      <4>4. QED
        BY <4>2, <4>3
    <3>2. CASE ~ (Len(page) < PageSize)
      <4>1. walk' = [walk EXCEPT !.got = got, !.marker = marker]
        BY <1>3, <2>1, <3>2
      <4>2. QED
        BY <1>1, <2>1, <3>2, <4>1 DEF Walks
    <3>3. QED
      BY <3>1, <3>2
  <2>4. /\ Len(got) = Len(walk.got) + Len(page)
        /\ Len(walk.got) \in Nat /\ DOMAIN got = 1..(Len(walk.got) + Len(page))
        /\ \A i \in DOMAIN walk.got : i \in DOMAIN got /\ got[i] = walk.got[i]
        /\ \A i \in 1..Len(page) : /\ Len(walk.got) + i \in DOMAIN got
                                   /\ got[Len(walk.got) + i] = page[i]
    <3>1. walk.status = "paging" /\ page \in Pages(found) /\ got = walk.got \o page
      BY <1>1, <1>3, <2>1
    <3>2. /\ Len(got) = Len(walk.got) + Len(page)
          /\ Len(walk.got) \in Nat /\ DOMAIN got = 1..(Len(walk.got) + Len(page))
      BY <3>1, PageAppended
    <3>3. \A i \in DOMAIN walk.got : i \in DOMAIN got /\ got[i] = walk.got[i]
      BY <3>1, PageAppended
    <3>4. \A i \in 1..Len(page) : /\ Len(walk.got) + i \in DOMAIN got
                                  /\ got[Len(walk.got) + i] = page[i]
      BY <3>1, PageAppended
    <3>5. QED
      BY <3>2, <3>3, <3>4
  <2>5. ASSUME Len(page) >= PageSize
        PROVE  /\ got # <<>> /\ got[Len(got)] = page[PageSize]
               /\ Len(got) % PageSize = 0
    <3>1. Len(page) = PageSize /\ PageSize \in 1..Len(page)
      BY <2>2, <2>5
    <3>2. Len(got) = Len(walk.got) + PageSize /\ got[Len(got)] = page[PageSize]
      BY <2>4, <3>1
    <3>3. got # <<>>
      BY <2>2, <2>4, <3>1
    <3>4. Len(walk.got) % PageSize = 0
      <4>1. CASE walk.got # <<>>
        BY <1>1, <4>1 DEF MarkerInv
      <4>2. CASE walk.got = <<>>
        BY <2>2, <4>2
      <4>3. QED
        BY <4>1, <4>2
    <3>5. Len(got) % PageSize = 0
      BY <2>2, <2>4, <3>2, <3>4, AddedPage
    <3>6. QED
      BY <3>2, <3>3, <3>5
  <2>6. MarkerInv'
    <3>1. CASE Len(page) < PageSize
      BY <2>3, <3>1 DEF MarkerInv
    <3>2. CASE Len(page) >= PageSize
      BY <2>1, <2>3, <2>5, <3>2 DEF MarkerInv, End
    <3>3. QED
      BY <2>2, <3>1, <3>2
  <2>7. KeysTellApart' => KeysTellApart
    BY <2>3 DEF KeysTellApart
  <2>8. MarkersStay' => MarkersStay
    BY <1>1, <2>3, <2>4 DEF MarkersStay
  <2>9. ASSUME KeysTellApart', MarkersStay', NEW row \in InitialAlarms, Steady(row)'
        PROVE  Brought(row, got, page)
    <3>1. Steady(row)
      BY <1>1, <2>3, <2>9 DEF Steady
    <3>2. QED
      BY <1>1, <1>3, <2>1, <2>7, <2>8, <2>9, <3>1, SeenAfterPage
  <2>10. PagesInv'
    <3>1. CASE Len(page) < PageSize
      BY <2>3, <2>9, <3>1 DEF PagesInv, Seen, Brought
    <3>2. CASE Len(page) >= PageSize
      BY <2>3, <2>5, <2>9, <3>2 DEF PagesInv, Seen, End, Brought
    <3>3. QED
      BY <2>2, <3>1, <3>2
  <2>11. QED
    BY <2>6, <2>10
<1>4. QED
  BY <1>2, <1>3, NextPageGives

LEMMA AskSeen ==
    ASSUME WalkInv, MarkerInv, PagesInv, NEW caller, Ask(caller)
    PROVE  MarkerInv' /\ PagesInv'
<1>1. walk.status = "none"
  BY DEF Ask, AskComplex, AskHistory, StartWalk, Quiet
<1>2. CASE walk' = walk
  BY <1>1, <1>2 DEF MarkerInv, PagesInv
<1>3. ASSUME NEW keys, StartWalk(caller, keys)
      PROVE  MarkerInv' /\ PagesInv'
  <2>1. walk' = [status |-> "paging", caller |-> caller, keys |-> keys, marker |-> None,
                 got |-> <<>>]
    BY <1>3 DEF StartWalk
  <2>2. walk'.status = "paging" /\ walk'.got = <<>> /\ walk'.marker = None
    BY <2>1
  <2>3. MarkerInv'
    BY <2>2 DEF MarkerInv
  <2>4. DOMAIN walk'.got = {}
    BY <2>2
  <2>5. PagesInv'
    BY <2>2, <2>4 DEF PagesInv
  <2>6. QED
    BY <2>3, <2>5
<1>4. QED
  BY <1>2, <1>3 DEF Ask, AskComplex, AskHistory

\* A write makes one alarm more an alarm that somebody wrote.
LEMMA WriteSeen ==
    ASSUME MarkerInv, PagesInv, NEW a, Writes(a)
    PROVE  MarkerInv' /\ PagesInv'
<1>1. walk' = walk /\ touched \subseteq touched'
  BY DEF Writes
<1>2. MarkerInv'
  BY <1>1 DEF MarkerInv, End
<1>3. (MarkersStay' => MarkersStay) /\ (KeysTellApart' <=> KeysTellApart)
  BY <1>1 DEF MarkersStay, KeysTellApart
<1>4. \A row : Steady(row)' => Steady(row)
  BY <1>1 DEF Steady
<1>5. \A row : Seen(row)' <=> Seen(row)
  BY <1>1 DEF Seen
<1>6. PagesInv'
  BY <1>1, <1>3, <1>4, <1>5 DEF PagesInv, End
<1>7. QED
  BY <1>2, <1>6

LEMMA SeenStep == TableInv /\ WalkInv /\ MarkerInv /\ PagesInv /\ [Next]_vars
                      => MarkerInv' /\ PagesInv'
<1> SUFFICES ASSUME TableInv, WalkInv, MarkerInv, PagesInv, [Next]_vars
             PROVE  MarkerInv' /\ PagesInv'
  OBVIOUS
<1>1. CASE UNCHANGED vars
  BY <1>1 DEF vars, MarkerInv, PagesInv, End, Steady, Seen, KeysTellApart, MarkersStay
<1>2. CASE \/ \E row \in Newcomers : Insert(row)
           \/ \E row \in alarms : Delete(row) \/ Update(row)
  BY <1>2, WriteSeen DEF Insert, Delete, Update
<1>3. QED
  BY <1>1, <1>2, AskSeen, NextPageSeen DEF Next

LEMMA SeenOnce ==
    ASSUME TableInv, WalkInv, PagesInv
    PROVE  PagesMissNothing
<1> SUFFICES ASSUME walk.status \in {"paging", "complete"}, KeysTellApart, MarkersStay,
                    NEW row \in InitialAlarms, row.alarm_id \notin touched,
                    row \in Listed(walk.caller)
             PROVE  /\ Times(row.alarm_id) <= 1
                    /\ walk.status = "complete" => Times(row.alarm_id) = 1
  BY DEF PagesMissNothing
<1>1. PICK places : places = {i \in DOMAIN walk.got : walk.got[i].alarm_id = row.alarm_id}
  OBVIOUS
<1>2. Steady(row)
  BY DEF Steady, Listed
<1>3. /\ \A i, j \in places : i = j
      /\ walk.status = "complete" => places # {}
  BY <1>1, <1>2 DEF PagesInv, Seen
<1>4. CASE places = {}
  <2>1. Times(row.alarm_id) = Cardinality(places)
    BY <1>1 DEF Times
  <2>2. Times(row.alarm_id) = 0
    BY <1>4, <2>1, FS_EmptySet
  <2>3. QED
    BY <1>3, <1>4, <2>2
<1>5. CASE places # {}
  <2>1. PICK i : places = {i}
    BY <1>3, <1>5
  <2>2. Times(row.alarm_id) = 1
    BY <1>1, <2>1, FS_Singleton DEF Times
  <2>3. QED
    BY <2>2
<1>6. QED
  BY <1>4, <1>5

\* A client that follows the markers sees every alarm that nobody wrote exactly
\* once, with pages of any length and any writes between them.
THEOREM PagesAlways == Spec => []PagesMissNothing
<1>1. Init => MarkerInv /\ PagesInv
  BY DEF Init, MarkerInv, PagesInv, NoWalk
<1>2. Spec => [](MarkerInv /\ PagesInv)
  BY <1>1, SeenStep, InvAlways, PTL DEF Spec
<1>3. QED
  BY <1>2, SeenOnce, InvAlways, PTL

================================================================================
