------------------------- MODULE AlarmEvaluationProofs -------------------------
(***************************************************************************)
(* Proofs about AlarmEvaluation, for every number of alarms, workers,      *)
(* requests, stamps and faults: types, the claims, deletions, the          *)
(* implementation of AlarmLifecycle, and what the history and the          *)
(* notifications tell of the alarms.                                       *)
(***************************************************************************)
EXTENDS AlarmEvaluation, TLAPS

\* A row that is there is a row of the right shape, under its own key.
LEMMA RowInTable ==
    ASSUME TypeOK, NEW a \in Alarms, Exists(a)
    PROVE  db[a] \in Row /\ db[a].alarm_id = a
BY DEF TypeOK, Exists

\* A worker past its claim holds a row.
LEMMA RowInHand ==
    ASSUME TypeOK, NEW w \in Workers, pc[w] \notin {"idle", "loop"}
    PROVE  cur[w] \in Row /\ cur[w].alarm_id \in Alarms
<1>1. cur[w] \in Row
  BY DEF TypeOK
<1>2. QED
  BY <1>1 DEF Row

\* A request in progress holds a row.
LEMMA RowInRequest ==
    ASSUME TypeOK, NEW c \in Clients, req[c] # None
    PROVE  req[c] \in Request /\ req[c].alarm \in Row
BY DEF TypeOK, Request

\* Writing a row of the right shape under its key keeps the table and the
\* claims well typed.
LEMMA WriteRowType ==
    ASSUME TypeOK, NEW row \in Row, WriteRow(row)
    PROVE  /\ db' \in [Alarms -> Row \cup {Unborn, Deleted}]
           /\ \A a \in Alarms : Exists(a)' => db'[a].alarm_id = a
           /\ claim' \in [Workers -> {"none", "held", "undone"}]
           /\ \A w \in Workers : claim'[w] # "none" => cur[w] # None
<1>1. row.alarm_id \in Alarms
  BY DEF Row
<1>2. db' = [db EXCEPT ![row.alarm_id] = row]
  BY DEF WriteRow
<1>3. db' \in [Alarms -> Row \cup {Unborn, Deleted}]
  BY <1>1, <1>2 DEF TypeOK
<1>4. \A a \in Alarms : Exists(a)' => db'[a].alarm_id = a
  BY <1>1, <1>2 DEF TypeOK, Exists
<1>5. \A w \in Workers : claim'[w] = IF Undoes(row, w) THEN "undone" ELSE claim[w]
  BY DEF WriteRow
<1>6. claim' \in [Workers -> {"none", "held", "undone"}]
  BY <1>5 DEF WriteRow, TypeOK
<1>7. \A w \in Workers : claim'[w] # "none" => cur[w] # None
  BY <1>5 DEF TypeOK, Undoes
<1>8. QED
  BY <1>3, <1>4, <1>6, <1>7

\* What is remembered as lost is about alarms.
LEMMA LostType ==
    ASSUME TypeOK
    PROVE  /\ \A row \in Row : \A recorded : WriteDrifts(row, recorded) => adrift' \subseteq Alarms
           /\ \A row \in Row : RequestUnheard(row) => unheard' \subseteq Alarms
           /\ \A w \in Workers : StoreRow(w) /\ cur[w] \in Row
                  => adrift' \subseteq Alarms /\ unheard' \subseteq Alarms
           /\ \A w \in Workers : \A recorded : FailureLoses(w, recorded)
                  => adrift' \subseteq Alarms /\ unheard' \subseteq Alarms
<1>1. \A row \in Row : row.alarm_id \in Alarms
  BY DEF Row
<1>2. \A row \in Row : \A recorded : WriteDrifts(row, recorded) => adrift' \subseteq Alarms
  BY <1>1 DEF WriteDrifts, Marked, TypeOK
<1>3. \A row \in Row : RequestUnheard(row) => unheard' \subseteq Alarms
  BY <1>1 DEF RequestUnheard, Marked, TypeOK
<1>4. \A w \in Workers : StoreRow(w) /\ cur[w] \in Row
          => adrift' \subseteq Alarms /\ unheard' \subseteq Alarms
  BY <1>1, <1>2 DEF StoreRow, TypeOK
<1>5. \A w \in Workers : \A recorded : FailureLoses(w, recorded)
          => adrift' \subseteq Alarms /\ unheard' \subseteq Alarms
  BY RowInHand DEF FailureLoses, TypeOK
<1>6. QED
  BY <1>2, <1>3, <1>4, <1>5

LEMMA TypeInit == Init => TypeOK
<1> SUFFICES ASSUME Init PROVE TypeOK
  OBVIOUS
<1> USE ValuesAssumption
<1>1. db \in [Alarms -> Row \cup {Unborn, Deleted}]
  BY DEF Init
<1>2. \A a \in Alarms : Exists(a) => db[a] \in Row /\ db[a].alarm_id = a
  BY DEF Init, Exists
<1>3. history \in [Alarms -> States \cup {None}]
  BY <1>2 DEF Init, Row
<1>4. \A w \in Workers : cur[w] = None <=> pc[w] \in {"idle", "loop"}
  BY DEF Init
<1>5. QED
  BY <1>1, <1>2, <1>3, <1>4 DEF Init, TypeOK

\* A worker that takes no row in hand, or lays its row down.
LEMMA DoneType ==
    ASSUME TypeOK, NEW w \in Workers, Done(w)
    PROVE  /\ pc' \in [Workers -> {"idle", "loop", "evaluate", "store", "record", "notify"}]
           /\ cur' \in [Workers -> Row \cup {None}]
           /\ claim' \in [Workers -> {"none", "held", "undone"}]
           /\ \A v \in Workers : cur'[v] = None <=> pc'[v] \in {"idle", "loop"}
           /\ \A v \in Workers : claim'[v] # "none" => cur'[v] # None
BY DEF TypeOK, Done

\* The steps of a worker keep the types.
LEMMA WorkType ==
    ASSUME TypeOK, NEW w \in Workers, Work(w)
    PROVE  TypeOK'
<1> USE ValuesAssumption
<1>1. CASE Select(w)
  <2>1. \A a \in Alarms : Exists(a) => db[a] \in Row
    BY RowInTable
  <2>2. PICK mine \in SUBSET {a \in Alarms : Due(a)} :
            todo' = [todo EXCEPT ![w] = {db[a] : a \in mine}]
    BY <1>1 DEF Select
  <2>3. {db[a] : a \in mine} \subseteq Row
    BY <2>1 DEF Due
  <2>4. todo' \in [Workers -> SUBSET Row]
    BY <2>2, <2>3 DEF TypeOK
  <2>5. pc' = [pc EXCEPT ![w] = "loop"] /\ pc[w] = "idle"
    BY <1>1 DEF Select
  <2>6. QED
    BY <1>1, <2>4, <2>5 DEF Select, lost, TypeOK, Exists
<1>2. CASE \E row \in todo[w] : TakeAssigned(w, row)
  BY <1>2 DEF TakeAssigned, lost, TypeOK, Exists
<1>3. CASE \E row \in todo[w] : Claim(w, row)
  BY <1>3 DEF Claim, SameStamp, UtcNow, lost, TypeOK, Exists, Row
<1>4. CASE \E row \in todo[w] : SkipHandled(w, row)
  BY <1>4 DEF SkipHandled, lost, TypeOK, Exists
<1>5. CASE EndCycle(w)
  BY <1>5 DEF EndCycle, lost, TypeOK, Exists
<1>6. CASE NoRefresh(w)
  BY <1>6, DoneType DEF NoRefresh, lost, TypeOK, Exists
<1>7. CASE Refresh(w)
  BY <1>7, DoneType, RowInHand DEF Refresh, Marked, lost, TypeOK, Exists, Row
<1>8. CASE Store(w)
  BY <1>8, WriteRowType, RowInHand, LostType DEF Store, StoreRow, TypeOK, Exists
<1>9. CASE StoreNotFound(w)
  BY <1>9 DEF StoreNotFound, lost, TypeOK, Exists
<1>10. CASE Record(w)
  BY <1>10, RowInHand DEF Record, RecordChange, lost, TypeOK, Exists, Row
<1>11. CASE RecordOrphan(w)
  BY <1>11, DoneType DEF RecordOrphan, lost, TypeOK, Exists
<1>12. CASE Notify(w)
  BY <1>12, DoneType, RowInHand DEF Notify, lost, TypeOK, Exists, Row
<1>13. CASE Restart(w)
  BY <1>13 DEF Restart, workerVars, lost, TypeOK, Exists
<1>14. QED
  BY <1>1, <1>2, <1>3, <1>4, <1>5, <1>6, <1>7, <1>8, <1>9, <1>10, <1>11,
     <1>12, <1>13 DEF Work, Handle

\* The faults of a worker keep the types.
LEMMA FailType ==
    ASSUME TypeOK, NEW w \in Workers, Fail(w)
    PROVE  TypeOK'
<1>1. CASE RefreshFails(w)
  <2>1. adrift' \subseteq Alarms /\ unheard' \subseteq Alarms
    BY <1>1, LostType DEF RefreshFails
  <2>2. cur[w].alarm_id \in Alarms /\ cur[w].state \in States
    BY <1>1, RowInHand DEF RefreshFails, Row
  <2>3. Done(w) /\ history' \in [Alarms -> States \cup {None}]
    BY <1>1, <2>2 DEF RefreshFails, RecordChange, TypeOK
  <2>4. QED
    BY <1>1, <2>1, <2>3, DoneType DEF RefreshFails, Fault, TypeOK, Exists
<1>2. CASE AbortCycle(w)
  BY <1>2 DEF AbortCycle, Fault, Forget, lost, TypeOK, Exists
<1>3. CASE Crash(w)
  <2>1. adrift' \subseteq Alarms /\ unheard' \subseteq Alarms
    BY <1>3, LostType DEF Crash
  <2>2. QED
    BY <1>3, <2>1 DEF Crash, Fault, Forget, TypeOK, Exists
<1>4. CASE Terminate(w)
  BY <1>4 DEF Terminate, Fault, workerVars, lost, TypeOK, Exists
<1>5. QED
  BY <1>1, <1>2, <1>3, <1>4 DEF Fail

\* The steps of a request keep the types.
LEMMA ServeType ==
    ASSUME TypeOK, NEW c \in Clients, Serve(c)
    PROVE  TypeOK'
<1> USE ValuesAssumption
<1>1. ASSUME NEW a \in Alarms, Post(c, a)
      PROVE  TypeOK'
  BY <1>1 DEF Post, Admit, UtcNow, workerVars, lost, TypeOK, Exists, Row, Request
<1>2. ASSUME NEW a \in Alarms, ReadAlarm(c, a)
      PROVE  TypeOK'
  BY <1>2, RowInTable
  DEF ReadAlarm, Admit, workerVars, lost, TypeOK, Exists, Request
<1>3. CASE Put(c)
  <2>1. PICK state \in States, enabled \in BOOLEAN, body \in BodyStamps :
            LET new == PutAlarm(req[c].alarm, state, enabled, body)
            IN  /\ WriteRow(new)
                /\ WriteDrifts(new, RecordHistory /\ new.state # req[c].alarm.state)
                /\ RequestUnheard(new)
                /\ req' = [req EXCEPT ![c] = ToRecord(req[c].alarm, new, FALSE)]
    BY <1>3 DEF Put
  <2> DEFINE new == PutAlarm(req[c].alarm, state, enabled, body)
  <2>2. new \in Row
    BY <1>3, RowInRequest DEF Put, PutAlarm, Row
  <2>3. ToRecord(req[c].alarm, new, FALSE) \in Request \cup {None}
    BY <2>2 DEF ToRecord, Request
  <2>4. WriteRow(new)
    BY <2>1
  <2>5. req' = [req EXCEPT ![c] = ToRecord(req[c].alarm, new, FALSE)]
    BY <2>1
  <2>6. adrift' \subseteq Alarms /\ unheard' \subseteq Alarms
    BY <2>1, <2>2, LostType
  <2> HIDE DEF new
  <2>7. QED
    BY <1>3, <2>2, <2>3, <2>4, <2>5, <2>6, WriteRowType DEF Put, TypeOK, Exists
<1>4. CASE PutState(c)
  <2>1. PICK state \in States :
            LET new == [req[c].alarm EXCEPT !.state = state]
            IN  /\ WriteRow(new)
                /\ WriteDrifts(new, RecordHistory)
                /\ RequestUnheard(new)
                /\ req' = [req EXCEPT ![c] = ToRecord(req[c].alarm, new, TRUE)]
    BY <1>4 DEF PutState
  <2> DEFINE new == [req[c].alarm EXCEPT !.state = state]
  <2>2. new \in Row
    BY <1>4, RowInRequest DEF PutState, Row
  <2>3. ToRecord(req[c].alarm, new, TRUE) \in Request \cup {None}
    BY <2>2 DEF ToRecord, Request
  <2>4. WriteRow(new)
    BY <2>1
  <2>5. req' = [req EXCEPT ![c] = ToRecord(req[c].alarm, new, TRUE)]
    BY <2>1
  <2>6. adrift' \subseteq Alarms /\ unheard' \subseteq Alarms
    BY <2>1, <2>2, LostType
  <2> HIDE DEF new
  <2>7. QED
    BY <1>4, <2>2, <2>3, <2>4, <2>5, <2>6, WriteRowType DEF PutState, TypeOK, Exists
<1>5. CASE DeleteAlarm(c)
  BY <1>5, RowInRequest DEF DeleteAlarm, workerVars, lost, TypeOK, Exists, Row
<1>6. CASE RecordRequest(c)
  BY <1>6, RowInRequest DEF RecordRequest, RecordChange, workerVars, lost, TypeOK, Exists, Row
<1>7. CASE RequestNotFound(c)
  BY <1>7 DEF RequestNotFound, workerVars, lost, TypeOK, Exists
<1>8. CASE RequestFails(c)
  BY <1>8, RowInRequest DEF RequestFails, Fault, Marked, Row, workerVars, TypeOK, Exists
<1>9. QED
  BY <1>1, <1>2, <1>3, <1>4, <1>5, <1>6, <1>7, <1>8 DEF Serve

LEMMA TypeStep == TypeOK /\ [Next]_vars => TypeOK'
<1> SUFFICES ASSUME TypeOK, [Next]_vars PROVE TypeOK'
  OBVIOUS
<1>1. ASSUME NEW s \in Stamps, Age(s) PROVE TypeOK'
  BY <1>1 DEF Age, workerVars, lost, TypeOK, Exists
<1>2. ASSUME NEW a \in Alarms, MeasuresChange(a) PROVE TypeOK'
  BY <1>2 DEF MeasuresChange, workerVars, lost, TypeOK, Exists
<1>3. CASE UNCHANGED vars
  BY <1>3 DEF vars, TypeOK, Exists
<1>4. QED
  BY <1>1, <1>2, <1>3, WorkType, FailType, ServeType DEF Next

\* Type correctness of the service for every instance.
THEOREM TypeCorrect == Spec => []TypeOK
BY TypeInit, TypeStep, PTL DEF Spec

--------------------------------------------------------------------------------
(* The compare-and-swap. *)

\* What makes OneClaimPerStamp inductive: while a claim is held, the row has
\* moved on from the stamp that the claim was made from, or is gone.
MovedOn ==
    \A w \in Workers :
        claim[w] = "held" /\ Exists(cur[w].alarm_id) =>
            db[cur[w].alarm_id].evaluate_timestamp # cur[w].evaluate_timestamp

ClaimInv == MovedOn /\ OneClaimPerStamp

\* A held claim that this step did not make.
Kept(v) ==
    /\ claim[v] = "held"
    /\ cur'[v].alarm_id = cur[v].alarm_id
    /\ cur'[v].evaluate_timestamp = cur[v].evaluate_timestamp

\* A step that makes no claim and leaves the rows alone, or takes one away,
\* keeps the invariant.
LEMMA NoNewClaim ==
    ASSUME TypeOK, ClaimInv,
           \A v \in Workers : claim'[v] = "held" => Kept(v),
           \A a \in Alarms : Exists(a)' => Exists(a) /\ db'[a] = db[a]
    PROVE  ClaimInv'
<1>1. \A v \in Workers : claim[v] = "held" => cur[v].alarm_id \in Alarms
  BY DEF TypeOK, Row
<1>2. QED
  BY <1>1 DEF ClaimInv, MovedOn, OneClaimPerStamp, SameClaim, Kept

\* Writing a whole row keeps it too: the claims it undoes are no longer held.
LEMMA WriteRowClaims ==
    ASSUME TypeOK, ClaimInv, NEW row \in Row, WriteRow(row), cur' = cur
    PROVE  ClaimInv'
<1>1. row.alarm_id \in Alarms
  BY DEF Row
<1>2. \A v \in Workers : claim'[v] = "held" => claim[v] = "held" /\ ~Undoes(row, v)
  BY DEF WriteRow, Undoes
<1>3. OneClaimPerStamp'
  BY <1>2 DEF ClaimInv, OneClaimPerStamp, SameClaim
<1>4. db' = [db EXCEPT ![row.alarm_id] = row]
  BY DEF WriteRow
<1>5. MovedOn'
  <2> SUFFICES ASSUME NEW v \in Workers, claim'[v] = "held",
                      Exists(cur[v].alarm_id)'
               PROVE  db'[cur[v].alarm_id].evaluate_timestamp # cur[v].evaluate_timestamp
    BY DEF MovedOn
  <2>1. cur[v] \in Row
    BY <1>2 DEF TypeOK
  <2>2. CASE cur[v].alarm_id = row.alarm_id
    BY <1>1, <1>2, <1>4, <2>2 DEF Undoes, TypeOK
  <2>3. CASE cur[v].alarm_id # row.alarm_id
    BY <1>2, <1>4, <2>1, <2>3 DEF ClaimInv, MovedOn, Exists, TypeOK, Row
  <2>4. QED
    BY <2>2, <2>3
<1>6. QED
  BY <1>3, <1>5 DEF ClaimInv

\* The swap itself: the row gets a stamp that nobody holds, and whoever had
\* claimed from the stamp it replaces would contradict MovedOn.
LEMMA ClaimClaims ==
    ASSUME TypeOK, ClaimInv, NEW w \in Workers, NEW row \in todo[w], Claim(w, row)
    PROVE  ClaimInv'
<1> DEFINE a == row.alarm_id
<1>1. row \in Row /\ a \in Alarms /\ db[a] \in Row
  <2>1. row \in Row
    BY DEF TypeOK
  <2>2. a \in Alarms
    BY <2>1 DEF Row
  <2>3. db[a] \in Row
    BY <2>2, RowInTable DEF Claim, SameStamp
  <2>4. QED
    BY <2>1, <2>2, <2>3
<1>2. PICK s \in Stamps : Fresh(s) /\ db' = [db EXCEPT ![a].evaluate_timestamp = s]
  BY DEF Claim, UtcNow
<1>3. cur' = [cur EXCEPT ![w] = row] /\ claim' = [claim EXCEPT ![w] = "held"]
  BY DEF Claim
<1>4. \A v \in Workers : v # w /\ claim'[v] = "held" =>
          /\ claim[v] = "held"
          /\ cur'[v] = cur[v]
          /\ cur[v] \in Row
          /\ cur[v].evaluate_timestamp # s
  BY <1>2, <1>3 DEF TypeOK, Fresh
<1>5. cur'[w] = row /\ row.evaluate_timestamp # s
  BY <1>2, <1>3 DEF TypeOK, Fresh
<1>6. db[a].evaluate_timestamp = row.evaluate_timestamp /\ Exists(a)
  BY DEF Claim, SameStamp
<1>7. db'[a].evaluate_timestamp = s /\ \A b \in Alarms : b # a => db'[b] = db[b]
  BY <1>1, <1>2 DEF TypeOK, Row
<1>8. MovedOn'
  <2> SUFFICES ASSUME NEW v \in Workers, claim'[v] = "held",
                      Exists(cur[v].alarm_id)'
               PROVE  db'[cur'[v].alarm_id].evaluate_timestamp
                          # cur'[v].evaluate_timestamp
    BY DEF MovedOn, Exists
  <2>1. CASE v = w
    BY <1>5, <1>7, <2>1
  <2>2. CASE v # w
    <3>1. cur[v].alarm_id \in Alarms
      BY <1>4, <2>2 DEF Row
    <3>2. QED
      BY <1>4, <1>7, <2>2, <3>1 DEF ClaimInv, MovedOn, Exists
  <2>3. QED
    BY <2>1, <2>2
<1>9. OneClaimPerStamp'
  <2>1. \A v \in Workers : v # w /\ claim[v] = "held" =>
            ~(/\ cur[v].alarm_id = row.alarm_id
              /\ cur[v].evaluate_timestamp = row.evaluate_timestamp)
    BY <1>6 DEF ClaimInv, MovedOn
  <2>2. QED
    BY <1>4, <1>5, <2>1 DEF ClaimInv, OneClaimPerStamp, SameClaim
<1>10. QED
  BY <1>8, <1>9 DEF ClaimInv

\* The steps of a worker: one claims, one writes, the others let go.
LEMMA WorkClaims ==
    ASSUME TypeOK, ClaimInv, NEW w \in Workers, Work(w)
    PROVE  ClaimInv'
<1>1. CASE \E row \in todo[w] : Claim(w, row)
  BY <1>1, ClaimClaims
<1>2. CASE Store(w)
  <2>1. cur[w] \in Row
    BY <1>2, RowInHand DEF Store
  <2>2. QED
    BY <1>2, <2>1, WriteRowClaims DEF Store, StoreRow
<1>3. CASE Select(w) \/ EndCycle(w) \/ Restart(w)
  BY <1>3, NoNewClaim DEF Select, EndCycle, Restart, workerVars, Kept, Exists
<1>4. CASE \E row \in todo[w] : TakeAssigned(w, row) \/ SkipHandled(w, row)
  <2>1. \A v \in Workers : claim'[v] = "held" => Kept(v)
    BY <1>4 DEF TakeAssigned, SkipHandled, Kept, TypeOK
  <2>2. db' = db
    BY <1>4 DEF TakeAssigned, SkipHandled
  <2>3. QED
    BY <2>1, <2>2, NoNewClaim DEF Exists
<1>5. CASE \/ NoRefresh(w) \/ Refresh(w) \/ StoreNotFound(w)
           \/ Record(w) \/ RecordOrphan(w) \/ Notify(w)
  <2>1. \A v \in Workers : claim'[v] = "held" => Kept(v)
    BY <1>5, RowInHand
    DEF NoRefresh, Refresh, StoreNotFound, Record, RecordOrphan, Notify, Done,
        Kept, TypeOK, Row
  <2>2. db' = db
    BY <1>5 DEF NoRefresh, Refresh, StoreNotFound, Record, RecordOrphan, Notify
  <2>3. QED
    BY <2>1, <2>2, NoNewClaim DEF Exists
<1>6. QED
  BY <1>1, <1>2, <1>3, <1>4, <1>5 DEF Work, Handle

LEMMA FailClaims ==
    ASSUME TypeOK, ClaimInv, NEW w \in Workers, Fail(w)
    PROVE  ClaimInv'
<1>1. \A v \in Workers : claim'[v] = "held" => Kept(v)
  <2>1. CASE RefreshFails(w)
    BY <2>1 DEF RefreshFails, Done, Kept, TypeOK
  <2>2. CASE AbortCycle(w) \/ Crash(w)
    <3>1. Forget(w)
      BY <2>2 DEF AbortCycle, Crash
    <3>2. QED
      BY <3>1 DEF Forget, Kept, TypeOK
  <2>3. CASE Terminate(w)
    BY <2>3 DEF Terminate, workerVars, Kept
  <2>4. QED
    BY <2>1, <2>2, <2>3 DEF Fail
<1>2. db' = db
  BY DEF Fail, RefreshFails, AbortCycle, Crash, Terminate
<1>3. QED
  BY <1>1, <1>2, NoNewClaim DEF Exists

\* The steps of a request: a new row has a fresh stamp, a written row undoes.
LEMMA ServeClaims ==
    ASSUME TypeOK, ClaimInv, NEW c \in Clients, Serve(c)
    PROVE  ClaimInv'
<1>1. ASSUME NEW a \in Alarms, Post(c, a)
      PROVE  ClaimInv'
  <2>1. PICK state \in States, enabled \in BOOLEAN, s \in Stamps :
            /\ Fresh(s)
            /\ db' = [db EXCEPT ![a] =
                         [alarm_id |-> a, state |-> state, enabled |-> enabled,
                          evaluate_timestamp |-> s]]
    BY <1>1 DEF Post, UtcNow
  <2>2. cur' = cur /\ claim' = claim
    BY <1>1 DEF Post, workerVars
  <2>3. \A v \in Workers : claim[v] = "held" =>
            cur[v] \in Row /\ cur[v].evaluate_timestamp # s
    BY <2>1 DEF Fresh, TypeOK
  <2>4. MovedOn'
    BY <2>1, <2>2, <2>3 DEF ClaimInv, MovedOn, Exists, TypeOK, Row
  <2>5. QED
    BY <2>2, <2>4 DEF ClaimInv, OneClaimPerStamp, SameClaim
<1>2. CASE Put(c)
  <2>1. PICK state \in States, enabled \in BOOLEAN, body \in BodyStamps :
            WriteRow(PutAlarm(req[c].alarm, state, enabled, body))
    BY <1>2 DEF Put
  <2>2. PutAlarm(req[c].alarm, state, enabled, body) \in Row
    BY <1>2, RowInRequest DEF Put, PutAlarm, Row
  <2>3. QED
    BY <1>2, <2>1, <2>2, WriteRowClaims DEF Put
<1>3. CASE PutState(c)
  <2>1. PICK state \in States : WriteRow([req[c].alarm EXCEPT !.state = state])
    BY <1>3 DEF PutState
  <2>2. [req[c].alarm EXCEPT !.state = state] \in Row
    BY <1>3, RowInRequest DEF PutState, Row
  <2>3. QED
    BY <1>3, <2>1, <2>2, WriteRowClaims DEF PutState
<1>4. CASE DeleteAlarm(c)
  <2>1. \A a \in Alarms : Exists(a)' => Exists(a) /\ db'[a] = db[a]
    BY <1>4 DEF DeleteAlarm, Exists, TypeOK
  <2>2. \A v \in Workers : claim'[v] = "held" => Kept(v)
    BY <1>4 DEF DeleteAlarm, workerVars, Kept
  <2>3. QED
    BY <2>1, <2>2, NoNewClaim
<1>5. CASE \/ \E a \in Alarms : ReadAlarm(c, a)
           \/ RecordRequest(c) \/ RequestNotFound(c) \/ RequestFails(c)
  BY <1>5, NoNewClaim
  DEF ReadAlarm, RecordRequest, RequestNotFound, RequestFails, workerVars,
      Kept, Exists
<1>6. QED
  BY <1>1, <1>2, <1>3, <1>4, <1>5 DEF Serve

\* No two evaluators hold a claim made from the same stamp of the same alarm.
THEOREM ClaimsExclusive == Spec => []OneClaimPerStamp
<1>1. Init => ClaimInv
  BY DEF Init, ClaimInv, MovedOn, OneClaimPerStamp
<1>2. TypeOK /\ ClaimInv /\ [Next]_vars => ClaimInv'
  <2> SUFFICES ASSUME TypeOK, ClaimInv, [Next]_vars PROVE ClaimInv'
    OBVIOUS
  <2>1. ASSUME NEW s \in Stamps, Age(s) PROVE ClaimInv'
    BY <2>1, NoNewClaim DEF Age, workerVars, Kept, Exists
  <2>2. ASSUME NEW a \in Alarms, MeasuresChange(a) PROVE ClaimInv'
    BY <2>2, NoNewClaim DEF MeasuresChange, workerVars, Kept, Exists
  <2>3. CASE UNCHANGED vars
    BY <2>3, NoNewClaim DEF vars, Kept, Exists
  <2>4. QED
    BY <2>1, <2>2, <2>3, WorkClaims, FailClaims, ServeClaims DEF Next
<1>3. ClaimInv => OneClaimPerStamp
  BY DEF ClaimInv
<1>4. QED
  BY <1>1, <1>2, <1>3, TypeCorrect, PTL DEF Spec

--------------------------------------------------------------------------------
(* Deleting an alarm. *)

\* Only a row that is there is written, so a deleted one stays deleted.
THEOREM DeletedForEver == Spec => DeletionIsFinal
<1> DEFINE Final == \A a \in Alarms : db[a] = Deleted => db'[a] = Deleted
<1>1. TypeOK /\ [Next]_vars => [Final]_vars
  <2> SUFFICES ASSUME TypeOK, Next PROVE Final
    BY DEF Final
  <2>1. ASSUME NEW w \in Workers, Store(w) PROVE Final
    BY <2>1, RowInHand DEF Store, StoreRow, WriteRow, Exists, TypeOK
  <2>2. ASSUME NEW w \in Workers, NEW row \in todo[w], Claim(w, row) PROVE Final
    BY <2>2 DEF Claim, SameStamp, Exists, TypeOK
  <2>3. ASSUME NEW c \in Clients, NEW a \in Alarms, Post(c, a) PROVE Final
    BY <2>3, ValuesAssumption DEF Post, TypeOK
  <2>4. ASSUME NEW c \in Clients, Put(c) PROVE Final
    BY <2>4, RowInRequest DEF Put, PutAlarm, WriteRow, Exists, TypeOK, Row
  <2>5. ASSUME NEW c \in Clients, PutState(c) PROVE Final
    BY <2>5, RowInRequest DEF PutState, WriteRow, Exists, TypeOK, Row
  <2>6. ASSUME NEW c \in Clients, DeleteAlarm(c) PROVE Final
    BY <2>6 DEF DeleteAlarm, TypeOK
  <2>7. CASE db' = db
    BY <2>7
  <2>8. QED
    BY <2>1, <2>2, <2>3, <2>4, <2>5, <2>6, <2>7
    DEF Next, Age, MeasuresChange, Work, Select, Handle, TakeAssigned,
        SkipHandled, EndCycle, NoRefresh, Refresh, StoreNotFound, Record,
        RecordOrphan, Notify, Restart, Fail, RefreshFails, AbortCycle, Crash,
        Terminate, Serve, ReadAlarm, RecordRequest, RequestNotFound,
        RequestFails
<1>2. QED
  BY <1>1, TypeCorrect, PTL DEF Spec, DeletionIsFinal, Final

--------------------------------------------------------------------------------
(* The history of an alarm that is gone. *)

\* A row that is written is still there afterwards.
LEMMA WriteRowKeeps ==
    ASSUME TypeOK, NEW row \in Row, WriteRow(row), NEW a \in Alarms, Exists(a)
    PROVE  Exists(a)'
<1>1. row.alarm_id \in Alarms /\ row \notin {Unborn, Deleted}
  BY ValuesAssumption DEF Row
<1>2. QED
  BY <1>1 DEF WriteRow, Exists, TypeOK

\* The claim changes one column of a row that stays there.
LEMMA ClaimKeeps ==
    ASSUME TypeOK, NEW w \in Workers, NEW row \in todo[w], Claim(w, row),
           NEW a \in Alarms, Exists(a)
    PROVE  Exists(a)'
<1>1. row.alarm_id \in Alarms
  BY DEF TypeOK, Row
<1>2. db[row.alarm_id] \in Row
  BY <1>1, RowInTable DEF Claim, SameStamp
<1>3. PICK s \in Stamps : db' = [db EXCEPT ![row.alarm_id].evaluate_timestamp = s]
  BY DEF Claim
<1>4. [db[row.alarm_id] EXCEPT !.evaluate_timestamp = s] \in Row
  BY <1>2 DEF Row
<1>5. QED
  BY <1>1, <1>3, <1>4, ValuesAssumption DEF Exists, TypeOK

\* A record that races the delete of its alarm never survives it.
THEOREM HistoryGone == Spec => []HistoryGoneWithAlarm
<1> USE DEF HistoryGoneWithAlarm
<1>1. Init => HistoryGoneWithAlarm
  BY DEF Init, Exists
<1>2. TypeOK /\ HistoryGoneWithAlarm /\ [Next]_vars => HistoryGoneWithAlarm'
  <2> SUFFICES ASSUME TypeOK, HistoryGoneWithAlarm, [Next]_vars,
                      NEW a \in Alarms, ~Exists(a)'
               PROVE  history'[a] = None
    OBVIOUS
  <2>1. ASSUME NEW w \in Workers, Record(w) \/ RefreshFails(w)
        PROVE  history'[a] = None
    BY <2>1 DEF Record, RefreshFails, RecordChange, Exists, TypeOK
  <2>2. ASSUME NEW c \in Clients, RecordRequest(c) PROVE history'[a] = None
    BY <2>2 DEF RecordRequest, RecordChange, Exists, TypeOK
  <2>3. ASSUME NEW c \in Clients, DeleteAlarm(c) PROVE history'[a] = None
    BY <2>3 DEF DeleteAlarm, Exists, TypeOK
  <2>4. ASSUME NEW w \in Workers, Store(w) PROVE history'[a] = None
    BY <2>4, RowInHand, WriteRowKeeps DEF Store, StoreRow
  <2>5. ASSUME NEW w \in Workers, NEW row \in todo[w], Claim(w, row)
        PROVE  history'[a] = None
    BY <2>5, ClaimKeeps DEF Claim
  <2>6. ASSUME NEW c \in Clients, Put(c) PROVE history'[a] = None
    <3>1. PICK state \in States, enabled \in BOOLEAN, body \in BodyStamps :
              WriteRow(PutAlarm(req[c].alarm, state, enabled, body))
      BY <2>6 DEF Put
    <3>2. PutAlarm(req[c].alarm, state, enabled, body) \in Row
      BY <2>6, RowInRequest DEF Put, PutAlarm, Row
    <3>3. QED
      BY <2>6, <3>1, <3>2, WriteRowKeeps DEF Put
  <2>7. ASSUME NEW c \in Clients, PutState(c) PROVE history'[a] = None
    <3>1. PICK state \in States :
              WriteRow([req[c].alarm EXCEPT !.state = state])
      BY <2>7 DEF PutState
    <3>2. [req[c].alarm EXCEPT !.state = state] \in Row
      BY <2>7, RowInRequest DEF PutState, Row
    <3>3. QED
      BY <2>7, <3>1, <3>2, WriteRowKeeps DEF PutState
  <2>8. ASSUME NEW c \in Clients, NEW b \in Alarms, Post(c, b)
        PROVE  history'[a] = None
    BY <2>8 DEF Post, Exists, TypeOK
  <2>9. CASE db' = db /\ history' = history
    BY <2>9 DEF Exists
  <2>10. QED
    BY <2>1, <2>2, <2>3, <2>4, <2>5, <2>6, <2>7, <2>8, <2>9
    DEF Next, vars, Age, MeasuresChange, Work, Select, Handle, TakeAssigned,
        SkipHandled, EndCycle, NoRefresh, Refresh, StoreNotFound,
        RecordOrphan, Notify, Restart, Fail, AbortCycle, Crash,
        Terminate, Serve, ReadAlarm, RequestNotFound, RequestFails
<1>3. QED
  BY <1>1, <1>2, TypeCorrect, PTL DEF Spec

--------------------------------------------------------------------------------
(* AlarmEvaluation implements AlarmLifecycle: the initial states map to      *)
(* initial states, and every step of an evaluator, of a request or of their  *)
(* failures maps to a step of the lifecycle or to a stutter.                 *)

SeenOfAll == [a \in Alarms |-> Seen(a)]
OwedOfAll == [a \in Alarms |-> Pending(a)]

\* A step of the abstract specification, or a stutter.
Allowed == [Lifecycle!Next]_(Lifecycle!vars)

\* A request that has a record still to write.
OwedBy(c, a, s) ==
    /\ req[c] # None /\ req[c].op = "record"
    /\ req[c].alarm.alarm_id = a /\ req[c].alarm.state = s

LEMMA PendingMeans ==
    \A a, s : s \in Pending(a) <=> \/ \E w \in Workers : Owed(w, a, s)
                                   \/ \E c \in Clients : OwedBy(c, a, s)
  BY DEF Pending, Owed, OwedBy

LEMMA PendingMeansNext ==
    \A a, s : s \in Pending(a)' <=> \/ \E w \in Workers : Owed(w, a, s)'
                                    \/ \E c \in Clients : OwedBy(c, a, s)'
  BY DEF Pending, Owed, OwedBy

--------------------------------------------------------------------------------
(* What a step may do to the states a reader sees, to the records owed and  *)
(* to the history: one of five changes.  Both the refinement and the        *)
(* completeness of the history follow from them.                            *)

Rests ==
    /\ SeenOfAll' = SeenOfAll
    /\ OwedOfAll' = OwedOfAll
    /\ history' = history
    /\ adrift \subseteq adrift'

\* A row is written.  Unless the alarm is adrift afterwards, its record is the
\* only one that is owed, or no record is and the row keeps its state.
Writes(a, s) ==
    /\ SeenOfAll[a] \in States \cup {Unborn}
    /\ SeenOfAll' = [SeenOfAll EXCEPT ![a] = s]
    /\ \E more \in {{}, {s}} : OwedOfAll' = [OwedOfAll EXCEPT ![a] = @ \cup more]
    /\ history' = history
    /\ adrift \ {a} \subseteq adrift'
    /\ RecordHistory /\ a \notin adrift' =>
           \/ OwedOfAll'[a] = {s}
           \/ OwedOfAll'[a] = OwedOfAll[a] /\ a \notin adrift /\ SeenOfAll[a] = s

\* A record is written.
Tells(a, s) ==
    /\ SeenOfAll[a] \in States
    /\ s \in OwedOfAll[a]
    /\ SeenOfAll' = SeenOfAll
    /\ \E told \in {{}, {s}} : OwedOfAll' = [OwedOfAll EXCEPT ![a] = @ \ told]
    /\ history' = [history EXCEPT ![a] = s]
    /\ adrift \subseteq adrift'

\* A record is lost.
Drops(a, s) ==
    /\ SeenOfAll' = SeenOfAll
    /\ \E gone \in {{}, {s}} : OwedOfAll' = [OwedOfAll EXCEPT ![a] = @ \ gone]
    /\ history' = history
    /\ adrift \subseteq adrift'
    /\ a \in adrift' \/ SeenOfAll[a] \notin States

Removes(a) ==
    /\ SeenOfAll[a] # Unborn
    /\ SeenOfAll' = [SeenOfAll EXCEPT ![a] = Deleted]
    /\ OwedOfAll' = OwedOfAll
    /\ history' = [history EXCEPT ![a] = None]
    /\ adrift \subseteq adrift'

Change ==
    \/ Rests
    \/ \E a \in Alarms, s \in States : Writes(a, s) \/ Tells(a, s) \/ Drops(a, s)
    \/ \E a \in Alarms : Removes(a)

\* Each of the five is a step of the lifecycle, or a stutter.
LEMMA ChangeIsAllowed == Change => Allowed
  <1>1. Rests => Allowed
    BY DEF Rests, SeenOfAll, OwedOfAll, Allowed, Lifecycle!vars
  <1>2. ASSUME NEW a \in Alarms, NEW s \in States, Writes(a, s) PROVE Allowed
    <2>1. Lifecycle!Write(a, s)
      BY <1>2 DEF Writes, Lifecycle!Write, SeenOfAll, OwedOfAll
    <2>2. Lifecycle!SetState(a, s) \/ Lifecycle!Create(a, s)
      BY <1>2, <2>1
      DEF Writes, Lifecycle!SetState, Lifecycle!Create, Lifecycle!Lives, SeenOfAll
    <2> QED BY <2>2 DEF Allowed, Lifecycle!Next
  <1>3. ASSUME NEW a \in Alarms, NEW s \in States, Tells(a, s) PROVE Allowed
    <2>1. Lifecycle!Tell(a, s)
      BY <1>3 DEF Tells, Lifecycle!Tell, Lifecycle!Lives, SeenOfAll, OwedOfAll
    <2> QED BY <2>1 DEF Allowed, Lifecycle!Next
  <1>4. ASSUME NEW a \in Alarms, NEW s \in States, Drops(a, s) PROVE Allowed
    <2>1. PICK gone \in {{}, {s}} : OwedOfAll' = [OwedOfAll EXCEPT ![a] = @ \ gone]
      BY <1>4 DEF Drops
    <2>2. CASE gone = {}
      <3>1. OwedOfAll' = OwedOfAll
        BY <2>1, <2>2 DEF OwedOfAll
      <3> QED BY <1>4, <3>1 DEF Drops, SeenOfAll, OwedOfAll, Allowed, Lifecycle!vars
    <2>3. CASE gone = {s}
      <3>1. Lifecycle!Lose(a, s)
        BY <1>4, <2>1, <2>3 DEF Drops, Lifecycle!Lose, SeenOfAll, OwedOfAll
      <3> QED BY <3>1 DEF Allowed, Lifecycle!Next
    <2> QED BY <2>1, <2>2, <2>3
  <1>5. ASSUME NEW a \in Alarms, Removes(a) PROVE Allowed
    <2>1. Lifecycle!Delete(a)
      BY <1>5 DEF Removes, Lifecycle!Delete, SeenOfAll, OwedOfAll
    <2> QED BY <2>1 DEF Allowed, Lifecycle!Next
  <1> QED BY <1>1, <1>2, <1>3, <1>4, <1>5 DEF Change

\* While an alarm is not adrift, only records of the state it is in are owed,
\* and if none is, the last one tells of that state.
Current ==
    \A a \in Alarms :
        RecordHistory /\ SeenOfAll[a] \in States /\ a \notin adrift =>
            /\ OwedOfAll[a] \subseteq {SeenOfAll[a]}
            /\ OwedOfAll[a] = {} => history[a] = SeenOfAll[a]

\* Each of the five keeps the history current.
LEMMA ChangeKeepsCurrent ==
    ASSUME TypeOK, Current, Change
    PROVE  Current'
  <1> SUFFICES ASSUME NEW b \in Alarms, RecordHistory, SeenOfAll'[b] \in States,
                      b \notin adrift'
               PROVE  /\ OwedOfAll'[b] \subseteq {SeenOfAll'[b]}
                      /\ OwedOfAll'[b] = {} => history'[b] = SeenOfAll'[b]
    BY DEF Current
  <1> USE ValuesAssumption
  <1>0. /\ SeenOfAll = [a \in Alarms |-> SeenOfAll[a]]
        /\ OwedOfAll = [a \in Alarms |-> OwedOfAll[a]]
        /\ history = [a \in Alarms |-> history[a]]
    BY DEF SeenOfAll, OwedOfAll, TypeOK
  <1>1. CASE Rests
    BY <1>1 DEF Rests, Current
  <1>2. ASSUME NEW a \in Alarms, NEW s \in States, Writes(a, s)
        PROVE  /\ OwedOfAll'[b] \subseteq {SeenOfAll'[b]}
               /\ OwedOfAll'[b] = {} => history'[b] = SeenOfAll'[b]
    <2>1. CASE b = a
      <3>1. SeenOfAll'[b] = s /\ history'[b] = history[b]
        BY <1>0, <1>2, <2>1 DEF Writes
      <3>2. \/ OwedOfAll'[b] = {s}
            \/ OwedOfAll'[b] = OwedOfAll[b] /\ b \notin adrift /\ SeenOfAll[b] = s
        BY <1>2, <2>1 DEF Writes
      <3> QED BY <3>1, <3>2 DEF Current
    <2>2. CASE b # a
      <3>1. SeenOfAll'[b] = SeenOfAll[b] /\ OwedOfAll'[b] = OwedOfAll[b]
        BY <1>0, <1>2, <2>2 DEF Writes
      <3>2. history' = history /\ b \notin adrift
        BY <1>2, <2>2 DEF Writes
      <3> QED BY <3>1, <3>2 DEF Current
    <2> QED BY <2>1, <2>2
  <1>3. ASSUME NEW a \in Alarms, NEW s \in States, Tells(a, s)
        PROVE  /\ OwedOfAll'[b] \subseteq {SeenOfAll'[b]}
               /\ OwedOfAll'[b] = {} => history'[b] = SeenOfAll'[b]
    <2>1. OwedOfAll'[b] \subseteq OwedOfAll[b] /\ (b # a => OwedOfAll'[b] = OwedOfAll[b])
      BY <1>0, <1>3 DEF Tells
    <2>2. history'[b] = IF b = a THEN s ELSE history[b]
      BY <1>0, <1>3 DEF Tells
    <2>3. SeenOfAll' = SeenOfAll /\ b \notin adrift /\ s \in OwedOfAll[a]
      BY <1>3 DEF Tells
    <2> QED BY <2>1, <2>2, <2>3 DEF Current
  <1>4. ASSUME NEW a \in Alarms, NEW s \in States, Drops(a, s)
        PROVE  /\ OwedOfAll'[b] \subseteq {SeenOfAll'[b]}
               /\ OwedOfAll'[b] = {} => history'[b] = SeenOfAll'[b]
    <2>1. b # a
      BY <1>4 DEF Drops
    <2>2. OwedOfAll'[b] = OwedOfAll[b]
      BY <1>0, <1>4, <2>1 DEF Drops
    <2> QED BY <1>4, <2>2 DEF Drops, Current
  <1>5. ASSUME NEW a \in Alarms, Removes(a)
        PROVE  /\ OwedOfAll'[b] \subseteq {SeenOfAll'[b]}
               /\ OwedOfAll'[b] = {} => history'[b] = SeenOfAll'[b]
    <2>1. b # a
      BY <1>0, <1>5 DEF Removes
    <2>2. SeenOfAll'[b] = SeenOfAll[b] /\ history'[b] = history[b]
      BY <1>0, <1>5, <2>1 DEF Removes
    <2> QED BY <1>5, <2>2 DEF Removes, Current
  <1> QED BY <1>1, <1>2, <1>3, <1>4, <1>5 DEF Change

--------------------------------------------------------------------------------
(* What one worker or one request that moves on does to the records owed. *)

OthersWait(w) ==
    /\ req' = req
    /\ \A v \in Workers \ {w} : pc'[v] = pc[v] /\ cur'[v] = cur[v]

OtherRequestsWait(c) ==
    /\ pc' = pc /\ cur' = cur
    /\ \A d \in Clients \ {c} : req'[d] = req[d]

LEMMA NothingOwed ==
    ASSUME \A a, s : s \in Pending(a)' <=> s \in Pending(a)
    PROVE  OwedOfAll' = OwedOfAll
  <1>1. \A a \in Alarms : Pending(a)' = Pending(a)
    BY DEF Pending
  <1> QED BY <1>1 DEF OwedOfAll

LEMMA MoreOwed ==
    ASSUME NEW a \in Alarms, NEW s,
           \A b, t : t \in Pending(b)' <=> t \in Pending(b) \/ (b = a /\ t = s)
    PROVE  OwedOfAll' = [OwedOfAll EXCEPT ![a] = @ \cup {s}]
  <1>1. Pending(a)' = Pending(a) \cup {s}
    OBVIOUS
  <1>2. \A b \in Alarms \ {a} : Pending(b)' = Pending(b)
    BY DEF Pending
  <1> QED BY <1>1, <1>2 DEF OwedOfAll

\* Somebody else may owe the same.
LEMMA LessOwed ==
    ASSUME NEW a \in Alarms, NEW s,
           \A b, t : b # a \/ t # s => (t \in Pending(b)' <=> t \in Pending(b)),
           s \in Pending(a)' => s \in Pending(a)
    PROVE  \E told \in {{}, {s}} : OwedOfAll' = [OwedOfAll EXCEPT ![a] = @ \ told]
  <1>1. \A b \in Alarms \ {a} : Pending(b)' = Pending(b)
    BY DEF Pending
  <1>2. CASE s \in Pending(a)'
    <2>1. Pending(a)' = Pending(a) \ {}
      BY <1>2 DEF Pending
    <2> QED BY <1>1, <2>1 DEF OwedOfAll
  <1>3. CASE s \notin Pending(a)'
    <2>1. Pending(a)' = Pending(a) \ {s}
      BY <1>3 DEF Pending
    <2> QED BY <1>1, <2>1 DEF OwedOfAll
  <1> QED BY <1>2, <1>3

LEMMA WorkerOwesNothing ==
    ASSUME NEW w \in Workers, OthersWait(w), pc[w] # "record", pc'[w] # "record"
    PROVE  OwedOfAll' = OwedOfAll
  <1>1. \A a, s : s \in Pending(a)' <=> s \in Pending(a)
    BY PendingMeans, PendingMeansNext DEF OthersWait, Owed, OwedBy
  <1> QED BY <1>1, NothingOwed

LEMMA WorkerComesToOwe ==
    ASSUME NEW w \in Workers, OthersWait(w), pc[w] # "record", pc'[w] = "record",
           cur'[w].alarm_id \in Alarms
    PROVE  OwedOfAll' = [OwedOfAll EXCEPT ![cur'[w].alarm_id] = @ \cup {cur'[w].state}]
  <1>1. \A b, t : t \in Pending(b)' <=>
            t \in Pending(b) \/ (b = cur'[w].alarm_id /\ t = cur'[w].state)
    BY PendingMeans, PendingMeansNext DEF OthersWait, Owed, OwedBy
  <1> QED BY <1>1, MoreOwed

LEMMA WorkerIsQuit ==
    ASSUME NEW w \in Workers, OthersWait(w), pc[w] = "record", pc'[w] # "record",
           cur[w].alarm_id \in Alarms
    PROVE  /\ cur[w].state \in Pending(cur[w].alarm_id)
           /\ \E told \in {{}, {cur[w].state}} :
                  OwedOfAll' = [OwedOfAll EXCEPT ![cur[w].alarm_id] = @ \ told]
  <1>1. \A b, t : b # cur[w].alarm_id \/ t # cur[w].state =>
            (t \in Pending(b)' <=> t \in Pending(b))
    BY PendingMeans, PendingMeansNext DEF OthersWait, Owed, OwedBy
  <1>2. cur[w].state \in Pending(cur[w].alarm_id)
    BY PendingMeans DEF Owed
  <1> QED BY <1>1, <1>2, LessOwed

LEMMA RequestOwesNothing ==
    ASSUME NEW c \in Clients, OtherRequestsWait(c),
           req[c] # None => req[c].op # "record", req'[c] # None => req'[c].op # "record"
    PROVE  OwedOfAll' = OwedOfAll
  <1>1. \A a, s : s \in Pending(a)' <=> s \in Pending(a)
    BY PendingMeans, PendingMeansNext DEF OtherRequestsWait, Owed, OwedBy
  <1> QED BY <1>1, NothingOwed

LEMMA RequestComesToOwe ==
    ASSUME NEW c \in Clients, OtherRequestsWait(c), req[c] # None => req[c].op # "record",
           req'[c] # None, req'[c].op = "record", req'[c].alarm.alarm_id \in Alarms
    PROVE  OwedOfAll' = [OwedOfAll EXCEPT ![req'[c].alarm.alarm_id] =
                                              @ \cup {req'[c].alarm.state}]
  <1>1. \A b, t : t \in Pending(b)' <=>
            t \in Pending(b) \/ (b = req'[c].alarm.alarm_id /\ t = req'[c].alarm.state)
    BY PendingMeans, PendingMeansNext DEF OtherRequestsWait, Owed, OwedBy
  <1> QED BY <1>1, MoreOwed

LEMMA RequestIsQuit ==
    ASSUME NEW c \in Clients, OtherRequestsWait(c), req[c] # None, req[c].op = "record",
           req'[c] = None, req[c].alarm.alarm_id \in Alarms
    PROVE  /\ req[c].alarm.state \in Pending(req[c].alarm.alarm_id)
           /\ \E told \in {{}, {req[c].alarm.state}} :
                  OwedOfAll' = [OwedOfAll EXCEPT ![req[c].alarm.alarm_id] = @ \ told]
  <1>1. \A b, t : b # req[c].alarm.alarm_id \/ t # req[c].alarm.state =>
            (t \in Pending(b)' <=> t \in Pending(b))
    BY PendingMeans, PendingMeansNext DEF OtherRequestsWait, Owed, OwedBy
  <1>2. req[c].alarm.state \in Pending(req[c].alarm.alarm_id)
    BY PendingMeans DEF OwedBy
  <1> QED BY <1>1, <1>2, LessOwed

--------------------------------------------------------------------------------
(* What the writes of the table do to the states a reader sees. *)

LEMMA SeenUnread ==
    ASSUME db' = db
    PROVE  SeenOfAll' = SeenOfAll
  BY DEF SeenOfAll, Seen, Exists

LEMMA SeenWritten ==
    ASSUME TypeOK, NEW row \in Row, db' = [db EXCEPT ![row.alarm_id] = row]
    PROVE  SeenOfAll' = [SeenOfAll EXCEPT ![row.alarm_id] = row.state]
  <1>1. row.alarm_id \in Alarms /\ row \notin {Unborn, Deleted}
    BY ValuesAssumption DEF Row
  <1>2. Seen(row.alarm_id)' = row.state
    BY <1>1 DEF Seen, Exists, TypeOK
  <1>3. \A a \in Alarms \ {row.alarm_id} : Seen(a)' = Seen(a)
    BY DEF Seen, Exists, TypeOK
  <1> QED BY <1>1, <1>2, <1>3 DEF SeenOfAll

LEMMA SeenClaimed ==
    ASSUME TypeOK, NEW w \in Workers, NEW row \in todo[w], Claim(w, row)
    PROVE  SeenOfAll' = SeenOfAll
  <1> DEFINE a == row.alarm_id
  <1>1. a \in Alarms
    BY DEF TypeOK, Row
  <1>2. db[a] \in Row /\ Exists(a)
    BY <1>1, RowInTable DEF Claim, SameStamp
  <1>3. PICK s \in Stamps : db' = [db EXCEPT ![a].evaluate_timestamp = s]
    BY DEF Claim
  <1>4. /\ db'[a] = [db[a] EXCEPT !.evaluate_timestamp = s]
        /\ \A b \in Alarms \ {a} : db'[b] = db[b]
    BY <1>1, <1>3 DEF TypeOK
  <1>5. db'[a].state = db[a].state /\ db'[a] \in Row
    BY <1>2, <1>4 DEF Row
  <1>6. Seen(a)' = Seen(a)
    BY <1>2, <1>5, ValuesAssumption DEF Seen, Exists
  <1>7. \A b \in Alarms \ {a} : Seen(b)' = Seen(b)
    BY <1>4 DEF Seen, Exists
  <1> QED BY <1>6, <1>7 DEF SeenOfAll

\* A record that is written, or lost, by whoever owed it.
LEMMA RecordTold ==
    ASSUME TypeOK, NEW a \in Alarms, NEW s \in States, Exists(a), s \in Pending(a),
           db' = db, adrift \subseteq adrift',
           \E told \in {{}, {s}} : OwedOfAll' = [OwedOfAll EXCEPT ![a] = @ \ told],
           history' = [history EXCEPT ![a] = s]
    PROVE  Tells(a, s)
  <1>1. SeenOfAll[a] \in States /\ OwedOfAll[a] = Pending(a)
    BY RowInTable DEF SeenOfAll, OwedOfAll, Seen, Row
  <1> QED BY <1>1, SeenUnread DEF Tells

LEMMA RecordDropped ==
    ASSUME TypeOK, NEW a \in Alarms, NEW s \in States, a \in adrift' \/ ~Exists(a),
           db' = db, adrift \subseteq adrift',
           \E told \in {{}, {s}} : OwedOfAll' = [OwedOfAll EXCEPT ![a] = @ \ told],
           history' = history
    PROVE  Drops(a, s)
  <1>1. ~Exists(a) => SeenOfAll[a] \notin States
    BY ValuesAssumption DEF SeenOfAll, Seen, Exists
  <1> QED BY <1>1, SeenUnread DEF Drops

--------------------------------------------------------------------------------
(* The steps of a worker. *)

\* What a request or a worker that writes a row remembers as lost.
LEMMA DriftOfWrite ==
    ASSUME TypeOK, NEW row \in Row, NEW recorded \in BOOLEAN, WriteDrifts(row, recorded)
    PROVE  /\ adrift \ {row.alarm_id} \subseteq adrift'
           /\ row.alarm_id \notin adrift' =>
                  \/ recorded /\ Pending(row.alarm_id) = {}
                  \/ /\ ~recorded /\ row.alarm_id \notin adrift
                     /\ db[row.alarm_id].state = row.state
  BY DEF WriteDrifts, Marked

\* What a worker that fails remembers as lost.
LEMMA DriftOfFailure ==
    ASSUME NEW w \in Workers, NEW recorded \in BOOLEAN, FailureLoses(w, recorded)
    PROVE  /\ adrift \subseteq adrift'
           /\ pc[w] = "record" /\ ~recorded => cur[w].alarm_id \in adrift'
  BY DEF FailureLoses

LEMMA WorkChanges ==
    ASSUME TypeOK, NEW w \in Workers, Work(w)
    PROVE  Change
  <1>1. CASE Select(w) \/ EndCycle(w) \/ Restart(w) \/ NoRefresh(w) \/ Refresh(w)
             \/ StoreNotFound(w) \/ Notify(w)
             \/ \E row \in todo[w] : TakeAssigned(w, row) \/ SkipHandled(w, row)
    <2>1. db' = db /\ history' = history /\ adrift' = adrift
      BY <1>1 DEF Select, EndCycle, Restart, NoRefresh, Refresh, StoreNotFound, Notify,
                  TakeAssigned, SkipHandled, lost
    <2>2. OthersWait(w) /\ pc[w] # "record" /\ pc'[w] # "record"
      BY <1>1 DEF Select, EndCycle, Restart, NoRefresh, Refresh, StoreNotFound, Notify,
                  TakeAssigned, SkipHandled, Done, workerVars, OthersWait, TypeOK
    <2> QED BY <2>1, <2>2, SeenUnread, WorkerOwesNothing DEF Change, Rests
  <1>2. ASSUME NEW row \in todo[w], Claim(w, row) PROVE Change
    <2>1. /\ history' = history /\ adrift' = adrift
          /\ OthersWait(w) /\ pc[w] # "record" /\ pc'[w] # "record"
      BY <1>2 DEF Claim, OthersWait, TypeOK, lost
    <2> QED BY <1>2, <2>1, SeenClaimed, WorkerOwesNothing DEF Change, Rests
  <1>3. CASE Store(w)
    <2> DEFINE a == cur[w].alarm_id
               s == cur[w].state
    <2>1. cur[w] \in Row /\ a \in Alarms /\ s \in States
      BY <1>3, RowInHand DEF Store, Row
    <2>2. Exists(a) /\ SeenOfAll[a] = db[a].state /\ SeenOfAll[a] \in States
      BY <1>3, <2>1, RowInTable DEF Store, SeenOfAll, Seen, Row
    <2>3. SeenOfAll' = [SeenOfAll EXCEPT ![a] = s]
      BY <1>3, <2>1, SeenWritten DEF Store, StoreRow, WriteRow
    <2>4. /\ history' = history /\ OthersWait(w) /\ pc[w] # "record" /\ cur' = cur
          /\ pc'[w] = IF RecordHistory THEN "record" ELSE "notify"
      BY <1>3 DEF Store, OthersWait, TypeOK
    <2>5. OwedOfAll' = [OwedOfAll EXCEPT ![a] = @ \cup IF RecordHistory THEN {s} ELSE {}]
      <3>1. CASE RecordHistory
        BY <2>1, <2>4, <3>1, WorkerComesToOwe
      <3>2. CASE ~RecordHistory
        <4>1. OwedOfAll' = OwedOfAll
          BY <2>4, <3>2, WorkerOwesNothing
        <4> QED BY <3>2, <4>1 DEF OwedOfAll
      <3> QED BY <3>1, <3>2
    <2>6. /\ adrift \ {a} \subseteq adrift'
          /\ RecordHistory /\ a \notin adrift' => OwedOfAll[a] = {}
      <3>1. WriteDrifts(cur[w], RecordHistory) /\ RecordHistory \in BOOLEAN
        BY <1>3, BoundsAssumption DEF Store, StoreRow
      <3>2. OwedOfAll[a] = Pending(a)
        BY <2>1 DEF OwedOfAll
      <3> HIDE DEF a
      <3> QED BY <2>1, <3>1, <3>2, DriftOfWrite DEF a
    <2> HIDE DEF a, s
    <2>7. Writes(a, s)
      <3>1. RecordHistory => OwedOfAll'[a] = OwedOfAll[a] \cup {s}
        BY <2>1, <2>5 DEF OwedOfAll
      <3> QED BY <2>2, <2>3, <2>4, <2>5, <2>6, <3>1 DEF Writes
    <2> QED BY <2>1, <2>7 DEF Change
  <1>4. CASE Record(w) \/ RecordOrphan(w)
    <2> DEFINE a == cur[w].alarm_id
               s == cur[w].state
    <2>1. a \in Alarms /\ s \in States
      BY <1>4, RowInHand DEF Record, RecordOrphan, Row
    <2>2. /\ OthersWait(w) /\ pc[w] = "record" /\ pc'[w] # "record"
          /\ db' = db /\ adrift' = adrift
      BY <1>4 DEF Record, RecordOrphan, Done, OthersWait, TypeOK, lost
    <2>3. /\ s \in Pending(a)
          /\ \E told \in {{}, {s}} : OwedOfAll' = [OwedOfAll EXCEPT ![a] = @ \ told]
      BY <2>1, <2>2, WorkerIsQuit
    <2>4. Record(w) => Exists(a) /\ history' = [history EXCEPT ![a] = s]
      BY DEF Record, RecordChange
    <2>5. RecordOrphan(w) => history' = history /\ ~Exists(a)
      BY DEF RecordOrphan
    <2> HIDE DEF a, s
    <2> QED BY <1>4, <2>1, <2>2, <2>3, <2>4, <2>5, RecordTold, RecordDropped DEF Change
  <1> QED BY <1>1, <1>2, <1>3, <1>4 DEF Work, Handle

\* A failure may lose a record, or come after it was written.
LEMMA FailChanges ==
    ASSUME TypeOK, NEW w \in Workers, Fail(w)
    PROVE  Change
  <1>1. OthersWait(w) /\ db' = db
    BY DEF Fail, RefreshFails, AbortCycle, Crash, Terminate, Done, Forget, workerVars,
           OthersWait, TypeOK
  <1>2. adrift \subseteq adrift'
    BY DriftOfFailure DEF Fail, RefreshFails, AbortCycle, Crash, Terminate, lost
  <1>3. CASE pc[w] # "record"
    <2>1. pc'[w] # "record" /\ history' = history
      BY <1>3 DEF Fail, RefreshFails, AbortCycle, Crash, Terminate, Done, Forget, workerVars,
                  TypeOK
    <2> QED BY <1>1, <1>2, <1>3, <2>1, SeenUnread, WorkerOwesNothing DEF Change, Rests
  <1>4. CASE pc[w] = "record" /\ pc'[w] # "record"
    <2> DEFINE a == cur[w].alarm_id
               s == cur[w].state
    <2>1. a \in Alarms /\ s \in States
      BY <1>4, RowInHand DEF Row
    <2>2. /\ s \in Pending(a)
          /\ \E told \in {{}, {s}} : OwedOfAll' = [OwedOfAll EXCEPT ![a] = @ \ told]
      BY <1>1, <1>4, <2>1, WorkerIsQuit
    <2>3. RefreshFails(w) \/ Crash(w)
      BY <1>4 DEF Fail, AbortCycle, Terminate, workerVars
    <2>4. \/ history' = history /\ a \in adrift'
          \/ Exists(a) /\ history' = [history EXCEPT ![a] = s]
      BY <1>4, <2>3, DriftOfFailure DEF RefreshFails, Crash, RecordChange
    <2> HIDE DEF a, s
    <2> QED BY <1>1, <1>2, <2>1, <2>2, <2>4, RecordTold, RecordDropped DEF Change
  <1>5. CASE pc[w] = "record" /\ pc'[w] = "record"
    <2>1. Terminate(w)
      BY <1>5 DEF Fail, RefreshFails, AbortCycle, Crash, Done, Forget, TypeOK
    <2>2. \A a, s : s \in Pending(a)' <=> s \in Pending(a)
      BY <2>1, PendingMeans, PendingMeansNext DEF Terminate, workerVars, Owed, OwedBy
    <2>3. history' = history
      BY <2>1 DEF Terminate
    <2> QED BY <1>1, <1>2, <2>2, <2>3, SeenUnread, NothingOwed DEF Change, Rests
  <1> QED BY <1>3, <1>4, <1>5

--------------------------------------------------------------------------------
(* The steps of a request. *)

\* A request is about an alarm that was born before it: the delete that a
\* request makes is a delete of the lifecycle.
RequestsAboutBorn ==
    \A c \in Clients : req[c] # None => db[req[c].alarm.alarm_id] # Unborn

\* So are the rows that evaluators hold, and what they notify of.
WorkersAboutBorn ==
    /\ \A w \in Workers :
           /\ \A row \in todo[w] : db[row.alarm_id] # Unborn
           /\ cur[w] # None => db[cur[w].alarm_id] # Unborn
    /\ \A a \in Alarms : db[a] = Unborn => notified[a] = None

LEMMA UnbornOwesNothing ==
    ASSUME TypeOK, RequestsAboutBorn, WorkersAboutBorn, NEW a \in Alarms, db[a] = Unborn
    PROVE  Pending(a) = {}
  <1>1. \A w \in Workers : pc[w] = "record" => cur[w] # None
    BY DEF TypeOK
  <1>2. \A s : s \notin Pending(a)
    BY <1>1, PendingMeans DEF Owed, OwedBy, RequestsAboutBorn, WorkersAboutBorn
  <1> QED BY <1>2

LEMMA PutAlarmIsRow ==
    ASSUME NEW old \in Row, NEW state \in States, NEW enabled \in BOOLEAN, NEW received
    PROVE  /\ PutAlarm(old, state, enabled, received) \in Row
           /\ PutAlarm(old, state, enabled, received).alarm_id = old.alarm_id
  BY DEF PutAlarm, Row

\* A write of the row by a request, and the record it goes on to owe.
LEMMA RequestWrites ==
    ASSUME TypeOK, NEW c \in Clients, NEW row \in Row, NEW recorded \in BOOLEAN,
           Exists(row.alarm_id) \/ db[row.alarm_id] = Unborn,
           db' = [db EXCEPT ![row.alarm_id] = row], history' = history,
           OtherRequestsWait(c), req[c] # None => req[c].op # "record",
           req'[c] = IF recorded THEN [op |-> "record", alarm |-> row] ELSE None,
           adrift \ {row.alarm_id} \subseteq adrift',
           RecordHistory /\ row.alarm_id \notin adrift' =>
               \/ recorded /\ Pending(row.alarm_id) = {}
               \/ /\ ~recorded /\ row.alarm_id \notin adrift
                  /\ Seen(row.alarm_id) = row.state
    PROVE  Change
  <1> DEFINE a == row.alarm_id
             s == row.state
  <1>1. a \in Alarms /\ s \in States
    BY DEF Row
  <1>2. SeenOfAll[a] \in States \cup {Unborn} /\ SeenOfAll[a] = Seen(a)
    BY <1>1, RowInTable DEF SeenOfAll, Seen, Exists, Row
  <1>3. SeenOfAll' = [SeenOfAll EXCEPT ![a] = s]
    BY SeenWritten
  <1>4. OwedOfAll' = [OwedOfAll EXCEPT ![a] = @ \cup IF recorded THEN {s} ELSE {}]
    <2>1. CASE ~recorded
      <3>1. OwedOfAll' = OwedOfAll
        BY <2>1, RequestOwesNothing
      <3> QED BY <2>1, <3>1 DEF OwedOfAll
    <2>2. CASE recorded
      <3>1. req'[c] = [op |-> "record", alarm |-> row]
        BY <2>2
      <3>2. [op |-> "record", alarm |-> row] \in Request
        BY DEF Request
      <3>3. req'[c] # None /\ req'[c].op = "record" /\ req'[c].alarm = row
        BY <3>1, <3>2, ValuesAssumption
      <3> QED BY <1>1, <2>2, <3>3, RequestComesToOwe
    <2> QED BY <2>1, <2>2
  <1>5. OwedOfAll[a] = Pending(a)
    BY <1>1 DEF OwedOfAll
  <1> HIDE DEF a, s
  <1>6. Writes(a, s)
    <2>1. OwedOfAll'[a] = OwedOfAll[a] \cup IF recorded THEN {s} ELSE {}
      BY <1>1, <1>4 DEF OwedOfAll
    <2>2. RecordHistory /\ a \notin adrift' =>
              \/ OwedOfAll'[a] = {s}
              \/ OwedOfAll'[a] = OwedOfAll[a] /\ a \notin adrift /\ SeenOfAll[a] = s
      BY <1>2, <1>5, <2>1 DEF a, s
    <2>3. adrift \ {a} \subseteq adrift'
      BY DEF a
    <2> QED BY <1>2, <1>3, <1>4, <2>2, <2>3 DEF Writes
  <1> QED BY <1>1, <1>6 DEF Change

\* The end of a request that may owe a record, with or without having written it.
LEMMA RequestEnds ==
    ASSUME TypeOK, NEW c \in Clients, OtherRequestsWait(c), req[c] # None, req'[c] = None,
           db' = db, adrift \subseteq adrift',
           req[c].op = "record" =>
               \/ /\ history' = history
                  /\ \/ req[c].alarm.alarm_id \in adrift'
                     \/ ~Exists(req[c].alarm.alarm_id)
               \/ RecordChange(req[c].alarm.alarm_id, req[c].alarm.state),
           req[c].op # "record" => history' = history
    PROVE  Change
  <1>1. CASE req[c].op # "record"
    BY <1>1, SeenUnread, RequestOwesNothing DEF Change, Rests
  <1>2. CASE req[c].op = "record"
    <2> DEFINE a == req[c].alarm.alarm_id
               s == req[c].alarm.state
    <2>1. a \in Alarms /\ s \in States
      BY RowInRequest DEF Row
    <2>2. /\ s \in Pending(a)
          /\ \E told \in {{}, {s}} : OwedOfAll' = [OwedOfAll EXCEPT ![a] = @ \ told]
      BY <1>2, <2>1, RequestIsQuit
    <2>3. \/ history' = history /\ (a \in adrift' \/ ~Exists(a))
          \/ Exists(a) /\ history' = [history EXCEPT ![a] = s]
      BY <1>2 DEF RecordChange
    <2> HIDE DEF a, s
    <2> QED BY <2>1, <2>2, <2>3, RecordTold, RecordDropped DEF Change
  <1> QED BY <1>1, <1>2

LEMMA DeleteChanges ==
    ASSUME TypeOK, RequestsAboutBorn, NEW c \in Clients, DeleteAlarm(c)
    PROVE  Change
  <1>0. PICK a \in Alarms : a = req[c].alarm.alarm_id
    BY RowInRequest DEF DeleteAlarm, Row
  <1>1. db[a] # Unborn
    BY <1>0 DEF DeleteAlarm, RequestsAboutBorn
  <1>2. SeenOfAll[a] # Unborn
    BY <1>1, RowInTable, ValuesAssumption DEF SeenOfAll, Seen, Row
  <1>3. /\ db' = [db EXCEPT ![a] = Deleted] /\ history' = [history EXCEPT ![a] = None]
        /\ adrift' = adrift
    BY <1>0 DEF DeleteAlarm, lost
  <1>4. SeenOfAll' = [SeenOfAll EXCEPT ![a] = Deleted]
    <2>1. Seen(a)' = Deleted
      BY <1>1, <1>3 DEF Seen, Exists, TypeOK
    <2>2. \A b \in Alarms \ {a} : Seen(b)' = Seen(b)
      BY <1>3 DEF Seen, Exists, TypeOK
    <2> QED BY <1>1, <2>1, <2>2 DEF SeenOfAll
  <1>5. OwedOfAll' = OwedOfAll
    <2>1. /\ OtherRequestsWait(c)
          /\ req[c].op # "record" /\ req'[c] = None
      BY DEF DeleteAlarm, workerVars, OtherRequestsWait, TypeOK
    <2> QED BY <2>1, RequestOwesNothing
  <1> QED BY <1>2, <1>3, <1>4, <1>5 DEF Change, Removes

LEMMA ServeChanges ==
    ASSUME TypeOK, RequestsAboutBorn, WorkersAboutBorn, NEW c \in Clients, Serve(c)
    PROVE  Change
  <1> USE BoundsAssumption
  <1>1. ASSUME NEW a \in Alarms, Post(c, a) PROVE Change
    <2>1. PICK state \in States, enabled \in BOOLEAN, stamp \in Stamps :
              LET row == [alarm_id |-> a, state |-> state, enabled |-> enabled,
                          evaluate_timestamp |-> stamp]
              IN  /\ db' = [db EXCEPT ![a] = row]
                  /\ req' = [req EXCEPT ![c] = IF RecordHistory
                                 THEN [op |-> "record", alarm |-> row] ELSE None]
      BY <1>1 DEF Post
    <2> DEFINE row == [alarm_id |-> a, state |-> state, enabled |-> enabled,
                       evaluate_timestamp |-> stamp]
    <2>2. row \in Row /\ row.alarm_id = a
      BY DEF Row
    <2>3. /\ OtherRequestsWait(c) /\ req[c] = None
          /\ req'[c] = IF RecordHistory THEN [op |-> "record", alarm |-> row] ELSE None
      BY <1>1, <2>1 DEF Post, Admit, workerVars, OtherRequestsWait, TypeOK
    <2>4. /\ db' = [db EXCEPT ![a] = row] /\ db[a] = Unborn /\ history' = history
          /\ adrift' = adrift
      BY <1>1, <2>1 DEF Post, lost
    <2>5. Pending(a) = {}
      BY <2>4, UnbornOwesNothing
    <2> HIDE DEF row
    <2> QED BY <2>2, <2>3, <2>4, <2>5, RequestWrites
  <1>2. ASSUME NEW a \in Alarms, ReadAlarm(c, a) PROVE Change
    <2>1. /\ OtherRequestsWait(c) /\ req[c] = None
          /\ req'[c].op # "record" /\ db' = db /\ history' = history /\ adrift' = adrift
      BY <1>2 DEF ReadAlarm, Admit, workerVars, OtherRequestsWait, TypeOK, lost
    <2> QED BY <2>1, SeenUnread, RequestOwesNothing DEF Change, Rests
  <1>3. CASE Put(c) \/ PutState(c)
    <2>1. req[c].alarm \in Row /\ req[c] # None /\ Exists(req[c].alarm.alarm_id)
      BY <1>3, RowInRequest DEF Put, PutState
    <2>2. PICK row \in Row, recorded \in BOOLEAN :
              /\ row.alarm_id = req[c].alarm.alarm_id
              /\ db' = [db EXCEPT ![row.alarm_id] = row]
              /\ WriteDrifts(row, recorded)
              /\ req' = [req EXCEPT ![c] = IF recorded THEN [op |-> "record", alarm |-> row]
                                                       ELSE None]
      <3>1. CASE Put(c)
        <4>1. PICK state \in States, enabled \in BOOLEAN, body \in BodyStamps :
                  LET new == PutAlarm(req[c].alarm, state, enabled, body)
                  IN  /\ WriteRow(new)
                      /\ WriteDrifts(new, RecordHistory /\ new.state # req[c].alarm.state)
                      /\ req' = [req EXCEPT ![c] = ToRecord(req[c].alarm, new, FALSE)]
          BY <3>1 DEF Put
        <4> DEFINE new == PutAlarm(req[c].alarm, state, enabled, body)
                   recorded == RecordHistory /\ new.state # req[c].alarm.state
        <4>2. new \in Row /\ new.alarm_id = req[c].alarm.alarm_id
          BY <2>1, PutAlarmIsRow
        <4>3. db' = [db EXCEPT ![new.alarm_id] = new]
          BY <4>1 DEF WriteRow
        <4>4. ToRecord(req[c].alarm, new, FALSE)
                  = IF recorded THEN [op |-> "record", alarm |-> new] ELSE None
          BY DEF ToRecord
        <4>5. req' = [req EXCEPT ![c] = ToRecord(req[c].alarm, new, FALSE)]
          BY <4>1
        <4>6. WriteDrifts(new, recorded)
          BY <4>1
        <4>7. recorded \in BOOLEAN
          OBVIOUS
        <4> HIDE DEF new, recorded
        <4> QED BY <4>2, <4>3, <4>4, <4>5, <4>6, <4>7
      <3>2. CASE PutState(c)
        <4>1. PICK state \in States :
                  LET new == [req[c].alarm EXCEPT !.state = state]
                  IN  /\ WriteRow(new)
                      /\ WriteDrifts(new, RecordHistory)
                      /\ req' = [req EXCEPT ![c] = ToRecord(req[c].alarm, new, TRUE)]
          BY <3>2 DEF PutState
        <4> DEFINE new == [req[c].alarm EXCEPT !.state = state]
        <4>2. new \in Row /\ new.alarm_id = req[c].alarm.alarm_id
          BY <2>1 DEF Row
        <4>3. db' = [db EXCEPT ![new.alarm_id] = new]
          BY <4>1 DEF WriteRow
        <4>4. ToRecord(req[c].alarm, new, TRUE)
                  = IF RecordHistory THEN [op |-> "record", alarm |-> new] ELSE None
          BY DEF ToRecord
        <4>5. req' = [req EXCEPT ![c] = ToRecord(req[c].alarm, new, TRUE)]
          BY <4>1
        <4>6. WriteDrifts(new, RecordHistory)
          BY <4>1
        <4> HIDE DEF new
        <4> QED BY <4>2, <4>3, <4>4, <4>5, <4>6
      <3> QED BY <1>3, <3>1, <3>2
    <2>3. /\ OtherRequestsWait(c) /\ req[c].op # "record" /\ history' = history
          /\ req'[c] = IF recorded THEN [op |-> "record", alarm |-> row] ELSE None
      BY <1>3, <2>2 DEF Put, PutState, OtherRequestsWait, TypeOK
    <2>4. Exists(row.alarm_id) /\ Seen(row.alarm_id) = db[row.alarm_id].state
      BY <2>1, <2>2 DEF Seen
    <2>5. /\ adrift \ {row.alarm_id} \subseteq adrift'
          /\ row.alarm_id \notin adrift' =>
                 \/ recorded /\ Pending(row.alarm_id) = {}
                 \/ /\ ~recorded /\ row.alarm_id \notin adrift
                    /\ db[row.alarm_id].state = row.state
      BY <2>2, DriftOfWrite
    <2> QED BY <2>2, <2>3, <2>4, <2>5, RequestWrites
  <1>4. CASE DeleteAlarm(c)
    BY <1>4, DeleteChanges
  <1>5. CASE RecordRequest(c) \/ RequestNotFound(c) \/ RequestFails(c)
    <2>1. /\ OtherRequestsWait(c) /\ req[c] # None /\ req'[c] = None /\ db' = db
          /\ adrift \subseteq adrift'
      BY <1>5 DEF RecordRequest, RequestNotFound, RequestFails, Marked, workerVars, lost,
                  OtherRequestsWait, TypeOK
    <2>2. /\ req[c].op = "record" =>
                 \/ /\ history' = history
                    /\ \/ req[c].alarm.alarm_id \in adrift'
                       \/ ~Exists(req[c].alarm.alarm_id)
                 \/ RecordChange(req[c].alarm.alarm_id, req[c].alarm.state)
          /\ req[c].op # "record" => history' = history
      BY <1>5 DEF RecordRequest, RequestNotFound, RequestFails, Marked
    <2> QED BY <2>1, <2>2, RequestEnds
  <1> QED BY <1>1, <1>2, <1>3, <1>4, <1>5 DEF Serve

--------------------------------------------------------------------------------
(* The refinement. *)

\* No step takes a row back to where it was not there yet.
LEMMA StaysBorn ==
    ASSUME TypeOK, [Next]_vars, NEW a \in Alarms, db[a] # Unborn
    PROVE  db'[a] # Unborn
  <1> USE ValuesAssumption DEF TypeOK
  <1>1. ASSUME NEW row \in Row, WriteRow(row) PROVE db'[a] # Unborn
    BY <1>1 DEF WriteRow
  <1>2. ASSUME NEW w \in Workers, Store(w) PROVE db'[a] # Unborn
    BY <1>1, <1>2, RowInHand DEF Store, StoreRow
  <1>3. ASSUME NEW w \in Workers, NEW row \in todo[w], Claim(w, row) PROVE db'[a] # Unborn
    <2>1. CASE Exists(a)
      BY <1>3, <2>1, ClaimKeeps DEF Exists
    <2>2. CASE ~Exists(a)
      BY <1>3, <2>2 DEF Claim, SameStamp, Exists
    <2> QED BY <2>1, <2>2
  <1>4. ASSUME NEW c \in Clients, Put(c) \/ PutState(c) PROVE db'[a] # Unborn
    <2>1. CASE Put(c)
      <3>1. PICK state \in States, enabled \in BOOLEAN, body \in BodyStamps :
                WriteRow(PutAlarm(req[c].alarm, state, enabled, body))
        BY <2>1 DEF Put
      <3>2. PutAlarm(req[c].alarm, state, enabled, body) \in Row
        BY <2>1, RowInRequest, PutAlarmIsRow DEF Put
      <3> QED BY <1>1, <3>1, <3>2
    <2>2. CASE PutState(c)
      <3>1. PICK state \in States : WriteRow([req[c].alarm EXCEPT !.state = state])
        BY <2>2 DEF PutState
      <3>2. [req[c].alarm EXCEPT !.state = state] \in Row
        BY <2>2, RowInRequest DEF PutState, Row
      <3> QED BY <1>1, <3>1, <3>2
    <2> QED BY <1>4, <2>1, <2>2
  <1>5. ASSUME NEW c \in Clients, DeleteAlarm(c) PROVE db'[a] # Unborn
    BY <1>5 DEF DeleteAlarm
  <1>6. ASSUME NEW c \in Clients, NEW b \in Alarms, Post(c, b) PROVE db'[a] # Unborn
    BY <1>6 DEF Post
  <1>7. CASE db' = db
    BY <1>7
  <1> QED BY <1>2, <1>3, <1>4, <1>5, <1>6, <1>7
          DEF vars, Next, Age, MeasuresChange, Work, Select, Handle, TakeAssigned, SkipHandled,
              EndCycle, NoRefresh, Refresh, StoreNotFound, Record, RecordOrphan, Notify,
              Restart, Fail, RefreshFails, AbortCycle, Crash, Terminate, Serve, ReadAlarm,
              RecordRequest, RequestNotFound, RequestFails

LEMMA BornStep ==
    ASSUME TypeOK, RequestsAboutBorn, [Next]_vars
    PROVE  RequestsAboutBorn'
  <1> SUFFICES ASSUME NEW c \in Clients, req'[c] # None
               PROVE  db'[req'[c].alarm.alarm_id] # Unborn
    BY DEF RequestsAboutBorn
  <1>1. CASE \E a \in Alarms : Post(c, a)
    BY <1>1, ValuesAssumption DEF Post, TypeOK, Row
  <1>2. CASE \E a \in Alarms : ReadAlarm(c, a)
    BY <1>2 DEF ReadAlarm, Admit, Exists, TypeOK
  <1>3. CASE req[c] # None /\ req'[c].alarm.alarm_id = req[c].alarm.alarm_id
    <2>1. req[c].alarm.alarm_id \in Alarms
      BY <1>3, RowInRequest DEF Row
    <2> QED BY <1>3, <2>1, StaysBorn DEF RequestsAboutBorn
  <1>4. Serve(c) => \/ \E a \in Alarms : Post(c, a) \/ ReadAlarm(c, a)
                    \/ req[c] # None /\ req'[c].alarm.alarm_id = req[c].alarm.alarm_id
    <2>1. CASE Put(c)
      <3>1. PICK state \in States, enabled \in BOOLEAN, body \in BodyStamps :
                req' = [req EXCEPT ![c] = ToRecord(req[c].alarm,
                           PutAlarm(req[c].alarm, state, enabled, body), FALSE)]
        BY <2>1 DEF Put
      <3>2. req[c] # None /\ req[c].alarm \in Row
        BY <2>1, RowInRequest DEF Put
      <3>3. PutAlarm(req[c].alarm, state, enabled, body).alarm_id = req[c].alarm.alarm_id
        BY <3>2, PutAlarmIsRow
      <3> QED BY <3>1, <3>2, <3>3 DEF ToRecord, TypeOK
    <2>2. CASE PutState(c)
      <3>1. PICK state \in States :
                req' = [req EXCEPT ![c] = ToRecord(req[c].alarm,
                           [req[c].alarm EXCEPT !.state = state], TRUE)]
        BY <2>2 DEF PutState
      <3>2. req[c] # None /\ req[c].alarm \in Row
        BY <2>2, RowInRequest DEF PutState
      <3>3. [req[c].alarm EXCEPT !.state = state].alarm_id = req[c].alarm.alarm_id
        BY <3>2 DEF Row
      <3> QED BY <3>1, <3>2, <3>3 DEF ToRecord, TypeOK
    <2>3. CASE DeleteAlarm(c) \/ RecordRequest(c) \/ RequestNotFound(c) \/ RequestFails(c)
      BY <2>3 DEF DeleteAlarm, RecordRequest, RequestNotFound, RequestFails, TypeOK
    <2> QED BY <2>1, <2>2, <2>3 DEF Serve
  <1>5. ~Serve(c) => req'[c] = req[c]
    <2>1. ASSUME NEW d \in Clients \ {c}, Serve(d) PROVE req'[c] = req[c]
      BY <2>1 DEF Serve, Post, Admit, ReadAlarm, Put, PutState, DeleteAlarm, RecordRequest,
                  RequestNotFound, RequestFails, TypeOK
    <2> QED BY <2>1
            DEF vars, Next, Age, MeasuresChange, Work, Select, Handle, TakeAssigned, Claim,
                SkipHandled, EndCycle, NoRefresh, Refresh, Store, StoreNotFound, Record,
                RecordOrphan, Notify, Restart, Fail, RefreshFails, AbortCycle, Crash, Terminate
  <1> QED BY <1>1, <1>2, <1>3, <1>4, <1>5

LEMMA WorkersBornStep ==
    ASSUME TypeOK, RequestsAboutBorn, WorkersAboutBorn, [Next]_vars
    PROVE  WorkersAboutBorn'
  <1> USE ValuesAssumption
  <1>1. \A w \in Workers : /\ \A row \in todo[w] : row.alarm_id \in Alarms
                           /\ cur[w] # None => cur[w].alarm_id \in Alarms
    BY DEF TypeOK, Row
  <1>2. ASSUME NEW w \in Workers,
               \A row \in todo'[w] : row \in todo[w] \/ \E a \in Alarms : row = db[a] /\ Exists(a)
        PROVE  \A row \in todo'[w] : db'[row.alarm_id] # Unborn
    <2> SUFFICES ASSUME NEW row \in todo'[w] PROVE db'[row.alarm_id] # Unborn
      OBVIOUS
    <2>1. CASE row \in todo[w]
      BY <1>1, <2>1, StaysBorn DEF WorkersAboutBorn
    <2>2. CASE \E a \in Alarms : row = db[a] /\ Exists(a)
      <3>1. PICK a \in Alarms : row = db[a] /\ Exists(a)
        BY <2>2
      <3>2. row.alarm_id = a /\ db[a] # Unborn
        BY <3>1, RowInTable DEF Exists
      <3> QED BY <3>2, StaysBorn
    <2> QED BY <1>2, <2>1, <2>2
  <1>3. ASSUME NEW w \in Workers, cur'[w] # None,
               \/ cur[w] # None /\ cur'[w].alarm_id = cur[w].alarm_id
               \/ cur'[w] \in todo[w]
        PROVE  db'[cur'[w].alarm_id] # Unborn
    BY <1>1, <1>3, StaysBorn DEF WorkersAboutBorn
  <1>4. ASSUME NEW w \in Workers, NEW row \in todo'[w]
        PROVE  row \in todo[w] \/ \E a \in Alarms : row = db[a] /\ Exists(a)
    <2>1. CASE todo' = todo
      BY <2>1
    <2>2. ASSUME NEW v \in Workers, Select(v)
          PROVE  row \in todo[w] \/ \E a \in Alarms : row = db[a] /\ Exists(a)
      BY <2>2 DEF Select, Due, TypeOK
    <2>3. ASSUME NEW v \in Workers, Forget(v) PROVE row \in todo[w]
      BY <2>3 DEF Forget, TypeOK
    <2>4. ASSUME NEW v \in Workers, NEW r \in todo[v],
                 TakeAssigned(v, r) \/ Claim(v, r) \/ SkipHandled(v, r)
          PROVE  row \in todo[w]
      BY <2>4 DEF TakeAssigned, Claim, SkipHandled, TypeOK
    <2> QED BY <2>1, <2>2, <2>3, <2>4
            DEF vars, workerVars, Next, Age, MeasuresChange, Work, Handle, EndCycle, NoRefresh,
                Refresh, Store, StoreNotFound, Record, RecordOrphan, Notify, Restart, Fail,
                RefreshFails, AbortCycle, Crash, Terminate, Serve, Post, ReadAlarm, Put,
                PutState, DeleteAlarm, RecordRequest, RequestNotFound, RequestFails
  <1>5. ASSUME NEW w \in Workers, cur'[w] # None
        PROVE  \/ cur[w] # None /\ cur'[w].alarm_id = cur[w].alarm_id
               \/ cur'[w] \in todo[w]
    <2>1. CASE cur' = cur
      BY <1>5, <2>1
    <2>2. ASSUME NEW v \in Workers, Forget(v) \/ Done(v) PROVE cur'[w] = cur[w]
      BY <1>5, <2>2 DEF Forget, Done, TypeOK
    <2>3. ASSUME NEW v \in Workers, NEW r \in todo[v], TakeAssigned(v, r) \/ Claim(v, r)
          PROVE  cur'[w] = cur[w] \/ cur'[w] \in todo[w]
      BY <2>3 DEF TakeAssigned, Claim, TypeOK
    <2>4. ASSUME NEW v \in Workers, Refresh(v)
          PROVE  cur[w] # None /\ cur'[w].alarm_id = cur[w].alarm_id
      <3>1. cur[v] \in Row /\ cur[v] # None
        BY <2>4, RowInHand DEF Refresh
      <3>2. CASE \E state : cur' = [cur EXCEPT ![v].state = state]
        BY <1>5, <3>1, <3>2 DEF TypeOK, Row
      <3>3. CASE cur' = cur \/ Done(v)
        BY <1>5, <3>3 DEF Done, TypeOK
      <3> QED BY <2>4, <3>2, <3>3 DEF Refresh
    <2> QED BY <1>5, <2>1, <2>2, <2>3, <2>4
            DEF vars, workerVars, Next, Age, MeasuresChange, Work, Select, Handle, SkipHandled,
                EndCycle, NoRefresh, Store, StoreNotFound, Record, RecordOrphan, Notify,
                Restart, Fail, RefreshFails, AbortCycle, Crash, Terminate, Serve, Post,
                ReadAlarm, Put, PutState, DeleteAlarm, RecordRequest, RequestNotFound,
                RequestFails
  <1>6. ASSUME NEW a \in Alarms, db'[a] = Unborn PROVE notified'[a] = None
    <2>1. db[a] = Unborn
      BY <1>6, StaysBorn
    <2>2. CASE notified' = notified
      BY <2>1, <2>2 DEF WorkersAboutBorn
    <2>3. ASSUME NEW w \in Workers, Notify(w) PROVE notified'[a] = None
      <3>1. cur[w].alarm_id # a
        BY <2>1, <2>3, RowInHand DEF Notify, WorkersAboutBorn
      <3> QED BY <2>1, <2>3, <3>1 DEF Notify, WorkersAboutBorn, TypeOK
    <2> QED BY <2>2, <2>3
            DEF vars, Next, Age, MeasuresChange, Work, Select, Handle, TakeAssigned, Claim,
                SkipHandled, EndCycle, NoRefresh, Refresh, Store, StoreNotFound, Record,
                RecordOrphan, Restart, Fail, RefreshFails, AbortCycle, Crash, Terminate, Serve,
                Post, ReadAlarm, Put, PutState, DeleteAlarm, RecordRequest, RequestNotFound,
                RequestFails
  <1> QED BY <1>2, <1>3, <1>4, <1>5, <1>6 DEF WorkersAboutBorn

\* Every step makes one of the five changes.
LEMMA EveryStepChanges ==
    ASSUME TypeOK, RequestsAboutBorn, WorkersAboutBorn, [Next]_vars
    PROVE  Change
  <1>1. CASE (\E s \in Stamps : Age(s)) \/ (\E a \in Alarms : MeasuresChange(a))
             \/ UNCHANGED vars
    <2>1. UNCHANGED <<db, history, pc, cur, req, adrift>>
      BY <1>1 DEF Age, MeasuresChange, vars, workerVars, lost
    <2>2. \A a, s : s \in Pending(a)' <=> s \in Pending(a)
      BY <2>1, PendingMeans, PendingMeansNext DEF Owed, OwedBy
    <2> QED BY <2>1, <2>2, SeenUnread, NothingOwed DEF Change, Rests
  <1> QED BY <1>1, WorkChanges, FailChanges, ServeChanges DEF Next

LEMMA BornInit == Init => RequestsAboutBorn /\ WorkersAboutBorn
  BY DEF Init, RequestsAboutBorn, WorkersAboutBorn

LEMMA AboutBorn == Spec => [](RequestsAboutBorn /\ WorkersAboutBorn)
  <1>1. TypeOK /\ RequestsAboutBorn /\ WorkersAboutBorn /\ [Next]_vars
            => RequestsAboutBorn' /\ WorkersAboutBorn'
    BY BornStep, WorkersBornStep
  <1> QED BY <1>1, BornInit, TypeCorrect, PTL DEF Spec

LEMMA InitMaps == Init => Lifecycle!Init
  <1> SUFFICES ASSUME Init PROVE Lifecycle!Init
    OBVIOUS
  <1>1. \A a \in Alarms : IF Exists(a) THEN db[a] \in Row ELSE db[a] = Unborn
    BY ValuesAssumption DEF Init, Exists
  <1>2. \A a \in Alarms : Seen(a) \in States \cup {Unborn}
    BY <1>1 DEF Seen, Row
  <1>3. history \in [Alarms -> States \cup {None}]
    BY <1>1 DEF Init, Row
  <1>4. \A a \in Alarms : history[a] \in {None, Seen(a)}
    BY DEF Init, Seen
  <1>5. \A a \in Alarms : Pending(a) = {}
    BY DEF Init, Pending
  <1> QED BY <1>2, <1>3, <1>4, <1>5 DEF Lifecycle!Init

\* A reader of the alarms and of their history sees what AlarmLifecycle
\* allows, however many evaluators, requests and failures there are.
THEOREM ServiceImplementsLifecycle == Spec => ImplementsLifecycle
  <1>1. TypeOK /\ RequestsAboutBorn /\ WorkersAboutBorn /\ [Next]_vars => Allowed
    BY EveryStepChanges, ChangeIsAllowed
  <1> QED BY <1>1, InitMaps, AboutBorn, TypeCorrect, PTL
          DEF Spec, ImplementsLifecycle, Lifecycle!Spec, Allowed

--------------------------------------------------------------------------------
(* The history is complete. *)

\* However many evaluators, requests and failures there are, an alarm that is
\* not adrift and of which no record is owed has a history that tells of its
\* state.
THEOREM AuditIsComplete == Spec => []AuditComplete
  <1>1. Init => Current
    <2> SUFFICES ASSUME Init, NEW a \in Alarms, RecordHistory, SeenOfAll[a] \in States
                 PROVE  OwedOfAll[a] = {} /\ history[a] = SeenOfAll[a]
      BY DEF Current
    <2>1. OwedOfAll[a] = {}
      BY DEF Init, OwedOfAll, Pending
    <2>2. Exists(a)
      BY ValuesAssumption DEF SeenOfAll, Seen, Exists
    <2>3. history[a] = db[a].state /\ SeenOfAll[a] = db[a].state
      BY <2>2 DEF Init, SeenOfAll, Seen, Exists
    <2> QED BY <2>1, <2>3
  <1>2. TypeOK /\ RequestsAboutBorn /\ WorkersAboutBorn /\ Current /\ [Next]_vars => Current'
    BY EveryStepChanges, ChangeKeepsCurrent
  <1>3. TypeOK /\ Current => AuditComplete
    <2> SUFFICES ASSUME TypeOK, Current, NEW a \in Alarms, RecordHistory, Exists(a),
                        Pending(a) = {}, a \notin adrift
                 PROVE  history[a] = db[a].state
      BY DEF AuditComplete
    <2>1. SeenOfAll[a] = db[a].state /\ SeenOfAll[a] \in States /\ OwedOfAll[a] = {}
      BY RowInTable DEF SeenOfAll, OwedOfAll, Seen, Row
    <2> QED BY <2>1 DEF Current
  <1> QED BY <1>1, <1>2, <1>3, AboutBorn, TypeCorrect, PTL DEF Spec

--------------------------------------------------------------------------------
(* The last notification is current. *)

\* A worker that is about to notify, once its record is written.
Speaks(w, a) == pc[w] \in {"record", "notify"} /\ cur[w].alarm_id = a

\* While nothing is unheard of an alarm, the notifications to come tell of the
\* state it is in; if none is to come, the last one did, if there was one.
Heard(a) ==
    Exists(a) /\ a \notin unheard =>
        /\ \A w \in Workers : Speaks(w, a) => cur[w].state = Seen(a)
        /\ Announced(a) \/ notified[a] \in {None, Seen(a)}

\* A worker that goes on to notify of the same alarm and state, or did not and
\* does not.
VoiceKept(w, a) ==
    /\ Speaks(w, a)' <=> Speaks(w, a)
    /\ Speaks(w, a) => cur'[w].state = cur[w].state

\* A step that changes nothing of the alarm that counts, or loses it.
LEMMA HeardKept ==
    ASSUME NEW a \in Alarms, Heard(a),
           Exists(a)' /\ a \notin unheard' =>
               /\ Exists(a) /\ a \notin unheard /\ Seen(a)' = Seen(a)
               /\ notified'[a] = notified[a]
               /\ \A w \in Workers : VoiceKept(w, a)
    PROVE  Heard(a)'
  <1> SUFFICES ASSUME Exists(a)', a \notin unheard'
               PROVE  /\ \A w \in Workers : Speaks(w, a)' => cur'[w].state = Seen(a)'
                      /\ Announced(a)' \/ notified'[a] \in {None, Seen(a)'}
    BY DEF Heard
  <1>1. \A w \in Workers : Speaks(w, a)' => cur'[w].state = Seen(a)'
    BY DEF Heard, VoiceKept
  <1>2. Announced(a)' \/ notified'[a] \in {None, Seen(a)'}
    <2>1. CASE Announced(a)
      <3>1. PICK w \in Workers : Speaks(w, a)
        BY <2>1 DEF Announced, Speaks
      <3>2. Speaks(w, a)'
        BY <3>1 DEF VoiceKept
      <3> QED BY <3>2 DEF Announced, Speaks
    <2>2. CASE ~Announced(a)
      BY <2>2 DEF Heard
    <2> QED BY <2>1, <2>2
  <1> QED BY <1>1, <1>2

\* The table as it was.
LEMMA SeenKept ==
    ASSUME NEW a \in Alarms, db' = db
    PROVE  (Exists(a)' <=> Exists(a)) /\ Seen(a)' = Seen(a)
  BY DEF Exists, Seen

\* The workers that make no step keep their voice.
LEMMA OthersKeepVoice ==
    ASSUME NEW w \in Workers, OthersWait(w), NEW a
    PROVE  \A v \in Workers \ {w} : VoiceKept(v, a)
  BY DEF OthersWait, VoiceKept, Speaks

LEMMA WorkHeard ==
    ASSUME TypeOK, NEW a \in Alarms, Heard(a), NEW w \in Workers, Work(w)
    PROVE  Heard(a)'
  <1>1. CASE Select(w) \/ EndCycle(w) \/ Restart(w) \/ NoRefresh(w)
             \/ \E row \in todo[w] : TakeAssigned(w, row) \/ SkipHandled(w, row)
    <2>1. db' = db /\ notified' = notified /\ unheard' = unheard
      BY <1>1 DEF Select, EndCycle, Restart, NoRefresh, TakeAssigned, SkipHandled, lost
    <2>2. OthersWait(w) /\ VoiceKept(w, a)
      BY <1>1 DEF Select, EndCycle, Restart, NoRefresh, TakeAssigned, SkipHandled, Done,
                  workerVars, OthersWait, VoiceKept, Speaks, TypeOK
    <2> QED BY <2>1, <2>2, SeenKept, OthersKeepVoice, HeardKept
  <1>2. ASSUME NEW row \in todo[w], Claim(w, row) PROVE Heard(a)'
    <2>1. notified' = notified /\ unheard' = unheard
      BY <1>2 DEF Claim, lost
    <2>2. OthersWait(w) /\ VoiceKept(w, a)
      BY <1>2 DEF Claim, OthersWait, VoiceKept, Speaks, TypeOK
    <2>3. Seen(a)' = Seen(a)
      BY <1>2, SeenClaimed DEF SeenOfAll
    <2>4. Exists(a)' => Exists(a)
      BY <1>2 DEF Claim, SameStamp, Exists, TypeOK
    <2> QED BY <2>1, <2>2, <2>3, <2>4, OthersKeepVoice, HeardKept
  <1>3. CASE Refresh(w)
    <2> DEFINE b == cur[w].alarm_id
    <2>1. db' = db /\ notified' = notified /\ OthersWait(w) /\ pc[w] = "evaluate"
      BY <1>3 DEF Refresh, Done, OthersWait, TypeOK
    <2>2. CASE pc'[w] # "notify" /\ unheard' = unheard
      <3>1. VoiceKept(w, a)
        BY <1>3, <2>1, <2>2 DEF Refresh, Done, VoiceKept, Speaks, TypeOK
      <3> QED BY <2>1, <2>2, <3>1, SeenKept, OthersKeepVoice, HeardKept
    <2>3. CASE /\ pc'[w] = "notify" /\ cur' = cur
               /\ unheard' = Marked(unheard, b, Seen(b) # cur[w].state)
      <3>1. CASE a # b
        <4>1. VoiceKept(w, a)
          BY <2>3, <3>1 DEF VoiceKept, Speaks
        <4>2. a \notin unheard' => a \notin unheard
          BY <2>3 DEF Marked
        <4> QED BY <2>1, <4>1, <4>2, SeenKept, OthersKeepVoice, HeardKept
      <3>2. CASE a = b
        <4> SUFFICES ASSUME Exists(a)', a \notin unheard'
                     PROVE  /\ \A v \in Workers : Speaks(v, a)' => cur'[v].state = Seen(a)'
                            /\ Announced(a)'
          BY DEF Heard
        <4>1. a \notin unheard /\ Seen(a) = cur[w].state
          BY <2>3, <3>2 DEF Marked
        <4>2. Exists(a) /\ Seen(a)' = Seen(a)
          BY <2>1, SeenKept
        <4>3. \A v \in Workers : Speaks(v, a) => cur[v].state = Seen(a)
          BY <4>1, <4>2 DEF Heard
        <4>4. \A v \in Workers : Speaks(v, a)' => v = w \/ Speaks(v, a)
          BY <2>1, OthersKeepVoice DEF VoiceKept
        <4>5. Announced(a)'
          BY <2>3, <3>2 DEF Announced
        <4> HIDE DEF b
        <4> QED BY <2>3, <4>1, <4>2, <4>3, <4>4, <4>5
      <3> QED BY <3>1, <3>2
    <2>4. \/ pc'[w] # "notify" /\ unheard' = unheard
          \/ /\ pc'[w] = "notify" /\ cur' = cur
             /\ unheard' = Marked(unheard, b, Seen(b) # cur[w].state)
      BY <1>3 DEF Refresh, Done, TypeOK, lost
    <2> QED BY <2>2, <2>3, <2>4
  <1>4. CASE Store(w)
    <2> DEFINE b == cur[w].alarm_id
    <2>1. /\ notified' = notified /\ OthersWait(w) /\ cur' = cur /\ pc[w] = "store"
          /\ pc'[w] \in {"record", "notify"}
          /\ unheard' = IF Announced(b) THEN unheard \cup {b} ELSE unheard \ {b}
      BY <1>4 DEF Store, StoreRow, OthersWait, TypeOK
    <2>2. db' = [db EXCEPT ![b] = cur[w]] /\ cur[w] \in Row
      BY <1>4, RowInHand DEF Store, StoreRow, WriteRow
    <2>3. CASE a # b
      <3>1. VoiceKept(w, a)
        BY <2>1, <2>3 DEF VoiceKept, Speaks
      <3>2. (Exists(a)' <=> Exists(a)) /\ Seen(a)' = Seen(a)
        BY <2>2, <2>3 DEF Exists, Seen, TypeOK
      <3>3. a \in unheard' <=> a \in unheard
        BY <2>1, <2>3
      <3> QED BY <2>1, <3>1, <3>2, <3>3, OthersKeepVoice, HeardKept
    <2>4. CASE a = b
      <3> SUFFICES ASSUME a \notin unheard'
                   PROVE  /\ \A v \in Workers : Speaks(v, a)' => cur'[v].state = Seen(a)'
                          /\ Announced(a)'
        BY DEF Heard
      <3>1. \A v \in Workers : ~Speaks(v, a)
        BY <2>1, <2>4 DEF Announced, Speaks
      <3>2. \A v \in Workers : Speaks(v, a)' => v = w
        BY <2>1, <3>1, OthersKeepVoice DEF VoiceKept
      <3>3. Seen(a)' = cur[w].state
        BY <2>2, <2>4, ValuesAssumption DEF Seen, Exists, TypeOK
      <3>4. Announced(a)'
        BY <2>1, <2>4 DEF Announced
      <3> QED BY <2>1, <3>2, <3>3, <3>4
    <2> QED BY <2>3, <2>4
  <1>5. CASE StoreNotFound(w) \/ RecordOrphan(w)
    <2>1. /\ db' = db /\ notified' = notified /\ unheard' = unheard /\ OthersWait(w)
          /\ ~Exists(cur[w].alarm_id)
          /\ (cur'[w] = None /\ pc'[w] = "loop") \/ cur'[w] = cur[w]
      BY <1>5 DEF StoreNotFound, RecordOrphan, Done, OthersWait, TypeOK, lost
    <2>2. CASE a = cur[w].alarm_id
      BY <2>1, <2>2, SeenKept DEF Heard
    <2>3. CASE a # cur[w].alarm_id
      <3>1. VoiceKept(w, a)
        BY <2>1, <2>3 DEF VoiceKept, Speaks
      <3> QED BY <2>1, <3>1, SeenKept, OthersKeepVoice, HeardKept
    <2> QED BY <2>2, <2>3
  <1>6. CASE Record(w)
    <2>1. /\ db' = db /\ notified' = notified /\ unheard' = unheard /\ OthersWait(w)
          /\ VoiceKept(w, a)
      BY <1>6 DEF Record, OthersWait, VoiceKept, Speaks, TypeOK, lost
    <2> QED BY <2>1, SeenKept, OthersKeepVoice, HeardKept
  <1>7. CASE Notify(w)
    <2> DEFINE b == cur[w].alarm_id
    <2>1. /\ db' = db /\ unheard' = unheard /\ OthersWait(w)
          /\ pc[w] = "notify" /\ pc'[w] = "loop"
          /\ notified' = [notified EXCEPT ![b] = cur[w].state]
      BY <1>7 DEF Notify, Done, OthersWait, TypeOK, lost
    <2>2. CASE a # b
      <3>1. VoiceKept(w, a) /\ notified'[a] = notified[a]
        BY <2>1, <2>2 DEF VoiceKept, Speaks, TypeOK
      <3> QED BY <2>1, <3>1, SeenKept, OthersKeepVoice, HeardKept
    <2>3. CASE a = b
      <3> SUFFICES ASSUME Exists(a)', a \notin unheard'
                   PROVE  /\ \A v \in Workers : Speaks(v, a)' => cur'[v].state = Seen(a)'
                          /\ notified'[a] = Seen(a)'
        BY DEF Heard
      <3>1. \A v \in Workers : Speaks(v, a) => cur[v].state = Seen(a)
        BY <2>1, SeenKept DEF Heard
      <3>2. Speaks(w, a) /\ ~Speaks(w, a)'
        BY <2>1, <2>3 DEF Speaks
      <3>3. \A v \in Workers : Speaks(v, a)' => Speaks(v, a) /\ cur'[v].state = cur[v].state
        BY <2>1, <3>2, OthersKeepVoice DEF VoiceKept
      <3>4. notified'[a] = cur[w].state
        BY <2>1, <2>3 DEF TypeOK
      <3>5. Seen(a)' = Seen(a)
        BY <2>1, SeenKept
      <3> QED BY <3>1, <3>2, <3>3, <3>4, <3>5
    <2> QED BY <2>2, <2>3
  <1> QED BY <1>1, <1>2, <1>3, <1>4, <1>5, <1>6, <1>7 DEF Work, Handle

LEMMA FailHeard ==
    ASSUME TypeOK, NEW a \in Alarms, Heard(a), NEW w \in Workers, Fail(w)
    PROVE  Heard(a)'
  <1>1. OthersWait(w) /\ db' = db /\ notified' = notified
    BY DEF Fail, RefreshFails, AbortCycle, Crash, Terminate, Done, Forget, workerVars,
           OthersWait, TypeOK
  <1>2. a \notin unheard' => a \notin unheard
    BY DEF Fail, RefreshFails, AbortCycle, Crash, Terminate, FailureLoses, lost
  <1>3. CASE Speaks(w, a) /\ (RefreshFails(w) \/ Crash(w))
    <2>1. a \in unheard'
      BY <1>3 DEF RefreshFails, Crash, FailureLoses, Speaks
    <2> QED BY <2>1 DEF Heard
  <1>4. CASE ~Speaks(w, a) /\ (RefreshFails(w) \/ Crash(w))
    <2>1. pc'[w] \in {"loop", "idle"}
      BY <1>4 DEF RefreshFails, Crash, Done, Forget, TypeOK
    <2>2. VoiceKept(w, a)
      BY <1>4, <2>1 DEF VoiceKept, Speaks
    <2> QED BY <1>1, <1>2, <2>2, SeenKept, OthersKeepVoice, HeardKept
  <1>5. CASE AbortCycle(w) \/ Terminate(w)
    <2>1. VoiceKept(w, a)
      BY <1>5 DEF AbortCycle, Terminate, Forget, workerVars, VoiceKept, Speaks, TypeOK
    <2> QED BY <1>1, <1>2, <2>1, SeenKept, OthersKeepVoice, HeardKept
  <1> QED BY <1>3, <1>4, <1>5 DEF Fail

LEMMA ServeHeard ==
    ASSUME TypeOK, WorkersAboutBorn, NEW a \in Alarms, Heard(a), NEW c \in Clients, Serve(c)
    PROVE  Heard(a)'
  <1>1. pc' = pc /\ cur' = cur /\ notified' = notified
    BY DEF Serve, Post, ReadAlarm, Put, PutState, DeleteAlarm, RecordRequest,
           RequestNotFound, RequestFails, workerVars
  <1>2. \A w \in Workers : VoiceKept(w, a)
    BY <1>1 DEF VoiceKept, Speaks
  <1>3. CASE (\E b \in Alarms : ReadAlarm(c, b))
             \/ RecordRequest(c) \/ RequestNotFound(c) \/ RequestFails(c)
    <2>1. db' = db /\ unheard' = unheard
      BY <1>3 DEF ReadAlarm, RecordRequest, RequestNotFound, RequestFails, lost
    <2> QED BY <1>1, <1>2, <2>1, SeenKept, HeardKept
  <1>4. CASE DeleteAlarm(c)
    <2>1. /\ db' = [db EXCEPT ![req[c].alarm.alarm_id] = Deleted]
          /\ unheard' = unheard
      BY <1>4 DEF DeleteAlarm, lost
    <2>2. Exists(a)' => Exists(a) /\ Seen(a)' = Seen(a)
      BY <2>1 DEF Exists, Seen, TypeOK
    <2> QED BY <1>1, <1>2, <2>1, <2>2, HeardKept
  <1>5. CASE Put(c) \/ PutState(c)
    <2>1. PICK row \in Row : WriteRow(row) /\ RequestUnheard(row) /\ Exists(row.alarm_id)
      <3>1. req[c].alarm \in Row
        BY <1>5, RowInRequest DEF Put, PutState
      <3>2. CASE Put(c)
        <4>1. PICK state \in States, enabled \in BOOLEAN, body \in BodyStamps :
                  /\ WriteRow(PutAlarm(req[c].alarm, state, enabled, body))
                  /\ RequestUnheard(PutAlarm(req[c].alarm, state, enabled, body))
          BY <3>2 DEF Put
        <4>2. Exists(req[c].alarm.alarm_id)
          BY <3>2 DEF Put
        <4> QED BY <3>1, <4>1, <4>2, PutAlarmIsRow
      <3>3. CASE PutState(c)
        <4>1. PICK state \in States :
                  /\ WriteRow([req[c].alarm EXCEPT !.state = state])
                  /\ RequestUnheard([req[c].alarm EXCEPT !.state = state])
          BY <3>3 DEF PutState
        <4>2. Exists(req[c].alarm.alarm_id)
          BY <3>3 DEF PutState
        <4>3. /\ [req[c].alarm EXCEPT !.state = state] \in Row
              /\ [req[c].alarm EXCEPT !.state = state].alarm_id = req[c].alarm.alarm_id
          BY <3>1 DEF Row
        <4> QED BY <4>1, <4>2, <4>3
      <3> QED BY <1>5, <3>2, <3>3
    <2>2. db' = [db EXCEPT ![row.alarm_id] = row] /\ row.alarm_id \in Alarms
      BY <2>1 DEF WriteRow, Row
    <2>3. unheard' = Marked(unheard, row.alarm_id, db[row.alarm_id].state # row.state)
      BY <2>1 DEF RequestUnheard
    <2>4. Exists(a)' /\ a \notin unheard' => Exists(a) /\ a \notin unheard /\ Seen(a)' = Seen(a)
      <3>1. CASE a = row.alarm_id
        BY <2>1, <2>2, <2>3, <3>1, ValuesAssumption DEF Marked, Exists, Seen, TypeOK
      <3>2. CASE a # row.alarm_id
        BY <2>2, <2>3, <3>2 DEF Marked, Exists, Seen, TypeOK
      <3> QED BY <3>1, <3>2
    <2> QED BY <1>1, <1>2, <2>4, HeardKept
  <1>6. ASSUME NEW b \in Alarms, Post(c, b) PROVE Heard(a)'
    <2>1. db[b] = Unborn /\ unheard' = unheard /\ \A d \in Alarms \ {b} : db'[d] = db[d]
      BY <1>6 DEF Post, lost, TypeOK
    <2>2. CASE a # b
      BY <1>1, <1>2, <2>1, <2>2, HeardKept DEF Exists, Seen
    <2>3. CASE a = b
      <3>1. notified[a] = None
        BY <2>1, <2>3 DEF WorkersAboutBorn
      <3>2. \A w \in Workers : ~Speaks(w, a)
        BY <2>1, <2>3, RowInHand DEF WorkersAboutBorn, Speaks, TypeOK
      <3> QED BY <1>1, <1>2, <3>1, <3>2 DEF Heard, VoiceKept
    <2> QED BY <2>2, <2>3
  <1> QED BY <1>3, <1>4, <1>5, <1>6 DEF Serve

\* Whoever evaluates, changes and fails, a consumer of the notifications knows
\* the state of every alarm it was told of, unless it is unheard.
THEOREM NotificationsAreCurrent == Spec => []NotificationsFollowState
  <1> DEFINE HeardOfAll == \A a \in Alarms : Heard(a)
  <1>1. Init => HeardOfAll
    BY DEF Init, Heard, Speaks
  <1>2. TypeOK /\ WorkersAboutBorn /\ HeardOfAll /\ [Next]_vars => HeardOfAll'
    <2> SUFFICES ASSUME TypeOK, WorkersAboutBorn, [Next]_vars, NEW a \in Alarms, Heard(a)
                 PROVE  Heard(a)'
      BY DEF Heard
    <2>1. CASE (\E s \in Stamps : Age(s)) \/ (\E b \in Alarms : MeasuresChange(b))
               \/ UNCHANGED vars
      <3>1. UNCHANGED <<db, pc, cur, notified, unheard>>
        BY <2>1 DEF Age, MeasuresChange, vars, workerVars, lost
      <3> QED BY <3>1, SeenKept, HeardKept DEF VoiceKept, Speaks
    <2> QED BY <2>1, WorkHeard, FailHeard, ServeHeard DEF Next
  <1>3. HeardOfAll => NotificationsFollowState
    BY DEF Heard, NotificationsFollowState, Seen
  <1> QED BY <1>1, <1>2, <1>3, AboutBorn, TypeCorrect, PTL DEF Spec
================================================================================
