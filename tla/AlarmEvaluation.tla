---------------------------- MODULE AlarmEvaluation ----------------------------
(***************************************************************************)
(* The periodic evaluation of alarms, aodh/evaluator/__init__.py, over the *)
(* alarm table of aodh/storage/impl_sqlalchemy.py, while API requests of   *)
(* aodh/api/controllers/v2/alarms.py read and write the same rows.         *)
(*                                                                         *)
(* A database transaction is one step.  Between two transactions a worker  *)
(* or a request holds a copy of the row it read; update_alarm writes the   *)
(* whole copy back.  A timestamp is only ever compared for equality (the   *)
(* compare-and-swap) and with "now - interval/2" (the selection), so it is *)
(* a member of Stamps that is, or is not yet, old enough: `aged'.  utcnow  *)
(* returns a stamp that nobody holds.                                      *)
(***************************************************************************)
EXTENDS Naturals

CONSTANTS
    Alarms,         \* alarm identifiers; every alarm is of a periodic type
    Workers,        \* aodh-evaluator processes, one cycle thread each
    Clients,        \* API requests in progress at the same time
    States,         \* the alarm states
    Stamps,         \* values of the evaluate_timestamp column
    Repeating,      \* the alarms with repeat_actions
    Coordinated,    \* is a coordination backend configured?
    RecordHistory,  \* conf.record_history
    BodyStamps,     \* what a PUT body may hold as its evaluate_timestamp
    MaxRequests,    \* bound on the API requests of a behaviour
    MaxFaults,      \* bound on the failures and shutdowns of a behaviour
    FaultKinds,     \* which of "exception", "crash", "shutdown" happen
    NULL,           \* the SQL NULL
    None,           \* no value
    Unborn, Deleted \* a row that is not there yet, or no longer

Row == [alarm_id           : Alarms,
        state              : States,
        enabled            : BOOLEAN,   \* stands for every user-owned column
        evaluate_timestamp : Stamps \cup {NULL}]

Request == [op : {"put", "put_state", "delete", "record"}, alarm : Row]

ASSUME ValuesAssumption ==
    /\ NULL \notin Stamps
    /\ None \notin States \cup Row \cup Request
    /\ Unborn # Deleted
    /\ {Unborn, Deleted} \cap (Row \cup States) = {}
    /\ Repeating \subseteq Alarms

ASSUME BoundsAssumption ==
    /\ Coordinated \in BOOLEAN
    /\ RecordHistory \in BOOLEAN
    /\ BodyStamps \subseteq {"echoed", "absent"}
    /\ MaxRequests \in Nat
    /\ MaxFaults \in Nat
    /\ FaultKinds \subseteq {"exception", "crash", "shutdown"}

VARIABLES
    db,         \* table alarm: a row per alarm_id
    history,    \* table alarm_history: the state its last record tells of
    aged,       \* the stamps before now - evaluation_interval / 2
    verdict,    \* the state each rule would evaluate to now, or None
    pc,         \* where each worker is in its cycle
    todo,       \* the selected rows a worker has still to go through
    cur,        \* the row object a worker is evaluating
    claim,      \* was cur taken by the compare-and-swap ("held"), and has a
                \* write of the whole row put the old stamp back ("undone")?
    stopping,   \* the workers inside terminate()
    req,        \* the API requests between two of their transactions
    notified,   \* the state the last notification of an alarm tells of
    adrift,     \* see "What may be lost": the alarms whose history,
    unheard,    \* or whose last notification, need not tell of their state
    requests,   \* number of API requests so far
    faults      \* number of faults so far

workerVars == <<pc, todo, cur, claim>>
lost == <<adrift, unheard>>
vars == <<db, history, aged, verdict, pc, todo, cur, claim, stopping,
          req, notified, adrift, unheard, requests, faults>>

--------------------------------------------------------------------------------
(* The table and the clock. *)

Exists(a) == db[a] \notin {Unborn, Deleted}

\* The state of an alarm as a reader sees it.
Seen(a) == IF Exists(a) THEN db[a].state ELSE db[a]

\* Mutant: the comparison with `before' is the wrong way round.
DueWhenRecent(a) == Exists(a) /\ db[a].enabled /\ db[a].evaluate_timestamp \notin aged

\* evaluate_timestamp < before, which no NULL satisfies.
Due(a) == Exists(a) /\ db[a].enabled /\ db[a].evaluate_timestamp \in aged

Fresh(s) ==
    /\ \A a \in Alarms : Exists(a) => db[a].evaluate_timestamp # s
    /\ \A w \in Workers : \A row \in todo[w] : row.evaluate_timestamp # s
    /\ \A w \in Workers : cur[w] # None => cur[w].evaluate_timestamp # s
    /\ \A c \in Clients : req[c] # None => req[c].alarm.evaluate_timestamp # s

\* utcnow(): s becomes the name of a new instant.
UtcNow(s) ==
    /\ Fresh(s)
    /\ aged' = aged \ {s}

\* A claim made from the stamp that row puts back into the table.
Undoes(row, w) ==
    /\ claim[w] = "held"
    /\ cur[w].alarm_id = row.alarm_id
    /\ cur[w].evaluate_timestamp = row.evaluate_timestamp

\* Mutant: the state column is left out of the UPDATE.
WriteRowWithoutState(row) ==
    /\ db' = [db EXCEPT ![row.alarm_id] = [row EXCEPT !.state = db[row.alarm_id].state]]
    /\ claim' = [w \in Workers |-> IF Undoes(row, w) THEN "undone" ELSE claim[w]]

\* update_alarm: all the columns of the object, in one UPDATE.
WriteRow(row) ==
    /\ db' = [db EXCEPT ![row.alarm_id] = row]
    /\ claim' = [w \in Workers |-> IF Undoes(row, w) THEN "undone" ELSE claim[w]]

\* Mutant: a history table without the foreign key.
RecordUnchecked(a, state) == history' = [history EXCEPT ![a] = state]

\* record_alarm_change: the foreign key demands that the alarm is there.
RecordChange(a, state) ==
    /\ Exists(a)
    /\ history' = [history EXCEPT ![a] = state]

--------------------------------------------------------------------------------
(* What may be lost.  The state of an alarm, the record of it and its          *)
(* notification are written by three steps.  Two variables remember what came  *)
(* between them, since the last change of the state that was written alone.    *)

\* The states of the records that are still to come.
Pending(a) ==
    {cur[w].state : w \in {v \in Workers : pc[v] = "record" /\ cur[v].alarm_id = a}}
        \cup {req[c].alarm.state : c \in {d \in Clients : /\ req[d] # None
                                                         /\ req[d].op = "record"
                                                         /\ req[d].alarm.alarm_id = a}}

\* Is a worker about to notify of the alarm?
Announced(a) == \E w \in Workers : pc[w] \in {"record", "notify"} /\ cur[w].alarm_id = a

Marked(set, a, mark) == IF mark THEN set \cup {a} ELSE set

\* The row is written, and a record of it follows or not.  The history may not
\* follow if records of two writes are owed at once, or if none is owed of a
\* state that the row did not have (the writer has read it before).
WriteDrifts(row, recorded) ==
    LET a == row.alarm_id
    IN  adrift' = IF recorded /\ Pending(a) = {} THEN adrift \ {a}
                  ELSE Marked(adrift, a, recorded \/ db[a].state # row.state)

\* A request changes the state; only evaluators notify.
RequestUnheard(row) ==
    unheard' = Marked(unheard, row.alarm_id, db[row.alarm_id].state # row.state)

\* A worker fails between the write of a row and the end of _refresh.
FailureLoses(w, recorded) ==
    LET a == cur[w].alarm_id
    IN  /\ adrift' = IF pc[w] = "record" /\ ~recorded THEN adrift \cup {a} ELSE adrift
        /\ unheard' = IF pc[w] \in {"record", "notify"} THEN unheard \cup {a} ELSE unheard

--------------------------------------------------------------------------------
\* partition_coordinator.is_active()
IsActive(w) == Coordinated /\ w \notin stopping

--------------------------------------------------------------------------------
Init ==
    /\ db \in [Alarms -> Row \cup {Unborn}]
    /\ \A a \in Alarms : Exists(a) =>
           /\ db[a].alarm_id = a
           /\ db[a].enabled
           /\ db[a].evaluate_timestamp # NULL
    /\ history = [a \in Alarms |-> IF Exists(a) /\ RecordHistory
                                     THEN db[a].state ELSE None]
    /\ aged = {}
    /\ verdict \in [Alarms -> States \cup {None}]
    /\ pc = [w \in Workers |-> "idle"]
    /\ todo = [w \in Workers |-> {}]
    /\ cur = [w \in Workers |-> None]
    /\ claim = [w \in Workers |-> "none"]
    /\ stopping = {}
    /\ req = [c \in Clients |-> None]
    /\ notified = [a \in Alarms |-> None]
    /\ adrift = {}
    /\ unheard = {}
    /\ requests = 0
    /\ faults = 0

(* Time passes; the measures a rule looks at change. *)
Age(s) ==
    /\ s \notin aged
    /\ \E a \in Alarms : Exists(a) /\ db[a].evaluate_timestamp = s
    /\ aged' = aged \cup {s}
    /\ UNCHANGED <<db, history, verdict, workerVars, stopping, req, notified, lost,
                   requests, faults>>

MeasuresChange(a) ==
    /\ \E v \in States \cup {None} : verdict' = [verdict EXCEPT ![a] = v]
    /\ UNCHANGED <<db, history, aged, workerVars, stopping, req, notified, lost,
                   requests, faults>>

--------------------------------------------------------------------------------
(* The worker: _evaluate_assigned_alarms. *)

\* Without a coordinator every due alarm; with one, the part of them that
\* extract_my_subset returns, which may be any part while members come and go.
Select(w) ==
    /\ pc[w] = "idle"
    /\ w \notin stopping
    /\ LET due == {a \in Alarms : Due(a)}
       IN \E mine \in (IF IsActive(w) THEN SUBSET due ELSE {due}) \ {{}} :
              todo' = [todo EXCEPT ![w] = {db[a] : a \in mine}]
    /\ pc' = [pc EXCEPT ![w] = "loop"]
    /\ UNCHANGED <<db, history, aged, verdict, cur, claim, stopping, req, notified,
                   lost, requests, faults>>

\* _evaluate_alarm with an active coordinator: no claim in the database.
TakeAssigned(w, row) ==
    /\ pc[w] = "loop"
    /\ row \in todo[w]
    /\ IsActive(w)
    /\ todo' = [todo EXCEPT ![w] = @ \ {row}]
    /\ cur' = [cur EXCEPT ![w] = row]
    /\ claim' = [claim EXCEPT ![w] = "none"]
    /\ pc' = [pc EXCEPT ![w] = "evaluate"]
    /\ UNCHANGED <<db, history, aged, verdict, stopping, req, notified, lost,
                   requests, faults>>

\* Mutant: the update is not conditional on the stamp.
SameAlarm(row) == Exists(row.alarm_id)

\* conditional_update finds the row with the stamp that was read.
SameStamp(row) ==
    /\ Exists(row.alarm_id)
    /\ db[row.alarm_id].evaluate_timestamp = row.evaluate_timestamp

Claim(w, row) ==
    /\ pc[w] = "loop"
    /\ row \in todo[w]
    /\ ~IsActive(w)
    /\ SameStamp(row)
    /\ \E s \in Stamps :
           /\ UtcNow(s)
           /\ db' = [db EXCEPT ![row.alarm_id].evaluate_timestamp = s]
    /\ todo' = [todo EXCEPT ![w] = @ \ {row}]
    /\ cur' = [cur EXCEPT ![w] = row]
    /\ claim' = [claim EXCEPT ![w] = "held"]
    /\ pc' = [pc EXCEPT ![w] = "evaluate"]
    /\ UNCHANGED <<history, verdict, stopping, req, notified, lost, requests, faults>>

\* "has been already handled by another evaluator"
SkipHandled(w, row) ==
    /\ pc[w] = "loop"
    /\ row \in todo[w]
    /\ ~IsActive(w)
    /\ ~SameStamp(row)
    /\ todo' = [todo EXCEPT ![w] = @ \ {row}]
    /\ UNCHANGED <<db, history, aged, verdict, pc, cur, claim, stopping, req,
                   notified, lost, requests, faults>>

EndCycle(w) ==
    /\ pc[w] = "loop"
    /\ todo[w] = {}
    /\ pc' = [pc EXCEPT ![w] = "idle"]
    /\ UNCHANGED <<db, history, aged, verdict, todo, cur, claim, stopping, req,
                   notified, lost, requests, faults>>

\* Mutant: the worker keeps the alarm it is done with.
DoneKeepsAlarm(w) ==
    /\ pc' = [pc EXCEPT ![w] = "loop"]
    /\ claim' = [claim EXCEPT ![w] = "none"]
    /\ UNCHANGED cur

\* Evaluator.evaluate is over: the next alarm of the cycle.
Done(w) ==
    /\ pc' = [pc EXCEPT ![w] = "loop"]
    /\ cur' = [cur EXCEPT ![w] = None]
    /\ claim' = [claim EXCEPT ![w] = "none"]

\* The evaluator raises, is outside the time constraints of the alarm, or
\* sees no reason to refresh.
NoRefresh(w) ==
    /\ pc[w] = "evaluate"
    /\ verdict[cur[w].alarm_id] = None
    /\ Done(w)
    /\ UNCHANGED <<db, history, aged, verdict, todo, stopping, req, notified, lost,
                   requests, faults>>

\* _refresh, up to its first access of the database or the queue.
Refresh(w) ==
    LET alarm == cur[w]
        state == verdict[alarm.alarm_id]
    IN  /\ pc[w] = "evaluate"
        /\ state # None
        /\ \/ /\ alarm.state # state
              /\ cur' = [cur EXCEPT ![w].state = state]
              /\ pc' = [pc EXCEPT ![w] = "store"]
              /\ UNCHANGED <<claim, lost>>
           \/ /\ alarm.state = state
              /\ alarm.alarm_id \in Repeating
              /\ pc' = [pc EXCEPT ![w] = "notify"]
              /\ unheard' = Marked(unheard, alarm.alarm_id, Seen(alarm.alarm_id) # state)
              /\ UNCHANGED <<cur, claim, adrift>>
           \/ /\ alarm.state = state
              /\ alarm.alarm_id \notin Repeating
              /\ Done(w)
              /\ UNCHANGED lost
        /\ UNCHANGED <<db, history, aged, verdict, todo, stopping, req, notified,
                       requests, faults>>

\* A change of the state that no other evaluator is about to announce is heard.
StoreRow(w) ==
    /\ WriteRow(cur[w])
    /\ WriteDrifts(cur[w], RecordHistory)
    /\ LET a == cur[w].alarm_id
       IN  unheard' = IF Announced(a) THEN unheard \cup {a} ELSE unheard \ {a}

\* Mutant: update_alarm inserts the row when it is not there.
StoreUpsert(w) ==
    /\ pc[w] = "store"
    /\ StoreRow(w)
    /\ pc' = [pc EXCEPT ![w] = IF RecordHistory THEN "record" ELSE "notify"]
    /\ UNCHANGED <<history, aged, verdict, todo, cur, stopping, req, notified,
                   requests, faults>>

\* Mutant: a stored transition is not recorded.
StoreUnrecorded(w) ==
    /\ pc[w] = "store"
    /\ Exists(cur[w].alarm_id)
    /\ StoreRow(w)
    /\ pc' = [pc EXCEPT ![w] = "notify"]
    /\ UNCHANGED <<history, aged, verdict, todo, cur, stopping, req, notified,
                   requests, faults>>

\* update_alarm finds the row, and writes its copy over it.
Store(w) ==
    /\ pc[w] = "store"
    /\ Exists(cur[w].alarm_id)
    /\ StoreRow(w)
    /\ pc' = [pc EXCEPT ![w] = IF RecordHistory THEN "record" ELSE "notify"]
    /\ UNCHANGED <<history, aged, verdict, todo, cur, stopping, req, notified,
                   requests, faults>>

\* AlarmNotFound: nothing to record, but the notification goes out.
StoreNotFound(w) ==
    /\ pc[w] = "store"
    /\ ~Exists(cur[w].alarm_id)
    /\ pc' = [pc EXCEPT ![w] = "notify"]
    /\ UNCHANGED <<db, history, aged, verdict, todo, cur, claim, stopping, req,
                   notified, lost, requests, faults>>

\* Mutant: a recorded transition is not notified.
RecordOnly(w) ==
    /\ pc[w] = "record"
    /\ RecordChange(cur[w].alarm_id, cur[w].state)
    /\ Done(w)
    /\ UNCHANGED <<db, aged, verdict, todo, stopping, req, notified, lost, requests,
                   faults>>

Record(w) ==
    /\ pc[w] = "record"
    /\ RecordChange(cur[w].alarm_id, cur[w].state)
    /\ pc' = [pc EXCEPT ![w] = "notify"]
    /\ UNCHANGED <<db, aged, verdict, todo, cur, claim, stopping, req, notified, lost,
                   requests, faults>>

\* The alarm was deleted after Store: the insert fails, _refresh gives up.
RecordOrphan(w) ==
    /\ pc[w] = "record"
    /\ ~Exists(cur[w].alarm_id)
    /\ Done(w)
    /\ UNCHANGED <<db, history, aged, verdict, todo, stopping, req, notified, lost,
                   requests, faults>>

Notify(w) ==
    /\ pc[w] = "notify"
    /\ notified' = [notified EXCEPT ![cur[w].alarm_id] = cur[w].state]
    /\ Done(w)
    /\ UNCHANGED <<db, history, aged, verdict, todo, stopping, req, lost, requests,
                   faults>>

--------------------------------------------------------------------------------
(* What fails in a worker. *)

Fault(kind) ==
    /\ kind \in FaultKinds
    /\ faults < MaxFaults
    /\ faults' = faults + 1

\* An exception inside _refresh is logged and swallowed: the database, the
\* identity service or the message queue did not answer.  What was written
\* before stays written.
RefreshFails(w) ==
    /\ pc[w] \in {"store", "record", "notify"}
    /\ Fault("exception")
    /\ \/ UNCHANGED history /\ FailureLoses(w, FALSE)
       \/ /\ pc[w] = "record"
          /\ RecordChange(cur[w].alarm_id, cur[w].state)
          /\ FailureLoses(w, TRUE)
    /\ Done(w)
    /\ UNCHANGED <<db, aged, verdict, todo, stopping, req, notified, requests>>

Forget(w) ==
    /\ pc' = [pc EXCEPT ![w] = "idle"]
    /\ todo' = [todo EXCEPT ![w] = {}]
    /\ cur' = [cur EXCEPT ![w] = None]
    /\ claim' = [claim EXCEPT ![w] = "none"]

\* conditional_update raises: the rest of the cycle is dropped.
AbortCycle(w) ==
    /\ pc[w] = "loop"
    /\ todo[w] # {}
    /\ ~IsActive(w)
    /\ Fault("exception")
    /\ Forget(w)
    /\ UNCHANGED <<db, history, aged, verdict, stopping, req, notified, lost,
                   requests>>

\* The process dies and is started again.
Crash(w) ==
    /\ pc[w] # "idle"
    /\ Fault("crash")
    /\ Forget(w)
    /\ FailureLoses(w, FALSE)
    /\ stopping' = stopping \ {w}
    /\ UNCHANGED <<db, history, aged, verdict, req, notified, requests>>

\* terminate(): the coordinator is stopped while the cycle goes on.
Terminate(w) ==
    /\ w \notin stopping
    /\ Fault("shutdown")
    /\ stopping' = stopping \cup {w}
    /\ UNCHANGED <<db, history, aged, verdict, workerVars, req, notified, lost,
                   requests>>

\* periodic.wait() is over, and a new process takes the place.
Restart(w) ==
    /\ w \in stopping
    /\ pc[w] = "idle"
    /\ stopping' = stopping \ {w}
    /\ UNCHANGED <<db, history, aged, verdict, workerVars, req, notified, lost,
                   requests, faults>>

--------------------------------------------------------------------------------
(* API requests. *)

Admit(c) == req[c] = None /\ requests < MaxRequests /\ requests' = requests + 1

\* post: the row gets the default evaluate_timestamp, now.
Post(c, a) ==
    /\ Admit(c)
    /\ db[a] = Unborn
    /\ \E state \in States, enabled \in BOOLEAN, s \in Stamps :
           LET row == [alarm_id |-> a, state |-> state, enabled |-> enabled,
                       evaluate_timestamp |-> s]
           IN  /\ UtcNow(s)
               /\ db' = [db EXCEPT ![a] = row]
               /\ req' = [req EXCEPT ![c] = IF RecordHistory
                              THEN [op |-> "record", alarm |-> row] ELSE None]
    /\ UNCHANGED <<history, verdict, workerVars, stopping, notified, lost, faults>>

\* put, put_state and delete read the alarm first, in _enforce_rbac.
ReadAlarm(c, a) ==
    /\ Admit(c)
    /\ Exists(a)
    /\ \E op \in {"put", "put_state", "delete"} :
           req' = [req EXCEPT ![c] = [op |-> op, alarm |-> db[a]]]
    /\ UNCHANGED <<db, history, aged, verdict, workerVars, stopping, notified, lost,
                   faults>>

\* The alarm built from the body of a PUT and from what was read.  A body
\* without evaluate_timestamp becomes an alarm with None there.
PutAlarm(old, state, enabled, body) ==
    [old EXCEPT !.state = state,
                !.enabled = enabled,
                !.evaluate_timestamp = IF body = "echoed" THEN @ ELSE NULL]

\* Mutant: the record of a PUT tells of the state before it.
ToRecordOld(old, new, always) ==
    IF RecordHistory /\ (always \/ new.state # old.state)
      THEN [op |-> "record", alarm |-> old] ELSE None

\* What is left to do after update_alarm: the record that tells of the state.
ToRecord(old, new, always) ==
    IF RecordHistory /\ (always \/ new.state # old.state)
      THEN [op |-> "record", alarm |-> new] ELSE None

Put(c) ==
    /\ req[c] # None
    /\ req[c].op = "put"
    /\ Exists(req[c].alarm.alarm_id)
    /\ \E state \in States, enabled \in BOOLEAN, body \in BodyStamps :
           LET old == req[c].alarm
               new == PutAlarm(old, state, enabled, body)
           IN  /\ WriteRow(new)
               /\ WriteDrifts(new, RecordHistory /\ new.state # old.state)
               /\ RequestUnheard(new)
               /\ req' = [req EXCEPT ![c] = ToRecord(old, new, FALSE)]
    /\ UNCHANGED <<history, aged, verdict, pc, todo, cur, stopping, notified,
                   requests, faults>>

PutState(c) ==
    /\ req[c] # None
    /\ req[c].op = "put_state"
    /\ Exists(req[c].alarm.alarm_id)
    /\ \E state \in States :
           LET old == req[c].alarm
               new == [old EXCEPT !.state = state]
           IN  /\ WriteRow(new)
               /\ WriteDrifts(new, RecordHistory)
               /\ RequestUnheard(new)
               /\ req' = [req EXCEPT ![c] = ToRecord(old, new, TRUE)]
    /\ UNCHANGED <<history, aged, verdict, pc, todo, cur, stopping, notified,
                   requests, faults>>

\* The delete of the row takes its history with it (ON DELETE CASCADE).
DeleteAlarm(c) ==
    /\ req[c] # None
    /\ req[c].op = "delete"
    /\ LET a == req[c].alarm.alarm_id
       IN  /\ db' = [db EXCEPT ![a] = Deleted]
           /\ history' = [history EXCEPT ![a] = None]
    /\ req' = [req EXCEPT ![c] = None]
    /\ UNCHANGED <<aged, verdict, workerVars, stopping, notified, lost, requests,
                   faults>>

RecordRequest(c) ==
    /\ req[c] # None
    /\ req[c].op = "record"
    /\ RecordChange(req[c].alarm.alarm_id, req[c].alarm.state)
    /\ req' = [req EXCEPT ![c] = None]
    /\ UNCHANGED <<db, aged, verdict, workerVars, stopping, notified, lost, requests,
                   faults>>

\* AlarmNotFound from update_alarm, or the foreign key refuses the record.
RequestNotFound(c) ==
    /\ req[c] # None
    /\ req[c].op # "delete"
    /\ ~Exists(req[c].alarm.alarm_id)
    /\ req' = [req EXCEPT ![c] = None]
    /\ UNCHANGED <<db, history, aged, verdict, workerVars, stopping, notified, lost,
                   requests, faults>>

\* The API process dies, or the database does not answer.
RequestFails(c) ==
    /\ req[c] # None
    /\ Fault("exception")
    /\ req' = [req EXCEPT ![c] = None]
    /\ adrift' = Marked(adrift, req[c].alarm.alarm_id, req[c].op = "record")
    /\ UNCHANGED <<db, history, aged, verdict, workerVars, stopping, notified, unheard,
                   requests>>

--------------------------------------------------------------------------------
Handle(w) ==
    \E row \in todo[w] :
        TakeAssigned(w, row) \/ Claim(w, row) \/ SkipHandled(w, row)

Work(w) ==
    \/ Select(w) \/ Handle(w) \/ EndCycle(w)
    \/ NoRefresh(w) \/ Refresh(w)
    \/ Store(w) \/ StoreNotFound(w)
    \/ Record(w) \/ RecordOrphan(w)
    \/ Notify(w)
    \/ Restart(w)

Fail(w) == RefreshFails(w) \/ AbortCycle(w) \/ Crash(w) \/ Terminate(w)

Serve(c) ==
    \/ \E a \in Alarms : Post(c, a) \/ ReadAlarm(c, a)
    \/ Put(c) \/ PutState(c) \/ DeleteAlarm(c)
    \/ RecordRequest(c) \/ RequestNotFound(c) \/ RequestFails(c)

Next ==
    \/ \E s \in Stamps : Age(s)
    \/ \E a \in Alarms : MeasuresChange(a)
    \/ \E w \in Workers : Work(w) \/ Fail(w)
    \/ \E c \in Clients : Serve(c)

Spec == Init /\ [][Next]_vars

\* The cycle timer fires again and again, a thread that can run runs, and
\* time passes.  Nothing is assumed of requests, faults or measures.
Fairness ==
    /\ \A s \in Stamps : WF_vars(Age(s))
    /\ \A w \in Workers : WF_vars(Work(w))

LiveSpec == Spec /\ Fairness

--------------------------------------------------------------------------------
(* Properties. *)

\* Every variable keeps its type, and a worker holds an alarm exactly while it
\* evaluates one (the locals of _evaluate_alarm).
TypeOK ==
    /\ db \in [Alarms -> Row \cup {Unborn, Deleted}]
    /\ \A a \in Alarms : Exists(a) => db[a].alarm_id = a
    /\ history \in [Alarms -> States \cup {None}]
    /\ aged \subseteq Stamps
    /\ verdict \in [Alarms -> States \cup {None}]
    /\ pc \in [Workers -> {"idle", "loop", "evaluate", "store", "record", "notify"}]
    /\ todo \in [Workers -> SUBSET Row]
    /\ cur \in [Workers -> Row \cup {None}]
    /\ \A w \in Workers : cur[w] = None <=> pc[w] \in {"idle", "loop"}
    /\ claim \in [Workers -> {"none", "held", "undone"}]
    /\ \A w \in Workers : claim[w] # "none" => cur[w] # None
    /\ stopping \subseteq Workers
    /\ req \in [Clients -> Request \cup {None}]
    /\ notified \in [Alarms -> States \cup {None}]
    /\ adrift \subseteq Alarms
    /\ unheard \subseteq Alarms
    /\ requests \in Nat
    /\ faults \in Nat

SameClaim(v, w) ==
    /\ cur[v].alarm_id = cur[w].alarm_id
    /\ cur[v].evaluate_timestamp = cur[w].evaluate_timestamp

\* The compare-and-swap of _evaluate_alarm lets one evaluator through for each
\* value of evaluate_timestamp, whatever the interleaving, as long as no write
\* of a whole row (update_alarm) has put that value back in the meantime.
OneClaimPerStamp ==
    \A v, w \in Workers :
        v # w /\ claim[v] = "held" /\ claim[w] = "held" => ~SameClaim(v, w)

\* What the comment and the log line of _evaluate_alarm promise: an alarm that
\* one evaluator has taken is not taken by another that read the same row.
HandledByOne ==
    \A v, w \in Workers :
        v # w /\ claim[v] # "none" /\ claim[w] # "none" => ~SameClaim(v, w)

\* The history never outlives its alarm: whenever a record races a delete, the
\* foreign key of alarm_history refuses it or the cascade removes it.
HistoryGoneWithAlarm == \A a \in Alarms : ~Exists(a) => history[a] = None

Lifecycle == INSTANCE AlarmLifecycle
             WITH alarm <- [a \in Alarms |-> Seen(a)],
                  owed <- [a \in Alarms |-> Pending(a)]

\* Evaluators and requests together, with their copies of rows, their lost
\* updates and their failures, keep the promise of AlarmLifecycle: an alarm
\* lives once, and its history never tells of a state nobody wrote.
ImplementsLifecycle == Lifecycle!Spec

\* No late update_alarm, of an evaluator or of a request that read the row
\* before, brings a deleted alarm back.
DeletionIsFinal == [][\A a \in Alarms : db[a] = Deleted => db'[a] = Deleted]_vars

\* Whoever evaluates, changes and fails, and in whatever order: when no record
\* is owed, the history of an alarm tells of the state its row is in, unless one
\* of three things came after the last change that was recorded alone: records
\* of two changes were owed at once, a request put a state it had read back
\* without recording it, or a failure lost a record.
AuditComplete ==
    \A a \in Alarms :
        RecordHistory /\ Exists(a) /\ Pending(a) = {} /\ a \notin adrift
            => history[a] = db[a].state

\* Likewise for the consumer of notifications: the last one it got is of the
\* state the row is in, unless, since the last change that an evaluator made
\* while no other was about to notify, a request changed the state, an
\* evaluator repeated its actions for a state it had read before, or one failed.
NotificationsFollowState ==
    \A a \in Alarms :
        Exists(a) /\ ~Announced(a) /\ a \notin unheard
            => notified[a] \in {None, db[a].state}

Selectable(a) ==
    Exists(a) /\ db[a].enabled /\ db[a].evaluate_timestamp # NULL

\* An alarm that stays enabled is evaluated again and again, by some worker,
\* whatever crashes, lost claims and stale writes came before.
EvaluatedForEver ==
    \A a \in Alarms :
        <>[]Selectable(a) =>
            []<>(\E w \in Workers : pc[w] = "evaluate" /\ cur[w].alarm_id = a)

\* If the rule of an enabled alarm comes to stay at one verdict, the state in
\* the table comes to stay there too: stale writes do not win.
StateFollowsVerdict ==
    \A a \in Alarms, s \in States :
        <>[](Selectable(a) /\ verdict[a] = s) => <>[](Exists(a) /\ db[a].state = s)

Owed(w, a, s) == pc[w] = "record" /\ cur[w].alarm_id = a /\ cur[w].state = s
Settled(a, s) == notified[a] = s \/ ~Exists(a) \/ verdict[a] # s

\* What the comment in _refresh promises when recording or notifying fails
\* ("retry will occur naturally on the next evaluation cycle (unless alarm state
\* reverts in the meantime)"): a transition that an evaluator has stored is
\* notified, unless the alarm is deleted or its rule changes its mind first.
TransitionNotified ==
    \A w \in Workers, a \in Alarms, s \in States : Owed(w, a, s) ~> Settled(a, s)
================================================================================
