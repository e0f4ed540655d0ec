------------------------------- MODULE EventAlarms -------------------------------
(***************************************************************************)
(* Alarms that fire on events: EventAlarmEvaluator of                      *)
(* aodh/evaluator/event.py, called by the listener threads of              *)
(* aodh/event.py, with the _refresh of aodh/evaluator/__init__.py.         *)
(*                                                                         *)
(* A process keeps, per project, a dict of the alarms it has read, for     *)
(* event_alarm_cache_ttl seconds.  The dicts are objects that threads      *)
(* share: one that has been dropped from the cache is still used by the    *)
(* threads that iterate over it.  A step is one access of the cache or one *)
(* database transaction.  Requests of the API change a row in one step.    *)
(***************************************************************************)
EXTENDS EventRule, FiniteSets

CONSTANTS
    Processes,  \* aodh-listener processes
    Threads,    \* threads of their message executors
    Owner,      \* the process of a thread
    Projects,
    Alarms,     \* alarm identifiers; every alarm is of type event
    ProjectOf,  \* of an alarm
    RuleOf,     \* of an alarm
    Events,     \* the events that may arrive
    MayRepeat,  \* the alarms that may have repeat_actions
    States,     \* alarm states; "alarm" is the one that an event leads to
    Dicts,      \* dict objects
    Caching,    \* is event_alarm_cache_ttl greater than 0?
    MaxRequests,\* bound on the API requests of a behaviour
    MaxFaults,  \* bound on exceptions and crashes
    None,       \* no value
    Initially,  \* the rows that each alarm may have at the start
    Absent      \* a row that is not there

\* The state, and one column for all those that belong to the user.
Row == [state : States, enabled : BOOLEAN]

ASSUME EventAssumption ==
    /\ IsFiniteSet(Threads)
    /\ Owner \in [Threads -> Processes]
    /\ ProjectOf \in [Alarms -> Projects]
    /\ \A a \in Alarms : AcceptedRule(RuleOf[a])
    /\ Initially \in [Alarms -> SUBSET (Row \cup {Absent})]
    /\ MayRepeat \subseteq Alarms
    /\ "alarm" \in States
    /\ None \notin Dicts \cup Alarms \cup Projects \cup Row
    /\ Absent \notin Row
    /\ Caching \in BOOLEAN
    /\ MaxRequests \in Nat
    /\ MaxFaults \in Nat

VARIABLES
    db,         \* table alarm
    repeating,  \* the alarms with repeat_actions
    caches,     \* of a process and a project: the dict in the cache, or None
    old,        \* the <<process, project>> whose `updated' is older than the TTL
    heap,       \* of a dict and an alarm: the copy of the row in it, or None
    pc,         \* where each thread is
    project,    \* of its event
    matches,    \* the alarms whose event_type and query its event meets
    dict,       \* the dict it iterates over
    todo,       \* the alarms of it that are still to come
    cur,        \* the alarm it evaluates
    sent,       \* notifications of an alarm by a process, if it does not repeat
    armed,      \* how often a request put an alarm into a state other than "alarm"
    requests, faults

event == <<project, matches>>
loop == <<dict, todo, cur>>
vars == <<db, repeating, caches, old, heap, pc, project, matches, dict, todo, cur, sent,
          armed, requests, faults>>

EmptyDict == [a \in Alarms |-> None]
Exists(a) == db[a] # Absent
Copy(t) == heap[dict[t]][cur[t]]

Init ==
    /\ db \in [Alarms -> Row \cup {Absent}]
    /\ \A a \in Alarms : db[a] \in Initially[a]
    /\ repeating \in SUBSET MayRepeat
    /\ caches = [p \in Processes |-> [j \in Projects |-> None]]
    /\ old = {}
    /\ heap = [d \in Dicts |-> EmptyDict]
    /\ pc = [t \in Threads |-> "idle"]
    /\ project = [t \in Threads |-> None]
    /\ matches = [t \in Threads |-> {}]
    /\ dict = [t \in Threads |-> None]
    /\ todo = [t \in Threads |-> {}]
    /\ cur = [t \in Threads |-> None]
    /\ sent = [p \in Processes |-> [a \in Alarms |-> 0]]
    /\ armed = [a \in Alarms |-> IF Exists(a) /\ db[a].state # "alarm" THEN 1 ELSE 0]
    /\ requests = 0
    /\ faults = 0

Goto(t, place) == pc' = [pc EXCEPT ![t] = place]

\* The caches and the threads that hold refer to a dict.
Used(d, cached, held) ==
    \/ \E p \in Processes, j \in Projects : cached[p][j] = d
    \/ \E t \in Threads : held[t] = d

\* What is left of the heap when the dicts that nothing refers to are collected.
Collected(cached, held) ==
    [d \in Dicts |-> IF Used(d, cached, held) THEN heap[d] ELSE EmptyDict]

\* The thread has finished with the event, or an exception ended it: the
\* message is acknowledged either way (allow_requeue is False).
EndEvent(t) ==
    /\ Goto(t, "idle")
    /\ project' = [project EXCEPT ![t] = None]
    /\ matches' = [matches EXCEPT ![t] = {}]
    /\ dict' = [dict EXCEPT ![t] = None]
    /\ heap' = Collected(caches, dict')
    /\ todo' = [todo EXCEPT ![t] = {}]
    /\ cur' = [cur EXCEPT ![t] = None]

--------------------------------------------------------------------------------
(* _get_project_alarms. *)

Cached(t) == caches[Owner[t]][project[t]]
Place(t) == <<Owner[t], project[t]>>

\* An event arrives.  One that is not valid changes nothing, and one of a
\* project not in Projects finds no alarm.
Receive(t, e) ==
    /\ pc[t] = "idle"
    /\ ValidEvent(e)
    /\ EventProject(e) \in Projects
    /\ project' = [project EXCEPT ![t] = EventProject(e)]
    /\ matches' = [matches EXCEPT ![t] =
                       {a \in Alarms : ProjectOf[a] = EventProject(e) /\ Meets(RuleOf[a], e)}]
    /\ Goto(t, "look")
    /\ UNCHANGED <<db, repeating, caches, old, heap, loop, sent, armed, requests, faults>>

\* project in self.caches
LookUp(t) ==
    /\ pc[t] = "look"
    /\ Goto(t, IF Caching /\ Cached(t) # None THEN "age" ELSE "load")
    /\ UNCHANGED <<db, repeating, caches, old, heap, event, loop, sent, armed, requests,
                   faults>>

\* A KeyError: another thread has dropped the cache since.
KeyMissing(t) ==
    /\ pc[t] \in {"age", "drop", "use"}
    /\ Cached(t) = None
    /\ EndEvent(t)
    /\ UNCHANGED <<db, repeating, caches, old, sent, armed, requests, faults>>

\* Mutant: a cache never gets too old.
CheckNoAge(t) ==
    /\ pc[t] = "age"
    /\ Cached(t) # None
    /\ Goto(t, "use")
    /\ UNCHANGED <<db, repeating, caches, old, heap, event, loop, sent, armed, requests,
                   faults>>

CheckAge(t) ==
    /\ pc[t] = "age"
    /\ Cached(t) # None
    /\ Goto(t, IF Place(t) \in old THEN "drop" ELSE "use")
    /\ UNCHANGED <<db, repeating, caches, old, heap, event, loop, sent, armed, requests,
                   faults>>

\* del self.caches[project], whichever dict is there by now.
Drop(t) ==
    /\ pc[t] = "drop"
    /\ Cached(t) # None
    /\ caches' = [caches EXCEPT ![Owner[t]][project[t]] = None]
    /\ heap' = Collected(caches', dict)
    /\ old' = old \ {Place(t)}
    /\ Goto(t, "load")
    /\ UNCHANGED <<db, repeating, event, loop, sent, armed, requests, faults>>

\* return self.caches[project]['alarms']
Use(t) ==
    /\ pc[t] = "use"
    /\ Cached(t) # None
    /\ dict' = [dict EXCEPT ![t] = Cached(t)]
    /\ todo' = [todo EXCEPT ![t] = {a \in Alarms : heap[Cached(t)][a] # None}]
    /\ Goto(t, "next")
    /\ UNCHANGED <<db, repeating, caches, old, heap, event, cur, sent, armed, requests,
                   faults>>

\* Mutant: disabled alarms are loaded, too.
LoadedDisabledToo(j) ==
    [a \in Alarms |-> IF Exists(a) /\ ProjectOf[a] = j THEN db[a] ELSE None]

\* The rows that get_alarms(enabled=True, type='event', project_id=j) returns.
Loaded(j) ==
    [a \in Alarms |->
        IF Exists(a) /\ db[a].enabled /\ ProjectOf[a] = j THEN db[a] ELSE None]

\* Does the wrapper Alarm take the rules of all of them?
AllConvertible(j) ==
    \A a \in Alarms : Loaded(j)[a] # None => Convertible(RuleOf[a])

\* The KeyError of a rule that it does not take leaves evaluate_events.
NotConverted(t) ==
    /\ pc[t] = "load"
    /\ ~AllConvertible(project[t])
    /\ EndEvent(t)
    /\ UNCHANGED <<db, repeating, caches, old, sent, armed, requests, faults>>

Load(t) ==
    /\ pc[t] = "load"
    /\ AllConvertible(project[t])
    /\ LET free == {e \in Dicts : ~Used(e, caches, dict)}
           d == CHOOSE e \in free : TRUE
       IN  /\ free # {}
           /\ heap' = [heap EXCEPT ![d] = Loaded(project[t])]
           /\ dict' = [dict EXCEPT ![t] = d]
           /\ todo' = [todo EXCEPT ![t] =
                           {a \in Alarms : Loaded(project[t])[a] # None}]
    /\ Goto(t, IF Caching THEN "fill" ELSE "next")
    /\ UNCHANGED <<db, repeating, caches, old, event, cur, sent, armed, requests, faults>>

\* self.caches[project] = {...}
Fill(t) ==
    /\ pc[t] = "fill"
    /\ caches' = [caches EXCEPT ![Owner[t]][project[t]] = dict[t]]
    /\ heap' = Collected(caches', dict)
    /\ old' = old \ {Place(t)}
    /\ Goto(t, "next")
    /\ UNCHANGED <<db, repeating, event, loop, sent, armed, requests, faults>>

--------------------------------------------------------------------------------
(* evaluate_events: the alarms one after the other. *)

\* fired_and_no_repeat()
FiredAndNoRepeat(t, a) == a \notin repeating /\ heap[dict[t]][a].state = "alarm"

\* _evaluate_alarm; the event fires the alarm, or does not concern it.
EvaluateAlarm(t, a) ==
    /\ pc[t] = "next"
    /\ a \in todo[t]
    /\ todo' = [todo EXCEPT ![t] = @ \ {a}]
    /\ IF a \in matches[t] /\ ~FiredAndNoRepeat(t, a)
         THEN cur' = [cur EXCEPT ![t] = a] /\ Goto(t, "refresh")
         ELSE UNCHANGED <<cur, pc>>
    /\ UNCHANGED <<db, repeating, caches, old, heap, event, dict, sent, armed, requests,
                   faults>>

LastAlarm(t) ==
    /\ pc[t] = "next"
    /\ todo[t] = {}
    /\ EndEvent(t)
    /\ UNCHANGED <<db, repeating, caches, old, sent, armed, requests, faults>>

\* The beginning of _refresh.  It sets the state of the copy, before the write;
\* nothing lets another thread run between that and the reading of `previous'.
Refresh(t) ==
    /\ pc[t] = "refresh"
    /\ heap' = [heap EXCEPT ![dict[t]][cur[t]].state = "alarm"]
    /\ Goto(t, IF Copy(t).state # "alarm" \/ cur[t] \in repeating
                 THEN "store" ELSE "mark")
    /\ UNCHANGED <<db, repeating, caches, old, event, loop, sent, armed, requests, faults>>

\* Mutant: the state column is left out of the UPDATE.
StoreWithoutState(t) ==
    /\ pc[t] = "store"
    /\ Exists(cur[t])
    /\ db' = [db EXCEPT ![cur[t]].enabled = Copy(t).enabled]
    /\ Goto(t, "record")
    /\ UNCHANGED <<repeating, caches, old, heap, event, loop, sent, armed, requests, faults>>

\* update_alarm writes the whole copy.
Store(t) ==
    /\ pc[t] = "store"
    /\ Exists(cur[t])
    /\ db' = [db EXCEPT ![cur[t]] = Copy(t)]
    /\ Goto(t, "record")
    /\ UNCHANGED <<repeating, caches, old, heap, event, loop, sent, armed, requests, faults>>

\* AlarmNotFound: no record, but a notification.
StoreNotFound(t) ==
    /\ pc[t] = "store"
    /\ ~Exists(cur[t])
    /\ Goto(t, "notify")
    /\ UNCHANGED <<db, repeating, caches, old, heap, event, loop, sent, armed, requests,
                   faults>>

\* _record_change; the insert fails when the alarm has been deleted since, and
\* _refresh gives up.
Record(t) ==
    /\ pc[t] = "record"
    /\ Goto(t, IF Exists(cur[t]) THEN "notify" ELSE "mark")
    /\ UNCHANGED <<db, repeating, caches, old, heap, event, loop, sent, armed, requests,
                   faults>>

Notify(t) ==
    /\ pc[t] = "notify"
    /\ sent' = IF cur[t] \in repeating THEN sent
               ELSE [sent EXCEPT ![Owner[t]][cur[t]] = @ + 1]
    /\ Goto(t, "mark")
    /\ UNCHANGED <<db, repeating, caches, old, heap, event, loop, armed, requests, faults>>

\* Mutant: the thread keeps the alarm.
MarkKeepsAlarm(t) ==
    /\ pc[t] = "mark"
    /\ Goto(t, "next")
    /\ UNCHANGED <<db, repeating, caches, old, heap, event, loop, sent, armed, requests,
                   faults>>

\* The end of EventAlarmEvaluator._refresh: the copy in the cache, which may be
\* another one by now, or no longer there (a KeyError that is caught).
Mark(t) ==
    /\ pc[t] = "mark"
    /\ heap' = IF Caching /\ Cached(t) # None /\ heap[Cached(t)][cur[t]] # None
                 THEN [heap EXCEPT ![Cached(t)][cur[t]].state = "alarm"]
                 ELSE heap
    /\ cur' = [cur EXCEPT ![t] = None]
    /\ Goto(t, "next")
    /\ UNCHANGED <<db, repeating, caches, old, event, dict, todo, sent, armed, requests,
                   faults>>

--------------------------------------------------------------------------------
(* Time, failures and users. *)

Age(p, j) ==
    /\ caches[p][j] # None
    /\ <<p, j>> \notin old
    /\ old' = old \cup {<<p, j>>}
    /\ UNCHANGED <<db, repeating, caches, heap, pc, event, loop, sent, armed, requests,
                   faults>>

Fault == faults < MaxFaults /\ faults' = faults + 1

\* An exception inside _refresh is swallowed; what was written stays.
RefreshFails(t) ==
    /\ pc[t] \in {"store", "record", "notify"}
    /\ Fault
    /\ Goto(t, "mark")
    /\ UNCHANGED <<db, repeating, caches, old, heap, event, loop, sent, armed, requests>>

\* get_alarms raises, and with it evaluate_events.
LoadFails(t) ==
    /\ pc[t] = "load"
    /\ Fault
    /\ EndEvent(t)
    /\ UNCHANGED <<db, repeating, caches, old, sent, armed, requests>>

\* The process is started again, with an empty cache.
Crash(p) ==
    LET In(t) == Owner[t] = p
    IN  /\ Fault
        /\ caches' = [caches EXCEPT ![p] = [j \in Projects |-> None]]
        /\ old' = old \ ({p} \X Projects)
        /\ pc' = [t \in Threads |-> IF In(t) THEN "idle" ELSE pc[t]]
        /\ project' = [t \in Threads |-> IF In(t) THEN None ELSE project[t]]
        /\ matches' = [t \in Threads |-> IF In(t) THEN {} ELSE matches[t]]
        /\ dict' = [t \in Threads |-> IF In(t) THEN None ELSE dict[t]]
        /\ todo' = [t \in Threads |-> IF In(t) THEN {} ELSE todo[t]]
        /\ cur' = [t \in Threads |-> IF In(t) THEN None ELSE cur[t]]
        /\ heap' = Collected(caches', dict')
        /\ UNCHANGED <<db, repeating, sent, armed, requests>>

\* post, put or put_state.
Write(a, row) ==
    /\ requests < MaxRequests
    /\ requests' = requests + 1
    /\ db' = [db EXCEPT ![a] = row]
    /\ armed' = IF row.state # "alarm" THEN [armed EXCEPT ![a] = @ + 1] ELSE armed
    /\ UNCHANGED <<repeating, caches, old, heap, pc, event, loop, sent, faults>>

Delete(a) ==
    /\ requests < MaxRequests
    /\ requests' = requests + 1
    /\ Exists(a)
    /\ db' = [db EXCEPT ![a] = Absent]
    /\ UNCHANGED <<repeating, caches, old, heap, pc, event, loop, sent, armed, faults>>

--------------------------------------------------------------------------------
GetProjectAlarms(t) ==
    \/ LookUp(t) \/ KeyMissing(t) \/ CheckAge(t) \/ Drop(t) \/ Use(t)
    \/ NotConverted(t) \/ Load(t) \/ Fill(t)

\* What a thread does with an event once it has it.
Work(t) ==
    \/ GetProjectAlarms(t)
    \/ \E a \in Alarms : EvaluateAlarm(t, a)
    \/ LastAlarm(t)
    \/ Refresh(t) \/ Store(t) \/ StoreNotFound(t) \/ Record(t) \/ Notify(t) \/ Mark(t)

Next ==
    \/ \E t \in Threads :
           \/ \E e \in Events : Receive(t, e)
           \/ Work(t) \/ RefreshFails(t) \/ LoadFails(t)
    \/ \E p \in Processes : Crash(p) \/ \E j \in Projects : Age(p, j)
    \/ \E a \in Alarms : Delete(a) \/ \E row \in Row : Write(a, row)

Spec == Init /\ [][Next]_vars

\* Threads run and time passes; that events arrive is not assumed.
Fairness ==
    /\ \A t \in Threads : WF_vars(Work(t))
    /\ \A p \in Processes, j \in Projects : WF_vars(Age(p, j))

LiveSpec == Spec /\ Fairness

--------------------------------------------------------------------------------
(* Properties. *)

Firing == {"refresh", "store", "record", "notify", "mark"}
Places == {"idle", "look", "age", "drop", "use", "load", "fill", "next"} \cup Firing

Shapes ==
    /\ db \in [Alarms -> Row \cup {Absent}]
    /\ repeating \subseteq Alarms
    /\ caches \in [Processes -> [Projects -> Dicts \cup {None}]]
    /\ old \subseteq Processes \X Projects
    /\ heap \in [Dicts -> [Alarms -> Row \cup {None}]]
    /\ pc \in [Threads -> Places]
    /\ project \in [Threads -> Projects \cup {None}]
    /\ matches \in [Threads -> SUBSET Alarms]
    /\ dict \in [Threads -> Dicts \cup {None}]
    /\ todo \in [Threads -> SUBSET Alarms]
    /\ cur \in [Threads -> Alarms \cup {None}]
    /\ sent \in [Processes -> [Alarms -> Nat]]
    /\ armed \in [Alarms -> Nat]
    /\ requests \in Nat
    /\ faults \in Nat

\* What a thread holds where it is: its dict has a copy of every alarm that it
\* evaluates or is still to evaluate.
Locals ==
    \A t \in Threads :
        /\ project[t] = None <=> pc[t] = "idle"
        /\ dict[t] # None <=> pc[t] \in {"fill", "next"} \cup Firing
        /\ cur[t] # None <=> pc[t] \in Firing
        /\ pc[t] \in Firing => heap[dict[t]][cur[t]] # None
        /\ \A a \in todo[t] : dict[t] # None /\ heap[dict[t]][a] # None

\* A dict has alarms of one project only: that of the event, that of the cache.
OneProjectPerDict ==
    /\ \A t \in Threads, a \in Alarms :
           dict[t] # None /\ heap[dict[t]][a] # None => ProjectOf[a] = project[t]
    /\ \A p \in Processes, j \in Projects, a \in Alarms :
           caches[p][j] # None /\ heap[caches[p][j]][a] # None => ProjectOf[a] = j

\* Every variable keeps its type; no thread looks for an alarm that its dict has
\* not, whatever other threads do to the cache; no event meets an alarm of a
\* project that is not its own.
TypeOK == Shapes /\ Locals /\ OneProjectPerDict

Executor(p) == {t \in Threads : Owner[t] = p}

\* An alarm without repeat_actions is notified by a process at most as often as
\* the process has threads for each time it was put into a state other than
\* "alarm", however its threads replace the cache under each other, caches
\* expire, writes fail, users reset it and other processes fire it.  (Once and
\* not more it is with one thread; several may each find it not yet fired.)
FiresOncePerReset ==
    \A p \in Processes, a \in Alarms :
        sent[p][a] <= Cardinality(Executor(p)) * armed[a]

Fires(t, a) == pc[t] = "notify" /\ cur[t] = a

\* A disabled or deleted alarm may fire from a cache, but not for ever.
DisabledFallsSilent ==
    \A a \in Alarms :
        <>[](~Exists(a) \/ ~db[a].enabled) => <>[](\A t \in Threads : ~Fires(t, a))

\* Events of its project keep coming, and from some moment on meet its rule.
Hit(a) ==
    /\ []<>(\E t \in Threads : project[t] = ProjectOf[a])
    /\ <>[](\A t \in Threads : project[t] = ProjectOf[a] => a \in matches[t])

\* A rule of its project that the evaluator cannot convert blinds it.
Blinded(a) == ~AllConvertible(ProjectOf[a])

\* Again and again, what a process has cached expires while it fires nothing.  A
\* process with one thread cannot avoid this.
ExpiresAtRest(a) ==
    \A p \in Processes :
        []<>(/\ caches[p][ProjectOf[a]] = None \/ <<p, ProjectOf[a]>> \in old
             /\ \A t \in Executor(p) : pc[t] \notin Firing)

\* Such an alarm, once it stays enabled, is in state "alarm" again and again: no
\* stale copy, swallowed exception or race of the threads of a process for its
\* cache keeps it from firing for good, and a rule that blinds its project does
\* so only while it is enabled.  (Two threads that fire at every expiry can mark
\* the copy that the other has just loaded as fired, for ever.)
EventsReachAlarm ==
    \A a \in Alarms :
        /\ Hit(a) /\ <>[](Exists(a) /\ db[a].enabled /\ ~Blinded(a))
        /\ ExpiresAtRest(a)
        => []<>(Exists(a) /\ db[a].state = "alarm")
================================================================================
