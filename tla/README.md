# A verification project for aodh

Aodh is the alarming service of OpenStack. Users create alarms through a REST
API; evaluator processes look at each alarm again and again (or at each event),
move it between the states `ok`, `alarm` and `insufficient data`, and hand every
transition to a notifier, which calls the actions of the alarm. All processes
share one SQL database, and otherwise only the message queue and, if one is
configured, a coordination backend (tooz).

This directory holds TLA+ modules translated from the code under `src/`, the TLC
configurations that check them on small instances, and TLAPS proofs.
`PROJECT.json` lists runs, mutants, theorems, hazards, and for every definition
the source lines it stands for.

- [Inventory](#inventory): the components, their state, what can go wrong
- [Modules](#modules): how state and actions correspond to the code
- [Runs](#runs): what each shows, bounds, fairness
- [Disagreements found](#disagreements-found)
- [Proofs](#proofs)
- [Not modelled](#not-modelled), [Plan](#plan)

## Inventory

| Component | State | Operations | Talks to | Module |
|---|---|---|---|---|
| **Alarm evaluation service** `evaluator/__init__.py` | the rows selected for the cycle, the row object being evaluated, the coordinator | cycle timer, selection, claim, `_refresh` (store, record, notify), `terminate` | storage, partition coordinator, rule evaluators, queue | `AlarmEvaluation` |
| **Threshold rules** `evaluator/{threshold,gnocchi,prometheus,loadbalancer}.py` | none kept | query of a service, comparison, transition | metric services, `_refresh` | `ThresholdRule`, `RuleEvaluation` |
| **Composite rules** `evaluator/composite.py` | verdicts of the sub-rules during one evaluation | parsing, lazy and full evaluation | threshold rules | `CompositeRule`, `RuleEvaluation` |
| **Event alarm evaluation** `evaluator/event.py`, `event.py` | a cache of event alarms per project, with the time it was filled | listener threads, match, fire once | storage, queue, `_refresh` | `EventRule`, `EventAlarms` |
| **Partition coordinator** `coordination.py` | driver, groups joined | start, stop, heartbeat, join, leave, get members, subset | tooz; evaluation thread, heartbeat thread and `terminate` call it | `PartitionCoordinator` |
| **Hash ring** `coordination.py` | sorted positions | construction, look-up | partition coordinator | `HashRing` |
| **Alarm storage** `storage/impl_sqlalchemy.py` | tables alarm, alarm_history, quota, alarm_counter | create, update, delete (cascades), conditional update, record, queries, quotas, counters, clearing of history | every process | in the modules of its callers |
| **Alarm API** `api/controllers/v2/alarms.py` | none between requests; a row copy inside one | post, put, put state, delete, list, history | storage, keystone, quotas | `AlarmEvaluation`, `AlarmAdmission`, `ApiQueries` |
| **Quotas** `api/controllers/v2/quotas.py` | rows of quota | get, set, delete, `is_over_quota` | storage | `AlarmAdmission` |
| **Trusts** `keystone_client.py` | trusts in keystone | create, delete | API, notifier | `AlarmAdmission` |
| **Queries of the API** `api/controllers/v2/{query,utils}.py`, `storage/sqlalchemy/utils.py` | none | validation, rewriting, translation to SQL, paging | storage, access policy | `ComplexQuery`, `ApiQueries` |
| **Access policy** `api/policies.py`, `api/rbac.py` | none | who may call what, and sees which project | API | `AccessPolicy` |
| **Evaluation counters** `api/controllers/v2/metrics.py` | rows of alarm_counter | increment by an evaluator, read by the API | storage | `RuleEvaluation` |
| **Notification queue** `queue.py`, `messaging.py` | messages in flight | notify, batch delivery | evaluators, notifier | `AlarmNotifier` |
| **Notifier service** `notifier/` | the batch it dispatches | one call or several per action, with a plugin per URL scheme | queue, remote services | `AlarmNotifier` |
| **History expirer** `cmd/storage.py` | table alarm_history | deletion in batches | storage | none |
| Rule schemas, service shell, schema migrations | none of their own | | | none |

Where it is hard, and what correctness means there:

- *Evaluation, storage and API share a row without a lock.* Each holds a copy
  across several transactions, and `update_alarm` writes all columns of the copy.
  Correct: one evaluation of an alarm per timestamp although several evaluators
  run; an alarm stays due until it has been evaluated; a deleted alarm stays
  deleted; history, table and notifications tell the same story; the state
  follows the rule in the end.
- *State is stored, recorded and notified in three steps* that may fail one by
  one, while others write the same row. Correct: history and notifications stay
  behind the state only where two writers met or something failed. (A comment
  promises more, a retry; see [Disagreements found](#disagreements-found).)
- *Coordination has no lock either.* Each agent computes its part from the
  members it happens to read. Correct: agents that know of each other share no
  alarm; when nothing changes any more the parts are disjoint; each alarm is
  served while some agent runs, in spite of outages, lost answers, expired
  sessions, crashes.
- *The event cache* is up to `event_alarm_cache_ttl` old, and a rule the
  evaluator cannot convert spoils it for the whole project. Correct: a disabled
  or deleted alarm stops firing; an alarm without `repeat_actions` fires at most
  once per reset, process and thread; events reach an alarm in the end, although
  the threads of a listener race for its cache.
- *Admission* checks a quota and creates trusts in other transactions than the
  insert. Correct: the limit is exceeded by no more than what is in progress; no
  trust outlives its alarm, and no alarm its trust.
- *Rule evaluation* meets late measures, services that fail, windows that are
  mixed. Correct: alarms do not flap on measures that do not change; notify when
  due; are evaluated throughout their windows; a composite rule decides what its
  formula decides.
- *Queries* are rewritten and wrapped in a restriction before the database sees
  them. Correct: the answer is what was asked for, of the caller's project;
  paging misses and repeats nothing.
- *The notifier* takes batches and may die with one. Correct: what is
  acknowledged was carried out, action by action; nothing is repeated unless a
  process died; nothing stays in the queue.

The full list of hazards, each at its line and with the properties that cover
it, is under `hazards` in `PROJECT.json`; one without a property has a note that
says why.

## Modules

| Module | What |
|---|---|
| `AlarmEvaluation` | evaluation cycle, `_refresh`, alarm and history tables, API requests that write |
| `AlarmLifecycle` | the abstract specification that `AlarmEvaluation` implements |
| `ThresholdRule`, `CompositeRule` | what a rule says of measures: pure operators |
| `RuleEvaluation` | an alarm and its rule over time, with the counters |
| `EventRule` | events, rules of event alarms, when one meets the other: pure operators |
| `EventAlarms` | listener threads, the caches of event alarms, firing |
| `HashRing` | the consistent hash ring |
| `PartitionCoordinator` | group membership and work division; uses `HashRing` |
| `AlarmAdmission` | ownership, quotas and trusts around the rows |
| `AlarmNotifier` | from the queue to the calls of the plugins |
| `AccessPolicy`, `ComplexQuery` | who may call what; complex queries: pure operators |
| `ApiQueries` | the requests that read, with paging |
| `MC...` | sets and functions for TLC, one per module that has a run |
| `AlarmEvaluationProofs`, `PartitionCoordinatorProofs`, `EventAlarmsProofs`, `RuleEvaluationProofs`, `ApiQueriesProofs`, `AlarmAdmissionProofs`, `AlarmNotifierProofs` | theorems about the module they are named after and those it uses |
| `RecursionTheorems` | recursive functions over a well-founded order, for the two modules above that prove something about data of any depth |

How they compose: `EventAlarms` EXTENDS `EventRule`; `RuleEvaluation` EXTENDS
`CompositeRule`, which EXTENDS `ThresholdRule`; `ApiQueries` EXTENDS
`ComplexQuery`, which EXTENDS `AccessPolicy`; `PartitionCoordinator` EXTENDS
`HashRing`; `AlarmEvaluation` contains `INSTANCE AlarmLifecycle WITH` its
refinement mapping. Where two modules touch the same code, one takes the other's
part as an input: the verdict of a rule is an input of `AlarmEvaluation`, the
subset of a coordinator too, and the interleaving of writes to the row is left
out of `RuleEvaluation` and `AlarmAdmission`.

### AlarmEvaluation

One step is one database transaction (or a step that touches no shared state);
everything between two transactions is local.

| Variable | Code |
|---|---|
| `db` | table alarm: identifier, state, `evaluate_timestamp`, and `enabled`, which stands for every column a user owns |
| `history` | table alarm_history, reduced to the state told by the last record |
| `aged` | which timestamps are before `now - evaluation_interval / 2` |
| `verdict` | what the rule evaluator would pass to `_refresh` now; `None` when it raises, is outside its time constraints or does not call it |
| `pc`, `todo`, `cur` | the evaluation thread: its place, the `alarms` list, the `alarm` object |
| `claim` | auxiliary: was `cur` taken by the conditional update, and has a whole-row write put the old stamp back since |
| `stopping` | the processes inside `terminate()` |
| `req` | an API request between two of its transactions, with its copy of the row |
| `notified` | the state in the last message on the queue |
| `adrift`, `unheard` | auxiliary: the alarms whose history, or whose last notification, need not tell of their state (see below) |
| `requests`, `faults` | counters for the bounds |

`Select` is `_assigned_alarms`; with a coordinator it returns *any* part of the
due alarms, so that nothing depends on the partition being right.
`TakeAssigned`, `Claim` and `SkipHandled` are the three ways through the
beginning of `_evaluate_alarm`. `Refresh`, `Store`, `StoreNotFound`, `Record`,
`RecordOrphan` and `Notify` are `_refresh`, which gives up on an exception
(`RefreshFails`). `AbortCycle`, `Crash`, `Terminate` and `Restart` are
what else happens to a process. `Post`, `ReadAlarm`, `Put`, `PutState`,
`DeleteAlarm`, `RecordRequest`, `RequestNotFound` and `RequestFails` are the
API, one action per transaction.

State, history and notifications are written by different steps, so that the code
cannot keep them equal always. `adrift` and `unheard` say when it does not, each
since the last change that was made alone ("What may be lost" in the module). An
alarm is `adrift` when a row is written while a record of another write is still
owed, when a request puts back a state it had read and does not record it because
*it* changed nothing, or when a failure loses a record. It is `unheard` when a
request changes the state (only evaluators notify), when an evaluator stores or
repeats a state while the row has another or another evaluator is about to notify,
or when a failure hits it between the write and the notification. Each is set by
the step that does the damage and cleared by the next change that nothing
disturbs, so `AuditComplete` and `NotificationsFollowState` are claims about every
other schedule: in particular none of the evaluator's or the request's own steps
loses a record or a notification by itself.

Timestamps have no order here: the code compares them for equality, and with the
edge of the selection. Hence a finite set `Stamps`, the set `aged`, and
`UtcNow`, which picks a stamp that no row and no copy holds. `Age` is the passing
of time.

Abstractions: every alarm has actions for every state, so that each `_notify`
sends; each alarm is of a periodic type; alarms of the initial state are enabled;
a commit whose answer is lost is modelled for the record (`RefreshFails`) but not
for `update_alarm`; identity of the row's other columns is carried by `enabled`.

### AlarmLifecycle

What somebody can rely on who reads alarms and their history: an alarm is created
once, has a state while it lives, is deleted for good; a record tells of a state
that was written to a living row; a record is owed from the write on and may be
lost. The mapping in `AlarmEvaluation`: `alarm` is `Seen` (the state of the row,
or that it is unborn or deleted), `history` is `history`, `owed` is `Pending`, the
states in the hands of workers and requests that are about to record. One
action of `AlarmEvaluation` is one step of `AlarmLifecycle` or a stutter:
`Store`, `Put` and `PutState` are `SetState`, `Post` is `Create`, `Record` and
`RecordRequest` are `Tell`, a crash is `Lose`.

### ThresholdRule, CompositeRule, RuleEvaluation

`ThresholdRule` holds `BoundDuration`, `GnocchiStatistics`, `PrometheusRule`,
`LoadBalancerRule`, `ProcessStatistics` (the verdict over a window, or the state
that a mixed window tends to), `TransitionAlarm` (what `_refresh` is called
with) and `WithinTimeConstraint`. `CompositeRule` holds `Ask`, the lazy `all()`
and `any()` of `AndOp` and `OrOp`, which evaluate a sub-rule when the first
expression asks for it, `Settle`, which resolves a mixed sub-rule against the
state of the alarm, and `CompositeVerdict`, first over what was needed and then
over everything. Its reference is `Decided`: a state holds if it does however the
unknown sub-rules turn out. A rule is a record within records; `Rules` is the set
of those there are, with all they contain, and `RulesAssumption` says that they
are trees, as JSON is. What is defined by recursion over a rule (`Ask`,
`RuleTargets`, `Parses`, `Meets`) is a function on `Rules`.

`RuleEvaluation` runs an alarm: `Tick`, `Ingest` (a period of Gnocchi is
aggregated), `Replace` (other answers of Prometheus or Octavia), `FailOrRecover`
(a service), and `Evaluate`, then `ReadCounter` and `WriteCounter`, the halves of
`increment_alarm_counter`. Both are in one write session, but the read takes no
lock, so that another transaction may write in between. `results` and `overlap`
are auxiliary.

Abstractions: the start times that a cron expression names are a set of
instants; the aggregation inside Gnocchi is external; the three Gnocchi
evaluators are one, since they differ in the request only.

### EventRule, EventAlarms

`EventRule` holds the wrappers `Event` and `Alarm`: which events are valid, which
of several traits of a name counts, what a text converts to, which project an
event belongs to, which rules the API accepts (`AcceptedRule`), which of those the
evaluator converts (`Convertible`), and when an event meets a rule (`Meets`).
Values are texts, with their places among numbers, instants and texts.

In `EventAlarms`, one step is one access of the cache (`self.caches`), one
statement that changes an alarm object, or one database transaction.

| Variable | Code |
|---|---|
| `db` | table alarm: the state, and `enabled` for every column a user owns |
| `repeating` | the alarms with `repeat_actions`; chosen at the beginning, by no request |
| `caches`, `old` | `self.caches` of a process; the projects whose `updated` is older than `event_alarm_cache_ttl` |
| `heap` | the `alarms` dicts as objects: threads go on with a dict that is no longer in the cache, and share the alarm objects in it |
| `pc`, `project`, `matches` | where a thread is with its event, the event's project, the alarms whose `event_type` and `query` it meets |
| `dict`, `todo`, `cur` | the dict a thread iterates over, what is left of it, the alarm it evaluates |
| `sent`, `armed` | auxiliary: notifications of an alarm by a process (of those without `repeat_actions`), and how often a request put it into a state other than `alarm` |
| `requests`, `faults` | counters for the bounds |

`Receive` takes an event; `LookUp`, `CheckAge`, `Drop`, `Use`, `Load` and `Fill`
are `_get_project_alarms`, where another thread can come between any two;
`KeyMissing` is the `KeyError` when it does, and `NotConverted` the one of a rule
that `TRAIT_TYPES` does not know. `EvaluateAlarm` is `_evaluate_alarm`;
`Refresh`, `Store`, `StoreNotFound`, `Record` and `Notify` the `_refresh` of the
base class, and `Mark` what the event evaluator adds to it. `EndEvent` is the end
of `sample()`, by return or by exception: the listener does not requeue, so the
event is gone either way. `RefreshFails`, `LoadFails` and `Crash` are failures.
`Load` takes a dict that nothing refers to, as the allocator does, and
`Collected` forgets the contents of such dicts.

Abstractions: oslo.messaging's listener, which hands batches to the threads of
its executor (several, by default), is external; a batch is one event, the default of
`listener.batch_size`; which alarms an event meets is computed when it arrives,
since no request changes a rule here; the requests of the API change a row in
one step (their two transactions are in `AlarmEvaluation`); history is left out;
every alarm has actions for `alarm`; a project that a trait gives is its text; a
process that terminates is one that receives nothing more.

### HashRing

`Ring(nodes)` is `HashRing.__init__`, a function from positions to nodes whose
domain is the sorted key list; `GetPositionOnRing` is `bisect` with the wrap to
the first; `GetNode` is `get_node`. `Hash` is a constant. Its assumption is that
no two nodes hash to one position. (With a collision of md5's first 32 bits the
ring depends on the order of `nodes`; the code does not treat this case.)

### PartitionCoordinator

| Variable | Code |
|---|---|
| `reachable`, `group`, `members` | the backend: does it answer, does the group exist, who is in it (external) |
| `phase` | the life of a process: constructor, running, `terminate()`, gone |
| `coord` | `_coordinator` with its `is_started` |
| `joined` | `group_id in self._groups` |
| `pc`, `back`, `attempt` | the evaluation thread (the constructor before): its place, where `join_group` returns to, the tenacity attempt |
| `view`, `mine` | `members` as read, `my_subset` as returned, until the cycle ends |
| `faults` | counter for the bound |

Calls of tooz are one step each. `Join*`, `CreateGroup` and `CreateFails` are
`join_group` with each of its exceptions and its unbounded retry; `Extract`,
`MembersFail`, `MembersNoGroup`, `GetMembers`, `Rejoin`, `NotInGroup` and
`ExtractWithoutDriver` are `extract_my_subset` and `_get_members`; `Start`,
`Reconnect`, `Leave`, `StopDriver`, `Exit` the constructor, the heartbeat thread
and `terminate()`, which runs next to an evaluation thread and may take the
driver away at any moment. `Crash`, `Expire`, `Outage`, `Recover` and the lost
answer in `JoinAccepted` are the environment. A process has a fresh identifier
(the constructor's uuid), so `Agents` never come back.

Abstractions: one group, as the service uses; `get_coordinator` itself does not
raise (a bad URL); back-off times; the two agents' alarm lists are the same set
`Keys`.

### AlarmAdmission

| Variable | Code |
|---|---|
| `rows` | table alarm: user, project, and the trust its actions refer to |
| `quotas` | table quota: the limit of a project |
| `trusts`, `issued` | the trusts keystone has, and ever had (external) |
| `pc`, `body`, `target`, `copy`, `limit`, `counted` | a request in progress: its place, the data with the owner decided on, the alarm it changes, the row it has read, the quota and the number of alarms it has read |
| `moved`, `disturbed` | auxiliary: how many alarms PUT has handed to a user; has a request ended halfway, or met another on the same alarm |
| `requests`, `faults` | counters for the bounds |

One step is one transaction or one call of keystone. `Post`, `ReadQuotas`,
`CountProject`, `CountUser`, `Refuse`, `PostActions` and `Insert` are the POST
with its `is_over_quota`; `Put`, `PutActions`, `BadUrl` and `Update` the PUT;
`PutState`, `Delete`, `DeleteRow` and `DeleteActions` the others; `SetQuotas`,
`GetQuotas` and `StoreDefault` the quota requests. `ChangedOwner` is the owner
that a PUT ends up with, `TrustWanted` and `NoLongerUsed` decide what happens
in keystone. `Fail` is a keystone that does not answer, or a process that ends.

Abstractions: one resource, the alarms; a trust URL carries its trust or none; an
identifier is never used again.

### AlarmNotifier

| Variable | Code |
|---|---|
| `published`, `queue` | what the evaluators are done with, the messages nobody holds |
| `batch`, `at`, `pc` | a notifier: the messages it has not acknowledged, the message, action and call it has come to, its phase |
| `calls`, `failed`, `acked`, `lost` | auxiliary: how often each call was made, the actions that failed, the notifications acknowledged, how often a crash gave one back |
| `crashes`, `failures` | counters for the bounds |

`Notify` is `AlarmNotifier.notify` of `queue.py`; `Receive` the batch listener,
with its timeout; `Call`, `CallFails`, `EndAction` and `EndMessage` the loops of
`AlarmEndpoint.sample`, `_process_alarm` and `_handle_action`; `CallsOf` the
calls that the plugin of a scheme makes, in order (`RestCalls`, `ZaqarCalls`,
`HeatCalls`, and `Trusted` for the token that `TrustAlarmNotifierMixin` puts before
them); `Acknowledge` the end of a batch,
`Terminate`, `Crash` and `Respawn` the process. Contents of the calls are left
out. That the broker delivers again what was not acknowledged is external.

### AccessPolicy, ComplexQuery, ApiQueries

`AccessPolicy` holds `Enforce`, the default rule of every operation with its
deprecated counterpart, and `LimitedToProject`. `ComplexQuery` holds
`ValidFilter` (the schema), `Rewrite` and `RestrictToProject` (what
`ValidatedComplexQuery` makes of it), `Transformable` and `Orderable` (can the
clauses of `QueryTransformer` be built), `Holds` (the WHERE clause, in SQL's three
values), and the reference `Meant`.
An expression is written as the list of its dicts in the order in which
`_traverse_postorder` meets them: each comes after its parts and names them by
their places (`WellFormed`). The rewriting goes dict by dict; `Holds` and `Meant`
are functions on the places.
`ApiQueries` has three kinds of requests: `AskComplex`; `AskHistory`, with the
conditions of `q` (`ValidItems`, `InRange`, `EqualsLast`); and `StartWalk` with
`NextPage`, a client that follows markers while `Insert`, `Delete` and `Update`
change the table. A request that is answered at once is one step of a behaviour
of its own, since it changes nothing. Rows are compared by `Place`, where
the collation of the database puts a value; `After` is the criterion that
`paginate_query` builds from a marker, and the order of the answer. A sort by
severity is put first in the order (`OrderKeys`), by its meaning and not its text
(`SeverityPlace`), and left out of the criterion (`MarkerKeys`), on MySQL; on
another database it is an error. `dialect` is the database. `Versions` of a row
are those that updates can leave: `state` is the column they change.

Abstractions: `=~` is modelled for a word that is its own pattern; a value is of
the type of its column, except for the boolean after an order operator, which
SQLAlchemy refuses whatever the column (what a database makes of a text where it
expects a number differs between databases); rows have the columns that the queries name; the answers that the database may give
to rows that tie are all allowed.

## Runs

All runs finish. No definition tells two elements of a symmetric set apart;
symmetry is used where no liveness is checked (`requests`, `admission`,
`claim_undone`).

| Run | Instance | Shows |
|---|---|---|
| `requests` | 1 alarm that repeats its actions, 1 worker with a coordinator, 2 concurrent requests, 1 exception or shutdown, 3 stamps | types, `HistoryGoneWithAlarm`, `AuditComplete`, `NotificationsFollowState`, `DeletionIsFinal`, `ImplementsLifecycle` |
| `progress` | 1 alarm, 2 workers without coordinator, an exception or a crash, fairness | `OneClaimPerStamp`, `AuditComplete`, `NotificationsFollowState`, `EvaluatedForEver`, `StateFollowsVerdict` |
| `events` | 1 process with 2 threads; 2 alarms, of which one may repeat its actions and the other's rule cannot be converted; 7 events, 3 dicts, 1 request, 1 failure or crash, fairness | types, `FiresOncePerReset`, `DisabledFallsSilent`, `EventsReachAlarm` |
| `partition` | 3 agents, 2 replicas, 2 alarms, 2 attempts, 1 fault, fairness | types, `AcquaintedAgentsShareNothing`, `EventuallyPartitioned`, `EveryAlarmServed` |
| `rules` | 10 alarms, one per behaviour, of every type; 2 evaluators, 3 evaluations, a clock up to 6 | `CompositeDecidesRule`, `SettlesOnSameMeasures`, `NotifiesWhenDue`, `LagIsTolerated`, `OpenInsideWindows`, `CountersFollowResults` |
| `queries` | an administrator, a reader, a stranger; every short expression and list of conditions; booleans and severity among them; pages of 1 row, 2 writes; MySQL and PostgreSQL | `ComplexMeansFilter`, `AcceptedIsTranslated`, `HistoryMeetsItems`, `PagesMissNothing` |
| `admission` | 2 requests at a time, 4 in all, of 2 users and an administrator; 3 alarms, 3 trusts, quotas of 1 and 2, 1 failure | types, `QuotaOvershootBounded`, `TrustsMatchRows` |
| `notifier` | 2 notifiers, 3 notifications, batches of 2, 2 deaths, 1 failed call, fairness | `AcknowledgedMeansDone`, `RepeatedOnlyAfterCrash`, `EveryNotificationDispatched` |
| `claim_undone` | 2 workers, no fault | ends in a violation of `HandledByOne` |
| `retry` | 1 worker, 1 exception, fairness | ends in a violation of `TransitionNotified` |
| `window` | the alarms of `rules`, 1 evaluation | ends in a violation of `ClosedOutsideWindows` |
| `default_refuses` | 1 request at a time, the default configuration | ends in a violation of `UnlimitedByDefault` |

Why the bounds are enough. The races of `AlarmEvaluation` are between copies of
one row, so one alarm suffices. Two workers, or one worker and two requests, give as many holders of
stale copies as a race needs; a third would repeat what the second does, and the
safety proofs are for any number. A holder keeps one stamp, the row another; with
one to spare `UtcNow` always finds one (deadlock is checked, so a shortage would
be reported). In `PartitionCoordinator` two agents with different views need a
third whose arrival or death makes them differ. `Attempts = 2` reaches both the
retry and the failure of the last attempt; the code has 5. One fault of any kind
hits each of the steps; agents that start, join late or never start come on top
of it without counting. The hash gives each agent two positions, alternating,
with one key between them and one after the last, so that the wrap of the ring
is used. The backend may be out of reach from the beginning, which costs no
fault.

In `EventAlarms` the races are between two threads of a process for one cache, its
dicts and the row; another process would only be one more writer of the row, as
the request of the run is, and the theorem about firing is for any number. There
are as many dicts as the cache and the threads can refer to at a time, so that
`Load` always finds one. The events cover a trait given twice, one of the wrong
kind, one that is missing, values that do not convert, and events that are not
valid. In `rules`, the clock outlasts two periods, the lag and one more period;
an alarm of one behaviour has a window of two periods, another's archive has
another granularity; composite rules nest twice, have an empty list, one sub-rule
or three; the counter reaches its limit after two results. In `queries`,
expressions nest as deep as the schema and the rewriting tell apart; with a page
of one row every row is a marker. The run takes the new defaults of the policy
(`NewDefaults`) and limits the default order only; `OldRule` is in the theorems.
In `admission` three alarms are one more than the quota and a concurrent request
allow; four requests are enough to create, move, change and delete while another
is in progress. In `notifier` two messages fill a batch and a third has nothing
to do; two deaths hit the same message twice.

`CHECK_DEADLOCK FALSE` is set where a behaviour may really stop: all processes of
`PartitionCoordinator` may be gone; the notifications, requests, evaluations and
writes of `AlarmNotifier`, `AlarmAdmission`, `RuleEvaluation` and `ApiQueries` come
to an end. The cfgs of `AlarmEvaluation` and `EventAlarms` check deadlock.

Fairness. `AlarmEvaluation`: weak fairness of each worker's steps, since the
periodic timer fires for ever and an evaluation thread ends every step or fails
in it, and of the passing of time. Nothing is assumed of requests, faults or
measures. Races for a claim need no strong fairness: the loser starts a new
cycle. `PartitionCoordinator`: weak fairness of each process's threads
(`ProcessFairness`), of the heartbeat that reconnects, and of the backend's expiry
of a member without heartbeats; `LiveSpec` adds that an outage ends, without
which no alarm could be served.

`EventAlarms`: weak fairness of each thread's work on an event it has, and of the
passing of time. Of `EventsReachAlarm` three things are premises, never
assumptions: that events which meet the alarm keep arriving (`Hit`); that no
enabled alarm of the project blinds it (`Blinded`; a boolean trait, which the API
accepts, does so for as long as the alarm is enabled); and that what the process
has cached expires, again and again, while none of its threads is firing
(`ExpiresAtRest`). The last one holds by itself of a process with one thread. With
several it is about schedules: the default listener has several threads, and two
of them that are firing at every expiry can each mark the copy as fired that the
other has just loaded, for ever. Losing an event to a `KeyError`, which two threads
do inflict on each other, is no such excuse.

`AlarmNotifier`: weak fairness of the listener's threads, of the dispatch and of
cotyledon, which starts a process again. It includes that each call returns; the
code gives the POST of `notifier/rest.py` no timeout, so that this is an
assumption about the receivers.

Liveness with a bound on faults says: after the last fault the system recovers
by itself.

## Disagreements found

Four runs end in a counterexample, each of one property that a comment, a log
line or the documentation states and the code does not keep.

- **`claim_undone`** (`HandledByOne`). An evaluator claims an alarm by a
  compare-and-swap on `evaluate_timestamp`, then stores a transition by writing
  all columns of the object it had read, the *old* timestamp included. A second
  evaluator that selected the row earlier finds the stamp it expects and
  evaluates the alarm again. `OneClaimPerStamp` is what does hold: one claim per
  value *as long as no whole-row write has put the value back*.
- **`retry`** (`TransitionNotified`). `_refresh` stores the new state, then records
  and notifies. When one of these fails, the comment in its handler says that a
  "retry will occur naturally on the next evaluation cycle (unless alarm state
  reverts in the meantime)". The next cycle reads the stored state, sees no
  transition, and does nothing: the notification is never made. (An alarm with
  `repeat_actions` is notified all the same.)
- **`window`** (`ClosedOutsideWindows`). `_is_exact_match` is there for the instant
  of a start "to the minute", and accepts all of the last minute before it: an alarm
  that rests until 10:00 is evaluated at 9:59:30.
  `OpenInsideWindows` is the half that does hold.
- **`default_refuses`** (`UnlimitedByDefault`). The documentation says that the
  quotas are unlimited by default (`doc/source/admin/resource-quota.rst`). A GET
  of the quotas of a project that has none stores the default, -1, as its limit,
  and `is_over_quota` compares with limits from the table without a special case
  for -1: every POST to that project is refused from then on.

Four more were met that have no run of their own. The model has each of them, and
the properties name them as exceptions:

- *The counter is never reset.* At `COUNTER_RESET_AT_VALUE`
  `increment_alarm_counter` logs "Resetting counter" and computes 1 as the new
  value, but neither branch that writes is taken (`impl_sqlalchemy.py:344-347`):
  the counter stays where it is. `NewValue` does the same, and
  `CountersFollowResults` claims nothing of a counter at its limit.
- *Pages by severity miss alarms and repeat them*, untouched ones too
  (`impl_sqlalchemy.py:250-261`): the order knows the severity, the criterion for
  the marker does not. `KeysTellApart` excludes such a sort from
  `PagesMissNothing`.
- *A boolean after an order operator* passes the schema (`query.py:111`) and ends in
  a server error, because SQLAlchemy refuses it (`sqlalchemy/utils.py:69`); and
- *an order by severity* of a complex query calls a function that only MySQL has
  (`sqlalchemy/utils.py:93-96`). Both are exceptions of `AcceptedIsTranslated`, and
  the only ones.

## Proofs

Checked by TLAPS for every value of the constants that satisfies the named
assumptions, hence for any number of workers, alarms, requests, agents, replicas,
listeners, threads, notifiers, rows and faults, for rules and expressions of any
depth. TLC evaluates each assumption in the runs of its module.

| Module | Assumptions | What they say |
|---|---|---|
| `AlarmEvaluation`, `AlarmAdmission` | `ValuesAssumption`, `BoundsAssumption` | special values are no others; bounds are numbers; clients and alarms of `AlarmAdmission` are finitely many |
| `HashRing`, `PartitionCoordinator` | `HashAssumption`, `CoordinatorAssumption` | no collisions; at least one attempt |
| `EventAlarms` | `EventAssumption` | the special values are not among the others, every alarm has a rule the API accepts |
| `AlarmNotifier` | `NotificationsAssumption`, `BoundsAssumption` | a notification has a list of actions; batches are not empty |
| `CompositeRule`, `RuleEvaluation` | `RulesAssumption`, `ValuesAssumption`, `AlarmsAssumption`, `BoundsAssumption` | rules are trees; an alarm has a rule, periods and constraints of the kind the API accepts; evaluators are finitely many |
| `AccessPolicy`, `ApiQueries` | `PolicyAssumption`, `CallersAssumption`, `RequestsAssumption`, `TablesAssumption`, `CollationAssumption` | expressions are trees, limits are numbers; tables are finite, identifiers unique; the database can compare what it sorts by, and no two identifiers are equal to it |

`AlarmEvaluationProofs`
- `TypeCorrect`: `TypeOK`, inductive as it stands.
- `ClaimsExclusive`: `OneClaimPerStamp`. It is not inductive: that a second
  worker cannot claim the stamp that the first one claimed needs that the row has
  moved on. The strengthening `MovedOn` says that the row of a held claim, if it
  is there, has another stamp than the one claimed from. `Claim` establishes it
  because `utcnow` is a stamp nobody holds; a write of a whole row keeps it or
  marks the claim undone.
- `DeletedForEver`: `DeletionIsFinal`, an action property, by the cases of `Next`.
- `HistoryGone`: `HistoryGoneWithAlarm`, inductive with the type invariant.
- `EveryStepChanges` (lemma): each step is one of five changes of what a reader
  sees, of an alarm or of none: it rests, writes a row, tells a record, drops a
  record that was owed, or removes the alarm. The next two theorems are about these
  five and not about the twenty-odd actions.
- `AuditIsComplete`: `AuditComplete`, for any workers, requests, shutdowns and
  failures. It is not inductive: that the history will tell of the state depends
  on which record is still to come. `Current` says that of an alarm that is not
  adrift only records of the state its row has are owed, and that its history
  tells of that state if none is (`ChangeKeepsCurrent`).
- `NotificationsAreCurrent`: `NotificationsFollowState`, as general. `Heard` says of
  an alarm that is not unheard that whoever is about to notify of it has the state
  of the row in hand, and that the last notification is of that state when nobody
  is.
- `ServiceImplementsLifecycle`: `ImplementsLifecycle`, the refinement: each of the
  five changes is a step of `AlarmLifecycle` or a stutter (`ChangeIsAllowed`).
  Lemmas say how a worker or a request comes to owe a record and stops owing it
  (another holder may still owe the same state, for which `AlarmLifecycle` leaves
  the choice). A request that is under way could find its alarm unborn, and its
  delete would then not map to a `Delete`; the invariants `RequestsAboutBorn` and
  `WorkersAboutBorn` exclude it.

`PartitionCoordinatorProofs`, about the ring
- `NodeOfRing`: the ring gives a key to one of its nodes. That a least position
  exists comes from well-foundedness of `<` on the naturals, so that replica sets
  and node sets need not be finite.
- `SameChoice`: if two rings both hold two nodes and each ring gives the key to
  one of those two, then they give it to the same.
- `OnlyTheNewcomerTakes`: adding a node moves keys to that node only.

and about the agents
- `TypeCorrect`: `TypeOK`, which ties `mine` to the ring of `view`.
- `AcquaintedShareNothing`: from `TypeOK` and `SameChoice`, without any further
  induction: whatever the interleaving, what an agent evaluates is the share its
  view gives it, and two shares of views that hold both agents are disjoint.

`EventAlarmsProofs`
- `TypeCorrect`: `TypeOK`, for threads that share caches in any way. Its parts
  `Locals` (an alarm being evaluated is in the dict at hand, which is never
  collected) and `OneProjectPerDict` need each other and the types.
- `FiresOnce`: `FiresOncePerReset`, for processes with any number of threads. What
  is inductive is a budget (`Budget`): the notifications a process has sent and
  those it may still send without another reset are at most its threads times the
  resets. Each dict of the project that holds an unfired copy, or that a thread is
  firing from, may cost one notification (`Open`), and while the row itself is
  unfired each thread may read such a copy again. That the dicts are no more than
  the threads (`Few`) is where the proof needs `Fillers`: a dict in the cache
  was put there by a thread, which holds no other until it has gone. Two threads
  that share a dict do not fire the same alarm at once (`OneWriter`), since setting
  the state of the copy and reading the state before are one step; and `Store` pays
  for the row with a copy that is in state `alarm` (`CopyFired`).

`AlarmAdmissionProofs`
- `AdmissionTyped`: `TypeOK`, with `LocalsOK`: by the time a request writes a row,
  the data it has put together have an owner.
- `OvershootIsBounded`: `QuotaOvershootBounded`. A request that has passed its
  check is a row still to come, so the inductive form (`Overshoot`) bounds the
  rows of a user together with the requests that have passed (`Passed`). The last
  to pass has seen fewer rows than the quota, and there are at most as many
  others as clients; a PUT counts in `moved`.
- `NoTrustLeaks`: `TrustsMatchRows`. While nothing is `disturbed`, a request that
  has read a row has that alarm to itself and a copy as good as the row
  (`AllAlone`), and each trust has one holder, a row or a request, and is in
  keystone if and only if it has (`OneHolder`). Each step of a request hands a
  trust on or gives it up; a step that meets another request on its alarm sets
  `disturbed`.

`AlarmNotifierProofs`
- `AcknowledgedIsDone`: `AcknowledgedMeansDone`. The invariant `Behind` says that
  whatever lies behind the place a notifier has come to, in its batch, its message
  and its action, is done; a crash begins a place anew, and nothing undoes a call.
- `RepetitionNeedsCrash`: `RepeatedOnlyAfterCrash`. A message that is not
  acknowledged is in one place, once (`OnePlace`), so a call has one notifier at
  most that will make it. The inductive form (`Counted`) counts what is still to
  come: a call that some notifier or the queue will make again has been made at
  most as often as its message was given back, any other once more.

`RuleEvaluationProofs`
- `TypeCorrect`: an evaluation that does not raise gives a state.
- `CountersAreKept`: `CountersFollowResults`. A counter plus the evaluators that
  are about to write it is never ahead of the results (`NeverAhead`); without
  overlap a counter is behind by just those that have not written, as long as the
  results are no more than the limit (`InStep`).
- `WindowsAreOpen`: `OpenInsideWindows`, by arithmetic on the last start before
  an instant and the first from it on (`IsExactMatch` is the half-open edge that
  the other test leaves out).
- `LagNeverStarves`: `LagIsTolerated`. `EnoughPoints` counts the aggregated
  periods in a window by the number of multiples of the granularity it holds.
- `NotifiesAlways` and `SettlesAlways`: the two action properties, by the type of
  the rule and of the transition.
- `DecidesAlways`: `CompositeDecidesRule`, for rules nested to any depth.
  `AskIsFormula` says that lazy evaluation by `AndOp` and `OrOp`, when nothing
  raises, gives the value of the formula or of its dual; `MeetsMonotone` that more
  sub-rules in alarm never lower a rule, so that the two extreme completions
  of the unknown sub-rules decide for all of them.

`ApiQueriesProofs`
- `ComplexAlways`: `ComplexMeansFilter`. `HoldsUnfold` gives the recursive `Holds`
  its equation; `RewritingKeepsMeaning` goes up an expression place by place;
  `RestrictedHolds` says that the two dicts `RestrictToProject` appends leave
  the places before them as they are, and join them with the project;
  `FilterMeans` puts them together. `PageOfRows` is what sorting and a
  limit leave of the rows.
- `TranslatesAlways`: `AcceptedIsTranslated`. Every dict of a filter that passes
  the schema is rewritten to one that `QueryTransformer` knows, unless it orders a
  boolean, and neither the rewriting nor the restriction makes one that does
  (`FilterTransforms`, `OrdersNoBoolean`); the rewriting of an order neither adds
  nor removes a severity (`OrderStaysPossible`).
- `HistoryAlways`: `HistoryMeetsItems`. Without two items on a bound or column,
  the last item of each, which the code takes, is the only one (`ItemsApart`,
  `EqualsEach`), though `validate_query` looks only at the first of several.
- `PagesAlways`: `PagesMissNothing`. The invariant (`MarkerInv`, `PagesInv`) says
  that the marker is the last row the client got, and that an alarm nobody wrote is
  among the rows it got if and only if it does not come after that row. It needs
  what is known of the table: rows are versions of known ones, and an untouched
  alarm is as it was (`TableInv`, `WalkInv`). `MarkerStandsStill` is where the
  premise `MarkersStay` is used: the row the database finds for the marker
  sorts as the row of the page did, and `PlainKeys` where the sort by severity is
  excluded. `After` is a strict order in which only equal
  identifiers tie (`AfterTransitive`, `AfterTotal`, `SameBase`).

`RecursionTheorems`
- `RecursiveFunctionExists`: a definition `f[x] = Body[x][f]` whose body looks at
  `f` only below `x`, in a well-founded order, has a function that satisfies it.
  The body is itself a function, so that the theorem needs no operator as a
  parameter, which none of the provers could instantiate. `Holds`, `Meant`,
  `Ask` and the others get their equations from it, and what they compute for any
  input is proved from a least counterexample.

Every safety invariant and every action property of a passing run is the subject
of a theorem. Only model-checked: the liveness properties (`EvaluatedForEver`,
`StateFollowsVerdict`, `EventuallyPartitioned`,
`EveryAlarmServed`, `EventsReachAlarm`, `DisabledFallsSilent`,
`EveryNotificationDispatched`), since fairness and ENABLED are beyond the prover,
and the four violations.

## Not modelled

- *Rule schemas* other than the composite and the event rule, the *service shell*
  and the *schema migrations* keep no state and have no protocol.
- *History expirer*: one loop of one process. That it ends after its first batch
  is visible in the code (`cmd/storage.py:44`) and needs no model.
- *Metrics endpoint*: the layout of its answer. Its policy is in `AccessPolicy`,
  its counters are in `RuleEvaluation`.
- *Storage*: connection, upgrade and the mapping of rows to objects; isolation of
  transactions is that of a database that serialises them.
- *Policy files* of an operator; the defaults are modelled.
- In the modelled components: the cron arithmetic behind `starts`, the text of
  reasons, time stamps of states in `AlarmEvaluation`.

Of what is modelled, some things are known and carried by no property: a PUT
without `evaluate_timestamp` takes an alarm out of the selection for ever (a
premise of the liveness of `AlarmEvaluation`); the limit of a project that is
stored in the table is compared with the alarms of the user (`IsOverQuota`); of
several conditions of a history query on one field only the last one filters
(a premise of `HistoryMeetsItems`); and the four disagreements above that have no
run. A listener whose connection to the broker is lost before it has acknowledged
is outside `AlarmNotifier`, in which only a death of the process gives messages
back.

## Plan

Done: everything above. What could follow:

1. A composition of `PartitionCoordinator` and `AlarmEvaluation`, in which the
   subset of `Select` is the coordinator's: which evaluations happen twice.
2. Proofs of what the liveness rests on: that an agent in `joined` has a started
   driver or is leaving, that a batch that is dispatched comes closer to its end
   with every step.
3. The expirer next to the requests that delete.
