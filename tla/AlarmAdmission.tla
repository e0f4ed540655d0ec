----------------------------- MODULE AlarmAdmission -----------------------------
(***************************************************************************)
(* What a request to create, change or delete an alarm does beyond its     *)
(* row: the ownership and the quota checks of POST, the quota API          *)
(* (api/controllers/v2/alarms.py, quotas.py), and the trusts that alarm    *)
(* actions make the API create and delete in keystone.                     *)
(*                                                                         *)
(* A transaction and a call of keystone are one step each.  The rows here  *)
(* hold the columns that the checks look at; the other columns, and the    *)
(* evaluators that write the same rows, are in module AlarmEvaluation.     *)
(***************************************************************************)
EXTENDS Integers, FiniteSets, Sequences

CONSTANTS
    Clients,        \* API requests in progress at the same time
    Users, Projects,
    Callers,        \* [user, project, admin] records
    Bodies,         \* [user, project, actions]: what a request asks for
    Alarms,         \* alarm identifiers
    Trusts,         \* trust identifiers of keystone
    UserQuota,      \* conf.api.user_alarm_quota, -1 for none
    ProjectQuota,   \* conf.api.project_alarm_quota, -1 for none
    MaxActions,     \* conf.api.alarm_max_actions, none if it is not positive
    AdminLimits,    \* the limits an administrator sets
    MaxRequests,    \* bound on the requests of a behaviour
    MaxFaults,      \* bound on the failures of keystone and the crashes
    None,           \* no value
    Unborn, Deleted \* a row that is not there yet, or no longer

Row == [user : Users, project : Projects, trust : Trusts \cup {None}]
Body == [user : Users \cup {None}, project : Projects \cup {None},
         actions : Seq([scheme : STRING, named : BOOLEAN])]

ASSUME ValuesAssumption ==
    /\ Unborn # Deleted
    /\ {Unborn, Deleted} \cap Row = {}
    /\ None \notin Row \cup Body \cup Users \cup Projects \cup Trusts \cup Alarms
    /\ Callers \subseteq [user : Users, project : Projects, admin : BOOLEAN]
    /\ Bodies \subseteq Body

ASSUME BoundsAssumption ==
    /\ IsFiniteSet(Clients) /\ Clients # {}
    /\ IsFiniteSet(Alarms)
    /\ {UserQuota, ProjectQuota} \subseteq Nat \cup {-1}
    /\ MaxActions \in Int
    /\ AdminLimits \subseteq Nat \cup {-1}
    /\ {MaxRequests, MaxFaults} \subseteq Nat

VARIABLES
    rows,       \* table alarm
    trusts,     \* the trusts keystone has
    issued,     \* the trusts it ever had
    quotas,     \* table quota: the limit of a project, or None
    pc,         \* where each request is
    body,       \* what it asks for, with the owner that was decided on
    target,     \* the alarm it changes
    copy,       \* the row it has read and will write back
    limit,      \* the quota row it has read
    counted,    \* the number of alarms of the project it has read
    moved,      \* the alarms that PUT has given to each user
    disturbed,  \* has a request ended halfway, or met another on the same alarm?
    requests, faults

storage == <<rows, quotas>>
keystone == <<trusts, issued>>
locals == <<body, target, copy, limit, counted>>
bounds == <<requests, faults>>
vars == <<storage, keystone, pc, locals, moved, disturbed, bounds>>

Exists(a) == rows[a] \notin {Unborn, Deleted}
AlarmsOf(u) == {a \in Alarms : Exists(a) /\ rows[a].user = u}
AlarmsIn(p) == {a \in Alarms : Exists(a) /\ rows[a].project = p}

--------------------------------------------------------------------------------
(* What a request may ask for. *)

\* _set_ownership: only an administrator may name another owner.
MayOwn(caller, b) ==
    \/ caller.admin
    \/ b.user \in {None, caller.user} /\ b.project \in {None, caller.project}

NewOwner(caller, b) ==
    [b EXCEPT !.user = IF @ = None THEN caller.user ELSE @,
              !.project = IF @ = None THEN caller.project ELSE @]

\* Mutant: PUT forgets to fill in the project of an administrator's body.
ChangedOwnerKeepingProject(caller, b, row) ==
    [b EXCEPT !.user = IF @ = None THEN row.user ELSE @]

\* PUT: a caller who is no administrator becomes the owner.
ChangedOwner(caller, b, row) ==
    IF caller.admin THEN [b EXCEPT !.user = IF @ = None THEN row.user ELSE @,
                                   !.project = IF @ = None THEN row.project ELSE @]
    ELSE [b EXCEPT !.user = caller.user, !.project = caller.project]

\* check_alarm_actions; each action of a body differs from the others.
ActionsAllowed(caller, b) ==
    /\ MaxActions > 0 => Len(b.actions) <= MaxActions
    /\ \A i \in DOMAIN b.actions :
           /\ b.actions[i].scheme \in {"http", "trust+http", "log"}
           /\ b.actions[i].scheme = "log" => caller.admin

TrustUrls(actions) == {i \in DOMAIN actions : actions[i].scheme = "trust+http"}
WithId(actions) == {i \in TrustUrls(actions) : actions[i].named}

\* update_actions: the actions are gone through in order, and one whose URL
\* names a trust ends the request.
TrustWanted(actions) ==
    \E i \in TrustUrls(actions) : \A j \in WithId(actions) : i < j

Init ==
    /\ rows = [a \in Alarms |-> Unborn]
    /\ trusts = {} /\ issued = {}
    /\ quotas = [p \in Projects |-> None]
    /\ pc = [c \in Clients |-> "free"]
    /\ body = [c \in Clients |-> None]
    /\ target = [c \in Clients |-> None]
    /\ copy = [c \in Clients |-> None]
    /\ limit = [c \in Clients |-> None]
    /\ counted = [c \in Clients |-> 0]
    /\ moved = [u \in Users |-> 0]
    /\ disturbed = FALSE
    /\ requests = 0 /\ faults = 0

Goto(c, label) == pc' = [pc EXCEPT ![c] = label]

Begin(c, label) ==
    /\ pc[c] = "free"
    /\ requests < MaxRequests
    /\ requests' = requests + 1
    /\ Goto(c, label)

\* The locals of a request that has ended are forgotten.
End(c) ==
    /\ Goto(c, "free")
    /\ body' = [body EXCEPT ![c] = None]
    /\ target' = [target EXCEPT ![c] = None]
    /\ copy' = [copy EXCEPT ![c] = None]
    /\ limit' = [limit EXCEPT ![c] = None]
    /\ counted' = [counted EXCEPT ![c] = 0]

--------------------------------------------------------------------------------
(* AlarmsController.post *)

Post(c, caller, b) ==
    /\ Begin(c, "quotas")
    /\ MayOwn(caller, b) /\ ActionsAllowed(caller, b)
    /\ body' = [body EXCEPT ![c] = NewOwner(caller, b)]
    /\ UNCHANGED <<storage, keystone, target, copy, limit, counted, moved, disturbed, faults>>

ReadQuotas(c) ==
    /\ pc[c] = "quotas"
    /\ limit' = [limit EXCEPT ![c] = quotas[body[c].project]]
    /\ Goto(c, "project")
    /\ UNCHANGED <<storage, keystone, body, target, copy, counted, moved, disturbed, bounds>>

CountProject(c) ==
    /\ pc[c] = "project"
    /\ counted' = [counted EXCEPT ![c] = Cardinality(AlarmsIn(body[c].project))]
    /\ Goto(c, "user")
    /\ UNCHANGED <<storage, keystone, body, target, copy, limit, moved, disturbed, bounds>>

\* Mutant: the quota of the user is reached when it is exceeded.
OverQuotaLate(c) ==
    UserQuota # -1 /\ Cardinality(AlarmsOf(body[c].user)) > UserQuota

\* is_over_quota: a limit in the table is compared with the alarms of the user.
IsOverQuota(c) ==
    LET owned == Cardinality(AlarmsOf(body[c].user))
    IN  \/ limit[c] # None /\ owned >= limit[c]
        \/ limit[c] = None /\ ProjectQuota # -1 /\ counted[c] >= ProjectQuota
        \/ UserQuota # -1 /\ owned >= UserQuota

CountUser(c) ==
    /\ pc[c] = "user"
    /\ Goto(c, IF IsOverQuota(c) THEN "over" ELSE "actions")
    /\ UNCHANGED <<storage, keystone, locals, moved, disturbed, bounds>>

Refuse(c) ==
    /\ pc[c] = "over"
    /\ End(c)
    /\ UNCHANGED <<storage, keystone, moved, disturbed, bounds>>

CreateTrust(t) == t \notin issued /\ trusts' = trusts \cup {t} /\ issued' = issued \cup {t}

\* update_actions of a new alarm.
PostActions(c) ==
    LET actions == body[c].actions
    IN  /\ pc[c] = "actions"
        /\ IF TrustWanted(actions)
           THEN \E t \in Trusts :
                    /\ CreateTrust(t)
                    /\ IF WithId(actions) = {}
                       THEN /\ copy' = [copy EXCEPT ![c] = [user |-> body[c].user,
                                            project |-> body[c].project, trust |-> t]]
                            /\ Goto(c, "insert")
                            /\ UNCHANGED <<body, target, limit, counted, disturbed>>
                       ELSE End(c) /\ disturbed' = TRUE
           ELSE /\ UNCHANGED keystone
                /\ IF WithId(actions) = {}
                   THEN /\ copy' = [copy EXCEPT ![c] = [user |-> body[c].user,
                                        project |-> body[c].project, trust |-> None]]
                        /\ Goto(c, "insert")
                        /\ UNCHANGED <<body, target, limit, counted, disturbed>>
                   ELSE End(c) /\ UNCHANGED disturbed
        /\ UNCHANGED <<storage, moved, bounds>>

Insert(c) ==
    /\ pc[c] = "insert"
    /\ \E a \in Alarms :
           /\ rows[a] = Unborn
           /\ rows' = [rows EXCEPT ![a] = copy[c]]
    /\ End(c)
    /\ UNCHANGED <<quotas, keystone, moved, disturbed, bounds>>

--------------------------------------------------------------------------------
(* AlarmController.put, put_state and delete *)

\* _enforce_rbac reads the row, of the project of the caller.
Read(c, caller, a, label) ==
    /\ Begin(c, label)
    /\ Exists(a)
    /\ caller.admin \/ caller.project = rows[a].project
    /\ target' = [target EXCEPT ![c] = a]
    /\ disturbed' = (disturbed \/ \E d \in Clients : target[d] = a)

Put(c, caller, b, a) ==
    /\ Read(c, caller, a, "put_actions")
    /\ ActionsAllowed(caller, b)
    /\ body' = [body EXCEPT ![c] = ChangedOwner(caller, b, rows[a])]
    /\ copy' = [copy EXCEPT ![c] = rows[a]]
    /\ UNCHANGED <<storage, keystone, limit, counted, moved, faults>>

\* Mutant: a trust that no action uses any more is kept in keystone.
NoLongerUsedNever(actions, trust) == FALSE

NoLongerUsed(actions, trust) == trust # None /\ TrustUrls(actions) = {}

\* update_actions: the trust of the row is used again or deleted, before the
\* row is written.
PutActions(c) ==
    LET actions == body[c].actions
        old == copy[c].trust
        Changed(t) == [user |-> body[c].user, project |-> body[c].project, trust |-> t]
    IN  /\ pc[c] = "put_actions"
        /\ \/ /\ old = None /\ TrustWanted(actions)
              /\ \E t \in Trusts :
                     /\ CreateTrust(t)
                     /\ copy' = [copy EXCEPT ![c] = Changed(t)]
           \/ /\ NoLongerUsed(actions, old)
              /\ trusts' = trusts \ {old}
              /\ copy' = [copy EXCEPT ![c] = Changed(None)]
              /\ UNCHANGED issued
           \/ /\ ~(old = None /\ TrustWanted(actions)) /\ ~NoLongerUsed(actions, old)
              /\ copy' = [copy EXCEPT ![c] = Changed(IF TrustUrls(actions) = {} THEN None ELSE old)]
              /\ UNCHANGED keystone
        /\ Goto(c, IF WithId(actions) = {} THEN "update" ELSE "bad_url")
        /\ UNCHANGED <<storage, body, target, limit, counted, moved, disturbed, bounds>>

BadUrl(c) ==
    /\ pc[c] = "bad_url"
    /\ End(c)
    /\ disturbed' = (disturbed \/ TrustWanted(body[c].actions))
    /\ UNCHANGED <<storage, keystone, moved, bounds>>

\* PUT state writes the row back as it was read.
PutState(c, caller, a) ==
    /\ Read(c, caller, a, "update")
    /\ copy' = [copy EXCEPT ![c] = rows[a]]
    /\ UNCHANGED <<storage, keystone, body, limit, counted, moved, faults>>

Update(c) ==
    LET a == target[c]
    IN  /\ pc[c] = "update"
        /\ IF Exists(a)
           THEN /\ rows' = [rows EXCEPT ![a] = copy[c]]
                /\ moved' = [moved EXCEPT ![copy[c].user] =
                                IF rows[a].user = copy[c].user THEN @ ELSE @ + 1]
                /\ UNCHANGED disturbed
           ELSE UNCHANGED <<rows, moved>> /\ disturbed' = TRUE
        /\ End(c)
        /\ UNCHANGED <<quotas, keystone, bounds>>

Delete(c, caller, a) ==
    /\ Read(c, caller, a, "delete")
    /\ copy' = [copy EXCEPT ![c] = rows[a]]
    /\ UNCHANGED <<storage, keystone, body, limit, counted, moved, faults>>

DeleteRow(c) ==
    /\ pc[c] = "delete"
    /\ rows' = [rows EXCEPT ![target[c]] = Deleted]
    /\ Goto(c, "delete_actions")
    /\ UNCHANGED <<quotas, keystone, locals, moved, disturbed, bounds>>

\* delete_trust_id takes a trust that is not there for deleted.
DeleteActions(c) ==
    /\ pc[c] = "delete_actions"
    /\ trusts' = trusts \ {copy[c].trust}
    /\ End(c)
    /\ UNCHANGED <<storage, issued, moved, disturbed, bounds>>

--------------------------------------------------------------------------------
(* QuotasController *)

SetQuotas(p, n) ==
    /\ requests < MaxRequests
    /\ requests' = requests + 1
    /\ quotas' = [quotas EXCEPT ![p] = n]
    /\ UNCHANGED <<rows, keystone, pc, locals, moved, disturbed, faults>>

\* get_all stores the default where a project has no row.
GetQuotas(c, p) ==
    /\ Begin(c, "store_default")
    /\ quotas[p] = None
    /\ body' = [body EXCEPT ![c] = [user |-> None, project |-> p, actions |-> <<>>]]
    /\ UNCHANGED <<storage, keystone, target, copy, limit, counted, moved, disturbed, faults>>

StoreDefault(c) ==
    /\ pc[c] = "store_default"
    /\ quotas' = [quotas EXCEPT ![body[c].project] = ProjectQuota]
    /\ End(c)
    /\ UNCHANGED <<rows, keystone, moved, disturbed, bounds>>

--------------------------------------------------------------------------------
(* Failures *)

\* Keystone does not answer, or the process of the API ends.
Fail(c) ==
    /\ pc[c] # "free"
    /\ faults < MaxFaults
    /\ faults' = faults + 1
    /\ End(c)
    /\ disturbed' = (disturbed \/ pc[c] \in {"insert", "update", "bad_url", "delete_actions"})
    /\ UNCHANGED <<storage, keystone, moved, requests>>

Serve(c) ==
    \/ ReadQuotas(c) \/ CountProject(c) \/ CountUser(c) \/ Refuse(c)
    \/ PostActions(c) \/ Insert(c)
    \/ PutActions(c) \/ BadUrl(c) \/ Update(c)
    \/ DeleteRow(c) \/ DeleteActions(c)
    \/ StoreDefault(c)

Request(c) ==
    \/ \E caller \in Callers :
           \/ \E b \in Bodies : Post(c, caller, b)
           \/ \E a \in Alarms : \/ PutState(c, caller, a)
                                \/ Delete(c, caller, a)
                                \/ \E b \in Bodies : Put(c, caller, b, a)
    \/ \E p \in Projects : GetQuotas(c, p)

Next ==
    \/ \E c \in Clients : Request(c) \/ Serve(c) \/ Fail(c)
    \/ \E p \in Projects, n \in AdminLimits \cup {None} : SetQuotas(p, n)

Spec == Init /\ [][Next]_vars

--------------------------------------------------------------------------------
(* Properties *)

\* Every variable keeps its type: whatever mixture of body, caller and stored
\* row a request has put together, the row it writes has an owner.
TypeOK ==
    /\ rows \in [Alarms -> Row \cup {Unborn, Deleted}]
    /\ trusts \subseteq issued /\ issued \subseteq Trusts
    /\ quotas \in [Projects -> Nat \cup {-1, None}]
    /\ pc \in [Clients -> {"free", "quotas", "project", "user", "over", "actions", "insert",
                           "put_actions", "bad_url", "update", "delete", "delete_actions",
                           "store_default"}]
    /\ body \in [Clients -> Body \cup {None}]
    /\ target \in [Clients -> Alarms \cup {None}]
    /\ copy \in [Clients -> Row \cup {None}]
    /\ limit \in [Clients -> Nat \cup {-1, None}]
    /\ counted \in [Clients -> Nat]
    /\ moved \in [Users -> Nat]

\* The quota is checked in other transactions than the one that inserts, so
\* concurrent posts exceed it, but by no more than the other requests that can
\* be in progress, and by what PUT hands to a user without a check.
QuotaOvershootBounded ==
    UserQuota # -1 =>
        \A u \in Users :
            Cardinality(AlarmsOf(u)) <= UserQuota + Cardinality(Clients) - 1 + moved[u]

\* Between requests keystone holds exactly the trusts that alarms refer to, as
\* long as no request failed halfway or met another on the same alarm: no
\* sequence of posts, puts and deletes leaks a trust or deletes one in use.
TrustsMatchRows ==
    ~disturbed /\ (\A c \in Clients : pc[c] = "free") =>
        trusts = {rows[a].trust : a \in {b \in Alarms : Exists(b)}} \ {None}

\* With the default configuration and no limit from an administrator, alarms
\* are unlimited: no request is over quota.
UnlimitedByDefault ==
    UserQuota = -1 /\ ProjectQuota = -1 /\ AdminLimits = {} =>
        \A c \in Clients : pc[c] # "over"
================================================================================
