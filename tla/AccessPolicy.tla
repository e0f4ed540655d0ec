------------------------------ MODULE AccessPolicy ------------------------------
(***************************************************************************)
(* Who may call what: the default rules of aodh/api/policies.py, asked     *)
(* through aodh/api/rbac.py.  A caller has a project and a set of roles;   *)
(* keystone gives an admin the roles member and reader too, and a member   *)
(* the role reader.  oslo.policy lets a caller pass by the deprecated rule *)
(* of an operation as well, unless it is told to enforce the new defaults. *)
(***************************************************************************)
CONSTANTS
    NewDefaults,    \* conf.oslo_policy.enforce_new_defaults
    None            \* no project: the caller is not limited to one

ASSUME PolicyAssumption == NewDefaults \in BOOLEAN

IsAdmin(caller) == "admin" \in caller.roles

\* The project that the answers to a caller are limited to.
LimitedToProject(caller) == IF IsAdmin(caller) THEN None ELSE caller.project

\* target_from_segregation_rule: an administrator's target has no project.
SegregationTarget(caller) == LimitedToProject(caller)

ProjectReader(caller, target) == "reader" \in caller.roles /\ caller.project = target
ProjectMember(caller, target) == "member" \in caller.roles /\ caller.project = target
Owner(caller, target) == caller.project = target

ReaderOperations == {"get_alarm", "get_alarms", "query_alarm", "get_alarm_state",
                     "alarm_history", "query_alarm_history", "get_quotas",
                     "get_metrics"}
MemberOperations == {"create_alarm", "change_alarm", "delete_alarm",
                     "change_alarm_state"}
AdminOperations == {"get_alarms:all_projects", "update_quotas", "delete_quotas",
                    "get_metrics:all_projects"}

Operations == ReaderOperations \cup MemberOperations \cup AdminOperations

NewRule(op, caller, target) ==
    \/ IsAdmin(caller)
    \/ op \in ReaderOperations /\ ProjectReader(caller, target)
    \/ op \in MemberOperations /\ ProjectMember(caller, target)

\* The deprecated rule; the operations on metrics have none.
OldRule(op, caller, target) ==
    \/ op = "create_alarm"
    \/ op \in AdminOperations \ {"get_metrics:all_projects"} /\ IsAdmin(caller)
    \/ /\ op \notin AdminOperations \cup {"get_metrics"}
       /\ (IsAdmin(caller) \/ Owner(caller, target))

Enforce(op, caller, target) ==
    \/ NewRule(op, caller, target)
    \/ ~NewDefaults /\ OldRule(op, caller, target)
================================================================================
