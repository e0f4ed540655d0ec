-------------------------- MODULE PartitionCoordinator --------------------------
(***************************************************************************)
(* How evaluators share the alarms: PartitionCoordinator of                *)
(* aodh/coordination.py, as AlarmEvaluationService of                      *)
(* aodh/evaluator/__init__.py uses it from its constructor, its evaluation *)
(* thread, its heartbeat thread and terminate().                           *)
(*                                                                         *)
(* The coordination backend (tooz and the server behind it) is not part of *)
(* the repository: it is a set of members that the calls read and change,  *)
(* that may be out of reach, may forget everything, and may drop a member  *)
(* whose heartbeats stop.  A call of it is one step.                       *)
(***************************************************************************)
EXTENDS HashRing

CONSTANTS
    Attempts,   \* stop_after_attempt of extract_my_subset
    MaxFaults   \* bound on outages, lost answers, expiries, crashes, shutdowns

ASSUME CoordinatorAssumption == Attempts \in Nat \ {0} /\ MaxFaults \in Nat

\* A process takes a new member identifier when it starts.
Agents == Nodes

VARIABLES
    reachable,  \* does the backend answer?
    group,      \* has the group been created?
    members,    \* the members of the group, to the backend
    phase,      \* of each process
    coord,      \* its _coordinator: None, or a tooz driver that is_started or not
    joined,     \* the processes with the group in their _groups
    pc,         \* where the thread that evaluates is, the constructor before
    back,       \* where a join_group in progress returns to
    attempt,    \* of extract_my_subset
    view,       \* the members it has read
    mine,       \* the alarms it has returned, while they are evaluated
    faults

backend == <<reachable, group, members>>
local == <<pc, back, attempt, view, mine>>
vars == <<reachable, group, members, phase, coord, joined, pc, back, attempt,
          view, mine, faults>>

Init ==
    /\ reachable \in BOOLEAN
    /\ group = FALSE
    /\ members = {}
    /\ phase = [a \in Agents |-> "new"]
    /\ coord = [a \in Agents |-> "none"]
    /\ joined = {}
    /\ pc = [a \in Agents |-> "idle"]
    /\ back = [a \in Agents |-> "idle"]
    /\ attempt = [a \in Agents |-> 0]
    /\ view = [a \in Agents |-> {}]
    /\ mine = [a \in Agents |-> {}]
    /\ faults = 0

Fault == faults < MaxFaults /\ faults' = faults + 1

Goto(a, place) == pc' = [pc EXCEPT ![a] = place]

\* The thread is where it waits for the next cycle.
Rest(a) ==
    /\ Goto(a, "idle")
    /\ back' = [back EXCEPT ![a] = "idle"]
    /\ attempt' = [attempt EXCEPT ![a] = 0]
    /\ view' = [view EXCEPT ![a] = {}]
    /\ mine' = [mine EXCEPT ![a] = {}]

\* The process is no more; the backend does not know yet.
Gone(a) ==
    /\ phase' = [phase EXCEPT ![a] = "gone"]
    /\ coord' = [coord EXCEPT ![a] = "none"]
    /\ joined' = joined \ {a}

--------------------------------------------------------------------------------
(* join_group, called from the constructor, from extract_my_subset or from *)
(* _get_members; it returns at once without a started driver.              *)

Join(a, return) ==
    IF coord[a] = "started"
      THEN Goto(a, "join") /\ back' = [back EXCEPT ![a] = return]
      ELSE Goto(a, return) /\ UNCHANGED back

\* Back to the caller, which for the constructor starts the periodic threads.
Return(a) ==
    /\ Goto(a, back[a])
    /\ back' = [back EXCEPT ![a] = "idle"]
    /\ phase' = [phase EXCEPT ![a] = IF @ = "building" THEN "running" ELSE @]

\* A retry after a ToozError is this action again.
JoinAccepted(a) ==
    /\ pc[a] = "join"
    /\ coord[a] = "started"
    /\ reachable /\ group /\ a \notin members
    /\ members' = members \cup {a}
    /\ \/ /\ joined' = joined \cup {a}
          /\ Return(a)
          /\ UNCHANGED faults
       \/ /\ Fault          \* the answer is lost: once more
          /\ UNCHANGED <<joined, pc, back, phase>>
    /\ UNCHANGED <<reachable, group, coord, attempt, view, mine>>

\* Mutant: MemberAlreadyExist is retried like any other ToozError.
JoinAlreadyMemberRetries(a) ==
    /\ pc[a] = "join"
    /\ coord[a] = "started"
    /\ reachable /\ group /\ a \in members
    /\ UNCHANGED vars

\* MemberAlreadyExist: the group does not get into _groups.
JoinAlreadyMember(a) ==
    /\ pc[a] = "join"
    /\ coord[a] = "started"
    /\ reachable /\ group /\ a \in members
    /\ Return(a)
    /\ UNCHANGED <<backend, coord, joined, attempt, view, mine, faults>>

\* GroupNotCreated.
JoinNoGroup(a) ==
    /\ pc[a] = "join"
    /\ coord[a] = "started"
    /\ reachable /\ ~group
    /\ Goto(a, "create")
    /\ UNCHANGED <<backend, phase, coord, joined, back, attempt, view, mine,
                   faults>>

\* create_group, or GroupAlreadyExist; then the join is tried again.
CreateGroup(a) ==
    /\ pc[a] = "create"
    /\ coord[a] = "started"
    /\ reachable
    /\ group' = TRUE
    /\ Goto(a, "join")
    /\ UNCHANGED <<reachable, members, phase, coord, joined, back, attempt,
                   view, mine, faults>>

\* Any other error of create_group leaves join_group: it kills a process
\* that is being built, and ends a cycle with nothing to evaluate.
CreateFails(a) ==
    /\ pc[a] = "create"
    /\ coord[a] = "started"
    /\ ~reachable
    /\ IF phase[a] = "building" THEN Gone(a) ELSE UNCHANGED <<phase, coord, joined>>
    /\ Rest(a)
    /\ UNCHANGED <<backend, faults>>

\* stop() has taken the driver away: an AttributeError ends the cycle.
JoinWithoutDriver(a) ==
    /\ pc[a] \in {"join", "create"}
    /\ coord[a] = "none"
    /\ Rest(a)
    /\ UNCHANGED <<backend, phase, coord, joined, faults>>

--------------------------------------------------------------------------------
(* The constructor. *)

\* start(), then join_group(); without a started driver the periodic threads
\* start at once.
Start(a) ==
    /\ phase[a] = "new"
    /\ IF reachable
         THEN /\ phase' = [phase EXCEPT ![a] = "building"]
              /\ coord' = [coord EXCEPT ![a] = "started"]
              /\ Goto(a, "join")
         ELSE /\ phase' = [phase EXCEPT ![a] = "running"]
              /\ coord' = [coord EXCEPT ![a] = "unstarted"]
              /\ UNCHANGED pc
    /\ UNCHANGED <<backend, joined, back, attempt, view, mine, faults>>

\* heartbeat() connects again when start() has failed before.
Reconnect(a) ==
    /\ phase[a] = "running"
    /\ coord[a] = "unstarted"
    /\ reachable
    /\ coord' = [coord EXCEPT ![a] = "started"]
    /\ UNCHANGED <<backend, phase, joined, local, faults>>

--------------------------------------------------------------------------------
(* extract_my_subset, in the thread that evaluates. *)

Subset(a, nodes) == {k \in Keys : GetNode(Ring(nodes), k) = a}

Evaluate(a, nodes) ==
    /\ Goto(a, "cycle")
    /\ attempt' = [attempt EXCEPT ![a] = 0]
    /\ view' = [view EXCEPT ![a] = nodes]
    /\ mine' = [mine EXCEPT ![a] = Subset(a, nodes)]

\* The timer of evaluate_alarms; the alarms are read from the database.
Tick(a) ==
    /\ phase[a] = "running"
    /\ pc[a] = "idle"
    /\ Goto(a, "extract")
    /\ UNCHANGED <<backend, phase, coord, joined, back, attempt, view, mine,
                   faults>>

\* The beginning of an attempt.
Extract(a) ==
    /\ pc[a] = "extract"
    /\ coord[a] # "none"
    /\ attempt' = [attempt EXCEPT ![a] = @ + 1]
    /\ IF a \in joined THEN Goto(a, "members") /\ UNCHANGED back
                       ELSE Join(a, "members")
    /\ UNCHANGED <<backend, phase, coord, joined, view, mine, faults>>

InMembers(a) == pc[a] \in {"members", "again"}

\* terminate() has taken the driver away: the subset is the universal set, or
\* what the ring gives the only member of the group.
ExtractWithoutDriver(a) ==
    /\ pc[a] = "extract" \/ InMembers(a)
    /\ coord[a] = "none"
    /\ Evaluate(a, {a})
    /\ UNCHANGED <<backend, phase, coord, joined, back, faults>>

\* A ToozError, a driver that has not been started, or one that terminate()
\* takes away behind the check of _get_members.
MembersFail(a) ==
    /\ InMembers(a)
    /\ coord[a] # "started" \/ ~reachable
    /\ Rest(a)
    /\ UNCHANGED <<backend, phase, coord, joined, faults>>

\* GroupNotCreated: join_group, and get_members again.
MembersNoGroup(a) ==
    /\ InMembers(a)
    /\ coord[a] = "started"
    /\ reachable /\ ~group
    /\ Join(a, pc[a])
    /\ UNCHANGED <<backend, phase, coord, joined, attempt, view, mine, faults>>

\* Mutant: an agent that is not a member counts itself in.
GetMembersWithSelf(a) ==
    /\ InMembers(a)
    /\ coord[a] = "started"
    /\ reachable /\ group
    /\ Evaluate(a, members \cup {a})
    /\ UNCHANGED <<backend, phase, coord, joined, back, faults>>

GetMembers(a) ==
    /\ InMembers(a)
    /\ coord[a] = "started"
    /\ reachable /\ group /\ a \in members
    /\ Evaluate(a, members)
    /\ UNCHANGED <<backend, phase, coord, joined, back, faults>>

\* "agent failed to join group properly. Rejoining group."
Rejoin(a) ==
    /\ pc[a] = "members"
    /\ coord[a] = "started"
    /\ reachable /\ group /\ a \notin members
    /\ Join(a, "again")
    /\ UNCHANGED <<backend, phase, coord, joined, attempt, view, mine, faults>>

\* MemberNotInGroupError: another attempt, or the end of the cycle.
NotInGroup(a) ==
    /\ pc[a] = "again"
    /\ coord[a] = "started"
    /\ reachable /\ group /\ a \notin members
    /\ IF attempt[a] < Attempts
         THEN Goto(a, "extract") /\ UNCHANGED <<back, attempt, view, mine>>
         ELSE Rest(a)
    /\ UNCHANGED <<backend, phase, coord, joined, faults>>

\* Mutant: the subset of the last cycle is not forgotten.
EndCycleKeepsSubset(a) ==
    /\ pc[a] = "cycle"
    /\ Goto(a, "idle")
    /\ UNCHANGED <<backend, phase, coord, joined, back, attempt, view, mine,
                   faults>>

\* Every alarm of the subset has been through _evaluate_alarm.
EndCycle(a) ==
    /\ pc[a] = "cycle"
    /\ Rest(a)
    /\ UNCHANGED <<backend, phase, coord, joined, faults>>

--------------------------------------------------------------------------------
(* terminate() and what goes wrong. *)

\* periodic.stop(), then leave_group of the groups in _groups; tooz leaves on
\* its own what was joined through the driver, when the driver is stopped.
Leave(a) ==
    /\ phase[a] = "running"
    /\ Fault
    /\ phase' = [phase EXCEPT ![a] = "stopping"]
    /\ joined' = joined \ {a}
    /\ members' = IF a \in joined /\ reachable THEN members \ {a} ELSE members
    /\ UNCHANGED <<reachable, group, coord, local>>

StopDriver(a) ==
    /\ phase[a] = "stopping"
    /\ coord[a] # "none"
    /\ coord' = [coord EXCEPT ![a] = "none"]
    /\ members' = IF reachable THEN members \ {a} ELSE members
    /\ UNCHANGED <<reachable, group, phase, joined, local, faults>>

\* periodic.wait() returns.
Exit(a) ==
    /\ phase[a] = "stopping"
    /\ coord[a] = "none"
    /\ pc[a] = "idle"
    /\ Gone(a)
    /\ UNCHANGED <<backend, local, faults>>

Crash(a) ==
    /\ phase[a] \in {"building", "running", "stopping"}
    /\ Fault
    /\ Gone(a)
    /\ Rest(a)
    /\ UNCHANGED backend

Heartbeats(a) == phase[a] = "running" /\ coord[a] = "started"

\* The backend drops a member: one that sends no heartbeat sooner or later,
\* one whose heartbeats are late by accident.
Expire(a) ==
    /\ a \in members
    /\ Heartbeats(a) => Fault
    /\ ~Heartbeats(a) => UNCHANGED faults
    /\ members' = members \ {a}
    /\ UNCHANGED <<reachable, group, phase, coord, joined, local>>

\* The backend is out of reach, and may come back with nothing.
Outage ==
    /\ reachable
    /\ Fault
    /\ reachable' = FALSE
    /\ \/ UNCHANGED <<group, members>>
       \/ group' = FALSE /\ members' = {}
    /\ UNCHANGED <<phase, coord, joined, local>>

Recover ==
    /\ ~reachable
    /\ reachable' = TRUE
    /\ UNCHANGED <<group, members, phase, coord, joined, local, faults>>

--------------------------------------------------------------------------------
JoinGroup(a) ==
    \/ JoinAccepted(a) \/ JoinAlreadyMember(a) \/ JoinNoGroup(a)
    \/ CreateGroup(a) \/ CreateFails(a) \/ JoinWithoutDriver(a)

ExtractMySubset(a) ==
    \/ Extract(a) \/ ExtractWithoutDriver(a) \/ MembersFail(a) \/ MembersNoGroup(a)
    \/ GetMembers(a) \/ Rejoin(a) \/ NotInGroup(a)

\* The threads of a process.
Run(a) == JoinGroup(a) \/ Tick(a) \/ ExtractMySubset(a) \/ EndCycle(a)
Stop(a) == StopDriver(a) \/ Exit(a)

Next ==
    \/ \E a \in Agents :
           \/ Start(a) \/ Run(a) \/ Reconnect(a) \/ Stop(a)
           \/ Leave(a) \/ Crash(a) \/ Expire(a)
    \/ Outage \/ Recover

Spec == Init /\ [][Next]_vars

\* The threads of a process run, the heartbeat timer fires, and the backend
\* drops a member that has become silent.
ProcessFairness ==
    \A a \in Agents :
        /\ WF_vars(Run(a))
        /\ WF_vars(Reconnect(a))
        /\ WF_vars(Stop(a))
        /\ WF_vars(Expire(a) /\ ~Heartbeats(a))

\* An outage ends.
LiveSpec == Spec /\ ProcessFairness /\ WF_vars(Recover)

--------------------------------------------------------------------------------
(* Properties. *)

Phases == {"new", "building", "running", "stopping", "gone"}
Places == {"idle", "extract", "join", "create", "members", "again", "cycle"}

\* Every variable keeps its type; an agent evaluates the subset that the ring
\* of the members it has read gives it.
TypeOK ==
    /\ reachable \in BOOLEAN
    /\ group \in BOOLEAN
    /\ members \subseteq Agents
    /\ phase \in [Agents -> Phases]
    /\ coord \in [Agents -> {"none", "unstarted", "started"}]
    /\ joined \subseteq Agents
    /\ pc \in [Agents -> Places]
    /\ back \in [Agents -> {"idle", "members", "again"}]
    /\ attempt \in [Agents -> Nat]
    /\ view \in [Agents -> SUBSET Agents]
    /\ mine \in [Agents -> SUBSET Keys]
    /\ faults \in Nat
    /\ \A a \in Agents : phase[a] = "new" => pc[a] = "idle"
    /\ \A a \in Agents :
           mine[a] # {} => pc[a] = "cycle" /\ mine[a] = Subset(a, view[a])

\* Two agents that know of each other never evaluate the same alarm, however
\* different the members they have read are otherwise: whoever else has come
\* or gone in between does not move an alarm from the one to the other.
AcquaintedAgentsShareNothing ==
    \A a, b \in Agents :
        a # b /\ a \in view[b] /\ b \in view[a] => mine[a] \cap mine[b] = {}

\* Faults are finite, so the set of processes settles; from some moment on no
\* alarm is evaluated by two agents at once.
EventuallyPartitioned ==
    <>[](\A a, b \in Agents : a # b => mine[a] \cap mine[b] = {})

\* If some process runs for ever, every alarm is evaluated again and again,
\* whatever outages, lost answers and expiries came before.
EveryAlarmServed ==
    (\E a \in Agents : <>[](phase[a] = "running"))
        => \A k \in Keys : []<>(\E a \in Agents : k \in mine[a])
================================================================================
