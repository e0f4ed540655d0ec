----------------------- MODULE PartitionCoordinatorProofs -----------------------
(* Theorems about PartitionCoordinator, for every set of agents and alarms,  *)
(* every hash without collisions and any number of faults; and what the      *)
(* hash ring itself does, for every number of replicas and every membership. *)
EXTENDS PartitionCoordinator, WellFoundedInduction, TLAPS

--------------------------------------------------------------------------------
(* The hash ring. *)

Lower == {p \in Nat \X Nat : p[1] < p[2]}

LEMMA LowerWellFounded == IsWellFoundedOn(Lower, Nat)
BY NatLessThanWellFounded DEF OpToRel, Lower

\* The head of the sorted keys, and of a tail of them.
LEMMA LeastIsLeast ==
    ASSUME NEW S \in SUBSET Nat, S # {}
    PROVE  Least(S) \in S /\ \A q \in S : Least(S) <= q
<1>1. PICK p \in S : \A q \in S : ~ (<<q, p>> \in Lower)
  <2>1. S \subseteq Nat
    OBVIOUS
  <2>2. QED
    BY LowerWellFounded, WFMin, <2>1
<1>2. ASSUME NEW q \in S PROVE p <= q
  <2>1. p \in Nat /\ q \in Nat
    OBVIOUS
  <2>2. q < p => <<q, p>> \in Lower
    BY <2>1 DEF Lower
  <2>3. QED
    BY <1>1, <2>1, <2>2
<1>3. QED
  BY <1>2 DEF Least

LEMMA PositionsType ==
    ASSUME NEW nodes \in SUBSET Nodes
    PROVE  /\ Positions(nodes) \in SUBSET Nat
           /\ DOMAIN Ring(nodes) = Positions(nodes)
           /\ nodes # {} => Positions(nodes) # {}
<1>1. \A n \in nodes, r \in Replicas : Hash[<<n, r>>] \in Nat
  BY HashAssumption
<1>2. ASSUME NEW p \in Positions(nodes) PROVE p \in Nat
  <2>1. PICK n \in nodes, r \in Replicas : p = Hash[<<n, r>>]
    BY DEF Positions
  <2>2. QED
    BY <1>1, <2>1
<1>3. nodes # {} => Positions(nodes) # {}
  BY HashAssumption DEF Positions
<1>4. DOMAIN Ring(nodes) = Positions(nodes)
  BY DEF Ring
<1>5. QED
  BY <1>2, <1>3, <1>4

\* Without collisions, a position belongs to the node it was computed from.
LEMMA RingNode ==
    ASSUME NEW nodes \in SUBSET Nodes, NEW p \in Positions(nodes)
    PROVE  /\ Ring(nodes)[p] \in nodes
           /\ \E r \in Replicas : p = Hash[<<Ring(nodes)[p], r>>]
<1>1. \E n \in nodes : \E r \in Replicas : p = Hash[<<n, r>>]
  BY DEF Positions
<1>2. Ring(nodes)[p] = CHOOSE n \in nodes : \E r \in Replicas : p = Hash[<<n, r>>]
  BY DEF Ring
<1>3. QED
  BY <1>1, <1>2

LEMMA SharedPosition ==
    ASSUME NEW U \in SUBSET Nodes, NEW V \in SUBSET Nodes,
           NEW p \in Positions(U), Ring(U)[p] \in V
    PROVE  p \in Positions(V) /\ Ring(V)[p] = Ring(U)[p]
<1>1. PICK r \in Replicas : p = Hash[<<Ring(U)[p], r>>]
  BY RingNode
<1>2. p \in Positions(V)
  BY <1>1 DEF Positions
<1>3. Ring(V)[p] \in V /\ \E q \in Replicas : p = Hash[<<Ring(V)[p], q>>]
  BY <1>2, RingNode
<1>4. QED
  BY <1>1, <1>2, <1>3, HashAssumption

\* The position found is one of the ring, the first after the key if there is
\* one, else the first of all.
LEMMA FoundPosition ==
    ASSUME NEW nodes \in SUBSET Nodes, nodes # {}, NEW k \in Keys
    PROVE  LET p == GetPositionOnRing(Ring(nodes), k)
           IN  /\ p \in Positions(nodes)
               /\ p <= Hash[k] => \A q \in Positions(nodes) : q <= Hash[k] /\ p <= q
               /\ p > Hash[k] => \A q \in Positions(nodes) : q > Hash[k] => p <= q
<1> DEFINE all == Positions(nodes)
           later == {q \in all : q > Hash[k]}
           p == GetPositionOnRing(Ring(nodes), k)
<1>1. all \in SUBSET Nat /\ all # {} /\ DOMAIN Ring(nodes) = all
  BY PositionsType
<1>2. Hash[k] \in Nat
  BY HashAssumption
<1>3. p = Least(IF later # {} THEN later ELSE all)
  BY <1>1 DEF GetPositionOnRing
<1>4. CASE later # {}
  <2>1. later \in SUBSET Nat
    BY <1>1
  <2>2. p \in later /\ \A q \in later : p <= q
    BY <1>3, <1>4, <2>1, LeastIsLeast
  <2>3. QED
    BY <1>1, <1>2, <2>2
<1>5. CASE later = {}
  <2>1. p \in all /\ \A q \in all : p <= q
    BY <1>1, <1>3, <1>5, LeastIsLeast
  <2>2. \A q \in all : q <= Hash[k]
    BY <1>1, <1>2, <1>5
  <2>3. QED
    BY <1>1, <1>2, <2>1, <2>2
<1>6. QED
  BY <1>4, <1>5

\* get_node gives a key to one of the nodes of the ring.
THEOREM NodeOfRing ==
    ASSUME NEW nodes \in SUBSET Nodes, nodes # {}, NEW k \in Keys
    PROVE  GetNode(Ring(nodes), k) \in nodes
BY FoundPosition, RingNode DEF GetNode

\* Of two nodes that are both in two rings, a key goes to one and the same, if
\* it goes to one of them in each: the other nodes of the rings do not matter.
THEOREM SameChoice ==
    ASSUME NEW U \in SUBSET Nodes, NEW V \in SUBSET Nodes, NEW k \in Keys,
           NEW a \in U \cap V, NEW b \in U \cap V,
           GetNode(Ring(U), k) = a, GetNode(Ring(V), k) = b
    PROVE  a = b
<1> DEFINE p == GetPositionOnRing(Ring(U), k)
           q == GetPositionOnRing(Ring(V), k)
<1>1. Positions(U) \in SUBSET Nat /\ Positions(V) \in SUBSET Nat /\ Hash[k] \in Nat
  BY PositionsType, HashAssumption
<1>2. /\ p \in Positions(U)
      /\ p <= Hash[k] => \A x \in Positions(U) : x <= Hash[k] /\ p <= x
      /\ p > Hash[k] => \A x \in Positions(U) : x > Hash[k] => p <= x
  BY FoundPosition
<1>3. /\ q \in Positions(V)
      /\ q <= Hash[k] => \A x \in Positions(V) : x <= Hash[k] /\ q <= x
      /\ q > Hash[k] => \A x \in Positions(V) : x > Hash[k] => q <= x
  BY FoundPosition
<1>4. Ring(U)[p] = a /\ Ring(V)[q] = b
  BY DEF GetNode
<1>5. p \in Positions(V) /\ Ring(V)[p] = a
  BY <1>2, <1>4, SharedPosition
<1>6. q \in Positions(U)
  BY <1>3, <1>4, SharedPosition
<1>7. p = q
  BY <1>1, <1>2, <1>3, <1>5, <1>6
<1>8. QED
  BY <1>4, <1>5, <1>7

\* A node that joins takes keys, and no key moves between the other nodes.
THEOREM OnlyTheNewcomerTakes ==
    ASSUME NEW nodes \in SUBSET Nodes, nodes # {}, NEW n \in Nodes, NEW k \in Keys
    PROVE  GetNode(Ring(nodes \cup {n}), k) \in {n, GetNode(Ring(nodes), k)}
<1> DEFINE more == nodes \cup {n}
<1>1. more \in SUBSET Nodes /\ more # {}
  OBVIOUS
<1>2. GetNode(Ring(nodes), k) \in nodes /\ GetNode(Ring(more), k) \in more
  BY <1>1, NodeOfRing
<1>3. CASE GetNode(Ring(more), k) \in nodes
  BY <1>1, <1>2, <1>3, SameChoice
<1>4. QED
  BY <1>2, <1>3

--------------------------------------------------------------------------------
(* The agents. *)

USE DEF Agents

\* The universal set is what the ring gives an agent that is alone in it.
LEMMA AloneTakesAll == \A a \in Agents : Subset(a, {a}) = Keys
<1>1. ASSUME NEW a \in Agents, NEW k \in Keys PROVE GetNode(Ring({a}), k) = a
  <2>1. GetNode(Ring({a}), k) \in {a}
    BY NodeOfRing
  <2>2. QED
    BY <2>1
<1>2. QED
  BY <1>1 DEF Subset

LEMMA TypeInit == Init => TypeOK
<1>1. SUFFICES ASSUME Init PROVE TypeOK
  OBVIOUS
<1>2. view \in [Agents -> SUBSET Agents] /\ mine \in [Agents -> SUBSET Keys]
  BY <1>1 DEF Init
<1>3. \A a \in Agents : mine[a] = {}
  BY <1>1 DEF Init
<1>4. QED
  BY <1>1, <1>2, <1>3 DEF Init, TypeOK, Phases, Places

\* What the steps of the evaluating thread make of its own variables.
ThreadOK ==
    /\ pc \in [Agents -> Places]
    /\ back \in [Agents -> {"idle", "members", "again"}]
    /\ attempt \in [Agents -> Nat]
    /\ view \in [Agents -> SUBSET Agents]
    /\ mine \in [Agents -> SUBSET Keys]
    /\ \A a \in Agents : phase[a] = "new" => pc[a] = "idle"
    /\ \A a \in Agents :
           mine[a] # {} => pc[a] = "cycle" /\ mine[a] = Subset(a, view[a])

\* No process is taken back to before its start.
NoneNew == \A a \in Agents : phase'[a] = "new" => phase[a] = "new"

LEMMA RestType ==
    ASSUME TypeOK, NEW a \in Agents, Rest(a), NoneNew
    PROVE  ThreadOK'
BY DEF TypeOK, ThreadOK, Rest, Goto, Places, NoneNew

LEMMA EvaluateType ==
    ASSUME TypeOK, NEW a \in Agents, NEW nodes \in SUBSET Agents,
           pc[a] # "idle", Evaluate(a, nodes), UNCHANGED <<back, phase>>
    PROVE  ThreadOK'
<1>1. Subset(a, nodes) \subseteq Keys
  BY DEF Subset
<1>2. QED
  BY <1>1 DEF TypeOK, ThreadOK, Evaluate, Goto, Places

\* A thread that does not evaluate an alarm moves on to a place where it does
\* not either.
LEMMA MoveType ==
    ASSUME TypeOK, NEW a \in Agents, NEW place \in Places \ {"cycle"},
           phase[a] # "new", pc[a] # "cycle", Goto(a, place), NoneNew,
           UNCHANGED <<view, mine>>,
           back' \in [Agents -> {"idle", "members", "again"}],
           attempt' \in [Agents -> Nat]
    PROVE  ThreadOK'
<1>1. pc' \in [Agents -> Places]
  BY DEF TypeOK, Goto
<1>2. mine[a] = {}
  BY DEF TypeOK
<1>3. \A b \in Agents : mine'[b] # {} => pc'[b] = pc[b]
  BY <1>2 DEF TypeOK, Goto
<1>4. \A b \in Agents : phase'[b] = "new" => pc'[b] = "idle"
  BY DEF TypeOK, Goto, NoneNew
<1>5. QED
  BY <1>1, <1>3, <1>4 DEF TypeOK, ThreadOK

LEMMA JoinType ==
    ASSUME TypeOK, NEW a \in Agents, NEW return \in {"members", "again"},
           pc[a] \notin {"idle", "cycle"}, Join(a, return),
           UNCHANGED <<view, mine, phase>>,
           attempt' \in [Agents -> Nat]
    PROVE  ThreadOK'
<1>1. back' \in [Agents -> {"idle", "members", "again"}]
  BY DEF TypeOK, Join
<1>2. PICK place \in {"join", return} : Goto(a, place)
  BY DEF Join
<1>3. place \in Places \ {"cycle"}
  BY DEF Places
<1>4. phase[a] # "new" /\ NoneNew
  BY DEF TypeOK, NoneNew
<1>5. QED
  BY <1>1, <1>2, <1>3, <1>4, MoveType

LEMMA ReturnType ==
    ASSUME TypeOK, NEW a \in Agents, pc[a] = "join", Return(a),
           UNCHANGED <<attempt, view, mine>>
    PROVE  ThreadOK' /\ phase' \in [Agents -> Phases]
<1>1. back[a] \in Places \ {"cycle"}
  BY DEF TypeOK, Places
<1>2. back' \in [Agents -> {"idle", "members", "again"}]
  BY DEF TypeOK, Return
<1>3. Goto(a, back[a])
  BY DEF Return
<1>4. ThreadOK'
  <2> DEFINE place == back[a]
  <2>1. place \in Places \ {"cycle"} /\ Goto(a, place)
    BY <1>1, <1>3
  <2>2. /\ pc[a] # "cycle" /\ attempt' \in [Agents -> Nat]
        /\ phase[a] # "new" /\ NoneNew
    BY DEF TypeOK, Return, NoneNew
  <2>3. HIDE DEF place
  <2>4. QED
    BY <2>1, <2>2, <1>2, MoveType
<1>5. phase' \in [Agents -> Phases]
  BY DEF TypeOK, Return, Phases
<1>6. QED
  BY <1>4, <1>5

LEMMA JoinGroupType ==
    ASSUME TypeOK, NEW a \in Agents, JoinGroup(a)
    PROVE  TypeOK'
<1>1. CASE JoinAccepted(a)
  <2>1. ThreadOK' /\ phase' \in [Agents -> Phases]
    <3>1. CASE Return(a)
      BY <1>1, <3>1, ReturnType DEF JoinAccepted
    <3>2. CASE UNCHANGED <<joined, pc, back, phase>>
      BY <1>1, <3>2 DEF JoinAccepted, TypeOK, ThreadOK
    <3>3. QED
      BY <1>1, <3>1, <3>2 DEF JoinAccepted
  <2>2. QED
    BY <1>1, <2>1 DEF JoinAccepted, Fault, TypeOK, ThreadOK
<1>2. CASE JoinAlreadyMember(a)
  <2>1. ThreadOK' /\ phase' \in [Agents -> Phases]
    BY <1>2, ReturnType DEF JoinAlreadyMember
  <2>2. QED
    BY <1>2, <2>1 DEF JoinAlreadyMember, backend, TypeOK, ThreadOK
<1>3. CASE JoinNoGroup(a)
  <2>1. ThreadOK'
    BY <1>3, MoveType DEF JoinNoGroup, TypeOK, Places, NoneNew
  <2>2. QED
    BY <1>3, <2>1 DEF JoinNoGroup, backend, TypeOK, ThreadOK
<1>4. CASE CreateGroup(a)
  <2>1. ThreadOK'
    BY <1>4, MoveType DEF CreateGroup, TypeOK, Places, NoneNew
  <2>2. QED
    BY <1>4, <2>1 DEF CreateGroup, TypeOK, ThreadOK
<1>5. CASE CreateFails(a)
  <2>1. ThreadOK'
    BY <1>5, RestType DEF CreateFails, Gone, TypeOK, NoneNew
  <2>2. QED
    BY <1>5, <2>1 DEF CreateFails, Gone, backend, TypeOK, ThreadOK, Phases
<1>6. CASE JoinWithoutDriver(a)
  <2>1. ThreadOK'
    BY <1>6, RestType DEF JoinWithoutDriver, TypeOK, NoneNew
  <2>2. QED
    BY <1>6, <2>1 DEF JoinWithoutDriver, backend, TypeOK, ThreadOK
<1>7. QED
  BY <1>1, <1>2, <1>3, <1>4, <1>5, <1>6 DEF JoinGroup

LEMMA ExtractType ==
    ASSUME TypeOK, NEW a \in Agents, Tick(a) \/ ExtractMySubset(a) \/ EndCycle(a)
    PROVE  TypeOK'
<1> USE DEF backend
<1>1. CASE Tick(a)
  <2>1. ThreadOK'
    BY <1>1, MoveType DEF Tick, TypeOK, Places, NoneNew
  <2>2. QED
    BY <1>1, <2>1 DEF Tick, TypeOK, ThreadOK
<1>2. CASE Extract(a)
  <2>1. attempt' \in [Agents -> Nat] /\ pc[a] # "cycle"
    BY <1>2 DEF Extract, TypeOK
  <2>2. ThreadOK'
    <3>1. CASE a \in joined
      BY <1>2, <2>1, <3>1, MoveType DEF Extract, TypeOK, Places, NoneNew
    <3>2. CASE a \notin joined
      BY <1>2, <2>1, <3>2, JoinType DEF Extract
    <3>3. QED
      BY <3>1, <3>2
  <2>3. QED
    BY <1>2, <2>2 DEF Extract, TypeOK, ThreadOK
<1>3. CASE ExtractWithoutDriver(a)
  <2>1. ThreadOK'
    BY <1>3, EvaluateType DEF ExtractWithoutDriver, InMembers
  <2>2. QED
    BY <1>3, <2>1 DEF ExtractWithoutDriver, TypeOK, ThreadOK
<1>4. CASE MembersFail(a)
  <2>1. ThreadOK'
    BY <1>4, RestType DEF MembersFail, TypeOK, NoneNew
  <2>2. QED
    BY <1>4, <2>1 DEF MembersFail, TypeOK, ThreadOK
<1>5. CASE MembersNoGroup(a)
  <2>1. ThreadOK'
    BY <1>5, JoinType DEF MembersNoGroup, InMembers, TypeOK
  <2>2. QED
    BY <1>5, <2>1 DEF MembersNoGroup, TypeOK, ThreadOK
<1>6. CASE GetMembers(a)
  <2>1. ThreadOK'
    BY <1>6, EvaluateType DEF GetMembers, InMembers, TypeOK
  <2>2. QED
    BY <1>6, <2>1 DEF GetMembers, TypeOK, ThreadOK
<1>7. CASE Rejoin(a)
  <2>1. ThreadOK'
    BY <1>7, JoinType DEF Rejoin, TypeOK
  <2>2. QED
    BY <1>7, <2>1 DEF Rejoin, TypeOK, ThreadOK
<1>8. CASE NotInGroup(a)
  <2>1. ThreadOK'
    <3>1. CASE Rest(a)
      BY <1>8, <3>1, RestType DEF NotInGroup, NoneNew
    <3>2. CASE Goto(a, "extract") /\ UNCHANGED <<back, attempt, view, mine>>
      BY <1>8, <3>2, MoveType DEF NotInGroup, TypeOK, Places, NoneNew
    <3>3. QED
      BY <1>8, <3>1, <3>2 DEF NotInGroup
  <2>2. QED
    BY <1>8, <2>1 DEF NotInGroup, TypeOK, ThreadOK
<1>9. CASE EndCycle(a)
  <2>1. ThreadOK'
    BY <1>9, RestType DEF EndCycle, TypeOK, NoneNew
  <2>2. QED
    BY <1>9, <2>1 DEF EndCycle, TypeOK, ThreadOK
<1>10. QED
  BY <1>1, <1>2, <1>3, <1>4, <1>5, <1>6, <1>7, <1>8, <1>9 DEF ExtractMySubset

LEMMA ProcessType ==
    ASSUME TypeOK, NEW a \in Agents,
           Start(a) \/ Reconnect(a) \/ Stop(a) \/ Leave(a) \/ Crash(a) \/ Expire(a)
    PROVE  TypeOK'
<1> USE DEF backend, local
<1>1. CASE Start(a)
  <2>1. mine[a] # {} => pc[a] = "cycle"
    BY DEF TypeOK
  <2>2. QED
    BY <1>1, <2>1 DEF Start, Goto, TypeOK, Phases, Places
<1>2. CASE Reconnect(a)
  BY <1>2 DEF Reconnect, TypeOK
<1>3. CASE StopDriver(a)
  BY <1>3 DEF StopDriver, TypeOK
<1>4. CASE Exit(a)
  BY <1>4 DEF Exit, Gone, TypeOK, Phases
<1>5. CASE Leave(a)
  BY <1>5 DEF Leave, Fault, TypeOK, Phases
<1>6. CASE Crash(a)
  <2>1. ThreadOK'
    BY <1>6, RestType DEF Crash, Gone, TypeOK, NoneNew
  <2>2. /\ phase' \in [Agents -> Phases]
        /\ coord' \in [Agents -> {"none", "unstarted", "started"}]
        /\ joined' \subseteq Agents /\ faults' \in Nat
    BY <1>6 DEF Crash, Gone, Fault, TypeOK, Phases
  <2>3. reachable' \in BOOLEAN /\ group' \in BOOLEAN /\ members' \subseteq Agents
    BY <1>6 DEF Crash, TypeOK
  <2>4. QED
    BY <2>1, <2>2, <2>3 DEF TypeOK, ThreadOK
<1>7. CASE Expire(a)
  BY <1>7 DEF Expire, Fault, TypeOK
<1>8. QED
  BY <1>1, <1>2, <1>3, <1>4, <1>5, <1>6, <1>7 DEF Stop

LEMMA TypeStep == TypeOK /\ [Next]_vars => TypeOK'
<1>1. SUFFICES ASSUME TypeOK, [Next]_vars PROVE TypeOK'
  OBVIOUS
<1>2. CASE Outage
  <2>1. reachable' \in BOOLEAN /\ group' \in BOOLEAN /\ members' \subseteq Agents
    BY <1>1, <1>2 DEF Outage, TypeOK
  <2>2. faults' \in Nat
    BY <1>1, <1>2 DEF Outage, Fault, TypeOK
  <2>3. UNCHANGED <<phase, coord, joined, pc, back, attempt, view, mine>>
    BY <1>2 DEF Outage, local
  <2>4. QED
    BY <1>1, <2>1, <2>2, <2>3 DEF TypeOK
<1>3. CASE Recover
  BY <1>1, <1>3 DEF Recover, local, TypeOK
<1>4. CASE UNCHANGED vars
  BY <1>1, <1>4 DEF vars, TypeOK
<1>5. QED
  BY <1>1, <1>2, <1>3, <1>4, JoinGroupType, ExtractType, ProcessType DEF Next, Run

\* Type correctness, and with it that what an agent evaluates is what the ring
\* of the members it has read gives it.
THEOREM TypeCorrect == Spec => []TypeOK
BY TypeInit, TypeStep, PTL DEF Spec

LEMMA AcquaintedByRing == TypeOK => AcquaintedAgentsShareNothing
<1>1. SUFFICES ASSUME TypeOK, NEW a \in Agents, NEW b \in Agents, a # b,
                      a \in view[b], b \in view[a],
                      NEW k \in mine[a] \cap mine[b]
               PROVE  FALSE
  BY DEF AcquaintedAgentsShareNothing
<1>2. k \in Keys /\ view[a] \in SUBSET Nodes /\ view[b] \in SUBSET Nodes
  BY <1>1 DEF TypeOK
<1>3. GetNode(Ring(view[a]), k) = a /\ GetNode(Ring(view[b]), k) = b
  BY <1>1 DEF TypeOK, Subset
<1>4. a \in view[a] /\ b \in view[b]
  BY <1>1, <1>2, <1>3, NodeOfRing
<1>5. QED
  BY <1>1, <1>2, <1>3, <1>4, SameChoice

\* Two agents that know of each other share no alarm, through every join,
\* leave, expiry, outage and crash of others: extract_my_subset of both chose
\* from rings that contain the two.
THEOREM AcquaintedShareNothing == Spec => []AcquaintedAgentsShareNothing
BY TypeCorrect, AcquaintedByRing, PTL
================================================================================
