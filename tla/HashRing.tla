-------------------------------- MODULE HashRing --------------------------------
(***************************************************************************)
(* The consistent hash ring of aodh/coordination.py: which member of the   *)
(* group an alarm is assigned to.  Hash stands for the 32 bits of the md5  *)
(* digest that the code takes, of "node-replica" and of a key.             *)
(***************************************************************************)
EXTENDS Integers, FiniteSets

CONSTANTS
    Nodes,      \* member identifiers
    Replicas,   \* range(replicas): a hundred in the code
    Keys,       \* alarm identifiers
    Hash        \* of node replicas and of keys

\* Two nodes are never at the same position of the ring (a collision of the
\* hash, which would give the position to whichever node is iterated last).
ASSUME HashAssumption ==
    /\ Replicas # {}
    /\ Hash \in [(Nodes \X Replicas) \cup Keys -> Nat]
    /\ \A m, n \in Nodes : \A q, r \in Replicas :
           Hash[<<m, q>>] = Hash[<<n, r>>] => m = n

--------------------------------------------------------------------------------
Positions(nodes) == {Hash[<<n, r>>] : n \in nodes, r \in Replicas}

\* HashRing(nodes): _ring, whose sorted domain is _sorted_keys.
Ring(nodes) ==
    [p \in Positions(nodes) |->
        CHOOSE n \in nodes : \E r \in Replicas : p = Hash[<<n, r>>]]

Least(S) == CHOOSE p \in S : \A q \in S : p <= q

\* Mutant: the n-th position, for a key that is n modulo their number.
PositionByModulus(ring, key) ==
    CHOOSE p \in DOMAIN ring :
        Cardinality({q \in DOMAIN ring : q < p})
            = Hash[key] % Cardinality(DOMAIN ring)

\* bisect: the first position after the key, or the first of all.
GetPositionOnRing(ring, key) ==
    LET later == {p \in DOMAIN ring : p > Hash[key]}
    IN  Least(IF later # {} THEN later ELSE DOMAIN ring)

\* get_node, of a ring that has a node.
GetNode(ring, key) == ring[GetPositionOnRing(ring, key)]
================================================================================
