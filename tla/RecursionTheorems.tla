--------------------------- MODULE RecursionTheorems ---------------------------
(* A function defined in terms of itself is a function that satisfies its    *)
(* definition, if what its value depends on is well founded.  The definition *)
(* is given as a function too: Body[x][f] is the value at x when f gives the *)
(* values it asks for, which are those on Below[x].                          *)
EXTENDS Naturals, WellFoundedInduction, TLAPS

\* Every non-empty set has a member that depends on none of the others.
WellFounded(S, Below) ==
    \A T \in SUBSET S : T # {} => \E x \in T : Below[x] \cap T = {}

\* The body asks for no other values than those below.
Local(S, V, Below, Body) ==
    \A x \in S : \A f, g \in [S -> V] :
        (\A y \in Below[x] : f[y] = g[y]) => Body[x][f] = Body[x][g]

\* The functions that satisfy the definition on a set that is closed below.
Attempts(S, V, Below, Body) ==
    {a \in (SUBSET S) \X [S -> V] :
        /\ \A x \in a[1] : Below[x] \subseteq a[1]
        /\ \A x \in a[1] : a[2][x] = Body[x][a[2]]}

LEMMA AttemptsAgree ==
    ASSUME NEW S, NEW V, NEW Below, NEW Body,
           WellFounded(S, Below), Local(S, V, Below, Body),
           NEW a \in Attempts(S, V, Below, Body), NEW b \in Attempts(S, V, Below, Body),
           NEW x \in a[1], x \in b[1]
    PROVE  a[2][x] = b[2][x]
<1> DEFINE T == {y \in a[1] \cap b[1] : a[2][y] # b[2][y]}
<1>1. /\ a[1] \in SUBSET S /\ a[2] \in [S -> V] /\ b[1] \in SUBSET S /\ b[2] \in [S -> V]
      /\ \A y \in a[1] : Below[y] \subseteq a[1] /\ a[2][y] = Body[y][a[2]]
      /\ \A y \in b[1] : Below[y] \subseteq b[1] /\ b[2][y] = Body[y][b[2]]
  BY DEF Attempts
<1>2. SUFFICES ASSUME T # {} PROVE FALSE
  OBVIOUS
<1>3. T \in SUBSET S
  BY <1>1
<1>4. PICK y \in T : Below[y] \cap T = {}
  BY <1>2, <1>3 DEF WellFounded
<1>5. y \in S /\ y \in a[1] /\ y \in b[1] /\ a[2][y] # b[2][y]
  BY <1>1
<1>6. \A z \in Below[y] : a[2][z] = b[2][z]
  BY <1>1, <1>4, <1>5
<1>7. Body[y][a[2]] = Body[y][b[2]]
  BY <1>1, <1>5, <1>6 DEF Local
<1>8. QED
  BY <1>1, <1>5, <1>7

THEOREM RecursiveFunctionExists ==
    ASSUME NEW S, NEW V, V # {}, NEW Below, NEW Body,
           \A x \in S : Below[x] \subseteq S,
           \A x \in S, f \in [S -> V] : Body[x][f] \in V,
           WellFounded(S, Below), Local(S, V, Below, Body)
    PROVE  \E f \in [S -> V] : \A x \in S : f[x] = Body[x][f]
<1>1. PICK any \in V : TRUE
  OBVIOUS
<1>2. PICK A : A = Attempts(S, V, Below, Body)
  OBVIOUS
<1>3. PICK U : U = UNION {a[1] : a \in A}
  OBVIOUS
<1> DEFINE of(x) == CHOOSE a \in A : x \in a[1]
<1>4. PICK f : f = [x \in S |-> IF x \in U THEN of(x)[2][x] ELSE any]
  OBVIOUS
<1>5. \A a \in A : /\ a[1] \in SUBSET S /\ a[2] \in [S -> V]
                   /\ \A x \in a[1] : Below[x] \subseteq a[1] /\ a[2][x] = Body[x][a[2]]
  BY <1>2 DEF Attempts
<1>6. U \in SUBSET S
  BY <1>3, <1>5
<1>7. ASSUME NEW x \in U
      PROVE  of(x) \in A /\ x \in of(x)[1]
  <2>1. \E a \in A : x \in a[1]
    BY <1>3
  <2>2. QED
    BY <2>1
<1> HIDE DEF of
<1>8. f \in [S -> V]
  BY <1>1, <1>4, <1>5, <1>7
\* f is what any attempt says.
<1>9. ASSUME NEW a \in A, NEW x \in a[1] PROVE f[x] = a[2][x]
  <2>1. x \in U /\ x \in S
    BY <1>3, <1>5
  <2>2. of(x) \in A /\ x \in of(x)[1]
    BY <1>7, <2>1
  <2>3. of(x)[2][x] = a[2][x]
    BY <1>2, <2>2, AttemptsAgree
  <2>4. QED
    BY <1>4, <2>1, <2>3
<1>10. ASSUME NEW x \in U PROVE Below[x] \subseteq U /\ f[x] = Body[x][f]
  <2>1. PICK a \in A : x \in a[1]
    BY <1>7
  <2>2. Below[x] \subseteq a[1] /\ a[2][x] = Body[x][a[2]] /\ a[2] \in [S -> V]
    BY <1>5, <2>1
  <2>3. Below[x] \subseteq U
    BY <1>3, <2>1, <2>2
  <2>4. \A y \in Below[x] : f[y] = a[2][y]
    BY <1>9, <2>1, <2>2
  <2>5. x \in S
    BY <1>6
  <2>6. Body[x][f] = Body[x][a[2]]
    BY <1>8, <2>2, <2>4, <2>5 DEF Local
  <2>7. f[x] = a[2][x]
    BY <1>9, <2>1
  <2>8. QED
    BY <2>2, <2>3, <2>6, <2>7
\* It says something of every member.
<1>11. U = S
  <2>1. SUFFICES ASSUME S \ U # {} PROVE FALSE
    BY <1>6
  <2>2. PICK x \in S \ U : Below[x] \cap (S \ U) = {}
    <3>1. S \ U \in SUBSET S
      OBVIOUS
    <3>2. QED
      BY <2>1, <3>1 DEF WellFounded
  <2>3. Below[x] \subseteq U /\ x \in S /\ x \notin U
    BY <2>2
  <2>4. PICK v \in V : v = Body[x][f]
    BY <1>8, <2>3
  <2>5. PICK g : g = [f EXCEPT ![x] = v]
    OBVIOUS
  <2>6. g \in [S -> V] /\ g[x] = v /\ \A y \in U : g[y] = f[y]
    BY <1>6, <1>8, <2>3, <2>4, <2>5
  <2>7. \A y \in U : g[y] = Body[y][g]
    <3>1. SUFFICES ASSUME NEW y \in U PROVE g[y] = Body[y][g]
      OBVIOUS
    <3>2. y \in S /\ \A z \in Below[y] : f[z] = g[z]
      BY <1>6, <1>10, <2>6
    <3>3. Body[y][f] = Body[y][g]
      BY <1>8, <2>6, <3>2 DEF Local
    <3>4. QED
      BY <1>10, <2>6, <3>3
  <2>8. g[x] = Body[x][g]
    <3>1. \A z \in Below[x] : f[z] = g[z]
      BY <2>3, <2>6
    <3>2. Body[x][f] = Body[x][g]
      BY <1>8, <2>3, <2>6, <3>1 DEF Local
    <3>3. QED
      BY <2>4, <2>6, <3>2
  <2>9. PICK D : D = U \cup {x}
    OBVIOUS
  <2>10. D \in SUBSET S /\ x \in D /\ \A y \in D : Below[y] \subseteq D /\ g[y] = Body[y][g]
    BY <1>6, <1>10, <2>3, <2>7, <2>8, <2>9
  <2>11. <<D, g>> \in A
    BY <1>2, <2>6, <2>10 DEF Attempts
  <2>12. x \in U
    BY <1>3, <2>10, <2>11
  <2>13. QED
    BY <2>3, <2>12
<1>12. QED
  BY <1>8, <1>10, <1>11

--------------------------------------------------------------------------------
(* Places are well founded: every set of them has a first. *)

Smaller == {p \in Nat \X Nat : p[1] < p[2]}

LEMMA SomeLeast ==
    ASSUME NEW S \in SUBSET Nat, S # {}
    PROVE  \E p \in S : \A q \in S : p <= q
<1>1. IsWellFoundedOn(Smaller, Nat)
  BY NatLessThanWellFounded DEF OpToRel, Smaller
<1>2. PICK p \in S : \A q \in S : ~ (<<q, p>> \in Smaller)
  BY <1>1, WFMin
<1>3. ASSUME NEW q \in S PROVE p <= q
  <2>1. p \in Nat /\ q \in Nat
    OBVIOUS
  <2>2. q < p => <<q, p>> \in Smaller
    BY <2>1 DEF Smaller
  <2>3. QED
    BY <1>2, <2>1, <2>2
<1>4. QED
  BY <1>3
================================================================================
