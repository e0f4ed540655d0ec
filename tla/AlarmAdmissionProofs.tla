------------------------- MODULE AlarmAdmissionProofs -------------------------
(***************************************************************************)
(* Proofs about module AlarmAdmission, for any number of requests in       *)
(* progress, owners, alarms and trusts, and any quotas.                    *)
(*                                                                         *)
(* The bound on the overshoot is not inductive as it stands: a request     *)
(* that has passed its check is a row that is still to come.  The          *)
(* invariant therefore counts it together with the rows.                   *)
(*                                                                         *)
(* The bijection of trusts and rows needs the requests as well: while      *)
(* nothing is disturbed, a request has its alarm to itself, and each trust *)
(* has one holder, a row or a request.                                     *)
(***************************************************************************)
EXTENDS AlarmAdmission, FiniteSetTheorems, TLAPS

HasOwner(c) == body[c].user \in Users /\ body[c].project \in Projects

\* What a request has put together by the time it gets to each label.
LocalsOK ==
    \A c \in Clients :
        /\ pc[c] \in {"quotas", "project", "user", "actions", "put_actions"} =>
               body[c] # None /\ HasOwner(c)
        /\ pc[c] \in {"insert", "put_actions", "update"} => copy[c] \in Row
        /\ pc[c] = "insert" => copy[c].user = body[c].user
        /\ pc[c] \in {"put_actions", "update"} => target[c] \in Alarms

Typed == TypeOK /\ LocalsOK

\* The requests that have passed the quota check and have not inserted yet.
Passed(u) == {c \in Clients : pc[c] \in {"actions", "insert"} /\ body[c].user = u}

OvershootOf(u) ==
    Cardinality(AlarmsOf(u)) + Cardinality(Passed(u))
        <= UserQuota + Cardinality(Clients) - 1 + moved[u]

Overshoot == UserQuota # -1 => \A u \in Users : OvershootOf(u)

--------------------------------------------------------------------------------
(* The owner of a body. *)

LEMMA NewOwnerHasOwner ==
    ASSUME NEW caller \in Callers, NEW b \in Bodies
    PROVE  /\ NewOwner(caller, b) \in Body
           /\ NewOwner(caller, b).user \in Users /\ NewOwner(caller, b).project \in Projects
  BY ValuesAssumption DEF NewOwner, Body

LEMMA ChangedOwnerHasOwner ==
    ASSUME NEW caller \in Callers, NEW b \in Bodies, NEW row \in Row
    PROVE  /\ ChangedOwner(caller, b, row) \in Body
           /\ ChangedOwner(caller, b, row).user \in Users
           /\ ChangedOwner(caller, b, row).project \in Projects
  BY ValuesAssumption DEF ChangedOwner, Body, Row

LEMMA ExistingIsRow ==
    ASSUME TypeOK, NEW a \in Alarms, Exists(a)
    PROVE  rows[a] \in Row
  BY DEF TypeOK, Exists

LEMMA CountsAreNat ==
    /\ \A u : IsFiniteSet(AlarmsOf(u)) /\ Cardinality(AlarmsOf(u)) \in Nat
    /\ \A p : IsFiniteSet(AlarmsIn(p)) /\ Cardinality(AlarmsIn(p)) \in Nat
    /\ \A u : /\ IsFiniteSet(Passed(u)) /\ Cardinality(Passed(u)) \in Nat
              /\ Cardinality(Passed(u)) <= Cardinality(Clients)
    /\ Cardinality(Clients) \in Nat \ {0}
  <1>1. \A u : AlarmsOf(u) \subseteq Alarms /\ Passed(u) \subseteq Clients
    BY DEF AlarmsOf, Passed
  <1>2. \A p : AlarmsIn(p) \subseteq Alarms
    BY DEF AlarmsIn
  <1>3. IsFiniteSet(Alarms) /\ IsFiniteSet(Clients) /\ Clients # {}
    BY BoundsAssumption
  <1>4. Cardinality(Clients) \in Nat \ {0}
    BY <1>3, FS_CardinalityType, FS_EmptySet
  <1> QED BY <1>1, <1>2, <1>3, <1>4, FS_Subset, FS_CardinalityType

--------------------------------------------------------------------------------
(* Types. *)

LEMMA InitTyped == Init => Typed
  BY BoundsAssumption DEF Init, Typed, TypeOK, LocalsOK

\* A request that ends leaves nothing behind.
LEMMA EndTyped ==
    ASSUME Typed, NEW c \in Clients, End(c)
    PROVE  /\ LocalsOK'
           /\ pc' \in [Clients -> {"free", "quotas", "project", "user", "over", "actions",
                  "insert", "put_actions", "bad_url", "update", "delete", "delete_actions",
                  "store_default"}]
           /\ body' \in [Clients -> Body \cup {None}]
           /\ target' \in [Clients -> Alarms \cup {None}]
           /\ copy' \in [Clients -> Row \cup {None}]
           /\ limit' \in [Clients -> Nat \cup {-1, None}]
           /\ counted' \in [Clients -> Nat]
  BY DEF Typed, TypeOK, LocalsOK, End, Goto, HasOwner

\* A request that starts, or goes on from one label to another: the others
\* keep their locals.
LEMMA PostTyped ==
    ASSUME Typed, NEW c \in Clients, NEW caller \in Callers, NEW b \in Bodies,
           Post(c, caller, b)
    PROVE  Typed'
  <1>1. /\ NewOwner(caller, b) \in Body
        /\ NewOwner(caller, b).user \in Users /\ NewOwner(caller, b).project \in Projects
    BY NewOwnerHasOwner
  <1>2. body' = [body EXCEPT ![c] = NewOwner(caller, b)] /\ pc' = [pc EXCEPT ![c] = "quotas"]
    BY DEF Post, Begin, Goto
  <1> HIDE DEF NewOwner
  <1> QED BY <1>1, <1>2, ValuesAssumption
          DEF Post, Begin, Goto, Typed, TypeOK, LocalsOK, HasOwner, storage, keystone

LEMMA ReadTyped ==
    ASSUME Typed, NEW c \in Clients, NEW caller \in Callers, NEW a \in Alarms
    PROVE  /\ \A b \in Bodies : Put(c, caller, b, a) => Typed'
           /\ PutState(c, caller, a) => Typed'
           /\ Delete(c, caller, a) => Typed'
  <1>1. ASSUME NEW b \in Bodies, Put(c, caller, b, a) PROVE Typed'
    <2>1. rows[a] \in Row
      BY <1>1, ExistingIsRow DEF Put, Read, Typed
    <2>2. /\ ChangedOwner(caller, b, rows[a]) \in Body
          /\ ChangedOwner(caller, b, rows[a]).user \in Users
          /\ ChangedOwner(caller, b, rows[a]).project \in Projects
      BY <2>1, ChangedOwnerHasOwner
    <2> QED BY <1>1, <2>1, <2>2, ValuesAssumption
            DEF Put, Read, Begin, Goto, Typed, TypeOK, LocalsOK, HasOwner, storage, keystone
  <1>2. ASSUME PutState(c, caller, a) \/ Delete(c, caller, a) PROVE Typed'
    <2>1. rows[a] \in Row
      BY <1>2, ExistingIsRow DEF PutState, Delete, Read, Typed
    <2> QED BY <1>2, <2>1
            DEF PutState, Delete, Read, Begin, Goto, Typed, TypeOK, LocalsOK, HasOwner,
                storage, keystone
  <1> QED BY <1>1, <1>2

LEMMA ServeTyped ==
    ASSUME Typed, NEW c \in Clients, Serve(c)
    PROVE  Typed'
  <1> USE DEF Typed, TypeOK, LocalsOK, HasOwner, storage, keystone, locals, bounds, Goto
  <1>1. CASE ReadQuotas(c)
    BY <1>1 DEF ReadQuotas, Body
  <1>2. CASE CountProject(c)
    BY <1>2, CountsAreNat DEF CountProject
  <1>3. CASE CountUser(c)
    BY <1>3 DEF CountUser
  <1>4. CASE Refuse(c)
    BY <1>4, EndTyped DEF Refuse
  <1>5. CASE PostActions(c)
    <2>1. \A t \in Trusts \cup {None} :
              [user |-> body[c].user, project |-> body[c].project, trust |-> t] \in Row
      BY <1>5 DEF PostActions, Row
    <2>2. \A t \in Trusts : CreateTrust(t) => trusts' \subseteq issued' /\ issued' \subseteq Trusts
      BY DEF CreateTrust
    <2>3. CASE End(c)
      BY <1>5, <2>2, <2>3, EndTyped DEF PostActions
    <2>4. CASE ~End(c)
      <3>1. PICK t \in Trusts \cup {None} :
                copy' = [copy EXCEPT ![c] = [user |-> body[c].user,
                             project |-> body[c].project, trust |-> t]]
        BY <1>5, <2>4 DEF PostActions
      <3>2. pc' = [pc EXCEPT ![c] = "insert"] /\ UNCHANGED <<body, target, limit, counted>>
        BY <1>5, <2>4 DEF PostActions
      <3>3. trusts' \subseteq issued' /\ issued' \subseteq Trusts
        BY <1>5, <2>2 DEF PostActions
      <3>4. UNCHANGED <<rows, quotas, moved>>
        BY <1>5 DEF PostActions
      <3> QED BY <2>1, <3>1, <3>2, <3>3, <3>4
    <2> QED BY <2>3, <2>4
  <1>6. CASE Insert(c)
    BY <1>6, EndTyped DEF Insert
  <1>7. CASE PutActions(c)
    <2>1. copy[c] \in Row /\ copy[c].trust \in Trusts \cup {None}
      BY <1>7 DEF PutActions, Row
    <2>2. \A t \in Trusts \cup {None} :
              [user |-> body[c].user, project |-> body[c].project, trust |-> t] \in Row
      BY <1>7 DEF PutActions, Row
    <2>3. PICK t \in Trusts \cup {None} :
              copy' = [copy EXCEPT ![c] = [user |-> body[c].user,
                           project |-> body[c].project, trust |-> t]]
      BY <1>7, <2>1 DEF PutActions
    <2>4. trusts' \subseteq issued' /\ issued' \subseteq Trusts
      BY <1>7 DEF PutActions, CreateTrust
    <2>5. pc' = [pc EXCEPT ![c] = IF WithId(body[c].actions) = {} THEN "update" ELSE "bad_url"]
      BY <1>7 DEF PutActions
    <2>6. UNCHANGED <<rows, quotas, body, target, limit, counted, moved>>
      BY <1>7 DEF PutActions
    <2>7. target[c] \in Alarms
      BY <1>7 DEF PutActions
    <2> QED BY <2>2, <2>3, <2>4, <2>5, <2>6, <2>7
  <1>8. CASE BadUrl(c)
    BY <1>8, EndTyped DEF BadUrl
  <1>9. CASE Update(c)
    BY <1>9, EndTyped DEF Update
  <1>10. CASE DeleteRow(c)
    BY <1>10 DEF DeleteRow
  <1>11. CASE DeleteActions(c)
    BY <1>11, EndTyped DEF DeleteActions
  <1>12. CASE StoreDefault(c)
    BY <1>12, EndTyped, BoundsAssumption DEF StoreDefault
  <1> QED BY <1>1, <1>2, <1>3, <1>4, <1>5, <1>6, <1>7, <1>8, <1>9, <1>10, <1>11, <1>12
          DEF Serve

LEMMA StepTyped == Typed /\ [Next]_vars => Typed'
  <1> SUFFICES ASSUME Typed, [Next]_vars PROVE Typed'
    OBVIOUS
  <1>1. ASSUME NEW c \in Clients, Request(c) PROVE Typed'
    <2>1. ASSUME NEW p \in Projects, GetQuotas(c, p) PROVE Typed'
      <3>1. [user |-> None, project |-> p, actions |-> <<>>] \in Body
        BY DEF Body
      <3> QED BY <2>1, <3>1
              DEF GetQuotas, Begin, Goto, Typed, TypeOK, LocalsOK, HasOwner, storage, keystone
    <2> QED BY <1>1, <2>1, PostTyped, ReadTyped DEF Request
  <1>2. ASSUME NEW c \in Clients, Fail(c) PROVE Typed'
    BY <1>2, EndTyped DEF Fail, Typed, TypeOK, storage, keystone
  <1>3. ASSUME NEW p \in Projects, NEW n \in AdminLimits \cup {None}, SetQuotas(p, n)
        PROVE  Typed'
    BY <1>3, BoundsAssumption
    DEF SetQuotas, Typed, TypeOK, LocalsOK, HasOwner, keystone, locals
  <1>4. CASE UNCHANGED vars
    BY <1>4 DEF vars, storage, keystone, locals, bounds, Typed, TypeOK, LocalsOK, HasOwner
  <1> QED BY <1>1, <1>2, <1>3, <1>4, ServeTyped DEF Next

\* Every request keeps the types, and writes rows that have an owner.
THEOREM AdmissionTyped == Spec => []TypeOK
  <1>1. Typed => TypeOK
    BY DEF Typed
  <1> QED BY <1>1, InitTyped, StepTyped, PTL DEF Spec

--------------------------------------------------------------------------------
(* The quota. *)

\* A step that gives no row to anybody and lets nobody through.
LEMMA NobodyPasses ==
    ASSUME Typed, Overshoot, NEW u \in Users, UserQuota # -1,
           AlarmsOf(u)' \subseteq AlarmsOf(u), Passed(u)' \subseteq Passed(u), moved' = moved
    PROVE  OvershootOf(u)'
  <1>1. Cardinality(AlarmsOf(u)') <= Cardinality(AlarmsOf(u)) /\ Cardinality(AlarmsOf(u)') \in Nat
    BY CountsAreNat, FS_Subset, FS_CardinalityType
  <1>2. Cardinality(Passed(u)') <= Cardinality(Passed(u)) /\ Cardinality(Passed(u)') \in Nat
    BY CountsAreNat, FS_Subset, FS_CardinalityType
  <1>3. moved[u] \in Nat /\ UserQuota \in Nat
    BY BoundsAssumption DEF Typed, TypeOK
  <1>4. OvershootOf(u)
    BY DEF Overshoot
  <1> QED BY <1>1, <1>2, <1>3, <1>4, CountsAreNat DEF OvershootOf

\* A request that passes the check has seen fewer rows than the quota, so that
\* only the requests in progress are to be added.
LEMMA CheckPasses ==
    ASSUME Typed, NEW c \in Clients, CountUser(c), NEW u \in Users, Overshoot, UserQuota # -1
    PROVE  OvershootOf(u)'
  <1>1. AlarmsOf(u)' = AlarmsOf(u) /\ moved' = moved /\ body' = body
    BY DEF CountUser, storage, locals, AlarmsOf, Exists
  <1>2. CASE IsOverQuota(c) \/ body[c].user # u
    <2>1. Passed(u)' \subseteq Passed(u)
      BY <1>1, <1>2 DEF CountUser, Goto, Passed, Typed, TypeOK
    <2> QED BY <1>1, <2>1, NobodyPasses
  <1>3. CASE ~IsOverQuota(c) /\ body[c].user = u
    <2>1. ~(Cardinality(AlarmsOf(u)) >= UserQuota)
      BY <1>3 DEF IsOverQuota
    <2>2. Cardinality(Passed(u)') <= Cardinality(Clients) /\ Cardinality(Passed(u)') \in Nat
      <3>1. Passed(u)' \subseteq Clients
        BY DEF Passed
      <3> QED BY <3>1, BoundsAssumption, FS_Subset, FS_CardinalityType
    <2>3. moved[u] \in Nat /\ UserQuota \in Nat
      BY BoundsAssumption DEF Typed, TypeOK
    <2> QED BY <1>1, <2>1, <2>2, <2>3, CountsAreNat DEF OvershootOf
  <1> QED BY <1>2, <1>3

\* The insert turns a request that has passed into a row.
LEMMA InsertKeeps ==
    ASSUME Typed, NEW c \in Clients, Insert(c), NEW u \in Users, Overshoot, UserQuota # -1
    PROVE  OvershootOf(u)'
  <1>1. PICK a \in Alarms : rows[a] = Unborn /\ rows' = [rows EXCEPT ![a] = copy[c]]
    BY DEF Insert
  <1>2. copy[c] \in Row /\ copy[c].user = body[c].user
    BY DEF Insert, Typed, LocalsOK
  <1>3. /\ pc[c] = "insert" /\ pc' = [pc EXCEPT ![c] = "free"]
        /\ body' = [body EXCEPT ![c] = None] /\ moved' = moved
    BY DEF Insert, End, Goto
  <1>4. CASE body[c].user = u
    <2>1. AlarmsOf(u)' = AlarmsOf(u) \cup {a} /\ a \notin AlarmsOf(u)
      BY <1>1, <1>2, <1>4, ValuesAssumption DEF AlarmsOf, Exists, Typed, TypeOK
    <2>2. Passed(u)' = Passed(u) \ {c} /\ c \in Passed(u)
      BY <1>3, <1>4 DEF Passed, Typed, TypeOK
    <2>3. Cardinality(AlarmsOf(u)') = Cardinality(AlarmsOf(u)) + 1
      BY <2>1, CountsAreNat, FS_AddElement
    <2>4. Cardinality(Passed(u)') = Cardinality(Passed(u)) - 1
      <3>1. IsFiniteSet(Passed(u))
        BY CountsAreNat
      <3>2. Cardinality(Passed(u) \ {c}) = Cardinality(Passed(u)) - 1
        BY <2>2, <3>1, FS_RemoveElement
      <3> QED BY <2>2, <3>2
    <2>5. moved[u] \in Nat /\ UserQuota \in Nat /\ OvershootOf(u)
      BY BoundsAssumption DEF Typed, TypeOK, Overshoot
    <2> QED BY <1>3, <2>3, <2>4, <2>5, CountsAreNat DEF OvershootOf
  <1>5. CASE body[c].user # u
    <2>1. AlarmsOf(u)' \subseteq AlarmsOf(u)
      BY <1>1, <1>2, <1>5 DEF AlarmsOf, Exists, Typed, TypeOK
    <2>2. Passed(u)' \subseteq Passed(u)
      BY <1>3 DEF Passed, Typed, TypeOK
    <2> QED BY <1>3, <2>1, <2>2, NobodyPasses
  <1> QED BY <1>4, <1>5

\* An update gives a row to a user at most once for each time it is counted.
LEMMA UpdateKeeps ==
    ASSUME Typed, NEW c \in Clients, Update(c), NEW u \in Users, Overshoot, UserQuota # -1
    PROVE  OvershootOf(u)'
  <1> DEFINE a == target[c]
  <1>1. a \in Alarms /\ copy[c] \in Row /\ copy[c].user \in Users
    BY DEF Update, Typed, LocalsOK, Row
  <1>2. Passed(u)' \subseteq Passed(u)
    BY DEF Update, End, Goto, Passed, Typed, TypeOK
  <1>3. CASE ~Exists(a)
    BY <1>2, <1>3, NobodyPasses DEF Update, AlarmsOf, Exists
  <1>4. CASE Exists(a)
    <2>1. /\ rows' = [rows EXCEPT ![a] = copy[c]]
          /\ moved' = [moved EXCEPT ![copy[c].user] =
                           IF rows[a].user = copy[c].user THEN @ ELSE @ + 1]
      BY <1>4 DEF Update
    <2>2. CASE copy[c].user = u /\ rows[a].user # u
      <3>1. AlarmsOf(u)' = AlarmsOf(u) \cup {a} /\ a \notin AlarmsOf(u)
        BY <1>1, <2>1, <2>2, ValuesAssumption DEF AlarmsOf, Exists, Typed, TypeOK
      <3>2. Cardinality(AlarmsOf(u)') = Cardinality(AlarmsOf(u)) + 1
        BY <3>1, CountsAreNat, FS_AddElement
      <3>3. moved[u] \in Nat /\ moved'[u] = moved[u] + 1
        BY <2>1, <2>2 DEF Typed, TypeOK
      <3>4. Cardinality(Passed(u)') <= Cardinality(Passed(u)) /\ Cardinality(Passed(u)') \in Nat
        BY <1>2, CountsAreNat, FS_Subset, FS_CardinalityType
      <3>5. UserQuota \in Nat /\ OvershootOf(u)
        BY BoundsAssumption DEF Overshoot
      <3> QED BY <3>2, <3>3, <3>4, <3>5, CountsAreNat DEF OvershootOf
    <2>3. CASE copy[c].user # u \/ rows[a].user = u
      <3>1. AlarmsOf(u)' \subseteq AlarmsOf(u)
        BY <1>1, <1>4, <2>1, <2>3 DEF AlarmsOf, Exists, Typed, TypeOK
      <3>2. moved'[u] = moved[u]
        BY <2>1, <2>3 DEF Typed, TypeOK
      <3>3. /\ Cardinality(AlarmsOf(u)') <= Cardinality(AlarmsOf(u))
            /\ Cardinality(AlarmsOf(u)') \in Nat
        BY <3>1, CountsAreNat, FS_Subset, FS_CardinalityType
      <3>4. Cardinality(Passed(u)') <= Cardinality(Passed(u)) /\ Cardinality(Passed(u)') \in Nat
        BY <1>2, CountsAreNat, FS_Subset, FS_CardinalityType
      <3>5. moved[u] \in Nat /\ UserQuota \in Nat /\ OvershootOf(u)
        BY BoundsAssumption DEF Typed, TypeOK, Overshoot
      <3> QED BY <3>2, <3>3, <3>4, <3>5, CountsAreNat DEF OvershootOf
    <2> QED BY <2>2, <2>3
  <1> QED BY <1>3, <1>4

\* Nothing else makes a row, or lets a request through.
LEMMA OthersKeep ==
    ASSUME Typed, Overshoot, UserQuota # -1, NEW u \in Users,
           \/ \E c \in Clients :
                  \/ Request(c) \/ Fail(c)
                  \/ Serve(c) /\ ~CountUser(c) /\ ~Insert(c) /\ ~Update(c)
           \/ \E p \in Projects, n \in AdminLimits \cup {None} : SetQuotas(p, n)
           \/ UNCHANGED vars
    PROVE  OvershootOf(u)'
  <1> USE DEF Goto, Passed, Typed, TypeOK
  <1>1. ASSUME rows' = rows PROVE AlarmsOf(u)' = AlarmsOf(u)
    BY <1>1 DEF AlarmsOf, Exists
  <1>2. ASSUME NEW c \in Clients, Request(c) PROVE OvershootOf(u)'
    <2>1. rows' = rows /\ moved' = moved
      BY <1>2 DEF Request, Post, Put, PutState, Delete, GetQuotas, storage
    <2>2. /\ \A d \in Clients \ {c} : pc'[d] = pc[d] /\ body'[d] = body[d]
          /\ pc'[c] \notin {"actions", "insert"}
      BY <1>2 DEF Request, Post, Put, PutState, Delete, Read, GetQuotas, Begin
    <2>3. Passed(u)' \subseteq Passed(u)
      BY <2>2
    <2> QED BY <1>1, <2>1, <2>3, NobodyPasses
  <1>3. ASSUME NEW c \in Clients, Fail(c) PROVE OvershootOf(u)'
    BY <1>1, <1>3, NobodyPasses DEF Fail, End, storage
  <1>4. ASSUME NEW c \in Clients, ReadQuotas(c) \/ CountProject(c) \/ Refuse(c) \/ PutActions(c)
                                  \/ BadUrl(c) \/ DeleteActions(c) \/ StoreDefault(c)
        PROVE  OvershootOf(u)'
    <2>1. rows' = rows /\ moved' = moved
      BY <1>4 DEF ReadQuotas, CountProject, Refuse, PutActions, BadUrl, DeleteActions,
                  StoreDefault, storage
    <2>2. /\ \A d \in Clients \ {c} : pc'[d] = pc[d] /\ body'[d] = body[d]
          /\ pc'[c] \notin {"actions", "insert"}
      BY <1>4 DEF ReadQuotas, CountProject, Refuse, PutActions, BadUrl, DeleteActions,
                  StoreDefault, End
    <2>3. Passed(u)' \subseteq Passed(u)
      BY <2>2
    <2> QED BY <1>1, <2>1, <2>3, NobodyPasses
  <1>5. ASSUME NEW c \in Clients, PostActions(c) PROVE OvershootOf(u)'
    <2>1. rows' = rows /\ moved' = moved /\ pc[c] = "actions"
      BY <1>5 DEF PostActions, storage
    <2>2. \/ body' = body /\ pc' = [pc EXCEPT ![c] = "insert"]
          \/ End(c)
      BY <1>5 DEF PostActions
    <2>3. Passed(u)' \subseteq Passed(u)
      BY <2>1, <2>2 DEF End
    <2> QED BY <1>1, <2>1, <2>3, NobodyPasses
  <1>6. ASSUME NEW c \in Clients, DeleteRow(c) PROVE OvershootOf(u)'
    <2>1. AlarmsOf(u)' \subseteq AlarmsOf(u)
      BY <1>6 DEF DeleteRow, AlarmsOf, Exists
    <2>2. Passed(u)' \subseteq Passed(u) /\ moved' = moved
      BY <1>6 DEF DeleteRow, locals
    <2> QED BY <2>1, <2>2, NobodyPasses
  <1>7. ASSUME NEW p \in Projects, NEW n \in AdminLimits \cup {None}, SetQuotas(p, n)
        PROVE  OvershootOf(u)'
    BY <1>1, <1>7, NobodyPasses DEF SetQuotas, locals
  <1>8. ASSUME UNCHANGED vars PROVE OvershootOf(u)'
    BY <1>1, <1>8, NobodyPasses DEF vars, storage, locals
  <1> QED BY <1>2, <1>3, <1>4, <1>5, <1>6, <1>7, <1>8 DEF Serve

\* However many posts run at the same time, a user never has more alarms than
\* the quota, the other requests in progress and what PUT moved account for.
THEOREM OvershootIsBounded == Spec => []QuotaOvershootBounded
  <1>1. Init => Overshoot
    <2> SUFFICES ASSUME Init, UserQuota # -1, NEW u \in Users PROVE OvershootOf(u)
      BY DEF Overshoot
    <2>1. AlarmsOf(u) = {} /\ Passed(u) = {} /\ moved[u] = 0
      BY DEF Init, AlarmsOf, Exists, Passed
    <2> QED BY <2>1, FS_EmptySet, CountsAreNat, BoundsAssumption DEF OvershootOf
  <1>2. Typed /\ Overshoot /\ [Next]_vars => Overshoot'
    <2> SUFFICES ASSUME Typed, Overshoot, [Next]_vars, UserQuota # -1, NEW u \in Users
                 PROVE  OvershootOf(u)'
      BY DEF Overshoot
    <2> QED BY CheckPasses, InsertKeeps, UpdateKeeps, OthersKeep DEF Next
  <1>3. Typed /\ Overshoot => QuotaOvershootBounded
    <2> SUFFICES ASSUME Typed, Overshoot, UserQuota # -1, NEW u \in Users
                 PROVE  Cardinality(AlarmsOf(u))
                            <= UserQuota + Cardinality(Clients) - 1 + moved[u]
      BY DEF QuotaOvershootBounded
    <2> QED BY CountsAreNat, BoundsAssumption DEF Overshoot, OvershootOf, Typed, TypeOK
  <1> QED BY <1>1, <1>2, <1>3, InitTyped, StepTyped, PTL DEF Spec

--------------------------------------------------------------------------------
(* The trusts.  While a request has an alarm in its hands, the trust of the *)
(* alarm may be the one of its copy already; a request that has made a     *)
(* trust for a new alarm holds that trust itself.                          *)

OnAlarm == {"put_actions", "update", "bad_url", "delete", "delete_actions"}

\* Keystone was called for the alarm, and the row is written after.
Late == {"update", "bad_url", "delete_actions"}

RowHolds(a, t) ==
    \/ \E c \in Clients : target[c] = a /\ pc[c] \in Late /\ copy[c].trust = t
    \/ /\ \A c \in Clients : target[c] = a => pc[c] \notin Late
       /\ Exists(a) /\ rows[a].trust = t

RequestHolds(c, t) == pc[c] = "insert" /\ copy[c].trust = t

\* No other request has the alarm of this one, which has read the row as it is.
Alone(c) ==
    /\ target[c] # None <=> pc[c] \in OnAlarm
    /\ pc[c] \in OnAlarm =>
           /\ \A d \in Clients : target[d] = target[c] => d = c
           /\ copy[c] \in Row
    /\ pc[c] \in OnAlarm \ {"delete_actions"} => Exists(target[c])
    /\ pc[c] \in {"put_actions", "delete"} => copy[c] = rows[target[c]]
    /\ pc[c] = "delete_actions" => rows[target[c]] = Deleted
    /\ pc[c] = "bad_url" /\ ~TrustWanted(body[c].actions) =>
           copy[c].trust = rows[target[c]].trust

AllAlone == \A c \in Clients : Alone(c)

\* Each trust of keystone has one holder, and nobody holds another trust.
HolderOf(t) ==
    /\ t \in trusts <=> \/ \E a \in Alarms : RowHolds(a, t)
                        \/ \E c \in Clients : RequestHolds(c, t)
    /\ \A a, b \in Alarms : RowHolds(a, t) /\ RowHolds(b, t) => a = b
    /\ \A c, d \in Clients : RequestHolds(c, t) /\ RequestHolds(d, t) => c = d
    /\ \A a \in Alarms, c \in Clients : ~(RowHolds(a, t) /\ RequestHolds(c, t))

OneHolder == \A t \in Trusts : HolderOf(t)

TrustInv == ~disturbed => AllAlone /\ OneHolder

\* A step of request c, which has alarm x in its hands before or after it, if
\* any, and touches no other row.
StepOf(c, x) ==
    /\ \A d \in Clients \ {c} : /\ pc'[d] = pc[d] /\ target'[d] = target[d]
                                /\ copy'[d] = copy[d] /\ body'[d] = body[d]
                                /\ x # None => target[d] # x
    /\ target[c] \in {x, None} /\ target'[c] \in {x, None}
    /\ \A a \in Alarms \ {x} : rows'[a] = rows[a]

LEMMA OthersAlone ==
    ASSUME Typed, AllAlone, NEW c \in Clients, NEW x, StepOf(c, x), Alone(c)'
    PROVE  AllAlone'
  <1> SUFFICES ASSUME NEW d \in Clients \ {c} PROVE Alone(d)'
    BY DEF AllAlone
  <1>1. Alone(d)
    BY DEF AllAlone
  <1>2. target[d] \in Alarms \cup {None}
    BY DEF Typed, TypeOK
  <1>3. CASE target[d] = None
    BY <1>1, <1>3 DEF Alone, StepOf, OnAlarm
  <1>4. CASE target[d] # None
    <2>1. target[d] \in Alarms \ {x}
      BY <1>2, <1>4 DEF StepOf
    <2>2. /\ pc'[d] = pc[d] /\ target'[d] = target[d] /\ copy'[d] = copy[d] /\ body'[d] = body[d]
          /\ rows'[target[d]] = rows[target[d]]
      BY <2>1 DEF StepOf
    <2>3. ASSUME pc[d] \in OnAlarm, NEW e \in Clients, target'[e] = target[d] PROVE e = d
      BY <1>1, <1>4, <2>1, <2>3 DEF StepOf, Alone
    <2> QED BY <1>1, <2>2, <2>3 DEF Alone, Exists
  <1> QED BY <1>3, <1>4

\* The other alarms and requests hold what they held.
LEMMA OthersHold ==
    ASSUME NEW c \in Clients, NEW x, StepOf(c, x), NEW t
    PROVE  /\ \A a \in Alarms \ {x, None} : RowHolds(a, t)' <=> RowHolds(a, t)
           /\ \A d \in Clients \ {c} : RequestHolds(d, t)' <=> RequestHolds(d, t)
  <1>1. ASSUME NEW a \in Alarms \ {x, None} PROVE RowHolds(a, t)' <=> RowHolds(a, t)
    <2>1. rows'[a] = rows[a] /\ target[c] # a /\ target'[c] # a
      BY DEF StepOf
    <2>2. \A d \in Clients : target[d] = a \/ target'[d] = a =>
              pc'[d] = pc[d] /\ target'[d] = target[d] /\ copy'[d] = copy[d]
      BY <2>1 DEF StepOf
    <2> QED BY <2>1, <2>2 DEF RowHolds, Exists
  <1>2. ASSUME NEW d \in Clients \ {c} PROVE RequestHolds(d, t)' <=> RequestHolds(d, t)
    BY DEF StepOf, RequestHolds
  <1> QED BY <1>1, <1>2

\* What the alarm in the hands of a request holds.
LEMMA RowInHand ==
    ASSUME Typed, AllAlone, NEW c \in Clients, target[c] # None, NEW t
    PROVE  RowHolds(target[c], t) <=>
               IF pc[c] \in Late THEN copy[c].trust = t
               ELSE Exists(target[c]) /\ rows[target[c]].trust = t
  BY DEF AllAlone, Alone, RowHolds

\* And what an alarm holds that no request has in its hands.
LEMMA RowAlone ==
    ASSUME NEW a, \A c \in Clients : target[c] # a, NEW t
    PROVE  RowHolds(a, t) <=> Exists(a) /\ rows[a].trust = t
  BY DEF RowHolds

--------------------------------------------------------------------------------
(* What a step can do to the trusts and their holders. *)

LEMMA HoldersKept ==
    ASSUME OneHolder, trusts' = trusts,
           \A t \in Trusts :
               /\ \A a \in Alarms : RowHolds(a, t)' <=> RowHolds(a, t)
               /\ \A c \in Clients : RequestHolds(c, t)' <=> RequestHolds(c, t)
    PROVE  OneHolder'
  <1> SUFFICES ASSUME NEW t \in Trusts PROVE HolderOf(t)'
    BY DEF OneHolder
  <1> QED BY DEF OneHolder, HolderOf

LEMMA AlarmGetsTrust ==
    ASSUME OneHolder, NEW x \in Alarms, NEW s \in Trusts \ trusts, trusts' = trusts \cup {s},
           \A t \in Trusts :
               /\ \A a \in Alarms : RowHolds(a, t)' <=> RowHolds(a, t) \/ (a = x /\ t = s)
               /\ \A c \in Clients : RequestHolds(c, t)' <=> RequestHolds(c, t)
    PROVE  OneHolder'
  <1> SUFFICES ASSUME NEW t \in Trusts PROVE HolderOf(t)'
    BY DEF OneHolder
  <1> QED BY DEF OneHolder, HolderOf

LEMMA RequestGetsTrust ==
    ASSUME OneHolder, NEW x \in Clients, NEW s \in Trusts \ trusts, trusts' = trusts \cup {s},
           \A t \in Trusts :
               /\ \A a \in Alarms : RowHolds(a, t)' <=> RowHolds(a, t)
               /\ \A c \in Clients : RequestHolds(c, t)' <=> RequestHolds(c, t) \/ (c = x /\ t = s)
    PROVE  OneHolder'
  <1> SUFFICES ASSUME NEW t \in Trusts PROVE HolderOf(t)'
    BY DEF OneHolder
  <1> QED BY DEF OneHolder, HolderOf

LEMMA AlarmLosesTrust ==
    ASSUME OneHolder, NEW x \in Alarms, NEW s, trusts' = trusts \ {s},
           \A t \in Trusts :
               /\ \A a \in Alarms : RowHolds(a, t)' <=> RowHolds(a, t) /\ a # x
               /\ \A c \in Clients : RequestHolds(c, t)' <=> RequestHolds(c, t)
               /\ RowHolds(x, t) <=> t = s
    PROVE  OneHolder'
  <1> SUFFICES ASSUME NEW t \in Trusts PROVE HolderOf(t)'
    BY DEF OneHolder
  <1>1. HolderOf(t)
    BY DEF OneHolder
  <1>2. CASE t = s
    BY <1>1, <1>2 DEF HolderOf
  <1>3. CASE t # s
    BY <1>1, <1>3 DEF HolderOf
  <1> QED BY <1>2, <1>3

LEMMA TrustHandedOver ==
    ASSUME OneHolder, trusts' = trusts, NEW x \in Alarms, NEW y \in Clients,
           \A t \in Trusts :
               /\ \A a \in Alarms : RowHolds(a, t)' <=>
                      IF a = x THEN RequestHolds(y, t) ELSE RowHolds(a, t)
               /\ \A c \in Clients : RequestHolds(c, t)' <=> RequestHolds(c, t) /\ c # y
               /\ ~RowHolds(x, t)
    PROVE  OneHolder'
  <1> SUFFICES ASSUME NEW t \in Trusts PROVE HolderOf(t)'
    BY DEF OneHolder
  <1>1. HolderOf(t)
    BY DEF OneHolder
  <1>2. CASE RequestHolds(y, t)
    BY <1>1, <1>2 DEF HolderOf
  <1>3. CASE ~RequestHolds(y, t)
    BY <1>1, <1>3 DEF HolderOf
  <1> QED BY <1>2, <1>3

--------------------------------------------------------------------------------
(* The steps, as far as they leave the requests undisturbed. *)

Kept == AllAlone' /\ OneHolder'

\* A request that has no alarm and no trust in its hands.
LEMMA QuietKeeps ==
    ASSUME Typed, AllAlone, OneHolder, NEW c \in Clients, StepOf(c, None),
           {pc[c], pc'[c]} \cap (OnAlarm \cup {"insert"}) = {},
           rows' = rows, trusts' = trusts
    PROVE  Kept
  <1>1. target[c] = None /\ target'[c] = None
    BY DEF AllAlone, Alone, StepOf
  <1>2. Alone(c)'
    BY <1>1 DEF Alone, OnAlarm
  <1>3. AllAlone'
    BY <1>2, OthersAlone
  <1>4. \A t : \A d \in Clients : RequestHolds(d, t)' <=> RequestHolds(d, t)
    BY OthersHold DEF RequestHolds
  <1>5. None \notin Alarms
    BY ValuesAssumption
  <1>6. OneHolder'
    BY <1>4, <1>5, OthersHold, HoldersKept
  <1> QED BY <1>3, <1>6 DEF Kept

\* A request that begins with a row which no other request has read.
LEMMA ReadKeeps ==
    ASSUME Typed, AllAlone, OneHolder, ~disturbed', NEW c \in Clients, NEW caller \in Callers,
           NEW a \in Alarms,
           (\E b \in Bodies : Put(c, caller, b, a)) \/ PutState(c, caller, a) \/ Delete(c, caller, a)
    PROVE  Kept
  <1>1. /\ pc[c] = "free" /\ Exists(a)
        /\ pc'[c] \in {"put_actions", "update", "delete"}
        /\ \A d \in Clients : target[d] # a
        /\ target'[c] = a /\ copy'[c] = rows[a]
    BY DEF Put, PutState, Delete, Read, Begin, Goto, Typed, TypeOK
  <1>2. /\ \A d \in Clients \ {c} : /\ pc'[d] = pc[d] /\ target'[d] = target[d]
                                    /\ copy'[d] = copy[d] /\ body'[d] = body[d]
        /\ rows' = rows /\ trusts' = trusts
    BY DEF Put, PutState, Delete, Read, Begin, Goto, Typed, TypeOK, storage, keystone
  <1>3. target[c] = None
    BY <1>1 DEF AllAlone, Alone, OnAlarm
  <1>4. a # None /\ rows[a] \in Row
    BY <1>1, ValuesAssumption, ExistingIsRow DEF Typed
  <1>5. StepOf(c, a)
    BY <1>1, <1>2, <1>3 DEF StepOf
  <1>6. Alone(c)'
    <2>1. \A d \in Clients : target'[d] = a => d = c
      BY <1>1, <1>2
    <2> QED BY <1>1, <1>2, <1>4, <2>1 DEF Alone, OnAlarm, Exists
  <1>7. AllAlone'
    BY <1>5, <1>6, OthersAlone
  <1>8. \A t : \A d \in Clients : RequestHolds(d, t)' <=> RequestHolds(d, t)
    BY <1>1, <1>5, OthersHold DEF RequestHolds
  <1>9. \A t : RowHolds(a, t)' <=> RowHolds(a, t)
    <2>1. PICK y \in Alarms : y = a
      OBVIOUS
    <2>2. \A d \in Clients : target'[d] = a => d = c
      BY <1>1, <1>2
    <2>3. \A t : RowHolds(a, t)' <=>
                     IF pc'[c] = "update" THEN rows[a].trust = t ELSE Exists(a) /\ rows[a].trust = t
      BY <1>1, <1>2, <2>2 DEF RowHolds, Late, Exists
    <2> QED BY <1>1, <2>3, RowAlone
  <1>10. OneHolder'
    <2>1. None \notin Alarms
      BY ValuesAssumption
    <2>2. \A t : \A y \in Alarms : RowHolds(y, t)' <=> RowHolds(y, t)
      BY <1>5, <1>9, <2>1, OthersHold
    <2> QED BY <1>2, <1>8, <2>2, HoldersKept
  <1> QED BY <1>7, <1>10 DEF Kept

\* A new alarm: the trust goes from keystone to the request, and from the
\* request to the row.
LEMMA PostActionsKeeps ==
    ASSUME Typed, AllAlone, OneHolder, ~disturbed', NEW c \in Clients, PostActions(c)
    PROVE  Kept
  <1>1. rows' = rows /\ pc[c] = "actions" /\ target[c] = None
    BY DEF PostActions, storage, AllAlone, Alone, OnAlarm
  <1>2. CASE WithId(body[c].actions) # {}
    <2>1. ~TrustWanted(body[c].actions)
      BY <1>2 DEF PostActions
    <2>2. End(c) /\ trusts' = trusts
      BY <1>2, <2>1 DEF PostActions, keystone
    <2>3. StepOf(c, None) /\ pc'[c] = "free"
      BY <1>1, <2>2 DEF StepOf, End, Goto, Typed, TypeOK
    <2> QED BY <1>1, <2>2, <2>3, QuietKeeps DEF OnAlarm
  <1>3. CASE WithId(body[c].actions) = {}
    <2>1. PICK s \in Trusts \cup {None} :
              /\ copy' = [copy EXCEPT ![c] = [user |-> body[c].user,
                             project |-> body[c].project, trust |-> s]]
              /\ IF s = None THEN trusts' = trusts
                 ELSE s \notin issued /\ trusts' = trusts \cup {s}
      BY <1>3, ValuesAssumption DEF PostActions, CreateTrust, keystone
    <2>2. /\ pc' = [pc EXCEPT ![c] = "insert"]
          /\ UNCHANGED <<body, target>>
      BY <1>3 DEF PostActions, Goto
    <2>3. StepOf(c, None) /\ pc'[c] = "insert" /\ copy'[c].trust = s /\ target'[c] = None
      BY <1>1, <2>1, <2>2 DEF StepOf, Typed, TypeOK
    <2>4. AllAlone'
      <3>1. Alone(c)'
        BY <2>3 DEF Alone, OnAlarm
      <3> QED BY <2>3, <3>1, OthersAlone
    <2>5. None \notin Alarms \cup Trusts
      BY ValuesAssumption
    <2>6. \A t \in Trusts : RequestHolds(c, t)' <=> RequestHolds(c, t) \/ t = s
      BY <1>1, <2>3, <2>5 DEF RequestHolds
    <2>7. \A t \in Trusts :
              /\ \A a \in Alarms : RowHolds(a, t)' <=> RowHolds(a, t)
              /\ \A d \in Clients : RequestHolds(d, t)' <=> RequestHolds(d, t) \/ (d = c /\ t = s)
      BY <2>3, <2>5, <2>6, OthersHold
    <2>8. CASE s = None
      BY <2>1, <2>4, <2>5, <2>7, <2>8, HoldersKept DEF Kept
    <2>9. CASE s # None
      <3>1. s \in Trusts \ trusts
        BY <2>1, <2>9 DEF Typed, TypeOK
      <3> QED BY <2>1, <2>4, <2>7, <2>9, <3>1, RequestGetsTrust DEF Kept
    <2> QED BY <2>8, <2>9
  <1> QED BY <1>2, <1>3

LEMMA InsertHandsOver ==
    ASSUME Typed, AllAlone, OneHolder, NEW c \in Clients, Insert(c)
    PROVE  Kept
  <1>1. PICK a \in Alarms : rows[a] = Unborn /\ rows' = [rows EXCEPT ![a] = copy[c]]
    BY DEF Insert
  <1>2. /\ pc[c] = "insert" /\ End(c) /\ trusts' = trusts
        /\ copy[c] \in Row /\ target[c] = None
    BY DEF Insert, keystone, Typed, LocalsOK, AllAlone, Alone, OnAlarm
  <1>3. a # None /\ ~Exists(a)
    BY <1>1, ValuesAssumption DEF Exists
  <1>4. \A d \in Clients : target[d] # a
    <2> SUFFICES ASSUME NEW d \in Clients, target[d] = a PROVE FALSE
      OBVIOUS
    <2>1. Alone(d) /\ pc[d] \in OnAlarm
      BY <1>3 DEF AllAlone, Alone
    <2>2. Exists(a) \/ rows[a] = Deleted
      BY <2>1 DEF Alone
    <2> QED BY <1>1, <1>3, <2>2, ValuesAssumption
  <1>5. pc'[c] = "free" /\ target'[c] = None /\ StepOf(c, a)
    BY <1>1, <1>2, <1>4 DEF End, Goto, StepOf, Typed, TypeOK
  <1>6. AllAlone'
    <2>1. Alone(c)'
      BY <1>5 DEF Alone, OnAlarm
    <2> QED BY <1>5, <2>1, OthersAlone
  <1>7. \A t : ~RowHolds(a, t)
    BY <1>3, <1>4, RowAlone
  <1>8. \A t : RowHolds(a, t)' <=> RequestHolds(c, t)
    <2>1. \A d \in Clients : target'[d] # a
      BY <1>3, <1>4, <1>5 DEF StepOf
    <2>2. rows'[a] = copy[c] /\ Exists(a)'
      BY <1>1, <1>2, ValuesAssumption DEF Exists, Typed, TypeOK
    <2> QED BY <1>2, <2>1, <2>2 DEF RowHolds, RequestHolds
  <1>9. \A t : ~RequestHolds(c, t)'
    BY <1>5 DEF RequestHolds
  <1>10. None \notin Alarms
    BY ValuesAssumption
  <1>11. \A t \in Trusts :
             /\ \A y \in Alarms : RowHolds(y, t)' <=>
                    IF y = a THEN RequestHolds(c, t) ELSE RowHolds(y, t)
             /\ \A d \in Clients : RequestHolds(d, t)' <=> RequestHolds(d, t) /\ d # c
             /\ ~RowHolds(a, t)
    BY <1>5, <1>7, <1>8, <1>9, <1>10, OthersHold
  <1>12. OneHolder'
    BY <1>2, <1>11, TrustHandedOver
  <1> QED BY <1>6, <1>12 DEF Kept

\* A request that goes on with its alarm.
LEMMA InHand ==
    ASSUME Typed, AllAlone, NEW c \in Clients, pc[c] \in OnAlarm
    PROVE  /\ target[c] \in Alarms /\ target[c] # None
           /\ \A d \in Clients \ {c} : target[d] # target[c]
           /\ copy[c] \in Row /\ copy[c].trust \in Trusts \cup {None}
           /\ pc[c] # "delete_actions" => Exists(target[c])
           /\ pc[c] \in {"put_actions", "delete"} => copy[c] = rows[target[c]]
  <1>1. Alone(c) /\ target[c] \in Alarms \cup {None}
    BY DEF AllAlone, Typed, TypeOK
  <1>2. target[c] # None /\ copy[c] \in Row
    BY <1>1 DEF Alone
  <1>3. copy[c].trust \in Trusts \cup {None}
    BY <1>2 DEF Row
  <1>4. \A d \in Clients \ {c} : target[d] # target[c]
    BY <1>1 DEF Alone
  <1> QED BY <1>1, <1>2, <1>3, <1>4 DEF Alone, OnAlarm

\* What is left to show of a step on alarm x: who holds what of x.
LEMMA OnlyItsAlarm ==
    ASSUME Typed, AllAlone, NEW c \in Clients, NEW x \in Alarms, StepOf(c, x), Alone(c)',
           {pc[c], pc'[c]} \cap {"insert"} = {}
    PROVE  /\ AllAlone'
           /\ \A t : /\ \A a \in Alarms \ {x} : RowHolds(a, t)' <=> RowHolds(a, t)
                     /\ \A d \in Clients : RequestHolds(d, t)' <=> RequestHolds(d, t)
  <1>1. None \notin Alarms
    BY ValuesAssumption
  <1>2. \A t : RequestHolds(c, t)' <=> RequestHolds(c, t)
    BY DEF RequestHolds
  <1> QED BY <1>1, <1>2, OthersAlone, OthersHold

LEMMA PutActionsKeeps ==
    ASSUME Typed, AllAlone, OneHolder, NEW c \in Clients, PutActions(c)
    PROVE  Kept
  <1> DEFINE actions == body[c].actions
             old == copy[c].trust
  <1>1. PICK x \in Alarms : x = target[c]
    BY InHand DEF PutActions, OnAlarm
  <1>2. /\ pc[c] = "put_actions" /\ x # None /\ Exists(x) /\ copy[c] = rows[x]
        /\ \A d \in Clients \ {c} : target[d] # x
        /\ old \in Trusts \cup {None}
    BY <1>1, InHand DEF PutActions, OnAlarm
  <1>3. PICK new \in Trusts \cup {None} :
            /\ copy' = [copy EXCEPT ![c] = [user |-> body[c].user,
                           project |-> body[c].project, trust |-> new]]
            /\ \/ old = None /\ TrustWanted(actions) /\ CreateTrust(new) /\ new # None
               \/ new = None /\ old # None /\ TrustUrls(actions) = {} /\ trusts' = trusts \ {old}
               \/ new = old /\ trusts' = trusts
    <2>1. CASE old = None /\ TrustWanted(actions)
      BY <2>1, ValuesAssumption DEF PutActions, NoLongerUsed
    <2>2. CASE NoLongerUsed(actions, old)
      BY <2>2 DEF PutActions, NoLongerUsed
    <2>3. CASE ~(old = None /\ TrustWanted(actions)) /\ ~NoLongerUsed(actions, old)
      BY <1>2, <2>3 DEF PutActions, NoLongerUsed, keystone
    <2> QED BY <2>1, <2>2, <2>3
  <1>4. pc' = [pc EXCEPT ![c] = IF WithId(actions) = {} THEN "update" ELSE "bad_url"]
    BY DEF PutActions, Goto
  <1>5. rows' = rows /\ body' = body /\ target' = target
    BY DEF PutActions, storage
  <1>6. body[c].user \in Users /\ body[c].project \in Projects
    BY <1>2 DEF Typed, LocalsOK, HasOwner
  <1>7. /\ copy'[c] \in Row /\ copy'[c].trust = new
        /\ pc'[c] = (IF WithId(actions) = {} THEN "update" ELSE "bad_url")
    BY <1>3, <1>4, <1>6 DEF Typed, TypeOK, Row
  <1>8. StepOf(c, x)
    BY <1>1, <1>2, <1>3, <1>4, <1>5 DEF StepOf, Typed, TypeOK
  <1>9. Alone(c)'
    <2>1. pc'[c] = "bad_url" /\ ~TrustWanted(actions) => new = old
      BY <1>3, <1>7 DEF WithId
    <2>2. \A d \in Clients : target'[d] = x => d = c
      BY <1>2, <1>5
    <2> QED BY <1>1, <1>2, <1>5, <1>7, <2>1, <2>2 DEF Alone, OnAlarm, Exists
  <1>10. /\ AllAlone'
         /\ \A t : /\ \A a \in Alarms \ {x} : RowHolds(a, t)' <=> RowHolds(a, t)
                   /\ \A d \in Clients : RequestHolds(d, t)' <=> RequestHolds(d, t)
    BY <1>2, <1>7, <1>8, <1>9, OnlyItsAlarm
  <1>11. \A t : RowHolds(x, t) <=> old = t
    <2>1. pc[c] \notin Late
      BY <1>2 DEF Late
    <2>2. \A t : RowHolds(x, t) <=> Exists(x) /\ rows[x].trust = t
      BY <1>1, <1>2, <2>1, RowInHand
    <2> QED BY <1>2, <2>2
  <1>12. \A t : RowHolds(x, t)' <=> new = t
    <2>1. target'[c] = x /\ pc'[c] \in Late
      BY <1>1, <1>5, <1>7 DEF Late
    <2>2. \A d \in Clients : target'[d] = x => d = c
      BY <1>2, <1>5
    <2> QED BY <1>7, <2>1, <2>2 DEF RowHolds
  <1> HIDE DEF actions, old
  <1>13. None \notin Trusts
    BY ValuesAssumption
  <1>14. CASE old = None /\ CreateTrust(new) /\ new # None
    <2>1. new \in Trusts \ trusts /\ trusts' = trusts \cup {new}
      BY <1>14 DEF CreateTrust, Typed, TypeOK
    <2>2. \A t \in Trusts :
              /\ \A a \in Alarms : RowHolds(a, t)' <=> RowHolds(a, t) \/ (a = x /\ t = new)
              /\ \A d \in Clients : RequestHolds(d, t)' <=> RequestHolds(d, t)
      BY <1>10, <1>11, <1>12, <1>13, <1>14
    <2> QED BY <1>10, <2>1, <2>2, AlarmGetsTrust DEF Kept
  <1>15. CASE new = None /\ trusts' = trusts \ {old}
    <2>1. \A t \in Trusts :
              /\ \A a \in Alarms : RowHolds(a, t)' <=> RowHolds(a, t) /\ a # x
              /\ \A d \in Clients : RequestHolds(d, t)' <=> RequestHolds(d, t)
              /\ RowHolds(x, t) <=> t = old
      BY <1>10, <1>11, <1>12, <1>13, <1>15
    <2> QED BY <1>10, <1>15, <2>1, AlarmLosesTrust DEF Kept
  <1>16. CASE new = old /\ trusts' = trusts
    BY <1>10, <1>11, <1>12, <1>16, HoldersKept DEF Kept
  <1> QED BY <1>3, <1>14, <1>15, <1>16

\* The request is over, and its alarm is left with the trust it has now.
LEMMA EndKeeps ==
    ASSUME Typed, AllAlone, OneHolder, NEW c \in Clients, pc[c] \in OnAlarm, End(c),
           NEW x \in Alarms, x = target[c], \A a \in Alarms \ {x} : rows'[a] = rows[a],
           \/ trusts' = trusts
           \/ trusts' = trusts \ {copy[c].trust} /\ pc[c] = "delete_actions",
           \A t \in Trusts : (Exists(x)' /\ rows'[x].trust = t)
                                <=> (RowHolds(x, t) /\ t \in trusts')
    PROVE  Kept
  <1>1. x # None /\ \A d \in Clients \ {c} : target[d] # x
    BY InHand
  <1>2. pc'[c] = "free" /\ target'[c] = None /\ StepOf(c, x)
    BY <1>1 DEF End, Goto, StepOf, Typed, TypeOK
  <1>3. Alone(c)'
    BY <1>2 DEF Alone, OnAlarm
  <1>4. /\ AllAlone'
        /\ \A t : /\ \A a \in Alarms \ {x} : RowHolds(a, t)' <=> RowHolds(a, t)
                  /\ \A d \in Clients : RequestHolds(d, t)' <=> RequestHolds(d, t)
    BY <1>2, <1>3, OnlyItsAlarm DEF OnAlarm
  <1>5. \A t : RowHolds(x, t)' <=> Exists(x)' /\ rows'[x].trust = t
    <2>1. \A d \in Clients : target'[d] # x
      BY <1>1, <1>2 DEF StepOf
    <2> QED BY <2>1 DEF RowHolds, Exists
  <1>6. \A t \in Trusts : RowHolds(x, t)' <=> RowHolds(x, t) /\ t \in trusts'
    BY <1>5
  <1>7. CASE trusts' = trusts
    <2>1. \A t \in Trusts : RowHolds(x, t) => t \in trusts
      BY DEF OneHolder, HolderOf
    <2> QED BY <1>4, <1>6, <1>7, <2>1, HoldersKept DEF Kept
  <1>8. CASE trusts' = trusts \ {copy[c].trust} /\ pc[c] = "delete_actions"
    <2>1. \A t \in Trusts : RowHolds(x, t) <=> t = copy[c].trust
      BY <1>1, <1>8, RowInHand DEF Late
    <2>2. \A t \in Trusts : ~RowHolds(x, t)'
      BY <1>6, <1>8, <2>1
    <2>3. \A t \in Trusts :
              /\ \A a \in Alarms : RowHolds(a, t)' <=> RowHolds(a, t) /\ a # x
              /\ \A d \in Clients : RequestHolds(d, t)' <=> RequestHolds(d, t)
              /\ RowHolds(x, t) <=> t = copy[c].trust
      BY <1>4, <2>1, <2>2
    <2> QED BY <1>4, <1>8, <2>3, AlarmLosesTrust DEF Kept
  <1> QED BY <1>7, <1>8

LEMMA UpdateTrust ==
    ASSUME Typed, AllAlone, OneHolder, NEW c \in Clients, Update(c)
    PROVE  Kept
  <1>1. PICK x \in Alarms : x = target[c]
    BY InHand DEF Update, OnAlarm
  <1>2. pc[c] = "update" /\ Exists(x) /\ copy[c] \in Row
    BY <1>1, InHand DEF Update, OnAlarm
  <1>3. rows' = [rows EXCEPT ![x] = copy[c]] /\ End(c) /\ trusts' = trusts
    BY <1>1, <1>2 DEF Update, keystone
  <1>4. rows'[x] = copy[c] /\ Exists(x)' /\ \A a \in Alarms \ {x} : rows'[a] = rows[a]
    BY <1>2, <1>3, ValuesAssumption DEF Exists, Typed, TypeOK
  <1>5. \A t \in Trusts : RowHolds(x, t) <=> copy[c].trust = t
    <2>1. pc[c] \in Late /\ target[c] # None
      BY <1>2, InHand DEF Late, OnAlarm
    <2> QED BY <1>1, <2>1, RowInHand
  <1>6. \A t \in Trusts : RowHolds(x, t) => t \in trusts
    BY DEF OneHolder, HolderOf
  <1> QED BY <1>1, <1>2, <1>3, <1>4, <1>5, <1>6, EndKeeps DEF OnAlarm

\* A request that leaves the row as it is, and has not called keystone for it.
LEMMA LeavesRow ==
    ASSUME Typed, AllAlone, OneHolder, NEW c \in Clients, End(c), rows' = rows, trusts' = trusts,
           \/ pc[c] \in {"put_actions", "delete"}
           \/ pc[c] = "bad_url" /\ copy[c].trust = rows[target[c]].trust
    PROVE  Kept
  <1>1. PICK x \in Alarms : x = target[c]
    BY InHand DEF OnAlarm
  <1>2. pc[c] \in OnAlarm /\ target[c] # None /\ Exists(x)
    BY <1>1, InHand DEF OnAlarm
  <1>3. \A t \in Trusts : RowHolds(x, t) <=> rows[x].trust = t
    BY <1>1, <1>2, RowInHand DEF Late
  <1>4. \A t \in Trusts : RowHolds(x, t) => t \in trusts
    BY DEF OneHolder, HolderOf
  <1>5. \A t \in Trusts : (Exists(x)' /\ rows'[x].trust = t) <=> (RowHolds(x, t) /\ t \in trusts')
    BY <1>2, <1>3, <1>4 DEF Exists
  <1> QED BY <1>1, <1>2, <1>5, EndKeeps

LEMMA BadUrlKeeps ==
    ASSUME Typed, AllAlone, OneHolder, ~disturbed', NEW c \in Clients, BadUrl(c)
    PROVE  Kept
  <1>1. pc[c] = "bad_url" /\ copy[c].trust = rows[target[c]].trust
    BY DEF BadUrl, AllAlone, Alone
  <1> QED BY <1>1, LeavesRow DEF BadUrl, storage, keystone

\* The row is gone before its trust is: until then the request has it.
LEMMA DeleteRowKeeps ==
    ASSUME Typed, AllAlone, OneHolder, NEW c \in Clients, DeleteRow(c)
    PROVE  Kept
  <1>1. PICK x \in Alarms : x = target[c]
    BY InHand DEF DeleteRow, OnAlarm
  <1>2. /\ pc[c] = "delete" /\ Exists(x) /\ copy[c] \in Row /\ copy[c] = rows[x] /\ x # None
        /\ \A d \in Clients \ {c} : target[d] # x
    BY <1>1, InHand DEF DeleteRow, OnAlarm
  <1>3. /\ rows' = [rows EXCEPT ![x] = Deleted] /\ trusts' = trusts
        /\ UNCHANGED <<target, copy, body>> /\ pc' = [pc EXCEPT ![c] = "delete_actions"]
    BY <1>1 DEF DeleteRow, Goto, keystone, locals
  <1>4. pc'[c] = "delete_actions" /\ rows'[x] = Deleted
    BY <1>3 DEF Typed, TypeOK
  <1>5. StepOf(c, x)
    BY <1>1, <1>2, <1>3 DEF StepOf, Typed, TypeOK
  <1>6. Alone(c)'
    BY <1>1, <1>2, <1>3, <1>4 DEF Alone, OnAlarm
  <1>7. /\ AllAlone'
        /\ \A t : /\ \A a \in Alarms \ {x} : RowHolds(a, t)' <=> RowHolds(a, t)
                  /\ \A d \in Clients : RequestHolds(d, t)' <=> RequestHolds(d, t)
    BY <1>2, <1>4, <1>5, <1>6, OnlyItsAlarm
  <1>8. \A t : RowHolds(x, t) <=> copy[c].trust = t
    <2>1. pc[c] \notin Late /\ target[c] # None
      BY <1>1, <1>2 DEF Late
    <2> QED BY <1>1, <1>2, <2>1, RowInHand
  <1>9. \A t : RowHolds(x, t)' <=> copy[c].trust = t
    BY <1>1, <1>2, <1>3, <1>4 DEF RowHolds, Late
  <1> QED BY <1>3, <1>7, <1>8, <1>9, HoldersKept DEF Kept

LEMMA DeleteActionsKeeps ==
    ASSUME Typed, AllAlone, OneHolder, NEW c \in Clients, DeleteActions(c)
    PROVE  Kept
  <1>1. PICK x \in Alarms : x = target[c]
    BY InHand DEF DeleteActions, OnAlarm
  <1>2. pc[c] = "delete_actions" /\ target[c] # None
    BY InHand DEF DeleteActions, OnAlarm
  <1>3. rows[x] = Deleted
    BY <1>1, <1>2 DEF AllAlone, Alone
  <1>4. End(c) /\ rows' = rows /\ trusts' = trusts \ {copy[c].trust}
    BY DEF DeleteActions, storage
  <1>5. \A t \in Trusts : RowHolds(x, t) <=> copy[c].trust = t
    BY <1>1, <1>2, RowInHand DEF Late
  <1>6. ~Exists(x)'
    BY <1>3, <1>4 DEF Exists
  <1>7. \A t \in Trusts : (Exists(x)' /\ rows'[x].trust = t) <=> (RowHolds(x, t) /\ t \in trusts')
    BY <1>4, <1>5, <1>6
  <1> QED BY <1>1, <1>2, <1>4, <1>7, EndKeeps DEF OnAlarm

LEMMA FailKeeps ==
    ASSUME Typed, AllAlone, OneHolder, ~disturbed', NEW c \in Clients, Fail(c)
    PROVE  Kept
  <1>1. End(c) /\ rows' = rows /\ trusts' = trusts
    BY DEF Fail, storage, keystone
  <1>2. pc[c] \notin {"insert", "update", "bad_url", "delete_actions"}
    BY DEF Fail
  <1>3. CASE pc[c] \in {"put_actions", "delete"}
    BY <1>1, <1>3, LeavesRow
  <1>4. CASE pc[c] \notin {"put_actions", "delete"}
    <2>1. pc[c] \notin OnAlarm \cup {"insert"}
      BY <1>2, <1>4 DEF OnAlarm
    <2>2. target[c] = None
      BY <2>1 DEF AllAlone, Alone
    <2>3. StepOf(c, None) /\ pc'[c] = "free"
      BY <1>1, <2>2 DEF StepOf, End, Goto, Typed, TypeOK
    <2> QED BY <1>1, <2>1, <2>3, QuietKeeps DEF OnAlarm
  <1> QED BY <1>3, <1>4

\* The requests about quotas, and the checks of POST.
LEMMA QuotaKeeps ==
    ASSUME Typed, AllAlone, OneHolder, NEW c \in Clients,
           \/ \E caller \in Callers : \E b \in Bodies : Post(c, caller, b)
           \/ \E p \in Projects : GetQuotas(c, p)
           \/ ReadQuotas(c) \/ CountProject(c) \/ CountUser(c) \/ Refuse(c) \/ StoreDefault(c)
    PROVE  Kept
  <1>1. rows' = rows /\ trusts' = trusts
    BY DEF Post, GetQuotas, ReadQuotas, CountProject, CountUser, Refuse, StoreDefault, storage, keystone
  <1>2. {pc[c], pc'[c]} \cap (OnAlarm \cup {"insert"}) = {}
    BY DEF Post, GetQuotas, ReadQuotas, CountProject, CountUser, Refuse, StoreDefault,
           Begin, End, Goto, OnAlarm, Typed, TypeOK
  <1>3. target[c] = None
    BY <1>2 DEF AllAlone, Alone
  <1>4. StepOf(c, None)
    BY <1>1, <1>3 DEF Post, GetQuotas, ReadQuotas, CountProject, CountUser, Refuse, StoreDefault,
           Begin, End, Goto, StepOf, Typed, TypeOK, locals
  <1> QED BY <1>1, <1>2, <1>4, QuietKeeps

LEMMA TrustStep == Typed /\ TrustInv /\ [Next]_vars => TrustInv'
  <1> SUFFICES ASSUME Typed, TrustInv, [Next]_vars, ~disturbed' PROVE Kept
    BY DEF TrustInv, Kept
  <1>1. ~disturbed
    <2>1. ASSUME NEW c \in Clients, Request(c) PROVE ~disturbed
      BY <2>1 DEF Request, Post, Put, PutState, Delete, Read, GetQuotas
    <2>2. ASSUME NEW c \in Clients, Serve(c) PROVE ~disturbed
      <3>1. CASE PostActions(c)
        BY <3>1 DEF PostActions
      <3>2. CASE BadUrl(c) \/ Update(c)
        BY <3>2 DEF BadUrl, Update
      <3>3. CASE ~PostActions(c) /\ ~BadUrl(c) /\ ~Update(c)
        BY <2>2, <3>3 DEF Serve, ReadQuotas, CountProject, CountUser, Refuse, Insert, PutActions,
                          DeleteRow, DeleteActions, StoreDefault
      <3> QED BY <3>1, <3>2, <3>3
    <2>3. ASSUME NEW c \in Clients, Fail(c) PROVE ~disturbed
      BY <2>3 DEF Fail
    <2>4. ASSUME NEW p \in Projects, NEW n \in AdminLimits \cup {None}, SetQuotas(p, n)
          PROVE  ~disturbed
      BY <2>4 DEF SetQuotas
    <2>5. CASE UNCHANGED vars
      BY <2>5 DEF vars
    <2> QED BY <2>1, <2>2, <2>3, <2>4, <2>5 DEF Next
  <1>2. AllAlone /\ OneHolder
    BY <1>1 DEF TrustInv
  <1>3. ASSUME UNCHANGED <<rows, trusts, pc, locals>> PROVE Kept
    BY <1>2, <1>3 DEF Kept, AllAlone, Alone, Exists, OneHolder, HolderOf, RowHolds, RequestHolds,
                      locals
  <1>4. ASSUME NEW p \in Projects, NEW n \in AdminLimits \cup {None}, SetQuotas(p, n) PROVE Kept
    BY <1>3, <1>4 DEF SetQuotas, keystone
  <1>5. CASE UNCHANGED vars
    BY <1>3, <1>5 DEF vars, storage, keystone
  <1>6. ASSUME NEW c \in Clients, Request(c) PROVE Kept
    BY <1>2, <1>6, QuotaKeeps, ReadKeeps DEF Request
  <1>7. ASSUME NEW c \in Clients, Serve(c) PROVE Kept
    BY <1>2, <1>7, QuotaKeeps, PostActionsKeeps, InsertHandsOver, PutActionsKeeps, BadUrlKeeps,
       UpdateTrust, DeleteRowKeeps, DeleteActionsKeeps DEF Serve
  <1> QED BY <1>2, <1>4, <1>5, <1>6, <1>7, FailKeeps DEF Next

LEMMA TrustInit == Init => TrustInv
  <1> SUFFICES ASSUME Init PROVE AllAlone /\ OneHolder
    BY DEF TrustInv
  <1>1. AllAlone
    BY DEF Init, AllAlone, Alone, OnAlarm
  <1>2. \A t : /\ \A a \in Alarms : ~RowHolds(a, t)
               /\ \A c \in Clients : ~RequestHolds(c, t)
    BY ValuesAssumption DEF Init, RowHolds, RequestHolds, Exists, Late
  <1>3. trusts = {}
    BY DEF Init
  <1> QED BY <1>1, <1>2, <1>3 DEF OneHolder, HolderOf

\* For any number of requests: as long as none fails halfway or meets another
\* on its alarm, keystone has the trusts of the alarms and no other.
THEOREM NoTrustLeaks == Spec => []TrustsMatchRows
  <1>1. Typed /\ TrustInv => TrustsMatchRows
    <2> SUFFICES ASSUME Typed, TrustInv, ~disturbed, \A c \in Clients : pc[c] = "free"
                 PROVE  trusts = {rows[a].trust : a \in {b \in Alarms : Exists(b)}} \ {None}
      BY DEF TrustsMatchRows
    <2>1. AllAlone /\ OneHolder
      BY DEF TrustInv
    <2>2. \A c \in Clients : target[c] = None
      BY <2>1 DEF AllAlone, Alone, OnAlarm
    <2>3. None \notin Alarms \cup Trusts
      BY ValuesAssumption
    <2>4. \A a \in Alarms, t \in Trusts : RowHolds(a, t) <=> Exists(a) /\ rows[a].trust = t
      BY <2>2, <2>3, RowAlone
    <2>5. \A c \in Clients, t \in Trusts : ~RequestHolds(c, t)
      BY DEF RequestHolds
    <2>6. \A t \in Trusts : t \in trusts <=> \E a \in Alarms : Exists(a) /\ rows[a].trust = t
      BY <2>1, <2>4, <2>5 DEF OneHolder, HolderOf
    <2>7. trusts \subseteq Trusts
      BY DEF Typed, TypeOK
    <2>8. \A a \in Alarms : Exists(a) => rows[a].trust \in Trusts \cup {None}
      BY ExistingIsRow DEF Typed, Row
    <2> QED BY <2>3, <2>6, <2>7, <2>8
  <1> QED BY <1>1, InitTyped, StepTyped, TrustInit, TrustStep, PTL DEF Spec

================================================================================
