-------------------------- MODULE AlarmNotifierProofs --------------------------
(***************************************************************************)
(* Proofs about module AlarmNotifier, for any notifications and actions,   *)
(* any number of notifiers, and any batch size.                            *)
(*                                                                         *)
(* Neither invariant is inductive as it stands.  That what is acknowledged *)
(* is done needs that whatever is behind the place of a notifier is        *)
(* (Behind).  That a call is repeated only after a crash needs that a      *)
(* message is in one place (OnePlace) and counts the calls that are still  *)
(* to come (Counted).                                                      *)
(***************************************************************************)
EXTENDS AlarmNotifier, SequenceTheorems, TLAPS

CallPlaces == UNION {CallsOfAction(t[1], t[2]) : t \in Actions}
Place == (Nat \ {0}) \X (Nat \ {0}) \X (Nat \ {0})

\* Where a notifier can be in its batch.
Places ==
    /\ queue \in Seq(Notifications)
    /\ batch \in [Notifiers -> Seq(Notifications)]
    /\ at \in [Notifiers -> Place]
    /\ pc \in [Notifiers -> {"listening", "dispatching", "stopping", "gone"}]
    /\ \A n \in Notifiers :
           pc[n] \in {"listening", "gone"} => batch[n] = <<>> /\ at[n] = <<1, 1, 1>>
    /\ calls \in [CallPlaces -> Nat]
    /\ acked \subseteq Notifications

DoneWith(m, a) ==
    <<m, a>> \in failed \/ \A c \in CallsOfAction(m, a) : calls[c] > 0

\* What is behind place p of batch b is done.
BehindAt(b, p) ==
    /\ \A i \in DOMAIN b : i < p[1] =>
           \A a \in DOMAIN ActionsOf[b[i]] : DoneWith(b[i], a)
    /\ p[1] \in DOMAIN b =>
           \A a \in DOMAIN ActionsOf[b[p[1]]] :
               /\ a < p[2] => DoneWith(b[p[1]], a)
               /\ a = p[2] => \A k \in DOMAIN CallsOf(ActionsOf[b[p[1]]][a]) :
                                  k < p[3] => calls[<<b[p[1]], a, k>>] > 0

Behind == \A n \in Notifiers : BehindAt(batch[n], at[n])

DoneInv == Places /\ Behind /\ AcknowledgedMeansDone

CallNames == {"token", "post", "subscription", "queue.post", "resources.list",
              "mark_unhealthy", "stacks.update"}

LEMMA CallsAreSequence ==
    ASSUME NEW action
    PROVE  CallsOf(action) \in Seq(CallNames)
  <1>1. HeatCalls(action) \in Seq(CallNames)
    <2> DEFINE listed == <<"token", "resources.list">>
               marked == <<"mark_unhealthy", "stacks.update">>
    <2>1. listed \in Seq(CallNames) /\ marked \in Seq(CallNames) /\ <<>> \in Seq(CallNames)
      BY DEF CallNames
    <2>2. HeatCalls(action) \in {<<>>, listed \o <<>>, listed \o marked}
      BY DEF HeatCalls
    <2> HIDE DEF listed, marked
    <2> QED BY <2>1, <2>2, ConcatProperties
  <1>2. CallsOf(action) \in {RestCalls, ZaqarCalls, Trusted(RestCalls),
                            Trusted(<<"queue.post">>), HeatCalls(action), <<>>}
    BY DEF CallsOf
  <1>3. /\ RestCalls \in Seq(CallNames) /\ ZaqarCalls \in Seq(CallNames)
        /\ <<"queue.post">> \in Seq(CallNames) /\ <<"token">> \in Seq(CallNames)
        /\ <<>> \in Seq(CallNames)
    BY DEF CallNames, RestCalls, ZaqarCalls
  <1>4. Trusted(RestCalls) \in Seq(CallNames) /\ Trusted(<<"queue.post">>) \in Seq(CallNames)
    BY <1>3, ConcatProperties DEF Trusted
  <1> QED BY <1>1, <1>2, <1>3, <1>4

LEMMA ActionsAreSequence ==
    ASSUME NEW m \in Notifications
    PROVE  DOMAIN ActionsOf[m] = 1 .. Len(ActionsOf[m]) /\ Len(ActionsOf[m]) \in Nat
  BY NotificationsAssumption

\* Each call of an action has a place in the table of calls.
LEMMA CallIsCounted ==
    ASSUME NEW m \in Notifications, NEW a \in DOMAIN ActionsOf[m], NEW c \in CallsOfAction(m, a)
    PROVE  c \in CallPlaces
  <1>1. <<m, a>> \in Actions
    BY DEF Actions
  <1> QED BY <1>1 DEF CallPlaces

--------------------------------------------------------------------------------
(* What is done stays done. *)

NothingUndone ==
    /\ failed \subseteq failed'
    /\ calls' \in [CallPlaces -> Nat]
    /\ \A c \in CallPlaces : calls'[c] >= calls[c]

LEMMA DoneKept ==
    ASSUME DoneInv, NothingUndone, NEW m \in Notifications, NEW a \in DOMAIN ActionsOf[m],
           DoneWith(m, a)
    PROVE  DoneWith(m, a)'
  <1>1. \A c \in CallsOfAction(m, a) : calls[c] \in Nat /\ calls'[c] \in Nat /\ calls'[c] >= calls[c]
    BY CallIsCounted DEF NothingUndone, DoneInv, Places
  <1> QED BY <1>1 DEF DoneWith, NothingUndone

LEMMA BehindKept ==
    ASSUME DoneInv, NothingUndone, NEW b \in Seq(Notifications), NEW p, BehindAt(b, p)
    PROVE  BehindAt(b, p)'
  <1>1. \A i \in DOMAIN b : b[i] \in Notifications
    OBVIOUS
  <1>2. \A i \in DOMAIN b : i < p[1] => \A a \in DOMAIN ActionsOf[b[i]] : DoneWith(b[i], a)'
    BY <1>1, DoneKept DEF BehindAt
  <1>3. p[1] \in DOMAIN b =>
            \A a \in DOMAIN ActionsOf[b[p[1]]] : a < p[2] => DoneWith(b[p[1]], a)'
    BY <1>1, DoneKept DEF BehindAt
  <1>4. ASSUME p[1] \in DOMAIN b, NEW a \in DOMAIN ActionsOf[b[p[1]]], a = p[2],
               NEW k \in DOMAIN CallsOf(ActionsOf[b[p[1]]][a]), k < p[3]
        PROVE  calls'[<<b[p[1]], a, k>>] > 0
    <2>1. PICK c \in CallsOfAction(b[p[1]], a) : c = <<b[p[1]], a, k>>
      BY DEF CallsOfAction
    <2>2. calls[c] > 0
      BY <1>4, <2>1 DEF BehindAt
    <2>3. c \in CallPlaces
      BY <1>1, <1>4, <2>1, CallIsCounted
    <2>4. calls[c] \in Nat /\ calls'[c] \in Nat /\ calls'[c] >= calls[c]
      BY <2>3 DEF NothingUndone, DoneInv, Places
    <2> QED BY <2>1, <2>2, <2>4
  <1> QED BY <1>2, <1>3, <1>4 DEF BehindAt

\* A step of one notifier that undoes nothing: only its own place matters.
LEMMA OneMoves ==
    ASSUME DoneInv, NothingUndone, Places', acked' = acked, NEW n \in Notifiers,
           BehindAt(batch[n], at[n])',
           \A o \in Notifiers \ {n} : batch'[o] = batch[o] /\ at'[o] = at[o]
    PROVE  DoneInv'
  <1>1. Behind'
    <2> SUFFICES ASSUME NEW o \in Notifiers \ {n} PROVE BehindAt(batch[o], at[o])'
      BY DEF Behind
    <2>1. PICK b \in Seq(Notifications), p \in Place :
              b = batch[o] /\ p = at[o]
      BY DEF DoneInv, Places
    <2>2. BehindAt(b, p)'
      BY <2>1, BehindKept DEF DoneInv, Behind
    <2>3. batch'[o] = b /\ at'[o] = p
      BY <2>1
    <2> QED BY <2>2, <2>3 DEF BehindAt, DoneWith
  <1>2. AcknowledgedMeansDone'
    <2> SUFFICES ASSUME NEW m \in acked, NEW a \in DOMAIN ActionsOf[m]
                 PROVE  DoneWith(m, a)'
      BY DEF AcknowledgedMeansDone, DoneWith
    <2>1. m \in Notifications /\ DoneWith(m, a)
      BY DEF DoneInv, Places, AcknowledgedMeansDone, DoneWith
    <2> QED BY <2>1, DoneKept
  <1> QED BY <1>1, <1>2 DEF DoneInv

\* A place at the start of a batch has nothing behind it.
LEMMA StartIsClean ==
    ASSUME NEW b \in Seq(Notifications)
    PROVE  BehindAt(b, <<1, 1, 1>>)'
  <1>1. /\ \A i \in DOMAIN b : ~(i < 1)
        /\ \A m \in Notifications : \A a \in DOMAIN ActionsOf[m] :
               ~(a < 1) /\ \A k \in DOMAIN CallsOf(ActionsOf[m][a]) : ~(k < 1)
    BY ActionsAreSequence, CallsAreSequence
  <1>2. \A i \in DOMAIN b : b[i] \in Notifications
    OBVIOUS
  <1> QED BY <1>1, <1>2 DEF BehindAt

--------------------------------------------------------------------------------
(* The dispatching of a batch. *)

LEMMA WhereItIs ==
    ASSUME DoneInv, NEW n \in Notifiers
    PROVE  \E b \in Seq(Notifications), i, j, k \in Nat \ {0} :
               b = batch[n] /\ at[n] = <<i, j, k>> /\ BehindAt(b, <<i, j, k>>)
  <1>1. batch[n] \in Seq(Notifications) /\ at[n] \in Place
    BY DEF DoneInv, Places
  <1>2. BehindAt(batch[n], at[n])
    BY DEF DoneInv, Behind
  <1>3. /\ at[n] = <<at[n][1], at[n][2], at[n][3]>>
        /\ at[n][1] \in Nat \ {0} /\ at[n][2] \in Nat \ {0} /\ at[n][3] \in Nat \ {0}
    BY <1>1 DEF Place
  <1> QED BY <1>1, <1>2, <1>3

\* A failed call gives up its action, and only that.
LEMMA DispatchUndoesNothing ==
    ASSUME DoneInv, NEW n \in Notifiers,
           Call(n) \/ CallFails(n) \/ EndAction(n) \/ EndMessage(n)
    PROVE  /\ NothingUndone
           /\ acked' = acked /\ batch' = batch /\ queue' = queue /\ pc' = pc
           /\ \A o \in Notifiers \ {n} : at'[o] = at[o]
  <1>1. calls' = calls \/ \E c : calls' = [calls EXCEPT ![c] = @ + 1]
    BY DEF Call, CallFails, EndAction, EndMessage, outcome
  <1>2. failed \subseteq failed' /\ acked' = acked /\ batch' = batch /\ queue' = queue /\ pc' = pc
    BY DEF Call, CallFails, EndAction, EndMessage, outcome
  <1>3. \A o \in Notifiers \ {n} : at'[o] = at[o]
    BY DEF Call, CallFails, EndAction, EndMessage, AfterFailure, NextCall, NextAction, NextMessage,
           DoneInv, Places
  <1>4. /\ calls' \in [CallPlaces -> Nat]
        /\ \A c \in CallPlaces : calls'[c] >= calls[c]
    <2>1. calls \in [CallPlaces -> Nat]
      BY DEF DoneInv, Places
    <2> QED BY <1>1, <2>1
  <1> QED BY <1>2, <1>3, <1>4 DEF NothingUndone

LEMMA DispatchDone ==
    ASSUME DoneInv, NEW n \in Notifiers,
           Call(n) \/ CallFails(n) \/ EndAction(n) \/ EndMessage(n)
    PROVE  DoneInv'
  <1>1. PICK b \in Seq(Notifications), i \in Nat \ {0}, j \in Nat \ {0}, k \in Nat \ {0} :
            b = batch[n] /\ at[n] = <<i, j, k>> /\ BehindAt(b, <<i, j, k>>)
    BY WhereItIs
  <1>2. InBatch(n) /\ i \in DOMAIN b /\ b[i] \in Notifications /\ Message(n) = b[i]
    BY <1>1 DEF Call, CallFails, EndAction, EndMessage, InAction, InMessage, InBatch, Message
  <1>3. /\ NothingUndone
        /\ acked' = acked /\ batch' = batch /\ queue' = queue /\ pc' = pc
        /\ \A o \in Notifiers \ {n} : at'[o] = at[o]
    BY DispatchUndoesNothing
  <1>4. BehindAt(b, <<i, j, k>>)'
    BY <1>1, <1>3, BehindKept
  <1> DEFINE m == b[i]
  <1>5. InMessage(n) <=> j \in DOMAIN ActionsOf[m]
    BY <1>1, <1>2, ActionsAreSequence DEF InMessage, InBatch
  <1>6. InAction(n) <=> j \in DOMAIN ActionsOf[m] /\ k \in DOMAIN CallsOf(ActionsOf[m][j])
    BY <1>1, <1>2, <1>5, CallsAreSequence, LenProperties DEF InAction
  <1>11. <<i, j, k + 1>> \in Place /\ <<i, j + 1, 1>> \in Place /\ <<i + 1, 1, 1>> \in Place
    BY DEF Place
  <1>7. ASSUME NEW p \in Place,
               at' = [at EXCEPT ![n] = p], BehindAt(b, p)'
        PROVE  DoneInv'
    <2>1. Places'
      <3>1. pc[n] \notin {"listening", "gone"}
        BY <1>1, <1>2 DEF DoneInv, Places
      <3> QED BY <1>3, <1>7, <3>1 DEF DoneInv, Places, NothingUndone
    <2>2. BehindAt(batch[n], at[n])'
      <3>1. batch'[n] = b /\ at'[n] = p
        BY <1>1, <1>3, <1>7 DEF DoneInv, Places
      <3> QED BY <1>7, <3>1 DEF BehindAt, DoneWith
    <2> QED BY <1>3, <2>1, <2>2, OneMoves
  <1>8. CASE Call(n)
    <2>1. at' = [at EXCEPT ![n] = <<i, j, k + 1>>]
      BY <1>1, <1>8 DEF Call, NextCall, DoneInv, Places
    <2>2. calls'[<<m, j, k>>] > 0
      <3>1. <<m, j, k>> \in CallsOfAction(m, j) /\ j \in DOMAIN ActionsOf[m]
        BY <1>6, <1>8 DEF Call, CallsOfAction
      <3>2. <<m, j, k>> \in CallPlaces
        BY <1>2, <3>1, CallIsCounted
      <3>3. calls' = [calls EXCEPT ![<<m, j, k>>] = @ + 1]
        BY <1>1, <1>2, <1>8 DEF Call
      <3> QED BY <3>2, <3>3 DEF DoneInv, Places
    <2>3. BehindAt(b, <<i, j, k + 1>>)'
      <3>1. \A l \in DOMAIN CallsOf(ActionsOf[m][j]) : l < k + 1 => l < k \/ l = k
        BY CallsAreSequence, LenProperties
      <3> QED BY <1>4, <2>2, <3>1 DEF BehindAt
    <2> QED BY <1>11, <1>7, <2>1, <2>3
  <1>9. CASE CallFails(n) \/ EndAction(n)
    <2>1. at' = [at EXCEPT ![n] = <<i, j + 1, 1>>]
      BY <1>1, <1>9 DEF CallFails, EndAction, AfterFailure, NextAction, DoneInv, Places
    <2>2. j \in DOMAIN ActionsOf[m]
      BY <1>5, <1>6, <1>9 DEF CallFails, EndAction
    <2>3. DoneWith(m, j)'
      <3>1. CASE CallFails(n)
        BY <1>1, <1>2, <3>1 DEF CallFails, DoneWith
      <3>2. CASE EndAction(n)
        <4>1. \A l \in DOMAIN CallsOf(ActionsOf[m][j]) : l < k
          BY <1>6, <2>2, <3>2, CallsAreSequence, LenProperties DEF EndAction
        <4>2. \A l \in DOMAIN CallsOf(ActionsOf[m][j]) : calls'[<<m, j, l>>] > 0
          BY <1>2, <1>4, <2>2, <4>1 DEF BehindAt
        <4> QED BY <4>2 DEF DoneWith, CallsOfAction
      <3> QED BY <1>9, <3>1, <3>2
    <2>4. BehindAt(b, <<i, j + 1, 1>>)'
      <3>1. \A a \in DOMAIN ActionsOf[m] :
                /\ a < j + 1 => a < j \/ a = j
                /\ \A l \in DOMAIN CallsOf(ActionsOf[m][a]) : ~(l < 1)
        BY <1>2, ActionsAreSequence, CallsAreSequence, LenProperties
      <3> QED BY <1>4, <2>3, <3>1 DEF BehindAt
    <2> QED BY <1>11, <1>7, <2>1, <2>4
  <1>10. CASE EndMessage(n)
    <2>1. at' = [at EXCEPT ![n] = <<i + 1, 1, 1>>]
      BY <1>1, <1>10 DEF EndMessage, NextMessage, DoneInv, Places
    <2>2. \A a \in DOMAIN ActionsOf[m] : DoneWith(m, a)'
      <3>1. \A a \in DOMAIN ActionsOf[m] : a < j
        BY <1>2, <1>5, <1>10, ActionsAreSequence DEF EndMessage
      <3> QED BY <1>2, <1>4, <3>1 DEF BehindAt
    <2>3. BehindAt(b, <<i + 1, 1, 1>>)'
      <3>1. \A l \in DOMAIN b : l < i + 1 => l < i \/ l = i
        BY LenProperties
      <3>2. \A l \in DOMAIN b : \A a \in DOMAIN ActionsOf[b[l]] :
                ~(a < 1) /\ \A c \in DOMAIN CallsOf(ActionsOf[b[l]][a]) : ~(c < 1)
        BY ActionsAreSequence, CallsAreSequence, LenProperties
      <3> QED BY <1>4, <2>2, <3>1, <3>2 DEF BehindAt
    <2> QED BY <1>11, <1>7, <2>1, <2>3
  <1> QED BY <1>8, <1>9, <1>10

--------------------------------------------------------------------------------
(* The other steps. *)

LEMMA OutcomeKept ==
    ASSUME DoneInv, outcome' = outcome
    PROVE  NothingUndone
  <1>1. calls' = calls /\ failed' = failed
    BY DEF outcome
  <1>2. calls \in [CallPlaces -> Nat]
    BY DEF DoneInv, Places
  <1> QED BY <1>1, <1>2 DEF NothingUndone

\* The notifier gets another batch, or none, and has done nothing of it.
LEMMA StartsOver ==
    ASSUME DoneInv, outcome' = outcome, acked' = acked, Places', NEW n \in Notifiers,
           at'[n] = <<1, 1, 1>>,
           \A o \in Notifiers \ {n} : batch'[o] = batch[o] /\ at'[o] = at[o]
    PROVE  DoneInv'
  <1>1. PICK b \in Seq(Notifications) : b = batch'[n]
    BY DEF Places
  <1>2. BehindAt(b, <<1, 1, 1>>)'
    BY StartIsClean
  <1>3. BehindAt(batch[n], at[n])'
    BY <1>1, <1>2 DEF BehindAt, DoneWith
  <1> QED BY <1>3, OutcomeKept, OneMoves

LEMMA ReceiveDone ==
    ASSUME DoneInv, NEW n \in Notifiers, Receive(n)
    PROVE  DoneInv'
  <1> DEFINE size == IF Len(queue) < BatchSize THEN Len(queue) ELSE BatchSize
  <1>1. queue \in Seq(Notifications) /\ Len(queue) \in Nat /\ size \in 0 .. Len(queue)
    BY BoundsAssumption DEF DoneInv, Places
  <1>2. /\ SubSeq(queue, 1, size) \in Seq(Notifications)
        /\ SubSeq(queue, size + 1, Len(queue)) \in Seq(Notifications)
    BY <1>1, SubSeqProperties
  <1>3. /\ batch' = [batch EXCEPT ![n] = SubSeq(queue, 1, size)]
        /\ queue' = SubSeq(queue, size + 1, Len(queue))
        /\ pc' = [pc EXCEPT ![n] = "dispatching"] /\ pc[n] = "listening"
        /\ at' = at /\ outcome' = outcome /\ acked' = acked
    BY DEF Receive
  <1> HIDE DEF size
  <1>4. Places'
    BY <1>2, <1>3 DEF DoneInv, Places, outcome
  <1>5. at'[n] = <<1, 1, 1>>
    BY <1>3 DEF DoneInv, Places
  <1> QED BY <1>3, <1>4, <1>5, StartsOver DEF DoneInv, Places

\* The end of the batch is behind the notifier: all of it is done.
LEMMA AcknowledgeDone ==
    ASSUME DoneInv, NEW n \in Notifiers, Acknowledge(n)
    PROVE  DoneInv'
  <1>1. PICK b \in Seq(Notifications), i \in Nat \ {0}, j \in Nat \ {0}, k \in Nat \ {0} :
            b = batch[n] /\ at[n] = <<i, j, k>> /\ BehindAt(b, <<i, j, k>>)
    BY WhereItIs
  <1>2. \A l \in DOMAIN b : l < i
    BY <1>1, LenProperties DEF Acknowledge, InBatch
  <1>3. \A m \in ToSet(b) : m \in Notifications /\ \A a \in DOMAIN ActionsOf[m] : DoneWith(m, a)
    <2> SUFFICES ASSUME NEW l \in DOMAIN b
                 PROVE  /\ b[l] \in Notifications
                        /\ \A a \in DOMAIN ActionsOf[b[l]] : DoneWith(b[l], a)
      BY DEF ToSet
    <2>1. b[l] \in Notifications
      OBVIOUS
    <2>2. PICK p \in Place : p = <<i, j, k>>
      BY DEF Place
    <2>3. BehindAt(b, p) /\ l < p[1]
      BY <1>1, <1>2, <2>2
    <2>4. \A a \in DOMAIN ActionsOf[b[l]] : DoneWith(b[l], a)
      BY <2>3 DEF BehindAt
    <2> QED BY <2>1, <2>4
  <1>4. /\ acked' = acked \cup ToSet(b) /\ outcome' = outcome
        /\ batch' = [batch EXCEPT ![n] = <<>>] /\ at' = [at EXCEPT ![n] = <<1, 1, 1>>]
        /\ pc' = [pc EXCEPT ![n] = IF @ = "stopping" THEN "gone" ELSE "listening"]
        /\ queue' = queue
    BY <1>1 DEF Acknowledge
  <1>5. <<1, 1, 1>> \in Place /\ <<>> \in Seq(Notifications)
    BY DEF Place
  <1>6. Places'
    BY <1>3, <1>4, <1>5 DEF DoneInv, Places, outcome
  <1>7. AcknowledgedMeansDone'
    BY <1>3, <1>4 DEF AcknowledgedMeansDone, DoneInv, DoneWith, outcome
  <1>8. Behind'
    <2>1. BehindAt(batch[n], at[n])'
      <3>1. batch'[n] = <<>> /\ at'[n] = <<1, 1, 1>>
        BY <1>4 DEF DoneInv, Places
      <3>2. BehindAt(<<>>, <<1, 1, 1>>)'
        BY <1>5, StartIsClean
      <3> QED BY <3>1, <3>2 DEF BehindAt, DoneWith
    <2>2. ASSUME NEW o \in Notifiers \ {n} PROVE BehindAt(batch[o], at[o])'
      BY <1>4 DEF DoneInv, Places, Behind, BehindAt, DoneWith, outcome
    <2> QED BY <2>1, <2>2 DEF Behind
  <1> QED BY <1>6, <1>7, <1>8 DEF DoneInv

LEMMA CrashDone ==
    ASSUME DoneInv, NEW n \in Notifiers, Crash(n)
    PROVE  DoneInv'
  <1>1. batch[n] \o queue \in Seq(Notifications)
    BY ConcatProperties DEF DoneInv, Places
  <1>2. <<1, 1, 1>> \in Place /\ <<>> \in Seq(Notifications)
    BY DEF Place
  <1>3. Places'
    BY <1>1, <1>2 DEF Crash, Die, DoneInv, Places, outcome
  <1> QED BY <1>3, StartsOver DEF Crash, DoneInv, Places

LEMMA DoneStep == DoneInv /\ [Next]_vars => DoneInv'
  <1> SUFFICES ASSUME DoneInv, [Next]_vars PROVE DoneInv'
    OBVIOUS
  <1>1. ASSUME UNCHANGED <<batch, at, outcome, acked>>, Places' PROVE DoneInv'
    BY <1>1 DEF DoneInv, Behind, BehindAt, DoneWith, AcknowledgedMeansDone, outcome
  <1>2. ASSUME NEW m \in Notifications, Notify(m) PROVE DoneInv'
    <2>1. queue' \in Seq(Notifications)
      BY <1>2, AppendProperties DEF Notify, DoneInv, Places
    <2> QED BY <1>1, <1>2, <2>1 DEF Notify, DoneInv, Places, outcome
  <1>3. ASSUME NEW n \in Notifiers, Terminate(n) \/ Respawn(n) PROVE DoneInv'
    BY <1>1, <1>3 DEF Terminate, Respawn, Die, DoneInv, Places, outcome
  <1>4. CASE UNCHANGED vars
    BY <1>1, <1>4 DEF vars, DoneInv, Places, outcome
  <1> QED BY <1>2, <1>3, <1>4, ReceiveDone, DispatchDone, AcknowledgeDone, CrashDone
          DEF Next, Dispatch

LEMMA DoneInit == Init => DoneInv
  <1> SUFFICES ASSUME Init PROVE DoneInv
    OBVIOUS
  <1>1. <<1, 1, 1>> \in Place /\ <<>> \in Seq(Notifications)
    BY DEF Place
  <1>2. Places
    BY <1>1 DEF Init, Places, CallPlaces
  <1>3. Behind
    BY DEF Init, Behind, BehindAt
  <1> QED BY <1>2, <1>3 DEF Init, DoneInv, AcknowledgedMeansDone

\* The broker never forgets a notification of which an action was neither
\* carried out nor tried, whatever fails and whoever dies.
THEOREM AcknowledgedIsDone == Spec => []AcknowledgedMeansDone
  <1>1. DoneInv => AcknowledgedMeansDone
    BY DEF DoneInv
  <1> QED BY <1>1, DoneInit, DoneStep, PTL DEF Spec

--------------------------------------------------------------------------------
(* A notification is at one place. *)

SameOnce(s) == \A i, j \in DOMAIN s : s[i] = s[j] => i = j

\* Whatever was published and is not acknowledged is in the queue or with one
\* notifier, and there only once.
OnePlace ==
    /\ published \subseteq Notifications /\ acked \subseteq published
    /\ lost \in [Notifications -> Nat]
    /\ SameOnce(queue)
    /\ ToSet(queue) \subseteq published \ acked
    /\ \A n \in Notifiers :
           /\ SameOnce(batch[n])
           /\ ToSet(batch[n]) \subseteq published \ (acked \cup ToSet(queue))
           /\ \A o \in Notifiers \ {n} : ToSet(batch[n]) \cap ToSet(batch[o]) = {}

LEMMA PartsHoldOnce ==
    ASSUME NEW s \in Seq(Notifications), NEW size \in 0 .. Len(s), SameOnce(s)
    PROVE  LET head == SubSeq(s, 1, size)
               rest == SubSeq(s, size + 1, Len(s))
           IN  /\ SameOnce(head) /\ SameOnce(rest)
               /\ ToSet(head) \subseteq ToSet(s) /\ ToSet(rest) \subseteq ToSet(s)
               /\ ToSet(head) \cap ToSet(rest) = {}
  <1> DEFINE head == SubSeq(s, 1, size)
             rest == SubSeq(s, size + 1, Len(s))
  <1>1. Len(s) \in Nat /\ size \in Nat /\ size <= Len(s) /\ DOMAIN s = 1 .. Len(s)
    BY LenProperties
  <1>2. /\ DOMAIN head = 1 .. size
        /\ \A i \in 1 .. size : head[i] = s[i] /\ i \in DOMAIN s
    BY <1>1
  <1>3. /\ DOMAIN rest = 1 .. (Len(s) - size)
        /\ \A i \in 1 .. (Len(s) - size) : rest[i] = s[i + size] /\ i + size \in DOMAIN s
    BY <1>1
  <1> HIDE DEF head, rest
  <1>4. SameOnce(head) /\ ToSet(head) \subseteq ToSet(s)
    BY <1>2 DEF SameOnce, ToSet
  <1>5. ToSet(rest) \subseteq ToSet(s)
    BY <1>3 DEF ToSet
  <1>6. SameOnce(rest)
    <2> SUFFICES ASSUME NEW i \in DOMAIN rest, NEW j \in DOMAIN rest, rest[i] = rest[j]
                 PROVE  i = j
      BY DEF SameOnce
    <2>1. i + size = j + size
      BY <1>3 DEF SameOnce
    <2> QED BY <1>1, <1>3, <2>1
  <1>7. ToSet(head) \cap ToSet(rest) = {}
    <2> SUFFICES ASSUME NEW i \in DOMAIN head, NEW j \in DOMAIN rest, head[i] = rest[j]
                 PROVE  FALSE
      BY DEF ToSet
    <2>1. i = j + size
      BY <1>2, <1>3 DEF SameOnce
    <2> QED BY <1>1, <1>2, <1>3, <2>1
  <1> QED BY <1>4, <1>5, <1>6, <1>7 DEF head, rest

LEMMA JoinHoldsOnce ==
    ASSUME NEW s \in Seq(Notifications), NEW t \in Seq(Notifications)
    PROVE  /\ ToSet(s \o t) = ToSet(s) \cup ToSet(t)
           /\ SameOnce(s) /\ SameOnce(t) /\ ToSet(s) \cap ToSet(t) = {} => SameOnce(s \o t)
  <1>1. /\ Len(s) \in Nat /\ Len(t) \in Nat
        /\ DOMAIN s = 1 .. Len(s) /\ DOMAIN t = 1 .. Len(t)
    BY LenProperties
  <1>2. PICK u : u = s \o t
    OBVIOUS
  <1>3. /\ DOMAIN u = 1 .. (Len(s) + Len(t))
        /\ \A i \in DOMAIN u : u[i] = IF i <= Len(s) THEN s[i] ELSE t[i - Len(s)]
    BY <1>2, ConcatProperties, LenProperties
  <1>4. \A i \in DOMAIN u : \/ i \in DOMAIN s /\ u[i] = s[i]
                            \/ i - Len(s) \in DOMAIN t /\ u[i] = t[i - Len(s)]
    BY <1>1, <1>3
  <1>5. /\ \A i \in DOMAIN s : i \in DOMAIN u /\ u[i] = s[i]
        /\ \A i \in DOMAIN t : i + Len(s) \in DOMAIN u /\ u[i + Len(s)] = t[i]
    BY <1>1, <1>3
  <1>6. ToSet(u) = ToSet(s) \cup ToSet(t)
    <2>1. ASSUME NEW x \in ToSet(u) PROVE x \in ToSet(s) \cup ToSet(t)
      BY <1>4 DEF ToSet
    <2>2. ASSUME NEW x \in ToSet(s) \cup ToSet(t) PROVE x \in ToSet(u)
      BY <1>5 DEF ToSet
    <2> QED BY <2>1, <2>2
  <1>7. ASSUME SameOnce(s), SameOnce(t), ToSet(s) \cap ToSet(t) = {},
               NEW i \in DOMAIN u, NEW j \in DOMAIN u, u[i] = u[j]
        PROVE  i = j
    <2>1. i \in Int /\ j \in Int /\ Len(s) \in Int
      BY <1>1, <1>3
    <2>2. ASSUME NEW x \in DOMAIN s, NEW y \in DOMAIN t PROVE s[x] # t[y]
      BY <1>7 DEF ToSet
    <2>3. CASE i \in DOMAIN s /\ u[i] = s[i]
      <3>1. j \in DOMAIN s /\ u[j] = s[j]
        BY <1>4, <1>7, <2>2, <2>3
      <3> QED BY <1>7, <2>3, <3>1 DEF SameOnce
    <2>4. CASE i - Len(s) \in DOMAIN t /\ u[i] = t[i - Len(s)]
      <3>1. j - Len(s) \in DOMAIN t /\ u[j] = t[j - Len(s)]
        BY <1>4, <1>7, <2>2, <2>4
      <3>2. i - Len(s) = j - Len(s)
        BY <1>7, <2>4, <3>1 DEF SameOnce
      <3> QED BY <2>1, <3>2
    <2> QED BY <1>4, <2>3, <2>4
  <1> QED BY <1>2, <1>6, <1>7 DEF SameOnce

LEMMA OnePlaceInit == Init => OnePlace
  BY DEF Init, OnePlace, SameOnce, ToSet

LEMMA OnePlaceStep == Places /\ OnePlace /\ [Next]_vars => OnePlace'
  <1> SUFFICES ASSUME Places, OnePlace, [Next]_vars PROVE OnePlace'
    OBVIOUS
  <1>1. ASSUME UNCHANGED <<published, lost, queue, batch, acked>> PROVE OnePlace'
    BY <1>1 DEF OnePlace, SameOnce
  <1>2. ASSUME NEW m \in Notifications, Notify(m) PROVE OnePlace'
    <2>1. queue \in Seq(Notifications) /\ <<m>> \in Seq(Notifications)
      BY DEF Places
    <2>2. Append(queue, m) = queue \o <<m>>
      BY <2>1, AppendIsConcat
    <2>3. SameOnce(<<m>>) /\ ToSet(<<m>>) = {m}
      BY DEF SameOnce, ToSet
    <2>4. m \notin ToSet(queue)
      BY <1>2 DEF Notify, OnePlace
    <2>5. SameOnce(queue') /\ ToSet(queue') \subseteq ToSet(queue) \cup {m}
      <3>1. SameOnce(queue) /\ ToSet(queue) \cap ToSet(<<m>>) = {}
        BY <2>3, <2>4 DEF OnePlace
      <3>2. /\ SameOnce(queue \o <<m>>)
            /\ ToSet(queue \o <<m>>) = ToSet(queue) \cup {m}
        BY <2>1, <2>3, <3>1, JoinHoldsOnce
      <3>3. queue' \in {queue, queue \o <<m>>}
        BY <1>2, <2>2 DEF Notify
      <3> QED BY <3>1, <3>2, <3>3
    <2> QED BY <1>2, <2>4, <2>5 DEF Notify, OnePlace
  <1>3. ASSUME NEW n \in Notifiers, Receive(n) PROVE OnePlace'
    <2> DEFINE size == IF Len(queue) < BatchSize THEN Len(queue) ELSE BatchSize
               head == SubSeq(queue, 1, size)
               rest == SubSeq(queue, size + 1, Len(queue))
    <2>1. queue \in Seq(Notifications) /\ size \in 0 .. Len(queue)
      BY BoundsAssumption, LenProperties DEF Places
    <2>2. /\ SameOnce(head) /\ SameOnce(rest)
          /\ ToSet(head) \subseteq ToSet(queue) /\ ToSet(rest) \subseteq ToSet(queue)
          /\ ToSet(head) \cap ToSet(rest) = {}
      <3>1. SameOnce(queue)
        BY DEF OnePlace
      <3> HIDE DEF size
      <3> QED BY <2>1, <3>1, PartsHoldOnce
    <2>3. /\ batch' = [batch EXCEPT ![n] = head] /\ queue' = rest
          /\ UNCHANGED <<published, lost, acked>>
      BY <1>3 DEF Receive
    <2> HIDE DEF head, rest
    <2>4. /\ batch'[n] = head /\ \A o \in Notifiers \ {n} : batch'[o] = batch[o]
      BY <2>3 DEF Places
    <2> QED BY <2>2, <2>3, <2>4 DEF OnePlace
  <1>4. ASSUME NEW n \in Notifiers, Call(n) \/ CallFails(n) \/ EndAction(n) \/ EndMessage(n)
        PROVE  OnePlace'
    BY <1>1, <1>4 DEF Call, CallFails, EndAction, EndMessage
  <1>5. ASSUME NEW n \in Notifiers, Acknowledge(n) PROVE OnePlace'
    <2>1. batch'[n] = <<>> /\ \A o \in Notifiers \ {n} : batch'[o] = batch[o]
      BY <1>5 DEF Acknowledge, Places
    <2>2. SameOnce(<<>>) /\ ToSet(<<>>) = {}
      BY DEF SameOnce, ToSet
    <2>3. acked' = acked \cup ToSet(batch[n]) /\ UNCHANGED <<published, lost, queue>>
      BY <1>5 DEF Acknowledge
    <2> QED BY <2>1, <2>2, <2>3 DEF OnePlace
  <1>6. ASSUME NEW n \in Notifiers, Crash(n) PROVE OnePlace'
    <2>1. batch'[n] = <<>> /\ \A o \in Notifiers \ {n} : batch'[o] = batch[o]
      BY <1>6 DEF Crash, Places
    <2>2. SameOnce(<<>>) /\ ToSet(<<>>) = {}
      BY DEF SameOnce, ToSet
    <2>3. /\ ToSet(queue') = ToSet(batch[n]) \cup ToSet(queue)
          /\ SameOnce(queue')
      <3>1. batch[n] \in Seq(Notifications) /\ queue \in Seq(Notifications)
        BY DEF Places
      <3> QED BY <1>6, <3>1, JoinHoldsOnce DEF Crash, OnePlace
    <2>4. UNCHANGED <<published, acked>> /\ lost' \in [Notifications -> Nat]
      BY <1>6 DEF Crash, OnePlace
    <2> QED BY <2>1, <2>2, <2>3, <2>4 DEF OnePlace
  <1>7. ASSUME NEW n \in Notifiers, Terminate(n) \/ Respawn(n) PROVE OnePlace'
    BY <1>1, <1>7 DEF Terminate, Respawn
  <1>8. CASE UNCHANGED vars
    BY <1>1, <1>8 DEF vars
  <1> QED BY <1>2, <1>3, <1>4, <1>5, <1>6, <1>7, <1>8 DEF Next, Dispatch

--------------------------------------------------------------------------------
(* A call is made again only after a crash. *)

\* Place p of a batch is not past call k of action a of message i.
Ahead(p, i, a, k) == p[1] < i \/ (p[1] = i /\ (p[2] < a \/ (p[2] = a /\ p[3] <= k)))

\* The call is still to be made, for the first time or once more.
ToCome(m, a, k) ==
    \/ m \notin published
    \/ m \in ToSet(queue)
    \/ \E n \in Notifiers : \E i \in DOMAIN batch[n] :
           batch[n][i] = m /\ Ahead(at[n], i, a, k)

\* A crash pays for each repetition, those to come included.
Counted(m, a, k) ==
    /\ calls[<<m, a, k>>] <= 1 + lost[m]
    /\ ToCome(m, a, k) => calls[<<m, a, k>>] <= lost[m]

AllCounted ==
    \A m \in Notifications : \A a \in DOMAIN ActionsOf[m] :
        \A k \in DOMAIN CallsOf(ActionsOf[m][a]) : Counted(m, a, k)

CountInv == OnePlace /\ AllCounted

LEMMA CallNumbers ==
    ASSUME Places, OnePlace, NEW m \in Notifications, NEW a \in DOMAIN ActionsOf[m],
           NEW k \in DOMAIN CallsOf(ActionsOf[m][a])
    PROVE  /\ a \in Nat /\ k \in Nat
           /\ <<m, a, k>> \in CallPlaces
           /\ calls[<<m, a, k>>] \in Nat /\ lost[m] \in Nat
  <1>1. a \in Nat /\ k \in Nat
    BY ActionsAreSequence, CallsAreSequence, LenProperties
  <1>2. <<m, a, k>> \in CallsOfAction(m, a)
    BY DEF CallsOfAction
  <1>3. <<m, a, k>> \in CallPlaces
    BY <1>2, CallIsCounted
  <1> QED BY <1>1, <1>3 DEF Places, OnePlace

\* A step that makes no call, and puts off none that was already made.
LEMMA NothingRepeated ==
    ASSUME AllCounted, calls' = calls, lost' = lost,
           \A m \in Notifications : \A a \in DOMAIN ActionsOf[m] :
               \A k \in DOMAIN CallsOf(ActionsOf[m][a]) : ToCome(m, a, k)' => ToCome(m, a, k)
    PROVE  AllCounted'
  BY DEF AllCounted, Counted

\* A notifier only goes forward in its batch.
LEMMA OnlyForward ==
    ASSUME Places, OnePlace, NEW n \in Notifiers,
           CallFails(n) \/ EndAction(n) \/ EndMessage(n) \/ Call(n),
           NEW m \in Notifications, NEW a \in DOMAIN ActionsOf[m],
           NEW k \in DOMAIN CallsOf(ActionsOf[m][a]), ToCome(m, a, k)'
    PROVE  ToCome(m, a, k)
  <1>1. UNCHANGED <<published, queue, batch>>
    BY DEF CallFails, EndAction, EndMessage, Call
  <1>2. \A o \in Notifiers \ {n} : at'[o] = at[o]
    BY DEF Call, CallFails, EndAction, EndMessage, AfterFailure, NextCall, NextAction, NextMessage,
           Places
  <1>3. a \in Nat /\ k \in Nat
    BY CallNumbers
  <1>4. ASSUME NEW i \in DOMAIN batch[n], Ahead(at'[n], i, a, k) PROVE Ahead(at[n], i, a, k)
    <2>1. i \in Nat
      BY LenProperties DEF Places
    <2>2. at[n] \in Place
      BY DEF Places
    <2>3. at[n][1] \in Nat /\ at[n][2] \in Nat /\ at[n][3] \in Nat
      BY <2>2 DEF Place
    <2>4. at'[n] \in {<<at[n][1], at[n][2], at[n][3] + 1>>, <<at[n][1], at[n][2] + 1, 1>>,
                      <<at[n][1] + 1, 1, 1>>}
      BY DEF Call, CallFails, EndAction, EndMessage, AfterFailure, NextCall, NextAction, NextMessage,
             Places
    <2> QED BY <1>3, <1>4, <2>1, <2>3, <2>4 DEF Ahead
  <1> QED BY <1>1, <1>2, <1>4 DEF ToCome

\* After the call that is made, it is not to come any more: no other notifier
\* has the message, and it is not in the batch a second time.
LEMMA CallCounted ==
    ASSUME Places, CountInv, NEW n \in Notifiers, Call(n)
    PROVE  AllCounted'
  <1>1. PICK i \in Nat \ {0}, j \in Nat \ {0}, l \in Nat \ {0} : at[n] = <<i, j, l>>
    <2>1. at[n] \in Place
      BY DEF Places
    <2> QED BY <2>1 DEF Place
  <1>2. PICK m \in Notifications : m = batch[n][i] /\ i \in DOMAIN batch[n]
    <2>1. batch[n] \in Seq(Notifications) /\ i <= Len(batch[n])
      BY <1>1 DEF Places, Call, InAction, InMessage, InBatch
    <2> QED BY <1>1, <2>1, LenProperties
  <1>3. j \in DOMAIN ActionsOf[m] /\ l \in DOMAIN CallsOf(ActionsOf[m][j])
    BY <1>1, <1>2, ActionsAreSequence, CallsAreSequence, LenProperties
    DEF Call, InAction, InMessage, InBatch, Message
  <1>4. /\ calls' = [calls EXCEPT ![<<m, j, l>>] = @ + 1]
        /\ at' = [at EXCEPT ![n] = <<i, j, l + 1>>]
        /\ UNCHANGED <<published, queue, batch, lost>>
    BY <1>1, <1>2 DEF Call, NextCall, Message, Places
  <1>5. ToCome(m, j, l)
    BY <1>1, <1>2 DEF ToCome, Ahead
  <1>6. ~ToCome(m, j, l)'
    <2>1. m \in ToSet(batch[n])
      BY <1>2 DEF ToSet
    <2>2. m \in published /\ m \notin ToSet(queue)
      BY <2>1 DEF CountInv, OnePlace
    <2>3. ASSUME NEW o \in Notifiers, NEW x \in DOMAIN batch[o], batch[o][x] = m
          PROVE  o = n /\ x = i
      <3>1. m \in ToSet(batch[o])
        BY <2>3 DEF ToSet
      <3>2. o = n
        BY <2>1, <3>1 DEF CountInv, OnePlace
      <3> QED BY <1>2, <2>3, <3>2 DEF CountInv, OnePlace, SameOnce
    <2>4. at'[n] = <<i, j, l + 1>>
      BY <1>4 DEF Places
    <2>5. ~Ahead(<<i, j, l + 1>>, i, j, l)
      BY <1>1 DEF Ahead
    <2> QED BY <1>4, <2>2, <2>3, <2>4, <2>5 DEF ToCome
  <1> SUFFICES ASSUME NEW q \in Notifications, NEW a \in DOMAIN ActionsOf[q],
                      NEW k \in DOMAIN CallsOf(ActionsOf[q][a])
               PROVE  Counted(q, a, k)'
    BY DEF AllCounted
  <1>7. Counted(q, a, k) /\ <<q, a, k>> \in CallPlaces
    BY CallNumbers DEF AllCounted, CountInv
  <1>8. CASE <<q, a, k>> = <<m, j, l>>
    <2>1. calls[<<m, j, l>>] \in Nat /\ lost[m] \in Nat
      BY <1>3, CallNumbers DEF CountInv
    <2>2. calls[<<m, j, l>>] <= lost[m]
      BY <1>5, <1>7, <1>8 DEF Counted
    <2>3. calls'[<<m, j, l>>] = calls[<<m, j, l>>] + 1
      BY <1>4, <1>7, <1>8 DEF Places
    <2> QED BY <1>4, <1>6, <1>8, <2>1, <2>2, <2>3 DEF Counted
  <1>9. CASE <<q, a, k>> # <<m, j, l>>
    <2>1. calls'[<<q, a, k>>] = calls[<<q, a, k>>]
      BY <1>4, <1>7, <1>9 DEF Places
    <2>2. ToCome(q, a, k)' => ToCome(q, a, k)
      BY OnlyForward DEF CountInv
    <2> QED BY <1>4, <1>7, <2>1, <2>2 DEF Counted
  <1> QED BY <1>8, <1>9

LEMMA CountStep == Places /\ CountInv /\ [Next]_vars => CountInv'
  <1> SUFFICES ASSUME Places, CountInv, [Next]_vars PROVE AllCounted'
    BY OnePlaceStep DEF CountInv
  <1>1. ASSUME UNCHANGED <<published, queue, batch, at, calls, lost>> PROVE AllCounted'
    BY <1>1 DEF CountInv, AllCounted, Counted, ToCome
  <1>2. ASSUME NEW m \in Notifications, Notify(m) PROVE AllCounted'
    <2>1. queue \in Seq(Notifications)
      BY DEF Places
    <2>2. ToSet(queue') \subseteq ToSet(queue) \cup {m}
      <3>1. Append(queue, m) = queue \o <<m>> /\ <<m>> \in Seq(Notifications)
        BY <2>1, AppendIsConcat
      <3>2. ToSet(<<m>>) = {m}
        BY DEF ToSet
      <3> QED BY <1>2, <2>1, <3>1, <3>2, JoinHoldsOnce DEF Notify
    <2>3. ASSUME NEW q, NEW a, NEW k, ToCome(q, a, k)' PROVE ToCome(q, a, k)
      BY <1>2, <2>2, <2>3 DEF Notify, ToCome
    <2> QED BY <1>2, <2>3, NothingRepeated DEF Notify, CountInv, outcome
  <1>3. ASSUME NEW n \in Notifiers, Receive(n) PROVE AllCounted'
    <2> DEFINE size == IF Len(queue) < BatchSize THEN Len(queue) ELSE BatchSize
               head == SubSeq(queue, 1, size)
               rest == SubSeq(queue, size + 1, Len(queue))
    <2>1. queue \in Seq(Notifications) /\ size \in 0 .. Len(queue)
      BY BoundsAssumption, LenProperties DEF Places
    <2>2. ToSet(head) \subseteq ToSet(queue) /\ ToSet(rest) \subseteq ToSet(queue)
      <3>1. SameOnce(queue)
        BY DEF CountInv, OnePlace
      <3> HIDE DEF size
      <3> QED BY <2>1, <3>1, PartsHoldOnce
    <2>3. batch' = [batch EXCEPT ![n] = head] /\ queue' = rest
      BY <1>3 DEF Receive
    <2>4. UNCHANGED <<published, at, calls, lost>>
      BY <1>3 DEF Receive, outcome
    <2> HIDE DEF head, rest
    <2>5. batch'[n] = head /\ \A o \in Notifiers \ {n} : batch'[o] = batch[o]
      BY <2>3 DEF Places
    <2>6. \A i \in DOMAIN head : head[i] \in ToSet(queue)
      BY <2>2 DEF ToSet
    <2>7. ASSUME NEW q, NEW a, NEW k, ToCome(q, a, k)' PROVE ToCome(q, a, k)
      BY <2>2, <2>3, <2>4, <2>5, <2>6, <2>7 DEF ToCome
    <2> QED BY <2>4, <2>7, NothingRepeated DEF CountInv
  <1>4. ASSUME NEW n \in Notifiers, CallFails(n) \/ EndAction(n) \/ EndMessage(n)
        PROVE  AllCounted'
    <2>1. calls' = calls /\ lost' = lost
      BY <1>4 DEF CallFails, EndAction, EndMessage, outcome
    <2> QED BY <1>4, <2>1, OnlyForward, NothingRepeated DEF CountInv
  <1>5. ASSUME NEW n \in Notifiers, Acknowledge(n) PROVE AllCounted'
    <2>1. batch'[n] = <<>> /\ \A o \in Notifiers \ {n} : batch'[o] = batch[o] /\ at'[o] = at[o]
      BY <1>5 DEF Acknowledge, Places
    <2>2. UNCHANGED <<published, queue, calls, lost>>
      BY <1>5 DEF Acknowledge, outcome
    <2>3. ASSUME NEW q, NEW a, NEW k, ToCome(q, a, k)' PROVE ToCome(q, a, k)
      BY <2>1, <2>2, <2>3 DEF ToCome
    <2> QED BY <2>2, <2>3, NothingRepeated DEF CountInv
  <1>6. ASSUME NEW n \in Notifiers, Crash(n) PROVE AllCounted'
    <2>1. batch'[n] = <<>> /\ \A o \in Notifiers \ {n} : batch'[o] = batch[o] /\ at'[o] = at[o]
      BY <1>6 DEF Crash, Places
    <2>2. ToSet(queue') = ToSet(batch[n]) \cup ToSet(queue)
      <3>1. batch[n] \in Seq(Notifications) /\ queue \in Seq(Notifications)
        BY DEF Places
      <3> QED BY <1>6, <3>1, JoinHoldsOnce DEF Crash
    <2>3. UNCHANGED <<published, calls>>
      BY <1>6 DEF Crash, outcome
    <2> SUFFICES ASSUME NEW q \in Notifications, NEW a \in DOMAIN ActionsOf[q],
                        NEW k \in DOMAIN CallsOf(ActionsOf[q][a])
                 PROVE  Counted(q, a, k)'
      BY DEF AllCounted
    <2>4. /\ Counted(q, a, k)
          /\ calls[<<q, a, k>>] \in Nat /\ lost[q] \in Nat
      BY CallNumbers DEF AllCounted, CountInv
    <2>5. CASE q \in ToSet(batch[n])
      <3>1. lost'[q] = lost[q] + 1
        BY <1>6, <2>5 DEF Crash
      <3> QED BY <2>3, <2>4, <3>1 DEF Counted
    <2>6. CASE q \notin ToSet(batch[n])
      <3>1. lost'[q] = lost[q]
        BY <1>6, <2>6 DEF Crash
      <3>2. ToCome(q, a, k)' => ToCome(q, a, k)
        BY <2>1, <2>2, <2>3, <2>6 DEF ToCome
      <3> QED BY <2>3, <2>4, <3>1, <3>2 DEF Counted
    <2> QED BY <2>5, <2>6
  <1>7. ASSUME NEW n \in Notifiers, Terminate(n) \/ Respawn(n) PROVE AllCounted'
    BY <1>1, <1>7 DEF Terminate, Respawn, outcome
  <1>8. CASE UNCHANGED vars
    BY <1>1, <1>8 DEF vars, outcome
  <1> QED BY <1>2, <1>3, <1>4, <1>5, <1>6, <1>7, <1>8, CallCounted DEF Next, Dispatch

LEMMA CountInit == Init => CountInv
  <1> SUFFICES ASSUME Init PROVE AllCounted
    BY OnePlaceInit DEF CountInv
  <1>1. ASSUME NEW m \in Notifications, NEW a \in DOMAIN ActionsOf[m],
               NEW k \in DOMAIN CallsOf(ActionsOf[m][a])
        PROVE  calls[<<m, a, k>>] = 0 /\ lost[m] = 0
    <2>1. <<m, a, k>> \in CallPlaces
      BY DoneInit, OnePlaceInit, CallNumbers DEF DoneInv
    <2> QED BY <2>1 DEF Init, CallPlaces
  <1>2. ASSUME NEW m \in Notifications, NEW a \in DOMAIN ActionsOf[m],
               NEW k \in DOMAIN CallsOf(ActionsOf[m][a])
        PROVE  Counted(m, a, k)
    BY <1>1 DEF Counted
  <1> QED BY <1>2 DEF AllCounted

\* No receiver is called twice for a notification unless a process died with
\* it, whatever fails and however the batches fall.
THEOREM RepetitionNeedsCrash == Spec => []RepeatedOnlyAfterCrash
  <1>1. CountInv => RepeatedOnlyAfterCrash
    BY DEF CountInv, AllCounted, Counted, RepeatedOnlyAfterCrash, CallsOfAction
  <1>2. DoneInv => Places
    BY DEF DoneInv
  <1> QED BY <1>1, <1>2, DoneInit, DoneStep, CountInit, CountStep, PTL DEF Spec

================================================================================
