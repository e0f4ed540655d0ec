---------------------------- MODULE EventAlarmsProofs ----------------------------
(***************************************************************************)
(* Proofs about EventAlarms, for every number of listeners, threads,       *)
(* projects, alarms, requests and faults.                                  *)
(***************************************************************************)
EXTENDS EventAlarms, FiniteSetTheorems, TLAPS

LEMMA EmptyDictType == EmptyDict \in [Alarms -> Row \cup {None}]
BY DEF EmptyDict

LEMMA CopyType ==
    ASSUME Shapes, NEW d \in Dicts, NEW a \in Alarms, heap[d][a] # None
    PROVE  heap[d][a] \in Row
BY DEF Shapes

\* The row of an alarm that is there.
LEMMA RowThere ==
    ASSUME Shapes, NEW a \in Alarms, Exists(a)
    PROVE  db[a] \in Row
BY DEF Shapes, Exists

\* A thread that fires an alarm holds a copy of it.
LEMMA InHand ==
    ASSUME TypeOK, NEW t \in Threads, pc[t] \in Firing
    PROVE  /\ dict[t] \in Dicts
           /\ cur[t] \in Alarms
           /\ project[t] \in Projects
           /\ Copy(t) \in Row
<1>1. dict[t] \in Dicts /\ cur[t] \in Alarms /\ heap[dict[t]][cur[t]] # None
  BY DEF TypeOK, Shapes, Locals
<1>2. project[t] \in Projects
  BY DEF TypeOK, Shapes, Locals, Firing
<1>3. QED
  BY <1>1, <1>2, CopyType DEF TypeOK, Copy

\* A thread that has an event knows its project.
LEMMA HasProject ==
    ASSUME TypeOK, NEW t \in Threads, pc[t] # "idle"
    PROVE  /\ project[t] \in Projects
           /\ Owner[t] \in Processes
           /\ Place(t) \in Processes \X Projects
           /\ Cached(t) \in Dicts \cup {None}
<1>1. project[t] \in Projects
  BY DEF TypeOK, Shapes, Locals
<1>2. Owner[t] \in Processes
  BY EventAssumption
<1>3. QED
  BY <1>1, <1>2 DEF Place, Cached, TypeOK, Shapes

\* Collecting dicts keeps those that are in use as they are.
LEMMA CollectedType ==
    ASSUME Shapes, NEW cached, NEW held
    PROVE  /\ Collected(cached, held) \in [Dicts -> [Alarms -> Row \cup {None}]]
           /\ \A d \in Dicts : \/ Collected(cached, held)[d] = heap[d]
                               \/ Collected(cached, held)[d] = EmptyDict
           /\ \A d \in Dicts : Used(d, cached, held) =>
                  Collected(cached, held)[d] = heap[d]
BY EmptyDictType DEF Collected, Shapes

--------------------------------------------------------------------------------
LEMMA TypeInit == Init => TypeOK
<1> SUFFICES ASSUME Init PROVE TypeOK
  OBVIOUS
<1>1. Shapes
  <2>1. heap \in [Dicts -> [Alarms -> Row \cup {None}]]
    BY EmptyDictType DEF Init
  <2>2. repeating \subseteq Alarms
    BY EventAssumption DEF Init
  <2>3. QED
    BY <2>1, <2>2 DEF Init, Shapes, Places
<1>2. Locals
  BY DEF Init, Locals, Firing
<1>3. OneProjectPerDict
  BY DEF Init, OneProjectPerDict
<1>4. QED
  BY <1>1, <1>2, <1>3 DEF TypeOK

\* The end of an event, whichever way.
LEMMA TypeEndEvent ==
    ASSUME TypeOK, NEW t \in Threads, EndEvent(t), faults' \in Nat,
           UNCHANGED <<db, repeating, caches, old, sent, armed, requests>>
    PROVE  TypeOK'
<1>0. heap' = Collected(caches, dict')
  BY DEF EndEvent
<1>1. Shapes'
  <2>1. heap' \in [Dicts -> [Alarms -> Row \cup {None}]]
    BY <1>0, CollectedType DEF TypeOK
  <2>2. QED
    BY <2>1 DEF TypeOK, Shapes, EndEvent, Goto, Places
<1>2. \A u \in Threads : dict'[u] # None =>
          dict'[u] \in Dicts /\ heap'[dict'[u]] = heap[dict[u]] /\ dict'[u] = dict[u]
  <2>1. \A u \in Threads : dict'[u] # None => dict'[u] = dict[u] /\ dict'[u] \in Dicts
    BY DEF TypeOK, Shapes, EndEvent
  <2>2. \A u \in Threads : dict'[u] # None => Used(dict'[u], caches, dict')
    BY DEF Used
  <2>3. QED
    BY <1>0, <2>1, <2>2, CollectedType DEF TypeOK
<1>3. Locals'
  <2> SUFFICES ASSUME NEW u \in Threads
               PROVE  /\ project'[u] = None <=> pc'[u] = "idle"
                      /\ dict'[u] # None <=> pc'[u] \in {"fill", "next"} \cup Firing
                      /\ cur'[u] # None <=> pc'[u] \in Firing
                      /\ pc'[u] \in Firing => heap'[dict'[u]][cur'[u]] # None
                      /\ \A a \in todo'[u] : dict'[u] # None /\ heap'[dict'[u]][a] # None
    BY DEF Locals
  <2>1. CASE u = t
    BY <2>1 DEF TypeOK, Shapes, EndEvent, Goto, Firing
  <2>2. CASE u # t
    <3>1. /\ project'[u] = project[u] /\ pc'[u] = pc[u] /\ dict'[u] = dict[u]
          /\ cur'[u] = cur[u] /\ todo'[u] = todo[u]
      BY <2>2 DEF TypeOK, Shapes, EndEvent, Goto
    <3>2. QED
      BY <3>1, <1>2 DEF TypeOK, Locals
  <2>3. QED
    BY <2>1, <2>2
<1>4. OneProjectPerDict'
  <2>1. \A u \in Threads : dict'[u] # None => project'[u] = project[u]
    BY DEF TypeOK, Shapes, EndEvent
  <2>2. \A p \in Processes, j \in Projects :
            caches[p][j] # None =>
                caches[p][j] \in Dicts /\ Used(caches[p][j], caches, dict')
    BY DEF TypeOK, Shapes, Used
  <2>3. \A p \in Processes, j \in Projects :
            caches[p][j] # None => heap'[caches[p][j]] = heap[caches[p][j]]
    BY <1>0, <2>2, CollectedType DEF TypeOK
  <2>4. QED
    BY <1>2, <2>1, <2>3 DEF TypeOK, OneProjectPerDict
<1>5. QED
  BY <1>1, <1>3, <1>4 DEF TypeOK

\* A thread goes to another place and takes everything with it.
LEMMA TypeMove ==
    ASSUME TypeOK, NEW t \in Threads, NEW place \in Places, Goto(t, place),
           pc[t] # "idle", place # "idle",
           pc[t] \in {"fill", "next"} \cup Firing <=> place \in {"fill", "next"} \cup Firing,
           pc[t] \in Firing <=> place \in Firing,
           db' \in [Alarms -> Row \cup {Absent}],
           sent' \in [Processes -> [Alarms -> Nat]],
           faults' \in Nat,
           UNCHANGED <<repeating, caches, old, heap, event, loop, armed, requests>>
    PROVE  TypeOK'
<1>1. /\ pc' \in [Threads -> Places]
      /\ pc'[t] = place
      /\ \A u \in Threads : u # t => pc'[u] = pc[u]
  BY DEF TypeOK, Shapes, Goto
<1>2. Shapes'
  BY <1>1 DEF TypeOK, Shapes, event, loop
<1>3. Locals'
  <2>1. \A u \in Threads :
            /\ pc'[u] = "idle" <=> pc[u] = "idle"
            /\ pc'[u] \in {"fill", "next"} \cup Firing
                   <=> pc[u] \in {"fill", "next"} \cup Firing
            /\ pc'[u] \in Firing <=> pc[u] \in Firing
    BY <1>1
  <2>2. QED
    BY <2>1 DEF TypeOK, Locals, event, loop
<1>4. OneProjectPerDict'
  BY DEF TypeOK, OneProjectPerDict, event, loop
<1>5. QED
  BY <1>2, <1>3, <1>4 DEF TypeOK

\* Copies change, but no dict gains or loses one.
LEMMA TypeSameCopies ==
    ASSUME TypeOK,
           heap' \in [Dicts -> [Alarms -> Row \cup {None}]],
           \A d \in Dicts, a \in Alarms : heap'[d][a] = None <=> heap[d][a] = None,
           NEW t \in Threads, NEW place \in Places, Goto(t, place),
           pc[t] \in Firing, place \in Firing \cup {"next"},
           cur' = IF place = "next" THEN [cur EXCEPT ![t] = None] ELSE cur,
           UNCHANGED <<db, repeating, caches, old, event, dict, todo, sent, armed, requests, faults>>
    PROVE  TypeOK'
<1>1. /\ pc' \in [Threads -> Places]
      /\ pc'[t] = place
      /\ \A u \in Threads : u # t => pc'[u] = pc[u]
  BY DEF TypeOK, Shapes, Goto
<1>2. /\ cur' \in [Threads -> Alarms \cup {None}]
      /\ \A u \in Threads : u # t => cur'[u] = cur[u]
      /\ cur'[t] # None <=> place \in Firing
      /\ \A u \in Threads : cur'[u] # None => cur'[u] = cur[u]
  BY InHand, EventAssumption DEF TypeOK, Shapes, Firing
<1>3. Shapes'
  BY <1>1, <1>2 DEF TypeOK, Shapes, event
<1>4. Locals'
  <2>1. \A u \in Threads : dict[u] # None => dict[u] \in Dicts
    BY DEF TypeOK, Shapes
  <2>2. \A u \in Threads : cur[u] # None => cur[u] \in Alarms
    BY DEF TypeOK, Shapes
  <2>3. \A u \in Threads : todo[u] \subseteq Alarms
    BY DEF TypeOK, Shapes
  <2> SUFFICES ASSUME NEW u \in Threads
               PROVE  /\ project'[u] = None <=> pc'[u] = "idle"
                      /\ dict'[u] # None <=> pc'[u] \in {"fill", "next"} \cup Firing
                      /\ cur'[u] # None <=> pc'[u] \in Firing
                      /\ pc'[u] \in Firing => heap'[dict'[u]][cur'[u]] # None
                      /\ \A a \in todo'[u] : dict'[u] # None /\ heap'[dict'[u]][a] # None
    BY DEF Locals
  <2>4. /\ project'[u] = project[u] /\ dict'[u] = dict[u] /\ todo'[u] = todo[u]
    BY DEF event
  <2>5. CASE u = t
    BY <1>1, <1>2, <2>1, <2>2, <2>3, <2>4, <2>5 DEF TypeOK, Locals, Firing
  <2>6. CASE u # t
    BY <1>1, <1>2, <2>1, <2>2, <2>3, <2>4, <2>6 DEF TypeOK, Locals
  <2>7. QED
    BY <2>5, <2>6
<1>5. OneProjectPerDict'
  <2>1. \A u \in Threads : dict[u] # None => dict[u] \in Dicts
    BY DEF TypeOK, Shapes
  <2>2. \A p \in Processes, j \in Projects : caches[p][j] # None => caches[p][j] \in Dicts
    BY DEF TypeOK, Shapes
  <2>3. QED
    BY <2>1, <2>2 DEF TypeOK, OneProjectPerDict, event
<1>6. QED
  BY <1>3, <1>4, <1>5 DEF TypeOK

LEMMA TypeReceive ==
    ASSUME TypeOK, NEW t \in Threads, NEW e \in Events, Receive(t, e)
    PROVE  TypeOK'
<1>1. PICK M \in SUBSET Alarms, j \in Projects :
          matches' = [matches EXCEPT ![t] = M] /\ project' = [project EXCEPT ![t] = j]
  BY DEF Receive
<1>2. Shapes'
  BY <1>1 DEF TypeOK, Shapes, Receive, Goto, Places, loop
<1>3. Locals'
  BY <1>1, EventAssumption DEF TypeOK, Shapes, Locals, Receive, Goto, Firing, loop
<1>4. OneProjectPerDict'
  <2>1. dict[t] = None
    BY DEF TypeOK, Locals, Receive, Firing
  <2>2. \A u \in Threads : dict'[u] # None => project'[u] = project[u]
    BY <2>1 DEF Receive, loop, TypeOK, Shapes
  <2>3. QED
    BY <2>2 DEF TypeOK, OneProjectPerDict, Receive, loop
<1>5. QED
  BY <1>2, <1>3, <1>4 DEF TypeOK

LEMMA TypeUse ==
    ASSUME TypeOK, NEW t \in Threads, Use(t)
    PROVE  TypeOK'
<1>1. Cached(t) \in Dicts /\ project[t] \in Projects /\ Owner[t] \in Processes
  BY HasProject DEF Use
<1>2. Shapes'
  BY <1>1 DEF TypeOK, Shapes, Use, Goto, Places, event
<1>3. Locals'
  <2>1. cur[t] = None
    BY DEF TypeOK, Locals, Use, Firing
  <2>2. QED
    BY <1>1, <2>1, EventAssumption DEF TypeOK, Shapes, Locals, Use, Goto, Firing, event
<1>4. OneProjectPerDict'
  <2>1. \A a \in Alarms : heap[Cached(t)][a] # None => ProjectOf[a] = project[t]
    BY <1>1 DEF TypeOK, OneProjectPerDict, Use, Cached
  <2>2. QED
    BY <2>1 DEF TypeOK, Shapes, OneProjectPerDict, Use, event
<1>5. QED
  BY <1>2, <1>3, <1>4 DEF TypeOK

LEMMA LoadedType ==
    ASSUME TypeOK, NEW j \in Projects
    PROVE  /\ Loaded(j) \in [Alarms -> Row \cup {None}]
           /\ \A a \in Alarms : Loaded(j)[a] # None => ProjectOf[a] = j
BY RowThere DEF TypeOK, Loaded

\* A dict that nothing refers to is filled with the rows of the project.
LEMMA TypeLoad ==
    ASSUME TypeOK, NEW t \in Threads, Load(t)
    PROVE  TypeOK'
<1>1. project[t] \in Projects
  BY HasProject DEF Load
<1>2. PICK d \in Dicts : /\ ~Used(d, caches, dict)
                        /\ heap' = [heap EXCEPT ![d] = Loaded(project[t])]
                        /\ dict' = [dict EXCEPT ![t] = d]
                        /\ todo' = [todo EXCEPT ![t] =
                               {a \in Alarms : Loaded(project[t])[a] # None}]
  BY DEF Load
<1>3. Loaded(project[t]) \in [Alarms -> Row \cup {None}]
  BY <1>1, LoadedType
<1>4. \A u \in Threads : u # t /\ dict'[u] # None =>
          dict'[u] = dict[u] /\ heap'[dict'[u]] = heap[dict[u]]
  BY <1>2 DEF TypeOK, Shapes, Used
<1>5. dict'[t] = d /\ heap'[d] = Loaded(project[t])
  BY <1>2 DEF TypeOK, Shapes
<1>6. Shapes'
  BY <1>2, <1>3 DEF TypeOK, Shapes, Load, Goto, Places, event
<1>7. Locals'
  <2> SUFFICES ASSUME NEW u \in Threads
               PROVE  /\ project'[u] = None <=> pc'[u] = "idle"
                      /\ dict'[u] # None <=> pc'[u] \in {"fill", "next"} \cup Firing
                      /\ cur'[u] # None <=> pc'[u] \in Firing
                      /\ pc'[u] \in Firing => heap'[dict'[u]][cur'[u]] # None
                      /\ \A a \in todo'[u] : dict'[u] # None /\ heap'[dict'[u]][a] # None
    BY DEF Locals
  <2>1. CASE u = t
    <3>1. pc'[t] \in {"fill", "next"} /\ project'[t] # None /\ cur'[t] = None
      BY <1>1, EventAssumption DEF TypeOK, Shapes, Locals, Load, Goto, Firing, event
    <3>2. todo'[t] = {a \in Alarms : Loaded(project[t])[a] # None}
      BY <1>2 DEF TypeOK, Shapes
    <3>3. dict'[t] # None
      BY <1>5, EventAssumption
    <3>4. QED
      BY <1>5, <2>1, <3>1, <3>2, <3>3 DEF Firing
  <2>2. CASE u # t
    <3>1. /\ project'[u] = project[u] /\ pc'[u] = pc[u] /\ dict'[u] = dict[u]
          /\ cur'[u] = cur[u] /\ todo'[u] = todo[u]
      BY <1>2, <2>2 DEF TypeOK, Shapes, Load, Goto, event
    <3>2. QED
      BY <1>4, <2>2, <3>1 DEF TypeOK, Locals
  <2>3. QED
    BY <2>1, <2>2
<1>8. OneProjectPerDict'
  <2>1. \A p \in Processes, j \in Projects :
            caches[p][j] # None => heap'[caches[p][j]] = heap[caches[p][j]]
    BY <1>2 DEF TypeOK, Shapes, Used
  <2>2. \A a \in Alarms : heap'[dict'[t]][a] # None => ProjectOf[a] = project[t]
    BY <1>1, <1>5, LoadedType
  <2>3. QED
    BY <1>4, <2>1, <2>2 DEF TypeOK, OneProjectPerDict, Load, event
<1>9. QED
  BY <1>6, <1>7, <1>8 DEF TypeOK

\* The cache of a project loses its dict, or gets that of a thread whose event
\* is of the project.
LEMMA TypeRecache ==
    ASSUME TypeOK, NEW t \in Threads, Drop(t) \/ Fill(t)
    PROVE  TypeOK'
<1>1. project[t] \in Projects /\ Owner[t] \in Processes
  BY HasProject DEF Drop, Fill
<1>2. PICK place \in {"load", "next"} :
          /\ pc' = [pc EXCEPT ![t] = place]
          /\ place \in {"fill", "next"} \cup Firing
                 <=> pc[t] \in {"fill", "next"} \cup Firing
          /\ pc[t] \notin {"idle"} \cup Firing
  BY DEF Drop, Fill, Goto, Firing
<1>3. heap' = Collected(caches', dict)
  BY DEF Drop, Fill
<1>4. UNCHANGED <<db, repeating, project, matches, dict, todo, cur, sent, armed, requests, faults>>
  BY DEF Drop, Fill, event, loop
<1>5. /\ caches' \in [Processes -> [Projects -> Dicts \cup {None}]]
      /\ \A q \in Processes, j \in Projects : caches'[q][j] # None =>
             \/ caches'[q][j] = caches[q][j]
             \/ caches'[q][j] = dict[t] /\ j = project[t]
  <2>1. PICK v \in {None, dict[t]} : caches' = [caches EXCEPT ![Owner[t]][project[t]] = v]
    BY DEF Drop, Fill
  <2>2. v \in Dicts \cup {None} /\ (v = None \/ v = dict[t])
    BY DEF TypeOK, Shapes
  <2>3. /\ caches \in [Processes -> [Projects -> Dicts \cup {None}]]
        /\ caches' \in [Processes -> [Projects -> Dicts \cup {None}]]
    BY <1>1, <2>1, <2>2 DEF TypeOK, Shapes
  <2>4. \A q \in Processes, j \in Projects :
            \/ caches'[q][j] = caches[q][j]
            \/ caches'[q][j] = v /\ j = project[t]
    BY <1>1, <2>1, <2>3
  <2>5. QED
    BY <2>2, <2>3, <2>4
<1>6. old' \subseteq Processes \X Projects
  BY DEF TypeOK, Shapes, Drop, Fill
<1>7. pc' \in [Threads -> Places]
  BY <1>2 DEF TypeOK, Shapes, Places
<1>8. Shapes'
  <2>1. heap' \in [Dicts -> [Alarms -> Row \cup {None}]]
    BY <1>3, CollectedType DEF TypeOK
  <2>2. QED
    BY <1>4, <1>5, <1>6, <1>7, <2>1 DEF TypeOK, Shapes
<1>9. \A u \in Threads : dict[u] # None => heap'[dict[u]] = heap[dict[u]]
  <2>1. \A u \in Threads : dict[u] # None => dict[u] \in Dicts /\ Used(dict[u], caches', dict)
    BY DEF TypeOK, Shapes, Used
  <2>2. QED
    BY <1>3, <2>1, CollectedType DEF TypeOK
<1>10. \A q \in Processes, j \in Projects : caches'[q][j] # None =>
           heap'[caches'[q][j]] = heap[caches'[q][j]]
  <2>1. \A q \in Processes, j \in Projects : caches'[q][j] # None =>
            caches'[q][j] \in Dicts /\ Used(caches'[q][j], caches', dict)
    BY <1>5 DEF Used
  <2>2. QED
    BY <1>3, <2>1, CollectedType DEF TypeOK
<1>11. Locals'
  <2> SUFFICES ASSUME NEW u \in Threads
               PROVE  /\ project'[u] = None <=> pc'[u] = "idle"
                      /\ dict'[u] # None <=> pc'[u] \in {"fill", "next"} \cup Firing
                      /\ cur'[u] # None <=> pc'[u] \in Firing
                      /\ pc'[u] \in Firing => heap'[dict'[u]][cur'[u]] # None
                      /\ \A a \in todo'[u] : dict'[u] # None /\ heap'[dict'[u]][a] # None
    BY DEF Locals
  <2>1. /\ pc'[u] = "idle" <=> pc[u] = "idle"
        /\ pc'[u] \in {"fill", "next"} \cup Firing <=> pc[u] \in {"fill", "next"} \cup Firing
        /\ pc'[u] \in Firing <=> pc[u] \in Firing
    BY <1>2 DEF TypeOK, Shapes, Firing
  <2>2. pc[u] \in Firing => dict[u] # None
    BY DEF TypeOK, Locals
  <2>3. QED
    BY <1>4, <1>9, <2>1, <2>2 DEF TypeOK, Locals
<1>12. OneProjectPerDict'
  <2>1. ASSUME NEW u \in Threads, NEW a \in Alarms, dict'[u] # None, heap'[dict'[u]][a] # None
        PROVE  ProjectOf[a] = project'[u]
    BY <1>4, <1>9, <2>1 DEF TypeOK, OneProjectPerDict
  <2>2. ASSUME NEW q \in Processes, NEW j \in Projects, NEW a \in Alarms,
               caches'[q][j] # None, heap'[caches'[q][j]][a] # None
        PROVE  ProjectOf[a] = j
    <3>1. heap[caches'[q][j]][a] # None
      BY <1>10, <2>2
    <3>2. CASE caches'[q][j] = caches[q][j]
      BY <2>2, <3>1, <3>2 DEF TypeOK, OneProjectPerDict
    <3>3. CASE caches'[q][j] = dict[t] /\ j = project[t]
      BY <2>2, <3>1, <3>3 DEF TypeOK, OneProjectPerDict
    <3>4. QED
      BY <1>5, <2>2, <3>2, <3>3
  <2>3. QED
    BY <2>1, <2>2 DEF OneProjectPerDict
<1>13. QED
  BY <1>8, <1>11, <1>12 DEF TypeOK

LEMMA TypeEvaluateAlarm ==
    ASSUME TypeOK, NEW t \in Threads, NEW a \in Alarms, EvaluateAlarm(t, a)
    PROVE  TypeOK'
<1>1. heap[dict[t]][a] # None /\ dict[t] # None
  BY DEF TypeOK, Locals, EvaluateAlarm
<1>2. \/ cur' = [cur EXCEPT ![t] = a] /\ pc' = [pc EXCEPT ![t] = "refresh"]
      \/ cur' = cur /\ pc' = pc
  BY DEF EvaluateAlarm, Goto
<1>3. todo' = [todo EXCEPT ![t] = @ \ {a}]
  BY DEF EvaluateAlarm
<1>4. Shapes'
  <2>1. /\ cur' \in [Threads -> Alarms \cup {None}]
        /\ pc' \in [Threads -> Places]
        /\ todo' \in [Threads -> SUBSET Alarms]
    <3>1. /\ cur \in [Threads -> Alarms \cup {None}]
          /\ pc \in [Threads -> Places]
          /\ todo \in [Threads -> SUBSET Alarms]
      BY DEF TypeOK, Shapes
    <3>2. "refresh" \in Places
      BY DEF Places, Firing
    <3>3. cur' \in [Threads -> Alarms \cup {None}] /\ pc' \in [Threads -> Places]
      BY <1>2, <3>1, <3>2
    <3>4. todo' \in [Threads -> SUBSET Alarms]
      <4>1. todo[t] \ {a} \in SUBSET Alarms
        BY <3>1
      <4>2. QED
        BY <1>3, <3>1, <4>1
    <3>5. QED
      BY <3>3, <3>4
  <2>2. UNCHANGED <<db, repeating, caches, old, heap, project, matches, dict, sent, armed,
                    requests, faults>>
    BY DEF EvaluateAlarm, event
  <2>3. QED
    BY <2>1, <2>2 DEF TypeOK, Shapes
<1>5. Locals'
  BY <1>1, <1>2, <1>3, EventAssumption DEF TypeOK, Shapes, Locals, EvaluateAlarm, Firing, event
<1>6. OneProjectPerDict'
  BY DEF TypeOK, OneProjectPerDict, EvaluateAlarm, event
<1>7. QED
  BY <1>4, <1>5, <1>6 DEF TypeOK

LEMMA TypeRefresh ==
    ASSUME TypeOK, NEW t \in Threads, Refresh(t)
    PROVE  TypeOK'
<1>1. dict[t] \in Dicts /\ cur[t] \in Alarms /\ Copy(t) \in Row
  BY InHand DEF Refresh, Firing
<1>2. heap' = [heap EXCEPT ![dict[t]][cur[t]] = [Copy(t) EXCEPT !.state = "alarm"]]
  BY <1>1 DEF Refresh, Copy, TypeOK, Shapes
<1>3. [Copy(t) EXCEPT !.state = "alarm"] \in Row
  BY <1>1, EventAssumption DEF Row
<1>4. heap' \in [Dicts -> [Alarms -> Row \cup {None}]]
  BY <1>1, <1>2, <1>3 DEF TypeOK, Shapes
<1>5. \A d \in Dicts, a \in Alarms : heap'[d][a] = None <=> heap[d][a] = None
  BY <1>1, <1>2, <1>3, EventAssumption DEF TypeOK, Shapes, Copy
<1>6. PICK place \in {"store", "mark"} : Goto(t, place)
  BY DEF Refresh
<1>7. cur' = cur /\ place # "next" /\ place \in Places /\ place \in Firing \cup {"next"}
  BY <1>6 DEF Refresh, loop, Places, Firing
<1>8. /\ pc[t] \in Firing
      /\ UNCHANGED <<db, repeating, caches, old, event, dict, todo, sent, armed, requests, faults>>
  BY DEF Refresh, Firing, loop
<1>9. QED
  BY <1>4, <1>5, <1>6, <1>7, <1>8, TypeSameCopies

LEMMA TypeMark ==
    ASSUME TypeOK, NEW t \in Threads, Mark(t)
    PROVE  TypeOK'
<1>1. cur[t] \in Alarms /\ project[t] \in Projects
  BY InHand DEF Mark, Firing
<1>2. Cached(t) \in Dicts \cup {None}
  BY HasProject DEF Mark
<1>3. /\ heap' \in [Dicts -> [Alarms -> Row \cup {None}]]
      /\ \A d \in Dicts, a \in Alarms : heap'[d][a] = None <=> heap[d][a] = None
  <2>1. CASE Caching /\ Cached(t) # None /\ heap[Cached(t)][cur[t]] # None
    <3> DEFINE row == heap[Cached(t)][cur[t]]
               fired == [row EXCEPT !.state = "alarm"]
    <3>1. Cached(t) \in Dicts
      BY <1>2, <2>1
    <3>2. row \in Row
      BY <1>1, <2>1, <3>1, CopyType DEF TypeOK
    <3>3. fired \in Row
      BY <3>2, EventAssumption DEF Row
    <3>4. heap' = [heap EXCEPT ![Cached(t)][cur[t]] = fired]
      BY <1>1, <2>1, <3>1 DEF Mark, TypeOK, Shapes
    <3> HIDE DEF fired
    <3>5. QED
      BY <1>1, <2>1, <3>1, <3>3, <3>4, EventAssumption DEF TypeOK, Shapes
  <2>2. CASE ~(Caching /\ Cached(t) # None /\ heap[Cached(t)][cur[t]] # None)
    BY <2>2 DEF Mark, TypeOK, Shapes
  <2>3. QED
    BY <2>1, <2>2
<1>4. /\ Goto(t, "next")
      /\ "next" \in Places /\ "next" \in Firing \cup {"next"}
      /\ pc[t] \in Firing
      /\ cur' = IF "next" = "next" THEN [cur EXCEPT ![t] = None] ELSE cur
      /\ UNCHANGED <<db, repeating, caches, old, event, dict, todo, sent, armed, requests, faults>>
  BY DEF Mark, Places, Firing
<1>5. QED
  BY <1>3, <1>4, TypeSameCopies

\* A process loses its cache and what its threads hold.
LEMMA TypeCrash ==
    ASSUME TypeOK, NEW p \in Processes, Crash(p)
    PROVE  TypeOK'
<1>1. faults' \in Nat
  BY DEF Crash, Fault, TypeOK, Shapes
<1>2. caches' \in [Processes -> [Projects -> Dicts \cup {None}]]
  BY DEF Crash, TypeOK, Shapes
<1>3. /\ dict' \in [Threads -> Dicts \cup {None}]
      /\ \A u \in Threads : dict'[u] # None => dict'[u] = dict[u] /\ Owner[u] # p
  BY DEF Crash, TypeOK, Shapes
<1>4. heap' = Collected(caches', dict')
  BY DEF Crash
<1>5. Shapes'
  <2>1. heap' \in [Dicts -> [Alarms -> Row \cup {None}]]
    BY <1>4, CollectedType DEF TypeOK
  <2>2. QED
    BY <1>1, <1>2, <1>3, <2>1 DEF TypeOK, Shapes, Crash, Places
<1>6. \A u \in Threads : dict'[u] # None => heap'[dict'[u]] = heap[dict'[u]]
  <2>1. \A u \in Threads : dict'[u] # None => dict'[u] \in Dicts /\ Used(dict'[u], caches', dict')
    BY <1>3 DEF Used
  <2>2. QED
    BY <1>4, <2>1, CollectedType DEF TypeOK
<1>7. \A q \in Processes, j \in Projects : caches'[q][j] # None =>
          caches'[q][j] = caches[q][j] /\ heap'[caches'[q][j]] = heap[caches[q][j]]
  <2>1. \A q \in Processes, j \in Projects : caches'[q][j] # None =>
            /\ caches'[q][j] \in Dicts /\ Used(caches'[q][j], caches', dict')
            /\ caches'[q][j] = caches[q][j]
    BY <1>2 DEF Used, Crash, TypeOK, Shapes
  <2>2. QED
    BY <1>4, <2>1, CollectedType DEF TypeOK
<1>8. Locals'
  <2> SUFFICES ASSUME NEW u \in Threads
               PROVE  /\ project'[u] = None <=> pc'[u] = "idle"
                      /\ dict'[u] # None <=> pc'[u] \in {"fill", "next"} \cup Firing
                      /\ cur'[u] # None <=> pc'[u] \in Firing
                      /\ pc'[u] \in Firing => heap'[dict'[u]][cur'[u]] # None
                      /\ \A a \in todo'[u] : dict'[u] # None /\ heap'[dict'[u]][a] # None
    BY DEF Locals
  <2>1. CASE Owner[u] = p
    BY <2>1 DEF Crash, Firing
  <2>2. CASE Owner[u] # p
    <3>1. /\ project'[u] = project[u] /\ pc'[u] = pc[u] /\ dict'[u] = dict[u]
          /\ cur'[u] = cur[u] /\ todo'[u] = todo[u]
      BY <2>2 DEF Crash
    <3>2. QED
      BY <3>1, <1>6 DEF TypeOK, Locals
  <2>3. QED
    BY <2>1, <2>2
<1>9. OneProjectPerDict'
  <2>1. \A u \in Threads : dict'[u] # None => project'[u] = project[u]
    BY <1>3 DEF Crash
  <2>2. QED
    BY <1>3, <1>6, <1>7, <2>1 DEF TypeOK, OneProjectPerDict
<1>10. QED
  BY <1>5, <1>8, <1>9 DEF TypeOK

--------------------------------------------------------------------------------
\* _get_project_alarms.
LEMMA TypeGetProjectAlarms ==
    ASSUME TypeOK, NEW t \in Threads, GetProjectAlarms(t)
    PROVE  TypeOK'
<1>1. CASE LookUp(t)
  BY <1>1, TypeMove DEF LookUp, Places, Firing, TypeOK, Shapes
<1>2. CASE KeyMissing(t) \/ NotConverted(t)
  BY <1>2, TypeEndEvent DEF KeyMissing, NotConverted, TypeOK, Shapes
<1>3. CASE CheckAge(t)
  BY <1>3, TypeMove DEF CheckAge, Places, Firing, TypeOK, Shapes
<1>4. CASE Drop(t)
  BY <1>4, TypeRecache
<1>5. CASE Use(t)
  BY <1>5, TypeUse
<1>6. CASE Load(t)
  BY <1>6, TypeLoad
<1>7. CASE Fill(t)
  BY <1>7, TypeRecache
<1>8. QED
  BY <1>1, <1>2, <1>3, <1>4, <1>5, <1>6, <1>7 DEF GetProjectAlarms

\* _refresh between its two accesses of the copies, and its failure.
LEMMA TypeFire ==
    ASSUME TypeOK, NEW t \in Threads,
           Store(t) \/ StoreNotFound(t) \/ Record(t) \/ Notify(t) \/ RefreshFails(t)
    PROVE  TypeOK'
<1>1. Copy(t) \in Row /\ cur[t] \in Alarms /\ Owner[t] \in Processes
  BY InHand, EventAssumption DEF Store, StoreNotFound, Record, Notify, RefreshFails, Firing
<1>2. PICK place \in {"record", "notify", "mark"} : Goto(t, place)
  BY DEF Store, StoreNotFound, Record, Notify, RefreshFails
<1>3. /\ pc[t] \in {"store", "record", "notify"}
      /\ UNCHANGED <<repeating, caches, old, heap, event, loop, armed, requests>>
  BY DEF Store, StoreNotFound, Record, Notify, RefreshFails
<1>4. db' \in [Alarms -> Row \cup {Absent}]
  BY <1>1 DEF Store, StoreNotFound, Record, Notify, RefreshFails, TypeOK, Shapes
<1>5. sent' \in [Processes -> [Alarms -> Nat]]
  <2>1. CASE Notify(t)
    <3>1. sent[Owner[t]][cur[t]] + 1 \in Nat
      BY <1>1 DEF TypeOK, Shapes
    <3>2. PICK n \in Nat : \/ sent' = sent
                           \/ sent' = [sent EXCEPT ![Owner[t]][cur[t]] = n]
      BY <1>1, <2>1, <3>1 DEF Notify
    <3>3. sent \in [Processes -> [Alarms -> Nat]]
      BY DEF TypeOK, Shapes
    <3>4. QED
      BY <1>1, <3>2, <3>3
  <2>2. CASE ~Notify(t)
    BY <2>2 DEF Store, StoreNotFound, Record, RefreshFails, TypeOK, Shapes
  <2>3. QED
    BY <2>1, <2>2
<1>6. faults' \in Nat
  BY DEF Store, StoreNotFound, Record, Notify, RefreshFails, Fault, TypeOK, Shapes
<1>7. /\ place \in Places /\ place # "idle" /\ pc[t] # "idle"
      /\ place \in Firing /\ pc[t] \in Firing
  BY <1>3 DEF Places, Firing
<1>8. QED
  BY <1>2, <1>3, <1>4, <1>5, <1>6, <1>7, TypeMove

\* Time, and the users.
LEMMA TypeEnvironment ==
    ASSUME TypeOK,
           \/ \E p \in Processes, j \in Projects : Age(p, j)
           \/ \E a \in Alarms : Delete(a)
           \/ \E a \in Alarms, row \in Row : Write(a, row)
    PROVE  TypeOK'
<1>1. UNCHANGED <<repeating, caches, heap, pc, project, matches, dict, todo, cur, sent, faults>>
  BY DEF Age, Delete, Write, event, loop
<1> DEFINE Goals == /\ db' \in [Alarms -> Row \cup {Absent}]
                     /\ old' \subseteq Processes \X Projects
                     /\ armed' \in [Alarms -> Nat]
                     /\ requests' \in Nat
<1>2. Goals
  <2>1. ASSUME NEW p \in Processes, NEW j \in Projects, Age(p, j)
        PROVE  Goals
    BY <2>1 DEF Age, TypeOK, Shapes
  <2>2. ASSUME NEW a \in Alarms, Delete(a)
        PROVE  Goals
    BY <2>2 DEF Delete, TypeOK, Shapes
  <2>3. ASSUME NEW a \in Alarms, NEW row \in Row, Write(a, row)
        PROVE  Goals
    BY <2>3 DEF Write, TypeOK, Shapes
  <2>4. QED
    BY <2>1, <2>2, <2>3
<1>3. Shapes'
  BY <1>1, <1>2 DEF TypeOK, Shapes
<1>4. Locals' /\ OneProjectPerDict'
  BY <1>1 DEF TypeOK, Locals, OneProjectPerDict
<1>5. QED
  BY <1>3, <1>4 DEF TypeOK

LEMMA TypeNext == TypeOK /\ [Next]_vars => TypeOK'
<1> SUFFICES ASSUME TypeOK, [Next]_vars PROVE TypeOK'
  OBVIOUS
<1>1. CASE UNCHANGED vars
  BY <1>1 DEF vars, TypeOK, Shapes, Locals, OneProjectPerDict
<1>2. ASSUME NEW t \in Threads, NEW e \in Events, Receive(t, e) PROVE TypeOK'
  BY <1>2, TypeReceive
<1>3. ASSUME NEW t \in Threads, Work(t) PROVE TypeOK'
  <2>1. CASE GetProjectAlarms(t)
    BY <2>1, TypeGetProjectAlarms
  <2>2. CASE \E a \in Alarms : EvaluateAlarm(t, a)
    BY <2>2, TypeEvaluateAlarm
  <2>3. CASE LastAlarm(t)
    BY <2>3, TypeEndEvent DEF LastAlarm, TypeOK, Shapes
  <2>4. CASE Refresh(t)
    BY <2>4, TypeRefresh
  <2>5. CASE Store(t) \/ StoreNotFound(t) \/ Record(t) \/ Notify(t)
    BY <2>5, TypeFire
  <2>6. CASE Mark(t)
    BY <2>6, TypeMark
  <2>7. QED
    BY <1>3, <2>1, <2>2, <2>3, <2>4, <2>5, <2>6 DEF Work
<1>4. ASSUME NEW t \in Threads, RefreshFails(t) PROVE TypeOK'
  BY <1>4, TypeFire
<1>5. ASSUME NEW t \in Threads, LoadFails(t) PROVE TypeOK'
  <2>1. faults' \in Nat
    BY <1>5 DEF LoadFails, Fault, TypeOK, Shapes
  <2>2. QED
    BY <1>5, <2>1, TypeEndEvent DEF LoadFails
<1>6. ASSUME NEW p \in Processes, Crash(p) PROVE TypeOK'
  BY <1>6, TypeCrash
<1>7. CASE \/ \E p \in Processes, j \in Projects : Age(p, j)
           \/ \E a \in Alarms : Delete(a)
           \/ \E a \in Alarms, row \in Row : Write(a, row)
  BY <1>7, TypeEnvironment
<1>8. QED
  BY <1>1, <1>2, <1>3, <1>4, <1>5, <1>6, <1>7 DEF Next

\* Every variable keeps its type; a thread finds each alarm that it fires in the
\* dict it iterates over, although other threads replace and drop the caches;
\* and an event never meets an alarm of another project.
THEOREM TypeCorrect == Spec => []TypeOK
<1>1. Init => TypeOK
  BY TypeInit
<1>2. TypeOK /\ [Next]_vars => TypeOK'
  BY TypeNext
<1>3. QED
  BY <1>1, <1>2, PTL DEF Spec

--------------------------------------------------------------------------------
(***************************************************************************)
(* How often a process notifies.  Each of its N threads may hold a dict of *)
(* the project, and one of these is in the cache.  From each dict that has *)
(* a copy of the alarm that is not fired, one notification may follow      *)
(* (Open).  While the row itself is not fired, each thread may read such a *)
(* copy again, and what counts is that the row will be written once        *)
(* before: only the threads that have written it (Stored) are ahead.       *)
(***************************************************************************)

Writing == {"store", "record", "notify"}

\* The cache of the project, or a thread with an event of it, holds the dict.
Lives(p, d, j) ==
    \/ caches[p][j] = d
    \/ \E t \in Executor(p) : project[t] = j /\ dict[t] = d

Unfired(d, a) == heap[d][a] # None /\ heap[d][a].state # "alarm"

Using(p, d, a, places) ==
    \E t \in Executor(p) : dict[t] = d /\ cur[t] = a /\ pc[t] \in places

Open(p, a) ==
    {d \in Dicts : (Lives(p, d, ProjectOf[a]) /\ Unfired(d, a)) \/ Using(p, d, a, Writing)}

Stored(p, a) == {d \in Dicts : Using(p, d, a, {"record", "notify"})}

RowUnfired(a) == Exists(a) /\ db[a].state # "alarm"

\* What a process may still send, besides what the requests to come allow.
Owed(p, a) ==
    IF RowUnfired(a) THEN Cardinality(Stored(p, a)) + Cardinality(Executor(p))
    ELSE Cardinality(Open(p, a))

Within(p, a) == sent[p][a] + Owed(p, a) <= Cardinality(Executor(p)) * armed[a]

Budget ==
    \A p \in Processes, a \in Alarms :
        IF a \in repeating THEN sent[p][a] = 0 ELSE Within(p, a)

\* After _refresh has set the state, the copy stays in it.
CopyFired == \A t \in Threads : pc[t] \in Writing => Copy(t).state = "alarm"

\* Threads that share a dict do not fire an alarm of it at once.
OneWriter ==
    \A t, u \in Threads :
        /\ pc[t] \in Writing /\ pc[u] \in Writing
        /\ dict[t] = dict[u] /\ cur[t] = cur[u] /\ cur[t] \notin repeating
        => t = u

\* A thread of the process that does not hold another dict of the project than
\* the one in the cache, nor is about to read one.
Follows(t, j, d) ==
    /\ ~(project[t] = j /\ pc[t] = "load")
    /\ project[t] = j /\ dict[t] # None => dict[t] = d

\* Somebody filled the cache, and does not load again while it stays.
Fillers ==
    /\ ~Caching => /\ \A p \in Processes, j \in Projects : caches[p][j] = None
                   /\ \A t \in Threads : pc[t] # "fill"
    /\ \A p \in Processes, j \in Projects :
           caches[p][j] # None => \E t \in Executor(p) : Follows(t, j, caches[p][j])

Once == TypeOK /\ Fillers /\ CopyFired /\ OneWriter /\ Budget

LEMMA ExecutorFinite ==
    ASSUME NEW p \in Processes
    PROVE  /\ IsFiniteSet(Executor(p))
           /\ Cardinality(Executor(p)) \in Nat
           /\ Executor(p)' = Executor(p)
<1>1. Executor(p) \in SUBSET Threads
  BY DEF Executor
<1>2. QED
  BY <1>1, EventAssumption, FS_Subset, FS_CardinalityType DEF Executor

\* A thread that fires an alarm has an event of its project.
LEMMA UsersLive ==
    ASSUME TypeOK, NEW p \in Processes, NEW a \in Alarms, NEW d \in Dicts,
           Using(p, d, a, Writing)
    PROVE  Lives(p, d, ProjectOf[a])
<1>1. PICK t \in Executor(p) : dict[t] = d /\ cur[t] = a /\ pc[t] \in Writing
  BY DEF Using
<1>2. t \in Threads /\ heap[d][a] # None /\ dict[t] # None
  BY <1>1, EventAssumption DEF Executor, TypeOK, Locals, Writing, Firing
<1>3. ProjectOf[a] = project[t]
  BY <1>1, <1>2 DEF TypeOK, OneProjectPerDict
<1>4. QED
  BY <1>1, <1>3 DEF Lives

\* A process has no more dicts of a project than threads.
FewDicts ==
    \A p \in Processes, a \in Alarms :
        /\ IsFiniteSet(Open(p, a))
        /\ Cardinality(Open(p, a)) \in Nat
        /\ Cardinality(Open(p, a)) <= Cardinality(Executor(p))
        /\ Stored(p, a) \subseteq Open(p, a)
        /\ Cardinality(Stored(p, a)) \in Nat
        /\ Cardinality(Stored(p, a)) <= Cardinality(Open(p, a))

\* The thread that filled the cache has no other dict than the one in it.
LEMMA Few == TypeOK /\ Fillers => FewDicts
<1> SUFFICES ASSUME TypeOK, Fillers, NEW p \in Processes, NEW a \in Alarms
             PROVE  /\ IsFiniteSet(Open(p, a))
                    /\ Cardinality(Open(p, a)) \in Nat
                    /\ Cardinality(Open(p, a)) <= Cardinality(Executor(p))
                    /\ Stored(p, a) \subseteq Open(p, a)
                    /\ Cardinality(Stored(p, a)) \in Nat
                    /\ Cardinality(Stored(p, a)) <= Cardinality(Open(p, a))
  BY DEF FewDicts
<1> DEFINE j == ProjectOf[a]
           E == Executor(p)
           kept == caches[p][j]
<1>1. j \in Projects /\ None \notin Dicts
  BY EventAssumption
<1>2. PICK w : kept # None => w \in E /\ Follows(w, j, kept)
  BY <1>1 DEF Fillers
<1> DEFINE F == [t \in E |-> IF t = w /\ kept # None THEN kept
                             ELSE IF project[t] = j THEN dict[t] ELSE None]
           T == {F[t] : t \in E}
<1>3. Open(p, a) \subseteq T
  <2> SUFFICES ASSUME NEW d \in Open(p, a) PROVE \E t \in E : F[t] = d
    OBVIOUS
  <2>1. d \in Dicts /\ Lives(p, d, j)
    BY UsersLive DEF Open
  <2>2. CASE kept = d
    <3>1. w \in E /\ kept # None
      BY <1>1, <1>2, <2>1, <2>2
    <3>2. F[w] = d
      BY <2>2, <3>1
    <3>3. QED
      BY <3>1, <3>2
  <2>3. CASE \E t \in E : project[t] = j /\ dict[t] = d
    <3>1. PICK t \in E : project[t] = j /\ dict[t] = d
      BY <2>3
    <3>2. t = w /\ kept # None => kept = d
      BY <1>1, <1>2, <2>1, <3>1 DEF Follows
    <3>3. F[t] = d
      BY <3>1, <3>2
    <3>4. QED
      BY <3>3
  <2>4. QED
    BY <2>1, <2>2, <2>3 DEF Lives
<1>4. IsFiniteSet(T) /\ Cardinality(T) <= Cardinality(E)
  <2>1. F \in Surjection(E, T)
    BY DEF Surjection
  <2>2. QED
    BY <2>1, ExecutorFinite, FS_Surjection
<1>5. /\ IsFiniteSet(Open(p, a))
      /\ Cardinality(Open(p, a)) <= Cardinality(T)
  BY <1>3, <1>4, FS_Subset
<1>6. Stored(p, a) \subseteq Open(p, a)
  BY DEF Stored, Open, Using, Writing
<1>7. /\ IsFiniteSet(Stored(p, a))
      /\ Cardinality(Stored(p, a)) <= Cardinality(Open(p, a))
  BY <1>5, <1>6, FS_Subset
<1>8. /\ Cardinality(Open(p, a)) \in Nat /\ Cardinality(Stored(p, a)) \in Nat
      /\ Cardinality(T) \in Nat /\ Cardinality(E) \in Nat
  BY <1>4, <1>5, <1>7, ExecutorFinite, FS_CardinalityType
<1>9. QED
  BY <1>4, <1>5, <1>6, <1>7, <1>8

LEMMA FewNext == TypeOK' /\ Fillers' => FewDicts'
BY Few, PTL

\* The step of a thread, which empties caches at most, leaves every filler what
\* it is, unless the thread was one.
LEMMA FillersThread ==
    ASSUME TypeOK, Fillers, NEW t \in Threads,
           \A u \in Threads \ {t} :
               pc'[u] = pc[u] /\ dict'[u] = dict[u] /\ project'[u] = project[u],
           \A p \in Processes, j \in Projects : caches'[p][j] \in {None, caches[p][j]},
           ~Caching => pc'[t] # "fill",
           \A j \in Projects :
               /\ caches'[Owner[t]][j] # None
               /\ Follows(t, j, caches[Owner[t]][j])
               => /\ ~(project'[t] = j /\ pc'[t] = "load")
                  /\ project'[t] = j /\ dict'[t] # None
                     => dict'[t] = caches[Owner[t]][j]
    PROVE  Fillers'
<1>1. ~Caching => /\ \A p \in Processes, j \in Projects : caches'[p][j] = None
                  /\ \A u \in Threads : pc'[u] # "fill"
  BY DEF Fillers
<1>2. ASSUME NEW p \in Processes, NEW j \in Projects, caches'[p][j] # None
      PROVE  \E u \in Executor(p) : Follows(u, j, caches[p][j])'
  <2>1. caches'[p][j] = caches[p][j]
    BY <1>2
  <2>2. PICK u \in Executor(p) : Follows(u, j, caches[p][j])
    BY <1>2, <2>1 DEF Fillers
  <2>3. u \in Threads /\ Owner[u] = p
    BY DEF Executor
  <2>4. CASE u = t
    BY <1>2, <2>1, <2>2, <2>3, <2>4 DEF Follows
  <2>5. CASE u # t
    BY <2>1, <2>2, <2>3, <2>5 DEF Follows
  <2>6. QED
    BY <2>4, <2>5
<1>3. QED
  BY <1>1, <1>2 DEF Fillers, Executor

LEMMA FillersNext == TypeOK /\ Fillers /\ Next => Fillers'
<1> SUFFICES ASSUME TypeOK, Fillers, Next PROVE Fillers'
  OBVIOUS
<1>1. Shapes
  BY DEF TypeOK
<1>2. ASSUME NEW t \in Threads,
             \/ \E e \in Events : Receive(t, e)
             \/ LookUp(t) \/ CheckAge(t)
      PROVE  Fillers'
  <2>1. pc'[t] # "fill" /\ caches' = caches /\ dict'[t] = dict[t]
    BY <1>1, <1>2 DEF Shapes, Receive, LookUp, CheckAge, Goto, loop
  <2>2. \A u \in Threads \ {t} :
            pc'[u] = pc[u] /\ dict'[u] = dict[u] /\ project'[u] = project[u]
    BY <1>1, <1>2 DEF Shapes, Receive, LookUp, CheckAge, Goto, loop, event
  <2>3. dict[t] = None
    BY <1>2 DEF TypeOK, Locals, Receive, LookUp, CheckAge, Firing
  <2>4. ASSUME NEW j \in Projects, caches[Owner[t]][j] # None, project'[t] = j
        PROVE  pc'[t] # "load"
    <3>1. CASE LookUp(t)
      <4>1. project[t] = j /\ Cached(t) # None /\ Owner[t] \in Processes
        BY <2>4, <3>1, EventAssumption DEF LookUp, event, Cached
      <4>2. Caching
        BY <2>4, <4>1 DEF Fillers
      <4>3. QED
        BY <1>1, <3>1, <4>1, <4>2 DEF LookUp, Goto, Shapes
    <3>2. CASE ~LookUp(t)
      BY <1>1, <1>2, <3>2 DEF Receive, CheckAge, Goto, Shapes
    <3>3. QED
      BY <3>1, <3>2
  <2>5. QED
    BY <2>1, <2>2, <2>3, <2>4, FillersThread
<1>3. ASSUME NEW t \in Threads, KeyMissing(t) \/ NotConverted(t) \/ LastAlarm(t) \/ LoadFails(t)
      PROVE  Fillers'
  <2>1. EndEvent(t) /\ caches' = caches
    BY <1>3 DEF KeyMissing, NotConverted, LastAlarm, LoadFails
  <2>2. pc'[t] = "idle" /\ project'[t] = None
    BY <1>1, <2>1 DEF Shapes, EndEvent, Goto
  <2>3. \A u \in Threads \ {t} :
            pc'[u] = pc[u] /\ dict'[u] = dict[u] /\ project'[u] = project[u]
    BY <1>1, <2>1 DEF Shapes, EndEvent, Goto
  <2>4. \A j \in Projects : project'[t] # j
    BY <2>2, EventAssumption
  <2>5. QED
    BY <2>1, <2>2, <2>3, <2>4, FillersThread
<1>4. ASSUME NEW t \in Threads, Drop(t)
      PROVE  Fillers'
  <2>1. project[t] \in Projects /\ Owner[t] \in Processes
    BY <1>4, HasProject DEF Drop
  <2>2. /\ UNCHANGED <<dict, project>> /\ pc'[t] = "load" /\ dict[t] = None
        /\ \A u \in Threads \ {t} : pc'[u] = pc[u]
    BY <1>1, <1>4 DEF Shapes, TypeOK, Locals, Firing, Drop, Goto, event, loop
  <2>3. /\ caches'[Owner[t]][project[t]] = None
        /\ \A p \in Processes, j \in Projects : caches'[p][j] \in {None, caches[p][j]}
    BY <1>1, <1>4, <2>1 DEF Shapes, Drop
  <2>4. QED
    BY <2>2, <2>3, FillersThread
<1>5. ASSUME NEW t \in Threads, Fill(t)
      PROVE  Fillers'
  <2>1. project[t] \in Projects /\ Owner[t] \in Processes /\ t \in Executor(Owner[t])
    BY <1>5, HasProject DEF Fill, Executor
  <2>2. /\ UNCHANGED <<dict, project>> /\ pc'[t] = "next" /\ Caching
        /\ \A u \in Threads \ {t} : pc'[u] = pc[u]
    BY <1>1, <1>5 DEF Shapes, Fillers, Fill, Goto, event, loop
  <2>3. \A p \in Processes, j \in Projects :
            caches'[p][j] = IF p = Owner[t] /\ j = project[t] THEN dict[t] ELSE caches[p][j]
    BY <1>1, <1>5, <2>1 DEF Shapes, Fill
  <2>4. ASSUME NEW p \in Processes, NEW j \in Projects, caches'[p][j] # None
        PROVE  \E u \in Executor(p) : Follows(u, j, caches[p][j])'
    <3>1. CASE p = Owner[t] /\ j = project[t]
      BY <2>1, <2>2, <2>3, <3>1 DEF Follows
    <3>2. CASE ~(p = Owner[t] /\ j = project[t])
      <4>1. caches'[p][j] = caches[p][j]
        BY <2>3, <3>2
      <4>2. PICK u \in Executor(p) : Follows(u, j, caches[p][j])
        BY <2>4, <4>1 DEF Fillers
      <4>3. u \in Threads
        BY DEF Executor
      <4>4. pc'[u] = "load" => pc[u] = "load"
        BY <2>2, <4>3
      <4>5. QED
        BY <2>2, <4>1, <4>2, <4>4 DEF Follows
    <3>3. QED
      BY <3>1, <3>2
  <2>5. QED
    BY <2>2, <2>4 DEF Fillers, Executor
<1>6. ASSUME NEW t \in Threads, Use(t) \/ Load(t)
      PROVE  Fillers'
  <2>1. project[t] \in Projects /\ Owner[t] \in Processes
    BY <1>6, HasProject DEF Use, Load
  <2>2. UNCHANGED <<caches, project>>
    BY <1>6 DEF Use, Load, event
  <2>3. \A u \in Threads \ {t} : pc'[u] = pc[u] /\ dict'[u] = dict[u]
    <3>1. PICK d : dict' = [dict EXCEPT ![t] = d]
      BY <1>6 DEF Use, Load
    <3>2. QED
      BY <1>1, <1>6, <3>1 DEF Shapes, Use, Load, Goto
  <2>4. pc'[t] # "load" /\ (~Caching => pc'[t] # "fill")
    BY <1>1, <1>6 DEF Shapes, Use, Load, Goto
  <2>5. ASSUME NEW j \in Projects, Follows(t, j, caches[Owner[t]][j]), project[t] = j
        PROVE  dict'[t] = caches[Owner[t]][j]
    <3>1. Use(t)
      BY <1>6, <2>5 DEF Load, Follows
    <3>2. QED
      BY <1>1, <2>5, <3>1 DEF Use, Cached, Shapes
  <2>6. QED
    BY <2>2, <2>3, <2>4, <2>5, FillersThread
<1>7. ASSUME NEW t \in Threads,
             \/ \E a \in Alarms : EvaluateAlarm(t, a)
             \/ Refresh(t) \/ Store(t) \/ StoreNotFound(t) \/ Record(t)
             \/ Notify(t) \/ Mark(t) \/ RefreshFails(t)
      PROVE  Fillers'
  <2>1. UNCHANGED <<caches, project, dict>>
    BY <1>7 DEF EvaluateAlarm, Refresh, Store, StoreNotFound, Record, Notify, Mark,
                RefreshFails, event, loop
  <2>2. pc'[t] \notin {"fill", "load"} /\ \A u \in Threads \ {t} : pc'[u] = pc[u]
    BY <1>1, <1>7 DEF Shapes, EvaluateAlarm, Refresh, Store, StoreNotFound, Record,
                      Notify, Mark, RefreshFails, Goto
  <2>3. QED
    BY <2>1, <2>2, FillersThread DEF Follows
<1>8. ASSUME NEW p \in Processes, Crash(p)
      PROVE  Fillers'
  <2>1. /\ \A q \in Processes, j \in Projects :
               caches'[q][j] = IF q = p THEN None ELSE caches[q][j]
        /\ \A u \in Threads :
               IF Owner[u] = p THEN pc'[u] = "idle"
               ELSE /\ pc'[u] = pc[u] /\ dict'[u] = dict[u]
                    /\ project'[u] = project[u]
    BY <1>1, <1>8 DEF Shapes, Crash
  <2>2. ASSUME NEW q \in Processes, NEW j \in Projects, caches'[q][j] # None
        PROVE  \E u \in Executor(q) : Follows(u, j, caches[q][j])'
    <3>1. q # p /\ caches'[q][j] = caches[q][j]
      BY <2>1, <2>2
    <3>2. PICK u \in Executor(q) : Follows(u, j, caches[q][j])
      BY <2>2, <3>1 DEF Fillers
    <3>3. u \in Threads /\ Owner[u] # p
      BY <3>1 DEF Executor
    <3>4. QED
      BY <2>1, <3>1, <3>2, <3>3 DEF Follows
  <2>3. ~Caching => /\ \A q \in Processes, j \in Projects : caches'[q][j] = None
                    /\ \A u \in Threads : pc'[u] # "fill"
    BY <2>1 DEF Fillers
  <2>4. QED
    BY <2>2, <2>3 DEF Fillers, Executor
<1>9. CASE \/ \E p \in Processes, j \in Projects : Age(p, j)
           \/ \E a \in Alarms : Delete(a)
           \/ \E a \in Alarms, row \in Row : Write(a, row)
  <2>1. UNCHANGED <<caches, pc, dict, project>>
    BY <1>9 DEF Age, Delete, Write, event, loop
  <2>2. QED
    BY <2>1 DEF Fillers, Follows, Executor
<1>10. QED
  BY <1>2, <1>3, <1>4, <1>5, <1>6, <1>7, <1>8, <1>9 DEF Next, Work, GetProjectAlarms

--------------------------------------------------------------------------------
LEMMA OnceInit == Init => Once
<1> SUFFICES ASSUME Init PROVE Once
  OBVIOUS
<1>1. TypeOK
  BY TypeInit
<1>2. Fillers /\ CopyFired /\ OneWriter
  BY DEF Init, Fillers, CopyFired, OneWriter, Writing
<1>3. ASSUME NEW p \in Processes, NEW a \in Alarms
      PROVE  sent[p][a] = 0 /\ Within(p, a)
  <2>1. /\ sent[p][a] = 0 /\ armed[a] = IF RowUnfired(a) THEN 1 ELSE 0
    BY <1>3 DEF Init, RowUnfired
  <2>2. Stored(p, a) = {} /\ Open(p, a) = {}
    BY DEF Init, Stored, Open, Using, Unfired, EmptyDict, Writing, Executor
  <2>3. Cardinality({}) = 0
    BY FS_EmptySet
  <2>4. Cardinality(Executor(p)) \in Nat
    BY ExecutorFinite
  <2>5. QED
    BY <2>1, <2>2, <2>3, <2>4 DEF Within, Owed
<1>4. QED
  BY <1>1, <1>2, <1>3 DEF Once, Budget

\* A thread that is between the change of the copy and the end of _refresh was
\* in the same place before.
SameFirings ==
    \A u \in Threads :
        pc'[u] \in Writing => pc'[u] = pc[u] /\ dict'[u] = dict[u] /\ cur'[u] = cur[u]

\* A copy changes its state to "alarm" only.
CopiesFire ==
    \A d \in Dicts, a \in Alarms :
        \/ heap'[d][a] = heap[d][a]
        \/ heap'[d][a] = None
        \/ heap'[d][a].state = "alarm"

\* What a step that is none of an alarm's own leaves of its budget.
LEMMA Kept ==
    ASSUME TypeOK, FewDicts, FewDicts', NEW p \in Processes, NEW a \in Alarms, Within(p, a),
           sent'[p][a] = sent[p][a], armed'[a] = armed[a],
           RowUnfired(a)' <=> RowUnfired(a),
           RowUnfired(a) => Stored(p, a)' \subseteq Stored(p, a),
           ~RowUnfired(a) => Open(p, a)' \subseteq Open(p, a),
           IsFiniteSet(Stored(p, a))
    PROVE  Within(p, a)'
<1>1. /\ sent[p][a] \in Nat
      /\ Cardinality(Executor(p)) * armed[a] \in Nat
  BY ExecutorFinite DEF TypeOK, Shapes
<1>2. CASE RowUnfired(a)
  <2>1. Cardinality(Stored(p, a)') <= Cardinality(Stored(p, a))
    BY <1>2, FS_Subset
  <2>2. /\ Cardinality(Stored(p, a)) \in Nat /\ Cardinality(Stored(p, a)') \in Nat
        /\ Cardinality(Executor(p)) \in Nat
    BY ExecutorFinite DEF FewDicts
  <2>3. QED
    BY <1>1, <1>2, <2>1, <2>2, ExecutorFinite DEF Within, Owed
<1>3. CASE ~RowUnfired(a)
  <2>1. Cardinality(Open(p, a)') <= Cardinality(Open(p, a))
    BY <1>3, FS_Subset DEF FewDicts
  <2>2. Cardinality(Open(p, a)) \in Nat /\ Cardinality(Open(p, a)') \in Nat
    BY DEF FewDicts
  <2>3. QED
    BY <1>1, <1>3, <2>1, <2>2, ExecutorFinite DEF Within, Owed
<1>4. QED
  BY <1>2, <1>3

\* The row is written: every dict of the process had been paid for.
LEMMA Fired ==
    ASSUME TypeOK, FewDicts, FewDicts', NEW p \in Processes, NEW a \in Alarms, Within(p, a),
           sent'[p][a] = sent[p][a], armed'[a] = armed[a],
           RowUnfired(a), ~RowUnfired(a)'
    PROVE  Within(p, a)'
<1>1. /\ sent[p][a] \in Nat /\ Cardinality(Executor(p)) \in Nat
      /\ Cardinality(Stored(p, a)) \in Nat
      /\ Cardinality(Open(p, a)') \in Nat
      /\ Cardinality(Open(p, a)') <= Cardinality(Executor(p))
      /\ Cardinality(Executor(p)) * armed[a] \in Nat
  <2>1. Cardinality(Open(p, a)') <= Cardinality(Executor(p))
    BY ExecutorFinite DEF FewDicts
  <2>2. QED
    BY <2>1, ExecutorFinite DEF FewDicts, TypeOK, Shapes
<1>2. QED
  BY <1>1, ExecutorFinite DEF Within, Owed

LEMMA StoredFinite ==
    ASSUME FewDicts, NEW p \in Processes, NEW a \in Alarms
    PROVE  IsFiniteSet(Stored(p, a))
BY FS_Subset DEF FewDicts

\* A process that has no new dict has no new open one.
LEMMA NoNewOpen ==
    ASSUME SameFirings, CopiesFire, NEW p \in Processes, NEW a \in Alarms,
           \A d \in Dicts : Lives(p, d, ProjectOf[a])' => Lives(p, d, ProjectOf[a])
    PROVE  /\ Open(p, a)' \subseteq Open(p, a)
           /\ Stored(p, a)' \subseteq Stored(p, a)
<1>1. \A d \in Dicts, places \in {Writing, {"record", "notify"}} :
          Using(p, d, a, places)' => Using(p, d, a, places)
  BY DEF Using, SameFirings, Writing, Executor
<1>2. \A d \in Dicts : Unfired(d, a)' => Unfired(d, a)
  BY DEF Unfired, CopiesFire
<1>3. QED
  BY <1>1, <1>2 DEF Open, Stored, Writing

LEMMA CopyFiredKept ==
    ASSUME Once, TypeOK', CopiesFire,
           \A u \in Threads :
               pc'[u] \in Writing =>
                   \/ pc[u] \in Writing /\ dict'[u] = dict[u] /\ cur'[u] = cur[u]
                   \/ Copy(u)'.state = "alarm"
    PROVE  CopyFired'
<1> SUFFICES ASSUME NEW u \in Threads, pc'[u] \in Writing
             PROVE  Copy(u)'.state = "alarm"
  BY DEF CopyFired
<1>1. CASE Copy(u)'.state = "alarm"
  BY <1>1
<1>2. CASE pc[u] \in Writing /\ dict'[u] = dict[u] /\ cur'[u] = cur[u]
  <2>1. /\ dict[u] \in Dicts /\ cur[u] \in Alarms
        /\ heap[dict[u]][cur[u]].state = "alarm"
    BY <1>2, InHand DEF Once, CopyFired, Copy, Writing, Firing
  <2>2. heap'[dict'[u]][cur'[u]] # None
    BY DEF TypeOK, Locals, Writing, Firing
  <2>3. QED
    BY <1>2, <2>1, <2>2 DEF CopiesFire, Copy
<1>3. QED
  BY <1>1, <1>2

LEMMA OneWriterKept ==
    ASSUME Once, UNCHANGED repeating,
           \A u \in Threads : pc'[u] \in Writing =>
               pc[u] \in Writing /\ dict'[u] = dict[u] /\ cur'[u] = cur[u]
    PROVE  OneWriter'
BY DEF Once, OneWriter

LEMMA Quiet ==
    ASSUME Once, TypeOK', Fillers', SameFirings, CopiesFire,
           UNCHANGED <<db, repeating, sent, armed>>,
           \A p \in Processes, d \in Dicts, j \in Projects : Lives(p, d, j)' => Lives(p, d, j)
    PROVE  CopyFired' /\ OneWriter' /\ Budget'
<1>1. \A u \in Threads : pc'[u] \in Writing =>
          pc[u] \in Writing /\ dict'[u] = dict[u] /\ cur'[u] = cur[u]
  BY DEF SameFirings
<1>2. CopyFired' /\ OneWriter'
  BY <1>1, CopyFiredKept, OneWriterKept
<1>3. FewDicts /\ FewDicts'
  BY Few, FewNext DEF Once
<1>4. ASSUME NEW p \in Processes, NEW a \in Alarms, a \notin repeating
      PROVE  Within(p, a)'
  <2>1. ProjectOf[a] \in Projects
    BY EventAssumption
  <2>2. /\ Open(p, a)' \subseteq Open(p, a)
        /\ Stored(p, a)' \subseteq Stored(p, a)
    BY <2>1, NoNewOpen
  <2>3. Within(p, a) /\ IsFiniteSet(Stored(p, a))
    BY <1>3, <1>4, StoredFinite DEF Once, Budget
  <2>4. RowUnfired(a)' <=> RowUnfired(a)
    BY DEF RowUnfired, Exists
  <2>5. QED
    BY <1>3, <2>2, <2>3, <2>4, Kept DEF Once
<1>5. Budget'
  BY <1>4 DEF Once, Budget
<1>6. QED
  BY <1>2, <1>5

\* A thread that neither writes a row nor begins to.
LEMMA SameFiringsOf ==
    ASSUME NEW t \in Threads, pc'[t] \notin Writing,
           \A u \in Threads \ {t} :
               pc'[u] = pc[u] /\ dict'[u] = dict[u] /\ cur'[u] = cur[u]
    PROVE  SameFirings
BY DEF SameFirings

\* The steps that only read, and those that end an event.
LEMMA OnceQuietThread ==
    ASSUME Once, TypeOK', Fillers', NEW t \in Threads,
           \/ \E e \in Events : Receive(t, e)
           \/ LookUp(t) \/ KeyMissing(t) \/ NotConverted(t) \/ CheckAge(t) \/ Drop(t) \/ Use(t) \/ Fill(t)
           \/ \E a \in Alarms : EvaluateAlarm(t, a)
           \/ LastAlarm(t) \/ LoadFails(t) \/ RefreshFails(t)
    PROVE  CopyFired' /\ OneWriter' /\ Budget'
<1> DEFINE Reads == \/ LookUp(t) \/ CheckAge(t) \/ RefreshFails(t)
                    \/ \E a \in Alarms : EvaluateAlarm(t, a)
           Ends == KeyMissing(t) \/ NotConverted(t) \/ LastAlarm(t) \/ LoadFails(t)
<1>1. TypeOK /\ Shapes
  BY DEF Once, TypeOK
<1>2. UNCHANGED <<db, repeating, sent, armed>>
  BY DEF Receive, LookUp, KeyMissing, NotConverted, CheckAge, Drop, Use, Fill, EvaluateAlarm,
         LastAlarm, LoadFails, RefreshFails
<1>3. SameFirings
  <2>1. /\ pc'[t] \notin Writing
        /\ \A u \in Threads \ {t} : pc'[u] = pc[u]
    BY <1>1 DEF Shapes, Receive, LookUp, KeyMissing, NotConverted, CheckAge, Drop, Use, Fill,
                EvaluateAlarm, LastAlarm, LoadFails, RefreshFails, EndEvent, Goto, Writing
  <2>2. \A u \in Threads \ {t} : dict'[u] = dict[u] /\ cur'[u] = cur[u]
    BY <1>1 DEF Shapes, Receive, LookUp, KeyMissing, NotConverted, CheckAge, Drop, Use, Fill,
                EvaluateAlarm, LastAlarm, LoadFails, RefreshFails, EndEvent, loop
  <2>3. QED
    BY <2>1, <2>2, SameFiringsOf
<1>4. CopiesFire
  <2>1. CASE Reads \/ Use(t) \/ \E e \in Events : Receive(t, e)
    BY <2>1 DEF CopiesFire, Receive, LookUp, CheckAge, EvaluateAlarm, Use, RefreshFails
  <2>2. CASE Ends
    <3>1. heap' = Collected(caches, dict')
      BY <2>2 DEF KeyMissing, NotConverted, LastAlarm, LoadFails, EndEvent
    <3>2. QED
      BY <1>1, <3>1, CollectedType DEF CopiesFire, EmptyDict
  <2>3. CASE Drop(t) \/ Fill(t)
    <3>1. heap' = Collected(caches', dict)
      BY <2>3 DEF Drop, Fill
    <3>2. QED
      BY <1>1, <3>1, CollectedType DEF CopiesFire, EmptyDict
  <2>4. QED
    BY <2>1, <2>2, <2>3
<1>5. ASSUME NEW p \in Processes, NEW d \in Dicts, NEW j \in Projects, Lives(p, d, j)'
      PROVE  Lives(p, d, j)
  <2>0. d # None /\ j # None
    BY EventAssumption
  <2>1. CASE Reads
    BY <1>5, <2>1 DEF Lives, LookUp, CheckAge, EvaluateAlarm, RefreshFails, loop, event,
                      Executor
  <2>2. ASSUME NEW e \in Events, Receive(t, e)
        PROVE  Lives(p, d, j)
    <3>1. dict[t] = None
      BY <1>1, <2>2 DEF TypeOK, Locals, Receive, Firing
    <3>2. /\ caches' = caches /\ dict' = dict
          /\ \A u \in Threads \ {t} : project'[u] = project[u]
      BY <1>1, <2>2 DEF Shapes, Receive, loop
    <3>3. QED
      BY <1>5, <2>0, <3>1, <3>2 DEF Lives, Executor
  <2>3. CASE Ends
    <3>1. /\ caches' = caches /\ dict' = [dict EXCEPT ![t] = None]
          /\ project' = [project EXCEPT ![t] = None]
      BY <2>3 DEF KeyMissing, NotConverted, LastAlarm, LoadFails, EndEvent
    <3>2. QED
      BY <1>1, <1>5, <2>0, <3>1 DEF Lives, Shapes, Executor
  <2>4. CASE Use(t)
    <3>1. /\ caches' = caches /\ dict' = [dict EXCEPT ![t] = Cached(t)] /\ project' = project
          /\ Owner[t] \in Processes /\ project[t] \in Projects
      BY <2>4, <1>1, HasProject DEF Use, event
    <3>2. QED
      BY <1>1, <1>5, <3>1 DEF Lives, Shapes, Cached, Executor
  <2>5. CASE Drop(t) \/ Fill(t)
    <3>1. PICK v \in {None, dict[t]} :
              /\ dict' = dict /\ project' = project
              /\ caches' = [caches EXCEPT ![Owner[t]][project[t]] = v]
      BY <2>5 DEF Drop, Fill, loop, event
    <3>2. Owner[t] \in Processes /\ project[t] \in Projects
      BY <2>5, <1>1, HasProject DEF Drop, Fill
    <3>3. \/ caches'[p][j] = caches[p][j]
          \/ caches'[p][j] = v /\ p = Owner[t] /\ j = project[t]
      BY <1>1, <3>1, <3>2 DEF Shapes
    <3>4. QED
      BY <1>5, <2>0, <3>1, <3>3 DEF Lives, Executor
  <2>6. QED
    BY <2>1, <2>2, <2>3, <2>4, <2>5
<1>6. QED
  BY <1>2, <1>3, <1>4, <1>5, Quiet

\* The copies of a new dict are not fired only if the row is not.
LEMMA OnceLoad ==
    ASSUME Once, TypeOK', Fillers', NEW t \in Threads, Load(t)
    PROVE  CopyFired' /\ OneWriter' /\ Budget'
<1>1. TypeOK /\ Shapes
  BY DEF Once, TypeOK
<1>2. PICK d \in Dicts : /\ ~Used(d, caches, dict)
                        /\ heap' = [heap EXCEPT ![d] = Loaded(project[t])]
                        /\ dict' = [dict EXCEPT ![t] = d]
  BY DEF Load
<1>3. UNCHANGED <<db, repeating, caches, project, cur, sent, armed>>
  BY DEF Load, event
<1>4. SameFirings
  <2>1. /\ pc'[t] \notin Writing
        /\ \A u \in Threads \ {t} : pc'[u] = pc[u] /\ dict'[u] = dict[u] /\ cur'[u] = cur[u]
    BY <1>1, <1>2, <1>3 DEF Shapes, Load, Goto, Writing
  <2>2. QED
    BY <2>1, SameFiringsOf
<1>5. \A e \in Dicts : e # d => heap'[e] = heap[e]
  BY <1>1, <1>2 DEF Shapes
<1>6. CopyFired'
  <2> SUFFICES ASSUME NEW u \in Threads, pc'[u] \in Writing
               PROVE  Copy(u)'.state = "alarm"
    BY DEF CopyFired
  <2>1. pc[u] \in Writing /\ dict'[u] = dict[u] /\ cur'[u] = cur[u]
    BY <1>4 DEF SameFirings
  <2>2. dict[u] \in Dicts /\ dict[u] # d
    BY <1>1, <1>2, <2>1, InHand DEF Used, Writing, Firing
  <2>3. heap[dict[u]][cur[u]].state = "alarm"
    BY <2>1 DEF Once, CopyFired, Copy
  <2>4. QED
    BY <1>5, <2>1, <2>2, <2>3 DEF Copy
<1>7. OneWriter'
  BY <1>3, <1>4, OneWriterKept DEF SameFirings
<1>8. FewDicts /\ FewDicts'
  BY Few, FewNext DEF Once
<1>9. ASSUME NEW p \in Processes, NEW a \in Alarms, a \notin repeating
      PROVE  Within(p, a)'
  <2>1. Stored(p, a)' \subseteq Stored(p, a)
    BY <1>4 DEF Stored, Using, SameFirings, Writing, Executor
  <2>2. ASSUME ~RowUnfired(a), NEW e \in Open(p, a)'
        PROVE  e \in Open(p, a)
    <3>1. e \in Dicts
      BY <2>2 DEF Open
    <3>2. CASE Using(p, e, a, Writing)'
      BY <1>4, <3>1, <3>2 DEF Open, Using, SameFirings, Executor
    <3>3. CASE e = d /\ Unfired(e, a)'
      <4>1. heap'[d][a] = Loaded(project[t])[a]
        BY <1>1, <1>2 DEF Shapes
      <4>2. Exists(a) /\ Loaded(project[t])[a] = db[a]
        BY <3>3, <4>1 DEF Loaded, Unfired
      <4>3. QED
        BY <2>2, <3>3, <4>1, <4>2 DEF Unfired, RowUnfired
    <3>4. CASE e # d /\ Lives(p, e, ProjectOf[a])' /\ Unfired(e, a)'
      <4>1. Lives(p, e, ProjectOf[a])
        BY <1>1, <1>2, <1>3, <3>4 DEF Lives, Shapes, Executor
      <4>2. Unfired(e, a)
        BY <1>5, <3>1, <3>4 DEF Unfired
      <4>3. QED
        BY <3>1, <4>1, <4>2 DEF Open
    <3>5. QED
      BY <2>2, <3>2, <3>3, <3>4 DEF Open
  <2>3. Within(p, a) /\ IsFiniteSet(Stored(p, a))
    BY <1>8, <1>9, StoredFinite DEF Once, Budget
  <2>4. RowUnfired(a)' <=> RowUnfired(a)
    BY <1>3 DEF RowUnfired, Exists
  <2>5. ~RowUnfired(a) => Open(p, a)' \subseteq Open(p, a)
    BY <2>2
  <2>6. sent'[p][a] = sent[p][a] /\ armed'[a] = armed[a]
    BY <1>3
  <2>7. QED
    BY <1>1, <1>8, <2>1, <2>3, <2>4, <2>5, <2>6, Kept
<1>10. Budget'
  BY <1>3, <1>9 DEF Once, Budget
<1>11. QED
  BY <1>6, <1>7, <1>10

\* The last step of _refresh, and time.
LEMMA OnceMark ==
    ASSUME Once, TypeOK', Fillers',
           \/ \E t \in Threads : Mark(t)
           \/ \E p \in Processes, j \in Projects : Age(p, j)
    PROVE  CopyFired' /\ OneWriter' /\ Budget'
<1>1. TypeOK /\ Shapes
  BY DEF Once, TypeOK
<1>2. UNCHANGED <<db, repeating, caches, project, dict, sent, armed>>
  BY DEF Mark, Age, loop, event
<1>3. SameFirings
  <2>1. CASE \E p \in Processes, j \in Projects : Age(p, j)
    BY <2>1 DEF Age, SameFirings, loop
  <2>2. ASSUME NEW t \in Threads, Mark(t)
        PROVE  SameFirings
    <3>1. /\ pc'[t] \notin Writing
          /\ \A u \in Threads \ {t} : pc'[u] = pc[u] /\ cur'[u] = cur[u]
      BY <1>1, <2>2 DEF Shapes, Mark, Goto, Writing
    <3>2. QED
      BY <1>2, <3>1, SameFiringsOf
  <2>3. QED
    BY <2>1, <2>2
<1>4. CopiesFire
  <2>1. CASE \E p \in Processes, j \in Projects : Age(p, j)
    BY <2>1 DEF Age, CopiesFire
  <2>2. ASSUME NEW t \in Threads, Mark(t)
        PROVE  CopiesFire
    <3>1. cur[t] \in Alarms /\ Cached(t) \in Dicts \cup {None}
      BY <1>1, <2>2, InHand, HasProject DEF Mark, Firing
    <3>2. CASE heap' = heap
      BY <3>2 DEF CopiesFire
    <3>3. CASE heap' # heap
      <4>1. /\ Cached(t) \in Dicts /\ heap[Cached(t)][cur[t]] \in Row
            /\ heap' = [heap EXCEPT ![Cached(t)][cur[t]].state = "alarm"]
        BY <1>1, <2>2, <3>1, <3>3, CopyType DEF Mark
      <4>2. \A d \in Dicts, a \in Alarms :
                \/ heap'[d][a] = heap[d][a]
                \/ /\ d = Cached(t) /\ a = cur[t]
                   /\ heap'[d][a] = [heap[d][a] EXCEPT !.state = "alarm"]
        BY <1>1, <3>1, <4>1 DEF Shapes
      <4>3. \A row \in Row : [row EXCEPT !.state = "alarm"].state = "alarm"
        BY DEF Row
      <4>4. QED
        BY <4>1, <4>2, <4>3 DEF CopiesFire
    <3>4. QED
      BY <3>2, <3>3
  <2>3. QED
    BY <2>1, <2>2
<1>5. \A p \in Processes, d \in Dicts, j \in Projects : Lives(p, d, j)' => Lives(p, d, j)
  BY <1>2 DEF Lives, Executor
<1>6. QED
  BY <1>2, <1>3, <1>4, <1>5, Quiet

\* A thread takes a copy that is not fired: the dict stays open, and no other
\* thread is about to write from it.
LEMMA OnceRefresh ==
    ASSUME Once, TypeOK', Fillers', NEW t \in Threads, Refresh(t)
    PROVE  CopyFired' /\ OneWriter' /\ Budget'
<1>1. TypeOK /\ Shapes
  BY DEF Once, TypeOK
<1>2. /\ dict[t] \in Dicts /\ cur[t] \in Alarms /\ project[t] \in Projects
      /\ Copy(t) \in Row /\ heap[dict[t]][cur[t]] # None
  BY <1>1, InHand DEF TypeOK, Locals, Refresh, Firing
<1>3. UNCHANGED <<db, repeating, caches, project, dict, cur, sent, armed>>
  BY DEF Refresh, loop, event
<1>4. \A d \in Dicts, a \in Alarms :
          \/ heap'[d][a] = heap[d][a] /\ (d # dict[t] \/ a # cur[t])
          \/ d = dict[t] /\ a = cur[t] /\ heap'[d][a].state = "alarm"
  <2>1. \A d \in Dicts, a \in Alarms :
            \/ heap'[d][a] = heap[d][a] /\ (d # dict[t] \/ a # cur[t])
            \/ /\ d = dict[t] /\ a = cur[t]
               /\ heap'[d][a] = [Copy(t) EXCEPT !.state = "alarm"]
    BY <1>1, <1>2 DEF Shapes, Refresh, Copy
  <2>2. [Copy(t) EXCEPT !.state = "alarm"].state = "alarm"
    BY <1>2 DEF Row
  <2>3. QED
    BY <2>1, <2>2
<1>5. CopiesFire
  BY <1>4 DEF CopiesFire
<1>6. /\ \A u \in Threads \ {t} : pc'[u] = pc[u]
      /\ pc'[t] = IF Copy(t).state # "alarm" \/ cur[t] \in repeating
                    THEN "store" ELSE "mark"
  BY <1>1 DEF Shapes, Refresh, Goto
<1>7. CopyFired'
  <2>1. Copy(t)'.state = "alarm"
    BY <1>2, <1>3, <1>4 DEF Copy
  <2>2. \A u \in Threads : pc'[u] \in Writing =>
            \/ pc[u] \in Writing /\ dict'[u] = dict[u] /\ cur'[u] = cur[u]
            \/ Copy(u)'.state = "alarm"
    BY <1>3, <1>6, <2>1
  <2>3. QED
    BY <1>5, <2>2, CopyFiredKept
<1>8. OneWriter'
  <2> SUFFICES ASSUME NEW u \in Threads, NEW v \in Threads,
                      pc'[u] \in Writing, pc'[v] \in Writing,
                      dict[u] = dict[v], cur[u] = cur[v], cur[u] \notin repeating
               PROVE  u = v
    BY <1>3 DEF OneWriter
  <2>1. ASSUME NEW w \in Threads, w # t, pc'[t] \in Writing, pc'[w] \in Writing,
               dict[w] = dict[t], cur[w] = cur[t], cur[w] \notin repeating
        PROVE  FALSE
    <3>1. Copy(t).state # "alarm"
      BY <1>6, <2>1 DEF Writing
    <3>2. Copy(w).state = "alarm"
      BY <1>6, <2>1 DEF Once, CopyFired
    <3>3. QED
      BY <2>1, <3>1, <3>2 DEF Copy
  <2>2. CASE u # t /\ v # t
    BY <1>6, <2>2 DEF Once, OneWriter
  <2>3. QED
    BY <2>1, <2>2
<1>9. FewDicts /\ FewDicts'
  BY Few, FewNext DEF Once
<1>10. ASSUME NEW p \in Processes, NEW a \in Alarms, a \notin repeating
       PROVE  Within(p, a)'
  <2>1. Stored(p, a)' \subseteq Stored(p, a)
    <3>1. \A u \in Threads : pc'[u] \in {"record", "notify"} => pc'[u] = pc[u]
      BY <1>6
    <3>2. QED
      BY <1>3, <3>1 DEF Stored, Using, Executor
  <2>2. ASSUME NEW d \in Open(p, a)'
        PROVE  d \in Open(p, a)
    <3>1. d \in Dicts
      BY <2>2 DEF Open
    <3>2. CASE Lives(p, d, ProjectOf[a])' /\ Unfired(d, a)'
      <4>1. Lives(p, d, ProjectOf[a])
        BY <1>3, <3>2 DEF Lives, Executor
      <4>2. Unfired(d, a)
        BY <1>5, <3>1, <3>2 DEF Unfired, CopiesFire
      <4>3. QED
        BY <3>1, <4>1, <4>2 DEF Open
    <3>3. CASE Using(p, d, a, Writing)'
      <4>1. PICK u \in Executor(p) : dict[u] = d /\ cur[u] = a /\ pc'[u] \in Writing
        BY <1>3, <3>3 DEF Using, Executor
      <4>2. u \in Threads
        BY DEF Executor
      <4>3. CASE u # t
        BY <1>6, <3>1, <4>1, <4>2, <4>3 DEF Open, Using
      <4>4. CASE u = t
        <5>1. Unfired(d, a)
          BY <1>2, <1>6, <1>10, <4>1, <4>4 DEF Unfired, Copy, Writing
        <5>2. project[t] = ProjectOf[a]
          BY <1>1, <1>2, <4>1, <4>4, EventAssumption DEF TypeOK, OneProjectPerDict
        <5>3. QED
          BY <3>1, <4>1, <4>4, <5>1, <5>2 DEF Open, Lives
      <4>5. QED
        BY <4>3, <4>4
    <3>4. QED
      BY <2>2, <3>2, <3>3 DEF Open
  <2>3. Within(p, a) /\ IsFiniteSet(Stored(p, a))
    BY <1>9, <1>10, StoredFinite DEF Once, Budget
  <2>4. RowUnfired(a)' <=> RowUnfired(a)
    BY <1>3 DEF RowUnfired, Exists
  <2>5. Open(p, a)' \subseteq Open(p, a)
    BY <2>2
  <2>6. sent'[p][a] = sent[p][a] /\ armed'[a] = armed[a]
    BY <1>3
  <2>7. QED
    BY <1>1, <1>9, <2>1, <2>3, <2>4, <2>5, <2>6, Kept
<1>11. Budget'
  BY <1>3, <1>10 DEF Once, Budget
<1>12. QED
  BY <1>7, <1>8, <1>11

\* A dict from which a notification was sent is no longer open.
LEMMA NotifyPays ==
    ASSUME Once, TypeOK', Fillers', NEW t \in Threads, Notify(t),
           NEW p \in Processes, p = Owner[t],
           NEW a \in Alarms, a = cur[t], a \notin repeating,
           NEW d \in Dicts, d = dict[t]
    PROVE  Within(p, a)'
<1>1. TypeOK /\ Shapes
  BY DEF Once, TypeOK
<1>2. t \in Executor(p) /\ Copy(t).state = "alarm"
  BY DEF Notify, Once, CopyFired, Writing, Executor
<1>3. /\ UNCHANGED <<db, repeating, caches, heap, project, dict, cur, armed>>
      /\ pc' = [pc EXCEPT ![t] = "mark"]
      /\ sent'[p][a] = sent[p][a] + 1
  BY <1>1, <1>2 DEF Shapes, Notify, Goto, loop, event
<1>4. \A u \in Threads : pc'[u] \in Writing => u # t /\ pc[u] = pc'[u]
  BY <1>1, <1>3 DEF Shapes, Writing
<1>5. \A places \in {Writing, {"record", "notify"}} : ~Using(p, d, a, places)'
  <2> SUFFICES ASSUME NEW u \in Executor(p), dict[u] = d, cur[u] = a, pc'[u] \in Writing
               PROVE  FALSE
    BY <1>3 DEF Using, Executor, Writing
  <2>1. u \in Threads /\ u # t /\ pc[u] \in Writing
    BY <1>4 DEF Executor
  <2>2. QED
    BY <2>1 DEF Once, OneWriter, Notify, Writing
<1>6. \A e \in Dicts, places \in {Writing, {"record", "notify"}} :
          Using(p, e, a, places)' => Using(p, e, a, places)
  BY <1>3, <1>4 DEF Using, Executor, Writing
<1>7. Stored(p, a)' \subseteq Stored(p, a) \ {d} /\ d \in Stored(p, a)
  <2>1. Using(p, d, a, {"record", "notify"})
    BY <1>2 DEF Using, Notify
  <2>2. QED
    BY <1>2, <1>5, <1>6, <2>1 DEF Stored
<1>8. Open(p, a)' \subseteq Open(p, a) \ {d} /\ d \in Open(p, a)
  <2>1. ~Unfired(d, a)'
    BY <1>2, <1>3 DEF Unfired, Copy
  <2>2. \A e \in Dicts :
            Lives(p, e, ProjectOf[a])' /\ Unfired(e, a)'
                => Lives(p, e, ProjectOf[a]) /\ Unfired(e, a)
    BY <1>3 DEF Lives, Unfired, Executor
  <2>3. Using(p, d, a, Writing)
    BY <1>2 DEF Using, Notify, Writing
  <2>4. QED
    BY <1>2, <1>3, <1>5, <1>6, <2>1, <2>2, <2>3 DEF Open
<1>9. FewDicts /\ FewDicts' /\ IsFiniteSet(Stored(p, a))
  BY <1>2, Few, FewNext, StoredFinite DEF Once
<1>10. /\ Cardinality(Stored(p, a)') + 1 <= Cardinality(Stored(p, a))
       /\ Cardinality(Open(p, a)') + 1 <= Cardinality(Open(p, a))
  <2>1. /\ Cardinality(Stored(p, a)') <= Cardinality(Stored(p, a) \ {d})
        /\ Cardinality(Stored(p, a) \ {d}) = Cardinality(Stored(p, a)) - 1
    <3>1. IsFiniteSet(Stored(p, a) \ {d})
      BY <1>9, FS_RemoveElement
    <3>2. Cardinality(Stored(p, a)') <= Cardinality(Stored(p, a) \ {d})
      BY <1>7, <3>1, FS_Subset
    <3>3. QED
      BY <1>7, <1>9, <3>2, FS_RemoveElement
  <2>2. /\ Cardinality(Open(p, a)') <= Cardinality(Open(p, a) \ {d})
        /\ Cardinality(Open(p, a) \ {d}) = Cardinality(Open(p, a)) - 1
    <3>1. IsFiniteSet(Open(p, a)) /\ IsFiniteSet(Open(p, a) \ {d})
      BY <1>2, <1>9, FS_RemoveElement DEF FewDicts
    <3>2. Cardinality(Open(p, a)') <= Cardinality(Open(p, a) \ {d})
      BY <1>8, <3>1, FS_Subset
    <3>3. QED
      BY <1>8, <3>1, <3>2, FS_RemoveElement
  <2>3. /\ Cardinality(Stored(p, a)) \in Nat /\ Cardinality(Stored(p, a)') \in Nat
        /\ Cardinality(Open(p, a)) \in Nat /\ Cardinality(Open(p, a)') \in Nat
    BY <1>2, <1>9 DEF FewDicts
  <2>4. QED
    BY <2>1, <2>2, <2>3
<1>11. /\ Cardinality(Stored(p, a)) \in Nat /\ Cardinality(Stored(p, a)') \in Nat
       /\ Cardinality(Open(p, a)) \in Nat /\ Cardinality(Open(p, a)') \in Nat
       /\ Cardinality(Executor(p)) \in Nat
       /\ Cardinality(Executor(p)) * armed[a] \in Nat /\ sent[p][a] \in Nat
  BY <1>1, <1>2, <1>9, ExecutorFinite DEF FewDicts, Shapes
<1>12. Within(p, a) /\ (RowUnfired(a)' <=> RowUnfired(a))
  BY <1>2, <1>3 DEF Once, Budget, RowUnfired, Exists
<1>13. sent'[p][a] + Owed(p, a)' <= Cardinality(Executor(p)) * armed'[a]
  <2>1. Owed(p, a)' + 1 <= Owed(p, a) /\ Owed(p, a)' \in Nat /\ Owed(p, a) \in Nat
    BY <1>2, <1>10, <1>11, <1>12, ExecutorFinite DEF Owed
  <2>2. QED
    BY <1>3, <1>11, <1>12, <2>1 DEF Within
<1>14. QED
  BY <1>2, <1>3, <1>13, ExecutorFinite DEF Within

\* A thread writes the row, records the change and notifies.
LEMMA OnceFire ==
    ASSUME Once, TypeOK', Fillers', NEW t \in Threads,
           Store(t) \/ StoreNotFound(t) \/ Record(t) \/ Notify(t)
    PROVE  CopyFired' /\ OneWriter' /\ Budget'
<1>1. TypeOK /\ Shapes
  BY DEF Once, TypeOK
<1>2. pc[t] \in Writing
  BY DEF Store, StoreNotFound, Record, Notify, Writing
<1>3. /\ Owner[t] \in Processes /\ cur[t] \in Alarms
      /\ Copy(t) \in Row /\ Copy(t).state = "alarm"
  BY <1>1, <1>2, InHand, EventAssumption DEF Once, CopyFired, Writing, Firing
<1>4. UNCHANGED <<repeating, caches, heap, project, dict, cur, armed>>
  BY DEF Store, StoreNotFound, Record, Notify, loop, event
<1>5. \A u \in Threads \ {t} : pc'[u] = pc[u]
  BY <1>1 DEF Shapes, Store, StoreNotFound, Record, Notify, Goto
<1>6. CopyFired' /\ OneWriter'
  BY <1>2, <1>4, <1>5 DEF Once, CopyFired, OneWriter, Copy
<1>7. FewDicts /\ FewDicts'
  BY Few, FewNext DEF Once
<1>8. \A a \in Alarms :
          \/ db'[a] = db[a]
          \/ Store(t) /\ a = cur[t] /\ db'[a].state = "alarm"
  <2>1. CASE Store(t)
    BY <1>1, <1>3, <2>1 DEF Shapes, Store
  <2>2. CASE ~Store(t)
    BY <2>2 DEF StoreNotFound, Record, Notify
  <2>3. QED
    BY <2>1, <2>2
<1>9. \A p \in Processes, a \in Alarms :
          \/ sent'[p][a] = sent[p][a]
          \/ Notify(t) /\ p = Owner[t] /\ a = cur[t] /\ a \notin repeating
  <2>1. CASE Notify(t)
    BY <1>1, <1>3, <2>1 DEF Shapes, Notify
  <2>2. CASE ~Notify(t)
    BY <2>2 DEF Store, StoreNotFound, Record
  <2>3. QED
    BY <2>1, <2>2
<1>10. ASSUME NEW p \in Processes, NEW a \in Alarms, a \notin repeating,
              ~(Notify(t) /\ p = Owner[t] /\ a = cur[t])
       PROVE  Within(p, a)'
  <2>1. Within(p, a) /\ IsFiniteSet(Stored(p, a))
    BY <1>7, <1>10, StoredFinite DEF Once, Budget
  <2>2. sent'[p][a] = sent[p][a] /\ armed'[a] = armed[a]
    BY <1>4, <1>9, <1>10
  <2>3. Open(p, a)' \subseteq Open(p, a)
    BY <1>2, <1>4, <1>5 DEF Open, Lives, Unfired, Using, Executor
  <2>4. CASE Store(t) /\ a = cur[t] /\ RowUnfired(a)
    <3>1. ~RowUnfired(a)'
      BY <1>1, <1>3, <2>4 DEF RowUnfired, Store, Shapes
    <3>2. QED
      BY <1>1, <1>7, <2>1, <2>2, <2>4, <3>1, Fired
  <2>5. CASE ~(Store(t) /\ a = cur[t] /\ RowUnfired(a))
    <3>1. RowUnfired(a)' <=> RowUnfired(a)
      <4>1. CASE db'[a] = db[a]
        BY <4>1 DEF RowUnfired, Exists
      <4>2. CASE db'[a] # db[a]
        <5>1. Store(t) /\ a = cur[t] /\ db'[a].state = "alarm"
          BY <1>8, <4>2
        <5>2. QED
          BY <2>5, <5>1 DEF RowUnfired
      <4>3. QED
        BY <4>1, <4>2
    <3>2. RowUnfired(a) => Stored(p, a)' \subseteq Stored(p, a)
      <4> SUFFICES ASSUME RowUnfired(a), NEW e \in Dicts, NEW u \in Executor(p),
                          dict[u] = e, cur[u] = a, pc'[u] \in {"record", "notify"}
                   PROVE  pc[u] \in {"record", "notify"}
        BY <1>4 DEF Stored, Using, Executor
      <4>1. u \in Threads
        BY DEF Executor
      <4>2. CASE u # t
        BY <1>5, <4>1, <4>2
      <4>3. CASE u = t
        <5>1. ~Store(t) /\ ~StoreNotFound(t)
          BY <2>5, <4>3 DEF StoreNotFound, RowUnfired
        <5>2. QED
          BY <4>3, <5>1 DEF Record, Notify
      <4>4. QED
        BY <4>2, <4>3
    <3>3. QED
      BY <1>1, <1>7, <2>1, <2>2, <2>3, <3>1, <3>2, Kept
  <2>6. QED
    BY <2>4, <2>5
<1>11. ASSUME NEW p \in Processes, NEW a \in Alarms, a \notin repeating
       PROVE  Within(p, a)'
  <2>1. dict[t] \in Dicts
    BY <1>1, <1>2, InHand DEF Writing, Firing
  <2>2. CASE Notify(t) /\ p = Owner[t] /\ a = cur[t]
    BY <1>11, <2>1, <2>2, NotifyPays
  <2>3. QED
    BY <1>10, <1>11, <2>2
<1>12. Budget'
  BY <1>4, <1>9, <1>11 DEF Once, Budget
<1>13. QED
  BY <1>6, <1>12

\* A crash closes the dicts of the process.
LEMMA OnceCrash ==
    ASSUME Once, TypeOK', Fillers', NEW p \in Processes, Crash(p)
    PROVE  CopyFired' /\ OneWriter' /\ Budget'
<1>1. TypeOK /\ Shapes
  BY DEF Once, TypeOK
<1>2. UNCHANGED <<db, repeating, sent, armed>>
  BY DEF Crash
<1>3. \A u \in Threads :
          IF Owner[u] = p THEN pc'[u] = "idle" /\ dict'[u] = None
          ELSE /\ pc'[u] = pc[u] /\ dict'[u] = dict[u] /\ cur'[u] = cur[u]
               /\ project'[u] = project[u]
  BY DEF Crash
<1>4. CopiesFire
  <2>1. heap' = Collected(caches', dict')
    BY DEF Crash
  <2>2. QED
    BY <1>1, <2>1, CollectedType DEF CopiesFire, EmptyDict
<1>5. SameFirings
  BY <1>3 DEF SameFirings, Writing
<1>6. ASSUME NEW q \in Processes, NEW d \in Dicts, NEW j \in Projects, Lives(q, d, j)'
      PROVE  Lives(q, d, j)
  <2>1. caches'[q][j] \in {None, caches[q][j]}
    BY <1>1 DEF Crash, Shapes
  <2>2. d # None
    BY EventAssumption
  <2>3. QED
    BY <1>3, <1>6, <2>1, <2>2 DEF Lives, Executor
<1>7. QED
  BY <1>2, <1>4, <1>5, <1>6, Quiet

\* A request that puts the alarm into another state pays for one notification of
\* every thread.
LEMMA OnceRequest ==
    ASSUME Once, TypeOK', Fillers', NEW b \in Alarms,
           Delete(b) \/ \E row \in Row : Write(b, row)
    PROVE  CopyFired' /\ OneWriter' /\ Budget'
<1>1. TypeOK /\ Shapes
  BY DEF Once, TypeOK
<1>2. UNCHANGED <<repeating, caches, heap, pc, project, dict, cur, sent>>
  BY DEF Delete, Write, loop, event
<1>3. CopyFired' /\ OneWriter'
  BY <1>2 DEF Once, CopyFired, OneWriter, Copy
<1>4. \A a \in Alarms :
          \/ db'[a] = db[a] /\ armed'[a] = armed[a]
          \/ ~RowUnfired(a)' /\ armed'[a] = armed[a]
          \/ RowUnfired(a)' /\ armed'[a] = armed[a] + 1
  <2>1. CASE Delete(b)
    BY <1>1, <2>1 DEF Delete, RowUnfired, Exists, Shapes
  <2>2. ASSUME NEW row \in Row, Write(b, row)
        PROVE  \A a \in Alarms :
                   \/ db'[a] = db[a] /\ armed'[a] = armed[a]
                   \/ ~RowUnfired(a)' /\ armed'[a] = armed[a]
                   \/ RowUnfired(a)' /\ armed'[a] = armed[a] + 1
    BY <1>1, <2>2, EventAssumption DEF Write, Shapes, RowUnfired, Exists
  <2>3. QED
    BY <2>1, <2>2
<1>5. FewDicts /\ FewDicts'
  BY Few, FewNext DEF Once
<1>6. ASSUME NEW p \in Processes, NEW a \in Alarms, a \notin repeating
      PROVE  Within(p, a)'
  <2>1. Within(p, a) /\ IsFiniteSet(Stored(p, a))
    BY <1>5, <1>6, StoredFinite DEF Once, Budget
  <2>2. Open(p, a)' = Open(p, a) /\ Stored(p, a)' = Stored(p, a)
    BY <1>2 DEF Open, Stored, Lives, Unfired, Using, Executor
  <2>3. sent'[p][a] = sent[p][a]
    BY <1>2
  <2>4. CASE (RowUnfired(a)' <=> RowUnfired(a)) /\ armed'[a] = armed[a]
    BY <1>1, <1>5, <2>1, <2>2, <2>3, <2>4, Kept
  <2>5. CASE RowUnfired(a) /\ ~RowUnfired(a)' /\ armed'[a] = armed[a]
    BY <1>1, <1>5, <2>1, <2>3, <2>5, Fired
  <2>6. CASE RowUnfired(a)' /\ armed'[a] = armed[a] + 1
    <3>1. /\ Cardinality(Stored(p, a)) \in Nat /\ Cardinality(Open(p, a)) \in Nat
          /\ Cardinality(Stored(p, a)) <= Cardinality(Open(p, a))
          /\ Cardinality(Executor(p)) \in Nat /\ sent[p][a] \in Nat /\ armed[a] \in Nat
      BY <1>1, <1>5, ExecutorFinite DEF FewDicts, Shapes
    <3>2. \A n, m \in Nat : n * (m + 1) = n * m + n /\ n * m \in Nat
      OBVIOUS
    <3>3. sent[p][a] + Cardinality(Stored(p, a)) <= Cardinality(Executor(p)) * armed[a]
      <4>1. Cardinality(Stored(p, a)) <= Owed(p, a) /\ Owed(p, a) \in Nat
        BY <3>1 DEF Owed
      <4>2. Cardinality(Executor(p)) * armed[a] \in Nat
        BY <3>1, <3>2
      <4>3. QED
        BY <2>1, <3>1, <4>1, <4>2 DEF Within
    <3>4. Owed(p, a)' = Cardinality(Stored(p, a)) + Cardinality(Executor(p))
      BY <2>2, <2>6, ExecutorFinite DEF Owed
    <3>5. /\ Cardinality(Executor(p)) * armed'[a]
                 = Cardinality(Executor(p)) * armed[a] + Cardinality(Executor(p))
          /\ Cardinality(Executor(p)) * armed[a] \in Nat
      BY <2>6, <3>1, <3>2
    <3>6. sent'[p][a] + Owed(p, a)' <= Cardinality(Executor(p)) * armed'[a]
      BY <2>3, <3>1, <3>3, <3>4, <3>5
    <3>7. QED
      BY <3>6, ExecutorFinite DEF Within
  <2>7. QED
    BY <1>4, <2>4, <2>5, <2>6 DEF RowUnfired, Exists
<1>7. Budget'
  BY <1>2, <1>6 DEF Once, Budget
<1>8. QED
  BY <1>3, <1>7

LEMMA OnceNext == Once /\ [Next]_vars => Once'
<1> SUFFICES ASSUME Once, [Next]_vars PROVE Once'
  OBVIOUS
<1>1. TypeOK'
  BY TypeNext DEF Once
<1>2. CASE UNCHANGED vars
  <2>1. Fillers' /\ CopyFired' /\ OneWriter'
    BY <1>2 DEF vars, event, loop, Once, Fillers, Follows, CopyFired, OneWriter, Copy,
                Executor
  <2>2. \A p \in Processes, a \in Alarms :
            /\ Open(p, a)' = Open(p, a) /\ Stored(p, a)' = Stored(p, a)
            /\ RowUnfired(a)' <=> RowUnfired(a)
    BY <1>2 DEF vars, event, loop, Open, Stored, Lives, Unfired, Using, RowUnfired, Exists,
                Executor
  <2>3. \A p \in Processes, a \in Alarms : Within(p, a) => Within(p, a)'
    BY <1>2, <2>2, ExecutorFinite DEF vars, Within, Owed
  <2>4. Budget'
    BY <1>2, <2>3 DEF vars, Once, Budget
  <2>5. QED
    BY <1>1, <2>1, <2>4 DEF Once
<1>3. CASE Next
  <2>1. Fillers'
    BY <1>3, FillersNext DEF Once
  <2>2. CopyFired' /\ OneWriter' /\ Budget'
    <3>1. ASSUME NEW t \in Threads,
                 \/ \E e \in Events : Receive(t, e)
                 \/ Work(t) \/ RefreshFails(t) \/ LoadFails(t)
          PROVE  CopyFired' /\ OneWriter' /\ Budget'
      <4>1. CASE Load(t)
        BY <1>1, <2>1, <4>1, OnceLoad
      <4>2. CASE Refresh(t)
        BY <1>1, <2>1, <4>2, OnceRefresh
      <4>3. CASE Mark(t)
        BY <1>1, <2>1, <4>3, OnceMark
      <4>4. CASE Store(t) \/ StoreNotFound(t) \/ Record(t) \/ Notify(t)
        BY <1>1, <2>1, <4>4, OnceFire
      <4>5. CASE \/ \E e \in Events : Receive(t, e)
                 \/ LookUp(t) \/ KeyMissing(t) \/ NotConverted(t) \/ CheckAge(t) \/ Drop(t)
                 \/ Use(t) \/ Fill(t)
                 \/ \E a \in Alarms : EvaluateAlarm(t, a)
                 \/ LastAlarm(t) \/ LoadFails(t) \/ RefreshFails(t)
        BY <1>1, <2>1, <4>5, OnceQuietThread
      <4>6. QED
        BY <3>1, <4>1, <4>2, <4>3, <4>4, <4>5 DEF Work, GetProjectAlarms
    <3>2. CASE \E p \in Processes : Crash(p)
      BY <1>1, <2>1, <3>2, OnceCrash
    <3>3. CASE \E p \in Processes, j \in Projects : Age(p, j)
      BY <1>1, <2>1, <3>3, OnceMark
    <3>4. CASE \E a \in Alarms : Delete(a) \/ \E row \in Row : Write(a, row)
      BY <1>1, <2>1, <3>4, OnceRequest
    <3>5. QED
      BY <1>3, <3>1, <3>2, <3>3, <3>4 DEF Next
  <2>3. QED
    BY <1>1, <2>1, <2>2 DEF Once
<1>4. QED
  BY <1>2, <1>3

LEMMA OnceSuffices == Once => FiresOncePerReset
<1> SUFFICES ASSUME Once, NEW p \in Processes, NEW a \in Alarms
             PROVE  sent[p][a] <= Cardinality(Executor(p)) * armed[a]
  BY DEF FiresOncePerReset
<1>1. /\ sent[p][a] \in Nat /\ Cardinality(Executor(p)) \in Nat
      /\ Cardinality(Executor(p)) * armed[a] \in Nat
  BY ExecutorFinite DEF Once, TypeOK, Shapes
<1>2. Owed(p, a) \in Nat
  BY Few, <1>1 DEF Once, FewDicts, Owed
<1>3. QED
  BY <1>1, <1>2 DEF Once, Budget, Within

\* A listener process notifies an alarm without repeat_actions at most as often
\* as it has threads for each time the alarm was put into a state other than
\* "alarm": whatever number of processes and threads fire the alarm, however the
\* threads replace the cache under each other, however often it expires and
\* whichever writes fail.
THEOREM FiresOnce == Spec => []FiresOncePerReset
<1>1. Init => Once
  BY OnceInit
<1>2. Once /\ [Next]_vars => Once'
  BY OnceNext
<1>3. Once => FiresOncePerReset
  BY OnceSuffices
<1>4. QED
  BY <1>1, <1>2, <1>3, PTL DEF Spec
================================================================================
