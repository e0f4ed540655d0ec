------------------------------ MODULE AlarmNotifier ------------------------------
(***************************************************************************)
(* From the queue to the outside: aodh/queue.py publishes a notification,  *)
(* the listeners of aodh/notifier/__init__.py take them in batches, and    *)
(* the plugins of aodh/notifier make the calls that an action stands for.  *)
(*                                                                         *)
(* A call of another service is one step.  A batch is acknowledged after   *)
(* all of it was dispatched; the broker delivers it again when the         *)
(* listener dies before that.                                              *)
(***************************************************************************)
EXTENDS Naturals, Sequences, SequencesExt

CONSTANTS
    Notifications,  \* what the evaluators publish, each once
    ActionsOf,      \* the actions of a notification: [scheme, ...] records
    Notifiers,      \* aodh-notifier processes, one dispatching thread each
    BatchSize,      \* conf.notifier.batch_size
    BatchTimeout,   \* is conf.notifier.batch_timeout set?
    MaxCrashes,     \* bound on the crashes and the terminations
    MaxFailures     \* bound on the calls that fail

ASSUME NotificationsAssumption ==
    \A m \in Notifications : ActionsOf[m] \in Seq(ToSet(ActionsOf[m]))

ASSUME BoundsAssumption ==
    /\ BatchSize \in Nat \ {0}
    /\ BatchTimeout \in BOOLEAN
    /\ {MaxCrashes, MaxFailures} \subseteq Nat

VARIABLES
    published,  \* notifications the evaluators are done with
    queue,      \* messages nobody holds
    batch,      \* the messages a notifier has not acknowledged
    at,         \* the message, the action and the call it has come to
    pc,         \* "listening", "dispatching", "stopping" or "gone"
    calls,      \* how often each call of an action was made
    failed,     \* the actions of which a call failed
    acked,      \* the notifications that were acknowledged
    lost,       \* how often a crash gave a notification back to the broker
    crashes, failures

outcome == <<calls, failed, failures>>
vars == <<published, queue, batch, at, pc, outcome, acked, lost, crashes>>

--------------------------------------------------------------------------------
(* The calls a plugin makes for an action, in order. *)

\* TrustHeatAlarmNotifier: one lookup and one mark for each unhealthy member
\* that is a resource of the stack, then the update of the stack.
HeatCalls(action) ==
    IF action.asg_id = "" THEN <<>>
    ELSE <<"token", "resources.list">>
             \o (IF action.resources THEN <<"mark_unhealthy", "stacks.update">> ELSE <<>>)

\* RestAlarmNotifier, and ZaqarAlarmNotifier for a URL with one subscriber.
RestCalls == <<"post">>
ZaqarCalls == <<"subscription", "queue.post">>

\* TrustAlarmNotifierMixin: a token of the trust, then what its parent calls.
Trusted(plain) == <<"token">> \o plain

\* An action whose URL cannot be parsed has the scheme "".
CallsOf(action) ==
    CASE action.scheme \in {"http", "https"} -> RestCalls
      [] action.scheme \in {"trust+http", "trust+https"} -> Trusted(RestCalls)
      [] action.scheme = "zaqar" -> ZaqarCalls
      [] action.scheme = "trust+zaqar" -> Trusted(<<"queue.post">>)
      [] action.scheme = "trust+heat" -> HeatCalls(action)
      [] OTHER -> <<>>

Actions == UNION {{<<m, a>> : a \in DOMAIN ActionsOf[m]} : m \in Notifications}
CallsOfAction(m, a) == {<<m, a, k>> : k \in DOMAIN CallsOf(ActionsOf[m][a])}

Init ==
    /\ published = {} /\ queue = <<>>
    /\ batch = [n \in Notifiers |-> <<>>]
    /\ at = [n \in Notifiers |-> <<1, 1, 1>>]
    /\ pc = [n \in Notifiers |-> "listening"]
    /\ calls = [c \in UNION {CallsOfAction(t[1], t[2]) : t \in Actions} |-> 0]
    /\ failed = {} /\ acked = {}
    /\ lost = [m \in Notifications |-> 0]
    /\ crashes = 0 /\ failures = 0

\* AlarmNotifier.notify of aodh/queue.py: an alarm without actions for its
\* state is not published.
Notify(m) ==
    /\ m \notin published
    /\ published' = published \cup {m}
    /\ queue' = IF ActionsOf[m] = <<>> THEN queue ELSE Append(queue, m)
    /\ UNCHANGED <<batch, at, pc, outcome, acked, lost, crashes>>

--------------------------------------------------------------------------------
(* The listener and AlarmEndpoint. *)

\* Mutant: a batch is dispatched only when it is full.
BatchFull == Len(queue) >= BatchSize

BatchReady == Len(queue) >= BatchSize \/ (BatchTimeout /\ queue # <<>>)

Receive(n) ==
    LET size == IF Len(queue) < BatchSize THEN Len(queue) ELSE BatchSize
    IN  /\ pc[n] = "listening"
        /\ BatchReady
        /\ batch' = [batch EXCEPT ![n] = SubSeq(queue, 1, size)]
        /\ queue' = SubSeq(queue, size + 1, Len(queue))
        /\ pc' = [pc EXCEPT ![n] = "dispatching"]
        /\ UNCHANGED <<published, at, outcome, acked, lost, crashes>>

\* AlarmEndpoint.sample goes on to the next call, the next action, the next
\* message.
Message(n) == batch[n][at[n][1]]
InBatch(n) == at[n][1] <= Len(batch[n])
InMessage(n) == InBatch(n) /\ at[n][2] <= Len(ActionsOf[Message(n)])
InAction(n) == InMessage(n) /\ at[n][3] <= Len(CallsOf(ActionsOf[Message(n)][at[n][2]]))

NextCall(n) == at' = [at EXCEPT ![n] = <<@[1], @[2], @[3] + 1>>]
NextAction(n) == at' = [at EXCEPT ![n] = <<@[1], @[2] + 1, 1>>]
NextMessage(n) == at' = [at EXCEPT ![n] = <<@[1] + 1, 1, 1>>]

Call(n) ==
    /\ InAction(n)
    /\ calls' = [calls EXCEPT ![<<Message(n), at[n][2], at[n][3]>>] = @ + 1]
    /\ NextCall(n)
    /\ UNCHANGED <<published, queue, batch, pc, failed, acked, lost, crashes, failures>>

\* Mutant: an action that fails ends the dispatching of its message.
AfterFailureNone(n) == NextMessage(n)

\* Mutant: an action that fails is tried again from its first call.
AfterFailureRetry(n) == at' = [at EXCEPT ![n] = <<@[1], @[2], 1>>]

\* _handle_action logs the exception of a plugin and returns.
AfterFailure(n) == NextAction(n)

CallFails(n) ==
    /\ InAction(n)
    /\ failures < MaxFailures
    /\ failures' = failures + 1
    /\ failed' = failed \cup {<<Message(n), at[n][2]>>}
    /\ AfterFailure(n)
    /\ UNCHANGED <<published, queue, batch, pc, calls, acked, lost, crashes>>

\* An action is through; one whose scheme is unknown is from the start.
EndAction(n) ==
    /\ InMessage(n) /\ ~InAction(n)
    /\ NextAction(n)
    /\ UNCHANGED <<published, queue, batch, pc, outcome, acked, lost, crashes>>

EndMessage(n) ==
    /\ InBatch(n) /\ ~InMessage(n)
    /\ NextMessage(n)
    /\ UNCHANGED <<published, queue, batch, pc, outcome, acked, lost, crashes>>

\* allow_requeue is false: whatever happened, the batch is acknowledged.
Acknowledge(n) ==
    /\ batch[n] # <<>> /\ ~InBatch(n)
    /\ acked' = acked \cup ToSet(batch[n])
    /\ batch' = [batch EXCEPT ![n] = <<>>]
    /\ at' = [at EXCEPT ![n] = <<1, 1, 1>>]
    /\ pc' = [pc EXCEPT ![n] = IF @ = "stopping" THEN "gone" ELSE "listening"]
    /\ UNCHANGED <<published, queue, outcome, lost, crashes>>

--------------------------------------------------------------------------------
(* The process. *)

Die(n, label) ==
    /\ crashes < MaxCrashes
    /\ crashes' = crashes + 1
    /\ pc' = [pc EXCEPT ![n] = label]

\* terminate() stops the listener and waits for the batch it dispatches.
Terminate(n) ==
    /\ pc[n] \in {"listening", "dispatching"}
    /\ Die(n, IF pc[n] = "listening" THEN "gone" ELSE "stopping")
    /\ UNCHANGED <<published, queue, batch, at, outcome, acked, lost>>

\* The broker delivers what was not acknowledged once more.
Crash(n) ==
    /\ pc[n] \in {"dispatching", "stopping"}
    /\ Die(n, "gone")
    /\ queue' = batch[n] \o queue
    /\ lost' = [m \in Notifications |-> IF m \in ToSet(batch[n]) THEN lost[m] + 1 ELSE lost[m]]
    /\ batch' = [batch EXCEPT ![n] = <<>>]
    /\ at' = [at EXCEPT ![n] = <<1, 1, 1>>]
    /\ UNCHANGED <<published, outcome, acked>>

Respawn(n) ==
    /\ pc[n] = "gone"
    /\ pc' = [pc EXCEPT ![n] = "listening"]
    /\ UNCHANGED <<published, queue, batch, at, outcome, acked, lost, crashes>>

Dispatch(n) == Call(n) \/ EndAction(n) \/ EndMessage(n) \/ Acknowledge(n)

Next ==
    \/ \E m \in Notifications : Notify(m)
    \/ \E n \in Notifiers :
           \/ Receive(n) \/ Dispatch(n) \/ CallFails(n)
           \/ Terminate(n) \/ Crash(n) \/ Respawn(n)

Spec == Init /\ [][Next]_vars

\* The listener's threads run, every call returns, and cotyledon starts a
\* process again.
Fairness ==
    \A n \in Notifiers : WF_vars(Receive(n)) /\ WF_vars(Dispatch(n)) /\ WF_vars(Respawn(n))

LiveSpec == Spec /\ Fairness

--------------------------------------------------------------------------------
(* Properties *)

\* A notification leaves the broker only when each of its actions was carried
\* out to the last call, or failed by itself: the failure of one action, and
\* the death of a process in the middle, take nothing from the others.
AcknowledgedMeansDone ==
    \A m \in acked : \A a \in DOMAIN ActionsOf[m] :
        <<m, a>> \in failed \/ \A c \in CallsOfAction(m, a) : calls[c] > 0

\* A receiver is called a second time for the same notification only because a
\* process died with it: no action is repeated for the sake of another, and no
\* failure brings a message back.
RepeatedOnlyAfterCrash ==
    \A m \in Notifications : \A a \in DOMAIN ActionsOf[m] :
        \A c \in CallsOfAction(m, a) : calls[c] <= 1 + lost[m]

\* Every notification that is published is acknowledged, so whatever it asks
\* for has been tried, although processes die and batches do not fill up.
EveryNotificationDispatched ==
    \A m \in Notifications : (m \in published /\ ActionsOf[m] # <<>>) ~> (m \in acked)
================================================================================
