----------------------------- MODULE AlarmLifecycle -----------------------------
(***************************************************************************)
(* What the service promises of an alarm to somebody who reads it and its  *)
(* history, whoever evaluates and changes it.  An alarm is created once,   *)
(* has a state while it lives, and is deleted for good.  A history record  *)
(* tells of a state that was written to the row of a living alarm: it is   *)
(* owed from that write on, may be lost, is never made up, and the history *)
(* goes with the alarm.                                                    *)
(***************************************************************************)
CONSTANTS Alarms, States, None, Unborn, Deleted

VARIABLES
    alarm,      \* the state of an alarm, Unborn or Deleted
    history,    \* the state the last record of its history tells of
    owed        \* the states written to its row whose record is still to come

vars == <<alarm, history, owed>>

Lives(a) == alarm[a] \in States

Init ==
    /\ alarm \in [Alarms -> States \cup {Unborn}]
    /\ history \in [Alarms -> States \cup {None}]
    /\ \A a \in Alarms : history[a] \in {None, alarm[a]}
    /\ owed = [a \in Alarms |-> {}]

\* A write of the row, with or without a record to follow.
Write(a, s) ==
    /\ alarm' = [alarm EXCEPT ![a] = s]
    /\ \E more \in {{}, {s}} : owed' = [owed EXCEPT ![a] = @ \cup more]
    /\ UNCHANGED history

Create(a, s) == alarm[a] = Unborn /\ Write(a, s)

SetState(a, s) == Lives(a) /\ Write(a, s)

\* Another record of the same state may be owed still.
Tell(a, s) ==
    /\ Lives(a)
    /\ s \in owed[a]
    /\ history' = [history EXCEPT ![a] = s]
    /\ \E told \in {{}, {s}} : owed' = [owed EXCEPT ![a] = @ \ told]
    /\ UNCHANGED alarm

\* A record is lost: its writer fails, or finds the alarm deleted.
Lose(a, s) ==
    /\ owed' = [owed EXCEPT ![a] = @ \ {s}]
    /\ UNCHANGED <<alarm, history>>

Delete(a) ==
    /\ alarm[a] # Unborn
    /\ alarm' = [alarm EXCEPT ![a] = Deleted]
    /\ history' = [history EXCEPT ![a] = None]
    /\ UNCHANGED owed

Next ==
    \E a \in Alarms :
        \/ Delete(a)
        \/ \E s \in States : Create(a, s) \/ SetState(a, s) \/ Tell(a, s) \/ Lose(a, s)

Spec == Init /\ [][Next]_vars
================================================================================
