---------------------------- MODULE MCAlarmNotifier ----------------------------
(* AlarmNotifier on three notifications, for TLC. *)
EXTENDS AlarmNotifier, TLC

CONSTANTS m1, m2, m3

Plain(scheme) == [scheme |-> scheme]
Heat(asg, resources) == [scheme |-> "trust+heat", asg_id |-> asg, resources |-> resources]

MCActionsOf ==
    m1 :> <<Plain("trust+http"), Plain("bogus"), Plain("http")>>
        @@ m2 :> <<Heat("", TRUE), Heat("group", TRUE)>>
        @@ m3 :> <<>>
================================================================================
