---------------------------- MODULE MCAlarmAdmission ----------------------------
(* AlarmAdmission on small sets, for TLC. *)
EXTENDS AlarmAdmission, TLC

Caller(user, project, admin) == [user |-> user, project |-> project, admin |-> admin]
Action(scheme, named) == [scheme |-> scheme, named |-> named]
Asking(user, actions) == [user |-> user, project |-> None, actions |-> actions]

MCCallers == {Caller("u1", "p1", FALSE), Caller("u2", "p1", FALSE), Caller("u3", "p2", TRUE)}
MCBodies ==
    {Asking(None, <<>>), Asking(None, <<Action("trust+http", FALSE), Action("log", FALSE)>>),
     Asking("u1", <<Action("trust+http", FALSE)>>),
     Asking(None, <<Action("trust+http", FALSE), Action("trust+http", TRUE)>>)}
Unlimited == -1
Interchangeable == Permutations(Clients) \cup Permutations(Alarms) \cup Permutations(Trusts)
================================================================================
