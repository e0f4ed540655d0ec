----------------------------- MODULE MCEventAlarms -----------------------------
(* EventAlarms on small sets, for TLC. *)
EXTENDS EventAlarms, TLC

CONSTANTS p1, t1, t2, a1, a2

SameProcess == t1 :> p1 @@ t2 :> p1
OneProject == [a \in Alarms |-> "j1"]

\* Texts, and what they convert to; numbers count in tenths.
MCFnmatch == [instances |-> {"create", "delete"}, deletes |-> {"delete"}]
MCAsInteger == "9" :> 90 @@ "10" :> 100
MCAsFloat == MCAsInteger @@ "9.5" :> 95
MCAsDatetime == [monday |-> 1]
MCCollation == "" :> 0 @@ "10" :> 1 @@ "9" :> 2 @@ "9.5" :> 3 @@ "j1" :> 4 @@ "monday" :> 5
                   @@ "true" :> 6

OnTrait(name, type, op, value) == [name |-> name, type |-> type, op |-> op, value |-> value]
Rule(pattern, query) == [event_type |-> pattern, query |-> query]

Size == Rule("instances", <<OnTrait("size", "integer", "gt", "9"), OnTrait("owner", "", "ne", "j1")>>)
Flag == Rule("instances", <<OnTrait("flag", "boolean", "eq", "true")>>)
MCRuleOf == [a \in Alarms |-> IF a = a1 THEN Size ELSE Flag]

Quiet == [state |-> "ok", enabled |-> TRUE]

\* Requests and events lead to the other rows.
MCInitially == [a \in Alarms |-> IF a = a1 THEN {Quiet} ELSE {Quiet, Absent}]

Trait(name, type, value) == [name |-> name, type |-> type, value |-> value]
Event(type, traits) ==
    [event_type |-> type, message_id |-> 1,
     traits |-> <<Trait("tenant_id", "string", "j1")>> \o traits]

\* The first two meet Size.  The fifth and the last are not valid.
MCEvents ==
    {Event("create", <<Trait("size", "integer", "10")>>),
     Event("create", <<Trait("size", "string", "10"), Trait("size", "float", "9.5")>>),
     Event("create", <<Trait("size", "string", "10")>>),
     Event("delete", <<Trait("size", "integer", "10"), Trait("owner", "string", "j1")>>),
     Event("create", <<Trait("size", "integer", "9.5")>>),
     Event("delete", <<Trait("size", "datetime", "monday")>>),
     [message_id |-> 1, traits |-> <<>>]}
================================================================================
