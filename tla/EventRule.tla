------------------------------- MODULE EventRule -------------------------------
(***************************************************************************)
(* Events and the rules of event alarms: the wrappers Event and Alarm of   *)
(* aodh/evaluator/event.py with the comparison of _evaluate_alarm, and the *)
(* rules that aodh/api/controllers/v2/alarm_rules/event.py accepts.        *)
(*                                                                         *)
(* An event is [event_type, message_id, traits], a trait [name, type,      *)
(* value].  A rule is [event_type, query], a condition [field, type, op,   *)
(* value], or one with `name' in place of `field' if its field is a trait. *)
(* Values are texts; what they convert to is [kind, at], with a place `at' *)
(* among the values of its kind.                                           *)
(***************************************************************************)
EXTENDS Integers, Sequences

CONSTANTS
    Fnmatch,    \* the event types that match a pattern
    AsInteger,  \* the place of each text that is an integer, among the numbers
    AsFloat,    \* likewise of each that is a float
    AsDatetime, \* the instant each timestamp is
    Collation,  \* the place of each text among the texts
    Missing     \* no value

\* _sanitize_trait_value raises a ValueError for other texts.
Converts(text, type) ==
    /\ type = "integer" => text \in DOMAIN AsInteger
    /\ type = "float" => text \in DOMAIN AsFloat
    /\ type = "datetime" => text \in DOMAIN AsDatetime

SanitizeTraitValue(text, type) ==
    CASE type = "integer" -> [kind |-> "number", at |-> AsInteger[text]]
      [] type = "float" -> [kind |-> "number", at |-> AsFloat[text]]
      [] type = "datetime" -> [kind |-> "time", at |-> AsDatetime[text]]
      [] OTHER -> [kind |-> "text", at |-> Collation[text]]

--------------------------------------------------------------------------------
(* Event. *)

\* The mandatory parameters, and traits that can be converted.
ValidEvent(e) ==
    /\ {"event_type", "message_id"} \subseteq DOMAIN e
    /\ \A i \in DOMAIN e.traits : Converts(e.traits[i].value, e.traits[i].type)

\* The last of the traits of a name, or of two names, is the one that counts.
LastTrait(e, names) ==
    CHOOSE i \in DOMAIN e.traits :
        /\ e.traits[i].name \in names
        /\ \A j \in DOMAIN e.traits : e.traits[j].name \in names => j <= i

Carries(e, names) == \E i \in DOMAIN e.traits : e.traits[i].name \in names

GetTrait(e, name) ==
    IF Carries(e, {name})
    THEN LET trait == e.traits[LastTrait(e, {name})]
         IN  SanitizeTraitValue(trait.value, trait.type)
    ELSE Missing

EventProject(e) ==
    IF Carries(e, {"tenant_id", "project_id"})
    THEN e.traits[LastTrait(e, {"tenant_id", "project_id"})].value
    ELSE ""

--------------------------------------------------------------------------------
(* The rule of an alarm. *)

\* AlarmEventRule.validate_alarm, and Query.get_value of a boolean.
AcceptedRule(rule) ==
    \A i \in DOMAIN rule.query :
        LET q == rule.query[i]
        IN  /\ q.type \in {"string", "integer", "float", "boolean", ""}
            /\ q.op \in {"lt", "le", "eq", "ne", "ge", "gt"}
            /\ Converts(q.value, q.type)
            /\ q.type = "boolean" => q.value \in {"true", "false"}

IsTrait(q) == "name" \in DOMAIN q

\* Alarm._parse_query: TRAIT_TYPES has no boolean.
Convertible(rule) ==
    \A i \in DOMAIN rule.query : IsTrait(rule.query[i]) => rule.query[i].type # "boolean"

\* Values of different kinds are not equal, and to order them is a TypeError.
Compare(op, left, right) ==
    \/ op = "eq" /\ left = right
    \/ op = "ne" /\ left # right
    \/ /\ left # Missing /\ left.kind = right.kind
       /\ \/ op = "lt" /\ left.at < right.at
          \/ op = "le" /\ left.at <= right.at
          \/ op = "ge" /\ left.at >= right.at
          \/ op = "gt" /\ left.at > right.at

\* Whether a condition is met, that is, neither false nor an exception.  The
\* operator of a condition that is not about a trait stays a string, and its
\* call raises.
ConditionMet(q, e) ==
    IsTrait(q) /\ Compare(q.op, GetTrait(e, q.name), SanitizeTraitValue(q.value, q.type))

\* _evaluate_alarm: does the event fire the alarm?
Meets(rule, e) ==
    /\ e.event_type \in Fnmatch[rule.event_type]
    /\ \A i \in DOMAIN rule.query : ConditionMet(rule.query[i], e)
================================================================================
