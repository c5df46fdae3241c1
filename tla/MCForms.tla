------------------------------- MODULE MCForms -------------------------------
(***************************************************************************)
(* Cards, events, tasks and notes as other clients leave them: several     *)
(* labels on a number, a preferred one, moments of three zones, rules the  *)
(* form has fields for and rules it has not, properties of their own.      *)
(***************************************************************************)
EXTENDS Forms

Typed(text, type, pref) == [text |-> text, params |-> [type |-> type, pref |-> pref], group |-> "item1"]
One(t) == <<Text(t)>>
Absent == <<>>

At(form, at, zone) == One([form |-> form, at |-> at, zone |-> zone])
Rule(freq, byday, until, count, rest) ==
    One([freq |-> freq, interval |-> 1, byday |-> byday, until |-> until, count |-> count, rest |-> rest])
Image == [text |-> "data", params |-> [encoding |-> "BASE64"], group |-> ""]
Foreign == {One("kept")}
Lists == {Absent, <<Text(<<"a", "b">>), Text(<<"c">>)>>}

Contacts == <<
    <<"FN", {One("name")}>>,
    <<"N", {Absent, One(<<"family", "">>)}>>,
    <<"ORG", {One(<<<<"a", "b">>, <<"c">>>>)}>>,
    <<"CATEGORIES", Lists>>,
    <<"NOTE", {Absent, <<Text("one"), Text("two")>>}>>,
    <<"TEL", {Absent, <<Typed("1", <<<<"cell">>, <<"home">>, <<"pref">>>>, "")>>,
              <<Typed("1", <<<<"voice">>>>, "1"), Typed("2", <<>>, "")>>}>>,
    <<"X-ABLABEL", Foreign>> >>

Events == <<
    <<"SUMMARY", {One("title")}>>,
    <<"DTSTART", {At("date", 4, ""), At("local", 5, "away"), At("local", 5, ""), At("utc", 5, "UTC")}>>,
    <<"DTEND", {Absent, At("local", 7, "home"), At("date", 8, "")}>>,
    <<"DURATION", {Absent, One(2)}>>,
    <<"RRULE", {Absent, Rule("WEEKLY", {"MO"}, 0, 3, {}), Rule("DAILY", {"MO", "TU"}, 9, 3, {}),
                Rule("MONTHLY", {"1MO"}, 0, 0, {}), Rule("HOURLY", {}, 0, 0, {"BYSETPOS"})}>>,
    <<"ATTACH", {<<Image, Text("link")>>}>>,
    <<"ATTENDEE", Foreign>> >>

Todos == <<
    <<"SUMMARY", {Absent, One("title")}>>,
    <<"STATUS", {Absent, One("COMPLETED"), One("IN-PROCESS")}>>,
    <<"COMPLETED", {Absent, At("utc", 3, "UTC")}>>,
    <<"DUE", {Absent, At("date", 4, ""), At("local", 5, "away")}>>,
    <<"DTSTART", {Absent, At("local", 5, "away")}>>,
    <<"PERCENT-COMPLETE", {Absent, One(50)}>>,
    <<"CATEGORIES", Lists>>,
    <<"RELATED-TO", {Absent, <<[Text("uid") EXCEPT !.params = "CHILD"]>>}>>,
    <<"RRULE", Foreign>> >>

Journals == <<
    <<"DESCRIPTION", {Absent, One("body")}>>,
    <<"DTSTART", {Absent, At("date", 4, ""), At("utc", 5, "UTC")}>>,
    <<"CATEGORIES", Lists>>,
    <<"ATTACH", {Absent, <<Image>>}>>,
    <<"X-JTX-COLOR", Foreign>> >>

\* Every object with one choice for each property.
Objects(choices) ==
    LET With(objects, choice) ==
            {IF values = Absent THEN obj ELSE (choice[1] :> values) @@ obj :
                obj \in objects, values \in choice[2]}
    IN  FoldLeft(With, {"UID" :> One("uid")}, choices)

Init ==
    /\ \/ kind = "contact" /\ stored \in Objects(Contacts)
       \/ kind = "event" /\ stored \in Objects(Events)
       \/ kind = "task" /\ stored \in Objects(Todos)
       \/ kind = "note" /\ stored \in Objects(Journals)
    /\ before = stored
    /\ touched = {}
    /\ losses = NoLosses
    /\ told = {}

FormsAreSafe == EveryChangeIsAccountedFor /\ DiffListsBothLosses
=============================================================================
