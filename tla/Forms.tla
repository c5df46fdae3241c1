-------------------------------- MODULE Forms --------------------------------
(***************************************************************************)
(* The edit forms of contacts, events, tasks and notes: what a form shows  *)
(* of an object, the patch a submitted form becomes, and what saving it,   *)
(* ticking a task off or taking an attachment away leaves on the server.   *)
(* A form shows a view that keeps less than the object has, so everything  *)
(* a person did not touch makes the way out to the form and back in.       *)
(*                                                                         *)
(* A text is a token and "" a blank one; a structured text or a list is    *)
(* the sequence of its parts; a TYPE parameter is the sequence of its      *)
(* values, each the sequence of words a comma joins.  A moment is [form,   *)
(* at, zone], at being hours on the clock of its zone; a day has Day       *)
(* hours.  A rule is a record of its parts.                                *)
(***************************************************************************)
EXTENDS Documents, Integers

CONSTANTS
    Day,            \* hours of a day
    Offset,         \* the hours each zone is ahead of UTC
    Local,          \* the zone the instance shows
    Now,            \* the hour on the clock of Local at which forms are saved
    MaxWrites       \* bounds the writes

VARIABLES
    kind,       \* what is edited
    stored,     \* the object on the server
    before,     \* the object the last save started from
    touched,    \* the properties the last save was to change
    losses,     \* what is known of the connection
    told        \* the lost properties the notices have named

vars == <<kind, stored, before, touched, losses, told>>

Kinds == {"contact", "event", "task", "note"}
NotBlank(text) == text # ""
Or(text, other) == IF text = "" THEN other ELSE text

(***************************************************************************)
(* Contacts.                                                               *)
(***************************************************************************)
ContactTexts == {"FN", "NICKNAME", "TITLE", "ROLE", "BDAY", "NOTE"}

ShownType(words) == words \notin {<<"pref">>, <<"internet">>, <<"voice">>}

Labeled(values) ==
    [i \in DOMAIN values |->
        [label |-> FlattenSeq(SelectSeq(values[i].params.type, ShownType)),
         value |-> values[i].text]]

LabeledValues(items) ==
    LET Filled(item) == item.value # ""
        Value(item) == [Text(item.value) EXCEPT !.params =
                            [type |-> IF item.label = <<>> THEN <<>> ELSE <<item.label>>,
                             pref |-> ""]]
        filled == SelectSeq(items, Filled)
    IN  [i \in DOMAIN filled |-> Value(filled[i])]

\* The components of an organization; a semicolon inside one separates two when it is written.
OrganizationParts(text) == FlattenSeq([i \in DOMAIN text |-> SelectSeq(text[i], NotBlank)])

FormFromContact(card) ==
    [texts |-> [n \in ContactTexts |-> FirstText(card, n, "")],
     name |-> FirstText(card, "N", <<"", "">>),
     org |-> OrganizationParts(FirstText(card, "ORG", <<>>)),
     categories |-> FlattenSeq([i \in DOMAIN Property(card, "CATEGORIES") |->
                        SelectSeq(card["CATEGORIES"][i].text, NotBlank)]),
     phones |-> Labeled(Property(card, "TEL")),
     emails |-> Labeled(Property(card, "EMAIL"))]

ContactPatch(form) ==
    LET texts == SetToSeq(ContactTexts)
    IN  [i \in DOMAIN texts |-> SetOrRemove(texts[i], form.texts[texts[i]], "")]
        \o << SetOrRemove("N", form.name, <<"", "">>),
              SetOrRemove("ORG", [i \in DOMAIN form.org |-> <<form.org[i]>>], <<>>),
              SetOrRemove("CATEGORIES", SelectSeq(form.categories, NotBlank), <<>>),
              SetValuesOrRemove("TEL", LabeledValues(form.phones)),
              SetValuesOrRemove("EMAIL", LabeledValues(form.emails)) >>

(***************************************************************************)
(* Moments.  Read, a moment keeps the zone it was written in; only one     *)
(* without a zone is taken to be local.                                    *)
(***************************************************************************)
NoMoment == [form |-> "none", at |-> 0, zone |-> ""]
DateValue(at) == [form |-> "date", at |-> (at \div Day) * Day, zone |-> ""]
LocalTime(at) == [form |-> "local", at |-> at, zone |-> Local]
UTCTime(at) == [form |-> "utc", at |-> at - Offset[Local], zone |-> "UTC"]

ZoneOf(moment) == Or(moment.zone, Local)
Instant(moment) == moment.at - Offset[ZoneOf(moment)]
InLocal(moment) == Instant(moment) + Offset[Local]

Moment(obj, name) == FirstText(obj, name, NoMoment)
Stamps == << Put("DTSTAMP", <<Text(UTCTime(Now))>>), Put("LAST-MODIFIED", <<Text(UTCTime(Now))>>) >>

(***************************************************************************)
(* Events.                                                                 *)
(***************************************************************************)
EventTexts == {"SUMMARY", "DESCRIPTION", "LOCATION", "STATUS"}
Frequencies == {"DAILY", "WEEKLY", "MONTHLY", "YEARLY"}

NoRule == [freq |-> "NONE", interval |-> 1, byday |-> {}, until |-> 0, count |-> 0, rest |-> {}]

\* A day with a number in front, a part the form does not know, or another
\* frequency: the form shows the rule as it is written.
Structured(rule) == /\ rule.freq \in Frequencies
                    /\ rule.byday \subseteq {"MO", "TU"}
                    /\ rule.rest = {}

BuildRRule(form) ==
    IF form.raw # NoRule THEN form.raw
    ELSE IF form.rule.freq = "NONE" THEN NoRule
    ELSE [form.rule EXCEPT !.byday = IF form.rule.freq = "WEEKLY" THEN @ ELSE {},
                           !.count = IF form.rule.until # 0 THEN 0 ELSE @]

\* A slip: a whole-day event is shown to end a day later than it does, as if
\* DTEND were its last day.
EventEndExclusive(event) ==
    (IF "DTEND" \in DOMAIN event THEN Moment(event, "DTEND").at ELSE Moment(event, "DTSTART").at)
        + (IF Moment(event, "DTSTART").form = "date" THEN Day ELSE 0)

EventEnd(event) ==
    CASE "DTEND" \in DOMAIN event -> Moment(event, "DTEND").at
      [] "DURATION" \in DOMAIN event -> Moment(event, "DTSTART").at + event["DURATION"][1].text
      [] OTHER -> Moment(event, "DTSTART").at
                    + (IF Moment(event, "DTSTART").form = "date" THEN Day ELSE 0)

FormFromEvent(event) ==
    LET rule == FirstText(event, "RRULE", NoRule) IN
    [texts |-> [n \in EventTexts |-> FirstText(event, n, "")],
     categories |-> FirstText(event, "CATEGORIES", <<>>),
     allDay |-> Moment(event, "DTSTART").form = "date",
     start |-> Moment(event, "DTSTART").at,
     end |-> EventEnd(event),
     rule |-> IF Structured(rule) THEN rule ELSE NoRule,
     raw |-> IF Structured(rule) THEN NoRule ELSE rule]

EventRefused(form) == IF form.allDay
                      THEN form.end \div Day <= form.start \div Day
                      ELSE form.end <= form.start

EventPatch(form) ==
    LET texts == SetToSeq(EventTexts)
        Written(at) == IF form.allDay THEN DateValue(at) ELSE LocalTime(at)
    IN  [i \in DOMAIN texts |-> SetOrRemove(texts[i], form.texts[texts[i]], "")]
        \o << SetOrRemove("CATEGORIES", SelectSeq(form.categories, NotBlank), <<>>),
              Put("DTSTART", <<Text(Written(form.start))>>),
              Put("DTEND", <<Text(Written(form.end))>>),
              SetOrRemove("RRULE", BuildRRule(form), NoRule),
              Stamps[1] >>

(***************************************************************************)
(* Tasks.                                                                  *)
(***************************************************************************)
TaskStatuses == {"NEEDS-ACTION", "IN-PROCESS", "COMPLETED", "CANCELLED"}

TaskDone(task) == \/ FirstText(task, "STATUS", "") = "COMPLETED"
                  \/ FirstText(task, "STATUS", "") = "" /\ "COMPLETED" \in DOMAIN task

RelationUIDs(obj) == [i \in DOMAIN Property(obj, "RELATED-TO") |-> obj["RELATED-TO"][i].text]

\* A relation typed into a form, or shown by one, is one of a parent.
RelationValues(uids) == [i \in DOMAIN uids |-> [Text(uids[i]) EXCEPT !.params = "PARENT"]]

FormFromTask(task) ==
    [texts |-> [n \in {"SUMMARY", "DESCRIPTION", "LOCATION"} |-> FirstText(task, n, "")],
     status |-> Or(FirstText(task, "STATUS", ""), "NEEDS-ACTION"),
     categories |-> FirstText(task, "CATEGORIES", <<>>),
     start |-> Moment(task, "DTSTART"),
     due |-> Moment(task, "DUE"),
     percent |-> FirstText(task, "PERCENT-COMPLETE", 0),
     priority |-> FirstText(task, "PRIORITY", 0),
     related |-> RelationUIDs(task)]

TaskRefused(form) == \/ form.texts["SUMMARY"] = ""
                     \/ form.status \notin TaskStatuses
                     \/ form.percent \notin 0 .. 100
                     \/ form.priority \notin 0 .. 9

TaskPatch(form) ==
    LET Due == IF form.due.form = "date" THEN DateValue(InLocal(form.due))
               ELSE LocalTime(InLocal(form.due))
        done == form.status = "COMPLETED"
        Optional(name, moment, written) == IF moment = NoMoment THEN Erase(name)
                                           ELSE Put(name, <<Text(written)>>)
    IN  << Put("SUMMARY", <<Text(form.texts["SUMMARY"])>>),
           SetOrRemove("DESCRIPTION", form.texts["DESCRIPTION"], ""),
           SetOrRemove("LOCATION", form.texts["LOCATION"], ""),
           SetOrRemove("CATEGORIES", SelectSeq(form.categories, NotBlank), <<>>),
           Put("STATUS", <<Text(form.status)>>),
           Optional("DTSTART", form.start, DateValue(InLocal(form.start))),
           Optional("DUE", form.due, Due),
           IF done THEN Put("PERCENT-COMPLETE", <<Text(100)>>)
                   ELSE SetOrRemove("PERCENT-COMPLETE", form.percent, 0),
           SetOrRemove("PRIORITY", form.priority, 0),
           IF done THEN Put("COMPLETED", <<Text(UTCTime(Now))>>) ELSE Erase("COMPLETED"),
           SetValuesOrRemove("RELATED-TO", RelationValues(form.related)) >>
        \o Stamps

\* The tick of a list row.
ToggleTaskPatch(task) ==
    (IF TaskDone(task)
     THEN << Put("STATUS", <<Text("NEEDS-ACTION")>>), Erase("COMPLETED"),
             Put("PERCENT-COMPLETE", <<Text(0)>>) >>
     ELSE << Put("STATUS", <<Text("COMPLETED")>>), Put("COMPLETED", <<Text(UTCTime(Now))>>),
             Put("PERCENT-COMPLETE", <<Text(100)>>) >>)
    \o <<Stamps[2]>>

(***************************************************************************)
(* Notes.                                                                  *)
(***************************************************************************)
FormFromNote(note) ==
    [texts |-> [n \in {"SUMMARY", "DESCRIPTION"} |-> FirstText(note, n, "")],
     categories |-> FirstText(note, "CATEGORIES", <<>>),
     date |-> Moment(note, "DTSTART"),
     related |-> RelationUIDs(note)]

NoteRefused(form) == form.texts["SUMMARY"] = "" /\ form.texts["DESCRIPTION"] = ""

NotePatch(form) ==
    LET Written == CASE form.date = NoMoment -> DateValue(Now)
                     [] form.date.form = "date" -> DateValue(InLocal(form.date))
                     [] OTHER -> LocalTime(InLocal(form.date))
    IN  << SetOrRemove("SUMMARY", form.texts["SUMMARY"], ""),
           SetOrRemove("DESCRIPTION", form.texts["DESCRIPTION"], ""),
           SetOrRemove("CATEGORIES", SelectSeq(form.categories, NotBlank), <<>>),
           Put("DTSTART", <<Text(Written)>>),
           SetValuesOrRemove("RELATED-TO", RelationValues(form.related)) >>
        \o Stamps

(***************************************************************************)
(* Saving.                                                                 *)
(***************************************************************************)
FormOf(k, obj) == CASE k = "contact" -> FormFromContact(obj)
                    [] k = "event" -> FormFromEvent(obj)
                    [] k = "task" -> FormFromTask(obj)
                    [] k = "note" -> FormFromNote(obj)

Refused(k, form) == CASE k = "contact" -> FALSE
                      [] k = "event" -> EventRefused(form)
                      [] k = "task" -> TaskRefused(form)
                      [] k = "note" -> NoteRefused(form)

ToPatch(k, form) == CASE k = "contact" -> ContactPatch(form)
                      [] k = "event" -> EventPatch(form)
                      [] k = "task" -> TaskPatch(form)
                      [] k = "note" -> NotePatch(form)

Saved(k, obj) == Apply(obj, ToPatch(k, FormOf(k, obj)))
Saves(k, obj) == ~Refused(k, FormOf(k, obj))

\* What servers are known to do to an object they store.
Damages(obj) ==
    {obj} \union {Without(obj, {n}) : n \in DOMAIN obj \ {"UID"}}
          \union {[obj EXCEPT ![n] = SubSeq(@, 1, 1)] : n \in DOMAIN obj}

\* The server stores what was sent, or part of it; Carrel reads it back,
\* records what is gone and may say so.
Write(obj, patch, says) ==
    /\ losses.writes < MaxWrites
    /\ before' = obj
    /\ touched' = Named(patch)
    /\ LET sent == Apply(obj, patch) IN
       \E damaged \in Damages(sent) :
          /\ stored' = damaged
          /\ losses' = Record(losses, Compare(sent, damaged))
          /\ told' = IF says /\ Novel(losses, Compare(sent, damaged))
                     THEN told \union LossNames(Compare(sent, damaged)) ELSE told
    /\ UNCHANGED kind

\* The form is submitted as it was, or with a text changed.
Save == LET shown == FormOf(kind, stored) IN
        \E form \in {shown} \union {[shown EXCEPT !.texts[n] = "new"] :
                                       n \in DOMAIN shown.texts \ {"STATUS"}} :
           ~Refused(kind, form) /\ Write(stored, ToPatch(kind, form), TRUE)

Toggle == kind = "task" /\ Write(stored, ToggleTaskPatch(stored), TRUE)

Attach == kind # "contact" /\ Write(stored,
              <<AttachPatch(Append(Property(stored, "ATTACH"), AttachmentValue("file")))>>, FALSE)

Detach == /\ kind # "contact"
          /\ \E i \in DOMAIN Property(stored, "ATTACH") :
                Write(stored, <<AttachPatch(RemoveAt(stored["ATTACH"], i))>>, FALSE)

Next == Save \/ Toggle \/ Attach \/ Detach

-----------------------------------------------------------------------------
(***************************************************************************)
(* What an object is after an edit that was not to touch a property:       *)
(* what it was, or what the registry says this server does.  This is the   *)
(* promise that the properties of other clients survive, kept by the       *)
(* patch, and the promise that a server which breaks it is noticed, kept   *)
(* by the comparison.                                                      *)
(***************************************************************************)
EveryChangeIsAccountedFor ==
    \A n \in (DOMAIN before \union DOMAIN stored) \ (volatileProperties \union touched) :
        ~SameSignatures(Property(stored, n), Property(before, n)) => n \in DOMAIN losses.names

\* Saving again what a save left, with nothing changed, changes nothing: whatever
\* the way through a form normalises, it does so once, and no field drifts
\* further with every save.
SecondSaveIsStable ==
    LET once == Saved(kind, stored) IN
    Saves(kind, stored) => Saves(kind, once) /\ Saved(kind, once) = once

\* The conflict screen lists every property one side would lose of the other.
DiffListsBothLosses ==
    Diff(before, stored) = LossNames(Compare(before, stored)) \union LossNames(Compare(stored, before))

\* Does not hold: "test that an unrelated edit leaves it alone, that a round
\* trip reports no loss" (docs/development.md).  The days of a rule that is
\* not weekly are shown and then not written.
RuleSurvives ==
    kind = "event" /\ Saves(kind, stored) =>
        FirstText(Saved(kind, stored), "RRULE", NoRule).byday
            = FirstText(stored, "RRULE", NoRule).byday

\* Does not hold either: the clock of an event's own zone is shown, and written
\* as one of the zone the instance shows.
EventStaysPut ==
    kind = "event" /\ Saves(kind, stored) =>
        Instant(Moment(Saved(kind, stored), "DTSTART")) = Instant(Moment(stored, "DTSTART"))

\* Does not hold: a task with COMPLETED and no STATUS is done, and its form
\* says it needs action.
DoneStaysDone ==
    kind = "task" /\ Saves(kind, stored) => (TaskDone(stored) <=> TaskDone(Saved(kind, stored)))

\* Does not hold: attaching, detaching, photographs, imports and merges record
\* what the server lost and do not say so, and the next save finds it known.
EveryLossIsTold == DOMAIN losses.names \subseteq told

=============================================================================
