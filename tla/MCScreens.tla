------------------------------ MODULE MCScreens ------------------------------
(***************************************************************************)
(* What Carrel finds on other servers, what it shows of it and what it asks      *)
(* of a person about it: the run is of one component at a time, whose variables  *)
(* are held in slots.                                                      *)
(***************************************************************************)
EXTENDS Integers, Sequences, FiniteSets, SequencesExt, TLC

CONSTANTS
    Parts,                \* the components of this run
    OpenTabs,             \* of Duplicates and Connections
    None,
    HeldRecords, Elsewhere, RecordPlace, Secondary, MaxDecisions, MaxChanges,    \* Duplicates
    Polled, MaxRetries, MaxBreaks, MaxLost, MaxPipe, SlowRetries,       \* FindPanel
    SiteMC, TreeMC, Entered, Faults, Names, MaxOps,                 \* Connections
    Hosts, Addrs, Allowlist, Blocked, MaxRedirects, MaxResponseBytes,    \* Transport
    MaxDns, MaxCalls,
    Findings, LostAnswers                                           \* Exercise

VARIABLES part, s1, s2, s3, s4, s5, s6, s7, s8, s9, s10, s11, s12, s13, s14, s15

vars == <<part, s1, s2, s3, s4, s5, s6, s7, s8, s9, s10, s11, s12, s13, s14, s15>>

Symmetry == Permutations(OpenTabs) \cup Permutations(Polled)

-----------------------------------------------------------------------------
Decisions == INSTANCE Duplicates WITH
    Records <- HeldRecords, SourceOf <- RecordPlace, Tabs <- OpenTabs,
    similar <- s1, there <- s2, groups <- s3, poll <- s4, shown <- s5, decisions <- s6,
    changes <- s7, rejected <- s8

(* Two collections: that of the records Elsewhere, and that of the others. *)
TwoCollections == [r \in HeldRecords |-> IF r \in Elsewhere THEN "there" ELSE "here"]

(* A person has a number of records, and decisions are counted. *)
ASSUME RecordsAssumption == IsFiniteSet(HeldRecords) /\ MaxDecisions \in Nat

Detection == INSTANCE MCMatching WITH
    phoneKeyDigits <- 3, phoneMinDigits <- 2, namePrefixLen <- 2,
    prints <- s1, threshold <- s2, skip <- s3, order <- s4

(* Three zones. *)
Zones == [z \in {"UTC", "home", "away"} |->
             CASE z = "UTC" -> 0 [] z = "home" -> 1 [] z = "away" -> 2]

Saving == INSTANCE MCForms WITH
    Day <- 4, Offset <- Zones, Local <- "home", Now <- 6, MaxWrites <- 1,
    kind <- s1, stored <- s2, before <- s3, touched <- s4, losses <- s5, told <- s6

Panel == INSTANCE FindPanel WITH
    Sources <- Polled,
    task <- s1, mode <- s2, panel <- s3, poller <- s4, calls <- s5, conn <- s6, pipe <- s7,
    stream <- s8, ping <- s9, grace <- s10, fallen <- s11, retries <- s12, breaks <- s13,
    lost <- s14, odd <- s15

(* Nothing is claimed of what follows an oddity. *)
Even == part = "panel" => s15 = {}

(* Two calendars and two address books. *)
O(kind, at, title, files, readable, done) ==
    [kind |-> kind, at |-> at, title |-> title, files |-> files, readable |-> readable,
     done |-> done]
Held == "e1" :> O("event", 12, 31, <<2, 1>>, TRUE, FALSE)
     @@ "e2" :> O("event", 12, 32, <<>>, TRUE, FALSE)
     @@ "t1" :> O("task", 25, 11, <<>>, TRUE, FALSE)
     @@ "t2" :> O("task", 0, 12, <<>>, TRUE, FALSE)
     @@ "t3" :> O("task", 26, 12, <<>>, TRUE, TRUE)
     @@ "n1" :> O("note", 14, 21, <<1>>, TRUE, FALSE)
     @@ "n2" :> O("note", 25, 23, <<>>, TRUE, FALSE)
     @@ "bad" :> O("note", 14, 22, <<>>, FALSE, FALSE)
     @@ "c1" :> O("contact", 0, 13, <<>>, TRUE, FALSE)
     @@ "c2" :> O("contact", 0, 21, <<>>, TRUE, FALSE)
     @@ "c3" :> O("contact", 0, 13, <<>>, TRUE, FALSE)
     @@ "c4" :> O("contact", 0, 11, <<>>, TRUE, FALSE)

Rows == INSTANCE MCFindRows WITH
    Objects <- Held, Day <- 10, Initial <- 10, asked <- s1, list <- s2

(* A server like Baikal: homes under the base, a folder of files beside them, a
   calendar that cannot be written, a principal of its own. *)
N(name) == <<name, 1>>
Cals == <<N("dav"), N("calendars")>>
Books == <<N("dav"), N("books")>>
Entry(types, privileges) ==
    [types |-> {"collection"} \cup types, name |-> "old", privileges |-> privileges, comps |-> {}]
NotSaid == {"unsaid"}
BaikalTree == <<N("dav")>> :> Entry({}, NotSaid)
     @@ Cals :> Entry({}, NotSaid)
     @@ Books :> Entry({}, NotSaid)
     @@ <<N("dav"), N("principals")>> :> Entry({"principal"}, {"read"})
     @@ <<N("dav"), N("docs")>> :> Entry({}, {"read", "bind"})
     @@ <<N("dav"), N("shared")>> :> Entry({"calendar"}, {"read"})
     @@ Append(Cals, N("work")) :> Entry({"calendar"}, {"write"})
     @@ Append(Cals, N("team")) :> Entry({"calendar"}, {"read"})
     @@ Append(Books, N("people")) :> Entry({"addressbook"}, NotSaid)
Nothing == <<<<"nowhere", 0>>>>
Baikal == [wellKnown |-> [caldav |-> Nothing, carddav |-> Nothing],
         principals |-> (<<N("dav")>> :> <<N("dav"), N("principals")>>) @@ (Cals :> Nothing),
         calHome |-> Cals, abHome |-> Books]

Accounts == INSTANCE Connections WITH
    Tabs <- OpenTabs,
    tree <- s1, accounts <- s2, selected <- s3, default <- s4, count <- s5, ids <- s6,
    tabs <- s7, page <- s8, ops <- s9

DavOnly == {<<N("dav")>>}
CalendarsFail == {{}, {"calendar"}}

(* A collection is a calendar or an address book or neither; the homes can always be
   asked for; and the server names one principal, or none, to a person wherever it is
   asked. *)
ASSUME TreeAssumption ==
    /\ IsFiniteSet(DOMAIN TreeMC)
    /\ \A p \in DOMAIN TreeMC :
          /\ DOMAIN TreeMC[p] = {"types", "name", "privileges", "comps"}
          /\ ~({"calendar", "addressbook"} \subseteq TreeMC[p].types)
Principal(entered, fails) ==
    Accounts!FindPrincipal(SiteMC, Accounts!ResolveBaseURL(SiteMC, entered, fails), fails).path
ASSUME PrincipalAssumption ==
    /\ \A fails \in Faults : fails \cap {"calHome", "abHome"} = {}
    /\ \A e1, e2 \in Entered, f1, f2 \in Faults \cup {{}} : Principal(e1, f1) = Principal(e2, f2)

Calls == INSTANCE Transport WITH
    dns <- s1, idle <- s2, call <- s3, dnsChanges <- s4, calls <- s5

(* Redirects and bytes are counted, and no connection is none. *)
ASSUME CallsAssumption ==
    MaxRedirects \in Nat \ {0} /\ MaxResponseBytes \in Nat /\ None \notin Addrs

(* What discovery finds: a calendar that cannot be written first, two of a kind, nothing. *)
Col(kind, readOnly) == [kind |-> kind, readOnly |-> readOnly]

ThreeServers ==
    {<<Col("calendar", TRUE), Col("calendar", FALSE), Col("files", FALSE)>>,
     <<Col("files", FALSE), Col("addressbook", FALSE), Col("addressbook", FALSE)>>,
     <<>>}

Exercises == INSTANCE Exercise WITH
    Found <- Findings, MaxLost <- LostAnswers,
    collections <- s1, server <- s2, object <- s3, next <- s4, tested <- s5, step <- s6,
    etag <- s7, failed <- s8, verdict <- s9, expired <- s10, lost <- s11, kept <- s12

ASSUME FindingsAssumption ==
    \A found \in Findings :
        found \in Seq([kind : {"calendar", "addressbook", "files"}, readOnly : BOOLEAN])

-----------------------------------------------------------------------------
(* The slots a component leaves unused. *)
Empty == 0
After12 == s13 = Empty /\ s14 = Empty /\ s15 = Empty
After9 == s10 = Empty /\ s11 = Empty /\ s12 = Empty /\ After12
After8 == s9 = Empty /\ After9
After6 == s7 = Empty /\ s8 = Empty /\ After8
After5 == s6 = Empty /\ After6
After4 == s5 = Empty /\ After5
After2 == s3 = Empty /\ s4 = Empty /\ After4

Rest12 == <<s13, s14, s15>>
Rest9 == <<s10, s11, s12, Rest12>>
Rest8 == <<s9, Rest9>>
Rest6 == <<s7, s8, Rest8>>
Rest5 == <<s6, Rest6>>
Rest4 == <<s5, Rest5>>
Rest2 == <<s3, s4, Rest4>>

Init ==
    /\ part \in Parts
    /\ \/ part = "decisions" /\ Decisions!Init /\ After8
       \/ part = "detection" /\ Detection!Init /\ After4
       \/ part = "saving" /\ Saving!Init /\ After6
       \/ part = "panel" /\ Panel!Init
       \/ part = "rows" /\ Rows!Init /\ After2
       \/ part = "accounts" /\ Accounts!Init /\ After9
       \/ part = "calls" /\ Calls!Init /\ After5
       \/ part = "exercise" /\ Exercises!Init /\ After12

Next ==
    /\ UNCHANGED part
    /\ \/ part = "decisions" /\ Decisions!Next /\ UNCHANGED Rest8
       \/ part = "detection" /\ Detection!Next /\ UNCHANGED Rest4
       \/ part = "saving" /\ Saving!Next /\ UNCHANGED Rest6
       \/ part = "panel" /\ Panel!Next
       \/ part = "rows" /\ Rows!Next /\ UNCHANGED Rest2
       \/ part = "accounts" /\ Accounts!Next /\ UNCHANGED Rest9
       \/ part = "calls" /\ Calls!Next /\ UNCHANGED Rest5
       \/ part = "exercise" /\ Exercises!Next /\ UNCHANGED Rest12

Spec == Init /\ [][Next]_vars

-----------------------------------------------------------------------------
(* What tabs, polls and streams leave behind is right, in whatever order they came: a
   record is under one decision at most, of two records or more; and a page nothing is
   on its way to shows its poll as it is (account/duplicates.go, handler/duplicates.go,
   handler/find.go). *)
PagesEndRight ==
    /\ part = "decisions" => Decisions!OneDecisionEach
    /\ part = "panel" => Panel!PanelEndsRight

(* Nothing is dropped on the way to a page and back: detection finds every pair, in any
   order; every record that was found is shown once, in order and with its links; every
   property of another client that an edit was not to touch is there, or its loss has
   been recorded; and to save again what a save left changes nothing (internal/merge,
   handler/find_rows.go, handler/*_card.go, model/patch.go, loss.go). *)
NothingIsDropped ==
    /\ part = "detection" => Detection!Detection
    /\ part = "rows" => Rows!EveryRecordOnce
    /\ part = "saving" => Saving!FormsAreSafe /\ Saving!SecondSaveIsStable

(* What Carrel takes from a server is what the server said: a path is one row of one
   kind, a call that succeeded was answered by a host it may reach, and an exercise blames
   a server only for what it did (dav/discovery, dav/client, dav/exercise). *)
ServersAreReadRight ==
    /\ part = "accounts" => Accounts!RowsAreRight
    /\ part = "calls" => Calls!CallsAreSound
    /\ part = "exercise" => Exercises!TestsCleanly

(* A tick is the person's: no discovery, removal or purge changes whether a row that is
   still offered is selected (account/views.go, handler/sources.go). *)
TicksStay == [][part = "accounts" => Accounts!TicksKept]_vars

(* Nobody is left with an indicator that never ends (docs/carrel-spec.md:460).  It does
   not hold: a retry whose stream has ended answers with a fragment that follows
   nothing. *)
NeverLeftWaiting == part = "panel" => Panel!NeverLeftWaiting
=============================================================================
