------------------------------ MODULE MCStores ------------------------------
(***************************************************************************)
(* What Carrel keeps of other servers, and what it writes to them: the run is    *)
(* of one component at a time, whose variables are held in slots.            *)
(***************************************************************************)
EXTENDS Integers, Sequences, FiniteSets, SequencesExt, TLC

CONSTANTS
    Parts,                                          \* the components of this run
    Goroutines, MaxVersion,                         \* of one session, and of a collection
    Caches, Collections, Objects, Pictures, Sizes, Lengths,      \* SessionCache
    MaxBodyBytes, MaxThumbBytes, MaxThumbEntries, MaxCollections, MaxETagEntries,
    MaxProcessBytes,
    Roots, PathSet,                                 \* FileStore
    Tabs, Files, Sharing, MaxETag,                  \* Editing, Importing
    Payloads, MaxCards,                             \* Importing
    Sources, Cards,                                 \* MergeOnServer
    None

VARIABLES part, s1, s2, s3, s4, s5, s6, s7

vars == <<part, s1, s2, s3, s4, s5, s6, s7>>

Symmetry == Permutations(Goroutines) \cup Permutations(Collections)
            \cup Permutations(Caches) \cup Permutations(Tabs) \cup Permutations(Files)

-----------------------------------------------------------------------------
Listing == INSTANCE CachedListing WITH
    Threads <- Goroutines,
    kind <- s1, server <- s2, entry <- s3, own <- s4, op <- s5, overlapped <- s6

Cache == INSTANCE SessionCache WITH
    Threads <- Goroutines, Paths <- Objects,
    cache <- s1, used <- s2, total <- s3, thread <- s4

(* A collection changes so many times while it is watched. *)
ASSUME VersionAssumption == MaxVersion \in Nat

(* The ceilings of config.go and their sums are numbers; sessions and collections are as
   many as there are. *)
ASSUME CacheAssumption ==
    /\ IsFiniteSet(Caches) /\ IsFiniteSet(Collections)
    /\ Sizes \subseteq Nat /\ Lengths \subseteq Nat
    /\ MaxBodyBytes \in Nat /\ MaxThumbBytes \in Nat /\ MaxThumbEntries \in Nat
    /\ MaxCollections \in Nat /\ MaxETagEntries \in Nat /\ MaxProcessBytes \in Nat
    /\ None \notin Cache!Offer \cup {"body", "thumb"}

(* Two collections: one with two names, one of which may be a folder of one name, and
   one with a single name. *)
TwoRoots == {<<"here">>, <<"there">>}
FourMembers == {<<"here", "a">>, <<"here", "a-2">>, <<"here", "a", "x">>, <<"there", "a">>}
SecondName(p) == Append(Front(p), IF Last(p) = "a" THEN "a-2" ELSE "none")

Storage == INSTANCE FileStore WITH
    Threads <- {"request"}, Paths <- PathSet, MaxBody <- 2,
    Servers <- {[honours |-> b, tagged |-> b] : b \in BOOLEAN}, Next2 <- SecondName,
    honours <- s1, tagged <- s2, tree <- s3, bodies <- s4, listed <- s5, op <- s6

ASSUME PathsAssumption == PathSet \subseteq Seq(STRING)

(* Two sessions with a tab each, or one with both, which share its draft; the object
   changes so many times. *)
OwnSessions == [t \in Tabs |-> t]
OneSession == [t \in Tabs |-> "session"]
Sessions == {OwnSessions, OneSession}
Changes == [s \in Sessions |-> IF s = OwnSessions THEN 3 ELSE 2]

Edits == INSTANCE Editing WITH
    family <- s1, server <- s2, uploaded <- s3, drafts <- s4, page <- s5, op <- s6,
    sessionOf <- s7

(* One file with a card twice and one it cannot read, and an archive. *)
Good(u) == [uid |-> <<u>>, form |-> "good"]
Broken == [uid |-> <<>>, form |-> "broken"]
Component(u) == [uid |-> u, form |-> "component"]

TwoFiles == {
    [zip |-> FALSE, entries |-> <<<<Good("a"), Good("a"), Broken>>>>],
    [zip |-> TRUE, entries |-> <<<<Component(<<>>), Good("b")>>, <<>>, <<Good("a")>>>>]}

Imports == INSTANCE Importing WITH
    Uids <- {<<"a">>}, MaxPreviews <- 2,
    kind <- s1, server <- s2, draft <- s3, previews <- s4, payload <- s5, tab <- s6

(* config.go refuses a limit that is not positive; a file that is no archive is one
   sequence of cards. *)
CardsOf(files) == UNION {UNION {Range(e) : e \in Range(p.entries)} : p \in files}

ASSUME ImportAssumption ==
    /\ MaxCards \in Nat \ {0}
    /\ Payloads \subseteq [zip : BOOLEAN, entries : Seq(Seq(CardsOf(Payloads)))]
    /\ \A p \in Payloads : p.zip \/ Len(p.entries) = 1

(* A target and two sources. *)
TwoSources == <<"s1", "s2">>
Card(tels, notes) == [TEL |-> tels, NOTE |-> notes, UID |-> <<>>]
ThreeCards == {Card(<<<<"1", "x">>>>, <<>>),
               Card(<<<<"2", "x">>, <<"", "">>>>, <<<<"n", "n">>>>),
               Card(<<<<"1", "x">>, <<"1", "y">>>>, <<<<"m", "m">>>>)}

Merge == INSTANCE MergeOnServer WITH
    Target <- "target", ReadOnly <- {}, MaxETag <- 2,
    server <- s1, read <- s2, at <- s3, written <- s4, deleted <- s5, group <- s6, history <- s7

(* A card holds a sequence of values under each of its names. *)
ValuesOf(cards) == UNION {UNION {Range(c[n]) : n \in DOMAIN c} : c \in cards}

ASSUME MergeAssumption ==
    Cards \subseteq [Merge!Names -> Seq(ValuesOf(Cards))] /\ Sources \in Seq(STRING)

-----------------------------------------------------------------------------
Empty == 0
Unused == s7 = Empty

Init ==
    /\ part \in Parts
    /\ \/ part = "listing" /\ Listing!Init /\ Unused
       \/ part = "cache" /\ Cache!Init /\ s5 = Empty /\ s6 = Empty /\ Unused
       \/ part = "files" /\ Storage!Init /\ Unused
       \/ part = "edits" /\ Edits!Init
       \/ part = "imports" /\ Imports!Init /\ Unused
       \/ part = "merge" /\ Merge!Init

Next ==
    /\ UNCHANGED part
    /\ \/ part = "listing" /\ Listing!Next /\ UNCHANGED s7
       \/ part = "cache" /\ Cache!Next /\ UNCHANGED <<s5, s6, s7>>
       \/ part = "files" /\ Storage!Next /\ UNCHANGED s7
       \/ part = "edits" /\ Edits!Next
       \/ part = "imports" /\ Imports!Next /\ UNCHANGED s7
       \/ part = "merge" /\ Merge!Next

Spec == Init /\ [][Next]_vars

-----------------------------------------------------------------------------
(* The accounts a session's cache keeps of itself match what it holds, and the total
   of the process what they publish, whichever goroutines store, read and drop together
   (session/cache.go, thumb.go, budget.go). *)
CountsAreKept == part = "cache" => Cache!CountersMatch /\ Cache!TotalIsKept

(* What a session shows of a collection is what the server had under the tag kept
   beside it; only calls that overlap one's own write may keep something older
   (provider/contacts, calendar, files). *)
ListingsStayTrue ==
    part = "listing" => Listing!RangesCoverTheirTag /\ Listing!OnlyOverlapsGoStale

(* What takes several calls leaves nothing half done: an attachment that is linked is
   stored, a refused write waits for a decision, a confirmed import creates each
   of its cards once and all that its preview showed, and a source of a merge goes
   only when the merged card has what it held (handler/attachments.go, conflict.go,
   contacts_io.go, duplicates_merge.go). *)
NothingHalfDone ==
    /\ part = "edits" => Edits!LinksLeadToFiles /\ Edits!RefusalAwaitsDecision
    /\ part = "imports" => Imports!EachCardOnce /\ Imports!PreviewIsWhole
    /\ part = "merge" => Merge!SourcesAreMergedFirst

(* No request destroys what its user did not see: an upload replaces nothing, a
   transfer removes only what it has stored elsewhere, the session's own changes show in
   its next listing, an edit is of the object the form was made from, and an
   import only adds (provider/files/files.go, handler/files_move.go, contact_card.go). *)
NothingOverwritten ==
    [][/\ part = "files" => /\ Storage!UploadReplacesNothing
                            /\ Storage!TransferLosesNothing
                            /\ Storage!OwnChangeShows
       /\ part = "edits" => Edits!EditIsOfWhatWasShown
       /\ part = "imports" => Imports!CreationAdds]_vars
=============================================================================
