----------------------------- MODULE Importing -----------------------------
(***************************************************************************)
(* Imports of vCards, calendars and Markdown notes into one collection      *)
(* (§23.7, §23.9): a file is read and shown as a preview, which waits in the  *)
(* session under one key per collection; a confirmation takes it from there  *)
(* and creates its cards one by one, each If-None-Match.  Several tabs of     *)
(* one session preview, confirm and cancel, while another client writes to   *)
(* the collection.                                                         *)
(*                                                                         *)
(* A card is its UID and whether it can be read; an object of the server is  *)
(* its name, which the UID gives, and the card it came from.                *)
(***************************************************************************)
EXTENDS Integers, Sequences, FiniteSets, SequencesExt, Functions

CONSTANTS
    Tabs,
    Payloads,       \* the files to import: [zip, entries], an entry a sequence of cards
    Uids,           \* UIDs cards and other clients' objects may have
    MaxCards,       \* Import.MaxCards
    MaxPreviews     \* bound: how often a file is uploaded

Kinds == {"contact", "event", "note"}
NoUid == <<>>
NoDraft == [preview |-> 0, cards |-> <<>>]
Others == <<0, 0>>                    \* an object another client wrote
Fresh(at, n, i) == <<at, n, i>>       \* what NewUID makes is new to everyone

VARIABLES
    kind,       \* what the collection holds
    server,     \* [name -> <<preview, card>>] or Others
    draft,      \* the ImportDraft of the session
    previews,   \* previews so far
    payload,    \* [preview -> the file it read]
    tab         \* [Tabs -> record], the confirmation a tab waits for

vars == <<kind, server, draft, previews, payload, tab>>

Idle == [at |-> "idle", preview |-> 0, todo |-> <<>>, known |-> {}, created |-> {}, failed |-> {}]

Init ==
    /\ kind \in Kinds
    /\ \E names \in SUBSET Uids : server = [u \in names |-> Others]
    /\ draft = NoDraft
    /\ previews = 0
    /\ payload = <<>>
    /\ tab = [t \in Tabs |-> Idle]

-----------------------------------------------------------------------------
(* Reading a payload: the cards, and whether the rest was left out. *)
Read(cards, cut) == [cards |-> cards, cut |-> cut]
Unreadable == [uid |-> NoUid, form |-> "broken"]

LoneFile(entry) ==
    Read(SubSeq(entry, 1, IF Len(entry) > MaxCards THEN MaxCards ELSE Len(entry)),
         Len(entry) > MaxCards)

(* A zip is the rows of its files, one for a file without cards, and stops at the
   card that fills it; a file without cards does not stop it. *)
RowsOf(entry) ==
    IF entry = <<>> THEN <<[card |-> Unreadable, stops |-> FALSE]>>
    ELSE [i \in DOMAIN entry |-> [card |-> entry[i], stops |-> TRUE]]

ZipOfCards(entries) ==
    LET rows == FlattenSeq([e \in DOMAIN entries |-> RowsOf(entries[e])])
        full == {i \in DOMAIN rows : rows[i].stops /\ i >= MaxCards}
        last == IF full = {} THEN Len(rows) ELSE CHOOSE i \in full : \A j \in full : i <= j
    IN Read([i \in 1 .. last |-> rows[i].card], full # {})

(* A Markdown file is one note, read or not, and the limit counts files. *)
Notes(entries) ==
    [i \in DOMAIN entries |-> IF entries[i] = <<>> THEN Unreadable ELSE entries[i][1]]

ReadPayload(p) ==
    IF kind = "note" THEN LoneFile(Notes(p.entries))
    ELSE IF p.zip THEN ZipOfCards(p.entries)
    ELSE LoneFile(p.entries[1])

(* What the preview keeps of a card: nothing of one that does not parse, or,
   in a calendar, that holds a component the calendar does not take. *)
Taken(card) == card.form = "good" \/ (card.form = "component" /\ kind # "event")

(* A note without a UID gets one as its journal body is built. *)
BuiltUid(card, n, i) == IF kind = "note" /\ card.uid = NoUid THEN Fresh("preview", n, i) ELSE card.uid

DraftOf(n, p) ==
    LET cards == ReadPayload(p).cards
    IN [preview |-> n,
        cards |-> [i \in DOMAIN cards |->
            [uid |-> BuiltUid(cards[i], n, i), kept |-> Taken(cards[i])]]]

-----------------------------------------------------------------------------
(* The listing that marks collisions may fail, and then nothing is kept. *)
Preview(t) ==
    /\ tab[t].at = "idle"
    /\ previews < MaxPreviews
    /\ \E p \in Payloads :
          /\ draft' = DraftOf(previews + 1, p)
          /\ payload' = Append(payload, p)
    /\ previews' = previews + 1
    /\ UNCHANGED <<kind, server, tab>>

(* cancel_import, and the end of the session, which wipes its drafts. *)
Cancel(t) ==
    /\ tab[t].at = "idle"
    /\ draft' = NoDraft
    /\ UNCHANGED <<kind, server, previews, payload, tab>>

(* confirm_import takes the draft out of the session: a second confirmation
   finds "no import in progress". *)
TakeImport(t) ==
    /\ tab[t].at = "idle"
    /\ draft # NoDraft
    /\ tab' = [tab EXCEPT ![t] = [Idle EXCEPT !.at = "list", !.preview = draft.preview,
                                              !.todo = draft.cards]]
    /\ draft' = NoDraft
    /\ UNCHANGED <<kind, server, previews, payload>>

(* The names in the collection; an error ends the import, with its draft. *)
ExistingUIDs(t) ==
    /\ tab[t].at = "list"
    /\ \/ tab' = [tab EXCEPT ![t].at = "create", ![t].known = DOMAIN server]
       \/ tab' = [tab EXCEPT ![t] = Idle]
    /\ UNCHANGED <<kind, server, draft, previews, payload>>

(* The card next in turn, skipped when the preview could not read it. *)
NextCard(t) ==
    LET done == tab[t].created \cup tab[t].failed
        left == {i \in DOMAIN tab[t].todo : i \notin done /\ tab[t].todo[i].kept}
    IN IF left = {} THEN 0 ELSE CHOOSE i \in left : \A j \in left : i <= j

(* A UID that is missing, or known to be in the collection, is replaced. *)
UidFor(t, i) ==
    LET uid == tab[t].todo[i].uid
    IN IF uid = NoUid \/ uid \in tab[t].known THEN Fresh("create", tab[t].preview, i) ELSE uid

Holding(name, object) ==
    [u \in DOMAIN server \cup {name} |-> IF u = name THEN object ELSE server[u]]

(* Create, If-None-Match.  The answer may be lost after the card is stored;
   what fails is reported, and the next card is tried. *)
CreateCard(t) ==
    LET i == NextCard(t)
        uid == UidFor(t, i)
        Stored == server' = Holding(uid, <<tab[t].preview, i>>)
    IN /\ tab[t].at = "create"
       /\ i # 0
       /\ \/ /\ uid \notin DOMAIN server
             /\ Stored
             /\ tab' = [tab EXCEPT ![t].created = @ \cup {i}, ![t].known = @ \cup {uid}]
          \/ /\ \/ UNCHANGED server
                \/ uid \notin DOMAIN server /\ Stored
             /\ tab' = [tab EXCEPT ![t].failed = @ \cup {i}]
       /\ UNCHANGED <<kind, draft, previews, payload>>

Report(t) ==
    /\ tab[t].at = "create"
    /\ NextCard(t) = 0
    /\ tab' = [tab EXCEPT ![t].at = "report"]
    /\ UNCHANGED <<kind, server, draft, previews, payload>>

Leave(t) ==
    /\ tab[t].at = "report"
    /\ tab' = [tab EXCEPT ![t] = Idle]
    /\ UNCHANGED <<kind, server, draft, previews, payload>>

(* Another client creates or deletes an object. *)
OtherWrites ==
    /\ \E u \in Uids :
          server' = IF u \in DOMAIN server THEN Restrict(server, DOMAIN server \ {u})
                    ELSE Holding(u, Others)
    /\ UNCHANGED <<kind, draft, previews, payload, tab>>

Next ==
    \/ \E t \in Tabs : Preview(t) \/ Cancel(t) \/ TakeImport(t) \/ ExistingUIDs(t)
                       \/ CreateCard(t) \/ Report(t) \/ Leave(t)
    \/ OtherWrites

Spec == Init /\ [][Next]_vars

-----------------------------------------------------------------------------
(* No card of a preview lands twice, whatever is confirmed in whichever tab, in
   whichever order: neither as two objects nor in two reports; and a report
   names every card the preview could read exactly once, as created or as
   failed. *)
EachCardOnce ==
    /\ \A u, v \in DOMAIN server : server[u] = server[v] /\ server[u] # Others => u = v
    /\ \A t, o \in Tabs :
          tab[t].preview = tab[o].preview /\ tab[t].preview # 0 => t = o
    /\ \A t \in Tabs : tab[t].at = "report" =>
          /\ tab[t].created \cap tab[t].failed = {}
          /\ tab[t].created \cup tab[t].failed =
                {i \in DOMAIN tab[t].todo : tab[t].todo[i].kept}

(* A preview that does not say it left something out has every card that can
   be read, and none has more of them than the limit. *)
PreviewIsWhole ==
    draft # NoDraft =>
        LET p == payload[draft.preview]
            all == IF kind = "note" THEN Notes(p.entries) ELSE FlattenSeq(p.entries)
            kept == {i \in DOMAIN draft.cards : draft.cards[i].kept}
        IN /\ Cardinality(kept) <= MaxCards
           /\ ~ReadPayload(p).cut =>
                 Cardinality(kept) = Cardinality({i \in DOMAIN all : Taken(all[i])})

(* An import only ever adds: no card replaces an object that is there, one that
   came after the collection was listed included. *)
CreationAdds ==
    \A t \in Tabs : CreateCard(t) =>
        /\ DOMAIN server \subseteq DOMAIN server'
        /\ \A u \in DOMAIN server : server'[u] = server[u]
OnlyAdds == [][CreationAdds]_vars

-----------------------------------------------------------------------------
(* Slips of these operations. *)
PeekAndConfirm(t) ==
    /\ tab[t].at = "idle"
    /\ draft # NoDraft
    /\ tab' = [tab EXCEPT ![t] = [Idle EXCEPT !.at = "list", !.preview = draft.preview,
                                              !.todo = draft.cards]]
    /\ UNCHANGED <<kind, server, draft, previews, payload>>

CreateUnconditionally(t) ==
    LET i == NextCard(t)
        uid == UidFor(t, i)
    IN /\ tab[t].at = "create"
       /\ i # 0
       /\ server' = Holding(uid, <<tab[t].preview, i>>)
       /\ tab' = [tab EXCEPT ![t].created = @ \cup {i}, ![t].known = @ \cup {uid}]
       /\ UNCHANGED <<kind, draft, previews, payload>>

LoneFileCut(entry) ==
    Read(SubSeq(entry, 1, IF Len(entry) > MaxCards THEN MaxCards ELSE Len(entry)), FALSE)
=============================================================================
