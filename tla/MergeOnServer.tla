--------------------------- MODULE MergeOnServer ---------------------------
(***************************************************************************)
(* Merging a group of contacts into one card on the server (§15):           *)
(* internal/web/handler/duplicates_merge.go and internal/merge/vcard.go.     *)
(* Every card is read again, the merged card is written, then the others are  *)
(* deleted one by one, each step conditional on the version read, while other *)
(* clients edit and delete the same cards.  There is no way back.           *)
(*                                                                         *)
(* A card is its properties, each a sequence of values; a value is what it    *)
(* folds to and how it is written, so two values may be one number.         *)
(***************************************************************************)
EXTENDS Integers, Sequences, FiniteSets, SequencesExt, Functions

CONSTANTS
    Target, Sources,     \* the card merged into, and the sequence of the others
    Cards,               \* what a card may hold: [Names -> Seq of <<fold, text>>]
    ReadOnly,            \* cards of collections without write access
    MaxETag              \* bound: how often a card changes

Names == {"TEL", "NOTE", "UID"}
repeatableProperties == {"TEL"}
serverProperties == {"UID"}
Gone == [gone |-> TRUE]
Unread == [unread |-> TRUE]

All == {Target} \cup Range(Sources)

VARIABLES
    server,     \* [All -> [etag, card]] or Gone
    read,       \* [All -> what planMerge read]
    at,         \* where the merge is
    written,    \* the card that was stored as the merged one, or Unread
    deleted,    \* how many sources have gone, in order
    group,      \* whether the decision about the group is still stored
    history     \* the cards that went with the merge's deletions

vars == <<server, read, at, written, deleted, group, history>>

Init ==
    /\ server \in [All -> {[etag |-> 1, card |-> c] : c \in Cards}]
    /\ read = [c \in All |-> Unread]
    /\ at = "plan"
    /\ written = Unread
    /\ deleted = 0
    /\ group \in BOOLEAN
    /\ history = <<>>

-----------------------------------------------------------------------------
Fold(value) == value[1]
NoText == ""

(* The base values followed by the incoming ones it does not carry. *)
dedupeValues(base, incoming) ==
    LET all == base \o incoming
        out[i \in 0 .. Len(all)] ==
            IF i = 0 THEN <<>>
            ELSE IF \/ Fold(all[i]) = NoText
                    \/ \E j \in DOMAIN out[i - 1] : Fold(out[i - 1][j]) = Fold(all[i])
            THEN out[i - 1]
            ELSE Append(out[i - 1], all[i])
    IN out[Len(all)]

Collect(others, name) == FlattenSeq([i \in DOMAIN others |-> others[i][name]])

(* What the merged card gets for a property, when it gets anything. *)
Merged(target, others, name) ==
    LET existing == target[name]
        values == dedupeValues(existing, Collect(others, name))
    IN IF existing = <<>> THEN values
       ELSE IF name \in repeatableProperties /\ Len(values) # Len(existing) THEN values
       ELSE existing

MergedCard(target, others) ==
    [name \in Names |-> IF name \in serverProperties THEN target[name]
                        ELSE Merged(target, others, name)]

-----------------------------------------------------------------------------
Waiting == {c \in All : read[c] = Unread}
NextRead == IF read[Target] = Unread THEN Target
            ELSE Sources[CHOOSE i \in DOMAIN Sources :
                    /\ read[Sources[i]] = Unread
                    /\ \A j \in 1 .. i - 1 : read[Sources[j]] # Unread]

Stop == at' = "stopped"

(* planMerge reads the target and then the sources, with the version of each;
   one that is gone or may not be written to ends it. *)
ReadMergeCard ==
    /\ at = "plan"
    /\ Waiting # {}
    /\ LET c == NextRead
       IN \/ /\ server[c] # Gone /\ c \notin ReadOnly
             /\ read' = [read EXCEPT ![c] = server[c]]
             /\ at' = "plan"
          \/ Stop /\ UNCHANGED read
    /\ UNCHANGED <<server, written, deleted, group, history>>

Holds(c) == server[c] # Gone /\ server[c].etag = read[c].etag

(* The merged card, If-Match.  When the answer is lost the card may be stored,
   and the merge stops as if it were not. *)
WriteMerged ==
    LET merged == MergedCard(read[Target].card,
                             [i \in DOMAIN Sources |-> read[Sources[i]].card])
        Store == server' = [server EXCEPT ![Target] = [etag |-> @.etag + 1, card |-> merged]]
    IN /\ at = "plan"
       /\ Waiting = {}
       /\ \/ /\ Holds(Target) /\ Store
             /\ written' = merged /\ at' = "delete"
          \/ Holds(Target) /\ Store /\ Stop /\ UNCHANGED written
          \/ Stop /\ UNCHANGED <<server, written>>
       /\ UNCHANGED <<read, deleted, group, history>>

(* Slip: the source goes whatever its version is. *)
DeleteAnyVersion ==
    LET c == Sources[deleted + 1]
    IN /\ at = "delete"
       /\ deleted < Len(Sources)
       /\ \/ /\ server[c] # Gone
             /\ server' = [server EXCEPT ![c] = Gone]
             /\ history' = Append(history, server[c].card)
             /\ deleted' = deleted + 1 /\ UNCHANGED at
          \/ Stop /\ UNCHANGED <<server, deleted, history>>
       /\ UNCHANGED <<read, written, group>>

(* The sources go in order; the first refusal ends it. *)
DeleteSource ==
    LET c == Sources[deleted + 1]
    IN /\ at = "delete"
       /\ deleted < Len(Sources)
       /\ \/ /\ Holds(c)
             /\ server' = [server EXCEPT ![c] = Gone]
             /\ history' = Append(history, server[c].card)
             /\ \/ deleted' = deleted + 1 /\ UNCHANGED at
                \/ Stop /\ UNCHANGED deleted
          \/ Stop /\ UNCHANGED <<server, deleted, history>>
       /\ UNCHANGED <<read, written, group>>

(* The decision goes with the last source. *)
DropGroup ==
    /\ at = "delete"
    /\ deleted = Len(Sources)
    /\ group' \in {FALSE, group}     \* a failure is logged
    /\ at' = "done"
    /\ UNCHANGED <<server, read, written, deleted, history>>

OthersEdit(c) ==
    /\ server[c] # Gone
    /\ server[c].etag < MaxETag
    /\ \E card \in Cards : server' = [server EXCEPT ![c] = [etag |-> @.etag + 1, card |-> card]]
    /\ UNCHANGED <<read, at, written, deleted, group, history>>

OthersDelete(c) ==
    /\ server[c] # Gone
    /\ server' = [server EXCEPT ![c] = Gone]
    /\ UNCHANGED <<read, at, written, deleted, group, history>>

Next ==
    \/ ReadMergeCard \/ WriteMerged \/ DeleteSource \/ DropGroup
    \/ \E c \in All : OthersEdit(c) \/ OthersDelete(c)

Spec == Init /\ [][Next]_vars

-----------------------------------------------------------------------------
(* What a card had that the merged one must have: every value of a repeatable
   property, and every value of one the target did not have. *)
KeysOf(card, name) == {Fold(card[name][i]) : i \in DOMAIN card[name]} \ {NoText}

Survives(card) ==
    \A name \in Names \ serverProperties :
       name \in repeatableProperties \/ read[Target].card[name] = <<>> =>
          KeysOf(card, name) \subseteq KeysOf(written, name)

Distinct(card) ==
    \A name \in repeatableProperties :
       Cardinality(KeysOf(card, name)) = Len(card[name])

(* A source is deleted only after the merged card was stored, and only as the
   version that was merged: nothing it held goes with it, an edit made meanwhile
   included.  It holds of a target whose own values differ from each other. *)
SourcesAreMergedFirst ==
    history # <<>> =>
        /\ written # Unread
        /\ Distinct(read[Target].card) => \A i \in DOMAIN history : Survives(history[i])

(* The same of every target, as the comment of MergedPatch has it: a repeatable
   property becomes the union.  It does not hold. *)
UnionKeepsAll == \A i \in DOMAIN history : Survives(history[i])

-----------------------------------------------------------------------------
=============================================================================
