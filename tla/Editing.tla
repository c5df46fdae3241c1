------------------------------ MODULE Editing ------------------------------
(***************************************************************************)
(* One contact, event, task or note while several browser tabs and other    *)
(* clients edit it: the pages of internal/web/handler, the conditional       *)
(* writes of internal/provider/contacts and calendar, and the conflict       *)
(* screen with its drafts in the session (§9).                             *)
(*                                                                         *)
(* The object is what the operations tell apart: the text of the form, the  *)
(* tick of a task, the links of its attachments.  Its ETag is a number that *)
(* grows with every change.  A request to the server is one step, and so is *)
(* what a handler does between two of them.                                *)
(***************************************************************************)
EXTENDS Integers, Sequences, FiniteSets, SequencesExt

CONSTANTS
    Tabs,            \* browser tabs
    Sharing,         \* the sessions they may be in: functions [Tabs -> session]
    Files,           \* names of attachments
    MaxETag          \* bound: how often the object changes, for each of them

Families == {"contact", "ical"}
Foreign == "foreign"             \* text another client wrote
NoBody == [nobody |-> TRUE]      \* the empty body of a refused deletion
NoDraft == [nodraft |-> TRUE]
Gone == [gone |-> TRUE]

VARIABLES
    sessionOf,  \* the session each tab is in
    family,     \* contacts, or the three sections of calendar objects
    server,     \* [etag, body], body = Gone when it is not there
    uploaded,   \* the files the attachment folder holds
    drafts,     \* [session -> ConflictDraft], one key: there is one object
    page,       \* [Tabs -> record], what a tab shows
    op          \* [Tabs -> record], the request a tab waits for

vars == <<sessionOf, family, server, uploaded, drafts, page, op>>

Sessions == {sessionOf[t] : t \in Tabs}
Bodies == [text : Tabs \cup {Foreign}, done : BOOLEAN, links : Seq(Files)]

Blank == [kind |-> "none", etag |-> 0, body |-> Gone, local |-> NoBody]
Idle == [at |-> "idle", does |-> "none", etag |-> 0, body |-> Gone, arg |-> 1]

Init ==
    /\ sessionOf \in Sharing
    /\ family \in Families
    /\ server = [etag |-> 1, body |-> [text |-> Foreign, done |-> FALSE, links |-> <<>>]]
    /\ uploaded = {}
    /\ drafts = [s \in Sessions |-> NoDraft]
    /\ page = [t \in Tabs |-> Blank]
    /\ op = [t \in Tabs |-> Idle]

-----------------------------------------------------------------------------
There == server.body # Gone
At(t, at) == op[t].at = at
Store(body) == server' = [etag |-> server.etag + 1, body |-> body]
CanStore == server.etag < MaxETag[sessionOf]

(* The page is drawn, with a card, a conflict or an error. *)
Show(t, p) ==
    /\ page' = [page EXCEPT ![t] = p]
    /\ op' = [op EXCEPT ![t] = Idle]
Refuse(t) == page' = page /\ op' = [op EXCEPT ![t] = Idle]

(* What an edit makes of the object it is applied to.  A tick is the other
   value of what the object holds; the number of an attachment counts in the
   links the object holds. *)
Ticked(body) == [body EXCEPT !.done = ~@]
Detached(body, n) == [body EXCEPT !.links = RemoveAt(@, n)]
Attached(body, name) == [body EXCEPT !.links = Append(@, name)]

Edited(t, does, arg, body) ==
    CASE does = "save"   -> [body EXCEPT !.text = t]
      [] does = "toggle" -> Ticked(body)
      [] does = "detach" -> Detached(body, arg)
      [] does = "attach" -> Attached(body, arg)

Edits == IF family = "ical" THEN {"save", "toggle", "detach", "attach"} ELSE {"save"}

-----------------------------------------------------------------------------
(* The card is read and drawn with the version it has. *)
Open(t) ==
    /\ At(t, "idle")
    /\ page' = [page EXCEPT ![t] =
          IF There THEN [Blank EXCEPT !.kind = "card", !.etag = server.etag, !.body = server.body]
          ELSE Blank]
    /\ UNCHANGED <<sessionOf, family, server, uploaded, drafts, op>>

(* A form of the card is posted; its etag field is the version drawn. *)
Submit(t) ==
    /\ At(t, "idle")
    /\ page[t].kind = "card"
    /\ \E does \in Edits \cup {"delete"} :
         /\ does = "detach" => page[t].body.links # <<>>
         /\ \E arg \in IF does = "detach" THEN 1 .. Len(page[t].body.links) ELSE {1} :
              op' = [op EXCEPT ![t] = [Idle EXCEPT
                        !.at = IF does = "delete" THEN "delete" ELSE "get",
                        !.does = does, !.arg = arg, !.etag = page[t].etag]]
    /\ UNCHANGED <<sessionOf, family, server, uploaded, drafts, page>>

(* The object is read again, and the edit applied to what is there now; the
   write stays conditional on the version of the form. *)
ReadForEdit(t) ==
    /\ At(t, "get")
    /\ \/ /\ There
          /\ op[t].does # "attach"
          /\ op[t].does = "detach" => op[t].arg <= Len(server.body.links)
          /\ op' = [op EXCEPT ![t].at = "put",
                              ![t].body = Edited(t, op[t].does, op[t].arg, server.body)]
       \/ /\ There
          /\ op[t].does = "attach"
          /\ op' = [op EXCEPT ![t].at = "upload", ![t].body = server.body]
       \/ op' = [op EXCEPT ![t] = Idle]   \* an error page, or one link too few
    /\ UNCHANGED <<sessionOf, family, server, uploaded, drafts, page>>

(* The file goes up under a name that is free, and the link is added after. *)
Upload(t) ==
    /\ At(t, "upload")
    /\ \/ \E name \in Files \ uploaded :
             /\ uploaded' = uploaded \cup {name}
             /\ op' = [op EXCEPT ![t].at = "put", ![t].arg = name,
                                 ![t].body = Edited(t, "attach", name, op[t].body)]
       \/ op' = [op EXCEPT ![t] = Idle] /\ UNCHANGED uploaded
    /\ UNCHANGED <<sessionOf, family, server, drafts, page>>

-----------------------------------------------------------------------------
(* A write with its precondition, from "put" (an edit), "create" and "apply"
   (apply_mine).  The answer may be lost after the server has stored it. *)
Holds(t) == IF At(t, "create") THEN ~There ELSE There /\ server.etag = op[t].etag

(* The draft goes when its own write succeeded. *)
ClearDraft(t) == drafts' = [drafts EXCEPT ![sessionOf[t]] = NoDraft]

Put(t) ==
    /\ At(t, "put") \/ At(t, "create") \/ At(t, "apply")
    /\ \/ /\ Holds(t) /\ CanStore
          /\ Store(op[t].body)
          /\ \/ /\ Show(t, Blank)
                /\ IF At(t, "put") THEN UNCHANGED drafts ELSE ClearDraft(t)
             \/ Refuse(t) /\ UNCHANGED drafts
       \/ /\ ~Holds(t)
          /\ op' = [op EXCEPT ![t].at = "conflict"]
          /\ UNCHANGED <<server, drafts, page>>
       \/ Refuse(t) /\ UNCHANGED <<server, drafts>>
    /\ UNCHANGED <<sessionOf, family, uploaded>>

Delete(t) ==
    /\ At(t, "delete")
    /\ \/ /\ Holds(t) /\ CanStore
          /\ Store(Gone)
          /\ Show(t, Blank) \/ Refuse(t)
       \/ /\ ~Holds(t)
          /\ op' = [op EXCEPT ![t].at = "conflict", ![t].body = NoBody]
          /\ UNCHANGED <<server, page>>
       \/ Refuse(t) /\ UNCHANGED server
    /\ UNCHANGED <<sessionOf, family, uploaded, drafts>>

(* A refused edit is kept under the key of its object, whatever is there. *)
PutConflict(t, body) == drafts' = [drafts EXCEPT ![sessionOf[t]] = [body |-> body]]

(* The refusal: the server's version is read again, the edit put aside and both
   shown.  An attachment only tells that its link was not added. *)
Conflict(t) ==
    /\ At(t, "conflict")
    /\ IF op[t].does = "attach"
       THEN Show(t, Blank) /\ UNCHANGED drafts
       ELSE /\ PutConflict(t, op[t].body)
            /\ \E remote \in {[etag |-> server.etag, body |-> server.body],
                              [etag |-> 0, body |-> Gone]} :
                 Show(t, [kind |-> "conflict", etag |-> remote.etag, body |-> remote.body,
                          local |-> op[t].body])
    /\ UNCHANGED <<sessionOf, family, server, uploaded>>

-----------------------------------------------------------------------------
(* The three choices of the conflict screen. *)
GiveIn(t) ==
    /\ At(t, "idle") /\ page[t].kind = "conflict"
    /\ drafts' = [drafts EXCEPT ![sessionOf[t]] = NoDraft]
    /\ Show(t, Blank)
    /\ UNCHANGED <<sessionOf, family, server, uploaded>>

ApplyMine(t) ==
    /\ At(t, "idle") /\ page[t].kind = "conflict"
    /\ LET draft == drafts[sessionOf[t]] IN
       \/ /\ draft = NoDraft
          /\ Show(t, Blank) /\ UNCHANGED drafts
       \/ /\ draft # NoDraft /\ draft.body = NoBody
          /\ IF family = "contact" THEN ClearDraft(t) ELSE UNCHANGED drafts
          /\ Show(t, Blank)
       \/ /\ draft # NoDraft /\ draft.body # NoBody
          /\ op' = [op EXCEPT ![t] = [Idle EXCEPT !.at = "reread", !.does = "apply",
                                                  !.body = draft.body]]
          /\ UNCHANGED <<drafts, page>>
    /\ UNCHANGED <<sessionOf, family, server, uploaded>>

(* The write is made conditional on what is there now; an object that cannot be
   read is taken to be gone. *)
Reread(t) ==
    /\ At(t, "reread")
    /\ \/ op' = [op EXCEPT ![t].at = "create"]
       \/ There /\ op' = [op EXCEPT ![t].at = "apply", ![t].etag = server.etag]
    /\ UNCHANGED <<sessionOf, family, server, uploaded, drafts, page>>

-----------------------------------------------------------------------------
(* Another client of the same server. *)
OtherClient ==
    /\ CanStore
    /\ \/ /\ There
          /\ \/ Store([server.body EXCEPT !.text = Foreign])
             \/ family = "ical" /\ Store([server.body EXCEPT !.done = ~@])
             \/ (server.body.links # <<>>) /\ Store([server.body EXCEPT !.links = Tail(@)])
             \/ Store(Gone)
       \/ ~There /\ Store([text |-> Foreign, done |-> FALSE, links |-> <<>>])
    /\ UNCHANGED <<sessionOf, family, uploaded, drafts, page, op>>

Next ==
    \/ \E t \in Tabs :
         \/ Open(t) \/ Submit(t) \/ ReadForEdit(t) \/ Upload(t) \/ Put(t) \/ Delete(t)
         \/ Conflict(t) \/ GiveIn(t) \/ ApplyMine(t) \/ Reread(t)
    \/ OtherClient

Spec == Init /\ [][Next]_vars

-----------------------------------------------------------------------------
(* Properties *)

(* Every link in the object is to a file that was uploaded: the file goes up
   first (attachments.go:388), and what is linked to is never a file that a
   failed request left out. *)
LinksLeadToFiles ==
    There => ToSet(server.body.links) \subseteq uploaded

(* The draft of a session whose tabs do not share an object is the edit its
   conflict screen shows, until the person has chosen: architecture.md:80, a
   refused edit awaits a decision.  The draft is keyed by the object alone, so
   two tabs of one session do share it. *)
RefusalAwaitsDecision ==
    \A t \in Tabs :
        /\ page[t].kind = "conflict"
        /\ \A u \in Tabs \ {t} : sessionOf[u] # sessionOf[t]
        => drafts[sessionOf[t]] = [body |-> page[t].local]

(* A tab's request has stored something in this step. *)
StoredBy(t) ==
    /\ ~At(t, "idle")
    /\ op'[t] # op[t]
    /\ server' # server

(* An edit that the server took is what the person asked of the object on the
   page, no more and no less: nothing that others changed since is overwritten,
   the tick has the value that was not shown, and the link that goes is the one
   that was pointed at, although the edit was made on a later reading. *)
EditIsOfWhatWasShown ==
    \A t \in Tabs :
        StoredBy(t) /\ op[t].at \in {"put", "delete"} =>
           server'.body = IF op[t].does = "delete" THEN Gone
                          ELSE Edited(t, op[t].does, op[t].arg, page[t].body)
EditsWhatWasShown == [][EditIsOfWhatWasShown]_vars

(* Does not hold: an edit made elsewhere is never silently overwritten
   (README.md:46).  apply_mine reads the version again (conflict.go:172) and
   overwrites it, also when it is later than the one on the screen. *)
NeverSilentlyOverwritten ==
    [][\A t \in Tabs : StoredBy(t) /\ At(t, "apply") => page[t].etag = server.etag]_vars

(* Does not hold: a tick is a one-property edit (tasks.go:433).  It is computed
   from the object as it is read again, and the draft of a refused tick holds the
   opposite of what was ticked if the task was ticked elsewhere. *)
RefusedTickIsTheTick ==
    \A t \in Tabs :
        At(t, "conflict") /\ op[t].does = "toggle" => op[t].body.done = ~page[t].body.done

-----------------------------------------------------------------------------
(* Slips of the kind a change to this code could make. *)

(* The edit is conditional on the version it was just applied to. *)
ReadAndForget(t) ==
    /\ At(t, "get")
    /\ \/ /\ There
          /\ op[t].does # "attach"
          /\ op[t].does = "detach" => op[t].arg <= Len(server.body.links)
          /\ op' = [op EXCEPT ![t].at = "put", ![t].etag = server.etag,
                              ![t].body = Edited(t, op[t].does, op[t].arg, server.body)]
       \/ op' = [op EXCEPT ![t] = Idle]
    /\ UNCHANGED <<sessionOf, family, server, uploaded, drafts, page>>

(* The link is written although the file did not go up. *)
LinkFirst(t) ==
    /\ At(t, "upload")
    /\ \E name \in Files \ uploaded :
          op' = [op EXCEPT ![t].at = "put", ![t].arg = name,
                           ![t].body = Edited(t, "attach", name, op[t].body)]
    /\ UNCHANGED <<sessionOf, family, server, uploaded, drafts, page>>

(* An older draft of the object is left in place. *)
PutFirstConflict(t, body) ==
    drafts' = [drafts EXCEPT ![sessionOf[t]] = IF @ = NoDraft THEN [body |-> body] ELSE @]
=============================================================================
