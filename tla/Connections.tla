------------------------------ MODULE Connections ------------------------------
(***************************************************************************)
(* The connected servers of one user: internal/store/accounts.go and       *)
(* collections.go, internal/account/blob.go and views.go, and the handlers *)
(* of the Connections screen and of the source lists.                      *)
(*                                                                         *)
(* Every handler reads the stored accounts, talks to the server and then   *)
(* updates the store; between these steps other tabs, another client and   *)
(* an administrator act.  A tab is one request under way.  SetDAVAccount-  *)
(* Enabled has no caller, so every stored account is enabled.              *)
(***************************************************************************)
EXTENDS Discovery

CONSTANTS Tabs,        \* requests that may be under way together
          SiteMC,      \* the server without its tree
          TreeMC,      \* its collections at the start
          Entered,     \* the addresses a person may enter
          Faults,      \* sets of failing requests of one run
          Names,       \* names given to collections
          MaxOps       \* bound on requests and changes by others

VARIABLES tree,        \* the collections of the server
          accounts,    \* Blob.Accounts: a sequence of [id, base, principal, cols]
          selected,    \* Views.Selected of one view: the keys, or NoChoice
          default,     \* Views.Defaults of that view: a key, or NoKey
          count,       \* User.DAVAccountCount
          ids,         \* account identifiers handed out
          tabs,        \* the request each tab has under way
          page,        \* the keys of the rows a tab last showed
          ops          \* requests and changes so far
vars == <<tree, accounts, selected, default, count, ids, tabs, page, ops>>

NoChoice == {<<"no choice">>}
NoKey == <<0, NoPath>>
Idle == [op |-> "idle"]

Site == [wellKnown |-> SiteMC.wellKnown, principals |-> SiteMC.principals,
         calHome |-> SiteMC.calHome, abHome |-> SiteMC.abHome, tree |-> tree]

\* Blob.Find, Blob.Upsert, Blob.Remove.
Held(id) == Within(accounts, {a \in ToSet(accounts) : a.id = id})
Known(id) == Held(id) # <<>>
Upsert(acc) ==
    IF Known(acc.id) THEN [i \in DOMAIN accounts |-> IF accounts[i].id = acc.id THEN acc ELSE accounts[i]]
    ELSE Append(accounts, acc)

\* collectionsOfKind: the rows of one view, calendars of every account in order.
Rows ==
    LET Of(acc) == LET cals == SelectSeq(acc.cols, LAMBDA c : c.kind = "calendar")
                   IN  [i \in DOMAIN cals |-> [key |-> <<acc.id, cals[i].path>>, readOnly |-> cals[i].readOnly]]
    IN  FlattenSeq([i \in DOMAIN accounts |-> Of(accounts[i])])
Offered ==
    UNION {{<<acc.id, acc.cols[i].path>> : i \in {j \in DOMAIN acc.cols : acc.cols[j].kind = "calendar"}} :
              acc \in {accounts[n] : n \in DOMAIN accounts}}
Ticked(key) == selected = NoChoice \/ key \in selected

\* defaultCollection: the remembered row while it can be written, else the first that can.
DefaultRow ==
    LET writable == SelectSeq(Rows, LAMBDA r : ~r.readOnly)
        kept == SelectSeq(writable, LAMBDA r : r.key = default)
    IN  IF kept # <<>> THEN Head(kept).key ELSE IF writable # <<>> THEN Head(writable).key ELSE NoKey

Stored(id, found) ==
    [id |-> id, base |-> found.base, principal |-> found.principal, cols |-> found.collections]

\* A new user, or one who has connected the server before.
Init ==
    /\ tree = TreeMC
    /\ \/ accounts = <<>>
       \/ \E entered \in Entered : accounts = <<Stored(1, Discover(Site, entered, {}))>>
    /\ count = Len(accounts) /\ ids = count
    /\ selected = NoChoice /\ default = NoKey /\ ops = 0
    /\ tabs = [t \in Tabs |-> Idle]
    /\ page = [t \in Tabs |-> {}]

Start(t, request) ==
    /\ tabs[t] = Idle /\ ops < MaxOps
    /\ ops' = ops + 1
    /\ tabs' = [tabs EXCEPT ![t] = request]
End(t) == tabs' = [tabs EXCEPT ![t] = Idle] /\ UNCHANGED ops
Goes(t, request) == tabs' = [tabs EXCEPT ![t] = request] /\ UNCHANGED ops

--------------------------------------------------------------------------------
\* appConnectDAV: discovery, then a new account with all of its outcome.
Connect(t, entered, fails) ==
    LET found == Discover(Site, entered, fails)
    IN  /\ Start(t, [op |-> "connect", found |-> found])
        /\ found.ok
        /\ UNCHANGED <<tree, accounts, selected, default, count, ids, page>>

PutNew(t) ==
    /\ tabs[t].op = "connect"
    /\ ids' = ids + 1
    /\ accounts' = Upsert(Stored(ids', tabs[t].found))
    /\ count' = Len(accounts')
    /\ End(t)
    /\ UNCHANGED <<tree, selected, default, page>>

\* appUpdateDAV: the account is read, the discovery run again, and the copy put back.
Edit(t, id, entered, fails) ==
    LET found == Discover(Site, entered, fails)
    IN  /\ Known(id)
        /\ Start(t, [op |-> "edit", id |-> id, found |-> found, seen |-> tree])
        /\ found.ok
        /\ UNCHANGED <<tree, accounts, selected, default, count, ids, page>>

PutEdited(t) ==
    /\ tabs[t].op = "edit"
    /\ accounts' = Upsert(Stored(tabs[t].id, tabs[t].found))
    /\ count' = Len(accounts')
    /\ End(t)
    /\ UNCHANGED <<tree, selected, default, ids, page>>

\* appDeleteDAV: the account goes; the views keep what they say of it.
DeleteAccount(id) ==
    /\ Known(id) /\ ops < MaxOps /\ ops' = ops + 1
    /\ accounts' = Within(accounts, {a \in ToSet(accounts) : a.id # id})
    /\ count' = Len(accounts')
    /\ UNCHANGED <<tree, selected, default, ids, tabs, page>>

--------------------------------------------------------------------------------
\* collectionNewSubmit: homes, a free address, MKCALENDAR or MKCOL, read back, upsert.
Create(t, id, kind, name, fails) ==
    LET acc == Head(Held(id))
        homes == ResolveHomes(Site, acc.principal, fails)
        address == UniqueAddress(homes[kind], name, acc.cols)
    IN  /\ tabs[t] = Idle /\ Known(id) /\ homes.ok /\ homes[kind] # NoPath
        /\ Start(t, [op |-> "create", id |-> id, kind |-> kind, name |-> name,
                     path |-> CollectionHref(homes[kind], address)])
        /\ UNCHANGED <<tree, accounts, selected, default, count, ids, page>>

\* The server makes what is not there and refuses what is.
Make(t) ==
    /\ tabs[t].op = "create"
    /\ IF tabs[t].path \in DOMAIN tree THEN End(t) /\ UNCHANGED tree
       ELSE /\ LET made == [types |-> {"collection", tabs[t].kind}, name |-> tabs[t].name,
                            privileges |-> Unsaid, comps |-> {"VEVENT"}]
               IN  tree' = [p \in DOMAIN tree \cup {tabs[t].path} |->
                               IF p = tabs[t].path THEN made ELSE tree[p]]
            /\ Goes(t, [op |-> "refresh", id |-> tabs[t].id, kind |-> tabs[t].kind, path |-> tabs[t].path])
    /\ UNCHANGED <<accounts, selected, default, count, ids, page>>

\* loadCollectionTarget and the refusals of renaming and deleting.
Target(t, id, path, op, name) ==
    LET cols == FindCollection(Head(Held(id)).cols, path)
    IN  /\ tabs[t] = Idle /\ Known(id) /\ cols # <<>> /\ ~Head(cols).readOnly
        /\ Start(t, [op |-> op, id |-> id, kind |-> Head(cols).kind, path |-> path, name |-> name])
        /\ UNCHANGED <<tree, accounts, selected, default, count, ids, page>>

\* collectionRenameSubmit: PROPPATCH, which fails when the collection has gone.
Rename(t) ==
    /\ tabs[t].op = "rename"
    /\ IF tabs[t].path \notin DOMAIN tree THEN End(t) /\ UNCHANGED tree
       ELSE /\ tree' = [tree EXCEPT ![tabs[t].path].name = tabs[t].name]
            /\ Goes(t, [op |-> "refresh", id |-> tabs[t].id, kind |-> tabs[t].kind, path |-> tabs[t].path])
    /\ UNCHANGED <<accounts, selected, default, count, ids, page>>

\* refreshCollection: a failed reading leaves the store as it was.
Refresh(t) ==
    /\ tabs[t].op = "refresh"
    /\ \/ End(t)
       \/ /\ tabs[t].path \in DOMAIN tree
          /\ Goes(t, [op |-> "upsert", id |-> tabs[t].id,
                      col |-> RefreshCollection(tree, tabs[t].path, tabs[t].kind)])
    /\ UNCHANGED <<tree, accounts, selected, default, count, ids, page>>

\* The row of that path is replaced, or one is added.
Placed(cols, col) ==
    IF FindCollection(cols, col.path) = <<>> THEN Append(cols, col)
    ELSE [i \in DOMAIN cols |-> IF cols[i].path = col.path THEN col ELSE cols[i]]
Appended(cols, col) == Append(cols, col)  \* slip: the row that is there is not looked for

UpsertCollection(t) ==
    /\ tabs[t].op = "upsert"
    /\ IF Known(tabs[t].id)
       THEN LET acc == Head(Held(tabs[t].id))
            IN  accounts' = Upsert([acc EXCEPT !.cols = Placed(acc.cols, tabs[t].col)])
       ELSE UNCHANGED accounts
    /\ End(t)
    /\ UNCHANGED <<tree, selected, default, count, ids, page>>

\* collectionDeleteSubmit: DELETE, with everything below it.
DeleteOnServer(t) ==
    /\ tabs[t].op = "delete"
    /\ IF tabs[t].path \notin DOMAIN tree THEN End(t) /\ UNCHANGED tree
       ELSE /\ tree' = [p \in {q \in DOMAIN tree : ~IsPrefix(tabs[t].path, q)} |-> tree[p]]
            /\ Goes(t, [op |-> "remove", id |-> tabs[t].id, path |-> tabs[t].path])
    /\ UNCHANGED <<accounts, selected, default, count, ids, page>>

PurgedAway(keys, key) == IF keys \subseteq {key} THEN NoChoice ELSE keys \ {key}  \* slip: empty is forgotten

\* Views.PurgeCollection: the key leaves the selection and the default, nothing else does.
Purged(keys, key) == keys \ {key}
PurgedEverywhere(keys, key) == {k \in keys : k[2] # key[2]}  \* slip: the account is not compared

RemoveCollection(t) ==
    LET key == <<tabs[t].id, tabs[t].path>>
        acc == Head(Held(tabs[t].id))
        kept == Within(acc.cols, {c \in ToSet(acc.cols) : c.path # tabs[t].path})
    IN  /\ tabs[t].op = "remove"
        /\ IF Known(tabs[t].id) /\ kept # acc.cols
           THEN /\ accounts' = Upsert([acc EXCEPT !.cols = kept])
                /\ selected' = IF selected = NoChoice THEN NoChoice ELSE Purged(selected, key)
                /\ default' = IF default = key THEN NoKey ELSE default
           ELSE UNCHANGED <<accounts, selected, default>>
        /\ End(t)
        /\ UNCHANGED <<tree, count, ids, page>>

--------------------------------------------------------------------------------
\* The sources panel of a section, and the form it sends back.
ShowSources(t) ==
    /\ tabs[t] = Idle /\ page[t] # Offered
    /\ page' = [page EXCEPT ![t] = Offered]
    /\ UNCHANGED <<tree, accounts, selected, default, count, ids, tabs, ops>>

SaveSelection(t, keys) ==
    /\ Start(t, Idle) /\ keys \subseteq page[t]
    /\ selected' = keys \cap Offered
    /\ UNCHANGED <<tree, accounts, default, count, ids, page>>

\* A record is filed in the default or in another row, and its collection remembered.
FileRecord(t, key) ==
    /\ DefaultRow # NoKey /\ key \in Offered
    /\ Start(t, [op |-> "file", key |-> key])
    /\ UNCHANGED <<tree, accounts, selected, default, count, ids, page>>

RememberDefault(t) ==
    /\ tabs[t].op = "file"
    /\ default' = IF tabs[t].key[2] \in DOMAIN tree THEN tabs[t].key ELSE default
    /\ End(t)
    /\ UNCHANGED <<tree, accounts, selected, count, ids, page>>

\* ResetPassword: the blob is destroyed; the sessions go with the request under way.
ResetPassword ==
    /\ accounts # <<>> /\ ops < MaxOps /\ ops' = ops + 1
    /\ accounts' = <<>> /\ selected' = NoChoice /\ default' = NoKey
    /\ tabs' = [t \in Tabs |-> Idle] /\ page' = [t \in Tabs |-> {}]
    /\ UNCHANGED <<tree, count, ids>>

\* Another client takes a calendar or an address book away.
OtherClient(path) ==
    /\ ops < MaxOps /\ ops' = ops + 1
    /\ path \in DOMAIN tree /\ tree[path].types \cap {"calendar", "addressbook"} # {}
    /\ tree' = [p \in DOMAIN tree \ {path} |-> tree[p]]
    /\ UNCHANGED <<accounts, selected, default, count, ids, tabs, page>>

Ids == 1..ids
Request(t) ==
    \/ \E entered \in Entered, fails \in Faults : Connect(t, entered, fails)
    \/ \E id \in Ids, entered \in Entered, fails \in Faults : Edit(t, id, entered, fails)
    \/ \E id \in Ids, kind \in {"calendar", "addressbook"}, name \in Names, fails \in Faults :
          Create(t, id, kind, name, fails)
    \/ \E id \in Ids, op \in {"rename", "delete"}, name \in Names, path \in DOMAIN TreeMC :
          Target(t, id, path, op, name)
    \/ ShowSources(t)
    \/ \E keys \in SUBSET page[t] : SaveSelection(t, keys)
    \/ \E key \in Offered : FileRecord(t, key)
Step(t) ==
    \/ PutNew(t) \/ PutEdited(t) \/ Make(t) \/ Rename(t) \/ Refresh(t) \/ UpsertCollection(t)
    \/ DeleteOnServer(t) \/ RemoveCollection(t) \/ RememberDefault(t)

Next ==
    \/ \E t \in Tabs : Request(t) \/ Step(t)
    \/ \E id \in Ids : DeleteAccount(id)
    \/ ResetPassword
    \/ \E path \in DOMAIN tree : OtherClient(path)

Spec == Init /\ [][Next]_vars

--------------------------------------------------------------------------------
\* Whatever discoveries, creations and renames of several tabs leave behind, an
\* account offers a path once, and never a folder of files that is or holds one
\* of the protocol's own trees (discovery.go holdsService, store UpsertCollection).
RowsAreRight ==
    \A i \in DOMAIN accounts :
        LET cols == accounts[i].cols
        IN  /\ \A m, n \in DOMAIN cols : cols[m].path = cols[n].path => m = n
            /\ accounts[i].principal # NoPath =>
                  \A m \in DOMAIN cols : cols[m].kind = "files" =>
                      /\ ~HoldsService(cols[m].path, SiteMC.calHome, SiteMC.abHome, accounts[i].principal)
                      /\ cols[m].path \in DOMAIN TreeMC =>
                            TreeMC[cols[m].path].types \cap {"calendar", "addressbook"} = {}

\* A tick is the person's (views.go, sources.go collectionsOfKind): no discovery,
\* no removal of another collection and no purge changes whether a row that is
\* still offered is selected; only saving a selection does.
TicksKept ==
    \/ \A key \in Offered \cap Offered' : Ticked(key) = Ticked(key)'
    \/ \E t \in Tabs : \E keys \in SUBSET page[t] : SaveSelection(t, keys)
TicksStay == [][TicksKept]_vars

\* What the comment of appUpdateDAV promises, "a broken edit is never saved silently":
\* an edit that enters the address as it is keeps the collections the server still had.
\* It does not hold: a listing that fails is traced, and the rest replaces everything.
BrokenEditIsNotSaved ==
    [][\A t \in Tabs, id \in Ids :
         (/\ tabs[t].op = "edit" /\ tabs[t].id = id /\ tabs'[t] = Idle
          /\ Known(id) /\ Known(id)' /\ tabs[t].found.base = Head(Held(id)).base) =>
             LET cols == Head(Held(id)).cols
             IN  \A i \in DOMAIN cols :
                     cols[i].path \in DOMAIN tabs[t].seen =>
                         FindCollection(Head(Held(id)').cols, cols[i].path) # <<>>]_vars

\* model.go: the count is "maintained without decrypting Secrets so the admin list
\* can show it".  It does not hold: ResetPassword destroys the connections, not the count.
CountFollowsBlob == count = Len(accounts)
================================================================================
