------------------------------- MODULE Discovery -------------------------------
(***************************************************************************)
(* What Carrel makes of a DAV server: internal/dav/discovery.  Operators   *)
(* only; Connections stores what they find.                                *)
(*                                                                         *)
(* A path is the sequence of its normalised components, <<>> the root.  A  *)
(* component is a pair <<name, n>>: n is 1, or the suffix UniqueAddress    *)
(* gives on a collision.  A site is a record                               *)
(*   wellKnown   where the two well-known addresses lead, or NoPath        *)
(*   principals  the paths that answer 207, with the principal they name   *)
(*   calHome, abHome   the home sets of the principal, or NoPath           *)
(*   tree        every collection: [types, name, privileges, comps]        *)
(* `fails' is the set of requests of one run that are answered by an error.*)
(***************************************************************************)
EXTENDS Naturals, Sequences, FiniteSets, SequencesExt, FiniteSetsExt, Functions

NoPath == <<<<"nowhere", 0>>>>
RootPath == <<>>
Unsaid == {"unsaid"}  \* the server does not name the privileges at all
Failure == "failure"

\* The entries of a list that are in a set, in the order they had.
Within(seq, S) ==
    LET kept[i \in 0..Len(seq)] ==
            IF i = 0 THEN <<>> ELSE IF seq[i] \in S THEN Append(kept[i - 1], seq[i]) ELSE kept[i - 1]
    IN  kept[Len(seq)]

Requests == {"caldav", "carddav", "principal_base", "principal_root", "calHome", "abHome",
             "calendar", "addressbook", "files"}

\* The first well-known address that answers names the base, the entered one otherwise.
ResolveBaseURL(site, entered, fails) ==
    LET names == {w \in {"caldav", "carddav"} \ fails : site.wellKnown[w] # NoPath}
        answered == Within(<<"caldav", "carddav">>, names)
    IN  IF answered = <<>> THEN entered ELSE site.wellKnown[Head(answered)]

\* One Multi-Status: the principal, NoPath when it names none; anything else is a failure.
PrincipalAt(site, target, request, fails) ==
    IF request \in fails \/ target \notin DOMAIN site.principals
    THEN [ok |-> FALSE, missing |-> FALSE, path |-> NoPath]
    ELSE [ok |-> site.principals[target] # NoPath, missing |-> site.principals[target] = NoPath,
          path |-> site.principals[target]]

\* The base path first, then the root; an answer without a principal means files only.
FindPrincipal(site, base, fails) ==
    LET atBase == PrincipalAt(site, base, "principal_base", fails)
        atRoot == PrincipalAt(site, RootPath, "principal_root", fails)
        tried == IF base = RootPath THEN <<atRoot>> ELSE <<atBase, atRoot>>
        named == Within(tried, {answer \in ToSet(tried) : answer.ok})
    IN  IF named # <<>> THEN Head(named)
        ELSE [ok |-> \E i \in DOMAIN tried : tried[i].missing, missing |-> TRUE, path |-> NoPath]

\* A home the principal does not name, or whose request fails, is simply not there.
FindHome(site, which, fails) == IF which \in fails THEN NoPath ELSE site[which]

Children(tree, path) ==
    {p \in DOMAIN tree : Len(p) = Len(path) + 1 /\ IsPrefix(path, p)}

\* The resource types that make a collection one of a kind; files are what is nothing else.
OfKind(types, kind) ==
    CASE kind = "calendar" -> "calendar" \in types
      [] kind = "addressbook" -> "addressbook" \in types
      [] kind = "files" -> "collection" \in types /\ types \cap {"calendar", "addressbook", "principal"} = {}
OfAnyKind(types, kind) == kind = "files" \/ kind \in types  \* slip: a calendar is a folder too

\* Nothing said means writable; otherwise any of the write privileges does.
DecodePrivileges(privileges) ==
    /\ privileges # Unsaid
    /\ privileges \cap {"write", "write-properties", "write-content", "bind", "unbind"} = {}

DecodeCollection(tree, path, kind) ==
    [path |-> path, kind |-> kind, name |-> tree[path].name,
     comps |-> IF kind = "calendar" THEN tree[path].comps ELSE {},
     readOnly |-> DecodePrivileges(tree[path].privileges)]

\* The protocol's own trees are not offered as folders of files.
HoldsService(path, principal, calHome, abHome) ==
    \E service \in {principal, calHome, abHome} \ {NoPath} : IsPrefix(path, service)

ListCollections(tree, home, kind) ==
    SetToSeq({DecodeCollection(tree, p, kind) :
                 p \in {q \in Children(tree, home) : OfKind(tree[q].types, kind)}})

ListFileCollections(tree, base, principal, calHome, abHome) ==
    LET listed == ListCollections(tree, base, "files")
    IN  Within(listed, {c \in ToSet(listed) : ~HoldsService(c.path, principal, calHome, abHome)})

\* Plain WebDAV: the entered address is the one collection, even when it cannot be read.
TakeFileRoot(tree, base, fails) ==
    IF "files" \notin fails /\ base \in DOMAIN tree /\ OfKind(tree[base].types, "files")
    THEN <<DecodeCollection(tree, base, "files")>>
    ELSE <<[path |-> base, kind |-> "files", name |-> "", comps |-> {}, readOnly |-> FALSE]>>

\* A failed listing is traced and left out; only an empty outcome is an error.
Discover(site, entered, fails) ==
    LET base == ResolveBaseURL(site, entered, fails)
        principal == FindPrincipal(site, base, fails)
        calHome == FindHome(site, "calHome", fails)
        abHome == FindHome(site, "abHome", fails)
        Listed(home, kind) ==
            IF home = NoPath \/ kind \in fails THEN <<>> ELSE ListCollections(site.tree, home, kind)
        collections ==
            IF principal.path = NoPath THEN TakeFileRoot(site.tree, base, fails)
            ELSE Listed(calHome, "calendar") \o Listed(abHome, "addressbook") \o
                 (IF "files" \in fails THEN <<>>
                  ELSE ListFileCollections(site.tree, base, principal.path, calHome, abHome))
    IN  [ok |-> principal.ok /\ collections # <<>>, base |-> base,
         principal |-> principal.path, collections |-> collections]

--------------------------------------------------------------------------------
\* manage.go and address.go: an account without a home set cannot be given a collection.
ResolveHomes(site, principal, fails) ==
    [ok |-> principal # NoPath /\ \E h \in {"calHome", "abHome"} : FindHome(site, h, fails) # NoPath,
     calendar |-> FindHome(site, "calHome", fails), addressbook |-> FindHome(site, "abHome", fails)]

CollectionLeaf(home, path) ==
    IF IsPrefix(home, path) THEN SubSeq(path, Len(home) + 1, Len(path)) ELSE path

CollectionHref(home, address) == Append(home, address)

\* The name as it is, or with the first suffix no stored collection has.
UniqueAddress(home, base, existing) ==
    LET taken == {CollectionLeaf(home, existing[i].path) : i \in DOMAIN existing}
        free == {n \in 1..(Len(existing) + 1) : <<<<base, n>>>> \notin taken}
    IN  <<base, Min(free)>>

\* Reading one collection back; one that is of another kind comes back bare.
RefreshCollection(tree, path, kind) ==
    IF OfKind(tree[path].types, kind) THEN DecodeCollection(tree, path, kind)
    ELSE [path |-> path, kind |-> kind, name |-> "", comps |-> {}, readOnly |-> FALSE]

FindCollection(collections, path) == Within(collections, {c \in ToSet(collections) : c.path = path})
================================================================================
