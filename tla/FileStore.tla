----------------------------- MODULE FileStore -----------------------------
(***************************************************************************)
(* The file collections of a WebDAV account: internal/provider/files and     *)
(* the handlers of uploads, moves, copies and deletions, several of which    *)
(* run at once, beside other clients of the server.                         *)
(*                                                                         *)
(* Each request to the server is one step.  What a file holds is a number    *)
(* that is new with each upload and also serves as its ETag.  The cached     *)
(* listings are taken and dropped in the step of their request; what races   *)
(* do to a listing in flight is the subject of CachedListing.               *)
(***************************************************************************)
EXTENDS Integers, Sequences, FiniteSets, SequencesExt

CONSTANTS
    Threads,         \* the requests a session makes at once
    Roots,           \* file collections, each <<name>>
    Paths,           \* members: sequences of names, a collection first
    Next2(_),        \* the second name an upload tries for a path
    Servers,         \* what servers do: [honours, tagged]
    MaxBody          \* bound: how many bodies are ever stored

Nothing == 0
Folder == -1
NoETag == 0          \* the empty If-Match
NoListing == [nolisting |-> TRUE]

VARIABLES
    honours,    \* whether the server honours If-None-Match
    tagged,     \* whether it gives ETags
    tree,       \* [Paths -> body], Folder or Nothing
    bodies,     \* how many bodies were stored
    listed,     \* the directories whose listing the session has cached
    op          \* [Threads -> record], the request being handled

vars == <<honours, tagged, tree, bodies, listed, op>>

Dirs == Roots \cup Paths
Idle == [at |-> "idle", does |-> "none", from |-> <<>>, to |-> <<>>, tag |-> NoETag,
         body |-> Nothing, tries |-> 0]

Init ==
    /\ \E s \in Servers : honours = s.honours /\ tagged = s.tagged
    /\ tree = [p \in Paths |-> Nothing]
    /\ bodies = 0
    /\ listed = {}
    /\ op = [t \in Threads |-> Idle]

-----------------------------------------------------------------------------
(* The server. *)
IsDir(d) == IF d \in Roots THEN TRUE ELSE tree[d] = Folder
Under(d) == {p \in Paths : IsStrictPrefix(d, p)}
Members(d) == {p \in Paths : Front(p) = d /\ tree[p] # Nothing}
Listing(d) == [m \in Members(d) |-> tree[m]]
Free(p) == tree[p] = Nothing /\ IsDir(Front(p))
ETag(p) == IF tagged /\ tree[p] # Folder THEN tree[p] ELSE NoETag
Matches(p, tag) == tree[p] # Nothing /\ (tag = NoETag \/ tag = tree[p])

(* DELETE takes a folder with everything in it. *)
Without(p) == [q \in Paths |-> IF q = p \/ q \in Under(p) THEN Nothing ELSE tree[q]]

(* The member of d that corresponds to q under p, of the other path. *)
Twin(q, p, d) == d \o SubSeq(q, Len(p) + 1, Len(q))

CanMove(p, d) ==
    /\ tree[p] # Nothing /\ Free(d) /\ Head(p) = Head(d)
    /\ ~IsPrefix(p, d)
    /\ \A q \in Under(p) : tree[q] # Nothing => Twin(q, p, d) \in Paths

Moved(p, d) ==
    LET origin(r) == Twin(r, d, p)
    IN  [r \in Paths |->
           IF (r = d \/ r \in Under(d)) /\ origin(r) \in Paths THEN tree[origin(r)]
           ELSE Without(p)[r]]

-----------------------------------------------------------------------------
(* The cache of the session. *)
Drop(dirs) == listed' = listed \ dirs

(* List: from the server and into the cache, for the soft TTL. *)
List(d) ==
    /\ IsDir(d)
    /\ listed' = listed \cup {d}
    /\ UNCHANGED <<honours, tagged, tree, bodies, op>>

Forget(d) ==
    /\ d \in listed
    /\ Drop({d})
    /\ UNCHANGED <<honours, tagged, tree, bodies, op>>

-----------------------------------------------------------------------------
To(t, at) == op' = [op EXCEPT ![t].at = at]
Done(t) == op' = [op EXCEPT ![t] = Idle]
Fixed == UNCHANGED <<honours, tagged>>

(* A request: an upload (plain, or of the queue that asks about a clash, or
   under a free name), a transfer to another collection or a copy, a new folder,
   a deletion with the ETag of the row, a move inside a collection. *)
Begin(t) ==
    /\ op[t].at = "idle"
    /\ \/ \E p \in Paths, does \in {"upload", "queue", "keep-both"} :
            op' = [op EXCEPT ![t] = [Idle EXCEPT !.at = "look", !.does = does, !.to = p]]
       \/ \E p, d \in Paths, does \in {"transfer", "copy"} :
            /\ p # d
            /\ does = "transfer" => Head(p) # Head(d)
            /\ tree[p] # Nothing
            /\ op' = [op EXCEPT ![t] = [Idle EXCEPT !.at = "stat", !.does = does,
                                                    !.from = p, !.to = d]]
       \/ \E p \in Paths, does \in {"mkdir", "delete", "move"},
            d \in Paths :
            /\ does # "move" => d = p
            /\ IF does = "mkdir" THEN Under(p) # {} ELSE tree[p] # Nothing
            /\ op' = [op EXCEPT ![t] =
                  [Idle EXCEPT !.at = does, !.does = does, !.from = p, !.to = d,
                               !.tag = IF does = "delete" THEN ETag(p) ELSE NoETag]]
    /\ Fixed /\ UNCHANGED <<tree, bodies, listed>>

(* filesTransfer and filesCopyStream: the version, then the body. *)
StatSource(t) ==
    /\ op[t].at = "stat"
    /\ IF tree[op[t].from] \in {Nothing, Folder}
       THEN Done(t)
       ELSE op' = [op EXCEPT ![t].at = "open", ![t].tag = ETag(op[t].from)]
    /\ Fixed /\ UNCHANGED <<tree, bodies, listed>>

OpenSource(t) ==
    /\ op[t].at = "open"
    /\ IF tree[op[t].from] \in {Nothing, Folder}
       THEN Done(t)
       ELSE op' = [op EXCEPT ![t].at = "look", ![t].body = tree[op[t].from]]
    /\ Fixed /\ UNCHANGED <<tree, bodies, listed>>

(* A name that is taken: UploadNew tries the next one, the queue asks. *)
Taken(t) ==
    CASE op[t].does = "keep-both" /\ op[t].tries = 0 /\ Next2(op[t].to) \in Paths ->
           op' = [op EXCEPT ![t].to = Next2(@), ![t].tries = 1, ![t].at = "look"]
      [] op[t].does = "queue" ->
           op' = [op EXCEPT ![t].at = "clash", ![t].tag = tree[op[t].to]]
      [] OTHER -> Done(t)

(* Upload of something new asks about the name first ... *)
Look(t) ==
    /\ op[t].at = "look"
    /\ \/ tree[op[t].to] # Nothing /\ Taken(t)
       \/ tree[op[t].to] = Nothing /\ To(t, "put")
    /\ Fixed /\ UNCHANGED <<tree, bodies, listed>>

Stored(t) == IF op[t].body = Nothing THEN bodies + 1 ELSE op[t].body
Store(t) ==
    /\ tree' = [tree EXCEPT ![op[t].to] = Stored(t)]
    /\ bodies' = IF op[t].body = Nothing THEN bodies + 1 ELSE bodies
    /\ Drop({Front(op[t].to)})
CanStore(t) ==
    /\ IsDir(Front(op[t].to)) /\ tree[op[t].to] # Folder
    /\ op[t].body = Nothing => bodies < MaxBody

(* Slip: the write goes without If-None-Match: the question is believed. *)
PutBelieving(t) ==
    /\ op[t].at = "put"
    /\ \/ /\ CanStore(t)
          /\ Store(t)
          /\ IF op[t].does = "transfer" THEN To(t, "remove") ELSE Done(t)
       \/ Done(t) /\ UNCHANGED <<tree, bodies, listed>>
    /\ Fixed

(* The name that was free is written with If-None-Match, which not every server honours. *)
PutNew(t) ==
    /\ op[t].at = "put"
    /\ \/ /\ CanStore(t) /\ (tree[op[t].to] = Nothing \/ ~honours)
          /\ Store(t)
          /\ IF op[t].does = "transfer" THEN To(t, "remove") ELSE Done(t)
       \/ tree[op[t].to] # Nothing /\ Taken(t) /\ UNCHANGED <<tree, bodies, listed>>
       \/ Done(t) /\ UNCHANGED <<tree, bodies, listed>>
    /\ Fixed

(* The transfer ends with the source, at the version it was looked at. *)
RemoveSource(t) ==
    /\ op[t].at = "remove"
    /\ \/ /\ Matches(op[t].from, op[t].tag)
          /\ tree' = Without(op[t].from)
          /\ Drop({Front(op[t].from), op[t].from})
       \/ UNCHANGED <<tree, listed>>
    /\ Done(t)
    /\ Fixed /\ UNCHANGED bodies

(* The clash dialogue: replace, keep both or skip.  A replacement carries no
   version. *)
Clash(t) ==
    /\ op[t].at = "clash"
    /\ \/ /\ CanStore(t)
          /\ Store(t) /\ Done(t)
       \/ /\ op' = [op EXCEPT ![t].at = "look", ![t].does = "keep-both", ![t].tag = NoETag]
          /\ UNCHANGED <<tree, bodies, listed>>
       \/ Done(t) /\ UNCHANGED <<tree, bodies, listed>>
    /\ Fixed

-----------------------------------------------------------------------------
(* What takes one request.  It may be refused, or fail. *)
Ends(t) ==
    /\ Done(t)
    /\ Fixed /\ UNCHANGED bodies

MakeDir(t) ==
    /\ op[t].at = "mkdir"
    /\ \/ /\ Free(op[t].to)
          /\ tree' = [tree EXCEPT ![op[t].to] = Folder]
          /\ Drop({Front(op[t].to)})
       \/ UNCHANGED <<tree, listed>>
    /\ Ends(t)

Delete(t) ==
    /\ op[t].at = "delete"
    /\ \/ /\ Matches(op[t].from, op[t].tag)
          /\ tree' = Without(op[t].from)
          /\ Drop({Front(op[t].from), op[t].from})
       \/ UNCHANGED <<tree, listed>>
    /\ Ends(t)

(* After the MOVE the source is asked whether it was a folder: it is no longer
   there, and only the two directories above are dropped. *)
MovedBetween(p, d) == {Front(p), Front(d)}

Move(t) ==
    /\ op[t].at = "move"
    /\ \/ /\ CanMove(op[t].from, op[t].to)
          /\ tree' = Moved(op[t].from, op[t].to)
          /\ Drop(MovedBetween(op[t].from, op[t].to))
       \/ UNCHANGED <<tree, listed>>
    /\ Ends(t)

(* Another client stores or deletes a file. *)
OtherClient ==
    /\ \E p \in Paths :
         \/ /\ IsDir(Front(p)) /\ tree[p] # Folder /\ bodies < MaxBody
            /\ tree' = [tree EXCEPT ![p] = bodies + 1]
            /\ bodies' = bodies + 1
         \/ /\ tree[p] \notin {Nothing, Folder}
            /\ tree' = [tree EXCEPT ![p] = Nothing]
            /\ UNCHANGED bodies
    /\ UNCHANGED <<honours, tagged, listed, op>>

Next ==
    \/ \E t \in Threads :
         \/ Begin(t) \/ StatSource(t) \/ OpenSource(t) \/ Look(t) \/ PutNew(t)
         \/ RemoveSource(t) \/ Clash(t) \/ MakeDir(t) \/ Delete(t) \/ Move(t)
    \/ \E d \in Dirs : List(d) \/ Forget(d)
    \/ OtherClient

Spec == Init /\ [][Next]_vars

-----------------------------------------------------------------------------
(* Properties *)

Occupied(t) == tree[op[t].to] \notin {Nothing, Folder}

(* An upload of something new, or of what is copied or moved, never replaces a
   file on a server that honours its precondition, whatever came to that name
   since it was asked about: files.go:251, two checks for one rule. *)
UploadReplacesNothing ==
    \A t \in Threads :
        /\ op[t].at = "put" /\ op'[t] # op[t] /\ tree' # tree
        /\ Occupied(t)
        => ~honours
UploadsReplaceNothing == [][UploadReplacesNothing]_vars

(* A transfer to another collection removes from the first what it has put into
   the second: if the source changes anywhere between the three requests, the
   deletion is refused.  It needs a server that gives ETags. *)
TransferLosesNothing ==
    \A t \in Threads :
        /\ op[t].at = "remove" /\ op'[t] # op[t] /\ tree' # tree
        => ~tagged \/ tree[op[t].from] = op[t].body
TransfersLoseNothing == [][TransferLosesNothing]_vars

(* A thread's request has changed what a cached listing shows. *)
Outdates(t, d) ==
    /\ op'[t] # op[t]
    /\ d \in listed \cap listed'
    /\ Listing(d)' # Listing(d)

(* The listings that a request of the session makes untrue leave the cache, but
   for those of folders that move or are deleted with the folder above them. *)
OwnChangeShows ==
    \A t \in Threads, d \in Dirs :
        Outdates(t, d) =>
           \/ op[t].at = "move" /\ \E p \in {op[t].from, op[t].to} : IsPrefix(p, d)
           \/ op[t].at \in {"delete", "remove"} /\ IsStrictPrefix(op[t].from, d)
OwnChangesShow == [][OwnChangeShows]_vars

(* Does not hold: a replacement carries the version it was read at
   (files.go:254).  The queue sends neither precondition, and overwrites
   whatever has come since the clash was shown. *)
ReplaceCarriesVersion ==
    [][\A t \in Threads :
         /\ op[t].at = "clash" /\ op'[t] # op[t] /\ tree' # tree
         => tree[op[t].to] = op[t].tag]_vars

(* Does not hold: a directory's listing is dropped when it is moved to, as
   Move means to do (files.go:400).  It asks the source whether it was a folder
   when the source has gone. *)
MovedFoldersShow ==
    [][\A t \in Threads : op[t].at = "move" => ~Outdates(t, op[t].to)]_vars

-----------------------------------------------------------------------------
(* Slips of the kind a change to this code could make. *)

(* The version of the source is not kept. *)
StatAndOpen(t) ==
    /\ op[t].at = "stat"
    /\ IF tree[op[t].from] \in {Nothing, Folder}
       THEN Done(t)
       ELSE op' = [op EXCEPT ![t].at = "open", ![t].tag = NoETag]
    /\ Fixed /\ UNCHANGED <<tree, bodies, listed>>

(* Only the directory a member leaves is dropped. *)
MovedOut(p, d) == {Front(p)}
=============================================================================
