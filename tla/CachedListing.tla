--------------------------- MODULE CachedListing ---------------------------
(***************************************************************************)
(* What a session keeps of one collection, and how the providers use it:    *)
(* the listings and queries of internal/provider/contacts, calendar and     *)
(* files over internal/session/cache.go, with the session's own writes, the *)
(* changes of other clients and the soft TTL.                              *)
(*                                                                         *)
(* The server's collection is a version number.  An ETag map, the answer of *)
(* a query and a collection tag stand for the version they were read at.    *)
(* Every call of the cache and every request to the server is one step;      *)
(* the pages and polls of a session run such calls side by side.           *)
(***************************************************************************)
EXTENDS Integers, FiniteSets

CONSTANTS
    Threads,         \* the goroutines of one session
    MaxVersion       \* bound: how often the collection changes

NoMap == -1          \* the empty map of an entry that PutBody made
NoTag == -1          \* no tag; in the key of a query, "notag"
Listing == -2        \* listingKey of the files provider
NotCached == -3

Versions == 0 .. MaxVersion
Keys == Versions \cup {NoTag, Listing}
Kinds == {"tagged", "untagged", "directory"}

VARIABLES
    kind,       \* what the collection is: with tags, without, or a directory
    server,     \* the version the server has
    entry,      \* the collectionEntry of the session cache
    own,        \* the newest version written here whose invalidation is done
    op,         \* [Threads -> record], what each goroutine is doing
    overlapped  \* threads that ran beside another one since they began

vars == <<kind, server, entry, own, op, overlapped>>

NoRanges == [k \in Keys |-> NotCached]
Absent == [present |-> FALSE, tag |-> NoTag, map |-> NoMap, fresh |-> FALSE,
           ranges |-> NoRanges, clean |-> TRUE]
Idle == [at |-> "idle", does |-> "idle", was |-> NotCached, before |-> NotCached,
         beforeTag |-> NoTag, tag |-> NoTag, map |-> NoMap]

Init ==
    /\ kind \in Kinds
    /\ server = 0 /\ own = 0
    /\ entry = Absent
    /\ op = [t \in Threads |-> Idle]
    /\ overlapped = {}

-----------------------------------------------------------------------------
(* The cache. *)

(* SetETags stamps the entry; the bodies stay. *)
SetETags(t, tag, map) ==
    entry' = [entry EXCEPT !.present = TRUE, !.tag = tag, !.map = map,
                           !.fresh = TRUE, !.clean = @ /\ t \notin overlapped]

(* PutBody makes an entry with an empty map and no time if there is none. *)
PutBody(t, key, version) ==
    entry' = [entry EXCEPT !.present = TRUE,
                           !.ranges[key] = version,
                           !.clean = @ /\ t \notin overlapped]

InvalidateCollection == entry' = Absent

NeedsRefresh == ~entry.present \/ ~entry.fresh

(* GetETags. *)
Cached == IF entry.present THEN entry.map ELSE NotCached

-----------------------------------------------------------------------------
To(t, at) == op' = [op EXCEPT ![t].at = at]
Done(t) == op' = [op EXCEPT ![t] = Idle] /\ overlapped' = overlapped \ {t}
Active == {t \in Threads : op[t].at # "idle"}

(* A request or a poll begins.  A query first remembers what was cached. *)
Begin(t) ==
    /\ op[t].at = "idle"
    /\ \E does \in CASE kind = "directory" -> {"dir", "write"}
                     [] OTHER -> {"list", "query", "write"} :
        op' = [op EXCEPT ![t] =
                 [Idle EXCEPT !.does = does,
                              !.at = CASE does = "dir" -> "lookDir"
                                       [] does = "write" -> "put"
                                       [] does = "list" -> "peek"
                                       [] OTHER -> "before"]]
    /\ overlapped' = IF Active = {} THEN overlapped ELSE overlapped \cup Active \cup {t}
    /\ UNCHANGED <<kind, server, entry, own>>

(* refreshedCTag and Query: the map and the tag there were before. *)
Before(t) ==
    /\ op[t].at = "before"
    /\ op' = [op EXCEPT ![t].before = Cached, ![t].beforeTag = entry.tag,
                        ![t].at = "peek"]
    /\ UNCHANGED <<kind, server, entry, own, overlapped>>

(* List: the cached map, then whether it is young enough, then its tag. *)
Peek(t) ==
    /\ op[t].at = "peek"
    /\ op' = [op EXCEPT ![t].was = Cached, ![t].at = "age"]
    /\ UNCHANGED <<kind, server, entry, own, overlapped>>

Age(t) ==
    /\ op[t].at = "age"
    /\ To(t, IF op[t].was # NotCached /\ ~NeedsRefresh THEN "cachedTag" ELSE "ctag")
    /\ UNCHANGED <<kind, server, entry, own, overlapped>>

(* The end of List.  A query whose collection has moved on drops the bodies. *)
Listed(t, tag, map) ==
    IF op[t].does = "list"
    THEN Done(t)
    ELSE LET moved == /\ op[t].before # NotCached
                      /\ op[t].beforeTag # tag \/ op[t].before # map
         IN  /\ op' = [op EXCEPT ![t] =
                   [Idle EXCEPT !.does = op[t].does, !.tag = tag,
                                !.map = IF moved THEN map ELSE NoMap,
                                !.at = IF moved THEN "drop" ELSE "look"]]
             /\ UNCHANGED overlapped

CachedCTag(t) ==
    /\ op[t].at = "cachedTag"
    /\ Listed(t, entry.tag, op[t].was)
    /\ UNCHANGED <<kind, server, entry, own>>

FetchCTag(t) ==
    /\ op[t].at = "ctag"
    /\ op' = [op EXCEPT ![t].tag = IF kind = "tagged" THEN server ELSE NoTag,
                        ![t].at = "compare"]
    /\ UNCHANGED <<kind, server, entry, own, overlapped>>

(* The tag is still the one of the cache: keep the map. *)
Compare(t) ==
    /\ op[t].at = "compare"
    /\ To(t, IF /\ op[t].was # NotCached /\ op[t].tag # NoTag
                /\ entry.present /\ entry.tag = op[t].tag
             THEN "restamp" ELSE "etags")
    /\ UNCHANGED <<kind, server, entry, own, overlapped>>

Restamp(t) ==
    /\ op[t].at = "restamp"
    /\ SetETags(t, op[t].tag, op[t].was)
    /\ Listed(t, op[t].tag, op[t].was)
    /\ UNCHANGED <<kind, server, own>>

FetchETags(t) ==
    /\ op[t].at = "etags"
    /\ op' = [op EXCEPT ![t].map = server, ![t].was = NotCached, ![t].at = "store"]
    /\ UNCHANGED <<kind, server, entry, own, overlapped>>

StoreETags(t) ==
    /\ op[t].at = "store"
    /\ SetETags(t, op[t].tag, op[t].map)
    /\ Listed(t, op[t].tag, op[t].map)
    /\ UNCHANGED <<kind, server, own>>

(* A request to the server fails: List and Query return the error, and       *)
(* QueryComponent goes on without a tag.                                    *)
RequestFails(t) ==
    /\ op[t].at \in {"ctag", "etags", "report", "readDir", "get"}
    /\ \/ Done(t)
       \/ /\ op[t].does = "query" /\ op[t].at \in {"ctag", "etags"}
          /\ op' = [op EXCEPT ![t] = [Idle EXCEPT !.does = "query", !.at = "look"]]
          /\ UNCHANGED overlapped
    /\ UNCHANGED <<kind, server, entry, own>>

DropRanges(t) ==
    /\ op[t].at = "drop"
    /\ InvalidateCollection
    /\ To(t, "again")
    /\ UNCHANGED <<kind, server, own, overlapped>>

StoreAgain(t) ==
    /\ op[t].at = "again"
    /\ SetETags(t, op[t].tag, op[t].map)
    /\ op' = [op EXCEPT ![t].map = NoMap, ![t].at = "look"]
    /\ UNCHANGED <<kind, server, own, overlapped>>

(* The answer of the query, by the tag of the listing. *)
Look(t) ==
    /\ op[t].at = "look"
    /\ IF entry.ranges[op[t].tag] # NotCached
       THEN Done(t)
       ELSE To(t, "report") /\ UNCHANGED overlapped
    /\ UNCHANGED <<kind, server, entry, own>>

Report(t) ==
    /\ op[t].at = "report"
    /\ op' = [op EXCEPT ![t].map = server, ![t].at = "keep"]
    /\ UNCHANGED <<kind, server, entry, own, overlapped>>

(* Slip: the answer is kept under the tag the collection has by now. *)
KeepRangeNow(t) ==
    /\ op[t].at = "keep"
    /\ PutBody(t, IF kind = "tagged" THEN server ELSE NoTag, op[t].map)
    /\ Done(t)
    /\ UNCHANGED <<kind, server, own>>

KeepRange(t) ==
    /\ op[t].at = "keep"
    /\ PutBody(t, op[t].tag, op[t].map)
    /\ Done(t)
    /\ UNCHANGED <<kind, server, own>>

-----------------------------------------------------------------------------
(* A directory of the files provider: cachedListing, PROPFIND, storeListing. *)

LookDir(t) ==
    /\ op[t].at = "lookDir"
    /\ IF NeedsRefresh
       THEN To(t, "readDir") /\ UNCHANGED overlapped
       ELSE \/ entry.ranges[Listing] # NotCached /\ Done(t)
            \/ entry.ranges[Listing] = NotCached /\ To(t, "readDir") /\ UNCHANGED overlapped
    /\ UNCHANGED <<kind, server, entry, own>>

ReadDir(t) ==
    /\ op[t].at = "readDir"
    /\ op' = [op EXCEPT ![t].map = server, ![t].at = "stampDir"]
    /\ UNCHANGED <<kind, server, entry, own, overlapped>>

StampDir(t) ==
    /\ op[t].at = "stampDir"
    /\ SetETags(t, NoTag, op[t].map)
    /\ To(t, "keepDir")
    /\ UNCHANGED <<kind, server, own, overlapped>>

KeepDir(t) ==
    /\ op[t].at = "keepDir"
    /\ PutBody(t, Listing, op[t].map)
    /\ Done(t)
    /\ UNCHANGED <<kind, server, own>>

-----------------------------------------------------------------------------
(* A write of this session: accepted, refused, or an answer that never comes *)
(* (it may have been done then).  What comes next is the same for the first   *)
(* two.                                                                     *)
Put(t) ==
    /\ op[t].at = "put"
    /\ server' \in {server, server + 1} \cap Versions
    /\ \/ /\ op' = [op EXCEPT ![t].map = server', ![t].at = "invalidate"]
          /\ UNCHANGED overlapped
       \/ Done(t)
    /\ UNCHANGED <<kind, entry, own>>

Invalidate(t) ==
    /\ op[t].at = "invalidate"
    /\ InvalidateCollection
    /\ own' = IF own < op[t].map THEN op[t].map ELSE own
    /\ IF kind = "directory"
       THEN Done(t)
       ELSE /\ op' = [op EXCEPT ![t] = [Idle EXCEPT !.does = "write", !.at = "get"]]
            /\ UNCHANGED overlapped
    /\ UNCHANGED <<kind, server>>

(* Slip: the entry keeps its map and only loses its bodies. *)
InvalidateBodies(t) ==
    /\ op[t].at = "invalidate"
    /\ entry' = [entry EXCEPT !.ranges = NoRanges]
    /\ own' = IF own < op[t].map THEN op[t].map ELSE own
    /\ IF kind = "directory"
       THEN Done(t)
       ELSE /\ op' = [op EXCEPT ![t] = [Idle EXCEPT !.does = "write", !.at = "get"]]
            /\ UNCHANGED overlapped
    /\ UNCHANGED <<kind, server>>

(* The read-back of put and of conflict keeps the body of the object, and so *)
(* makes an entry.                                                         *)
ReadBack(t) ==
    /\ op[t].at = "get"
    /\ entry' = [entry EXCEPT !.present = TRUE, !.clean = @ /\ t \notin overlapped]
    /\ Done(t)
    /\ UNCHANGED <<kind, server, own>>

(* Another client changes the collection. *)
OtherClient ==
    /\ server < MaxVersion
    /\ server' = server + 1
    /\ UNCHANGED <<kind, entry, own, op, overlapped>>

(* CollectionTTL has passed since the entry was stamped. *)
TTLPasses ==
    /\ entry.present /\ entry.fresh
    /\ entry' = [entry EXCEPT !.fresh = FALSE]
    /\ UNCHANGED <<kind, server, own, op, overlapped>>

Next ==
    \/ \E t \in Threads :
        \/ Begin(t) \/ Before(t)
        \/ Peek(t) \/ Age(t) \/ CachedCTag(t) \/ FetchCTag(t) \/ Compare(t)
        \/ Restamp(t) \/ FetchETags(t) \/ StoreETags(t) \/ RequestFails(t)
        \/ DropRanges(t) \/ StoreAgain(t)
        \/ Look(t) \/ Report(t) \/ KeepRange(t)
        \/ LookDir(t) \/ ReadDir(t) \/ StampDir(t) \/ KeepDir(t)
        \/ Put(t) \/ Invalidate(t) \/ ReadBack(t)
    \/ OtherClient
    \/ TTLPasses

Spec == Init /\ [][Next]_vars

-----------------------------------------------------------------------------
(* Properties. *)

TypeOK ==
    /\ kind \in Kinds /\ server \in Versions /\ own \in 0 .. server
    /\ entry \in [present : BOOLEAN, tag : Versions \cup {NoTag},
                  map : Versions \cup {NoMap}, fresh : BOOLEAN,
                  ranges : [Keys -> Versions \cup {NotCached}], clean : BOOLEAN]
    /\ \A t \in Threads :
        /\ op[t].tag \in Versions \cup {NoTag}
        /\ op[t].map \in Versions \cup {NoMap}
        /\ {op[t].was, op[t].before} \subseteq Versions \cup {NoMap, NotCached}
    /\ overlapped \subseteq Active

(* An answer kept under a collection tag is at least as new as that tag, so   *)
(* an agenda served from the cache (Query, QueryComponent) is never older     *)
(* than the listing it was looked up with, in whatever order pages, polls,    *)
(* writes and other clients come.                                          *)
RangesCoverTheirTag ==
    /\ TypeOK
    /\ \A c \in Versions : entry.ranges[c] # NotCached => entry.ranges[c] >= c

(* A cached map or listing misses a write this session has finished, or is    *)
(* older than the tag beside it, only if calls of the session overlapped while *)
(* it was made: one call after the other always reads its own writes.          *)
OnlyOverlapsGoStale ==
    (entry.present /\ entry.clean) =>
        /\ entry.map # NoMap => entry.map >= own /\ entry.map >= entry.tag
        /\ entry.map # NoMap /\ entry.ranges[Listing] # NotCached => entry.ranges[Listing] >= own

(* "Unchanged means the cached map still describes the collection": a map is  *)
(* never older than the tag it is kept under.  It does not hold: List compares *)
(* the tag of the entry as it is now and then stores the map it took before,  *)
(* which may be the empty one that the read-back of a write leaves.           *)
MapCoversTag ==
    (entry.present /\ entry.tag # NoTag) => entry.map >= entry.tag

(* With nothing under way, an agenda kept without a tag is as new as the map   *)
(* beside it.  It does not hold: a List between two queries brings the map up  *)
(* to date, and the second query then sees no change and keeps the old agenda. *)
AgendaKeepsUp ==
    (Active = {} /\ entry.fresh /\ entry.ranges[NoTag] # NotCached) =>
        entry.ranges[NoTag] >= entry.map

-----------------------------------------------------------------------------
(* What makes the two invariants inductive. *)

DirSteps == {"lookDir", "readDir", "stampDir", "keepDir"}
ListSteps == {"before", "peek", "age", "cachedTag", "ctag", "compare", "restamp", "etags",
              "store", "drop", "again", "look", "report", "keep"}
WriteSteps == {"put", "invalidate", "get"}

Call == [at : {"idle"} \cup DirSteps \cup ListSteps \cup WriteSteps,
         does : {"idle", "dir", "list", "query", "write"},
         was : Versions \cup {NoMap, NotCached}, before : Versions \cup {NoMap, NotCached},
         beforeTag : Versions \cup {NoTag}, tag : Versions \cup {NoTag},
         map : Versions \cup {NoMap}]

(* A goroutine carries what the step it is at will store: an answer is as new as the
   tag it goes under, and nothing is newer than the server. *)
Carries(t) ==
    /\ op[t].tag <= server
    /\ op[t].at \in DirSteps => kind = "directory"
    /\ op[t].at \in ListSteps => kind # "directory" /\ op[t].does \in {"list", "query"}
    /\ op[t].at \in {"cachedTag", "restamp"} => op[t].was # NotCached
    /\ op[t].at \in {"store", "keep", "stampDir", "keepDir", "invalidate"} =>
          op[t].map \in Versions
    /\ op[t].at = "invalidate" => op[t].map <= server
    /\ op[t].at \in {"store", "keep"} => op[t].tag <= op[t].map

CallsCarry == op \in [Threads -> Call] /\ \A t \in Threads : Carries(t)

(* An entry that is not there holds nothing, and only a directory has a listing. *)
EntryHolds ==
    /\ ~entry.present => entry = Absent
    /\ entry.tag <= server
    /\ entry.ranges[Listing] # NotCached => kind = "directory"

(* A call that nothing of its session overlapped finds the entry as it left it, and
   stores nothing older than the writes that are done. *)
FindsItsOwn(t) ==
    /\ op[t].at \in {"age", "cachedTag", "ctag", "compare", "restamp"} => op[t].was = Cached
    /\ (/\ op[t].does = "query"
        /\ op[t].at \in {"peek", "age", "cachedTag", "ctag", "compare", "restamp",
                          "etags", "store"}) =>
          op[t].before = Cached /\ op[t].beforeTag = entry.tag
    /\ op[t].at = "restamp" => entry.present /\ entry.tag = op[t].tag
    /\ op[t].at \in {"store", "drop", "again", "stampDir", "keepDir"} =>
          op[t].map >= own /\ op[t].map >= op[t].tag

AloneFindsItsOwn == \A t \in Active \ overlapped : Active = {t} /\ FindsItsOwn(t)

CleanEntry ==
    (entry.present /\ entry.clean) =>
        /\ entry.map # NoMap => entry.map >= own /\ entry.map >= entry.tag
        /\ entry.ranges[Listing] # NotCached => entry.ranges[Listing] >= own

IInv ==
    /\ RangesCoverTheirTag /\ CallsCarry /\ EntryHolds
    /\ AloneFindsItsOwn /\ CleanEntry
=============================================================================
