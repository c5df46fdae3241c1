---------------------------- MODULE SessionCache ----------------------------
(***************************************************************************)
(* The caches of the sessions and the byte budget they share:               *)
(* internal/session/cache.go, thumb.go and budget.go.                        *)
(*                                                                         *)
(* A critical section of one Cache.mu or of budget.mu is one step.  A        *)
(* change of a cache tells the budget its size after the cache was unlocked, *)
(* and whoever pushed the total over the limit evicts until it is under it;  *)
(* both interleave with everything else.  A goroutine may come back to a      *)
(* cache after its session has ended and wiped it.                          *)
(*                                                                         *)
(* A list is in order of use, latest first, which is the order of the ticks *)
(* its entries carry; of two caches it is left open which holds the older   *)
(* entry.  A body is its size, an ETag map its length.                      *)
(***************************************************************************)
EXTENDS Integers, Sequences, FiniteSets, SequencesExt

CONSTANTS
    Caches,           \* one per session
    Threads,          \* request and poll goroutines, and the session sweeper
    Collections, Paths, Pictures,
    Sizes,            \* of a body or a thumbnail
    Lengths,          \* of an ETag map
    MaxBodyBytes, MaxThumbBytes, MaxThumbEntries,
    MaxCollections, MaxETagEntries, MaxProcessBytes,
    None

VARIABLES
    cache,      \* [Caches -> record], what each session's Cache holds
    used,       \* [Caches -> Nat], budget.used, 0 when there is no entry
    total,      \* budget.total
    thread      \* [Threads -> record], what each goroutine does next

vars == <<cache, used, total, thread>>

Empty == [order |-> <<>>, etags |-> [k \in Collections |-> 0],
          etagCount |-> 0, bodies |-> <<>>, bodyBytes |-> 0,
          thumbs |-> <<>>, thumbBytes |-> 0]

Idle == [at |-> "idle", of |-> None, n |-> 0, left |-> {}, best |-> None]

Init ==
    /\ cache = [c \in Caches |-> Empty]
    /\ used = [c \in Caches |-> 0] /\ total = 0
    /\ thread = [t \in Threads |-> Idle]

-----------------------------------------------------------------------------
(* Lists in order of use. *)

(* The entries of a list that are in a set, in the order they had. *)
Within(seq, S) ==
    LET kept[i \in 0 .. Len(seq)] ==
            IF i = 0 THEN <<>>
            ELSE IF seq[i] \in S THEN Append(kept[i - 1], seq[i]) ELSE kept[i - 1]
    IN  kept[Len(seq)]

ToFront(seq, x) == <<x>> \o Within(seq, ToSet(seq) \ {x})

(* A sum counts pairs: an element, and a number up to what is added for it. *)
Units(f, S) == UNION {{x} \X (1 .. f[x]) : x \in S}
Total(f, S) == Cardinality(Units(f, S))
SizeOf(seq) == Total([e \in ToSet(seq) |-> e.size], ToSet(seq))
Bytes(h) == h.bodyBytes + h.thumbBytes

(* The longest front part of a list whose length fits. *)
Keep(seq, fits) ==
    SubSeq(seq, 1, CHOOSE n \in fits \cup {0} : \A m \in fits : m <= n)
(* dropCollectionLocked, of every collection outside kept. *)
DropCollections(h, kept) ==
    LET stays == Within(h.bodies, {b \in ToSet(h.bodies) : b.col \in kept})
    IN  [h EXCEPT !.order = Within(@, kept),
                  !.etags = [k \in Collections |-> IF k \in kept THEN @[k] ELSE 0],
                  !.etagCount = @ - Total(h.etags, Collections \ kept),
                  !.bodies = stays,
                  !.bodyBytes = @ - (SizeOf(h.bodies) - SizeOf(stays))]

EvictBodies(h) ==
    LET over == SizeOf(h.bodies) - h.bodyBytes
        kept == Keep(h.bodies, {n \in 1 .. Len(h.bodies) :
                    SizeOf(SubSeq(h.bodies, 1, n)) - over <= MaxBodyBytes})
    IN  [h EXCEPT !.bodies = kept, !.bodyBytes = @ - (SizeOf(h.bodies) - SizeOf(kept))]

EvictThumbs(h) ==
    LET over == SizeOf(h.thumbs) - h.thumbBytes
        kept == Keep(h.thumbs, {n \in 1 .. Len(h.thumbs) :
                    /\ n <= MaxThumbEntries
                    /\ SizeOf(SubSeq(h.thumbs, 1, n)) - over <= MaxThumbBytes})
    IN  [h EXCEPT !.thumbs = kept, !.thumbBytes = @ - (SizeOf(h.thumbs) - SizeOf(kept))]

EvictCollections(h) ==
    DropCollections(h, ToSet(Keep(h.order, {n \in 1 .. Len(h.order) :
        /\ n <= MaxCollections
        /\ h.etagCount - Total(h.etags, Collections \ ToSet(SubSeq(h.order, 1, n)))
               <= MaxETagEntries})))

(* evictLocked: bodies, then thumbnails, then whole collections. *)
EvictLocked(h) == EvictCollections(EvictThumbs(EvictBodies(h)))

-----------------------------------------------------------------------------
(* The change each method makes to its cache while it holds the lock. *)

SetETags(h, k, length) ==
    EvictLocked([h EXCEPT !.etags[k] = length,
                          !.etagCount = @ - h.etags[k] + length,
                          !.order = ToFront(@, k)])

SameBody(b, k, p) == b.col = k /\ b.path = p

(* Slip: the body that is replaced stays counted. *)
PutBodyCounted(h, k, p, size) ==
    LET others == Within(h.bodies, {b \in ToSet(h.bodies) : ~SameBody(b, k, p)})
    IN  EvictLocked([h EXCEPT
            !.bodies = <<[col |-> k, path |-> p, size |-> size]>> \o others,
            !.bodyBytes = @ + size,
            !.order = ToFront(@, k)])

PutBody(h, k, p, size) ==
    LET others == Within(h.bodies, {b \in ToSet(h.bodies) : ~SameBody(b, k, p)})
        old == SizeOf(h.bodies) - SizeOf(others)
    IN  EvictLocked([h EXCEPT
            !.bodies = <<[col |-> k, path |-> p, size |-> size]>> \o others,
            !.bodyBytes = @ - old + size,
            !.order = ToFront(@, k)])

PutThumb(h, p, size) ==
    LET others == Within(h.thumbs, {e \in ToSet(h.thumbs) : e.key # p})
        old == SizeOf(h.thumbs) - SizeOf(others)
    IN  IF size = 0 THEN h
        ELSE EvictLocked([h EXCEPT !.thumbs = <<[key |-> p, size |-> size]>> \o others,
                                   !.thumbBytes = @ - old + size])

(* evictOldestBody and evictOldestThumb. *)
DropOldest(h, kind) ==
    CASE kind = "body" /\ h.bodies # <<>> ->
            [h EXCEPT !.bodies = Front(@), !.bodyBytes = @ - Last(h.bodies).size]
      [] kind = "thumb" /\ h.thumbs # <<>> ->
            [h EXCEPT !.thumbs = Front(@), !.thumbBytes = @ - Last(h.thumbs).size]
      [] OTHER -> h

(* peekVictim: bodies first, then thumbnails. *)
Victim(h) ==
    CASE h.bodyBytes > 0 /\ h.bodies # <<>> -> "body"
      [] h.thumbBytes > 0 /\ h.thumbs # <<>> -> "thumb"
      [] OTHER -> None

-----------------------------------------------------------------------------
Goes(t, record) == thread' = [thread EXCEPT ![t] = record]

(* A method that changes the cache: the size it will publish is read before  *)
(* the cache is unlocked.                                                  *)
Change(t, c, after) ==
    /\ thread[t].at = "idle"
    /\ cache' = [cache EXCEPT ![c] = after]
    /\ Goes(t, [Idle EXCEPT !.at = "publish", !.of = c, !.n = Bytes(after)])
    /\ UNCHANGED <<used, total>>

Store(t, c) ==
    \E k \in Collections :
        \/ \E l \in Lengths : Change(t, c, SetETags(cache[c], k, l))
        \/ \E p \in Paths, s \in Sizes : Change(t, c, PutBody(cache[c], k, p, s))

StoreThumb(t, c) ==
    \E p \in Pictures, s \in Sizes \ {0} : Change(t, c, PutThumb(cache[c], p, s))

InvalidateCollection(t, c) ==
    \E k \in Collections : Change(t, c, DropCollections(cache[c], Collections \ {k}))

(* Wipe ends every session; InvalidateAll is the same for a live one. *)
Wipe(t, c) == Change(t, c, Empty)

(* GetBody and GetThumb put what they find at the front. *)
Read(t, c) ==
    /\ thread[t].at = "idle"
    /\ \/ \E b \in ToSet(cache[c].bodies) :
            cache' = [cache EXCEPT ![c].bodies = ToFront(@, b),
                                   ![c].order = ToFront(@, b.col)]
       \/ \E e \in ToSet(cache[c].thumbs) :
            cache' = [cache EXCEPT ![c].thumbs = ToFront(@, e)]
       \/ \E k \in ToSet(cache[c].order) :
            cache' = [cache EXCEPT ![c].order = ToFront(@, k)]
    /\ UNCHANGED <<used, total, thread>>

(* budget.adjust. *)
Adjust(c, n) ==
    /\ total' = total + n - used[c]
    /\ used' = [used EXCEPT ![c] = n]

(* Slip: what the cache was counted with is not taken off. *)
AdjustAdding(c, n) ==
    /\ total' = total + n
    /\ used' = [used EXCEPT ![c] = n]

(* publish, up to the check of the total, which is a lock of its own. *)
Publish(t) ==
    /\ thread[t].at = "publish"
    /\ Adjust(thread[t].of, thread[t].n)
    /\ Goes(t, [Idle EXCEPT !.at = "check"])
    /\ UNCHANGED cache

(* evictUntilUnder: leave, or remember the caches that are counted. *)
Check(t) ==
    /\ thread[t].at = "check"
    /\ Goes(t, IF total <= MaxProcessBytes THEN Idle
               ELSE [Idle EXCEPT !.at = "peek", !.left = {c \in Caches : used[c] > 0}])
    /\ UNCHANGED <<cache, used, total>>

(* Look into one of them, and take what it offers if that is the better kind *)
(* or, of the same kind, the older.                                         *)
Peek(t) ==
    /\ thread[t].at = "peek"
    /\ \E c \in thread[t].left :
        LET kind == Victim(cache[c])
            best == thread[t].best
            offer == [of |-> c, kind |-> kind]
        IN  \E b \in {best, offer} :
                /\ (b = offer) => kind # None
                /\ (b = best) =>
                      \/ kind = None
                      \/ best # None /\ ~(kind = "body" /\ best.kind = "thumb")
                /\ (b = offer /\ best # None) => ~(kind = "thumb" /\ best.kind = "body")
                /\ Goes(t, [thread[t] EXCEPT !.left = @ \ {c}, !.best = b])
    /\ UNCHANGED <<cache, used, total>>

(* dropVictim, up to its unlock; nothing to evict ends the loop. *)
DropVictim(t) ==
    /\ thread[t].at = "peek" /\ thread[t].left = {}
    /\ LET best == thread[t].best
       IN  IF best = None
           THEN Goes(t, Idle) /\ UNCHANGED cache
           ELSE LET after == DropOldest(cache[best.of], best.kind)
                IN  /\ cache' = [cache EXCEPT ![best.of] = after]
                    /\ Goes(t, [Idle EXCEPT !.at = "publish", !.of = best.of,
                                            !.n = Bytes(after)])
    /\ UNCHANGED <<used, total>>

Next ==
    \E t \in Threads :
        \/ \E c \in Caches : \/ Store(t, c)
                             \/ StoreThumb(t, c)
                             \/ InvalidateCollection(t, c)
                             \/ Wipe(t, c)
                             \/ Read(t, c)
        \/ Publish(t)
        \/ Check(t)
        \/ Peek(t)
        \/ DropVictim(t)

Spec == Init /\ [][Next]_vars

-----------------------------------------------------------------------------
(* Properties. *)

Counted(h) ==
    /\ h.bodyBytes = SizeOf(h.bodies)
    /\ h.thumbBytes = SizeOf(h.thumbs)
    /\ h.etagCount = Total(h.etags, Collections)

TypeOK ==
    /\ \A c \in Caches :
        /\ ToSet(cache[c].order) \subseteq Collections
        /\ \A b \in ToSet(cache[c].bodies) :
              b.col \in Collections /\ b.path \in Paths /\ b.size \in Sizes
        /\ \A e \in ToSet(cache[c].thumbs) : e.key \in Pictures /\ e.size \in Sizes
    /\ used \in [Caches -> Nat]
    /\ total \in Nat
    /\ \A t \in Threads :
        /\ thread[t].at \in {"idle", "publish", "check", "peek"}
        /\ thread[t].of \in Caches \cup {None}
        /\ thread[t].left \subseteq Caches

(* The counters of a cache are the sizes of what it holds whatever is stored, *)
(* replaced, dropped or evicted, no body or collection is listed twice or     *)
(* without its collection, and every ceiling of a session holds when its lock *)
(* is free: the eviction loops of evictLocked stop only because of it.        *)
CountersMatch ==
    /\ TypeOK
    /\ \A c \in Caches :
        LET h == cache[c]
        IN  /\ Counted(h)
            /\ IsInjective(h.order) /\ IsInjective(h.bodies) /\ IsInjective(h.thumbs)
            /\ \A b \in ToSet(h.bodies) : b.col \in ToSet(h.order)
            /\ \A k \in Collections : h.etags[k] > 0 => k \in ToSet(h.order)
            /\ h.bodyBytes <= MaxBodyBytes /\ h.thumbBytes <= MaxThumbBytes
            /\ Len(h.order) <= MaxCollections /\ h.etagCount <= MaxETagEntries

(* budget.total is the sum of what budget.used counts, and once nobody is     *)
(* publishing or evicting it is under the limit of the process, or no cache   *)
(* that is counted has anything left to give up.                             *)
TotalIsKept ==
    /\ total = Total(used, Caches)
    /\ (\A t \in Threads : thread[t].at = "idle") =>
          \/ total <= MaxProcessBytes
          \/ \A c \in Caches : used[c] > 0 => Victim(cache[c]) = None

(* MaxProcessBytes is the ceiling across all sessions: with nobody publishing *)
(* or evicting, the caches together hold no more than it.  It does not hold:   *)
(* two changes of one cache publish their sizes in the wrong order, and the    *)
(* budget goes on counting the older one.                                   *)
CeilingHolds ==
    (\A t \in Threads : thread[t].at = "idle") =>
        Total([c \in Caches |-> Bytes(cache[c])], Caches) <= MaxProcessBytes

-----------------------------------------------------------------------------
(* What makes the two invariants inductive. *)

Body == [col : Collections, path : Paths, size : Sizes]
Thumb == [key : Pictures, size : Sizes]
Held == [order : Seq(Collections), etags : [Collections -> Nat], etagCount : Nat,
         bodies : Seq(Body), bodyBytes : Nat, thumbs : Seq(Thumb), thumbBytes : Nat]
Offer == [of : Caches, kind : {"body", "thumb"}]
Turn == [at : {"idle", "publish", "check", "peek"}, of : Caches \cup {None}, n : Nat,
         left : SUBSET Caches, best : Offer \cup {None}]

(* Somebody will look at the total, or has in hand or still before it what can go. *)
Evicts(t) ==
    \/ thread[t].at \in {"publish", "check"}
    \/ /\ thread[t].at = "peek"
       /\ thread[t].best # None \/ \E c \in thread[t].left : Victim(cache[c]) # None

SomebodyEvicts ==
    (total > MaxProcessBytes /\ \E c \in Caches : used[c] > 0 /\ Victim(cache[c]) # None) =>
        \E t \in Threads : Evicts(t)

IInv ==
    /\ CountersMatch /\ total = Total(used, Caches)
    /\ cache \in [Caches -> Held] /\ thread \in [Threads -> Turn]
    /\ \A t \in Threads : thread[t].at = "publish" => thread[t].of \in Caches
    /\ SomebodyEvicts
=============================================================================
