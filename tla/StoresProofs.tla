---------------------------- MODULE StoresProofs ----------------------------
(***************************************************************************)
(* What Carrel keeps of other servers stays true of them, and the accounts it   *)
(* keeps of that cache match it, for every number of sessions, goroutines,       *)
(* collections and sizes: the inductive invariants of CachedListing and          *)
(* SessionCache, kept by each step, and the two invariants of MCStores that       *)
(* follow.  The components that write are in WritesProofs.                   *)
(*                                                                         *)
(* A listing is true because every call carries, from one request to the next,   *)
(* what it found when it was the only one to write, and because an entry is      *)
(* only stored under a tag read before what it holds.  The counters of a cache    *)
(* are right because its lists never hold one entry twice, so that what is        *)
(* dropped is what is subtracted; the budget is kept because a goroutine that     *)
(* has left the total too high is still evicting.                           *)
(***************************************************************************)
EXTENDS MCStores, FiniteSetTheorems, SequenceTheorems, WellFoundedInduction, TLAPS

-----------------------------------------------------------------------------
Entry == [present : BOOLEAN, tag : Listing!Versions \cup {Listing!NoTag},
          map : Listing!Versions \cup {Listing!NoMap}, fresh : BOOLEAN,
          ranges : [Listing!Keys -> Listing!Versions \cup {Listing!NotCached}], clean : BOOLEAN]

(* What the entry is like after any step. *)
EntryOK == s3 \in Entry /\ Listing!EntryHolds /\ Listing!CleanEntry
           /\ \A c \in Listing!Versions : s3.ranges[c] # Listing!NotCached => s3.ranges[c] >= c

LEMMA Numbers ==
    /\ Listing!NoMap = -1
    /\ Listing!NoTag = -1
    /\ Listing!Listing = -2
    /\ Listing!NotCached = -3
    /\ Listing!Versions \subseteq Nat /\ 0 \in Listing!Versions
    /\ Listing!NoMap \notin Listing!Versions
    /\ Listing!NotCached \notin Listing!Versions
    /\ Listing!Listing \notin Listing!Versions
    /\ \A x \in Listing!Versions \cup {Listing!NoMap, Listing!NotCached, Listing!Listing} : x \in Int
    /\ Listing!Versions \subseteq Listing!Keys
    /\ Listing!NoTag \in Listing!Keys
    /\ Listing!Listing \in Listing!Keys
  BY VersionAssumption DEF Listing!NoMap, Listing!NoTag, Listing!Listing,
     Listing!NotCached, Listing!Versions, Listing!Keys

(* Nobody else is alone while t is under way. *)
LEMMA AloneStep ==
    ASSUME Listing!AloneFindsItsOwn, s6 \subseteq Listing!Active,
           s5 \in [Goroutines -> Listing!Call],
           NEW t \in Goroutines, s5[t].at # "idle", NEW r \in Listing!Call,
           s5' = [s5 EXCEPT ![t] = r],
           \/ r.at # "idle" /\ s6' = s6
           \/ r = Listing!Idle /\ s6' = s6 \ {t},
           t \notin s6 /\ r.at # "idle" => Listing!FindsItsOwn(t)'
    PROVE  Listing!AloneFindsItsOwn' /\ s6' \subseteq Listing!Active'
  <1>1. \A u \in Goroutines : s5'[u] = IF u = t THEN r ELSE s5[u]
    OBVIOUS
  <1>2. t \in Listing!Active
    BY DEF Listing!Active
  <1>3. Listing!Active' = IF r.at = "idle" THEN Listing!Active \ {t} ELSE Listing!Active
    BY <1>1, <1>2 DEF Listing!Active
  <1>4. ASSUME NEW u \in Listing!Active', u \notin s6'
        PROVE  u = t /\ t \notin s6 /\ r.at # "idle" /\ Listing!Active = {t}
    <2>1. r = Listing!Idle => r.at = "idle"
      BY DEF Listing!Idle
    <2>2. u \in Listing!Active /\ u \notin s6
      BY <1>3, <1>4, <2>1
    <2>3. Listing!Active = {u}
      BY <2>2 DEF Listing!AloneFindsItsOwn
    <2> QED
      BY <1>2, <1>3, <1>4, <2>1, <2>2, <2>3
  <1>5. Listing!AloneFindsItsOwn'
    <2> SUFFICES ASSUME NEW u \in (Listing!Active \ s6)'
                 PROVE  Listing!Active' = {u} /\ Listing!FindsItsOwn(u)'
      BY DEF Listing!AloneFindsItsOwn
    <2>1. u = t /\ t \notin s6 /\ r.at # "idle" /\ Listing!Active = {t}
      BY <1>4
    <2>2. Listing!FindsItsOwn(t)'
      BY <2>1
    <2> QED
      BY <1>3, <2>1, <2>2
  <1>6. s6' \subseteq Listing!Active'
    BY <1>2, <1>3 DEF Listing!Idle
  <1> QED
    BY <1>5, <1>6

LEMMA OneMoves ==
    ASSUME Listing!IInv, NEW t \in Goroutines, s5[t].at # "idle", NEW r \in Listing!Call,
           s5' = [s5 EXCEPT ![t] = r],
           \/ r.at # "idle" /\ s6' = s6
           \/ r = Listing!Idle /\ s6' = s6 \ {t},
           s1' = s1, s2' \in Listing!Versions, s2' >= s2, s4' \in 0 .. s2',
           EntryOK', Listing!Carries(t)',
           t \notin s6 /\ r.at # "idle" => Listing!FindsItsOwn(t)'
    PROVE  Listing!IInv'
  <1>1. Listing!AloneFindsItsOwn' /\ s6' \subseteq Listing!Active'
    BY AloneStep DEF Listing!IInv, Listing!RangesCoverTheirTag, Listing!TypeOK,
       Listing!CallsCarry
  <1>2. s5' \in [Goroutines -> Listing!Call]
    BY DEF Listing!IInv, Listing!CallsCarry
  <1>3. ASSUME NEW u \in Goroutines, u # t PROVE Listing!Carries(u)'
    <2>1. s5'[u] = s5[u] /\ s5[u] \in Listing!Call
      BY <1>3 DEF Listing!IInv, Listing!CallsCarry
    <2>2. Listing!Carries(u)
      BY DEF Listing!IInv, Listing!CallsCarry
    <2>3. s2 \in Int /\ s2' \in Int /\ s5[u].tag \in Int /\ s5[u].map \in Int
      BY <2>1, Numbers DEF Listing!IInv, Listing!RangesCoverTheirTag, Listing!TypeOK,
         Listing!Call, Listing!NoTag, Listing!NoMap
    <2> QED
      BY <2>1, <2>2, <2>3 DEF Listing!Carries
  <1>4. Listing!CallsCarry'
    BY <1>2, <1>3 DEF Listing!CallsCarry
  <1>5. \A u \in Goroutines : s5'[u] \in Listing!Call
    BY <1>2
  <1>6. Listing!TypeOK'
    BY <1>1, <1>5 DEF Listing!TypeOK, Listing!Call, EntryOK, Entry, Listing!IInv,
       Listing!RangesCoverTheirTag
  <1> QED
    BY <1>1, <1>4, <1>6 DEF Listing!IInv, Listing!RangesCoverTheirTag, EntryOK

(* Nothing but what t is doing changes. *)
LEMMA EntryStays ==
    ASSUME Listing!IInv, UNCHANGED <<s1, s2, s3, s4>>
    PROVE  /\ EntryOK' /\ s1' = s1 /\ s2' \in Listing!Versions /\ s2' >= s2
           /\ s4' \in 0 .. s2'
  BY Numbers DEF Listing!IInv, Listing!RangesCoverTheirTag, Listing!TypeOK, EntryOK, Entry,
     Listing!EntryHolds, Listing!CleanEntry, Listing!Absent

LEMMA TypesHold ==
    ASSUME Listing!IInv, NEW t \in Goroutines
    PROVE  /\ s5[t] \in Listing!Call
           /\ s3 \in Entry
           /\ s2 \in Listing!Versions
           /\ s4 \in 0 .. s2
           /\ s1 \in Listing!Kinds
           /\ Listing!Carries(t)
           /\ s5 \in [Goroutines -> Listing!Call]
           /\ Listing!Cached \in Listing!Versions \cup {Listing!NoMap, Listing!NotCached}
           /\ t \notin s6 /\ s5[t].at # "idle" => Listing!FindsItsOwn(t)
           /\ Listing!Idle \in Listing!Call
  <1>1. s3 \in Entry
    BY DEF Listing!IInv, Listing!RangesCoverTheirTag, Listing!TypeOK, Entry
  <1>2. Listing!Idle \in Listing!Call
    BY DEF Listing!Idle, Listing!Call
  <1> QED
    BY <1>1, <1>2 DEF Listing!IInv, Listing!RangesCoverTheirTag, Listing!TypeOK,
       Listing!CallsCarry, Listing!AloneFindsItsOwn, Listing!Active, Listing!Cached, Entry

-----------------------------------------------------------------------------
LEMMA Stamped ==
    ASSUME Listing!IInv, NEW t \in Goroutines,
           NEW tag \in Listing!Versions \cup {Listing!NoTag}, tag <= s2,
           NEW map \in Listing!Versions \cup {Listing!NoMap}, Listing!SetETags(t, tag, map),
           UNCHANGED <<s1, s2, s4>>,
           t \notin s6 /\ s3.clean /\ map # Listing!NoMap => map >= s4 /\ map >= tag
    PROVE  /\ EntryOK' /\ s1' = s1 /\ s2' \in Listing!Versions /\ s2' >= s2
           /\ s4' \in 0 .. s2'
  <1>1. /\ s3'.present = TRUE /\ s3'.tag = tag /\ s3'.map = map
        /\ s3'.fresh = TRUE /\ s3'.clean = (s3.clean /\ t \notin s6)
        /\ s3'.ranges = s3.ranges /\ s3' \in Entry /\ s3 \in Entry
    BY TypesHold DEF Listing!SetETags, Entry
  <1>2. Listing!EntryHolds'
    BY <1>1 DEF Listing!EntryHolds, Listing!IInv
  <1>3. Listing!CleanEntry'
    <2>1. s3.present \/ s3.ranges[Listing!Listing] = Listing!NotCached
      BY Numbers DEF Listing!IInv, Listing!EntryHolds, Listing!Absent, Listing!NoRanges
    <2> QED
      BY <1>1, <2>1 DEF Listing!CleanEntry, Listing!IInv
  <1>4. \A c \in Listing!Versions : s3'.ranges[c] # Listing!NotCached => s3'.ranges[c] >= c
    BY <1>1 DEF Listing!IInv, Listing!RangesCoverTheirTag
  <1>5. s2 \in Listing!Versions /\ s4 \in 0 .. s2 /\ s2 >= s2
    BY Numbers DEF Listing!IInv, Listing!RangesCoverTheirTag, Listing!TypeOK
  <1> QED
    BY <1>1, <1>2, <1>3, <1>4, <1>5 DEF EntryOK

LEMMA Kept ==
    ASSUME Listing!IInv, NEW t \in Goroutines, NEW key \in Listing!Keys,
           NEW version \in Listing!Versions,
           Listing!PutBody(t, key, version), UNCHANGED <<s1, s2, s4>>,
           key \in Listing!Versions => version >= key,
           key = Listing!Listing => s1 = "directory" /\ (t \notin s6 => version >= s4)
    PROVE  /\ EntryOK' /\ s1' = s1 /\ s2' \in Listing!Versions /\ s2' >= s2
           /\ s4' \in 0 .. s2'
  <1>1. /\ s3'.present = TRUE /\ s3'.tag = s3.tag /\ s3'.map = s3.map
        /\ s3'.fresh = s3.fresh /\ s3'.clean = (s3.clean /\ t \notin s6)
        /\ s3'.ranges = [s3.ranges EXCEPT ![key] = version]
        /\ s3' \in Entry /\ s3 \in Entry
    BY TypesHold DEF Listing!PutBody, Entry
  <1>2. s3.ranges \in [Listing!Keys -> Listing!Versions \cup {Listing!NotCached}]
    BY <1>1 DEF Entry
  <1>3. \A k \in Listing!Keys : s3'.ranges[k] = IF k = key THEN version ELSE s3.ranges[k]
    BY <1>1, <1>2
  <1>4. Listing!EntryHolds'
    BY <1>1, <1>3, Numbers DEF Listing!EntryHolds, Listing!IInv
  <1>5. Listing!CleanEntry'
    <2>1. s3.present \/ (s3.ranges[Listing!Listing] = Listing!NotCached /\ s3.map = Listing!NoMap)
      BY Numbers DEF Listing!IInv, Listing!EntryHolds, Listing!Absent, Listing!NoRanges
    <2> QED
      BY <1>1, <1>3, <2>1, Numbers DEF Listing!CleanEntry, Listing!IInv
  <1>6. \A c \in Listing!Versions : s3'.ranges[c] # Listing!NotCached => s3'.ranges[c] >= c
    BY <1>3, Numbers DEF Listing!IInv, Listing!RangesCoverTheirTag
  <1>7. s2 \in Listing!Versions /\ s4 \in 0 .. s2 /\ s2 >= s2
    BY Numbers DEF Listing!IInv, Listing!RangesCoverTheirTag, Listing!TypeOK
  <1> QED
    BY <1>1, <1>4, <1>5, <1>6, <1>7 DEF EntryOK

LEMMA AbsentIsOK ==
    ASSUME Listing!IInv, s3' = Listing!Absent, s1' = s1, s2' = s2, s4' \in 0 .. s2
    PROVE  /\ EntryOK' /\ s1' = s1 /\ s2' \in Listing!Versions /\ s2' >= s2
           /\ s4' \in 0 .. s2'
  <1>1. Listing!Absent \in Entry
    BY Numbers DEF Listing!Absent, Listing!NoRanges, Entry
  <1>2. \A k \in Listing!Keys : Listing!Absent.ranges[k] = Listing!NotCached
    BY DEF Listing!Absent, Listing!NoRanges
  <1>3. Listing!Absent.present = FALSE /\ Listing!Absent.tag = -1
    BY Numbers DEF Listing!Absent
  <1>4. s2 \in Listing!Versions /\ s2 \in Nat /\ s2 >= -1 /\ s2 >= s2
    BY Numbers DEF Listing!IInv, Listing!RangesCoverTheirTag, Listing!TypeOK
  <1> QED
    BY <1>1, <1>2, <1>3, <1>4, Numbers DEF EntryOK, Listing!EntryHolds, Listing!CleanEntry

(* The end of List. *)
LEMMA ListedStep ==
    ASSUME Listing!IInv, NEW t \in Goroutines, s5[t].at \in Listing!ListSteps,
           NEW tag \in Listing!Versions \cup {Listing!NoTag}, tag <= s2,
           NEW map \in Listing!Versions \cup {Listing!NoMap}, Listing!Listed(t, tag, map),
           /\ EntryOK' /\ s1' = s1 /\ s2' \in Listing!Versions /\ s2' = s2
           /\ s4' = s4,
           (/\ t \notin s6 /\ s5[t].does # "list" /\ s5[t].before # Listing!NotCached
            /\ s5[t].beforeTag # tag \/ s5[t].before # map) => map >= s4 /\ map >= tag
    PROVE  Listing!IInv'
  <1>1. /\ s5[t] \in Listing!Call
        /\ s4 \in 0 .. s2
        /\ s2 \in Nat
        /\ s5 \in [Goroutines -> Listing!Call]
        /\ s1 # "directory" /\ s5[t].at # "idle" /\ Listing!Idle \in Listing!Call
        /\ s5[t].does \in {"list", "query"}
    BY TypesHold, Numbers DEF Listing!Carries, Listing!ListSteps
  <1>2. s2' >= s2 /\ s4' \in 0 .. s2'
    BY <1>1
  <1>3. CASE s5[t].does = "list"
    <2>1. s5' = [s5 EXCEPT ![t] = Listing!Idle] /\ s6' = s6 \ {t}
      BY <1>3 DEF Listing!Listed, Listing!Done
    <2>2. Listing!Carries(t)'
      BY <1>1, <2>1, Numbers DEF Listing!Carries, Listing!Idle, Listing!ListSteps,
         Listing!DirSteps
    <2> QED
      BY <1>1, <1>2, <2>1, <2>2, OneMoves DEF Listing!Idle
  <1>4. CASE s5[t].does # "list"
    <2> DEFINE moved == /\ s5[t].before # Listing!NotCached
                        /\ s5[t].beforeTag # tag \/ s5[t].before # map
               r == [Listing!Idle EXCEPT !.does = s5[t].does, !.tag = tag,
                                 !.map = IF moved THEN map ELSE Listing!NoMap,
                                 !.at = IF moved THEN "drop" ELSE "look"]
    <2>1. s5' = [s5 EXCEPT ![t] = r] /\ s6' = s6
      BY <1>4 DEF Listing!Listed
    <2>2. /\ r.does = s5[t].does /\ r.tag = tag /\ r.map = (IF moved THEN map ELSE Listing!NoMap)
          /\ r.at = (IF moved THEN "drop" ELSE "look")
      BY DEF Listing!Idle
    <2> DEFINE at == IF moved THEN "drop" ELSE "look"
               kept == IF moved THEN map ELSE Listing!NoMap
    <2>7. at \in Listing!ListSteps /\ kept \in Listing!Versions \cup {Listing!NoMap}
      BY DEF Listing!ListSteps
    <2>8. r = [Listing!Idle EXCEPT !.does = s5[t].does, !.tag = tag, !.map = kept, !.at = at]
      OBVIOUS
    <2>3. r \in Listing!Call
      <3> HIDE DEF at, kept, moved, r
      <3> QED
        BY <1>1, <2>7, <2>8 DEF Listing!Call
    <2> HIDE DEF r, at, kept
    <2>4. s5'[t] = r
      BY <1>1, <2>1
    <2>5. Listing!Carries(t)'
      BY <1>1, <1>4, <2>2, <2>4 DEF Listing!Carries, Listing!ListSteps, Listing!DirSteps
    <2>6. t \notin s6 => Listing!FindsItsOwn(t)'
      BY <1>4, <2>2, <2>4 DEF Listing!FindsItsOwn
    <2> QED
      BY <1>1, <1>2, <2>1, <2>2, <2>3, <2>5, <2>6, OneMoves
  <1> QED
    BY <1>3, <1>4

-----------------------------------------------------------------------------
LEMMA BeginStep == ASSUME Listing!IInv, NEW t \in Goroutines,
    Listing!Begin(t) PROVE Listing!IInv'
  <1>1. PICK does \in {"dir", "list", "query", "write"} :
            /\ does = "dir" => s1 = "directory"
            /\ does \in {"list", "query"} => s1 # "directory"
            /\ s5' = [s5 EXCEPT ![t] =
                 [Listing!Idle EXCEPT !.does = does,
                              !.at = CASE does = "dir" -> "lookDir"
                                       [] does = "write" -> "put"
                                       [] does = "list" -> "peek"
                                       [] OTHER -> "before"]]
    BY DEF Listing!Begin
  <1> DEFINE r == [Listing!Idle EXCEPT !.does = does,
                              !.at = CASE does = "dir" -> "lookDir"
                                       [] does = "write" -> "put"
                                       [] does = "list" -> "peek"
                                       [] OTHER -> "before"]
  <1>2. /\ r \in Listing!Call /\ r.tag = Listing!NoTag /\ r.does = does
        /\ r.at = CASE does = "dir" -> "lookDir" [] does = "write" -> "put"
                    [] does = "list" -> "peek" [] OTHER -> "before"
    BY DEF Listing!Idle, Listing!Call, Listing!ListSteps, Listing!DirSteps,
       Listing!WriteSteps
  <1>3. s5' = [s5 EXCEPT ![t] = r]
    BY <1>1
  <1> HIDE DEF r
  <1>4. s5 \in [Goroutines -> Listing!Call] /\ s5[t].at = "idle"
        /\ UNCHANGED <<s1, s2, s3, s4>>
    BY TypesHold DEF Listing!Begin
  <1>5. \A u \in Goroutines : s5'[u] = IF u = t THEN r ELSE s5[u]
    BY <1>3, <1>4
  <1>6. r.at \in {"lookDir", "put", "peek", "before"}
    BY <1>2
  <1>7. Listing!Active' = Listing!Active \cup {t}
    BY <1>5, <1>6 DEF Listing!Active
  <1>8. s6' = IF Listing!Active = {} THEN s6 ELSE s6 \cup Listing!Active \cup {t}
    BY DEF Listing!Begin
  <1>9. s6' \subseteq Listing!Active'
    BY <1>7, <1>8 DEF Listing!IInv, Listing!RangesCoverTheirTag, Listing!TypeOK
  <1>10. Listing!AloneFindsItsOwn'
    <2> SUFFICES ASSUME NEW u \in (Listing!Active \ s6)'
                 PROVE  Listing!Active' = {u} /\ Listing!FindsItsOwn(u)'
      BY DEF Listing!AloneFindsItsOwn
    <2>1. Listing!Active = {} /\ u = t
      BY <1>7, <1>8
    <2>2. s5'[t] = r
      BY <1>5
    <2> QED
      BY <1>6, <1>7, <1>2, <2>1, <2>2 DEF Listing!FindsItsOwn
  <1>11. Listing!CallsCarry'
    <2>1. s5' \in [Goroutines -> Listing!Call]
      BY <1>2, <1>3, <1>4
    <2>2. ASSUME NEW u \in Goroutines PROVE Listing!Carries(u)'
      <3>1. CASE u = t
        <4>1. s2' = s2 /\ s1' = s1 /\ s2 \in Nat /\ s5'[u] = r
          BY <1>4, <1>5, <3>1, TypesHold, Numbers
        <4>2. r.tag <= s2
          BY <1>2, <4>1, Numbers
        <4> QED
          BY <1>1, <1>2, <4>1, <4>2 DEF Listing!Carries, Listing!DirSteps, Listing!ListSteps
      <3>2. CASE u # t
        BY <1>4, <1>5, <3>2, TypesHold DEF Listing!Carries
      <3> QED
        BY <3>1, <3>2
    <2> QED
      BY <2>1, <2>2 DEF Listing!CallsCarry
  <1>12. Listing!TypeOK'
    <2>1. \A u \in Goroutines : s5'[u] \in Listing!Call
      BY <1>2, <1>4, <1>5
    <2> QED
      BY <1>4, <1>9, <2>1 DEF Listing!TypeOK, Listing!Call, Listing!IInv,
         Listing!RangesCoverTheirTag
  <1>13. EntryOK'
    BY <1>4, EntryStays
  <1> QED
    BY <1>10, <1>11, <1>12, <1>13 DEF Listing!IInv, Listing!RangesCoverTheirTag, EntryOK

LEMMA BeforeStep == ASSUME Listing!IInv, NEW t \in Goroutines,
    Listing!Before(t) PROVE Listing!IInv'
  <1> DEFINE r == [s5[t] EXCEPT !.before = Listing!Cached, !.beforeTag = s3.tag, !.at = "peek"]
  <1>1. /\ s5[t] \in Listing!Call
        /\ s5 \in [Goroutines -> Listing!Call]
        /\ Listing!Carries(t)
        /\ Listing!Cached \in Listing!Versions \cup {Listing!NoMap, Listing!NotCached}
        /\ s3.tag \in Listing!Versions \cup {Listing!NoTag} /\ s2 \in Listing!Versions
        /\ t \notin s6 /\ s5[t].at # "idle" => Listing!FindsItsOwn(t)
    BY TypesHold DEF Entry
  <1>2. s5' = [s5 EXCEPT ![t] = r] /\ s6' = s6
        /\ UNCHANGED <<s1, s2, s3, s4>>
    BY <1>1 DEF Listing!Before
  <1>3. r \in Listing!Call /\ r.at \in {"peek"}
    BY <1>1, ZenonT(60) DEF Listing!Call, Listing!ListSteps, Listing!DirSteps, Listing!WriteSteps
  <1>4. s5'[t] = r /\ Listing!Cached' = Listing!Cached
    BY <1>1, <1>2 DEF Listing!Cached
  <1>5. Listing!Carries(t)'
    BY <1>1, <1>2, <1>3, <1>4, Numbers DEF Listing!Carries, Listing!Before,
       Listing!ListSteps, Listing!DirSteps, Listing!Call
  <1>6. t \notin s6 => Listing!FindsItsOwn(t)'
    BY <1>1, <1>2, <1>3, <1>4, Numbers DEF Listing!FindsItsOwn, Listing!Carries,
       Listing!Before, Listing!ListSteps, Listing!DirSteps, Listing!Call
  <1>7. s5[t].at # "idle"
    BY DEF Listing!Before
  <1> HIDE DEF r
  <1> QED
    BY <1>1, <1>2, <1>3, <1>5, <1>6, <1>7, EntryStays, OneMoves

LEMMA PeekStep == ASSUME Listing!IInv, NEW t \in Goroutines,
    Listing!Peek(t) PROVE Listing!IInv'
  <1> DEFINE r == [s5[t] EXCEPT !.was = Listing!Cached, !.at = "age"]
  <1>1. /\ s5[t] \in Listing!Call
        /\ s5 \in [Goroutines -> Listing!Call]
        /\ Listing!Carries(t)
        /\ Listing!Cached \in Listing!Versions \cup {Listing!NoMap, Listing!NotCached}
        /\ s3.tag \in Listing!Versions \cup {Listing!NoTag} /\ s2 \in Listing!Versions
        /\ t \notin s6 /\ s5[t].at # "idle" => Listing!FindsItsOwn(t)
    BY TypesHold DEF Entry
  <1>2. s5' = [s5 EXCEPT ![t] = r] /\ s6' = s6
        /\ UNCHANGED <<s1, s2, s3, s4>>
    BY <1>1 DEF Listing!Peek
  <1>3. r \in Listing!Call /\ r.at \in {"age"}
    BY <1>1, ZenonT(60) DEF Listing!Call, Listing!ListSteps, Listing!DirSteps, Listing!WriteSteps
  <1>4. s5'[t] = r /\ Listing!Cached' = Listing!Cached
    BY <1>1, <1>2 DEF Listing!Cached
  <1>5. Listing!Carries(t)'
    BY <1>1, <1>2, <1>3, <1>4, Numbers DEF Listing!Carries, Listing!Peek,
       Listing!ListSteps, Listing!DirSteps, Listing!Call
  <1>6. t \notin s6 => Listing!FindsItsOwn(t)'
    BY <1>1, <1>2, <1>3, <1>4, Numbers DEF Listing!FindsItsOwn, Listing!Carries,
       Listing!Peek, Listing!ListSteps, Listing!DirSteps, Listing!Call
  <1>7. s5[t].at # "idle"
    BY DEF Listing!Peek
  <1> HIDE DEF r
  <1> QED
    BY <1>1, <1>2, <1>3, <1>5, <1>6, <1>7, EntryStays, OneMoves

LEMMA AgeStep == ASSUME Listing!IInv, NEW t \in Goroutines,
    Listing!Age(t) PROVE Listing!IInv'
  <1> DEFINE r == [s5[t] EXCEPT !.at = IF s5[t].was # Listing!NotCached /\ ~Listing!NeedsRefresh
                                       THEN "cachedTag" ELSE "ctag"]
  <1>1. /\ s5[t] \in Listing!Call
        /\ s5 \in [Goroutines -> Listing!Call]
        /\ Listing!Carries(t)
        /\ Listing!Cached \in Listing!Versions \cup {Listing!NoMap, Listing!NotCached}
        /\ s3.tag \in Listing!Versions \cup {Listing!NoTag} /\ s2 \in Listing!Versions
        /\ t \notin s6 /\ s5[t].at # "idle" => Listing!FindsItsOwn(t)
    BY TypesHold DEF Entry
  <1>2. s5' = [s5 EXCEPT ![t] = r] /\ s6' = s6
        /\ UNCHANGED <<s1, s2, s3, s4>>
    BY <1>1 DEF Listing!Age, Listing!To
  <1>3. r \in Listing!Call /\ r.at \in {"cachedTag", "ctag"}
    BY <1>1 DEF Listing!Call, Listing!ListSteps, Listing!DirSteps, Listing!WriteSteps
  <1>4. s5'[t] = r /\ Listing!Cached' = Listing!Cached
    BY <1>1, <1>2 DEF Listing!Cached
  <1>5. Listing!Carries(t)'
    BY <1>1, <1>2, <1>3, <1>4, Numbers DEF Listing!Carries, Listing!Age, Listing!ListSteps,
       Listing!DirSteps, Listing!Call
  <1>6. t \notin s6 => Listing!FindsItsOwn(t)'
    BY <1>1, <1>2, <1>3, <1>4, Numbers DEF Listing!FindsItsOwn, Listing!Carries,
       Listing!Age, Listing!ListSteps, Listing!DirSteps, Listing!Call
  <1>7. s5[t].at # "idle"
    BY DEF Listing!Age
  <1> HIDE DEF r
  <1> QED
    BY <1>1, <1>2, <1>3, <1>5, <1>6, <1>7, EntryStays, OneMoves

LEMMA FetchCTagStep == ASSUME Listing!IInv, NEW t \in Goroutines,
    Listing!FetchCTag(t) PROVE Listing!IInv'
  <1> DEFINE tag == IF s1 = "tagged" THEN s2 ELSE Listing!NoTag
             r == [s5[t] EXCEPT !.tag = tag, !.at = "compare"]
  <1>1. /\ s5[t] \in Listing!Call
        /\ s5 \in [Goroutines -> Listing!Call]
        /\ Listing!Carries(t)
        /\ Listing!Cached \in Listing!Versions \cup {Listing!NoMap, Listing!NotCached}
        /\ s3.tag \in Listing!Versions \cup {Listing!NoTag} /\ s2 \in Listing!Versions
        /\ t \notin s6 /\ s5[t].at # "idle" => Listing!FindsItsOwn(t)
    BY TypesHold DEF Entry
  <1>2. s5' = [s5 EXCEPT ![t] = r] /\ s6' = s6
        /\ UNCHANGED <<s1, s2, s3, s4>>
    BY <1>1 DEF Listing!FetchCTag
  <1>8. tag \in Listing!Versions \cup {Listing!NoTag} /\ tag <= s2
    BY <1>1, Numbers
  <1> HIDE DEF tag
  <1>3. r \in Listing!Call /\ r.at \in {"compare"}
    BY <1>1, <1>8 DEF Listing!Call, Listing!ListSteps, Listing!DirSteps, Listing!WriteSteps
  <1>4. s5'[t] = r /\ Listing!Cached' = Listing!Cached
    BY <1>1, <1>2 DEF Listing!Cached
  <1>5. Listing!Carries(t)'
    BY <1>1, <1>2, <1>3, <1>4, <1>8, Numbers DEF Listing!Carries, Listing!FetchCTag,
       Listing!ListSteps, Listing!DirSteps, Listing!Call
  <1>6. t \notin s6 => Listing!FindsItsOwn(t)'
    BY <1>1, <1>2, <1>3, <1>4, Numbers DEF Listing!FindsItsOwn, Listing!Carries,
       Listing!FetchCTag, Listing!ListSteps, Listing!DirSteps, Listing!Call
  <1>7. s5[t].at # "idle"
    BY DEF Listing!FetchCTag
  <1> HIDE DEF r
  <1> QED
    BY <1>1, <1>2, <1>3, <1>5, <1>6, <1>7, EntryStays, OneMoves

LEMMA CompareStep == ASSUME Listing!IInv, NEW t \in Goroutines,
    Listing!Compare(t) PROVE Listing!IInv'
  <1> DEFINE r == [s5[t] EXCEPT !.at = IF /\ s5[t].was # Listing!NotCached /\ s5[t].tag # Listing!NoTag
                                             /\ s3.present /\ s3.tag = s5[t].tag
                                          THEN "restamp" ELSE "etags"]
  <1>1. /\ s5[t] \in Listing!Call
        /\ s5 \in [Goroutines -> Listing!Call]
        /\ Listing!Carries(t)
        /\ Listing!Cached \in Listing!Versions \cup {Listing!NoMap, Listing!NotCached}
        /\ s3.tag \in Listing!Versions \cup {Listing!NoTag} /\ s2 \in Listing!Versions
        /\ t \notin s6 /\ s5[t].at # "idle" => Listing!FindsItsOwn(t)
    BY TypesHold DEF Entry
  <1>2. s5' = [s5 EXCEPT ![t] = r] /\ s6' = s6
        /\ UNCHANGED <<s1, s2, s3, s4>>
    BY <1>1 DEF Listing!Compare, Listing!To
  <1>3. r \in Listing!Call /\ r.at \in {"restamp", "etags"}
    BY <1>1 DEF Listing!Call, Listing!ListSteps, Listing!DirSteps, Listing!WriteSteps
  <1>4. s5'[t] = r /\ Listing!Cached' = Listing!Cached
    BY <1>1, <1>2 DEF Listing!Cached
  <1>5. Listing!Carries(t)'
    BY <1>1, <1>2, <1>3, <1>4, Numbers DEF Listing!Carries, Listing!Compare,
       Listing!ListSteps, Listing!DirSteps, Listing!Call
  <1>6. t \notin s6 => Listing!FindsItsOwn(t)'
    BY <1>1, <1>2, <1>3, <1>4, Numbers DEF Listing!FindsItsOwn, Listing!Carries,
       Listing!Compare, Listing!ListSteps, Listing!DirSteps, Listing!Call
  <1>7. s5[t].at # "idle"
    BY DEF Listing!Compare
  <1> HIDE DEF r
  <1> QED
    BY <1>1, <1>2, <1>3, <1>5, <1>6, <1>7, EntryStays, OneMoves

LEMMA FetchETagsStep == ASSUME Listing!IInv, NEW t \in Goroutines,
    Listing!FetchETags(t) PROVE Listing!IInv'
  <1> DEFINE r == [s5[t] EXCEPT !.map = s2, !.was = Listing!NotCached, !.at = "store"]
  <1>1. /\ s5[t] \in Listing!Call
        /\ s5 \in [Goroutines -> Listing!Call]
        /\ Listing!Carries(t)
        /\ Listing!Cached \in Listing!Versions \cup {Listing!NoMap, Listing!NotCached}
        /\ s3.tag \in Listing!Versions \cup {Listing!NoTag} /\ s2 \in Listing!Versions
        /\ t \notin s6 /\ s5[t].at # "idle" => Listing!FindsItsOwn(t)
    BY TypesHold DEF Entry
  <1>2. s5' = [s5 EXCEPT ![t] = r] /\ s6' = s6
        /\ UNCHANGED <<s1, s2, s3, s4>>
    BY <1>1 DEF Listing!FetchETags
  <1>3. r \in Listing!Call /\ r.at \in {"store"}
    BY <1>1, ZenonT(60) DEF Listing!Call, Listing!ListSteps, Listing!DirSteps, Listing!WriteSteps
  <1>4. s5'[t] = r /\ Listing!Cached' = Listing!Cached
    BY <1>1, <1>2 DEF Listing!Cached
  <1>5. Listing!Carries(t)'
    BY <1>1, <1>2, <1>3, <1>4, Numbers DEF Listing!Carries, Listing!FetchETags,
       Listing!ListSteps, Listing!DirSteps, Listing!Call
  <1>6. t \notin s6 => Listing!FindsItsOwn(t)'
    BY <1>1, <1>2, <1>3, <1>4, Numbers DEF Listing!FindsItsOwn, Listing!Carries,
       Listing!FetchETags, Listing!ListSteps, Listing!DirSteps, Listing!Call
  <1>7. s5[t].at # "idle"
    BY DEF Listing!FetchETags
  <1> HIDE DEF r
  <1> QED
    BY <1>1, <1>2, <1>3, <1>5, <1>6, <1>7, EntryStays, OneMoves

LEMMA ReportStep == ASSUME Listing!IInv, NEW t \in Goroutines,
    Listing!Report(t) PROVE Listing!IInv'
  <1> DEFINE r == [s5[t] EXCEPT !.map = s2, !.at = "keep"]
  <1>1. /\ s5[t] \in Listing!Call
        /\ s5 \in [Goroutines -> Listing!Call]
        /\ Listing!Carries(t)
        /\ Listing!Cached \in Listing!Versions \cup {Listing!NoMap, Listing!NotCached}
        /\ s3.tag \in Listing!Versions \cup {Listing!NoTag} /\ s2 \in Listing!Versions
        /\ t \notin s6 /\ s5[t].at # "idle" => Listing!FindsItsOwn(t)
    BY TypesHold DEF Entry
  <1>2. s5' = [s5 EXCEPT ![t] = r] /\ s6' = s6
        /\ UNCHANGED <<s1, s2, s3, s4>>
    BY <1>1 DEF Listing!Report
  <1>3. r \in Listing!Call /\ r.at \in {"keep"}
    BY <1>1, ZenonT(60) DEF Listing!Call, Listing!ListSteps, Listing!DirSteps, Listing!WriteSteps
  <1>4. s5'[t] = r /\ Listing!Cached' = Listing!Cached
    BY <1>1, <1>2 DEF Listing!Cached
  <1>5. Listing!Carries(t)'
    BY <1>1, <1>2, <1>3, <1>4, Numbers DEF Listing!Carries, Listing!Report,
       Listing!ListSteps, Listing!DirSteps, Listing!Call
  <1>6. t \notin s6 => Listing!FindsItsOwn(t)'
    BY <1>1, <1>2, <1>3, <1>4, Numbers DEF Listing!FindsItsOwn, Listing!Carries,
       Listing!Report, Listing!ListSteps, Listing!DirSteps, Listing!Call
  <1>7. s5[t].at # "idle"
    BY DEF Listing!Report
  <1> HIDE DEF r
  <1> QED
    BY <1>1, <1>2, <1>3, <1>5, <1>6, <1>7, EntryStays, OneMoves

LEMMA ReadDirStep == ASSUME Listing!IInv, NEW t \in Goroutines,
    Listing!ReadDir(t) PROVE Listing!IInv'
  <1> DEFINE r == [s5[t] EXCEPT !.map = s2, !.at = "stampDir"]
  <1>1. /\ s5[t] \in Listing!Call
        /\ s5 \in [Goroutines -> Listing!Call]
        /\ Listing!Carries(t)
        /\ Listing!Cached \in Listing!Versions \cup {Listing!NoMap, Listing!NotCached}
        /\ s3.tag \in Listing!Versions \cup {Listing!NoTag} /\ s2 \in Listing!Versions
        /\ t \notin s6 /\ s5[t].at # "idle" => Listing!FindsItsOwn(t)
    BY TypesHold DEF Entry
  <1>2. s5' = [s5 EXCEPT ![t] = r] /\ s6' = s6
        /\ UNCHANGED <<s1, s2, s3, s4>>
    BY <1>1 DEF Listing!ReadDir
  <1>3. r \in Listing!Call /\ r.at \in {"stampDir"}
    BY <1>1, ZenonT(60) DEF Listing!Call, Listing!ListSteps, Listing!DirSteps, Listing!WriteSteps
  <1>4. s5'[t] = r /\ Listing!Cached' = Listing!Cached
    BY <1>1, <1>2 DEF Listing!Cached
  <1>5. Listing!Carries(t)'
    BY <1>1, <1>2, <1>3, <1>4, Numbers DEF Listing!Carries, Listing!ReadDir,
       Listing!ListSteps, Listing!DirSteps, Listing!Call
  <1>6. t \notin s6 => Listing!FindsItsOwn(t)'
    BY <1>1, <1>2, <1>3, <1>4, Numbers DEF Listing!FindsItsOwn, Listing!Carries,
       Listing!ReadDir, Listing!ListSteps, Listing!DirSteps, Listing!Call
  <1>7. s5[t].at # "idle"
    BY DEF Listing!ReadDir
  <1> HIDE DEF r
  <1> QED
    BY <1>1, <1>2, <1>3, <1>5, <1>6, <1>7, EntryStays, OneMoves

LEMMA CachedCTagStep == ASSUME Listing!IInv, NEW t \in Goroutines,
    Listing!CachedCTag(t) PROVE Listing!IInv'
  <1>1. /\ s5[t] \in Listing!Call /\ Listing!Carries(t) /\ s5[t].at = "cachedTag"
        /\ s3.tag \in Listing!Versions \cup {Listing!NoTag} /\ s2 \in Listing!Versions
        /\ t \notin s6 => Listing!FindsItsOwn(t)
    BY TypesHold DEF Entry, Listing!CachedCTag
  <1>2. /\ s5[t].at \in Listing!ListSteps
        /\ s5[t].was \in Listing!Versions \cup {Listing!NoMap}
        /\ s3.tag <= s2
    BY <1>1 DEF Listing!Carries, Listing!Call, Listing!ListSteps, Listing!IInv,
       Listing!EntryHolds
  <1>3. /\ Listing!Listed(t, s3.tag, s5[t].was) /\ s2' = s2 /\ s4' = s4
        /\ UNCHANGED <<s1, s2, s3, s4>>
    BY DEF Listing!CachedCTag
  <1>4. EntryOK' /\ s1' = s1 /\ s2' \in Listing!Versions
    BY <1>3, EntryStays
  <1>5. t \notin s6 /\ s5[t].does # "list" =>
          s5[t].before = s5[t].was /\ s5[t].beforeTag = s3.tag
    BY <1>1, <1>2 DEF Listing!FindsItsOwn, Listing!Carries, Listing!Call, Listing!IInv,
       Listing!CallsCarry, Listing!ListSteps
  <1> QED
    BY <1>1, <1>2, <1>3, <1>4, <1>5, ListedStep

LEMMA RestampStep == ASSUME Listing!IInv, NEW t \in Goroutines,
    Listing!Restamp(t) PROVE Listing!IInv'
  <1>1. /\ s5[t] \in Listing!Call /\ Listing!Carries(t) /\ s5[t].at = "restamp"
        /\ s3 \in Entry /\ s2 \in Listing!Versions
        /\ t \notin s6 => Listing!FindsItsOwn(t)
    BY TypesHold DEF Listing!Restamp
  <1>2. /\ s5[t].at \in Listing!ListSteps
        /\ s5[t].was \in Listing!Versions \cup {Listing!NoMap}
        /\ s5[t].tag \in Listing!Versions \cup {Listing!NoTag} /\ s5[t].tag <= s2
    BY <1>1 DEF Listing!Carries, Listing!Call, Listing!ListSteps
  <1>3. /\ Listing!Listed(t, s5[t].tag, s5[t].was)
        /\ Listing!SetETags(t, s5[t].tag, s5[t].was)
        /\ UNCHANGED <<s1, s2, s4>>
    BY DEF Listing!Restamp
  <1>4. t \notin s6 => /\ s5[t].was = s3.map /\ s5[t].tag = s3.tag
                               /\ s3.present
    BY <1>1, <1>2, Numbers DEF Listing!FindsItsOwn, Listing!Cached
  <1>5. t \notin s6 /\ s3.clean /\ s5[t].was # Listing!NoMap =>
          s5[t].was >= s4 /\ s5[t].was >= s5[t].tag
    BY <1>4 DEF Listing!IInv, Listing!CleanEntry
  <1>6. /\ EntryOK' /\ s1' = s1 /\ s2' \in Listing!Versions /\ s2' = s2 /\ s4' = s4
    BY <1>2, <1>3, <1>5, Stamped
  <1>7. t \notin s6 /\ s5[t].does # "list" =>
          s5[t].before = s5[t].was /\ s5[t].beforeTag = s5[t].tag
    BY <1>1, <1>2, <1>4 DEF Listing!FindsItsOwn, Listing!Carries
  <1> QED
    BY <1>2, <1>3, <1>6, <1>7, ListedStep

LEMMA StoreETagsStep == ASSUME Listing!IInv, NEW t \in Goroutines,
    Listing!StoreETags(t) PROVE Listing!IInv'
  <1>1. /\ s5[t] \in Listing!Call /\ Listing!Carries(t) /\ s5[t].at = "store"
        /\ s3 \in Entry /\ s2 \in Listing!Versions
        /\ t \notin s6 => Listing!FindsItsOwn(t)
    BY TypesHold DEF Listing!StoreETags
  <1>2. /\ s5[t].at \in Listing!ListSteps
        /\ s5[t].map \in Listing!Versions \cup {Listing!NoMap}
        /\ s5[t].tag \in Listing!Versions \cup {Listing!NoTag} /\ s5[t].tag <= s2
    BY <1>1 DEF Listing!Carries, Listing!Call, Listing!ListSteps
  <1>3. /\ Listing!Listed(t, s5[t].tag, s5[t].map)
        /\ Listing!SetETags(t, s5[t].tag, s5[t].map)
        /\ UNCHANGED <<s1, s2, s4>>
    BY DEF Listing!StoreETags
  <1>4. t \notin s6 => s5[t].map >= s4 /\ s5[t].map >= s5[t].tag
    BY <1>1 DEF Listing!FindsItsOwn
  <1>5. /\ EntryOK' /\ s1' = s1 /\ s2' \in Listing!Versions /\ s2' = s2 /\ s4' = s4
    BY <1>2, <1>3, <1>4, Stamped
  <1> QED
    BY <1>2, <1>3, <1>4, <1>5, ListedStep

(* Whoever is done is at rest. *)
LEMMA DoneStep ==
    ASSUME Listing!IInv, NEW t \in Goroutines, s5[t].at # "idle", Listing!Done(t),
           EntryOK', s1' = s1,
           s2' \in Listing!Versions, s2' >= s2, s4' \in 0 .. s2'
    PROVE  Listing!IInv'
  <1>1. /\ s5' = [s5 EXCEPT ![t] = Listing!Idle]
        /\ s6' = s6 \ {t}
        /\ Listing!Idle \in Listing!Call
        /\ s5 \in [Goroutines -> Listing!Call]
        /\ Listing!Idle.at = "idle"
        /\ Listing!Idle.tag = Listing!NoTag
    BY TypesHold DEF Listing!Done, Listing!Idle
  <1>2. s5'[t] = Listing!Idle /\ s2' \in Nat /\ Listing!NoTag <= s2'
    BY <1>1, Numbers
  <1>3. Listing!Carries(t)'
    BY <1>1, <1>2 DEF Listing!Carries, Listing!DirSteps, Listing!ListSteps
  <1> QED
    BY <1>1, <1>3, OneMoves

LEMMA DropRangesStep == ASSUME Listing!IInv, NEW t \in Goroutines,
    Listing!DropRanges(t) PROVE Listing!IInv'
  <1> DEFINE r == [s5[t] EXCEPT !.at = "again"]
  <1>1. /\ s5[t] \in Listing!Call
        /\ s5 \in [Goroutines -> Listing!Call]
        /\ Listing!Carries(t)
        /\ s5[t].at = "drop"
        /\ s2 \in Listing!Versions /\ s4 \in 0 .. s2
        /\ t \notin s6 => Listing!FindsItsOwn(t)
    BY TypesHold DEF Listing!DropRanges
  <1>2. s5' = [s5 EXCEPT ![t] = r] /\ s6' = s6
        /\ UNCHANGED <<s1, s2, s4>> /\ s3' = Listing!Absent
    BY <1>1 DEF Listing!DropRanges, Listing!To, Listing!InvalidateCollection
  <1>3. r \in Listing!Call /\ r.at = "again"
    BY <1>1 DEF Listing!Call, Listing!ListSteps
  <1>4. s5'[t] = r
    BY <1>1, <1>2
  <1>5. Listing!Carries(t)' /\ (t \notin s6 => Listing!FindsItsOwn(t)')
    BY <1>1, <1>2, <1>3, <1>4 DEF Listing!Carries, Listing!FindsItsOwn, Listing!ListSteps,
       Listing!DirSteps
  <1>6. /\ EntryOK' /\ s1' = s1 /\ s2' \in Listing!Versions /\ s2' >= s2
        /\ s4' \in 0 .. s2'
    BY <1>1, <1>2, AbsentIsOK
  <1> HIDE DEF r
  <1> QED
    BY <1>1, <1>2, <1>3, <1>5, <1>6, OneMoves

LEMMA StoreAgainStep == ASSUME Listing!IInv, NEW t \in Goroutines,
    Listing!StoreAgain(t) PROVE Listing!IInv'
  <1> DEFINE r == [s5[t] EXCEPT !.map = Listing!NoMap, !.at = "look"]
  <1>1. /\ s5[t] \in Listing!Call
        /\ s5 \in [Goroutines -> Listing!Call]
        /\ Listing!Carries(t)
        /\ s5[t].at = "again"
        /\ s2 \in Listing!Versions /\ s4 \in 0 .. s2
        /\ t \notin s6 => Listing!FindsItsOwn(t)
    BY TypesHold DEF Listing!StoreAgain
  <1>2. s5' = [s5 EXCEPT ![t] = r] /\ s6' = s6
        /\ UNCHANGED <<s1, s2, s4>> /\ Listing!SetETags(t, s5[t].tag, s5[t].map)
    BY <1>1 DEF Listing!StoreAgain
  <1>3. r \in Listing!Call /\ r.at = "look"
    BY <1>1 DEF Listing!Call, Listing!ListSteps
  <1>4. s5'[t] = r
    BY <1>1, <1>2
  <1>5. Listing!Carries(t)' /\ Listing!FindsItsOwn(t)'
    BY <1>1, <1>2, <1>3, <1>4 DEF Listing!Carries, Listing!FindsItsOwn, Listing!ListSteps,
       Listing!DirSteps
  <1>6. /\ s5[t].tag \in Listing!Versions \cup {Listing!NoTag} /\ s5[t].tag <= s2
        /\ s5[t].map \in Listing!Versions \cup {Listing!NoMap}
        /\ t \notin s6 => s5[t].map >= s4 /\ s5[t].map >= s5[t].tag
    BY <1>1 DEF Listing!Call, Listing!Carries, Listing!FindsItsOwn
  <1>7. /\ EntryOK' /\ s1' = s1 /\ s2' \in Listing!Versions /\ s2' >= s2
        /\ s4' \in 0 .. s2'
    BY <1>2, <1>6, Stamped
  <1> HIDE DEF r
  <1> QED
    BY <1>1, <1>2, <1>3, <1>5, <1>7, OneMoves

(* A goroutine goes on to its next request. *)
LEMMA GoesOn ==
    ASSUME Listing!IInv, NEW t \in Goroutines, NEW at \in {"report", "readDir"},
           Listing!To(t, at),
           s5[t].at \in (IF at = "report" THEN Listing!ListSteps ELSE Listing!DirSteps),
           UNCHANGED <<s1, s2, s3, s4, s6>>
    PROVE  Listing!IInv'
  <1> DEFINE r == [s5[t] EXCEPT !.at = at]
  <1>1. /\ s5[t] \in Listing!Call
        /\ s5 \in [Goroutines -> Listing!Call]
        /\ Listing!Carries(t)
    BY TypesHold
  <1>2. s5' = [s5 EXCEPT ![t] = r]
    BY <1>1 DEF Listing!To
  <1>3. r \in Listing!Call /\ r.at = at
    BY <1>1 DEF Listing!Call, Listing!ListSteps, Listing!DirSteps
  <1>4. s5'[t] = r
    BY <1>1, <1>2
  <1>5. Listing!Carries(t)' /\ Listing!FindsItsOwn(t)'
    BY <1>1, <1>2, <1>3, <1>4 DEF Listing!Carries, Listing!FindsItsOwn, Listing!ListSteps,
       Listing!DirSteps
  <1>6. s5[t].at # "idle"
    BY DEF Listing!ListSteps, Listing!DirSteps
  <1> HIDE DEF r
  <1> QED
    BY <1>1, <1>2, <1>3, <1>5, <1>6, EntryStays, OneMoves

LEMMA LookStep == ASSUME Listing!IInv, NEW t \in Goroutines,
    Listing!Look(t) PROVE Listing!IInv'
  <1>1. CASE Listing!Done(t)
    BY <1>1, DoneStep, EntryStays DEF Listing!Look
  <1>2. CASE Listing!To(t, "report") /\ UNCHANGED s6
    BY <1>2, GoesOn DEF Listing!Look, Listing!ListSteps
  <1> QED
    BY <1>1, <1>2 DEF Listing!Look

LEMMA LookDirStep == ASSUME Listing!IInv, NEW t \in Goroutines,
    Listing!LookDir(t) PROVE Listing!IInv'
  <1>1. CASE Listing!Done(t)
    BY <1>1, DoneStep, EntryStays DEF Listing!LookDir
  <1>2. CASE Listing!To(t, "readDir") /\ UNCHANGED s6
    BY <1>2, GoesOn DEF Listing!LookDir, Listing!DirSteps
  <1> QED
    BY <1>1, <1>2 DEF Listing!LookDir

LEMMA KeepRangeStep == ASSUME Listing!IInv, NEW t \in Goroutines,
    Listing!KeepRange(t) PROVE Listing!IInv'
  <1>1. /\ s5[t] \in Listing!Call /\ Listing!Carries(t) /\ s5[t].at = "keep"
    BY TypesHold DEF Listing!KeepRange
  <1>2. /\ s5[t].map \in Listing!Versions
        /\ s5[t].tag \in Listing!Keys
        /\ s5[t].tag # Listing!Listing
        /\ s5[t].tag <= s5[t].map
    <2>1. /\ s5[t].map \in Listing!Versions
          /\ s5[t].tag \in Listing!Versions \cup {Listing!NoTag}
          /\ s5[t].tag <= s5[t].map
      BY <1>1 DEF Listing!Carries, Listing!Call
    <2>2. Listing!NoTag # Listing!Listing
      BY Numbers
    <2>3. /\ Listing!Versions \cup {Listing!NoTag} \subseteq Listing!Keys
          /\ Listing!Listing \notin Listing!Versions
      BY Numbers
    <2> QED
      BY <2>1, <2>2, <2>3
  <1>3. /\ Listing!PutBody(t, s5[t].tag, s5[t].map)
        /\ Listing!Done(t)
        /\ UNCHANGED <<s1, s2, s4>>
    BY DEF Listing!KeepRange
  <1>4. /\ EntryOK' /\ s1' = s1 /\ s2' \in Listing!Versions /\ s2' >= s2
        /\ s4' \in 0 .. s2'
    BY <1>2, <1>3, Numbers, Kept
  <1> QED
    BY <1>1, <1>3, <1>4, DoneStep

LEMMA KeepDirStep == ASSUME Listing!IInv, NEW t \in Goroutines,
    Listing!KeepDir(t) PROVE Listing!IInv'
  <1>1. /\ s5[t] \in Listing!Call /\ Listing!Carries(t) /\ s5[t].at = "keepDir"
        /\ t \notin s6 => Listing!FindsItsOwn(t)
    BY TypesHold DEF Listing!KeepDir
  <1>2. /\ s5[t].map \in Listing!Versions /\ s1 = "directory"
        /\ t \notin s6 => s5[t].map >= s4
    BY <1>1, Numbers DEF Listing!Carries, Listing!Call, Listing!FindsItsOwn,
       Listing!DirSteps
  <1>3. /\ Listing!PutBody(t, Listing!Listing, s5[t].map)
        /\ Listing!Done(t)
        /\ UNCHANGED <<s1, s2, s4>>
    BY DEF Listing!KeepDir
  <1>4. /\ EntryOK' /\ s1' = s1 /\ s2' \in Listing!Versions /\ s2' >= s2
        /\ s4' \in 0 .. s2'
    BY <1>2, <1>3, Numbers, Kept
  <1> QED
    BY <1>1, <1>3, <1>4, DoneStep

LEMMA StampDirStep == ASSUME Listing!IInv, NEW t \in Goroutines,
    Listing!StampDir(t) PROVE Listing!IInv'
  <1> DEFINE r == [s5[t] EXCEPT !.at = "keepDir"]
  <1>1. /\ s5[t] \in Listing!Call
        /\ s5 \in [Goroutines -> Listing!Call]
        /\ Listing!Carries(t)
        /\ s5[t].at = "stampDir"
        /\ s2 \in Listing!Versions /\ s4 \in 0 .. s2
        /\ t \notin s6 => Listing!FindsItsOwn(t)
    BY TypesHold DEF Listing!StampDir
  <1>2. s5' = [s5 EXCEPT ![t] = r] /\ s6' = s6
        /\ UNCHANGED <<s1, s2, s4>> /\ Listing!SetETags(t, Listing!NoTag, s5[t].map)
    BY <1>1 DEF Listing!StampDir, Listing!To
  <1>3. r \in Listing!Call /\ r.at = "keepDir"
    BY <1>1 DEF Listing!Call, Listing!DirSteps
  <1>4. s5'[t] = r
    BY <1>1, <1>2
  <1>5. Listing!Carries(t)' /\ (t \notin s6 => Listing!FindsItsOwn(t)')
    BY <1>1, <1>2, <1>3, <1>4 DEF Listing!Carries, Listing!FindsItsOwn, Listing!ListSteps,
       Listing!DirSteps
  <1>6. /\ Listing!NoTag <= s2
        /\ s5[t].map \in Listing!Versions
        /\ s5[t].map >= Listing!NoTag
        /\ t \notin s6 => s5[t].map >= s4
    <2>1. s5[t].map \in Listing!Versions /\ (t \notin s6 => s5[t].map >= s4)
      BY <1>1 DEF Listing!Carries, Listing!FindsItsOwn
    <2>2. s2 \in Nat /\ s5[t].map \in Nat
      BY <1>1, <2>1, Numbers
    <2> QED
      BY <2>1, <2>2, Numbers
  <1>7. /\ EntryOK' /\ s1' = s1 /\ s2' \in Listing!Versions /\ s2' >= s2
        /\ s4' \in 0 .. s2'
    BY <1>2, <1>6, Stamped
  <1> HIDE DEF r
  <1> QED
    BY <1>1, <1>2, <1>3, <1>5, <1>7, OneMoves

LEMMA RequestFailsStep == ASSUME Listing!IInv, NEW t \in Goroutines,
    Listing!RequestFails(t) PROVE Listing!IInv'
  <1>1. CASE Listing!Done(t)
    BY <1>1, DoneStep, EntryStays DEF Listing!RequestFails
  <1>2. CASE /\ s5[t].does = "query" /\ s5[t].at \in {"ctag", "etags"}
             /\ s5' = [s5 EXCEPT ![t] = [Listing!Idle EXCEPT !.does = "query", !.at = "look"]]
             /\ UNCHANGED s6
    <2> DEFINE r == [Listing!Idle EXCEPT !.does = "query", !.at = "look"]
    <2>1. /\ s5[t] \in Listing!Call
          /\ s5 \in [Goroutines -> Listing!Call]
          /\ Listing!Carries(t)
          /\ s2 \in Nat
      BY TypesHold, Numbers
    <2>2. /\ r \in Listing!Call /\ r.at = "look" /\ r.tag = Listing!NoTag /\ s5'[t] = r
          /\ r.does = "query"
      BY <1>2, <2>1 DEF Listing!Call, Listing!ListSteps, Listing!Idle
    <2>3. s5' = [s5 EXCEPT ![t] = r] /\ UNCHANGED <<s1, s2, s3, s4, s6>>
      BY <1>2 DEF Listing!RequestFails
    <2> HIDE DEF r
    <2>5. Listing!NoTag <= s2 /\ s2' = s2 /\ s1' = s1 /\ s1 # "directory"
      BY <1>2, <2>1, <2>3, Numbers DEF Listing!Carries, Listing!ListSteps
    <2>4. Listing!Carries(t)' /\ Listing!FindsItsOwn(t)'
      BY <2>2, <2>5 DEF Listing!Carries, Listing!FindsItsOwn, Listing!ListSteps,
         Listing!DirSteps
    <2> QED
      BY <1>2, <2>1, <2>2, <2>3, <2>4, EntryStays, OneMoves
  <1> QED
    BY <1>1, <1>2 DEF Listing!RequestFails

LEMMA PutStep == ASSUME Listing!IInv, NEW t \in Goroutines,
    Listing!Put(t) PROVE Listing!IInv'
  <1> DEFINE r == [s5[t] EXCEPT !.map = s2', !.at = "invalidate"]
  <1>1. /\ s5[t] \in Listing!Call
        /\ s5 \in [Goroutines -> Listing!Call]
        /\ Listing!Carries(t)
        /\ s5[t].at = "put"
        /\ s2 \in Listing!Versions /\ s4 \in 0 .. s2 /\ s3 \in Entry
    BY TypesHold DEF Listing!Put
  <1>2. /\ s2' \in Listing!Versions /\ s2' >= s2 /\ UNCHANGED <<s1, s3, s4>>
        /\ s2 \in Nat /\ s2' \in Nat
    BY <1>1, Numbers DEF Listing!Put
  <1>3. s4' \in 0 .. s2'
    BY <1>1, <1>2
  <1>4. EntryOK'
    <2>1. s3.tag \in Int
      BY <1>1, Numbers DEF Entry
    <2>2. Listing!EntryHolds'
      BY <1>2, <2>1 DEF Listing!EntryHolds, Listing!IInv
    <2>3. Listing!CleanEntry'
      BY <1>2 DEF Listing!CleanEntry, Listing!IInv
    <2> QED
      BY <1>1, <1>2, <2>2, <2>3 DEF EntryOK, Listing!IInv, Listing!RangesCoverTheirTag
  <1>5. CASE Listing!Done(t)
    BY <1>1, <1>2, <1>3, <1>4, <1>5, DoneStep
  <1>6. CASE s5' = [s5 EXCEPT ![t] = r] /\ UNCHANGED s6
    <2>1. r \in Listing!Call /\ r.at = "invalidate" /\ r.map = s2' /\ r.tag = s5[t].tag
      BY <1>1, <1>2 DEF Listing!Call, Listing!WriteSteps
    <2>2. s5'[t] = r
      BY <1>1, <1>6
    <2> HIDE DEF r
    <2>3. r.tag <= s2'
      <3>1. s5[t].tag <= s2 /\ s5[t].tag \in Int
        BY <1>1, Numbers DEF Listing!Carries, Listing!Call
      <3> QED
        BY <1>2, <2>1, <3>1
    <2>4. Listing!Carries(t)' /\ Listing!FindsItsOwn(t)'
      BY <1>2, <2>1, <2>2, <2>3 DEF Listing!Carries, Listing!FindsItsOwn,
         Listing!ListSteps, Listing!DirSteps
    <2> QED
      BY <1>1, <1>2, <1>3, <1>4, <1>6, <2>1, <2>4, OneMoves
  <1> QED
    BY <1>1, <1>5, <1>6 DEF Listing!Put

LEMMA InvalidateStep == ASSUME Listing!IInv, NEW t \in Goroutines,
    Listing!Invalidate(t) PROVE Listing!IInv'
  <1> DEFINE r == [Listing!Idle EXCEPT !.does = "write", !.at = "get"]
  <1>1. /\ s5[t] \in Listing!Call
        /\ s5 \in [Goroutines -> Listing!Call]
        /\ Listing!Carries(t)
        /\ s5[t].at = "invalidate"
        /\ s2 \in Listing!Versions /\ s4 \in 0 .. s2
    BY TypesHold DEF Listing!Invalidate
  <1>2. s5[t].map \in 0 .. s2
    <2>1. s5[t].map \in Listing!Versions /\ s5[t].map <= s2
      BY <1>1 DEF Listing!Carries
    <2>2. s5[t].map \in Nat /\ s2 \in Nat
      BY <1>1, <2>1, Numbers
    <2> QED
      BY <2>1, <2>2
  <1>3. s3' = Listing!Absent /\ s1' = s1 /\ s2' = s2 /\ s4' \in 0 .. s2
    BY <1>1, <1>2 DEF Listing!Invalidate, Listing!InvalidateCollection
  <1>4. /\ EntryOK' /\ s1' = s1 /\ s2' \in Listing!Versions /\ s2' >= s2
        /\ s4' \in 0 .. s2'
    BY <1>3, AbsentIsOK
  <1>5. CASE Listing!Done(t)
    BY <1>1, <1>4, <1>5, DoneStep
  <1>6. CASE s5' = [s5 EXCEPT ![t] = r] /\ UNCHANGED s6
    <2>1. r \in Listing!Call /\ r.at = "get" /\ r.tag = Listing!NoTag
      BY DEF Listing!Call, Listing!WriteSteps, Listing!Idle
    <2>2. s5'[t] = r /\ Listing!NoTag <= s2
      BY <1>1, <1>6, Numbers
    <2> HIDE DEF r
    <2>3. Listing!Carries(t)' /\ Listing!FindsItsOwn(t)'
      BY <1>3, <2>1, <2>2 DEF Listing!Carries, Listing!FindsItsOwn, Listing!ListSteps,
         Listing!DirSteps
    <2> QED
      BY <1>1, <1>4, <1>6, <2>1, <2>3, OneMoves
  <1> QED
    BY <1>5, <1>6 DEF Listing!Invalidate

LEMMA ReadBackStep == ASSUME Listing!IInv, NEW t \in Goroutines,
    Listing!ReadBack(t) PROVE Listing!IInv'
  <1>1. /\ s3 \in Entry /\ s2 \in Listing!Versions /\ s4 \in 0 .. s2
        /\ s5[t].at # "idle" /\ Listing!Done(t) /\ UNCHANGED <<s1, s2, s4>>
    BY TypesHold DEF Listing!ReadBack
  <1>2. /\ s3'.present = TRUE /\ s3'.tag = s3.tag /\ s3'.map = s3.map
        /\ s3'.clean = (s3.clean /\ t \notin s6)
        /\ s3'.ranges = s3.ranges /\ s3' \in Entry
    BY <1>1 DEF Listing!ReadBack, Entry
  <1>3. Listing!EntryHolds'
    BY <1>1, <1>2 DEF Listing!EntryHolds, Listing!IInv
  <1>4. Listing!CleanEntry'
    <2>1. s3.present \/ (s3.ranges[Listing!Listing] = Listing!NotCached /\ s3.map = Listing!NoMap)
      BY Numbers DEF Listing!IInv, Listing!EntryHolds, Listing!Absent, Listing!NoRanges
    <2> QED
      BY <1>1, <1>2, <2>1 DEF Listing!CleanEntry, Listing!IInv
  <1>5. EntryOK'
    BY <1>2, <1>3, <1>4 DEF EntryOK, Listing!IInv, Listing!RangesCoverTheirTag
  <1>6. s2' \in Listing!Versions /\ s2' >= s2 /\ s4' \in 0 .. s2'
    BY <1>1, Numbers
  <1> QED
    BY <1>1, <1>5, <1>6, DoneStep

LEMMA OtherClientStep == ASSUME Listing!IInv, Listing!OtherClient PROVE Listing!IInv'
  <1>1. /\ s2 \in Listing!Versions /\ s4 \in 0 .. s2 /\ s3 \in Entry
        /\ s5 \in [Goroutines -> Listing!Call]
    BY DEF Listing!IInv, Listing!RangesCoverTheirTag, Listing!TypeOK, Entry,
       Listing!CallsCarry
  <1>2. /\ s2 \in Nat /\ s2' = s2 + 1 /\ s2' \in Listing!Versions
        /\ UNCHANGED <<s1, s3, s4, s5, s6>>
    BY <1>1, VersionAssumption DEF Listing!OtherClient, Listing!Versions
  <1>3. Listing!CallsCarry'
    <2>1. ASSUME NEW t \in Goroutines PROVE Listing!Carries(t)'
      <3>1. Listing!Carries(t) /\ s5[t].tag \in Int /\ s5[t].map \in Int
        BY <1>1, Numbers DEF Listing!IInv, Listing!CallsCarry, Listing!Call
      <3> QED
        BY <1>2, <3>1 DEF Listing!Carries
    <2> QED
      BY <1>1, <1>2, <2>1 DEF Listing!CallsCarry
  <1>4. Listing!EntryHolds' /\ Listing!CleanEntry'
    <2>1. s3.tag \in Int
      BY <1>1, Numbers DEF Entry
    <2> QED
      BY <1>2, <2>1 DEF Listing!IInv, Listing!EntryHolds, Listing!CleanEntry
  <1>5. Listing!AloneFindsItsOwn'
    <2>1. Listing!Active' = Listing!Active
      BY <1>2 DEF Listing!Active
    <2>2. ASSUME NEW t \in Goroutines PROVE Listing!FindsItsOwn(t)' = Listing!FindsItsOwn(t)
      BY <1>2 DEF Listing!FindsItsOwn, Listing!Cached
    <2> QED
      BY <1>2, <2>1, <2>2 DEF Listing!IInv, Listing!AloneFindsItsOwn, Listing!Active
  <1>6. Listing!TypeOK'
    <2>1. Listing!Active' = Listing!Active /\ s4' \in 0 .. s2'
      BY <1>1, <1>2 DEF Listing!Active
    <2> QED
      BY <1>2, <2>1 DEF Listing!IInv, Listing!RangesCoverTheirTag, Listing!TypeOK
  <1> QED
    BY <1>2, <1>3, <1>4, <1>5, <1>6 DEF Listing!IInv, Listing!RangesCoverTheirTag

LEMMA TTLStep == ASSUME Listing!IInv, Listing!TTLPasses PROVE Listing!IInv'
  <1>1. s3 \in Entry
    BY DEF Listing!IInv, Listing!RangesCoverTheirTag, Listing!TypeOK, Entry
  <1>2. /\ s3.present /\ s3' \in Entry /\ s3'.present /\ s3'.tag = s3.tag
        /\ s3'.map = s3.map /\ s3'.clean = s3.clean
        /\ s3'.ranges = s3.ranges
        /\ UNCHANGED <<s1, s2, s4, s5, s6>>
    BY <1>1 DEF Listing!TTLPasses, Entry
  <1>3. Listing!CallsCarry'
    BY <1>2 DEF Listing!IInv, Listing!CallsCarry, Listing!Carries
  <1>4. Listing!EntryHolds' /\ Listing!CleanEntry'
    BY <1>2 DEF Listing!IInv, Listing!EntryHolds, Listing!CleanEntry
  <1>5. Listing!AloneFindsItsOwn'
    <2>1. Listing!Active' = Listing!Active
      BY <1>2 DEF Listing!Active
    <2>2. ASSUME NEW t \in Goroutines PROVE Listing!FindsItsOwn(t)' = Listing!FindsItsOwn(t)
      BY <1>2 DEF Listing!FindsItsOwn, Listing!Cached
    <2> QED
      BY <1>2, <2>1, <2>2 DEF Listing!IInv, Listing!AloneFindsItsOwn, Listing!Active
  <1>6. Listing!TypeOK'
    <2>1. Listing!Active' = Listing!Active
      BY <1>2 DEF Listing!Active
    <2> QED
      BY <1>2, <2>1 DEF Listing!IInv, Listing!RangesCoverTheirTag, Listing!TypeOK, Entry
  <1> QED
    BY <1>2, <1>3, <1>4, <1>5, <1>6 DEF Listing!IInv, Listing!RangesCoverTheirTag

LEMMA ListingStarts == Listing!Init => Listing!IInv
  <1> SUFFICES ASSUME Listing!Init PROVE Listing!IInv
    OBVIOUS
  <1>1. /\ Listing!Idle \in Listing!Call
        /\ Listing!Absent \in Entry
        /\ Listing!Idle.at = "idle"
        /\ Listing!Idle.tag = Listing!NoTag
        /\ Listing!NoTag <= 0
        /\ Listing!Absent.present = FALSE
        /\ Listing!Absent.tag = Listing!NoTag
    BY Numbers DEF Listing!Idle, Listing!Call, Listing!Absent, Listing!NoRanges, Entry
  <1>2. \A t \in Goroutines : s5[t] = Listing!Idle
    BY DEF Listing!Init
  <1>3. Listing!Active = {}
    BY <1>1, <1>2 DEF Listing!Active
  <1>4. s5 \in [Goroutines -> Listing!Call]
    BY <1>1 DEF Listing!Init
  <1>5. \A k \in Listing!Keys : s3.ranges[k] = Listing!NotCached
    BY DEF Listing!Init, Listing!Absent, Listing!NoRanges
  <1>6. Listing!CallsCarry
    BY <1>1, <1>2, <1>4 DEF Listing!Init, Listing!CallsCarry, Listing!Carries,
       Listing!DirSteps, Listing!ListSteps
  <1>7. Listing!TypeOK
    BY <1>1, <1>2, <1>3, Numbers DEF Listing!Init, Listing!TypeOK, Entry, Listing!Call
  <1> QED
    BY <1>1, <1>3, <1>5, <1>6, <1>7, Numbers
       DEF Listing!Init, Listing!IInv, Listing!RangesCoverTheirTag, Listing!EntryHolds,
           Listing!AloneFindsItsOwn, Listing!CleanEntry

LEMMA ListingStep == ASSUME Listing!IInv, [Listing!Next]_(Listing!vars) PROVE Listing!IInv'
  <1>1. CASE UNCHANGED Listing!vars
    BY <1>1 DEF Listing!vars, Listing!IInv, Listing!RangesCoverTheirTag, Listing!TypeOK,
       Listing!CallsCarry, Listing!Carries, Listing!EntryHolds,
                Listing!AloneFindsItsOwn, Listing!FindsItsOwn, Listing!CleanEntry, Listing!Active, Listing!Cached
  <1>2. CASE Listing!Next
    BY <1>2, BeginStep, BeforeStep, PeekStep, AgeStep, CachedCTagStep, FetchCTagStep,
       CompareStep, RestampStep, FetchETagsStep, StoreETagsStep, RequestFailsStep,
       DropRangesStep, StoreAgainStep, LookStep, ReportStep, KeepRangeStep, LookDirStep,
       ReadDirStep, StampDirStep, KeepDirStep, PutStep, InvalidateStep, ReadBackStep,
       OtherClientStep, TTLStep DEF Listing!Next
  <1> QED
    BY <1>1, <1>2

LEMMA ListingShows == Listing!IInv => Listing!RangesCoverTheirTag /\ Listing!OnlyOverlapsGoStale
  BY DEF Listing!IInv, Listing!CleanEntry, Listing!OnlyOverlapsGoStale

-----------------------------------------------------------------------------
LessThan == {ss \in Nat \X Nat : ss[1] < ss[2]}

LEMMA NatInductive ==
    ASSUME NEW P, 0 \in P, \A i \in Nat : i \in P => i + 1 \in P
    PROVE  Nat \subseteq P
  <1> SUFFICES ASSUME Nat \ P # {} PROVE FALSE
    OBVIOUS
  <1>1. IsWellFoundedOn(LessThan, Nat)
    BY NatLessThanWellFounded DEF OpToRel, LessThan
  <1>2. PICK x \in Nat \ P : \A y \in Nat \ P : ~ (<<y, x>> \in LessThan)
    <2>1. Nat \ P \subseteq Nat
      OBVIOUS
    <2> QED
      BY <1>1, <2>1, WFMin
  <1>3. x # 0 /\ x - 1 \in Nat
    OBVIOUS
  <1>4. <<x - 1, x>> \in Nat \X Nat /\ <<x - 1, x>>[1] < <<x - 1, x>>[2]
    BY <1>3
  <1>5. x - 1 \in P
    BY <1>2, <1>3, <1>4 DEF LessThan
  <1> QED
    BY <1>3, <1>5

(* A set of numbers up to n has a largest. *)
LEMMA Largest ==
    ASSUME NEW n \in Nat, NEW S \in SUBSET (1 .. n)
    PROVE  \E m \in S \cup {0} : \A i \in S : i <= m
  <1> DEFINE P == {m \in Nat : \E k \in S \cup {0} : \A i \in S : i <= m => i <= k}
  <1>1. 0 \in P
    OBVIOUS
  <1>2. ASSUME NEW m \in Nat, m \in P PROVE m + 1 \in P
    <2>1. PICK k \in S \cup {0} : \A i \in S : i <= m => i <= k
      BY <1>2
    <2>2. CASE m + 1 \in S
      BY <2>2
    <2>3. CASE m + 1 \notin S
      BY <2>1, <2>3
    <2> QED
      BY <2>2, <2>3
  <1> HIDE DEF P
  <1>3. n \in P
    BY <1>1, <1>2, NatInductive
  <1>4. \A i \in S : i <= n
    OBVIOUS
  <1> QED
    BY <1>3, <1>4 DEF P

-----------------------------------------------------------------------------
(* Sums. *)
LEMMA CacheCounts == \A S : Cache!Cardinality(S) = Cardinality(S)
  BY DEF Cache!Cardinality, Cardinality


(* The pairs of one element. *)
LEMMA Row ==
    ASSUME NEW x, NEW n \in Nat
    PROVE  IsFiniteSet({x} \X (1 .. n)) /\ Cardinality({x} \X (1 .. n)) = n
  <1>1. IsFiniteSet({x}) /\ Cardinality({x}) = 1
    BY FS_Singleton
  <1>2. IsFiniteSet(1 .. n) /\ Cardinality(1 .. n) = n
    <2>1. IsFiniteSet(1 .. n) /\ Cardinality(1 .. n) = IF 1 > n THEN 0 ELSE n - 1 + 1
      BY FS_Interval
    <2> QED
      BY <2>1
  <1>3. /\ IsFiniteSet({x} \X (1 .. n))
        /\ Cardinality({x} \X (1 .. n)) = Cardinality({x}) * Cardinality(1 .. n)
    BY <1>1, <1>2, FS_Product
  <1> QED
    BY <1>1, <1>2, <1>3

LEMMA Summed ==
    ASSUME NEW S, IsFiniteSet(S), NEW f, \A x \in S : f[x] \in Nat
    PROVE  IsFiniteSet(Cache!Units(f, S)) /\ Cache!Total(f, S) \in Nat
  <1> DEFINE R == {{x} \X (1 .. f[x]) : x \in S}
             g == [x \in S |-> {x} \X (1 .. f[x])]
  <1>1. g \in Surjection(S, R)
    BY DEF Surjection
  <1>2. IsFiniteSet(R)
    BY <1>1, FS_Surjection
  <1>3. ASSUME NEW r \in R PROVE IsFiniteSet(r)
    <2>1. PICK x \in S : r = {x} \X (1 .. f[x])
      OBVIOUS
    <2>2. f[x] \in Nat
      OBVIOUS
    <2> QED
      BY <2>1, <2>2, Row
  <1>4. IsFiniteSet(UNION R)
    BY <1>2, <1>3, FS_UNION
  <1> QED
    BY <1>4, FS_CardinalityType, CacheCounts DEF Cache!Units, Cache!Total

(* A sum over a set is the sum over a part of it and the sum over the rest. *)
LEMMA Split ==
    ASSUME NEW S, IsFiniteSet(S), NEW f, \A x \in S : f[x] \in Nat, NEW K \in SUBSET S
    PROVE  /\ Cache!Total(f, S) = Cache!Total(f, K) + Cache!Total(f, S \ K)
           /\ Cache!Total(f, K) \in Nat /\ Cache!Total(f, S \ K) \in Nat
  <1>1. IsFiniteSet(K) /\ IsFiniteSet(S \ K)
    BY FS_Subset
  <1>2. /\ IsFiniteSet(Cache!Units(f, K)) /\ Cache!Total(f, K) \in Nat
        /\ IsFiniteSet(Cache!Units(f, S \ K)) /\ Cache!Total(f, S \ K) \in Nat
    <2>1. IsFiniteSet(Cache!Units(f, K)) /\ Cache!Total(f, K) \in Nat
      BY <1>1, Summed
    <2>2. IsFiniteSet(Cache!Units(f, S \ K)) /\ Cache!Total(f, S \ K) \in Nat
      BY <1>1, Summed
    <2> QED
      BY <2>1, <2>2
  <1>3. Cache!Units(f, K) \cup Cache!Units(f, S \ K) = Cache!Units(f, S)
    BY DEF Cache!Units
  <1>4. Cache!Units(f, K) \cap Cache!Units(f, S \ K) = {}
    BY DEF Cache!Units
  <1>5. Cardinality(Cache!Units(f, S)) =
           Cardinality(Cache!Units(f, K)) + Cardinality(Cache!Units(f, S \ K)) - Cardinality({})
    BY <1>2, <1>3, <1>4, FS_Union
  <1>6. Cardinality({}) = 0
    BY FS_EmptySet
  <1> QED
    BY <1>2, <1>5, <1>6, CacheCounts DEF Cache!Total

LEMMA SameTotal ==
    ASSUME NEW S, NEW f, NEW g, \A x \in S : f[x] = g[x]
    PROVE  Cache!Total(f, S) = Cache!Total(g, S)
  <1>1. Cache!Units(f, S) = Cache!Units(g, S)
    BY DEF Cache!Units
  <1> QED
    BY <1>1, CacheCounts DEF Cache!Total

LEMMA OneTotal ==
    ASSUME NEW f, NEW x, f[x] \in Nat
    PROVE  Cache!Total(f, {x}) = f[x]
  <1>1. Cache!Units(f, {x}) = {x} \X (1 .. f[x])
    BY DEF Cache!Units
  <1> QED
    BY <1>1, Row, CacheCounts DEF Cache!Total

LEMMA NoTotal == ASSUME NEW f PROVE Cache!Total(f, {}) = 0
  <1>1. Cache!Units(f, {}) = {}
    BY DEF Cache!Units
  <1> QED
    BY <1>1, FS_EmptySet, CacheCounts DEF Cache!Total

LEMMA ZeroTotal ==
    ASSUME NEW S, NEW f, \A x \in S : f[x] = 0
    PROVE  Cache!Total(f, S) = 0
  <1>1. 1 .. 0 = {}
    OBVIOUS
  <1>2. Cache!Units(f, S) = {}
    BY <1>1 DEF Cache!Units
  <1> QED
    BY <1>2, FS_EmptySet, CacheCounts DEF Cache!Total

(* One element of a sum changes. *)
LEMMA Updated ==
    ASSUME NEW S, IsFiniteSet(S), NEW f, \A x \in S : f[x] \in Nat, NEW c \in S,
           NEW g, g[c] \in Nat, \A x \in S \ {c} : g[x] = f[x]
    PROVE  /\ Cache!Total(g, S) + f[c] = Cache!Total(f, S) + g[c]
           /\ Cache!Total(g, S) \in Nat /\ Cache!Total(f, S) \in Nat
  <1>1. {c} \in SUBSET S /\ \A x \in S : g[x] \in Nat
    OBVIOUS
  <1>2. /\ Cache!Total(f, S) = Cache!Total(f, {c}) + Cache!Total(f, S \ {c})
        /\ Cache!Total(f, S \ {c}) \in Nat
    BY <1>1, Split
  <1>3. Cache!Total(g, S) = Cache!Total(g, {c}) + Cache!Total(g, S \ {c})
    BY <1>1, Split
  <1>4. Cache!Total(f, {c}) = f[c] /\ Cache!Total(g, {c}) = g[c]
    BY OneTotal
  <1>5. Cache!Total(g, S \ {c}) = Cache!Total(f, S \ {c})
    BY SameTotal
  <1>6. f[c] \in Nat
    OBVIOUS
  <1> QED
    BY <1>2, <1>3, <1>4, <1>5, <1>6

-----------------------------------------------------------------------------
(* Sizes of entries. *)
Weight(A) == Cache!Total([e \in A |-> e.size], A)
Sized(A) == IsFiniteSet(A) /\ \A e \in A : e.size \in Nat

LEMMA WeightSplit ==
    ASSUME NEW A, Sized(A), NEW B \in SUBSET A
    PROVE  /\ Sized(B) /\ Sized(A \ B)
           /\ Weight(A) = Weight(B) + Weight(A \ B)
           /\ Weight(B) \in Nat /\ Weight(A \ B) \in Nat
  <1> DEFINE f == [e \in A |-> e.size]
             g == [e \in B |-> e.size]
             h == [e \in A \ B |-> e.size]
  <1>1. Sized(B) /\ Sized(A \ B)
    BY FS_Subset DEF Sized
  <1>2. \A x \in A : f[x] \in Nat
    BY DEF Sized
  <1>3. (\A x \in B : f[x] = g[x]) /\ \A x \in A \ B : f[x] = h[x]
    OBVIOUS
  <1> HIDE DEF f, g, h
  <1>4. Cache!Total(f, A) = Cache!Total(f, B) + Cache!Total(f, A \ B) /\ Cache!Total(f, B) \in Nat
        /\ Cache!Total(f, A \ B) \in Nat
    BY <1>2, Split DEF Sized
  <1>5. Cache!Total(f, B) = Cache!Total(g, B)
    BY <1>3, SameTotal
  <1>6. Cache!Total(f, A \ B) = Cache!Total(h, A \ B)
    BY <1>3, SameTotal
  <1> QED
    BY <1>1, <1>4, <1>5, <1>6 DEF Weight, f, g, h

LEMMA WeightNat == ASSUME NEW A, Sized(A) PROVE Weight(A) \in Nat
  <1>1. A \in SUBSET A
    OBVIOUS
  <1> QED
    BY <1>1, WeightSplit

LEMMA WeightPart ==
    ASSUME NEW A, Sized(A), NEW B, B \subseteq A
    PROVE  Sized(B) /\ Weight(B) \in Nat /\ Weight(A) \in Nat /\ Weight(B) <= Weight(A)
  <1>1. /\ Sized(B) /\ Weight(A) = Weight(B) + Weight(A \ B)
        /\ Weight(B) \in Nat /\ Weight(A \ B) \in Nat
    BY WeightSplit
  <1> QED
    BY <1>1

LEMMA WeightNone == Weight({}) = 0
  BY NoTotal DEF Weight

LEMMA WeightOne == ASSUME NEW e, e.size \in Nat PROVE Weight({e}) = e.size
  <1>1. [x \in {e} |-> x.size][e] = e.size
    OBVIOUS
  <1> QED
    BY <1>1, OneTotal DEF Weight

LEMMA WeightAdd ==
    ASSUME NEW A, Sized(A), NEW e, e.size \in Nat, e \notin A
    PROVE  Sized(A \cup {e}) /\ Weight(A \cup {e}) = Weight(A) + e.size
  <1>1. Sized(A \cup {e})
    BY FS_AddElement DEF Sized
  <1>2. {e} \in SUBSET (A \cup {e}) /\ (A \cup {e}) \ {e} = A
    OBVIOUS
  <1>3. Weight(A \cup {e}) = Weight({e}) + Weight(A)
    BY <1>1, <1>2, WeightSplit
  <1> QED
    BY <1>1, <1>3, WeightOne, WeightNat
-----------------------------------------------------------------------------
(* Lists of different entries. *)

LEMMA Appended ==
    ASSUME NEW T, NEW s \in Seq(T), NEW t \in T, Cache!IsInjective(s),
           t \notin Cache!ToSet(s)
    PROVE  /\ Append(s, t) \in Seq(T)
           /\ Len(Append(s, t)) = Len(s) + 1
           /\ Cache!ToSet(Append(s, t)) = Cache!ToSet(s) \cup {t}
           /\ Cache!IsInjective(Append(s, t))
  <1> DEFINE u == Append(s, t)
  <1>1. /\ u \in Seq(T) /\ Len(u) = Len(s) + 1
        /\ \A i \in 1 .. Len(s) : u[i] = s[i]
        /\ u[Len(s) + 1] = t
    BY AppendProperties
  <1>2. DOMAIN s = 1 .. Len(s) /\ DOMAIN u = 1 .. Len(s) + 1 /\ Len(s) \in Nat
    BY <1>1
  <1> HIDE DEF u
  <1>3. Cache!ToSet(u) = Cache!ToSet(s) \cup {t}
    BY <1>1, <1>2 DEF Cache!ToSet
  <1>4. ASSUME NEW i \in DOMAIN u, NEW j \in DOMAIN u, u[i] = u[j] PROVE i = j
    BY <1>1, <1>2, <1>4 DEF Cache!ToSet, Cache!IsInjective
  <1>5. Cache!IsInjective(u)
    BY <1>4 DEF Cache!IsInjective
  <1> QED
    BY <1>1, <1>3, <1>5 DEF u

LEMMA Filtered ==
    ASSUME NEW T, NEW seq \in Seq(T), NEW ts, Cache!IsInjective(seq)
    PROVE  /\ Cache!Within(seq, ts) \in Seq(T)
           /\ Cache!IsInjective(Cache!Within(seq, ts))
           /\ Cache!ToSet(Cache!Within(seq, ts)) = Cache!ToSet(seq) \cap ts
           /\ Len(Cache!Within(seq, ts)) <= Len(seq)
  <1> DEFINE n == Len(seq)
             Step(w, i) == IF seq[i] \in ts THEN Append(w, seq[i]) ELSE w
             Unlinking(h, m) == h = [i \in 0 .. m |-> IF i = 0 THEN <<>>
                                                    ELSE Step(h[i - 1], i)]
             kept == CHOOSE h : Unlinking(h, n)
  <1>1. n \in Nat /\ DOMAIN seq = 1 .. n /\ \A i \in 1 .. n : seq[i] \in T
    OBVIOUS
  <1>2. \E h : Unlinking(h, n)
    <2> DEFINE P == {m \in Nat : \E h : Unlinking(h, m)}
    <2>1. 0 \in P
      <3>1. Unlinking([i \in 0 .. 0 |-> <<>>], 0)
        OBVIOUS
      <3> QED
        BY <3>1
    <2>2. ASSUME NEW m \in Nat, m \in P PROVE m + 1 \in P
      <3>1. PICK h : Unlinking(h, m)
        BY <2>2
      <3> DEFINE g == [i \in 0 .. m + 1 |-> IF i = m + 1 THEN Step(h[m], m + 1) ELSE h[i]]
      <3>2. \A i \in 0 .. m + 1 : g[i] = IF i = m + 1 THEN Step(h[m], m + 1) ELSE h[i]
        OBVIOUS
      <3>3. DOMAIN g = 0 .. m + 1 /\ g = [i \in 0 .. m + 1 |-> g[i]]
        OBVIOUS
      <3> HIDE DEF Step, g
      <3>4. \A i \in 0 .. m : h[i] = IF i = 0 THEN <<>> ELSE Step(h[i - 1], i)
        BY <3>1
      <3>5. ASSUME NEW i \in 0 .. m + 1
            PROVE  g[i] = IF i = 0 THEN <<>> ELSE Step(g[i - 1], i)
        <4>1. CASE i = m + 1
          <5>1. i # 0 /\ i - 1 = m /\ i - 1 # m + 1 /\ i - 1 \in 0 .. m + 1
            BY <4>1
          <5> QED
            BY <3>2, <4>1, <5>1
        <4>2. CASE i \in 0 .. m
          <5>1. i # m + 1 /\ (i # 0 => i - 1 \in 0 .. m + 1 /\ i - 1 # m + 1)
            BY <4>2
          <5> QED
            BY <3>2, <3>4, <4>2, <5>1
        <4> QED
          BY <4>1, <4>2
      <3>6. Unlinking(g, m + 1)
        BY <3>3, <3>5
      <3> QED
        BY <3>6
    <2> HIDE DEF P
    <2>3. n \in P
      BY <2>1, <2>2, <1>1, NatInductive
    <2> QED
      BY <2>3 DEF P
  <1>3. Unlinking(kept, n)
    BY <1>2
  <1>4. Cache!Within(seq, ts) = kept[n]
    BY DEF Cache!Within
  <1> HIDE DEF kept
  <1>5. kept[0] = <<>> /\ \A i \in 0 .. n - 1 : kept[i + 1] = Step(kept[i], i + 1)
    <2> HIDE DEF Step
    <2> QED
      BY <1>1, <1>3
  <1> DEFINE Sound(i) == /\ kept[i] \in Seq(T) /\ Cache!IsInjective(kept[i])
                        /\ Cache!ToSet(kept[i]) = {seq[j] : j \in 1 .. i} \cap ts
                        /\ Len(kept[i]) <= i
             Q == {i \in Nat : i <= n => Sound(i)}
  <1>6. 0 \in Q
    <2>1. <<>> \in Seq(T) /\ Len(<<>>) = 0 /\ DOMAIN <<>> = {}
      OBVIOUS
    <2>2. Cache!ToSet(<<>>) = {} /\ Cache!IsInjective(<<>>)
      BY <2>1 DEF Cache!ToSet, Cache!IsInjective
    <2>3. {seq[j] : j \in 1 .. 0} = {}
      OBVIOUS
    <2>4. kept[0] = <<>>
      BY <1>5
    <2>5. Sound(0)
      BY <2>1, <2>2, <2>3, <2>4
    <2> HIDE DEF Sound
    <2> QED
      BY <2>5
  <1>7. ASSUME NEW i \in Nat, i \in Q PROVE i + 1 \in Q
    <2> SUFFICES ASSUME i + 1 <= n PROVE Sound(i + 1)
      OBVIOUS
    <2>1. Sound(i) /\ kept[i + 1] = Step(kept[i], i + 1) /\ seq[i + 1] \in T
      BY <1>1, <1>5, <1>7
    <2>2. {seq[j] : j \in 1 .. i + 1} = {seq[j] : j \in 1 .. i} \cup {seq[i + 1]}
      OBVIOUS
    <2>3. CASE seq[i + 1] \notin ts
      BY <2>1, <2>2, <2>3
    <2>4. CASE seq[i + 1] \in ts
      <3>1. seq[i + 1] \notin {seq[j] : j \in 1 .. i}
        BY <1>1 DEF Cache!IsInjective
      <3>2. kept[i + 1] = Append(kept[i], seq[i + 1])
        BY <2>1, <2>4
      <3>3. Len(kept[i]) \in Nat
        BY <2>1
      <3> QED
        BY <2>1, <2>2, <2>4, <3>1, <3>2, <3>3, Appended
    <2> QED
      BY <2>3, <2>4
  <1> HIDE DEF Q
  <1>8. n \in Q
    BY <1>1, <1>6, <1>7, NatInductive
  <1>9. Sound(n)
    BY <1>1, <1>8 DEF Q
  <1>10. Cache!ToSet(seq) = {seq[j] : j \in 1 .. n}
    BY <1>1 DEF Cache!ToSet
  <1> QED
    BY <1>4, <1>9, <1>10


LEMMA Counts ==
    ASSUME NEW T, NEW seq \in Seq(T), Cache!IsInjective(seq)
    PROVE  IsFiniteSet(Cache!ToSet(seq)) /\ Cardinality(Cache!ToSet(seq)) = Len(seq)
  <1>1. Len(seq) \in Nat /\ DOMAIN seq = 1 .. Len(seq)
    OBVIOUS
  <1>2. seq \in Bijection(1 .. Len(seq), Cache!ToSet(seq))
    <2>1. seq \in [1 .. Len(seq) -> Cache!ToSet(seq)]
      BY <1>1 DEF Cache!ToSet
    <2>2. \A a, b \in 1 .. Len(seq) : seq[a] = seq[b] => a = b
      BY <1>1 DEF Cache!IsInjective
    <2>3. \A x \in Cache!ToSet(seq) : \E a \in 1 .. Len(seq) : seq[a] = x
      BY <1>1 DEF Cache!ToSet
    <2> QED
      BY <2>1, <2>2, <2>3 DEF Bijection, Injection, Surjection, IsInjective
  <1>3. ExistsBijection(1 .. Len(seq), Cache!ToSet(seq))
    BY <1>2 DEF ExistsBijection
  <1>4. IsFiniteSet(Cache!ToSet(seq))
    BY <1>1, <1>3, FS_NatBijection
  <1> QED
    BY <1>1, <1>3, <1>4, FS_CountingElements

(* Lists of the same entries are equally long. *)
LEMMA SameLength ==
    ASSUME NEW T, NEW s \in Seq(T), NEW u \in Seq(T), Cache!IsInjective(s),
           Cache!IsInjective(u),
           Cache!ToSet(s) \subseteq Cache!ToSet(u)
    PROVE  Len(s) <= Len(u)
  <1>1. /\ IsFiniteSet(Cache!ToSet(u)) /\ Cardinality(Cache!ToSet(u)) = Len(u)
        /\ Cardinality(Cache!ToSet(s)) = Len(s)
    BY Counts
  <1>2. Cardinality(Cache!ToSet(s)) <= Cardinality(Cache!ToSet(u))
    BY <1>1, FS_Subset
  <1> QED
    BY <1>1, <1>2

LEMMA Prefixed ==
    ASSUME NEW T, NEW s \in Seq(T), Cache!IsInjective(s), NEW x \in T,
           x \notin Cache!ToSet(s)
    PROVE  /\ <<x>> \o s \in Seq(T) /\ Cache!IsInjective(<<x>> \o s)
           /\ Cache!ToSet(<<x>> \o s) = Cache!ToSet(s) \cup {x}
  <1> DEFINE u == <<x>> \o s
  <1>1. /\ u \in Seq(T) /\ Len(u) = Len(s) + 1 /\ u[1] = x
        /\ \A i \in 2 .. Len(s) + 1 : u[i] = s[i - 1]
        /\ Len(s) \in Nat /\ DOMAIN s = 1 .. Len(s) /\ DOMAIN u = 1 .. Len(s) + 1
    <2>1. <<x>> \in Seq(T) /\ Len(<<x>>) = 1 /\ <<x>>[1] = x
      OBVIOUS
    <2> QED
      BY <2>1
  <1> HIDE DEF u
  <1>2. Cache!ToSet(u) = Cache!ToSet(s) \cup {x}
    <2>1. ASSUME NEW y \in Cache!ToSet(s) PROVE y \in Cache!ToSet(u)
      <3>1. PICK i \in 1 .. Len(s) : y = s[i]
        BY <1>1 DEF Cache!ToSet
      <3>2. i + 1 \in 2 .. Len(s) + 1 /\ i + 1 \in DOMAIN u /\ (i + 1) - 1 = i
        BY <1>1
      <3>3. u[i + 1] = s[i]
        BY <1>1, <3>2
      <3> QED
        BY <3>1, <3>2, <3>3 DEF Cache!ToSet
    <2>2. x \in Cache!ToSet(u)
      BY <1>1 DEF Cache!ToSet
    <2>3. ASSUME NEW y \in Cache!ToSet(u) PROVE y \in Cache!ToSet(s) \cup {x}
      <3>1. PICK i \in 1 .. Len(s) + 1 : y = u[i]
        BY <1>1 DEF Cache!ToSet
      <3>2. i = 1 \/ (i \in 2 .. Len(s) + 1 /\ i - 1 \in 1 .. Len(s))
        BY <1>1
      <3> QED
        BY <1>1, <3>1, <3>2 DEF Cache!ToSet
    <2> QED
      BY <2>1, <2>2, <2>3
  <1>3. ASSUME NEW i \in DOMAIN u, NEW j \in DOMAIN u, u[i] = u[j] PROVE i = j
    <2>1. /\ i = 1 \/ (i \in 2 .. Len(s) + 1 /\ i - 1 \in 1 .. Len(s))
          /\ j = 1 \/ (j \in 2 .. Len(s) + 1 /\ j - 1 \in 1 .. Len(s))
          /\ i \in Int /\ j \in Int
      BY <1>1
    <2>2. (i # 1 => u[i] = s[i - 1] /\ u[i] # x) /\ (j # 1 => u[j] = s[j - 1] /\ u[j] # x)
      BY <1>1, <2>1 DEF Cache!ToSet
    <2>3. (i # 1 /\ j # 1) => i - 1 = j - 1
      BY <1>1, <1>3, <2>1, <2>2 DEF Cache!IsInjective
    <2> QED
      BY <1>1, <1>3, <2>1, <2>2, <2>3
  <1>4. Cache!IsInjective(u)
    BY <1>3 DEF Cache!IsInjective
  <1> QED
    BY <1>1, <1>2, <1>4 DEF u

LEMMA Fronted ==
    ASSUME NEW T, NEW s \in Seq(T), Cache!IsInjective(s), NEW x \in T
    PROVE  /\ Cache!ToFront(s, x) \in Seq(T) /\ Cache!IsInjective(Cache!ToFront(s, x))
           /\ Cache!ToSet(Cache!ToFront(s, x)) = Cache!ToSet(s) \cup {x}
           /\ x \in Cache!ToSet(s) => Len(Cache!ToFront(s, x)) <= Len(s)
  <1> DEFINE w == Cache!Within(s, Cache!ToSet(s) \ {x})
  <1>1. /\ w \in Seq(T)
        /\ Cache!IsInjective(w)
        /\ Cache!ToSet(w) = Cache!ToSet(s) \cap (Cache!ToSet(s) \ {x})
    BY Filtered
  <1> HIDE DEF w
  <1>2. x \notin Cache!ToSet(w) /\ Cache!ToSet(w) \cup {x} = Cache!ToSet(s) \cup {x}
    BY <1>1
  <1>3. /\ Cache!ToFront(s, x) \in Seq(T) /\ Cache!IsInjective(Cache!ToFront(s, x))
        /\ Cache!ToSet(Cache!ToFront(s, x)) = Cache!ToSet(s) \cup {x}
    <2>1. /\ <<x>> \o w \in Seq(T) /\ Cache!IsInjective(<<x>> \o w)
          /\ Cache!ToSet(<<x>> \o w) = Cache!ToSet(w) \cup {x}
      BY <1>1, <1>2, Prefixed
    <2>2. Cache!ToFront(s, x) = <<x>> \o w
      BY DEF Cache!ToFront, w
    <2> QED
      BY <1>2, <2>1, <2>2
  <1>4. x \in Cache!ToSet(s) => Len(Cache!ToFront(s, x)) <= Len(s)
    BY <1>3, SameLength
  <1> QED
    BY <1>3, <1>4

(* The first entries of a list. *)
LEMMA FirstOf ==
    ASSUME NEW T, NEW s \in Seq(T), Cache!IsInjective(s), NEW n \in 0 .. Len(s)
    PROVE  /\ SubSeq(s, 1, n) \in Seq(T) /\ Cache!IsInjective(SubSeq(s, 1, n))
           /\ Len(SubSeq(s, 1, n)) = n
           /\ Cache!ToSet(SubSeq(s, 1, n)) = {s[i] : i \in 1 .. n}
           /\ Cache!ToSet(SubSeq(s, 1, n)) \subseteq Cache!ToSet(s)
  <1> DEFINE u == SubSeq(s, 1, n)
  <1>1. /\ Len(s) \in Nat /\ DOMAIN s = 1 .. Len(s)
        /\ \A i \in 1 .. n : i \in 1 .. Len(s)
    OBVIOUS
  <1>2. u \in Seq(T) /\ Len(u) = n /\ DOMAIN u = 1 .. n /\ \A i \in 1 .. n : u[i] = s[i]
    <2>1. \A i \in 1 .. n : s[i] \in T
      BY <1>1
    <2> QED
      BY <2>1, SubSeqProperties
  <1> HIDE DEF u
  <1>3. Cache!ToSet(u) = {s[i] : i \in 1 .. n} /\ Cache!ToSet(u) \subseteq Cache!ToSet(s)
    BY <1>1, <1>2 DEF Cache!ToSet
  <1>4. Cache!IsInjective(u)
    BY <1>1, <1>2 DEF Cache!IsInjective
  <1> QED
    BY <1>2, <1>3, <1>4 DEF u

LEMMA KeptList ==
    ASSUME NEW T, NEW s \in Seq(T), Cache!IsInjective(s), NEW fits \in SUBSET (1 .. Len(s))
    PROVE  \E n \in fits \cup {0} : /\ n \in 0 .. Len(s)
                                     /\ Cache!Keep(s, fits) = SubSeq(s, 1, n)
  <1>1. Len(s) \in Nat
    OBVIOUS
  <1>2. \E m \in fits \cup {0} : \A i \in fits : i <= m
    BY <1>1, Largest
  <1> DEFINE n == CHOOSE m \in fits \cup {0} : \A i \in fits : i <= m
  <1>3. n \in fits \cup {0}
    BY <1>2
  <1>4. Cache!Keep(s, fits) = SubSeq(s, 1, n)
    BY DEF Cache!Keep
  <1> HIDE DEF n
  <1> QED
    BY <1>1, <1>3, <1>4

LEMMA WithoutLast ==
    ASSUME NEW T, NEW s \in Seq(T), Cache!IsInjective(s), s # <<>>
    PROVE  /\ Cache!Front(s) \in Seq(T) /\ Cache!IsInjective(Cache!Front(s))
           /\ Cache!Last(s) \in Cache!ToSet(s)
           /\ Cache!ToSet(Cache!Front(s)) = Cache!ToSet(s) \ {Cache!Last(s)}
  <1> DEFINE n == Len(s) - 1
  <1>1. Len(s) \in Nat \ {0} /\ DOMAIN s = 1 .. Len(s) /\ n \in 0 .. Len(s) /\ n \in Nat
    OBVIOUS
  <1>2. Cache!Front(s) = SubSeq(s, 1, n) /\ Cache!Last(s) = s[n + 1] /\ n + 1 = Len(s)
    BY <1>1 DEF Cache!Front, Cache!Last
  <1> HIDE DEF n
  <1>3. /\ Cache!Front(s) \in Seq(T) /\ Cache!IsInjective(Cache!Front(s))
        /\ Cache!ToSet(Cache!Front(s)) = {s[i] : i \in 1 .. n}
    BY <1>1, <1>2, FirstOf
  <1>4. n + 1 \in 1 .. Len(s)
    BY <1>1, <1>2
  <1>5. Cache!Last(s) \in Cache!ToSet(s)
    BY <1>1, <1>2, <1>4 DEF Cache!ToSet
  <1>6. \A i \in 1 .. n : i \in DOMAIN s /\ i # n + 1
    BY <1>1, <1>2
  <1>7. \A i \in DOMAIN s : i \in 1 .. n \/ i = n + 1
    BY <1>1, <1>2
  <1>8. Cache!ToSet(s) = {s[i] : i \in DOMAIN s}
    BY DEF Cache!ToSet
  <1>9. \A i \in 1 .. n : s[i] # s[n + 1]
    BY <1>1, <1>4, <1>6 DEF Cache!IsInjective
  <1> QED
    BY <1>2, <1>3, <1>5, <1>6, <1>7, <1>8, <1>9
-----------------------------------------------------------------------------
(* One cache. *)
Sound(h) ==
    /\ h \in Cache!Held /\ Cache!Counted(h)
    /\ Cache!IsInjective(h.order)
    /\ Cache!IsInjective(h.bodies)
    /\ Cache!IsInjective(h.thumbs)
    /\ \A b \in Cache!ToSet(h.bodies) : b.col \in Cache!ToSet(h.order)
    /\ \A k \in Collections : h.etags[k] > 0 => k \in Cache!ToSet(h.order)

Fits(h) ==
    /\ h.bodyBytes <= MaxBodyBytes /\ h.thumbBytes <= MaxThumbBytes
    /\ Len(h.order) <= MaxCollections /\ h.etagCount <= MaxETagEntries

LEMMA Entries ==
    ASSUME NEW h \in Cache!Held, Cache!IsInjective(h.bodies), Cache!IsInjective(h.thumbs)
    PROVE  /\ Sized(Cache!ToSet(h.bodies)) /\ Cache!ToSet(h.bodies) \subseteq Cache!Body
           /\ Sized(Cache!ToSet(h.thumbs)) /\ Cache!ToSet(h.thumbs) \subseteq Cache!Thumb
  <1>1. h.bodies \in Seq(Cache!Body) /\ h.thumbs \in Seq(Cache!Thumb)
    BY DEF Cache!Held
  <1>2. IsFiniteSet(Cache!ToSet(h.bodies)) /\ IsFiniteSet(Cache!ToSet(h.thumbs))
    BY <1>1, Counts
  <1>3. /\ Cache!ToSet(h.bodies) \subseteq Cache!Body
        /\ Cache!ToSet(h.thumbs) \subseteq Cache!Thumb
    BY <1>1 DEF Cache!ToSet
  <1>4. (\A b \in Cache!Body : b.size \in Nat) /\ \A e \in Cache!Thumb : e.size \in Nat
    BY CacheAssumption DEF Cache!Body, Cache!Thumb
  <1> QED
    BY <1>2, <1>3, <1>4 DEF Sized

(* Fewer entries weigh less. *)
LEMMA Lighter ==
    ASSUME NEW h, Sound(h), NEW g, Sound(g)
    PROVE  /\ Cache!ToSet(g.bodies) \subseteq Cache!ToSet(h.bodies) => g.bodyBytes <= h.bodyBytes
           /\ Cache!ToSet(g.thumbs) \subseteq Cache!ToSet(h.thumbs) => g.thumbBytes <= h.thumbBytes
  <1>1. Sized(Cache!ToSet(h.bodies)) /\ Sized(Cache!ToSet(h.thumbs))
    BY Entries DEF Sound
  <1>2. /\ h.bodyBytes = Weight(Cache!ToSet(h.bodies))
        /\ g.bodyBytes = Weight(Cache!ToSet(g.bodies))
        /\ h.thumbBytes = Weight(Cache!ToSet(h.thumbs))
        /\ g.thumbBytes = Weight(Cache!ToSet(g.thumbs))
    BY DEF Sound, Cache!Counted, Cache!SizeOf, Weight
  <1> QED
    BY <1>1, <1>2, WeightPart

(* To cut a list of entries to some of them takes their sizes off. *)
LEMMA BodiesCut ==
    ASSUME NEW h, Sound(h), NEW w \in Seq(Cache!Body), Cache!IsInjective(w),
           Cache!ToSet(w) \subseteq Cache!ToSet(h.bodies)
    PROVE  Sound([h EXCEPT !.bodies = w,
                           !.bodyBytes = h.bodyBytes - (Cache!SizeOf(h.bodies) - Cache!SizeOf(w))])
  <1>1. h \in Cache!Held /\ Cache!Counted(h) /\ h.bodyBytes \in Nat
    BY DEF Sound, Cache!Held
  <1>2. Sized(Cache!ToSet(h.bodies))
    BY <1>1, Entries DEF Sound
  <1>3. /\ Cache!SizeOf(h.bodies) = Weight(Cache!ToSet(h.bodies))
        /\ Cache!SizeOf(w) = Weight(Cache!ToSet(w))
    BY DEF Cache!SizeOf, Weight
  <1>4. Cache!SizeOf(w) \in Nat /\ Cache!SizeOf(h.bodies) \in Nat
    BY <1>2, <1>3, WeightPart
  <1>5. h.bodyBytes = Cache!SizeOf(h.bodies)
    BY <1>1 DEF Cache!Counted
  <1>6. h.bodyBytes - (Cache!SizeOf(h.bodies) - Cache!SizeOf(w)) = Cache!SizeOf(w)
    BY <1>4, <1>5
  <1> DEFINE g == [h EXCEPT !.bodies = w, !.bodyBytes = Cache!SizeOf(w)]
  <1>7. /\ g.bodies = w /\ g.bodyBytes = Cache!SizeOf(w)
        /\ g.order = h.order /\ g.etags = h.etags /\ g.etagCount = h.etagCount
        /\ g.thumbs = h.thumbs /\ g.thumbBytes = h.thumbBytes
        /\ g \in Cache!Held
    BY <1>1, <1>4, <1>6 DEF Cache!Held
  <1> HIDE DEF g
  <1>8. Sound(g)
    BY <1>7 DEF Sound, Cache!Counted
  <1> QED
    BY <1>6, <1>8 DEF g

LEMMA ThumbsCut ==
    ASSUME NEW h, Sound(h), NEW w \in Seq(Cache!Thumb), Cache!IsInjective(w),
           Cache!ToSet(w) \subseteq Cache!ToSet(h.thumbs)
    PROVE  Sound([h EXCEPT !.thumbs = w,
                           !.thumbBytes = h.thumbBytes - (Cache!SizeOf(h.thumbs) - Cache!SizeOf(w))])
  <1>1. h \in Cache!Held /\ Cache!Counted(h) /\ h.thumbBytes \in Nat
    BY DEF Sound, Cache!Held
  <1>2. Sized(Cache!ToSet(h.thumbs))
    BY <1>1, Entries DEF Sound
  <1>3. /\ Cache!SizeOf(h.thumbs) = Weight(Cache!ToSet(h.thumbs))
        /\ Cache!SizeOf(w) = Weight(Cache!ToSet(w))
    BY DEF Cache!SizeOf, Weight
  <1>4. Cache!SizeOf(w) \in Nat /\ Cache!SizeOf(h.thumbs) \in Nat
    BY <1>2, <1>3, WeightPart
  <1>5. h.thumbBytes = Cache!SizeOf(h.thumbs)
    BY <1>1 DEF Cache!Counted
  <1>6. h.thumbBytes - (Cache!SizeOf(h.thumbs) - Cache!SizeOf(w)) = Cache!SizeOf(w)
    BY <1>4, <1>5
  <1> DEFINE g == [h EXCEPT !.thumbs = w, !.thumbBytes = Cache!SizeOf(w)]
  <1>7. /\ g.thumbs = w /\ g.thumbBytes = Cache!SizeOf(w)
        /\ g.order = h.order /\ g.etags = h.etags /\ g.etagCount = h.etagCount
        /\ g.bodies = h.bodies /\ g.bodyBytes = h.bodyBytes
        /\ g \in Cache!Held
    BY <1>1, <1>4, <1>6 DEF Cache!Held
  <1> HIDE DEF g
  <1>8. Sound(g)
    BY <1>7 DEF Sound, Cache!Counted
  <1> QED
    BY <1>6, <1>8 DEF g

(* Collections that go take their lengths and their bodies with them. *)
LEMMA CollectionsDropped ==
    ASSUME NEW h, Sound(h), NEW kept, NEW g, g = Cache!DropCollections(h, kept)
    PROVE  /\ Sound(g)
           /\ Cache!ToSet(g.order) = Cache!ToSet(h.order) \cap kept
           /\ Len(g.order) <= Len(h.order)
           /\ g.etagCount = h.etagCount - Cache!Total(h.etags, Collections \ kept)
           /\ g.etagCount <= h.etagCount /\ g.bodyBytes <= h.bodyBytes
           /\ g.thumbBytes = h.thumbBytes
  <1> DEFINE stays == Cache!Within(h.bodies, {b \in Cache!ToSet(h.bodies) : b.col \in kept})
             order == Cache!Within(h.order, kept)
             etags == [k \in Collections |-> IF k \in kept THEN h.etags[k] ELSE 0]
             left == Cache!Total(h.etags, Collections \ kept)
             K == Collections \cap kept
  <1>1. /\ h \in Cache!Held
        /\ h.order \in Seq(Collections)
        /\ h.bodies \in Seq(Cache!Body)
        /\ h.etags \in [Collections -> Nat]
        /\ h.etagCount = Cache!Total(h.etags, Collections)
        /\ Cache!IsInjective(h.order)
        /\ Cache!IsInjective(h.bodies)
        /\ Cache!IsInjective(h.thumbs)
    BY DEF Sound, Cache!Held, Cache!Counted
  <1>2. /\ stays \in Seq(Cache!Body) /\ Cache!IsInjective(stays)
        /\ Cache!ToSet(stays) = Cache!ToSet(h.bodies) \cap {b \in Cache!ToSet(h.bodies) : b.col \in kept}
    BY <1>1, Filtered
  <1>3. /\ order \in Seq(Collections) /\ Cache!IsInjective(order)
        /\ Cache!ToSet(order) = Cache!ToSet(h.order) \cap kept
        /\ Len(order) <= Len(h.order)
    BY <1>1, Filtered
  <1> DEFINE c == [h EXCEPT !.bodies = stays,
                            !.bodyBytes = h.bodyBytes - (Cache!SizeOf(h.bodies) - Cache!SizeOf(stays))]
  <1> HIDE DEF stays, order
  <1>4. /\ Sound(c) /\ c.bodies = stays /\ c.bodyBytes <= h.bodyBytes
        /\ c.thumbs = h.thumbs /\ c.thumbBytes = h.thumbBytes
    <2>1. Cache!ToSet(stays) \subseteq Cache!ToSet(h.bodies)
      BY <1>2
    <2>2. Sound(c)
      BY <1>2, <2>1, BodiesCut
    <2>3. c.bodies = stays /\ c.thumbs = h.thumbs /\ c.thumbBytes = h.thumbBytes
      BY <1>1 DEF Cache!Held
    <2>4. c.bodyBytes <= h.bodyBytes
      BY <2>1, <2>2, <2>3, Lighter
    <2> QED
      BY <2>2, <2>3, <2>4
  <1>5. g = [c EXCEPT !.order = order, !.etags = etags, !.etagCount = h.etagCount - left]
    BY <1>1 DEF Cache!DropCollections, Cache!Held, stays, order
  <1>6. etags \in [Collections -> Nat] /\ \A k \in Collections :
              etags[k] = IF k \in kept THEN h.etags[k] ELSE 0
    BY <1>1
  <1> HIDE DEF c, etags
  <1>7. /\ h.etagCount = Cache!Total(h.etags, K) + left /\ left \in Nat
        /\ Cache!Total(h.etags, K) \in Nat
    <2>1. K \in SUBSET Collections /\ Collections \ K = Collections \ kept
      OBVIOUS
    <2>2. \A k \in Collections : h.etags[k] \in Nat
      BY <1>1
    <2>3. /\ Cache!Total(h.etags, Collections) = Cache!Total(h.etags, K) + left
          /\ Cache!Total(h.etags, K) \in Nat /\ left \in Nat
      BY <2>1, <2>2, Split, CacheAssumption, SMTT(40)
    <2> QED
      BY <1>1, <2>3
  <1>8. Cache!Total(etags, Collections) = Cache!Total(h.etags, K)
    <2>1. K \in SUBSET Collections /\ Collections \ K = Collections \ kept
      OBVIOUS
    <2>2. \A k \in Collections : etags[k] \in Nat
      BY <1>6
    <2>3. Cache!Total(etags, Collections) = Cache!Total(etags, K) + Cache!Total(etags, Collections \ kept)
      BY <2>1, <2>2, Split, CacheAssumption, SMTT(40)
    <2>4. Cache!Total(etags, K) = Cache!Total(h.etags, K)
      BY <1>6, SameTotal
    <2>5. Cache!Total(etags, Collections \ kept) = 0
      BY <1>6, ZeroTotal
    <2> QED
      BY <1>7, <2>3, <2>4, <2>5
  <1>9. /\ h.etagCount - left = Cache!Total(etags, Collections)
        /\ h.etagCount - left \in Nat
        /\ h.etagCount - left <= h.etagCount
    BY <1>7, <1>8
  <1> HIDE DEF left
  <1>10. /\ g.order = order /\ g.etags = etags /\ g.etagCount = h.etagCount - left
         /\ g.bodies = c.bodies /\ g.bodyBytes = c.bodyBytes
         /\ g.thumbs = c.thumbs /\ g.thumbBytes = c.thumbBytes /\ g \in Cache!Held
    BY <1>3, <1>4, <1>5, <1>6, <1>9 DEF Sound, Cache!Held
  <1>11. \A b \in Cache!ToSet(g.bodies) : b.col \in Cache!ToSet(g.order)
    BY <1>2, <1>3, <1>4, <1>10 DEF Sound
  <1>12. \A k \in Collections : g.etags[k] > 0 => k \in Cache!ToSet(g.order)
    BY <1>3, <1>6, <1>10 DEF Sound
  <1>13. Cache!Counted(g)
    BY <1>4, <1>9, <1>10 DEF Sound, Cache!Counted
  <1>14. Sound(g)
    BY <1>3, <1>4, <1>10, <1>11, <1>12, <1>13 DEF Sound
  <1> QED
    BY <1>3, <1>4, <1>9, <1>10, <1>14 DEF left
(* Each loop of evictLocked stops under its ceiling, and leaves what the others did. *)
LEMMA BodiesEvicted ==
    ASSUME NEW h, Sound(h), NEW g, g = Cache!EvictBodies(h)
    PROVE  Sound(g) /\ g.bodyBytes <= MaxBodyBytes
  <1> DEFINE over == Cache!SizeOf(h.bodies) - h.bodyBytes
             fits == {n \in 1 .. Len(h.bodies) :
                         Cache!SizeOf(SubSeq(h.bodies, 1, n)) - over <= MaxBodyBytes}
             w == Cache!Keep(h.bodies, fits)
  <1>1. /\ h \in Cache!Held /\ h.bodies \in Seq(Cache!Body) /\ h.bodyBytes \in Nat
        /\ h.bodyBytes = Cache!SizeOf(h.bodies) /\ Cache!IsInjective(h.bodies)
    BY DEF Sound, Cache!Held, Cache!Counted
  <1>2. over = 0
    BY <1>1
  <1> HIDE DEF over
  <1>3. PICK n \in fits \cup {0} : n \in 0 .. Len(h.bodies) /\ w = SubSeq(h.bodies, 1, n)
    BY <1>1, KeptList
  <1> HIDE DEF w, fits
  <1>4. /\ w \in Seq(Cache!Body)
        /\ Cache!IsInjective(w)
        /\ Cache!ToSet(w) \subseteq Cache!ToSet(h.bodies)
        /\ Cache!ToSet(w) = {h.bodies[i] : i \in 1 .. n}
    <2>1. /\ SubSeq(h.bodies, 1, n) \in Seq(Cache!Body)
          /\ Cache!IsInjective(SubSeq(h.bodies, 1, n))
          /\ Cache!ToSet(SubSeq(h.bodies, 1, n)) \subseteq Cache!ToSet(h.bodies)
          /\ Cache!ToSet(SubSeq(h.bodies, 1, n)) = {h.bodies[i] : i \in 1 .. n}
      BY <1>1, <1>3, FirstOf
    <2> QED
      BY <1>3, <2>1
  <1>5. Cache!SizeOf(w) = Weight(Cache!ToSet(w)) /\ Weight(Cache!ToSet(w)) \in Nat
    BY <1>1, <1>4, Entries, WeightPart DEF Sound, Cache!SizeOf, Weight
  <1>6. Cache!SizeOf(w) <= MaxBodyBytes
    <2>1. CASE n = 0
      <3>1. Cache!ToSet(w) = {}
        BY <1>4, <2>1
      <3>2. Weight(Cache!ToSet(w)) = 0
        BY <3>1, WeightNone
      <3> QED
        BY <1>5, <3>2, CacheAssumption
    <2>2. CASE n # 0
      <3>1. Cache!SizeOf(w) - over <= MaxBodyBytes
        BY <1>3, <2>2 DEF fits
      <3> QED
        BY <1>2, <1>5, <3>1
    <2> QED
      BY <2>1, <2>2
  <1>7. g = [h EXCEPT !.bodies = w,
                      !.bodyBytes = h.bodyBytes - (Cache!SizeOf(h.bodies) - Cache!SizeOf(w))]
    BY DEF Cache!EvictBodies, over, w, fits
  <1>8. Sound(g)
    <2>1. Sound([h EXCEPT !.bodies = w,
                          !.bodyBytes = h.bodyBytes - (Cache!SizeOf(h.bodies) - Cache!SizeOf(w))])
      BY <1>4, BodiesCut
    <2> QED
      BY <1>7, <2>1
  <1>9. g.bodies = w
    BY <1>1, <1>7 DEF Cache!Held
  <1> QED
    BY <1>6, <1>8, <1>9 DEF Sound, Cache!Counted

LEMMA ThumbsEvicted ==
    ASSUME NEW h, Sound(h), NEW g, g = Cache!EvictThumbs(h)
    PROVE  Sound(g) /\ g.thumbBytes <= MaxThumbBytes /\ g.bodyBytes = h.bodyBytes
  <1> DEFINE over == Cache!SizeOf(h.thumbs) - h.thumbBytes
             fits == {n \in 1 .. Len(h.thumbs) :
                         /\ n <= MaxThumbEntries
                         /\ Cache!SizeOf(SubSeq(h.thumbs, 1, n)) - over <= MaxThumbBytes}
             w == Cache!Keep(h.thumbs, fits)
  <1>1. /\ h \in Cache!Held /\ h.thumbs \in Seq(Cache!Thumb) /\ h.thumbBytes \in Nat
        /\ h.thumbBytes = Cache!SizeOf(h.thumbs) /\ Cache!IsInjective(h.thumbs)
    BY DEF Sound, Cache!Held, Cache!Counted
  <1>2. over = 0
    BY <1>1
  <1> HIDE DEF over
  <1>3. PICK n \in fits \cup {0} : n \in 0 .. Len(h.thumbs) /\ w = SubSeq(h.thumbs, 1, n)
    BY <1>1, KeptList
  <1> HIDE DEF w, fits
  <1>4. /\ w \in Seq(Cache!Thumb)
        /\ Cache!IsInjective(w)
        /\ Cache!ToSet(w) \subseteq Cache!ToSet(h.thumbs)
        /\ Cache!ToSet(w) = {h.thumbs[i] : i \in 1 .. n}
    <2>1. /\ SubSeq(h.thumbs, 1, n) \in Seq(Cache!Thumb)
          /\ Cache!IsInjective(SubSeq(h.thumbs, 1, n))
          /\ Cache!ToSet(SubSeq(h.thumbs, 1, n)) \subseteq Cache!ToSet(h.thumbs)
          /\ Cache!ToSet(SubSeq(h.thumbs, 1, n)) = {h.thumbs[i] : i \in 1 .. n}
      BY <1>1, <1>3, FirstOf
    <2> QED
      BY <1>3, <2>1
  <1>5. Cache!SizeOf(w) = Weight(Cache!ToSet(w)) /\ Weight(Cache!ToSet(w)) \in Nat
    BY <1>1, <1>4, Entries, WeightPart DEF Sound, Cache!SizeOf, Weight
  <1>6. Cache!SizeOf(w) <= MaxThumbBytes
    <2>1. CASE n = 0
      <3>1. Cache!ToSet(w) = {}
        BY <1>4, <2>1
      <3>2. Weight(Cache!ToSet(w)) = 0
        BY <3>1, WeightNone
      <3> QED
        BY <1>5, <3>2, CacheAssumption
    <2>2. CASE n # 0
      <3>1. Cache!SizeOf(w) - over <= MaxThumbBytes
        BY <1>3, <2>2 DEF fits
      <3> QED
        BY <1>2, <1>5, <3>1
    <2> QED
      BY <2>1, <2>2
  <1>7. g = [h EXCEPT !.thumbs = w,
                      !.thumbBytes = h.thumbBytes - (Cache!SizeOf(h.thumbs) - Cache!SizeOf(w))]
    BY DEF Cache!EvictThumbs, over, w, fits
  <1>8. Sound(g)
    <2>1. Sound([h EXCEPT !.thumbs = w,
                          !.thumbBytes = h.thumbBytes - (Cache!SizeOf(h.thumbs) - Cache!SizeOf(w))])
      BY <1>4, ThumbsCut
    <2> QED
      BY <1>7, <2>1
  <1>9. g.thumbs = w /\ g.bodyBytes = h.bodyBytes
    BY <1>1, <1>7 DEF Cache!Held
  <1> QED
    BY <1>6, <1>8, <1>9 DEF Sound, Cache!Counted

LEMMA CollectionsEvicted ==
    ASSUME NEW h, Sound(h), NEW g, g = Cache!EvictCollections(h)
    PROVE  /\ Sound(g) /\ Len(g.order) <= MaxCollections /\ g.etagCount <= MaxETagEntries
           /\ g.bodyBytes <= h.bodyBytes /\ g.thumbBytes = h.thumbBytes
  <1> DEFINE fits == {n \in 1 .. Len(h.order) :
                         /\ n <= MaxCollections
                         /\ h.etagCount - Cache!Total(h.etags, Collections \ Cache!ToSet(SubSeq(h.order, 1, n)))
                                <= MaxETagEntries}
             w == Cache!Keep(h.order, fits)
  <1>1. /\ h \in Cache!Held
        /\ h.order \in Seq(Collections)
        /\ h.etags \in [Collections -> Nat]
        /\ h.etagCount = Cache!Total(h.etags, Collections) /\ Cache!IsInjective(h.order)
    BY DEF Sound, Cache!Held, Cache!Counted
  <1>2. PICK n \in fits \cup {0} : n \in 0 .. Len(h.order) /\ w = SubSeq(h.order, 1, n)
    BY <1>1, KeptList
  <1> HIDE DEF w, fits
  <1>3. /\ w \in Seq(Collections)
        /\ Cache!IsInjective(w)
        /\ Cache!ToSet(w) \subseteq Cache!ToSet(h.order)
        /\ Cache!ToSet(w) = {h.order[i] : i \in 1 .. n} /\ Len(w) = n
    <2>1. /\ SubSeq(h.order, 1, n) \in Seq(Collections)
          /\ Cache!IsInjective(SubSeq(h.order, 1, n))
          /\ Cache!ToSet(SubSeq(h.order, 1, n)) \subseteq Cache!ToSet(h.order)
          /\ Cache!ToSet(SubSeq(h.order, 1, n)) = {h.order[i] : i \in 1 .. n}
          /\ Len(SubSeq(h.order, 1, n)) = n
      BY <1>1, <1>2, FirstOf
    <2> QED
      BY <1>2, <2>1
  <1>4. g = Cache!DropCollections(h, Cache!ToSet(w))
    BY DEF Cache!EvictCollections, w, fits
  <1>5. /\ Sound(g) /\ Cache!ToSet(g.order) = Cache!ToSet(h.order) \cap Cache!ToSet(w)
        /\ g.etagCount = h.etagCount - Cache!Total(h.etags, Collections \ Cache!ToSet(w))
        /\ g.bodyBytes <= h.bodyBytes /\ g.thumbBytes = h.thumbBytes
    <2>1. PICK K : K = Cache!ToSet(w)
      OBVIOUS
    <2>2. g = Cache!DropCollections(h, K)
      BY <1>4, <2>1
    <2>3. /\ Sound(g) /\ Cache!ToSet(g.order) = Cache!ToSet(h.order) \cap K
          /\ g.etagCount = h.etagCount - Cache!Total(h.etags, Collections \ K)
          /\ g.bodyBytes <= h.bodyBytes /\ g.thumbBytes = h.thumbBytes
      BY <2>2, CollectionsDropped, ZenonT(60)
    <2> QED
      BY <2>1, <2>3
  <1>6. Len(g.order) <= n
    <2>1. g.order \in Seq(Collections) /\ Cache!IsInjective(g.order)
      BY <1>5 DEF Sound, Cache!Held
    <2> QED
      BY <1>3, <1>5, <2>1, SameLength
  <1>7. Len(g.order) \in Nat /\ n \in Nat
    BY <1>2, <1>5 DEF Sound, Cache!Held
  <1>8. CASE n = 0
    <2>1. Cache!ToSet(w) = {} /\ Collections \ Cache!ToSet(w) = Collections
      BY <1>3, <1>8
    <2>2. Cache!Total(h.etags, Collections) \in Nat
      <3>1. \A k \in Collections : h.etags[k] \in Nat
        BY <1>1
      <3> QED
        BY <3>1, Summed, CacheAssumption
    <2>3. g.etagCount = 0
      BY <1>1, <1>5, <2>1, <2>2
    <2> QED
      BY <1>5, <1>6, <1>7, <1>8, <2>3, CacheAssumption
  <1>9. CASE n # 0
    <2>1. n <= MaxCollections
          /\ h.etagCount - Cache!Total(h.etags, Collections \ Cache!ToSet(w)) <= MaxETagEntries
      BY <1>2, <1>9 DEF fits
    <2> QED
      BY <1>5, <1>6, <1>7, <2>1, CacheAssumption
  <1> QED
    BY <1>8, <1>9

LEMMA Evicted ==
    ASSUME NEW h, Sound(h), NEW g, g = Cache!EvictLocked(h)
    PROVE  Sound(g) /\ Fits(g)
  <1> DEFINE b == Cache!EvictBodies(h)  t == Cache!EvictThumbs(b)
  <1>1. g = Cache!EvictCollections(t)
    BY DEF Cache!EvictLocked
  <1>2. Sound(b) /\ b.bodyBytes <= MaxBodyBytes
    BY BodiesEvicted
  <1>3. t = Cache!EvictThumbs(b)
    OBVIOUS
  <1> HIDE DEF b, t
  <1>4. Sound(t) /\ t.thumbBytes <= MaxThumbBytes /\ t.bodyBytes = b.bodyBytes
    BY <1>2, <1>3, ThumbsEvicted
  <1>5. /\ Sound(g) /\ Len(g.order) <= MaxCollections /\ g.etagCount <= MaxETagEntries
        /\ g.bodyBytes <= t.bodyBytes /\ g.thumbBytes = t.thumbBytes
    BY <1>1, <1>4, CollectionsEvicted
  <1>6. g.bodyBytes \in Nat /\ b.bodyBytes \in Nat
    BY <1>2, <1>5 DEF Sound, Cache!Held
  <1> QED
    BY <1>2, <1>4, <1>5, <1>6, CacheAssumption DEF Fits
-----------------------------------------------------------------------------
(* What each method leaves of a cache. *)
LEMMA ETagsSet ==
    ASSUME NEW h, Sound(h), NEW k \in Collections, NEW length \in Lengths,
           NEW g, g = Cache!SetETags(h, k, length)
    PROVE  Sound(g) /\ Fits(g)
  <1> DEFINE order == Cache!ToFront(h.order, k)
             etags == [h.etags EXCEPT ![k] = length]
             count == h.etagCount - h.etags[k] + length
             m == [h EXCEPT !.etags = etags, !.etagCount = count, !.order = order]
  <1>1. /\ h \in Cache!Held
        /\ h.order \in Seq(Collections)
        /\ h.etags \in [Collections -> Nat]
        /\ h.etagCount = Cache!Total(h.etags, Collections) /\ h.etagCount \in Nat
        /\ Cache!IsInjective(h.order) /\ length \in Nat
    BY CacheAssumption DEF Sound, Cache!Held, Cache!Counted
  <1>2. g = Cache!EvictLocked(m)
    BY <1>1 DEF Cache!SetETags, Cache!Held
  <1>3. /\ order \in Seq(Collections) /\ Cache!IsInjective(order)
        /\ Cache!ToSet(order) = Cache!ToSet(h.order) \cup {k}
    BY <1>1, Fronted
  <1>4. /\ etags \in [Collections -> Nat] /\ etags[k] = length
        /\ \A x \in Collections : x # k => etags[x] = h.etags[x]
    BY <1>1
  <1> HIDE DEF etags
  <1>5. /\ Cache!Total(etags, Collections) + h.etags[k] = Cache!Total(h.etags, Collections) + etags[k]
        /\ Cache!Total(etags, Collections) \in Nat
    <2>1. /\ \A x \in Collections : h.etags[x] \in Nat /\ etags[k] \in Nat
          /\ \A x \in Collections \ {k} : etags[x] = h.etags[x]
      BY <1>1, <1>4
    <2> QED
      BY <2>1, Updated, CacheAssumption
  <1>6. count = Cache!Total(etags, Collections) /\ count \in Nat
    <2>1. h.etags[k] \in Nat
      BY <1>1
    <2> QED
      BY <1>1, <1>4, <1>5, <2>1
  <1> HIDE DEF order, count
  <1>7. /\ m.order = order /\ m.etags = etags /\ m.etagCount = count
        /\ m.bodies = h.bodies /\ m.bodyBytes = h.bodyBytes
        /\ m.thumbs = h.thumbs /\ m.thumbBytes = h.thumbBytes /\ m \in Cache!Held
    BY <1>1, <1>3, <1>4, <1>6 DEF Cache!Held
  <1> HIDE DEF m
  <1>8. Sound(m)
    <2>1. Cache!Counted(m)
      BY <1>6, <1>7 DEF Sound, Cache!Counted
    <2>2. \A b \in Cache!ToSet(m.bodies) : b.col \in Cache!ToSet(m.order)
      BY <1>3, <1>7 DEF Sound
    <2>3. \A x \in Collections : m.etags[x] > 0 => x \in Cache!ToSet(m.order)
      BY <1>3, <1>4, <1>7 DEF Sound
    <2> QED
      BY <1>3, <1>7, <2>1, <2>2, <2>3 DEF Sound
  <1> QED
    BY <1>2, <1>8, Evicted

LEMMA BodyPut ==
    ASSUME NEW h, Sound(h), NEW k \in Collections, NEW p \in Objects, NEW size \in Sizes,
           NEW g, g = Cache!PutBody(h, k, p, size)
    PROVE  Sound(g) /\ Fits(g)
  <1> DEFINE others == Cache!Within(h.bodies, {b \in Cache!ToSet(h.bodies) : ~Cache!SameBody(b, k, p)})
             body == [col |-> k, path |-> p, size |-> size]
             bodies == <<body>> \o others
             bytes == h.bodyBytes - (Cache!SizeOf(h.bodies) - Cache!SizeOf(others)) + size
             order == Cache!ToFront(h.order, k)
             m == [h EXCEPT !.bodies = bodies, !.bodyBytes = bytes, !.order = order]
  <1>1. /\ h \in Cache!Held
        /\ h.order \in Seq(Collections)
        /\ h.bodies \in Seq(Cache!Body)
        /\ h.bodyBytes = Cache!SizeOf(h.bodies)
        /\ Cache!IsInjective(h.order)
        /\ Cache!IsInjective(h.bodies)
        /\ size \in Nat
    BY CacheAssumption DEF Sound, Cache!Held, Cache!Counted
  <1>2. g = Cache!EvictLocked(m)
    BY DEF Cache!PutBody
  <1>3. /\ order \in Seq(Collections) /\ Cache!IsInjective(order)
        /\ Cache!ToSet(order) = Cache!ToSet(h.order) \cup {k}
    BY <1>1, Fronted
  <1>4. /\ others \in Seq(Cache!Body) /\ Cache!IsInjective(others)
        /\ Cache!ToSet(others) = Cache!ToSet(h.bodies) \cap {b \in Cache!ToSet(h.bodies) : ~Cache!SameBody(b, k, p)}
    BY <1>1, Filtered
  <1>5. /\ body \in Cache!Body
        /\ body \notin Cache!ToSet(others)
        /\ body.col = k
        /\ body.size = size
    BY <1>4 DEF Cache!Body, Cache!SameBody
  <1> HIDE DEF others, body, order
  <1>6. /\ bodies \in Seq(Cache!Body) /\ Cache!IsInjective(bodies)
        /\ Cache!ToSet(bodies) = Cache!ToSet(others) \cup {body}
    BY <1>4, <1>5, Prefixed
  <1>7. Sized(Cache!ToSet(h.bodies))
    BY <1>1, Entries DEF Sound
  <1>8. /\ Sized(Cache!ToSet(others)) /\ Weight(Cache!ToSet(others)) \in Nat
        /\ Weight(Cache!ToSet(h.bodies)) \in Nat
    BY <1>4, <1>7, WeightPart
  <1>9. Weight(Cache!ToSet(bodies)) = Weight(Cache!ToSet(others)) + size
    BY <1>1, <1>5, <1>6, <1>8, WeightAdd
  <1>10. bytes = Cache!SizeOf(bodies) /\ bytes \in Nat
    <2>1. /\ Cache!SizeOf(bodies) = Weight(Cache!ToSet(bodies))
          /\ Cache!SizeOf(others) = Weight(Cache!ToSet(others))
          /\ Cache!SizeOf(h.bodies) = Weight(Cache!ToSet(h.bodies))
      BY DEF Cache!SizeOf, Weight
    <2> HIDE DEF bodies
    <2> QED
      BY <1>1, <1>8, <1>9, <2>1
  <1> HIDE DEF bodies, bytes
  <1>11. /\ m.order = order /\ m.etags = h.etags /\ m.etagCount = h.etagCount
         /\ m.bodies = bodies /\ m.bodyBytes = bytes
         /\ m.thumbs = h.thumbs /\ m.thumbBytes = h.thumbBytes /\ m \in Cache!Held
    BY <1>1, <1>3, <1>6, <1>10 DEF Cache!Held
  <1> HIDE DEF m
  <1>12. Sound(m)
    <2>1. Cache!Counted(m)
      BY <1>10, <1>11 DEF Sound, Cache!Counted
    <2>2. \A b \in Cache!ToSet(m.bodies) : b.col \in Cache!ToSet(m.order)
      BY <1>3, <1>4, <1>5, <1>6, <1>11 DEF Sound
    <2>3. \A x \in Collections : m.etags[x] > 0 => x \in Cache!ToSet(m.order)
      BY <1>3, <1>11 DEF Sound
    <2> QED
      BY <1>3, <1>6, <1>11, <2>1, <2>2, <2>3 DEF Sound
  <1> QED
    BY <1>2, <1>12, Evicted

LEMMA ThumbPut ==
    ASSUME NEW h, Sound(h), Fits(h), NEW p \in Pictures, NEW size \in Sizes,
           NEW g, g = Cache!PutThumb(h, p, size)
    PROVE  Sound(g) /\ Fits(g)
  <1> DEFINE others == Cache!Within(h.thumbs, {e \in Cache!ToSet(h.thumbs) : e.key # p})
             thumb == [key |-> p, size |-> size]
             thumbs == <<thumb>> \o others
             bytes == h.thumbBytes - (Cache!SizeOf(h.thumbs) - Cache!SizeOf(others)) + size
             m == [h EXCEPT !.thumbs = thumbs, !.thumbBytes = bytes]
  <1> SUFFICES ASSUME size # 0 PROVE Sound(g) /\ Fits(g)
    BY DEF Cache!PutThumb
  <1>1. /\ h \in Cache!Held /\ h.thumbs \in Seq(Cache!Thumb)
        /\ h.thumbBytes = Cache!SizeOf(h.thumbs)
        /\ Cache!IsInjective(h.thumbs)
        /\ size \in Nat
    BY CacheAssumption DEF Sound, Cache!Held, Cache!Counted
  <1>2. g = Cache!EvictLocked(m)
    BY DEF Cache!PutThumb
  <1>4. /\ others \in Seq(Cache!Thumb) /\ Cache!IsInjective(others)
        /\ Cache!ToSet(others) = Cache!ToSet(h.thumbs) \cap {e \in Cache!ToSet(h.thumbs) : e.key # p}
    BY <1>1, Filtered
  <1>5. thumb \in Cache!Thumb /\ thumb \notin Cache!ToSet(others) /\ thumb.size = size
    BY <1>4 DEF Cache!Thumb
  <1> HIDE DEF others, thumb
  <1>6. /\ thumbs \in Seq(Cache!Thumb) /\ Cache!IsInjective(thumbs)
        /\ Cache!ToSet(thumbs) = Cache!ToSet(others) \cup {thumb}
    BY <1>4, <1>5, Prefixed
  <1>7. Sized(Cache!ToSet(h.thumbs))
    BY <1>1, Entries DEF Sound
  <1>8. /\ Sized(Cache!ToSet(others)) /\ Weight(Cache!ToSet(others)) \in Nat
        /\ Weight(Cache!ToSet(h.thumbs)) \in Nat
    BY <1>4, <1>7, WeightPart
  <1>9. Weight(Cache!ToSet(thumbs)) = Weight(Cache!ToSet(others)) + size
    BY <1>1, <1>5, <1>6, <1>8, WeightAdd
  <1>10. bytes = Cache!SizeOf(thumbs) /\ bytes \in Nat
    <2>1. /\ Cache!SizeOf(thumbs) = Weight(Cache!ToSet(thumbs))
          /\ Cache!SizeOf(others) = Weight(Cache!ToSet(others))
          /\ Cache!SizeOf(h.thumbs) = Weight(Cache!ToSet(h.thumbs))
      BY DEF Cache!SizeOf, Weight
    <2> HIDE DEF thumbs
    <2> QED
      BY <1>1, <1>8, <1>9, <2>1
  <1> HIDE DEF thumbs, bytes
  <1>11. /\ m.order = h.order /\ m.etags = h.etags /\ m.etagCount = h.etagCount
         /\ m.bodies = h.bodies /\ m.bodyBytes = h.bodyBytes
         /\ m.thumbs = thumbs /\ m.thumbBytes = bytes /\ m \in Cache!Held
    BY <1>1, <1>6, <1>10 DEF Cache!Held
  <1> HIDE DEF m
  <1>12. Sound(m)
    BY <1>6, <1>10, <1>11 DEF Sound, Cache!Counted
  <1> QED
    BY <1>2, <1>12, Evicted

(* To drop the oldest entry of a cache takes its size off. *)
LEMMA OldestDropped ==
    ASSUME NEW h, Sound(h), Fits(h), NEW kind, NEW g, g = Cache!DropOldest(h, kind)
    PROVE  Sound(g) /\ Fits(g)
  <1>1. /\ h \in Cache!Held
        /\ h.bodies \in Seq(Cache!Body)
        /\ h.thumbs \in Seq(Cache!Thumb)
        /\ h.bodyBytes = Cache!SizeOf(h.bodies) /\ h.thumbBytes = Cache!SizeOf(h.thumbs)
        /\ Cache!IsInjective(h.bodies) /\ Cache!IsInjective(h.thumbs)
        /\ h.bodyBytes \in Nat /\ h.thumbBytes \in Nat
    BY DEF Sound, Cache!Held, Cache!Counted
  <1>2. Sized(Cache!ToSet(h.bodies)) /\ Sized(Cache!ToSet(h.thumbs))
    BY <1>1, Entries
  <1>3. CASE kind = "body" /\ h.bodies # <<>>
    <2> DEFINE w == Cache!Front(h.bodies)  e == Cache!Last(h.bodies)
    <2>1. /\ w \in Seq(Cache!Body) /\ Cache!IsInjective(w) /\ e \in Cache!ToSet(h.bodies)
          /\ Cache!ToSet(w) = Cache!ToSet(h.bodies) \ {e}
      BY <1>1, <1>3, WithoutLast
    <2>2. g = [h EXCEPT !.bodies = w, !.bodyBytes = h.bodyBytes - e.size]
      BY <1>3 DEF Cache!DropOldest
    <2> HIDE DEF w, e
    <2>3. /\ Sized(Cache!ToSet(w))
          /\ e.size \in Nat
          /\ Cache!ToSet(w) \cup {e} = Cache!ToSet(h.bodies)
      BY <1>2, <2>1, WeightPart DEF Sized
    <2>4. /\ Weight(Cache!ToSet(h.bodies)) = Weight(Cache!ToSet(w)) + e.size
          /\ Weight(Cache!ToSet(w)) \in Nat
      BY <2>1, <2>3, WeightAdd, WeightNat
    <2>5. /\ Cache!SizeOf(h.bodies) = Weight(Cache!ToSet(h.bodies))
          /\ Cache!SizeOf(w) = Weight(Cache!ToSet(w))
      BY DEF Cache!SizeOf, Weight
    <2>6. h.bodyBytes - e.size = h.bodyBytes - (Cache!SizeOf(h.bodies) - Cache!SizeOf(w))
      BY <1>1, <2>3, <2>4, <2>5
    <2>7. Sound(g)
      <3>1. Cache!ToSet(w) \subseteq Cache!ToSet(h.bodies)
        BY <2>1
      <3>2. Sound([h EXCEPT !.bodies = w,
                            !.bodyBytes = h.bodyBytes - (Cache!SizeOf(h.bodies) - Cache!SizeOf(w))])
        BY <2>1, <3>1, BodiesCut
      <3> QED
        BY <2>2, <2>6, <3>2
    <2>8. /\ g.bodies = w /\ g.order = h.order /\ g.etagCount = h.etagCount
          /\ g.thumbBytes = h.thumbBytes
      BY <1>1, <2>2 DEF Cache!Held
    <2>9. g.bodyBytes <= h.bodyBytes
      BY <2>1, <2>7, <2>8, Lighter
    <2>10. g.bodyBytes \in Nat
      BY <2>7 DEF Sound, Cache!Held
    <2> QED
      BY <1>1, <2>7, <2>8, <2>9, <2>10, CacheAssumption DEF Fits
  <1>4. CASE kind = "thumb" /\ h.thumbs # <<>>
    <2> DEFINE w == Cache!Front(h.thumbs)  e == Cache!Last(h.thumbs)
    <2>1. /\ w \in Seq(Cache!Thumb) /\ Cache!IsInjective(w) /\ e \in Cache!ToSet(h.thumbs)
          /\ Cache!ToSet(w) = Cache!ToSet(h.thumbs) \ {e}
      BY <1>1, <1>4, WithoutLast
    <2>2. g = [h EXCEPT !.thumbs = w, !.thumbBytes = h.thumbBytes - e.size]
      BY <1>4 DEF Cache!DropOldest
    <2> HIDE DEF w, e
    <2>3. /\ Sized(Cache!ToSet(w))
          /\ e.size \in Nat
          /\ Cache!ToSet(w) \cup {e} = Cache!ToSet(h.thumbs)
      BY <1>2, <2>1, WeightPart DEF Sized
    <2>4. /\ Weight(Cache!ToSet(h.thumbs)) = Weight(Cache!ToSet(w)) + e.size
          /\ Weight(Cache!ToSet(w)) \in Nat
      BY <2>1, <2>3, WeightAdd, WeightNat
    <2>5. /\ Cache!SizeOf(h.thumbs) = Weight(Cache!ToSet(h.thumbs))
          /\ Cache!SizeOf(w) = Weight(Cache!ToSet(w))
      BY DEF Cache!SizeOf, Weight
    <2>6. h.thumbBytes - e.size = h.thumbBytes - (Cache!SizeOf(h.thumbs) - Cache!SizeOf(w))
      BY <1>1, <2>3, <2>4, <2>5
    <2>7. Sound(g)
      <3>1. Cache!ToSet(w) \subseteq Cache!ToSet(h.thumbs)
        BY <2>1
      <3>2. Sound([h EXCEPT !.thumbs = w,
                            !.thumbBytes = h.thumbBytes - (Cache!SizeOf(h.thumbs) - Cache!SizeOf(w))])
        BY <2>1, <3>1, ThumbsCut
      <3> QED
        BY <2>2, <2>6, <3>2
    <2>8. /\ g.thumbs = w /\ g.order = h.order /\ g.etagCount = h.etagCount
          /\ g.bodyBytes = h.bodyBytes
      BY <1>1, <2>2 DEF Cache!Held
    <2>9. g.thumbBytes <= h.thumbBytes
      BY <2>1, <2>7, <2>8, Lighter
    <2>10. g.thumbBytes \in Nat
      BY <2>7 DEF Sound, Cache!Held
    <2> QED
      BY <1>1, <2>7, <2>8, <2>9, <2>10, CacheAssumption DEF Fits
  <1>5. CASE /\ ~(kind = "body" /\ h.bodies # <<>>)
             /\ ~(kind = "thumb" /\ h.thumbs # <<>>)
    <2>1. g = h
      BY <1>5 DEF Cache!DropOldest
    <2> QED
      BY <2>1
  <1> QED
    BY <1>3, <1>4, <1>5

LEMMA NothingHeld == Sound(Cache!Empty) /\ Fits(Cache!Empty) /\ Cache!Victim(Cache!Empty) = None
  <1> DEFINE none == [k \in Collections |-> 0]
  <1>1. /\ <<>> \in Seq(Collections)
        /\ <<>> \in Seq(Cache!Body)
        /\ <<>> \in Seq(Cache!Thumb)
        /\ Len(<<>>) = 0 /\ DOMAIN <<>> = {}
    OBVIOUS
  <1>2. Cache!ToSet(<<>>) = {} /\ Cache!IsInjective(<<>>)
    BY <1>1 DEF Cache!ToSet, Cache!IsInjective
  <1>3. Cache!SizeOf(<<>>) = 0
    <2>1. Cache!SizeOf(<<>>) = Weight(Cache!ToSet(<<>>))
      BY DEF Cache!SizeOf, Weight
    <2> QED
      BY <1>2, <2>1, WeightNone
  <1>4. Cache!Total(none, Collections) = 0
    BY ZeroTotal
  <1>5. /\ Cache!Empty.order = <<>>
        /\ Cache!Empty.etags = none
        /\ Cache!Empty.etagCount = 0
        /\ Cache!Empty.bodies = <<>> /\ Cache!Empty.bodyBytes = 0
        /\ Cache!Empty.thumbs = <<>> /\ Cache!Empty.thumbBytes = 0
    BY DEF Cache!Empty
  <1>6. Cache!Empty \in Cache!Held
    <2>1. none \in [Collections -> Nat] /\ 0 \in Nat
      OBVIOUS
    <2> QED
      BY <1>1, <2>1 DEF Cache!Empty, Cache!Held
  <1>7. \A k \in Collections : none[k] = 0
    OBVIOUS
  <1> HIDE DEF none
  <1>8. Sound(Cache!Empty)
    BY <1>2, <1>3, <1>4, <1>5, <1>6, <1>7 DEF Sound, Cache!Counted
  <1>9. Fits(Cache!Empty)
    BY <1>1, <1>5, CacheAssumption DEF Fits
  <1>10. Cache!Victim(Cache!Empty) = None
    BY <1>5 DEF Cache!Victim
  <1> QED
    BY <1>8, <1>9, <1>10

LEMMA DroppedFits ==
    ASSUME NEW h, Sound(h), Fits(h), NEW kept, NEW g, g = Cache!DropCollections(h, kept)
    PROVE  Sound(g) /\ Fits(g)
  <1>1. /\ Sound(g) /\ Len(g.order) <= Len(h.order) /\ g.etagCount <= h.etagCount
        /\ g.bodyBytes <= h.bodyBytes /\ g.thumbBytes = h.thumbBytes
    BY CollectionsDropped
  <1>2. /\ Len(g.order) \in Nat /\ Len(h.order) \in Nat
        /\ g.etagCount \in Nat /\ h.etagCount \in Nat
        /\ g.bodyBytes \in Nat /\ h.bodyBytes \in Nat
    BY <1>1 DEF Sound, Cache!Held
  <1> QED
    BY <1>1, <1>2, CacheAssumption DEF Fits

LEMMA NothingListed == ASSUME NEW T, NEW s \in Seq(T) PROVE s = <<>> <=> Cache!ToSet(s) = {}
  <1>1. DOMAIN s = 1 .. Len(s) /\ Len(s) \in Nat /\ (Len(s) = 0 <=> s = <<>>)
    OBVIOUS
  <1>2. CASE s = <<>>
    <2>1. DOMAIN s = {}
      BY <1>1, <1>2
    <2> QED
      BY <1>2, <2>1 DEF Cache!ToSet
  <1>3. CASE s # <<>>
    <2>1. 1 \in DOMAIN s
      BY <1>1, <1>3
    <2> QED
      BY <1>3, <2>1 DEF Cache!ToSet
  <1> QED
    BY <1>2, <1>3

(* To find an entry changes the order of the lists only. *)
LEMMA Reordered ==
    ASSUME NEW h, Sound(h), Fits(h), NEW g \in Cache!Held,
           g.etags = h.etags /\ g.etagCount = h.etagCount,
           g.bodyBytes = h.bodyBytes /\ g.thumbBytes = h.thumbBytes,
           Cache!IsInjective(g.order) /\ Cache!IsInjective(g.bodies) /\ Cache!IsInjective(g.thumbs),
           Cache!ToSet(g.order) = Cache!ToSet(h.order),
           Cache!ToSet(g.bodies) = Cache!ToSet(h.bodies),
           Cache!ToSet(g.thumbs) = Cache!ToSet(h.thumbs)
    PROVE  Sound(g) /\ Fits(g) /\ Cache!Victim(g) = Cache!Victim(h)
  <1>1. /\ h \in Cache!Held
        /\ g.order \in Seq(Collections)
        /\ h.order \in Seq(Collections)
        /\ h.bodies \in Seq(Cache!Body) /\ g.bodies \in Seq(Cache!Body)
        /\ h.thumbs \in Seq(Cache!Thumb) /\ g.thumbs \in Seq(Cache!Thumb)
    BY DEF Sound, Cache!Held
  <1>2. Len(g.order) <= Len(h.order) /\ Len(h.order) \in Nat /\ Len(g.order) \in Nat
    BY <1>1, SameLength DEF Sound
  <1>3. /\ Cache!SizeOf(g.bodies) = Cache!SizeOf(h.bodies)
        /\ Cache!SizeOf(g.thumbs) = Cache!SizeOf(h.thumbs)
    BY DEF Cache!SizeOf
  <1>4. Sound(g)
    BY <1>3 DEF Sound, Cache!Counted
  <1>5. Fits(g)
    BY <1>2, CacheAssumption DEF Fits
  <1>6. (g.bodies = <<>> <=> h.bodies = <<>>) /\ (g.thumbs = <<>> <=> h.thumbs = <<>>)
    BY <1>1, NothingListed
  <1> QED
    BY <1>4, <1>5, <1>6 DEF Cache!Victim

LEMMA BodyRead ==
    ASSUME NEW h, Sound(h), Fits(h), NEW b \in Cache!ToSet(h.bodies),
           NEW g, g = [h EXCEPT !.bodies = Cache!ToFront(h.bodies, b),
                                !.order = Cache!ToFront(h.order, b.col)]
    PROVE  Sound(g) /\ Fits(g) /\ Cache!Victim(g) = Cache!Victim(h)
  <1>1. /\ h \in Cache!Held
        /\ h.order \in Seq(Collections)
        /\ h.bodies \in Seq(Cache!Body)
        /\ Cache!IsInjective(h.order)
        /\ Cache!IsInjective(h.bodies)
        /\ b.col \in Cache!ToSet(h.order)
    BY DEF Sound, Cache!Held
  <1>2. b \in Cache!Body /\ b.col \in Collections
    <2>1. b \in Cache!Body
      BY <1>1 DEF Cache!ToSet
    <2> QED
      BY <2>1 DEF Cache!Body
  <1>3. /\ Cache!ToFront(h.bodies, b) \in Seq(Cache!Body)
        /\ Cache!IsInjective(Cache!ToFront(h.bodies, b))
        /\ Cache!ToSet(Cache!ToFront(h.bodies, b)) = Cache!ToSet(h.bodies) \cup {b}
    BY <1>1, <1>2, Fronted
  <1>4. /\ Cache!ToFront(h.order, b.col) \in Seq(Collections)
        /\ Cache!IsInjective(Cache!ToFront(h.order, b.col))
        /\ Cache!ToSet(Cache!ToFront(h.order, b.col)) = Cache!ToSet(h.order) \cup {b.col}
    BY <1>1, <1>2, Fronted
  <1>5. /\ g.bodies = Cache!ToFront(h.bodies, b)
        /\ g.order = Cache!ToFront(h.order, b.col)
        /\ g.etags = h.etags /\ g.etagCount = h.etagCount
        /\ g.bodyBytes = h.bodyBytes /\ g.thumbBytes = h.thumbBytes
        /\ g.thumbs = h.thumbs /\ g \in Cache!Held
    BY <1>1, <1>3, <1>4 DEF Cache!Held
  <1>6. /\ Cache!ToSet(g.order) = Cache!ToSet(h.order)
        /\ Cache!ToSet(g.bodies) = Cache!ToSet(h.bodies)
    BY <1>1, <1>3, <1>4, <1>5
  <1>7. /\ Cache!IsInjective(g.order)
        /\ Cache!IsInjective(g.bodies)
        /\ Cache!IsInjective(g.thumbs)
    BY <1>3, <1>4, <1>5 DEF Sound
  <1> QED
    BY <1>5, <1>6, <1>7, Reordered

LEMMA ThumbRead ==
    ASSUME NEW h, Sound(h), Fits(h), NEW e \in Cache!ToSet(h.thumbs),
           NEW g, g = [h EXCEPT !.thumbs = Cache!ToFront(h.thumbs, e)]
    PROVE  Sound(g) /\ Fits(g) /\ Cache!Victim(g) = Cache!Victim(h)
  <1>1. /\ h \in Cache!Held
        /\ h.thumbs \in Seq(Cache!Thumb)
        /\ Cache!IsInjective(h.thumbs)
    BY DEF Sound, Cache!Held
  <1>2. e \in Cache!Thumb
    BY <1>1 DEF Cache!ToSet
  <1>3. /\ Cache!ToFront(h.thumbs, e) \in Seq(Cache!Thumb)
        /\ Cache!IsInjective(Cache!ToFront(h.thumbs, e))
        /\ Cache!ToSet(Cache!ToFront(h.thumbs, e)) = Cache!ToSet(h.thumbs) \cup {e}
    BY <1>1, <1>2, Fronted
  <1>4. /\ g.thumbs = Cache!ToFront(h.thumbs, e) /\ g.order = h.order
        /\ g.etags = h.etags /\ g.etagCount = h.etagCount
        /\ g.bodyBytes = h.bodyBytes /\ g.thumbBytes = h.thumbBytes
        /\ g.bodies = h.bodies /\ g \in Cache!Held
    BY <1>1, <1>3 DEF Cache!Held
  <1>5. Cache!ToSet(g.thumbs) = Cache!ToSet(h.thumbs)
    BY <1>3, <1>4
  <1>6. /\ Cache!IsInjective(g.order)
        /\ Cache!IsInjective(g.bodies)
        /\ Cache!IsInjective(g.thumbs)
    BY <1>3, <1>4 DEF Sound
  <1> QED
    BY <1>4, <1>5, <1>6, Reordered

LEMMA CollectionRead ==
    ASSUME NEW h, Sound(h), Fits(h), NEW k \in Cache!ToSet(h.order),
           NEW g, g = [h EXCEPT !.order = Cache!ToFront(h.order, k)]
    PROVE  Sound(g) /\ Fits(g) /\ Cache!Victim(g) = Cache!Victim(h)
  <1>1. /\ h \in Cache!Held /\ h.order \in Seq(Collections) /\ Cache!IsInjective(h.order)
    BY DEF Sound, Cache!Held
  <1>2. k \in Collections
    BY <1>1 DEF Cache!ToSet
  <1>3. /\ Cache!ToFront(h.order, k) \in Seq(Collections)
        /\ Cache!IsInjective(Cache!ToFront(h.order, k))
        /\ Cache!ToSet(Cache!ToFront(h.order, k)) = Cache!ToSet(h.order) \cup {k}
    BY <1>1, <1>2, Fronted
  <1>4. /\ g.thumbs = h.thumbs /\ g.order = Cache!ToFront(h.order, k)
        /\ g.etags = h.etags /\ g.etagCount = h.etagCount
        /\ g.bodyBytes = h.bodyBytes /\ g.thumbBytes = h.thumbBytes
        /\ g.bodies = h.bodies /\ g \in Cache!Held
    BY <1>1, <1>3 DEF Cache!Held
  <1>5. Cache!ToSet(g.order) = Cache!ToSet(h.order)
    BY <1>3, <1>4
  <1>6. /\ Cache!IsInjective(g.order)
        /\ Cache!IsInjective(g.bodies)
        /\ Cache!IsInjective(g.thumbs)
    BY <1>3, <1>4 DEF Sound
  <1> QED
    BY <1>4, <1>5, <1>6, Reordered

-----------------------------------------------------------------------------
(* The invariant, in the parts that the steps keep one by one. *)
CachesSound ==
    s1 \in [Caches -> Cache!Held] /\ \A c \in Caches : Sound(s1[c]) /\ Fits(s1[c])
BudgetSound == s2 \in [Caches -> Nat] /\ s3 = Cache!Total(s2, Caches)
Turns ==
    /\ s4 \in [Goroutines -> Cache!Turn]
    /\ \A t \in Goroutines : s4[t].at = "publish" => s4[t].of \in Caches

LEMMA PartsHold == Cache!IInv => CachesSound /\ BudgetSound /\ Turns /\ Cache!SomebodyEvicts
  BY DEF Cache!IInv, Cache!CountersMatch, Cache!TypeOK, CachesSound, BudgetSound, Turns,
     Sound, Fits

LEMMA PartsSuffice ==
    CachesSound /\ BudgetSound /\ Turns /\ Cache!SomebodyEvicts => Cache!IInv
  <1> SUFFICES ASSUME CachesSound, BudgetSound, Turns, Cache!SomebodyEvicts PROVE Cache!IInv
    OBVIOUS
  <1>1. s3 \in Nat
    <2>1. \A c \in Caches : s2[c] \in Nat
      BY DEF BudgetSound
    <2> QED
      BY <2>1, Summed, CacheAssumption DEF BudgetSound
  <1>2. ASSUME NEW c \in Caches
        PROVE  /\ Cache!ToSet(s1[c].order) \subseteq Collections
               /\ \A b \in Cache!ToSet(s1[c].bodies) :
                     b.col \in Collections /\ b.path \in Objects /\ b.size \in Sizes
               /\ \A e \in Cache!ToSet(s1[c].thumbs) : e.key \in Pictures /\ e.size \in Sizes
    <2>1. /\ s1[c].order \in Seq(Collections) /\ s1[c].bodies \in Seq(Cache!Body)
          /\ s1[c].thumbs \in Seq(Cache!Thumb)
      BY DEF CachesSound, Cache!Held
    <2>2. /\ Cache!ToSet(s1[c].order) \subseteq Collections
          /\ Cache!ToSet(s1[c].bodies) \subseteq Cache!Body
          /\ Cache!ToSet(s1[c].thumbs) \subseteq Cache!Thumb
      BY <2>1 DEF Cache!ToSet
    <2> QED
      BY <2>2 DEF Cache!Body, Cache!Thumb
  <1>3. ASSUME NEW t \in Goroutines
        PROVE  /\ s4[t].at \in {"idle", "publish", "check", "peek"}
               /\ s4[t].of \in Caches \cup {None} /\ s4[t].left \subseteq Caches
    BY DEF Turns, Cache!Turn
  <1>4. Cache!TypeOK
    BY <1>1, <1>2, <1>3 DEF Cache!TypeOK, BudgetSound
  <1> QED
    BY <1>4 DEF Cache!IInv, Cache!CountersMatch, CachesSound, BudgetSound, Turns, Sound,
       Fits

LEMMA Turned ==
    ASSUME Turns, NEW t \in Goroutines, NEW r \in Cache!Turn,
           r.at = "publish" => r.of \in Caches,
           Cache!Goes(t, r)
    PROVE  /\ Turns' /\ s4'[t] = r
           /\ \A u \in Goroutines \ {t} : s4'[u] = s4[u]
  <1>1. /\ s4' \in [Goroutines -> Cache!Turn] /\ s4'[t] = r
        /\ \A u \in Goroutines \ {t} : s4'[u] = s4[u]
    BY DEF Turns, Cache!Goes
  <1>2. \A u \in Goroutines : s4'[u].at = "publish" => s4'[u].of \in Caches
    BY <1>1 DEF Turns
  <1> QED
    BY <1>1, <1>2 DEF Turns

(* Whoever changed a cache goes on to publish its size. *)
LEMMA ChangeStep ==
    ASSUME CachesSound, BudgetSound, Turns, NEW t \in Goroutines, NEW c \in Caches,
           NEW after, Sound(after), Fits(after),
           s1' = [s1 EXCEPT ![c] = after],
           Cache!Goes(t, [Cache!Idle EXCEPT !.at = "publish", !.of = c, !.n = Cache!Bytes(after)]),
           UNCHANGED <<s2, s3>>
    PROVE  CachesSound' /\ BudgetSound' /\ Turns' /\ Cache!SomebodyEvicts'
  <1>1. after \in Cache!Held
    BY DEF Sound
  <1>2. CachesSound'
    BY <1>1 DEF CachesSound
  <1>3. BudgetSound'
    BY DEF BudgetSound
  <1> DEFINE r == [Cache!Idle EXCEPT !.at = "publish", !.of = c, !.n = Cache!Bytes(after)]
  <1>4. Cache!Bytes(after) \in Nat
    BY <1>1 DEF Cache!Held, Cache!Bytes
  <1>5. r \in Cache!Turn /\ r.at = "publish" /\ r.of = c
    BY <1>4 DEF Cache!Idle, Cache!Turn
  <1> HIDE DEF r
  <1>6. Cache!Goes(t, r)
    BY DEF r
  <1>7. Turns' /\ s4'[t] = r
    BY <1>5, <1>6, Turned
  <1>8. Cache!Evicts(t)'
    BY <1>5, <1>7 DEF Cache!Evicts
  <1>9. Cache!SomebodyEvicts'
    BY <1>8 DEF Cache!SomebodyEvicts
  <1> QED
    BY <1>2, <1>3, <1>7, <1>9

LEMMA ReadStep ==
    ASSUME CachesSound, BudgetSound, Turns, Cache!SomebodyEvicts, NEW t \in Goroutines,
           NEW c \in Caches, Cache!Read(t, c)
    PROVE  CachesSound' /\ BudgetSound' /\ Turns' /\ Cache!SomebodyEvicts'
  <1> DEFINE h == s1[c]
  <1>1. PICK g : /\ s1' = [s1 EXCEPT ![c] = g]
                 /\ Sound(g) /\ Fits(g) /\ Cache!Victim(g) = Cache!Victim(h)
    <2>1. h \in Cache!Held /\ Sound(h) /\ Fits(h)
      BY DEF CachesSound
    <2>2. CASE \E b \in Cache!ToSet(s1[c].bodies) :
                  s1' = [s1 EXCEPT ![c].bodies = Cache!ToFront(@, b),
                                         ![c].order = Cache!ToFront(@, b.col)]
      <3>1. PICK b \in Cache!ToSet(h.bodies) :
                s1' = [s1 EXCEPT ![c].bodies = Cache!ToFront(@, b),
                                       ![c].order = Cache!ToFront(@, b.col)]
        BY <2>2
      <3> DEFINE g == [h EXCEPT !.bodies = Cache!ToFront(h.bodies, b),
                                !.order = Cache!ToFront(h.order, b.col)]
      <3>2. s1' = [s1 EXCEPT ![c] = g]
        BY <2>1, <3>1 DEF Cache!Held, CachesSound
      <3>3. Sound(g) /\ Fits(g) /\ Cache!Victim(g) = Cache!Victim(h)
        BY <2>1, BodyRead
      <3> QED
        BY <3>2, <3>3
    <2>3. CASE \E e \in Cache!ToSet(s1[c].thumbs) :
                  s1' = [s1 EXCEPT ![c].thumbs = Cache!ToFront(@, e)]
      <3>1. PICK e \in Cache!ToSet(h.thumbs) :
                s1' = [s1 EXCEPT ![c].thumbs = Cache!ToFront(@, e)]
        BY <2>3
      <3> DEFINE g == [h EXCEPT !.thumbs = Cache!ToFront(h.thumbs, e)]
      <3>2. s1' = [s1 EXCEPT ![c] = g]
        BY <2>1, <3>1 DEF Cache!Held, CachesSound
      <3>3. Sound(g) /\ Fits(g) /\ Cache!Victim(g) = Cache!Victim(h)
        BY <2>1, ThumbRead
      <3> QED
        BY <3>2, <3>3
    <2>4. CASE \E k \in Cache!ToSet(s1[c].order) :
                  s1' = [s1 EXCEPT ![c].order = Cache!ToFront(@, k)]
      <3>1. PICK k \in Cache!ToSet(h.order) :
                s1' = [s1 EXCEPT ![c].order = Cache!ToFront(@, k)]
        BY <2>4
      <3> DEFINE g == [h EXCEPT !.order = Cache!ToFront(h.order, k)]
      <3>2. s1' = [s1 EXCEPT ![c] = g]
        BY <2>1, <3>1 DEF Cache!Held, CachesSound
      <3>3. Sound(g) /\ Fits(g) /\ Cache!Victim(g) = Cache!Victim(h)
        BY <2>1, CollectionRead
      <3> QED
        BY <3>2, <3>3
    <2> QED
      BY <2>2, <2>3, <2>4 DEF Cache!Read
  <1>2. UNCHANGED <<s2, s3, s4>>
    BY DEF Cache!Read
  <1>3. CachesSound'
    BY <1>1 DEF CachesSound, Sound
  <1>4. BudgetSound' /\ Turns'
    BY <1>2 DEF BudgetSound, Turns
  <1>5. \A d \in Caches : Cache!Victim(s1'[d]) = Cache!Victim(s1[d])
    BY <1>1 DEF CachesSound
  <1>6. \A u \in Goroutines : Cache!Evicts(u) => Cache!Evicts(u)'
    <2>1. \A u \in Goroutines : s4[u].left \subseteq Caches
      BY DEF Turns, Cache!Turn
    <2>2. \A d : Cache!Victim(s1[d])' = Cache!Victim(s1'[d])
      BY DEF Cache!Victim
    <2> QED
      BY <1>2, <1>5, <2>1, <2>2 DEF Cache!Evicts
  <1>7. Cache!SomebodyEvicts'
    <2>2. \A d : Cache!Victim(s1[d])' = Cache!Victim(s1'[d])
      BY DEF Cache!Victim
    <2> QED
      BY <1>2, <1>5, <1>6, <2>2 DEF Cache!SomebodyEvicts
  <1> QED
    BY <1>3, <1>4, <1>7

(* The total follows what is published. *)
LEMMA PublishStep ==
    ASSUME CachesSound, BudgetSound, Turns, NEW t \in Goroutines, Cache!Publish(t)
    PROVE  CachesSound' /\ BudgetSound' /\ Turns' /\ Cache!SomebodyEvicts'
  <1> DEFINE c == s4[t].of  n == s4[t].n
  <1>1. c \in Caches /\ n \in Nat
    BY DEF Cache!Publish, Turns, Cache!Turn
  <1>2. /\ s3' = s3 + n - s2[c] /\ s2' = [s2 EXCEPT ![c] = n]
        /\ UNCHANGED s1
    BY DEF Cache!Publish, Cache!Adjust
  <1> HIDE DEF c, n
  <1>3. BudgetSound'
    <2>1. Cache!Total(s2, Caches) \in Nat
      <3>1. \A d \in Caches : s2[d] \in Nat
        BY DEF BudgetSound
      <3> QED
        BY <3>1, Summed, CacheAssumption
    <2>2. s2 \in [Caches -> Nat] /\ s2[c] \in Nat /\ s3 = Cache!Total(s2, Caches)
      BY <1>1 DEF BudgetSound
    <2>3. Cache!Total(s2', Caches) + s2[c] = Cache!Total(s2, Caches) + n
      <3>1. /\ \A d \in Caches : s2[d] \in Nat
            /\ s2'[c] = n /\ \A d \in Caches \ {c} : s2'[d] = s2[d]
        BY <1>1, <1>2, <2>2
      <3> QED
        BY <1>1, <3>1, Updated, CacheAssumption
    <2>31. Cache!Total(s2', Caches) \in Nat
      <3>1. \A d \in Caches : s2'[d] \in Nat
        BY <1>1, <1>2, <2>2
      <3> QED
        BY <3>1, Summed, CacheAssumption
    <2>4. s3' = Cache!Total(s2', Caches)
      <3>1. \A a, b, u, m \in Nat : a + u = b + m => b + m - u = a
        OBVIOUS
      <3>2. s2[c] \in Nat /\ n \in Nat
        BY <1>1, <2>2
      <3>3. Cache!Total(s2, Caches) + n - s2[c] = Cache!Total(s2', Caches)
        BY <2>1, <2>3, <2>31, <3>1, <3>2
      <3> QED
        BY <1>2, <2>2, <3>3
    <2>5. s2' \in [Caches -> Nat]
      BY <1>1, <1>2, <2>2
    <2> QED
      BY <2>4, <2>5 DEF BudgetSound
  <1>4. CachesSound'
    BY <1>2 DEF CachesSound
  <1> DEFINE r == [Cache!Idle EXCEPT !.at = "check"]
  <1>5. r \in Cache!Turn /\ r.at = "check"
    BY DEF Cache!Idle, Cache!Turn
  <1>6. Cache!Goes(t, r)
    BY DEF Cache!Publish
  <1> HIDE DEF r
  <1>7. Turns' /\ s4'[t] = r
    BY <1>5, <1>6, Turned
  <1>8. Cache!Evicts(t)'
    BY <1>5, <1>7 DEF Cache!Evicts
  <1>9. Cache!SomebodyEvicts'
    BY <1>8 DEF Cache!SomebodyEvicts
  <1> QED
    BY <1>3, <1>4, <1>7, <1>9

(* The steps of evictUntilUnder that change no cache: if this goroutine no longer
   evicts, another one still does. *)
LEMMA OthersEvict ==
    ASSUME NEW t \in Goroutines, Cache!SomebodyEvicts, UNCHANGED <<s1, s2, s3>>,
           \A u \in Goroutines \ {t} : s4'[u] = s4[u],
           (/\ s3 > MaxProcessBytes
            /\ \E c \in Caches : s2[c] > 0 /\ Cache!Victim(s1[c]) # None
            /\ Cache!Evicts(t)) => Cache!Evicts(t)'
    PROVE  Cache!SomebodyEvicts'
  <1>1. ASSUME NEW u \in Goroutines, u # t, Cache!Evicts(u) PROVE Cache!Evicts(u)'
    <2>1. s4'[u] = s4[u] /\ s1' = s1
      BY <1>1
    <2> QED
      BY <1>1, <2>1 DEF Cache!Evicts, Cache!Victim
  <1>2. \A d : Cache!Victim(s1[d])' = Cache!Victim(s1[d])
    BY DEF Cache!Victim
  <1> QED
    BY <1>1, <1>2 DEF Cache!SomebodyEvicts

LEMMA CheckStep ==
    ASSUME CachesSound, BudgetSound, Turns, Cache!SomebodyEvicts, NEW t \in Goroutines,
           Cache!Check(t)
    PROVE  CachesSound' /\ BudgetSound' /\ Turns' /\ Cache!SomebodyEvicts'
  <1> DEFINE counted == {c \in Caches : s2[c] > 0}
             r == IF s3 <= MaxProcessBytes THEN Cache!Idle
                  ELSE [Cache!Idle EXCEPT !.at = "peek", !.left = counted]
  <1>1. Cache!Goes(t, r) /\ UNCHANGED <<s1, s2, s3>>
    BY DEF Cache!Check
  <1>2. r \in Cache!Turn /\ r.at # "publish"
    BY DEF Cache!Idle, Cache!Turn
  <1>3. s3 \in Nat
    <2>1. \A d \in Caches : s2[d] \in Nat
      BY DEF BudgetSound
    <2> QED
      BY <2>1, Summed, CacheAssumption DEF BudgetSound
  <1>4. s3 > MaxProcessBytes => r.at = "peek" /\ r.left = counted
    BY <1>3, CacheAssumption DEF Cache!Idle
  <1> HIDE DEF r
  <1>5. Turns' /\ s4'[t] = r /\ \A u \in Goroutines \ {t} : s4'[u] = s4[u]
    BY <1>1, <1>2, Turned
  <1>6. (/\ s3 > MaxProcessBytes
         /\ \E c \in Caches : s2[c] > 0 /\ Cache!Victim(s1[c]) # None
         /\ Cache!Evicts(t)) => Cache!Evicts(t)'
    <2> SUFFICES ASSUME s3 > MaxProcessBytes,
                        NEW c \in Caches, s2[c] > 0, Cache!Victim(s1[c]) # None
                 PROVE  Cache!Evicts(t)'
      OBVIOUS
    <2>1. s4'[t].at = "peek" /\ c \in s4'[t].left
      BY <1>4, <1>5
    <2>2. Cache!Victim(s1[c])' # None
      BY <1>1 DEF Cache!Victim
    <2> QED
      BY <2>1, <2>2 DEF Cache!Evicts
  <1>7. Cache!SomebodyEvicts'
    BY <1>1, <1>5, <1>6, OthersEvict
  <1>8. CachesSound' /\ BudgetSound'
    BY <1>1 DEF CachesSound, BudgetSound
  <1> QED
    BY <1>5, <1>7, <1>8

LEMMA LookIntoStep ==
    ASSUME CachesSound, BudgetSound, Turns, Cache!SomebodyEvicts, NEW t \in Goroutines,
           Cache!Peek(t)
    PROVE  CachesSound' /\ BudgetSound' /\ Turns' /\ Cache!SomebodyEvicts'
  <1> DEFINE best == s4[t].best
  <1>1. s4[t] \in Cache!Turn /\ s4[t].left \subseteq Caches
    BY DEF Turns, Cache!Turn
  <1>2. PICK c \in s4[t].left :
            \E b \in {best, [of |-> c, kind |-> Cache!Victim(s1[c])]} :
                /\ (b = [of |-> c, kind |-> Cache!Victim(s1[c])]) => Cache!Victim(s1[c]) # None
                /\ (b = best) => (Cache!Victim(s1[c]) = None \/ best # None)
                /\ Cache!Goes(t, [s4[t] EXCEPT !.left = @ \ {c}, !.best = b])
    BY DEF Cache!Peek
  <1> DEFINE offer == [of |-> c, kind |-> Cache!Victim(s1[c])]
  <1>3. PICK b \in {best, offer} :
            /\ (b = offer) => Cache!Victim(s1[c]) # None
            /\ (b = best) => (Cache!Victim(s1[c]) = None \/ best # None)
            /\ Cache!Goes(t, [s4[t] EXCEPT !.left = @ \ {c}, !.best = b])
    BY <1>2
  <1>4. c \in Caches
    BY <1>1
  <1>5. Cache!Victim(s1[c]) \in {"body", "thumb", None}
    BY DEF Cache!Victim
  <1>6. Cache!Victim(s1[c]) # None => offer \in Cache!Offer
    BY <1>4, <1>5 DEF Cache!Offer
  <1>7. b \in Cache!Offer \cup {None} /\ (b = None => best = None /\ Cache!Victim(s1[c]) = None)
    BY <1>1, <1>3, <1>6, CacheAssumption DEF Cache!Turn
  <1> DEFINE r == [s4[t] EXCEPT !.left = @ \ {c}, !.best = b]
  <1>8. r \in Cache!Turn /\ r.at = s4[t].at /\ r.left = s4[t].left \ {c} /\ r.best = b
    BY <1>1, <1>7 DEF Cache!Turn
  <1>9. s4[t].at = "peek"
    BY DEF Cache!Peek
  <1>10. Cache!Goes(t, r)
    BY <1>3
  <1> HIDE DEF r
  <1>11. Turns' /\ s4'[t] = r /\ \A u \in Goroutines \ {t} : s4'[u] = s4[u]
    BY <1>8, <1>9, <1>10, Turned
  <1>12. UNCHANGED <<s1, s2, s3>>
    BY DEF Cache!Peek
  <1>13. Cache!Evicts(t) => Cache!Evicts(t)'
    <2> SUFFICES ASSUME Cache!Evicts(t), b = None PROVE Cache!Evicts(t)'
      BY <1>8, <1>9, <1>11 DEF Cache!Evicts
    <2>1. PICK d \in s4[t].left : Cache!Victim(s1[d]) # None
      BY <1>7, <1>9 DEF Cache!Evicts
    <2>2. d \in r.left
      BY <1>7, <1>8, <2>1
    <2>3. Cache!Victim(s1[d])' # None
      BY <1>12, <2>1 DEF Cache!Victim
    <2> QED
      BY <1>8, <1>9, <1>11, <2>2, <2>3 DEF Cache!Evicts
  <1>14. Cache!SomebodyEvicts'
    BY <1>11, <1>12, <1>13, OthersEvict
  <1>15. CachesSound' /\ BudgetSound'
    BY <1>12 DEF CachesSound, BudgetSound
  <1> QED
    BY <1>11, <1>14, <1>15

(* A goroutine that gives up had nothing to evict and nowhere left to look. *)
LEMMA DropVictimStep ==
    ASSUME CachesSound, BudgetSound, Turns, Cache!SomebodyEvicts, NEW t \in Goroutines,
           Cache!DropVictim(t)
    PROVE  CachesSound' /\ BudgetSound' /\ Turns' /\ Cache!SomebodyEvicts'
  <1> DEFINE best == s4[t].best
  <1>1. /\ s4[t].at = "peek" /\ s4[t].left = {} /\ UNCHANGED <<s2, s3>>
        /\ best \in Cache!Offer \cup {None}
    BY DEF Cache!DropVictim, Turns, Cache!Turn
  <1>2. CASE best = None
    <2>1. Cache!Goes(t, Cache!Idle) /\ UNCHANGED s1
      BY <1>2 DEF Cache!DropVictim
    <2>2. Cache!Idle \in Cache!Turn /\ Cache!Idle.at # "publish"
      BY DEF Cache!Idle, Cache!Turn
    <2>3. Turns' /\ \A u \in Goroutines \ {t} : s4'[u] = s4[u]
      BY <2>1, <2>2, Turned
    <2>4. ~Cache!Evicts(t)
      BY <1>1, <1>2 DEF Cache!Evicts
    <2>5. Cache!SomebodyEvicts'
      BY <1>1, <2>1, <2>3, <2>4, OthersEvict
    <2> QED
      BY <1>1, <2>1, <2>3, <2>5 DEF CachesSound, BudgetSound
  <1>3. CASE best # None
    <2> DEFINE c == best.of  after == Cache!DropOldest(s1[c], best.kind)
    <2>1. c \in Caches
      BY <1>1, <1>3 DEF Cache!Offer
    <2>2. /\ s1' = [s1 EXCEPT ![c] = after]
          /\ Cache!Goes(t, [Cache!Idle EXCEPT !.at = "publish", !.of = c, !.n = Cache!Bytes(after)])
      BY <1>3 DEF Cache!DropVictim
    <2>3. Sound(after) /\ Fits(after)
      BY <2>1, OldestDropped DEF CachesSound
    <2> HIDE DEF c, after
    <2> QED
      BY <1>1, <2>1, <2>2, <2>3, ChangeStep
  <1> QED
    BY <1>2, <1>3

-----------------------------------------------------------------------------
LEMMA CacheStarts == Cache!Init => Cache!IInv
  <1> SUFFICES ASSUME Cache!Init PROVE CachesSound /\ BudgetSound /\ Turns /\ Cache!SomebodyEvicts
    BY PartsSuffice
  <1>1. CachesSound
    BY NothingHeld DEF Cache!Init, CachesSound, Sound
  <1>2. s2 = [c \in Caches |-> 0] /\ s3 = 0
    BY DEF Cache!Init
  <1>3. BudgetSound
    <2>1. \A c \in Caches : s2[c] = 0
      BY <1>2
    <2>2. Cache!Total(s2, Caches) = 0
      BY <2>1, ZeroTotal
    <2> QED
      BY <1>2, <2>2 DEF BudgetSound
  <1>4. Turns
    <2>1. Cache!Idle \in Cache!Turn /\ Cache!Idle.at # "publish"
      BY DEF Cache!Idle, Cache!Turn
    <2> QED
      BY <2>1 DEF Cache!Init, Turns
  <1>5. Cache!SomebodyEvicts
    BY <1>2, CacheAssumption DEF Cache!SomebodyEvicts
  <1> QED
    BY <1>1, <1>3, <1>4, <1>5

LEMMA CacheStep == Cache!IInv /\ [Cache!Next]_(Cache!vars) => Cache!IInv'
  <1> SUFFICES ASSUME Cache!IInv, [Cache!Next]_(Cache!vars)
               PROVE  CachesSound' /\ BudgetSound' /\ Turns' /\ Cache!SomebodyEvicts'
    BY PartsSuffice, PTL
  <1>1. CachesSound /\ BudgetSound /\ Turns /\ Cache!SomebodyEvicts
    BY PartsHold
  <1>2. ASSUME NEW t \in Goroutines, NEW c \in Caches, NEW after, Sound(after), Fits(after),
               Cache!Change(t, c, after)
        PROVE  CachesSound' /\ BudgetSound' /\ Turns' /\ Cache!SomebodyEvicts'
    BY <1>1, <1>2, ChangeStep DEF Cache!Change
  <1>3. \A c \in Caches : Sound(s1[c]) /\ Fits(s1[c])
    BY <1>1 DEF CachesSound
  <1>4. ASSUME NEW t \in Goroutines, NEW c \in Caches, Cache!Store(t, c)
        PROVE  CachesSound' /\ BudgetSound' /\ Turns' /\ Cache!SomebodyEvicts'
    <2>1. PICK k \in Collections :
              \/ \E l \in Lengths : Cache!Change(t, c, Cache!SetETags(s1[c], k, l))
              \/ \E p \in Objects, s \in Sizes : Cache!Change(t, c, Cache!PutBody(s1[c], k, p, s))
      BY <1>4 DEF Cache!Store
    <2>2. ASSUME NEW l \in Lengths, Cache!Change(t, c, Cache!SetETags(s1[c], k, l))
          PROVE  CachesSound' /\ BudgetSound' /\ Turns' /\ Cache!SomebodyEvicts'
      <3>1. PICK after : after = Cache!SetETags(s1[c], k, l)
        OBVIOUS
      <3>2. Sound(after) /\ Fits(after)
        BY <1>3, <3>1, ETagsSet
      <3> QED
        BY <1>2, <2>2, <3>1, <3>2
    <2>3. ASSUME NEW p \in Objects, NEW s \in Sizes, Cache!Change(t, c,
                 Cache!PutBody(s1[c], k, p, s))
          PROVE  CachesSound' /\ BudgetSound' /\ Turns' /\ Cache!SomebodyEvicts'
      <3>1. PICK after : after = Cache!PutBody(s1[c], k, p, s)
        OBVIOUS
      <3>2. Sound(after) /\ Fits(after)
        BY <1>3, <3>1, BodyPut
      <3> QED
        BY <1>2, <2>3, <3>1, <3>2
    <2> QED
      BY <2>1, <2>2, <2>3
  <1>5. ASSUME NEW t \in Goroutines, NEW c \in Caches, Cache!StoreThumb(t, c)
        PROVE  CachesSound' /\ BudgetSound' /\ Turns' /\ Cache!SomebodyEvicts'
    <2>1. PICK p \in Pictures, s \in Sizes : Cache!Change(t, c, Cache!PutThumb(s1[c], p, s))
      BY <1>5 DEF Cache!StoreThumb
    <2>2. PICK after : after = Cache!PutThumb(s1[c], p, s)
      OBVIOUS
    <2>3. Sound(after) /\ Fits(after)
      BY <1>3, <2>2, ThumbPut
    <2> QED
      BY <1>2, <2>1, <2>2, <2>3
  <1>6. ASSUME NEW t \in Goroutines, NEW c \in Caches, Cache!InvalidateCollection(t, c)
        PROVE  CachesSound' /\ BudgetSound' /\ Turns' /\ Cache!SomebodyEvicts'
    <2>1. PICK k \in Collections :
              Cache!Change(t, c, Cache!DropCollections(s1[c], Collections \ {k}))
      BY <1>6 DEF Cache!InvalidateCollection
    <2>2. PICK after : after = Cache!DropCollections(s1[c], Collections \ {k})
      OBVIOUS
    <2>3. Sound(after) /\ Fits(after)
      BY <1>3, <2>2, DroppedFits
    <2> QED
      BY <1>2, <2>1, <2>2, <2>3
  <1>7. ASSUME NEW t \in Goroutines, NEW c \in Caches, Cache!Wipe(t, c)
        PROVE  CachesSound' /\ BudgetSound' /\ Turns' /\ Cache!SomebodyEvicts'
    BY <1>2, <1>7, NothingHeld DEF Cache!Wipe
  <1>8. ASSUME NEW t \in Goroutines, NEW c \in Caches, Cache!Read(t, c)
        PROVE  CachesSound' /\ BudgetSound' /\ Turns' /\ Cache!SomebodyEvicts'
    BY <1>1, <1>8, ReadStep
  <1>9. ASSUME NEW t \in Goroutines, Cache!Publish(t)
        PROVE  CachesSound' /\ BudgetSound' /\ Turns' /\ Cache!SomebodyEvicts'
    BY <1>1, <1>9, PublishStep
  <1>10. ASSUME NEW t \in Goroutines, Cache!Check(t)
         PROVE  CachesSound' /\ BudgetSound' /\ Turns' /\ Cache!SomebodyEvicts'
    BY <1>1, <1>10, CheckStep
  <1>11. ASSUME NEW t \in Goroutines, Cache!Peek(t)
         PROVE  CachesSound' /\ BudgetSound' /\ Turns' /\ Cache!SomebodyEvicts'
    BY <1>1, <1>11, LookIntoStep
  <1>12. ASSUME NEW t \in Goroutines, Cache!DropVictim(t)
         PROVE  CachesSound' /\ BudgetSound' /\ Turns' /\ Cache!SomebodyEvicts'
    BY <1>1, <1>12, DropVictimStep
  <1>13. CASE UNCHANGED Cache!vars
    BY <1>1, <1>13 DEF Cache!vars, CachesSound, BudgetSound, Turns, Cache!SomebodyEvicts,
       Cache!Evicts, Cache!Victim
  <1>14. CASE Cache!Next
    BY <1>4, <1>5, <1>6, <1>7, <1>8, <1>9, <1>10, <1>11, <1>12, <1>14 DEF Cache!Next
  <1> QED
    BY <1>13, <1>14

(* With everybody idle, nobody would evict what there is. *)
LEMMA CacheShows == Cache!IInv => Cache!CountersMatch /\ Cache!TotalIsKept
  <1> SUFFICES ASSUME Cache!IInv, \A t \in Goroutines : s4[t].at = "idle",
                      ~(s3 <= MaxProcessBytes),
                      NEW c \in Caches, s2[c] > 0, Cache!Victim(s1[c]) # None
               PROVE  FALSE
    BY DEF Cache!IInv, Cache!TotalIsKept
  <1>1. s3 \in Nat
    BY DEF Cache!IInv, Cache!CountersMatch, Cache!TypeOK
  <1>2. PICK t \in Goroutines : Cache!Evicts(t)
    BY <1>1, CacheAssumption DEF Cache!IInv, Cache!SomebodyEvicts
  <1> QED
    BY <1>2 DEF Cache!Evicts

-----------------------------------------------------------------------------
(* Both together: the run is of one of them at a time.                                   *)
StoresHold ==
    /\ part = "listing" => Listing!IInv
    /\ part = "cache" => Cache!IInv

LEMMA StoresStart == Init => StoresHold
  BY ListingStarts, CacheStarts DEF Init, StoresHold

LEMMA StepOfOne ==
    ASSUME [Next]_vars
    PROVE  /\ part' = part
           /\ part = "listing" => [Listing!Next]_(Listing!vars)
           /\ part = "cache" => [Cache!Next]_(Cache!vars)
  <1>1. CASE Next
    <2>1. part' = part
      BY <1>1 DEF Next
    <2>2. part = "listing" => Listing!Next
      BY <1>1 DEF Next
    <2>3. part = "cache" => Cache!Next
      BY <1>1 DEF Next
    <2> QED
      BY <2>1, <2>2, <2>3
  <1>2. CASE UNCHANGED vars
    <2>1. UNCHANGED part /\ UNCHANGED <<s1, s2, s3, s4, s5, s6>>
      BY <1>2 DEF vars
    <2>2. UNCHANGED Listing!vars
      BY <2>1 DEF Listing!vars
    <2>3. UNCHANGED Cache!vars
      BY <2>1 DEF Cache!vars
    <2> QED
      BY <2>1, <2>2, <2>3
  <1> QED
    BY <1>1, <1>2

LEMMA StoresStep == ASSUME StoresHold, [Next]_vars PROVE StoresHold'
  <1>1. part = "listing" => Listing!IInv'
    BY StepOfOne, ListingStep DEF StoresHold
  <1>2. part = "cache" => Cache!IInv'
    BY StepOfOne, CacheStep DEF StoresHold
  <1> QED
    BY <1>1, <1>2, StepOfOne DEF StoresHold

LEMMA StoresInvariance == Spec => []StoresHold
  BY StoresStart, StoresStep, PTL DEF Spec

(* Whichever calls of a session overlap, and whatever others write to the server between *)
(* their requests, no range is kept under a tag newer than its objects, and an entry that *)
(* only calls without an overlap have stored is as new as its tag and as the session's own *)
(* writes: for any number of goroutines and of changes to the collection.                *)
THEOREM ListingsAreTrue == Spec => []ListingsStayTrue
  <1>1. StoresHold => ListingsStayTrue
    BY ListingShows DEF StoresHold, ListingsStayTrue
  <1> QED
    BY <1>1, StoresInvariance, PTL

(* Whatever the sessions store, read, refuse, evict and wipe together, each cache's counters *)
(* are the sums of what it holds, and once every goroutine has returned the total of the *)
(* process is within its budget or nothing is left to evict: for any number of sessions, *)
(* goroutines and collections, and any ceilings.                                         *)
THEOREM AccountsAreKept == Spec => []CountsAreKept
  <1>1. StoresHold => CountsAreKept
    BY CacheShows DEF StoresHold, CountsAreKept
  <1> QED
    BY <1>1, StoresInvariance, PTL
=============================================================================
