---------------------------- MODULE WritesProofs ----------------------------
(***************************************************************************)
(* What Carrel writes to other servers, for every number of tabs, requests of    *)
(* other clients, files, cards and sources: the inductive invariants of           *)
(* FileStore, Editing, Importing and MergeOnServer, kept by each step, and the     *)
(* two properties of MCStores that follow.  The other components of the run are    *)
(* in StoresProofs.                                                         *)
(*                                                                         *)
(* All four rest on one fact: an ETag, while the server has it, is of one body,   *)
(* so what was read under a tag that still holds is what the server has.  The     *)
(* invariants say what each handler carries from one request to the next with     *)
(* such a tag: the form a tab was given, the body of a transfer, the cards of a   *)
(* merge.  An import carries none; it creates where nothing is, and the invariant *)
(* says which of the cards it has tried and whose card an object came from.       *)
(*                                                                         *)
(* Archives and cards are sequences of any length: what is kept of them is found  *)
(* by induction over their positions (Flattened, PlacesOfBoth, PlacesOfAll and    *)
(* what follows from them).                                                *)
(***************************************************************************)
EXTENDS MCStores, FiniteSetTheorems, SequenceTheorems, WellFoundedInduction, TLAPS

-----------------------------------------------------------------------------
(* Induction over the natural numbers. *)
LessThan == {ss \in Nat \X Nat : ss[1] < ss[2]}

LEMMA NatInductive ==
    ASSUME NEW P, 0 \in P, \A i \in Nat : i \in P => i + 1 \in P
    PROVE  Nat \subseteq P
  <1> SUFFICES ASSUME Nat \ P # {} PROVE FALSE
    OBVIOUS
  <1>1. IsWellFoundedOn(LessThan, Nat)
    BY NatLessThanWellFounded DEF OpToRel, LessThan
  <1>2. PICK x \in Nat \ P : \A y \in Nat \ P : ~ (<<y, x>> \in LessThan)
    <2>1. Nat \ P \subseteq Nat
      OBVIOUS
    <2> QED
      BY <1>1, <2>1, WFMin
  <1>3. x # 0 /\ x - 1 \in Nat
    OBVIOUS
  <1>4. <<x - 1, x>> \in Nat \X Nat /\ <<x - 1, x>>[1] < <<x - 1, x>>[2]
    BY <1>3
  <1>5. x - 1 \in P
    BY <1>2, <1>3, <1>4 DEF LessThan
  <1> QED
    BY <1>3, <1>5

-----------------------------------------------------------------------------
(* What the modules below share: the definitions of the library, and sequences.          *)
LEMMA OneRequest == \A t, u \in {"request"} : t = u
  OBVIOUS

LEMMA ImportCounts == \A S : Imports!Cardinality(S) = Cardinality(S)
  BY DEF Imports!Cardinality, Cardinality

LEMMA MergeCounts == \A S : Merge!Cardinality(S) = Cardinality(S)
  BY DEF Merge!Cardinality, Cardinality

LEMMA ImportFlattens == \A s : Imports!FlattenSeq(s) = FlattenSeq(s)
  BY DEF Imports!FlattenSeq, FlattenSeq

LEMMA MergeFlattens == \A s : Merge!FlattenSeq(s) = FlattenSeq(s)
  BY DEF Merge!FlattenSeq, FlattenSeq

(* Sequences are flattened one after the other. *)
LEMMA Flattened ==
    ASSUME NEW seqs, Len(seqs) \in Nat \ {0}
    PROVE  \E joined :
              /\ joined[Len(seqs)] = FlattenSeq(seqs)
              /\ \A i \in 1 .. Len(seqs) :
                    joined[i] = IF i = 1 THEN seqs[i] ELSE joined[i - 1] \o seqs[i]
  <1> DEFINE n == Len(seqs)
             Joins(h, m) == h = [i \in 1 .. m |-> IF i = 1 THEN seqs[i] ELSE h[i - 1] \o seqs[i]]
             flatten == CHOOSE h : Joins(h, n)
  <1>1. \E h : Joins(h, n)
    <2> DEFINE P == {m \in Nat : \E h : Joins(h, m)}
    <2>1. 0 \in P
      <3>1. Joins([i \in 1 .. 0 |-> <<>>], 0)
        OBVIOUS
      <3> QED
        BY <3>1
    <2>2. ASSUME NEW m \in Nat, m \in P PROVE m + 1 \in P
      <3>1. PICK h : Joins(h, m)
        BY <2>2
      <3> DEFINE last == IF m = 0 THEN seqs[m + 1] ELSE h[m] \o seqs[m + 1]
                 g == [i \in 1 .. m + 1 |-> IF i = m + 1 THEN last ELSE h[i]]
      <3>2. \A i \in 1 .. m + 1 : g[i] = IF i = m + 1 THEN last ELSE h[i]
        OBVIOUS
      <3>3. g = [i \in 1 .. m + 1 |-> g[i]]
        OBVIOUS
      <3> HIDE DEF g
      <3>4. \A i \in 1 .. m : h[i] = IF i = 1 THEN seqs[i] ELSE h[i - 1] \o seqs[i]
        BY <3>1
      <3>5. ASSUME NEW i \in 1 .. m + 1
            PROVE  g[i] = IF i = 1 THEN seqs[i] ELSE g[i - 1] \o seqs[i]
        <4>1. CASE i = m + 1
          <5>1. g[i] = last
            BY <3>2, <4>1
          <5>2. CASE m = 0
            BY <4>1, <5>1, <5>2
          <5>3. CASE m # 0
            <6>1. i # 1 /\ i - 1 = m /\ i - 1 \in 1 .. m + 1 /\ i - 1 # m + 1
              BY <4>1, <5>3
            <6>2. g[i - 1] = h[m]
              BY <3>2, <6>1
            <6> QED
              BY <4>1, <5>1, <5>3, <6>1, <6>2
          <5> QED
            BY <5>2, <5>3
        <4>2. CASE i \in 1 .. m
          <5>1. i # m + 1 /\ (i # 1 => i - 1 \in 1 .. m + 1 /\ i - 1 # m + 1)
            BY <4>2
          <5> QED
            BY <3>2, <3>4, <4>2, <5>1
        <4> QED
          BY <4>1, <4>2
      <3>6. Joins(g, m + 1)
        BY <3>3, <3>5
      <3>7. \E x : Joins(x, m + 1)
        BY <3>6
      <3> HIDE DEF Joins
      <3> QED
        BY <3>7
    <2> HIDE DEF P
    <2>3. n \in P
      BY <2>1, <2>2, NatInductive
    <2> QED
      BY <2>3 DEF P
  <1>2. Joins(flatten, n)
    BY <1>1
  <1>3. FlattenSeq(seqs) = flatten[n]
    BY DEF FlattenSeq
  <1> HIDE DEF flatten
  <1>4. \A i \in 1 .. n : flatten[i] = IF i = 1 THEN seqs[i] ELSE flatten[i - 1] \o seqs[i]
    BY <1>2
  <1> QED
    BY <1>3, <1>4
-----------------------------------------------------------------------------
(* Editing. *)
Whole(body) == body \in Edits!Bodies /\ Edits!ToSet(body.links) \subseteq s3
Writes == {"put", "create", "apply"}
Stages == {"idle", "get", "upload", "put", "create", "apply", "delete", "conflict", "reread"}
Deeds == {"none", "save", "toggle", "detach", "attach", "delete", "apply"}
Requests == [at : Stages, does : Deeds, etag : Nat, body : Edits!Bodies \cup {Edits!Gone, Edits!NoBody},
             arg : Nat \cup Files]

EditTypes ==
    /\ s2 \in [etag : Nat, body : Edits!Bodies \cup {Edits!Gone}]
    /\ DOMAIN s4 = Edits!Sessions
    /\ s5 = [u \in Tabs |-> s5[u]]
    /\ s6 \in [Tabs -> Requests]

(* What a request is about to store has its files. *)
Carries(o) ==
    /\ o \in Requests
    /\ o.at \in Writes \cup {"upload", "reread"} => Whole(o.body)
    /\ o.at = "conflict" => o.body = Edits!NoBody \/ Whole(o.body)
    /\ o.at \in {"get", "put"} /\ o.does = "detach" => o.arg \in Nat \ {0}

LinksStand ==
    /\ Edits!There => Whole(s2.body)
    /\ \A s \in Edits!Sessions : \/ s4[s] = Edits!NoDraft
                                 \/ s4[s].body = Edits!NoBody
                                 \/ Whole(s4[s].body)
    /\ \A t \in Tabs : Carries(s6[t])

(* A version names one content, so a form is of what its version was. *)
Formed(t, p, o) ==
    /\ p.kind = "card" =>
          /\ p.etag \in Nat /\ p.etag <= s2.etag
          /\ p.etag = s2.etag => p.body = s2.body
    /\ o.at \in {"get", "upload", "put", "delete"} => p.kind = "card" /\ o.etag = p.etag
    /\ o.at \in {"get", "put"} => o.does \in {"save", "toggle", "detach", "attach"}
    /\ o.at = "delete" => o.does = "delete"
    /\ o.at = "upload" =>
          o.does = "attach" /\ (o.etag = s2.etag => o.body = p.body)
    /\ o.at = "put" /\ o.etag = s2.etag => o.body = Edits!Edited(t, o.does, o.arg, p.body)

FormsAreOfTheirVersion == \A t \in Tabs : Formed(t, s5[t], s6[t])

EditsHold == EditTypes /\ LinksStand /\ FormsAreOfTheirVersion /\ Edits!RefusalAwaitsDecision

-----------------------------------------------------------------------------
LEMMA EditsStart == Edits!Init => EditsHold
  <1> SUFFICES ASSUME Edits!Init PROVE EditsHold
    OBVIOUS
  <1>1. s2 \in [etag : Nat, body : Edits!Bodies \cup {Edits!Gone}] /\ s2.body.links = <<>>
        /\ s2.body \in Edits!Bodies
    <2>1. <<>> \in Seq(Files)
      OBVIOUS
    <2> QED
      BY <2>1 DEF Edits!Init, Edits!Bodies, Edits!Foreign
  <1>2. Edits!Idle \in Requests
    BY DEF Edits!Idle, Requests, Stages, Deeds
  <1>3. EditTypes
    BY <1>1, <1>2 DEF Edits!Init, EditTypes
  <1>4. Edits!ToSet(<<>>) = {}
    BY DEF Edits!ToSet
  <1>5. LinksStand
    BY <1>1, <1>2, <1>4 DEF Edits!Init, LinksStand, Carries, Whole, Edits!Idle, Writes
  <1>6. FormsAreOfTheirVersion /\ Edits!RefusalAwaitsDecision
    BY DEF Edits!Init, FormsAreOfTheirVersion, Formed, Edits!RefusalAwaitsDecision,
       Edits!Idle, Edits!Blank
  <1> QED
    BY <1>3, <1>5, <1>6 DEF EditsHold

(* The edits keep the links to files. *)
LEMMA EditIsWhole ==
    ASSUME NEW body, Whole(body), NEW t \in Tabs, NEW does \in {"save", "toggle", "detach"},
           NEW arg, does = "detach" => arg \in 1 .. Len(body.links)
    PROVE  Whole(Edits!Edited(t, does, arg, body))
  <1>1. body \in Edits!Bodies /\ body.links \in Seq(Files)
    BY DEF Whole, Edits!Bodies
  <1>2. CASE does = "save"
    <2>1. Edits!Edited(t, does, arg, body) = [body EXCEPT !.text = t]
      BY <1>2 DEF Edits!Edited
    <2> QED
      BY <1>1, <2>1 DEF Whole, Edits!Bodies
  <1>3. CASE does = "toggle"
    <2>1. Edits!Edited(t, does, arg, body) = [body EXCEPT !.done = ~@]
      BY <1>3 DEF Edits!Edited, Edits!Ticked
    <2> QED
      BY <1>1, <2>1 DEF Whole, Edits!Bodies
  <1>4. CASE does = "detach"
    <2>1. Edits!Edited(t, does, arg, body) = [body EXCEPT !.links = Edits!RemoveAt(@, arg)]
      BY <1>4 DEF Edits!Edited, Edits!Detached
    <2>2. PICK l \in Seq(Files) : l = body.links
      BY <1>1
    <2>3. arg \in 1 .. Len(l)
      BY <1>4, <2>2
    <2>4. Edits!RemoveAt(l, arg) \in Seq(Files)
          /\ \A i \in 1 .. Len(Edits!RemoveAt(l, arg)) :
                \E j \in 1 .. Len(l) : Edits!RemoveAt(l, arg)[i] = l[j]
      <3>1. /\ SubSeq(l, 1, arg - 1) \in Seq(Files)
            /\ SubSeq(l, arg + 1, Len(l)) \in Seq(Files)
        BY <2>2, <2>3, SubSeqProperties
      <3>2. /\ Len(SubSeq(l, 1, arg - 1)) = arg - 1
            /\ Len(SubSeq(l, arg + 1, Len(l))) = Len(l) - arg
            /\ \A i \in 1 .. arg - 1 : SubSeq(l, 1, arg - 1)[i] = l[i]
            /\ \A i \in 1 .. Len(l) - arg : SubSeq(l, arg + 1, Len(l))[i] = l[arg + i]
        BY <2>2, <2>3
      <3> QED
        <4>1. PICK a, b \in Seq(Files) :
                  a = SubSeq(l, 1, arg - 1) /\ b = SubSeq(l, arg + 1, Len(l))
          BY <3>1
        <4>2. Edits!RemoveAt(l, arg) = a \o b
          BY <4>1 DEF Edits!RemoveAt
        <4>3. /\ Len(a) = arg - 1 /\ Len(b) = Len(l) - arg
              /\ \A i \in 1 .. arg - 1 : a[i] = l[i]
              /\ \A i \in 1 .. Len(l) - arg : b[i] = l[arg + i]
          BY <4>1, <3>2
        <4>4. arg \in 1 .. Len(l) /\ Len(l) \in Nat /\ arg \in Nat
          BY <2>2, <2>3
        <4>5. /\ a \o b \in Seq(Files) /\ Len(a \o b) = Len(a) + Len(b)
              /\ \A i \in 1 .. Len(a \o b) :
                    (a \o b)[i] = IF i <= Len(a) THEN a[i] ELSE b[i - Len(a)]
          BY <4>1, ConcatProperties, SMTT(40)
        <4>6. ASSUME NEW i \in 1 .. Len(a \o b)
              PROVE  \E j \in 1 .. Len(l) : (a \o b)[i] = l[j]
          <5>1. CASE i <= Len(a)
            BY <4>3, <4>4, <4>5, <4>6, <5>1
          <5>2. CASE ~(i <= Len(a))
            <6>1. i \in Nat /\ i - Len(a) \in 1 .. Len(l) - arg
              BY <4>3, <4>4, <4>5, <4>6, <5>2
            <6>2. (a \o b)[i] = l[arg + (i - Len(a))]
              BY <4>3, <4>5, <4>6, <5>2, <6>1
            <6>3. arg + (i - Len(a)) \in 1 .. Len(l)
              BY <4>3, <4>4, <6>1
            <6> QED
              BY <6>2, <6>3
          <5> QED
            BY <5>1, <5>2
        <4> QED
          BY <4>2, <4>5, <4>6
    <2>5. Edits!ToSet(Edits!RemoveAt(l, arg)) \subseteq Edits!ToSet(l)
      BY <2>4 DEF Edits!ToSet
    <2>6. Edits!ToSet(l) \subseteq s3
      BY <2>2 DEF Whole
    <2>7. [body EXCEPT !.links = Edits!RemoveAt(l, arg)] \in Edits!Bodies
          /\ [body EXCEPT !.links = Edits!RemoveAt(l, arg)].links = Edits!RemoveAt(l, arg)
      BY <1>1, <2>4 DEF Edits!Bodies
    <2> QED
      BY <2>1, <2>2, <2>5, <2>6, <2>7 DEF Whole
  <1> QED
    BY <1>2, <1>3, <1>4

LEMMA LinkIsWhole ==
    ASSUME NEW body, Whole(body), NEW t \in Tabs, NEW name \in Files,
           s3' = s3 \cup {name}
    PROVE  Whole(Edits!Edited(t, "attach", name, body))'
  <1>1. body \in Edits!Bodies /\ body.links \in Seq(Files)
    BY DEF Whole, Edits!Bodies
  <1>2. PICK l \in Seq(Files) : l = body.links
    BY <1>1
  <1>3. PICK b : b = [body EXCEPT !.links = Append(l, name)]
    OBVIOUS
  <1>4. Edits!Edited(t, "attach", name, body) = b
    <2>1. Edits!Edited(t, "attach", name, body) = Edits!Attached(body, name)
      BY DEF Edits!Edited
    <2> QED
      BY <1>2, <1>3, <2>1 DEF Edits!Attached
  <1>5. b \in Edits!Bodies /\ b.links = Append(l, name)
    <2>1. Append(l, name) \in Seq(Files)
      BY <1>2
    <2> QED
      BY <1>1, <1>2, <1>3, <2>1 DEF Edits!Bodies
  <1>6. Edits!ToSet(Append(l, name)) \subseteq Edits!ToSet(l) \cup {name}
    BY <1>2 DEF Edits!ToSet
  <1>7. Edits!ToSet(l) \subseteq s3
    BY <1>2 DEF Whole
  <1>8. Edits!ToSet(b.links) \subseteq s3'
    BY <1>5, <1>6, <1>7
  <1> QED
    BY <1>4, <1>5, <1>8 DEF Whole

-----------------------------------------------------------------------------
(* What a tab does, when it leaves the object as it is. *)
LEMMA TabMoves ==
    ASSUME EditsHold, NEW t \in Tabs, NEW o, NEW p,
           s6' = [s6 EXCEPT ![t] = o], s5' = [s5 EXCEPT ![t] = p],
           s2' = s2, s3' = s3,
           Carries(o), Formed(t, p, o)
    PROVE  /\ s6' \in [Tabs -> Requests] /\ s5' = [u \in Tabs |-> s5'[u]]
           /\ (Edits!There => Whole(s2.body))'
           /\ \A u \in Tabs : Carries(s6[u])' /\ Formed(u, s5[u], s6[u])'
  <1>1. s6 \in [Tabs -> Requests] /\ s5 = [u \in Tabs |-> s5[u]]
    BY DEF EditsHold, EditTypes
  <1>2. o \in Requests
    BY DEF Carries
  <1>3. s6' \in [Tabs -> Requests] /\ s5' = [u \in Tabs |-> s5'[u]]
    BY <1>1, <1>2
  <1>4. \A b : Whole(b) => Whole(b)'
    BY DEF Whole
  <1>5. (Edits!There => Whole(s2.body))'
    BY <1>4 DEF EditsHold, LinksStand, Edits!There, Whole
  <1>6. ASSUME NEW u \in Tabs PROVE Carries(s6[u])' /\ Formed(u, s5[u], s6[u])'
    <2>1. CASE u = t
      <3>1. s6'[u] = o /\ s5'[u] = p
        BY <1>1, <2>1
      <3>2. Carries(s6[u])'
        BY <3>1 DEF Carries, Whole
      <3>3. Formed(u, s5[u], s6[u])'
        BY <2>1, <3>1 DEF Formed
      <3> QED
        BY <3>2, <3>3
    <2>2. CASE u # t
      <3>1. s6'[u] = s6[u] /\ s5'[u] = s5[u]
        BY <1>1, <2>2
      <3>2. Carries(s6[u]) /\ Formed(u, s5[u], s6[u])
        BY DEF EditsHold, LinksStand, FormsAreOfTheirVersion
      <3>3. Carries(s6[u])'
        BY <3>1, <3>2 DEF Carries, Whole
      <3>4. Formed(u, s5[u], s6[u])'
        BY <3>1, <3>2 DEF Formed
      <3> QED
        BY <3>3, <3>4
    <2> QED
      BY <2>1, <2>2
  <1> QED
    BY <1>3, <1>5, <1>6

(* What a tab does when the object changes with it: every form of the object is then of a *)
(* version before, and no tab but this one moves.                                         *)
LEMMA TabStores ==
    ASSUME EditsHold, NEW t \in Tabs, NEW o, NEW p, NEW b,
           s6' = [s6 EXCEPT ![t] = o], s5' = [s5 EXCEPT ![t] = p],
           Edits!Store(b), b = Edits!Gone \/ Whole(b), s3' = s3,
           Carries(o), o.at = "idle", p.kind = "card" => s5[t] = p
    PROVE  /\ s2' \in [etag : Nat, body : Edits!Bodies \cup {Edits!Gone}]
           /\ s6' \in [Tabs -> Requests] /\ s5' = [u \in Tabs |-> s5'[u]]
           /\ (Edits!There => Whole(s2.body))'
           /\ \A u \in Tabs : Carries(s6[u])' /\ Formed(u, s5[u], s6[u])'
  <1>1. s6 \in [Tabs -> Requests] /\ s5 = [u \in Tabs |-> s5[u]] /\ s2.etag \in Nat
    BY DEF EditsHold, EditTypes
  <1>2. o \in Requests
    BY DEF Carries
  <1>3. s6' \in [Tabs -> Requests] /\ s5' = [u \in Tabs |-> s5'[u]]
    BY <1>1, <1>2
  <1>4. s2'.etag = s2.etag + 1 /\ s2'.body = b
    BY DEF Edits!Store
  <1>5. s2' \in [etag : Nat, body : Edits!Bodies \cup {Edits!Gone}]
    <2>1. b \in Edits!Bodies \cup {Edits!Gone}
      BY DEF Whole
    <2> QED
      BY <1>1, <2>1 DEF Edits!Store
  <1>6. (Edits!There => Whole(s2.body))'
    BY <1>4 DEF Edits!There, Whole
  <1>7. ASSUME NEW u \in Tabs PROVE Carries(s6[u])' /\ Formed(u, s5[u], s6[u])'
    <2>1. Carries(s6[u]) /\ Formed(u, s5[u], s6[u])
      BY DEF EditsHold, LinksStand, FormsAreOfTheirVersion
    <2>2. CASE u = t
      <3>1. s6'[u] = o /\ s5'[u] = p
        BY <1>1, <2>2
      <3>2. Carries(s6[u])'
        BY <3>1 DEF Carries, Whole
      <3>3. p.kind = "card" => p.etag \in Nat /\ p.etag <= s2.etag
        BY <2>1, <2>2 DEF Formed
      <3>4. Formed(u, s5[u], s6[u])'
        BY <1>1, <1>4, <3>1, <3>3 DEF Formed
      <3> QED
        BY <3>2, <3>4
    <2>3. CASE u # t
      <3>1. s6'[u] = s6[u] /\ s5'[u] = s5[u]
        BY <1>1, <2>3
      <3>2. Carries(s6[u])'
        BY <2>1, <3>1 DEF Carries, Whole
      <3>3. Formed(u, s5[u], s6[u])'
        BY <1>1, <1>4, <2>1, <3>1 DEF Formed
      <3> QED
        BY <3>2, <3>3
    <2> QED
      BY <2>2, <2>3
  <1> QED
    BY <1>3, <1>5, <1>6, <1>7

(* A conflict on the screen keeps its draft while only its own tab decides. *)
LEMMA DraftsStay ==
    ASSUME EditsHold, NEW t \in Tabs, NEW p, s5' = [s5 EXCEPT ![t] = p],
           s7' = s7, DOMAIN s4' = DOMAIN s4,
           \A s \in Edits!Sessions \ {s7[t]} : s4'[s] = s4[s],
           p.kind = "conflict" => s4'[s7[t]] = [body |-> p.local]
    PROVE  Edits!RefusalAwaitsDecision'
  <1>1. s5 = [u \in Tabs |-> s5[u]] /\ Edits!RefusalAwaitsDecision
    BY DEF EditsHold, EditTypes
  <1>2. SUFFICES ASSUME NEW u \in Tabs, s5'[u].kind = "conflict",
                        \A v \in Tabs \ {u} : s7[v] # s7[u]
                 PROVE  s4'[s7[u]] = [body |-> s5'[u].local]
    BY DEF Edits!RefusalAwaitsDecision
  <1>3. CASE u = t
    BY <1>1, <1>2, <1>3
  <1>4. CASE u # t
    <2>1. s5'[u] = s5[u]
      BY <1>1, <1>4
    <2>2. s4[s7[u]] = [body |-> s5[u].local]
      BY <1>1, <1>2, <2>1 DEF Edits!RefusalAwaitsDecision
    <2>3. s7[u] \in Edits!Sessions \ {s7[t]}
      BY <1>2, <1>4 DEF Edits!Sessions
    <2> QED
      BY <2>1, <2>2, <2>3
  <1> QED
    BY <1>3, <1>4

LEMMA DraftsAreWhole ==
    ASSUME EditsHold, NEW t \in Tabs, s3' = s3,
           s7' = s7, DOMAIN s4' = DOMAIN s4,
           \A s \in Edits!Sessions \ {s7[t]} : s4'[s] = s4[s],
           \/ s4'[s7[t]] = s4[s7[t]]
           \/ s4'[s7[t]] = Edits!NoDraft
           \/ s4'[s7[t]].body = Edits!NoBody
           \/ Whole(s4'[s7[t]].body)
    PROVE  /\ (DOMAIN s4 = Edits!Sessions)'
           /\ (\A s \in Edits!Sessions : \/ s4[s] = Edits!NoDraft
                                         \/ s4[s].body = Edits!NoBody
                                         \/ Whole(s4[s].body))'
  <1>1. Edits!Sessions' = Edits!Sessions
    BY DEF Edits!Sessions
  <1>2. SUFFICES ASSUME NEW s \in Edits!Sessions
                 PROVE  \/ s4'[s] = Edits!NoDraft
                        \/ s4'[s].body = Edits!NoBody
                        \/ Whole(s4'[s].body)
    BY <1>1 DEF EditsHold, EditTypes, Whole
  <1>3. \/ s4[s] = Edits!NoDraft
        \/ s4[s].body = Edits!NoBody
        \/ Whole(s4[s].body)
    BY <1>2 DEF EditsHold, LinksStand
  <1>4. CASE s = s7[t]
    BY <1>3, <1>4
  <1>5. CASE s # s7[t]
    BY <1>2, <1>3, <1>5
  <1> QED
    BY <1>4, <1>5

(* The two kinds of step a tab takes. *)
LEMMA TabStep ==
    ASSUME EditsHold, NEW t \in Tabs, NEW o, NEW p,
           s6' = [s6 EXCEPT ![t] = o], s5' = [s5 EXCEPT ![t] = p],
           s2' = s2, s3' = s3, Carries(o), Formed(t, p, o),
           s7' = s7, DOMAIN s4' = DOMAIN s4,
           \A s \in Edits!Sessions \ {s7[t]} : s4'[s] = s4[s],
           \/ s4'[s7[t]] = s4[s7[t]]
           \/ s4'[s7[t]] = Edits!NoDraft
           \/ s4'[s7[t]].body = Edits!NoBody
           \/ Whole(s4'[s7[t]].body),
           p.kind = "conflict" =>
               \/ s4'[s7[t]] = [body |-> p.local]
               \/ p = s5[t] /\ s4' = s4
    PROVE  EditsHold'
  <1>1. s2' \in [etag : Nat, body : Edits!Bodies \cup {Edits!Gone}]
    BY DEF EditsHold, EditTypes
  <1>2. /\ s6' \in [Tabs -> Requests] /\ s5' = [u \in Tabs |-> s5'[u]]
        /\ (Edits!There => Whole(s2.body))'
        /\ \A u \in Tabs : Carries(s6[u])' /\ Formed(u, s5[u], s6[u])'
    BY TabMoves
  <1>3. /\ (DOMAIN s4 = Edits!Sessions)'
        /\ (\A s \in Edits!Sessions : \/ s4[s] = Edits!NoDraft
                                      \/ s4[s].body = Edits!NoBody
                                      \/ Whole(s4[s].body))'
    BY DraftsAreWhole
  <1>4. Edits!RefusalAwaitsDecision'
    <2>1. CASE p = s5[t] /\ s4' = s4
      <3>1. s5' = s5
        BY <2>1 DEF EditsHold, EditTypes
      <3> QED
        BY <2>1, <3>1 DEF EditsHold, Edits!RefusalAwaitsDecision
    <2>2. CASE p.kind = "conflict" => s4'[s7[t]] = [body |-> p.local]
      BY <2>2, DraftsStay
    <2> QED
      BY <2>1, <2>2
  <1> QED
    BY <1>1, <1>2, <1>3, <1>4 DEF EditsHold, EditTypes, LinksStand, FormsAreOfTheirVersion

LEMMA TabStoreStep ==
    ASSUME EditsHold, NEW t \in Tabs, NEW o, NEW p, NEW b,
           s6' = [s6 EXCEPT ![t] = o], s5' = [s5 EXCEPT ![t] = p],
           Edits!Store(b), b = Edits!Gone \/ Whole(b), s3' = s3,
           Carries(o), o.at = "idle", p = Edits!Blank \/ (p = s5[t] /\ s4' = s4),
           s7' = s7, DOMAIN s4' = DOMAIN s4,
           \A s \in Edits!Sessions \ {s7[t]} : s4'[s] = s4[s],
           s4'[s7[t]] \in {s4[s7[t]], Edits!NoDraft}
    PROVE  EditsHold'
  <1>1. Edits!Blank.kind # "card" /\ Edits!Blank.kind # "conflict"
    BY DEF Edits!Blank
  <1>2. /\ s2' \in [etag : Nat, body : Edits!Bodies \cup {Edits!Gone}]
        /\ s6' \in [Tabs -> Requests] /\ s5' = [u \in Tabs |-> s5'[u]]
        /\ (Edits!There => Whole(s2.body))'
        /\ \A u \in Tabs : Carries(s6[u])' /\ Formed(u, s5[u], s6[u])'
    BY <1>1, TabStores
  <1>3. /\ (DOMAIN s4 = Edits!Sessions)'
        /\ (\A s \in Edits!Sessions : \/ s4[s] = Edits!NoDraft
                                      \/ s4[s].body = Edits!NoBody
                                      \/ Whole(s4[s].body))'
    BY DraftsAreWhole
  <1>4. Edits!RefusalAwaitsDecision'
    <2>1. CASE p = s5[t] /\ s4' = s4
      <3>1. s5' = s5
        BY <2>1 DEF EditsHold, EditTypes
      <3> QED
        BY <2>1, <3>1 DEF EditsHold, Edits!RefusalAwaitsDecision
    <2>2. CASE p = Edits!Blank
      BY <1>1, <2>2, DraftsStay
    <2> QED
      BY <2>1, <2>2
  <1> QED
    BY <1>2, <1>3, <1>4 DEF EditsHold, EditTypes, LinksStand, FormsAreOfTheirVersion

-----------------------------------------------------------------------------
LEMMA EditFacts ==
    ASSUME EditsHold, NEW t \in Tabs
    PROVE  /\ s6[t] \in Requests /\ Carries(s6[t]) /\ Formed(t, s5[t], s6[t])
           /\ s6 = [s6 EXCEPT ![t] = s6[t]] /\ s5 = [s5 EXCEPT ![t] = s5[t]]
           /\ s2 \in [etag : Nat, body : Edits!Bodies \cup {Edits!Gone}]
           /\ Edits!There => Whole(s2.body)
           /\ s7[t] \in DOMAIN s4 /\ DOMAIN s4 = Edits!Sessions
           /\ \/ s4[s7[t]] = Edits!NoDraft
              \/ s4[s7[t]].body = Edits!NoBody
              \/ Whole(s4[s7[t]].body)
           /\ Carries(Edits!Idle)
           /\ Formed(t, s5[t], Edits!Idle)
           /\ Formed(t, Edits!Blank, Edits!Idle)
  <1>1. Formed(t, s5[t], s6[t])
    BY DEF EditsHold, FormsAreOfTheirVersion
  <1>2. Edits!Idle \in Requests
    BY DEF Edits!Idle, Requests, Stages, Deeds
  <1>3. /\ Carries(Edits!Idle)
        /\ Formed(t, s5[t], Edits!Idle)
        /\ Formed(t, Edits!Blank, Edits!Idle)
    BY <1>1, <1>2 DEF Carries, Formed, Edits!Idle, Edits!Blank, Writes
  <1>4. s7[t] \in Edits!Sessions
    BY DEF Edits!Sessions
  <1>5. /\ s6 \in [Tabs -> Requests]
        /\ s5 = [u \in Tabs |-> s5[u]]
        /\ DOMAIN s4 = Edits!Sessions
        /\ s2 \in [etag : Nat, body : Edits!Bodies \cup {Edits!Gone}]
    BY DEF EditsHold, EditTypes
  <1>6. s5 = [s5 EXCEPT ![t] = s5[t]]
    BY <1>5
  <1> QED
    BY <1>1, <1>3, <1>4, <1>5, <1>6 DEF EditsHold, LinksStand

LEMMA OpenStep == ASSUME EditsHold, NEW t \in Tabs, Edits!Open(t) PROVE EditsHold'
  <1>1. PICK p : /\ p = IF Edits!There THEN [Edits!Blank EXCEPT !.kind = "card", !.etag = s2.etag,
                                                    !.body = s2.body]
                        ELSE Edits!Blank
                 /\ s5' = [s5 EXCEPT ![t] = p]
    BY DEF Edits!Open
  <1>2. s6[t].at = "idle" /\ s6' = [s6 EXCEPT ![t] = s6[t]]
    BY EditFacts DEF Edits!Open, Edits!At
  <1>3. \/ p = Edits!Blank
        \/ p.kind = "card" /\ p.etag = s2.etag /\ p.body = s2.body
    BY <1>1 DEF Edits!Blank
  <1>4. Edits!Blank.kind = "none"
    BY DEF Edits!Blank
  <1>5. Formed(t, p, s6[t]) /\ p.kind # "conflict"
    BY <1>2, <1>3, <1>4, EditFacts DEF Formed
  <1> QED
    BY <1>1, <1>2, <1>5, EditFacts, TabStep DEF Edits!Open

LEMMA SubmitStep == ASSUME EditsHold, NEW t \in Tabs, Edits!Submit(t) PROVE EditsHold'
  <1>1. \E does \in {"save", "toggle", "detach", "attach", "delete"}, arg \in Nat \ {0} :
          s6' = [s6 EXCEPT ![t] = [Edits!Idle EXCEPT
                    !.at = IF does = "delete" THEN "delete" ELSE "get",
                    !.does = does, !.arg = arg, !.etag = s5[t].etag]]
    <2>1. PICK does \in Edits!Edits \cup {"delete"} :
            \E arg \in IF does = "detach" THEN 1 .. Len(s5[t].body.links) ELSE {1} :
              s6' = [s6 EXCEPT ![t] = [Edits!Idle EXCEPT
                        !.at = IF does = "delete" THEN "delete" ELSE "get",
                        !.does = does, !.arg = arg, !.etag = s5[t].etag]]
      BY DEF Edits!Submit
    <2>2. does \in {"save", "toggle", "detach", "attach", "delete"}
      BY DEF Edits!Edits
    <2>3. \A arg \in IF does = "detach" THEN 1 .. Len(s5[t].body.links) ELSE {1} :
             arg \in Nat \ {0}
      OBVIOUS
    <2> QED
      BY <2>1, <2>2, <2>3
  <1>2. PICK does \in {"save", "toggle", "detach", "attach", "delete"}, arg \in Nat \ {0} :
          s6' = [s6 EXCEPT ![t] = [Edits!Idle EXCEPT
                    !.at = IF does = "delete" THEN "delete" ELSE "get",
                    !.does = does, !.arg = arg, !.etag = s5[t].etag]]
    BY <1>1
  <1>3. PICK o : o = [Edits!Idle EXCEPT !.at = IF does = "delete" THEN "delete" ELSE "get",
                                  !.does = does, !.arg = arg, !.etag = s5[t].etag]
    OBVIOUS
  <1>4. s6' = [s6 EXCEPT ![t] = o]
    BY <1>2, <1>3
  <1>5. s5[t].kind = "card" /\ s5[t].etag \in Nat
    BY EditFacts DEF Edits!Submit, Formed
  <1>6. /\ o.at = IF does = "delete" THEN "delete" ELSE "get"
        /\ o.does = does /\ o.arg = arg /\ o.etag = s5[t].etag /\ o.body = Edits!Gone
        /\ o = [at |-> o.at, does |-> o.does, etag |-> o.etag, body |-> o.body, arg |-> o.arg]
    BY <1>3 DEF Edits!Idle
  <1>7. o \in Requests
    BY <1>2, <1>5, <1>6 DEF Requests, Stages, Deeds
  <1>8. Carries(o)
    BY <1>2, <1>6, <1>7 DEF Carries, Writes
  <1>9. Formed(t, s5[t], o)
    <2>1. /\ s5[t].kind = "card" /\ s5[t].etag <= s2.etag /\ o.etag = s5[t].etag
          /\ s5[t].etag = s2.etag => s5[t].body = s2.body
      BY <1>5, <1>6, EditFacts DEF Formed
    <2>2. \/ o.at = "get" /\ o.does \in {"save", "toggle", "detach", "attach"}
          \/ o.at = "delete" /\ o.does = "delete"
      BY <1>2, <1>6
    <2> QED
      BY <1>5, <2>1, <2>2 DEF Formed
  <1>10. UNCHANGED <<s7, s1, s2, s3, s4, s5>>
    BY DEF Edits!Submit
  <1>11. s5[t].kind = "conflict" => s5 = s5 /\ s4' = s4
    BY <1>10
  <1>12. s5' = [s5 EXCEPT ![t] = s5[t]]
    BY <1>10, EditFacts
  <1> QED
    BY <1>4, <1>8, <1>9, <1>10, <1>12, TabStep

LEMMA ReadForEditStep == ASSUME EditsHold, NEW t \in Tabs,
    Edits!ReadForEdit(t) PROVE EditsHold'
  <1>1. s6[t].at = "get" /\ UNCHANGED <<s7, s1, s2, s3, s4, s5>>
    BY DEF Edits!ReadForEdit, Edits!At
  <1>2. CASE /\ Edits!There /\ s6[t].does # "attach"
             /\ s6[t].does = "detach" => s6[t].arg <= Len(s2.body.links)
             /\ s6' = [s6 EXCEPT ![t].at = "put",
                                 ![t].body = Edits!Edited(t, s6[t].does, s6[t].arg, s2.body)]
    <2>1. PICK b : b = Edits!Edited(t, s6[t].does, s6[t].arg, s2.body)
      OBVIOUS
    <2>2. PICK o : o = [s6[t] EXCEPT !.at = "put", !.body = b]
      OBVIOUS
    <2>3. s6' = [s6 EXCEPT ![t] = o]
      BY <1>2, <2>1, <2>2
    <2>4. s6[t].does \in {"save", "toggle", "detach"}
      BY <1>1, <1>2, EditFacts DEF Formed
    <2>5. Whole(s2.body)
      BY <1>2, EditFacts
    <2>6. s6[t].does = "detach" => s6[t].arg \in 1 .. Len(s2.body.links)
      <3>1. s2.body.links \in Seq(Files)
        BY <2>5 DEF Whole, Edits!Bodies
      <3>2. s6[t].does = "detach" => s6[t].arg \in Nat \ {0}
        BY <1>1, EditFacts DEF Carries
      <3> QED
        BY <1>2, <3>1, <3>2
    <2>7. Whole(b)
      BY <2>1, <2>4, <2>5, <2>6, EditIsWhole
    <2>8. /\ o.at = "put" /\ o.body = b /\ o.does = s6[t].does /\ o.arg = s6[t].arg
          /\ o.etag = s6[t].etag
      BY <2>2, EditFacts DEF Requests
    <2>9. o \in Requests
      BY <2>2, <2>7, EditFacts DEF Requests, Stages, Whole
    <2>10. Carries(o)
      BY <1>1, <2>7, <2>8, <2>9, EditFacts DEF Carries, Writes
    <2>11. /\ s5[t].kind = "card" /\ s6[t].etag = s5[t].etag
           /\ s5[t].etag = s2.etag => s5[t].body = s2.body
      BY <1>1, EditFacts DEF Formed
    <2>12. Formed(t, s5[t], o)
      <3>1. o.etag = s2.etag => o.body = Edits!Edited(t, o.does, o.arg, s5[t].body)
        BY <2>1, <2>8, <2>11
      <3> QED
        BY <2>4, <2>8, <2>11, <3>1, EditFacts DEF Formed
    <2> QED
      BY <1>1, <2>3, <2>10, <2>12, EditFacts, TabStep
  <1>3. CASE /\ Edits!There
             /\ s6[t].does = "attach"
             /\ s6' = [s6 EXCEPT ![t].at = "upload", ![t].body = s2.body]
    <2>1. PICK b : b = s2.body
      OBVIOUS
    <2>2. PICK o : o = [s6[t] EXCEPT !.at = "upload", !.body = b]
      OBVIOUS
    <2>3. s6' = [s6 EXCEPT ![t] = o]
      BY <1>3, <2>1, <2>2
    <2>4. Whole(b)
      BY <1>3, <2>1, EditFacts
    <2>5. /\ o.at = "upload" /\ o.body = b /\ o.does = s6[t].does /\ o.arg = s6[t].arg
          /\ o.etag = s6[t].etag
      BY <2>2, EditFacts DEF Requests
    <2>6. o \in Requests
      BY <2>2, <2>4, EditFacts DEF Requests, Stages, Whole
    <2>7. Carries(o)
      BY <2>4, <2>5, <2>6 DEF Carries, Writes
    <2>8. Formed(t, s5[t], o)
      BY <1>1, <1>3, <2>1, <2>5, EditFacts DEF Formed
    <2> QED
      BY <1>1, <2>3, <2>7, <2>8, EditFacts, TabStep
  <1>4. CASE s6' = [s6 EXCEPT ![t] = Edits!Idle]
    BY <1>1, <1>4, EditFacts, TabStep
  <1> QED
    BY <1>2, <1>3, <1>4 DEF Edits!ReadForEdit

LEMMA UploadStep == ASSUME EditsHold, NEW t \in Tabs, Edits!Upload(t) PROVE EditsHold'
  <1>1. s6[t].at = "upload" /\ UNCHANGED <<s7, s1, s2, s4, s5>>
    BY DEF Edits!Upload, Edits!At
  <1>2. CASE UNCHANGED s3 /\ s6' = [s6 EXCEPT ![t] = Edits!Idle]
    BY <1>1, <1>2, EditFacts, TabStep
  <1>3. ASSUME NEW name \in Files \ s3,
               s3' = s3 \cup {name},
               s6' = [s6 EXCEPT ![t].at = "put", ![t].arg = name,
                                ![t].body = Edits!Edited(t, "attach", name, s6[t].body)]
        PROVE  EditsHold'
    <2>1. PICK b : b = Edits!Edited(t, "attach", name, s6[t].body)
      OBVIOUS
    <2>2. PICK o : o = [s6[t] EXCEPT !.at = "put", !.arg = name, !.body = b]
      OBVIOUS
    <2>3. s6' = [s6 EXCEPT ![t] = o]
      BY <1>3, <2>1, <2>2
    <2>4. Whole(s6[t].body) /\ s6[t].does = "attach"
      BY <1>1, EditFacts DEF Carries, Formed
    <2>5. Whole(b)'
      BY <1>3, <2>1, <2>4, LinkIsWhole DEF Whole
    <2>6. /\ o.at = "put" /\ o.body = b /\ o.does = s6[t].does /\ o.arg = name
          /\ o.etag = s6[t].etag
      BY <2>2, EditFacts DEF Requests
    <2>7. o \in Requests
      BY <2>2, <2>5, EditFacts DEF Requests, Stages, Whole
    <2>8. \A u : Whole(u) => Whole(u)'
      BY <1>3 DEF Whole
    <2>9. Carries(o)'
      BY <2>4, <2>5, <2>6, <2>7 DEF Carries, Writes
    <2>10. /\ s5[t].kind = "card" /\ s6[t].etag = s5[t].etag
           /\ s6[t].etag = s2.etag => s6[t].body = s5[t].body
      BY <1>1, EditFacts DEF Formed
    <2>11. Formed(t, s5[t], o)
      <3>1. o.etag = s2.etag => o.body = Edits!Edited(t, o.does, o.arg, s5[t].body)
        BY <2>1, <2>4, <2>6, <2>10
      <3> QED
        BY <2>4, <2>6, <2>10, <3>1, EditFacts DEF Formed
    <2>12. \A u \in Tabs : Carries(s6[u])' /\ Formed(u, s5[u], s6[u])'
      <3>1. SUFFICES ASSUME NEW u \in Tabs PROVE Carries(s6[u])' /\ Formed(u, s5[u], s6[u])'
        OBVIOUS
      <3>2. CASE u = t
        <4>1. s6'[u] = o /\ s5'[u] = s5[t]
          BY <1>1, <2>3, <3>2, EditFacts DEF EditsHold, EditTypes
        <4> QED
          BY <1>1, <2>9, <2>11, <3>2, <4>1 DEF Carries, Formed, Whole
      <3>3. CASE u # t
        <4>1. s6'[u] = s6[u] /\ s5'[u] = s5[u] /\ s2' = s2
          BY <1>1, <2>3, <3>3 DEF EditsHold, EditTypes
        <4>2. Carries(s6[u]) /\ Formed(u, s5[u], s6[u])
          BY EditFacts
        <4>3. Carries(s6[u])'
          BY <2>8, <4>1, <4>2 DEF Carries, Whole
        <4>4. Formed(u, s5[u], s6[u])'
          BY <4>1, <4>2 DEF Formed
        <4> QED
          BY <4>3, <4>4
      <3> QED
        BY <3>2, <3>3
    <2>13. EditTypes'
      <3>1. s6' \in [Tabs -> Requests]
        BY <2>3, <2>7 DEF EditsHold, EditTypes
      <3> QED
        BY <1>1, <3>1 DEF EditsHold, EditTypes, Edits!Sessions
    <2>14. LinksStand'
      <3>1. (Edits!There => Whole(s2.body))'
        BY <1>1, <2>8, EditFacts DEF Edits!There, Whole
      <3>2. ASSUME NEW s \in Edits!Sessions
            PROVE  s4'[s] = Edits!NoDraft \/ s4'[s].body = Edits!NoBody \/ Whole(s4[s].body)'
        BY <1>1, <2>8 DEF EditsHold, LinksStand, Whole
      <3>3. Edits!Sessions' = Edits!Sessions
        BY <1>1 DEF Edits!Sessions
      <3> QED
        BY <2>12, <3>1, <3>2, <3>3 DEF LinksStand, Whole
    <2>15. Edits!RefusalAwaitsDecision'
      BY <1>1 DEF EditsHold, Edits!RefusalAwaitsDecision
    <2> QED
      BY <2>12, <2>13, <2>14, <2>15 DEF EditsHold, FormsAreOfTheirVersion
  <1> QED
    BY <1>2, <1>3 DEF Edits!Upload

(* A write, by the three ways it goes out. *)
LEMMA EditPutStep == ASSUME EditsHold, NEW t \in Tabs, Edits!Put(t) PROVE EditsHold'
  <1>1. s6[t].at \in Writes /\ UNCHANGED <<s7, s1, s3>>
    BY DEF Edits!Put, Edits!At, Writes
  <1>2. PICK o : o = s6[t]
    OBVIOUS
  <1>3. Whole(o.body)
    BY <1>1, <1>2, EditFacts DEF Carries
  <1>4. CASE /\ Edits!Store(s6[t].body)
             /\ Edits!Show(t, Edits!Blank)
             /\ s4' = s4 \/ Edits!ClearDraft(t)
    <2>1. /\ s4'[s7[t]] \in {s4[s7[t]], Edits!NoDraft}
          /\ DOMAIN s4' = DOMAIN s4
          /\ \A s \in Edits!Sessions \ {s7[t]} : s4'[s] = s4[s]
      <3>1. CASE s4' = s4
        BY <3>1
      <3>2. CASE s4' = [s4 EXCEPT ![s7[t]] = Edits!NoDraft]
        BY <3>2, EditFacts
      <3> QED
        BY <1>4, <3>1, <3>2 DEF Edits!ClearDraft
    <2>2. Edits!Idle.at = "idle" /\ Carries(Edits!Idle)
      BY EditFacts DEF Edits!Idle
    <2>3. s5' = [s5 EXCEPT ![t] = Edits!Blank] /\ s6' = [s6 EXCEPT ![t] = Edits!Idle]
      BY <1>4 DEF Edits!Show
    <2>4. PICK b : b = o.body
      OBVIOUS
    <2>5. Edits!Store(b) /\ Whole(b)
      BY <1>2, <1>3, <1>4, <2>4
    <2>6. s3' = s3 /\ s7' = s7
      BY <1>1
    <2>7. PICK p, i : p = Edits!Blank /\ i = Edits!Idle
      OBVIOUS
    <2>8. s5' = [s5 EXCEPT ![t] = p] /\ s6' = [s6 EXCEPT ![t] = i]
      BY <2>3, <2>7
    <2>9. Carries(i) /\ i.at = "idle"
      BY <2>2, <2>7
    <2> QED
      BY <2>1, <2>5, <2>6, <2>7, <2>8, <2>9, TabStoreStep
  <1>5. CASE /\ Edits!Store(s6[t].body) /\ Edits!Refuse(t) /\ UNCHANGED s4
    <2>1. Edits!Idle.at = "idle"
      BY DEF Edits!Idle
    <2>2. s5' = [s5 EXCEPT ![t] = s5[t]]
      BY <1>5, EditFacts DEF Edits!Refuse
    <2> QED
      BY <1>1, <1>2, <1>3, <1>5, <2>1, <2>2, EditFacts, TabStoreStep DEF Edits!Refuse
  <1>6. CASE /\ s6' = [s6 EXCEPT ![t].at = "conflict"]
             /\ UNCHANGED <<s2, s4, s5>>
    <2>1. PICK r : r = [o EXCEPT !.at = "conflict"]
      OBVIOUS
    <2>2. s6' = [s6 EXCEPT ![t] = r]
      BY <1>2, <1>6, <2>1
    <2>3. r.at = "conflict" /\ r.body = o.body /\ r \in Requests
      BY <1>2, <2>1, EditFacts DEF Requests, Stages
    <2>4. Carries(r)
      BY <1>3, <2>3 DEF Carries, Writes
    <2>5. Formed(t, s5[t], r)
      BY <2>3, EditFacts DEF Formed
    <2>6. s5' = [s5 EXCEPT ![t] = s5[t]]
      BY <1>6, EditFacts
    <2> QED
      BY <1>1, <1>6, <2>2, <2>4, <2>5, <2>6, TabStep
  <1>7. CASE Edits!Refuse(t) /\ UNCHANGED <<s2, s4>>
    <2>1. s5' = [s5 EXCEPT ![t] = s5[t]]
      BY <1>7, EditFacts DEF Edits!Refuse
    <2> QED
      BY <1>1, <1>7, <2>1, EditFacts, TabStep DEF Edits!Refuse
  <1> QED
    BY <1>4, <1>5, <1>6, <1>7 DEF Edits!Put

LEMMA DeleteStep == ASSUME EditsHold, NEW t \in Tabs, Edits!Delete(t) PROVE EditsHold'
  <1>1. UNCHANGED <<s7, s1, s3, s4>>
    BY DEF Edits!Delete
  <1>2. PICK o : o = s6[t]
    OBVIOUS
  <1>3. CASE Edits!Store(Edits!Gone) /\ (Edits!Show(t, Edits!Blank) \/ Edits!Refuse(t))
    <2>1. Edits!Idle.at = "idle"
      BY DEF Edits!Idle
    <2>2. s5' = [s5 EXCEPT ![t] = Edits!Blank] \/ s5' = [s5 EXCEPT ![t] = s5[t]]
      BY <1>3, EditFacts DEF Edits!Refuse, Edits!Show
    <2>3. s6' = [s6 EXCEPT ![t] = Edits!Idle]
      BY <1>3 DEF Edits!Refuse, Edits!Show
    <2> QED
      BY <1>1, <1>3, <2>1, <2>2, <2>3, EditFacts, TabStoreStep
  <1>4. CASE /\ s6' = [s6 EXCEPT ![t].at = "conflict", ![t].body = Edits!NoBody]
             /\ UNCHANGED <<s2, s5>>
    <2>1. PICK r : r = [o EXCEPT !.at = "conflict", !.body = Edits!NoBody]
      OBVIOUS
    <2>2. s6' = [s6 EXCEPT ![t] = r]
      BY <1>2, <1>4, <2>1
    <2>3. r.at = "conflict" /\ r.body = Edits!NoBody /\ r \in Requests
      BY <1>2, <2>1, EditFacts DEF Requests, Stages
    <2>4. Carries(r)
      BY <2>3 DEF Carries, Writes
    <2>5. Formed(t, s5[t], r)
      BY <2>3, EditFacts DEF Formed
    <2>6. s5' = [s5 EXCEPT ![t] = s5[t]]
      BY <1>4, EditFacts
    <2> QED
      BY <1>1, <1>4, <2>2, <2>4, <2>5, <2>6, TabStep
  <1>5. CASE Edits!Refuse(t) /\ UNCHANGED s2
    <2>1. s5' = [s5 EXCEPT ![t] = s5[t]]
      BY <1>5, EditFacts DEF Edits!Refuse
    <2> QED
      BY <1>1, <1>5, <2>1, EditFacts, TabStep DEF Edits!Refuse
  <1> QED
    BY <1>3, <1>4, <1>5 DEF Edits!Delete

LEMMA ConflictStep == ASSUME EditsHold, NEW t \in Tabs, Edits!Conflict(t) PROVE EditsHold'
  <1>1. s6[t].at = "conflict" /\ UNCHANGED <<s7, s1, s2, s3>>
    BY DEF Edits!Conflict, Edits!At
  <1>2. CASE Edits!Show(t, Edits!Blank) /\ UNCHANGED s4
    BY <1>1, <1>2, EditFacts, TabStep DEF Edits!Show, Edits!Blank
  <1>3. CASE /\ Edits!PutConflict(t, s6[t].body)
             /\ \E remote \in {[etag |-> s2.etag, body |-> s2.body],
                               [etag |-> 0, body |-> Edits!Gone]} :
                  Edits!Show(t, [kind |-> "conflict", etag |-> remote.etag, body |-> remote.body,
                           local |-> s6[t].body])
    <2>1. PICK p : /\ p.kind = "conflict" /\ p.local = s6[t].body
                   /\ s5' = [s5 EXCEPT ![t] = p] /\ s6' = [s6 EXCEPT ![t] = Edits!Idle]
      BY <1>3 DEF Edits!Show
    <2>2. Formed(t, p, Edits!Idle)
      BY <2>1, EditFacts DEF Formed, Edits!Idle
    <2>3. /\ s4'[s7[t]] = [body |-> s6[t].body]
          /\ DOMAIN s4' = DOMAIN s4
          /\ \A s \in Edits!Sessions \ {s7[t]} : s4'[s] = s4[s]
      BY <1>3, EditFacts DEF Edits!PutConflict
    <2>4. s6[t].body = Edits!NoBody \/ Whole(s6[t].body)
      BY <1>1, EditFacts DEF Carries
    <2>5. s4'[s7[t]].body = Edits!NoBody \/ Whole(s4'[s7[t]].body)
      BY <2>3, <2>4
    <2> QED
      BY <1>1, <2>1, <2>2, <2>3, <2>5, EditFacts, TabStep
  <1> QED
    BY <1>2, <1>3 DEF Edits!Conflict

LEMMA GiveInStep == ASSUME EditsHold, NEW t \in Tabs, Edits!GiveIn(t) PROVE EditsHold'
  <1>1. /\ s4'[s7[t]] = Edits!NoDraft /\ DOMAIN s4' = DOMAIN s4
        /\ \A s \in Edits!Sessions \ {s7[t]} : s4'[s] = s4[s]
    BY EditFacts DEF Edits!GiveIn
  <1>2. Edits!Blank.kind = "none"
    BY DEF Edits!Blank
  <1>3. /\ UNCHANGED <<s7, s1, s2, s3>>
        /\ s5' = [s5 EXCEPT ![t] = Edits!Blank] /\ s6' = [s6 EXCEPT ![t] = Edits!Idle]
    BY DEF Edits!GiveIn, Edits!Show
  <1>4. Carries(Edits!Idle) /\ Formed(t, Edits!Blank, Edits!Idle)
    BY EditFacts
  <1> QED
    BY <1>1, <1>2, <1>3, <1>4, TabStep

LEMMA ApplyMineStep == ASSUME EditsHold, NEW t \in Tabs, Edits!ApplyMine(t) PROVE EditsHold'
  <1>1. s6[t].at = "idle" /\ UNCHANGED <<s7, s1, s2, s3>>
    BY DEF Edits!ApplyMine, Edits!At
  <1>2. CASE Edits!Show(t, Edits!Blank) /\ (s4' = s4 \/ Edits!ClearDraft(t))
    <2>1. /\ s4'[s7[t]] \in {s4[s7[t]], Edits!NoDraft}
          /\ DOMAIN s4' = DOMAIN s4
          /\ \A s \in Edits!Sessions \ {s7[t]} : s4'[s] = s4[s]
      <3>1. CASE s4' = s4
        BY <3>1
      <3>2. CASE s4' = [s4 EXCEPT ![s7[t]] = Edits!NoDraft]
        BY <3>2, EditFacts
      <3> QED
        BY <1>2, <3>1, <3>2 DEF Edits!ClearDraft
    <2>2. Edits!Blank.kind = "none"
      BY DEF Edits!Blank
    <2>3. s5' = [s5 EXCEPT ![t] = Edits!Blank] /\ s6' = [s6 EXCEPT ![t] = Edits!Idle]
      BY <1>2 DEF Edits!Show
    <2>4. Carries(Edits!Idle) /\ Formed(t, Edits!Blank, Edits!Idle)
      BY EditFacts
    <2> QED
      BY <1>1, <2>1, <2>2, <2>3, <2>4, TabStep
  <1>3. ASSUME s4[s7[t]] # Edits!NoDraft, s4[s7[t]].body # Edits!NoBody,
               s6' = [s6 EXCEPT ![t] = [Edits!Idle EXCEPT !.at = "reread", !.does = "apply",
                                                    !.body = s4[s7[t]].body]],
               UNCHANGED <<s4, s5>>
        PROVE  EditsHold'
    <2>1. PICK b : b = s4[s7[t]].body
      OBVIOUS
    <2>2. PICK o : o = [Edits!Idle EXCEPT !.at = "reread", !.does = "apply", !.body = b]
      OBVIOUS
    <2>3. Whole(b)
      BY <1>3, <2>1, EditFacts
    <2>4. /\ o.at = "reread" /\ o.does = "apply" /\ o.body = b /\ o.etag = 0 /\ o.arg = 1
          /\ o = [at |-> o.at, does |-> o.does, etag |-> o.etag, body |-> o.body, arg |-> o.arg]
      BY <2>2 DEF Edits!Idle
    <2>5. o \in Requests
      BY <2>3, <2>4 DEF Requests, Stages, Deeds, Whole
    <2>6. Carries(o)
      BY <2>3, <2>4, <2>5 DEF Carries, Writes
    <2>7. Formed(t, s5[t], o)
      BY <2>4, EditFacts DEF Formed
    <2>8. s6' = [s6 EXCEPT ![t] = o] /\ s5' = [s5 EXCEPT ![t] = s5[t]]
      BY <1>3, <2>1, <2>2, EditFacts
    <2> QED
      BY <1>1, <1>3, <2>6, <2>7, <2>8, TabStep
  <1> QED
    BY <1>2, <1>3 DEF Edits!ApplyMine

LEMMA RereadStep == ASSUME EditsHold, NEW t \in Tabs, Edits!Reread(t) PROVE EditsHold'
  <1>1. s6[t].at = "reread" /\ UNCHANGED <<s7, s1, s2, s3, s4, s5>>
    BY DEF Edits!Reread, Edits!At
  <1>2. s5' = [s5 EXCEPT ![t] = s5[t]]
    BY <1>1, EditFacts
  <1>3. PICK r : r = s6[t]
    OBVIOUS
  <1>4. r \in Requests /\ Whole(r.body) /\ s2.etag \in Nat
    BY <1>1, <1>3, EditFacts DEF Carries
  <1>5. CASE s6' = [s6 EXCEPT ![t].at = "create"]
    <2>1. PICK o : o = [r EXCEPT !.at = "create"]
      OBVIOUS
    <2>2. s6' = [s6 EXCEPT ![t] = o]
      BY <1>3, <1>5, <2>1
    <2>3. o.at = "create" /\ o.body = r.body /\ o \in Requests
      BY <1>4, <2>1 DEF Requests, Stages
    <2>4. Carries(o) /\ Formed(t, s5[t], o)
      BY <1>4, <2>3, EditFacts DEF Carries, Writes, Formed
    <2> QED
      BY <1>1, <1>2, <2>2, <2>4, TabStep
  <1>6. CASE s6' = [s6 EXCEPT ![t].at = "apply", ![t].etag = s2.etag]
    <2>1. PICK o : o = [r EXCEPT !.at = "apply", !.etag = s2.etag]
      OBVIOUS
    <2>2. s6' = [s6 EXCEPT ![t] = o]
      BY <1>3, <1>6, <2>1
    <2>3. o.at = "apply" /\ o.body = r.body /\ o \in Requests
      BY <1>4, <2>1 DEF Requests, Stages
    <2>4. Carries(o) /\ Formed(t, s5[t], o)
      BY <1>4, <2>3, EditFacts DEF Carries, Writes, Formed
    <2> QED
      BY <1>1, <1>2, <2>2, <2>4, TabStep
  <1> QED
    BY <1>5, <1>6 DEF Edits!Reread

(* Another client keeps the links it leaves. *)
LEMMA OthersEditStep == ASSUME EditsHold, Edits!OtherClient PROVE EditsHold'
  <1>1. UNCHANGED <<s7, s1, s3, s4, s5, s6>>
    BY DEF Edits!OtherClient
  <1>2. s2 \in [etag : Nat, body : Edits!Bodies \cup {Edits!Gone}]
            /\ (Edits!There => Whole(s2.body))
    BY DEF EditsHold, EditTypes, LinksStand
  <1>3. PICK b : Edits!Store(b) /\ (b = Edits!Gone \/ Whole(b))
    <2>1. PICK c : c = s2.body
      OBVIOUS
    <2>2. Edits!There => /\ c \in Edits!Bodies /\ c.links \in Seq(Files)
                         /\ Edits!ToSet(c.links) \subseteq s3
      BY <1>2, <2>1 DEF Whole, Edits!Bodies
    <2>3. CASE Edits!There /\ Edits!Store([c EXCEPT !.text = Edits!Foreign])
      <3>1. PICK d : d = [c EXCEPT !.text = Edits!Foreign]
        OBVIOUS
      <3>2. d \in Edits!Bodies /\ d.links = c.links
        BY <2>2, <2>3, <3>1 DEF Edits!Bodies
      <3> QED
        BY <2>2, <2>3, <3>1, <3>2 DEF Whole
    <2>4. CASE Edits!There /\ Edits!Store([c EXCEPT !.done = ~@])
      <3>1. PICK d : d = [c EXCEPT !.done = ~@]
        OBVIOUS
      <3>2. d \in Edits!Bodies /\ d.links = c.links
        BY <2>2, <2>4, <3>1 DEF Edits!Bodies
      <3> QED
        BY <2>2, <2>4, <3>1, <3>2 DEF Whole
    <2>5. CASE Edits!There /\ c.links # <<>> /\ Edits!Store([c EXCEPT !.links = Tail(@)])
      <3>1. PICK l \in Seq(Files) : l = c.links
        BY <2>2, <2>5
      <3>2. Tail(l) \in Seq(Files) /\ Edits!ToSet(Tail(l)) \subseteq Edits!ToSet(l)
        BY <2>5, <3>1 DEF Edits!ToSet
      <3>3. PICK d : d = [c EXCEPT !.links = Tail(l)]
        OBVIOUS
      <3>4. d \in Edits!Bodies /\ d.links = Tail(l)
        BY <2>2, <2>5, <3>2, <3>3 DEF Edits!Bodies
      <3>5. Whole(d)
        BY <2>2, <2>5, <3>1, <3>2, <3>4 DEF Whole
      <3> QED
        BY <2>5, <3>1, <3>3, <3>5
    <2>6. CASE Edits!Store(Edits!Gone)
      BY <2>6
    <2>7. CASE Edits!Store([text |-> Edits!Foreign, done |-> FALSE, links |-> <<>>])
      <3>1. PICK d : d = [text |-> Edits!Foreign, done |-> FALSE, links |-> <<>>]
        OBVIOUS
      <3>2. <<>> \in Seq(Files) /\ Edits!ToSet(<<>>) = {}
        BY DEF Edits!ToSet
      <3>3. d \in Edits!Bodies /\ d.links = <<>>
        BY <3>1, <3>2 DEF Edits!Bodies
      <3> QED
        BY <2>7, <3>1, <3>2, <3>3 DEF Whole
    <2> QED
      BY <2>1, <2>3, <2>4, <2>5, <2>6, <2>7 DEF Edits!OtherClient
  <1>4. s2'.etag = s2.etag + 1 /\ s2'.body = b
    BY <1>3 DEF Edits!Store
  <1>5. s2' \in [etag : Nat, body : Edits!Bodies \cup {Edits!Gone}]
    <2>1. b \in Edits!Bodies \cup {Edits!Gone}
      BY <1>3 DEF Whole
    <2> QED
      BY <1>2, <1>3, <2>1 DEF Edits!Store
  <1>6. EditTypes'
    BY <1>1, <1>5 DEF EditsHold, EditTypes, Edits!Sessions
  <1>7. LinksStand'
    <2>1. (Edits!There => Whole(s2.body))'
      BY <1>1, <1>3, <1>4 DEF Edits!There, Whole
    <2>2. \A t \in Tabs : Carries(s6[t])'
      BY <1>1 DEF EditsHold, LinksStand, Carries, Whole
    <2> QED
      BY <1>1, <2>1, <2>2 DEF EditsHold, LinksStand, Edits!Sessions, Whole
  <1>8. FormsAreOfTheirVersion'
    <2>1. SUFFICES ASSUME NEW t \in Tabs PROVE Formed(t, s5[t], s6[t])'
      BY DEF FormsAreOfTheirVersion
    <2>2. Formed(t, s5[t], s6[t])
      BY DEF EditsHold, FormsAreOfTheirVersion
    <2> QED
      BY <1>1, <1>2, <1>4, <2>2 DEF Formed
  <1>9. Edits!RefusalAwaitsDecision'
    BY <1>1 DEF EditsHold, Edits!RefusalAwaitsDecision
  <1> QED
    BY <1>6, <1>7, <1>8, <1>9 DEF EditsHold

LEMMA EditsStep == ASSUME EditsHold, [Edits!Next]_(Edits!vars) PROVE EditsHold'
  <1>1. CASE UNCHANGED Edits!vars
    <2>1. UNCHANGED <<s7, s1, s2, s3, s4, s5, s6>>
      BY <1>1 DEF Edits!vars
    <2>2. EditTypes'
      BY <2>1 DEF EditsHold, EditTypes, Edits!Sessions
    <2>3. LinksStand'
      BY <2>1 DEF EditsHold, LinksStand, Edits!Sessions, Edits!There, Whole, Carries
    <2>4. FormsAreOfTheirVersion' /\ Edits!RefusalAwaitsDecision'
      BY <2>1 DEF EditsHold, FormsAreOfTheirVersion, Formed, Edits!RefusalAwaitsDecision
    <2> QED
      BY <2>2, <2>3, <2>4 DEF EditsHold
  <1>2. CASE Edits!Next
    BY <1>2, OpenStep, SubmitStep, ReadForEditStep, UploadStep, EditPutStep, DeleteStep,
       ConflictStep, GiveInStep, ApplyMineStep, RereadStep, OthersEditStep DEF Edits!Next
  <1> QED
    BY <1>1, <1>2

LEMMA EditsShow == EditsHold => Edits!LinksLeadToFiles /\ Edits!RefusalAwaitsDecision
  BY DEF EditsHold, LinksStand, Edits!LinksLeadToFiles, Whole

LEMMA EditsApply == ASSUME EditsHold,
    [Edits!Next]_(Edits!vars) PROVE Edits!EditIsOfWhatWasShown
  <1>1. SUFFICES ASSUME NEW t \in Tabs, Edits!StoredBy(t), s6[t].at \in {"put", "delete"}
                 PROVE  s2'.body = IF s6[t].does = "delete" THEN Edits!Gone
                                       ELSE Edits!Edited(t, s6[t].does, s6[t].arg, s5[t].body)
    BY DEF Edits!EditIsOfWhatWasShown
  <1>2. Edits!Next
    BY <1>1 DEF Edits!StoredBy, Edits!vars
  <1>3. Edits!Put(t) \/ Edits!Delete(t)
    <2>1. ASSUME NEW u \in Tabs, u # t
          PROVE  ~(Edits!Put(u) \/ Edits!Delete(u))
      <3>1. SUFFICES ASSUME Edits!Put(u) \/ Edits!Delete(u) PROVE s6'[t] = s6[t]
        BY <1>1 DEF Edits!StoredBy
      <3>2. s6 \in [Tabs -> Requests]
        BY DEF EditsHold, EditTypes
      <3> QED
        BY <2>1, <3>1, <3>2 DEF Edits!Put, Edits!Delete, Edits!Show, Edits!Refuse
    <2>2. ~Edits!OtherClient
      BY <1>1 DEF Edits!OtherClient, Edits!StoredBy
    <2>3. \A u \in Tabs : ~(Edits!Open(u) \/ Edits!Submit(u) \/ Edits!ReadForEdit(u)
                            \/ Edits!Upload(u) \/ Edits!Conflict(u)
                            \/ Edits!GiveIn(u) \/ Edits!ApplyMine(u) \/ Edits!Reread(u))
      BY <1>1 DEF Edits!StoredBy, Edits!Open, Edits!Submit, Edits!ReadForEdit,
         Edits!Upload, Edits!Conflict, Edits!GiveIn, Edits!ApplyMine, Edits!Reread
    <2> QED
      BY <1>2, <2>1, <2>2, <2>3 DEF Edits!Next
  <1>4. Formed(t, s5[t], s6[t])
    BY EditFacts
  <1>5. CASE Edits!Delete(t)
    <2>1. s6[t].does = "delete"
      BY <1>4, <1>5 DEF Edits!Delete, Edits!At, Formed
    <2>2. s2'.body = Edits!Gone
      BY <1>1, <1>5 DEF Edits!Delete, Edits!Store, Edits!StoredBy
    <2> QED
      BY <2>1, <2>2
  <1>6. CASE Edits!Put(t)
    <2>1. s6[t].at = "put"
      BY <1>1, <1>6 DEF Edits!Put, Edits!At
    <2>2. Edits!Holds(t) /\ Edits!Store(s6[t].body)
      BY <1>1, <1>6 DEF Edits!Put, Edits!StoredBy
    <2>3. s6[t].etag = s2.etag
      BY <2>1, <2>2 DEF Edits!Holds, Edits!At
    <2>4. /\ s6[t].does # "delete"
          /\ s6[t].body = Edits!Edited(t, s6[t].does, s6[t].arg, s5[t].body)
      BY <1>4, <2>1, <2>3 DEF Formed
    <2> QED
      BY <2>2, <2>4 DEF Edits!Store
  <1> QED
    BY <1>3, <1>5, <1>6

-----------------------------------------------------------------------------
(* File store. *)
Steps == {"idle", "stat", "open", "look", "put", "remove", "clash", "mkdir", "delete", "move"}
Tasks == {"none", "upload", "queue", "keep-both", "transfer", "copy", "mkdir", "delete", "move"}
FileRequests == [at : Steps, does : Tasks, from : PathSet \cup {<<>>}, to : PathSet \cup {<<>>},
                 tag : Int, body : Nat, tries : Nat]

(* A version that a transfer holds is one that was stored, and while the source has it, *)
(* what was read is of that version.                                                    *)
TransferKeeps(o) ==
    /\ o.body <= s4
    /\ o.at = "remove" => o.does = "transfer"
    /\ o.at \in {"stat", "open"} => o.from \in PathSet
    /\ o.at \in {"stat", "open", "look", "put", "clash"} => o.to \in PathSet
    /\ o.does = "transfer" =>
          /\ o.from \in PathSet /\ o.to \in PathSet /\ o.from # o.to
          /\ o.at \in {"open", "look", "put", "remove"} /\ s2 =>
                o.tag > 0 /\ o.tag <= s4
          /\ o.at \in {"look", "put", "remove"} /\ s2 /\ s3[o.from] = o.tag =>
                o.body = o.tag

FilesHold ==
    /\ s4 \in Nat
    /\ s3 \in [PathSet -> Int]
    /\ \A p \in PathSet : Storage!Folder <= s3[p] /\ s3[p] <= s4
    /\ s6 \in [{"request"} -> FileRequests]
    /\ \A t \in {"request"} : TransferKeeps(s6[t])

-----------------------------------------------------------------------------
LEMMA FilesStart == Storage!Init => FilesHold
  <1> SUFFICES ASSUME Storage!Init PROVE FilesHold
    OBVIOUS
  <1>1. PICK E : E = <<>>
    OBVIOUS
  <1>2. PICK i : i = Storage!Idle
    OBVIOUS
  <1>3. i = [at |-> "idle", does |-> "none", from |-> E, to |-> E, tag |-> 0,
             body |-> 0, tries |-> 0]
    BY <1>1, <1>2 DEF Storage!Idle, Storage!NoETag, Storage!Nothing
  <1>4. FileRequests = [at : Steps, does : Tasks, from : PathSet \cup {E}, to : PathSet \cup {E},
                        tag : Int, body : Nat, tries : Nat]
    BY <1>1 DEF FileRequests
  <1>5. i \in FileRequests
    BY <1>3, <1>4 DEF Steps, Tasks
  <1>6. s6 = [t \in {"request"} |-> i] /\ s3 = [p \in PathSet |-> 0] /\ s4 = 0
    BY <1>2 DEF Storage!Init, Storage!Nothing
  <1>7. TransferKeeps(i)
    BY <1>3, <1>6 DEF TransferKeeps
  <1> QED
    BY <1>5, <1>6, <1>7 DEF FilesHold, Storage!Folder

LEMMA IdleRequest ==
    Storage!Idle \in FileRequests /\ Storage!Idle.at = "idle" /\ Storage!Idle.does = "none"
        /\ Storage!Idle.body = 0
  <1>1. PICK E : E = <<>>
    OBVIOUS
  <1>3. Storage!Idle = [at |-> "idle", does |-> "none", from |-> E, to |-> E, tag |-> 0,
                body |-> 0, tries |-> 0]
    BY <1>1 DEF Storage!Idle, Storage!NoETag, Storage!Nothing
  <1>4. FileRequests = [at : Steps, does : Tasks, from : PathSet \cup {E}, to : PathSet \cup {E},
                        tag : Int, body : Nat, tries : Nat]
    BY <1>1 DEF FileRequests
  <1> QED
    BY <1>3, <1>4 DEF Steps, Tasks

(* The one request moves. *)
LEMMA RequestMoves ==
    ASSUME FilesHold, NEW t \in {"request"}, NEW o \in FileRequests,
           s6' = [s6 EXCEPT ![t] = o],
           s4' \in Nat, s3' \in [PathSet -> Int], \A p \in PathSet : Storage!Folder <= s3'[p]
               /\ s3'[p] <= s4',
           TransferKeeps(o)'
    PROVE  FilesHold'
  <1>1. \A u \in {"request"} : u = t
    BY OneRequest
  <1>2. s6' \in [{"request"} -> FileRequests] /\ s6'[t] = o
    BY DEF FilesHold
  <1>3. TransferKeeps(s6[t])'
    BY <1>2 DEF TransferKeeps
  <1> QED
    BY <1>1, <1>2, <1>3 DEF FilesHold

(* It moves, and changes nothing else of the server. *)
LEMMA RequestTurns ==
    ASSUME FilesHold, NEW t \in {"request"}, NEW o \in FileRequests,
           s6' = [s6 EXCEPT ![t] = o], UNCHANGED <<s2, s3, s4>>, TransferKeeps(o)
    PROVE  FilesHold'
  <1>1. TransferKeeps(o)'
    BY DEF TransferKeeps
  <1> QED
    BY <1>1, RequestMoves DEF FilesHold

LEMMA RequestEnds ==
    ASSUME FilesHold, NEW t \in {"request"}, Storage!Done(t),
           s4' \in Nat, s3' \in [PathSet -> Int], \A p \in PathSet : Storage!Folder <= s3'[p]
               /\ s3'[p] <= s4'
    PROVE  FilesHold'
  <1>1. PICK i : i = Storage!Idle
    OBVIOUS
  <1>2. /\ i \in FileRequests
        /\ i.at = "idle"
        /\ i.does = "none"
        /\ i.body = 0
        /\ s6' = [s6 EXCEPT ![t] = i]
    BY <1>1, IdleRequest DEF Storage!Done
  <1>3. TransferKeeps(i)'
    BY <1>2 DEF TransferKeeps
  <1> QED
    BY <1>2, <1>3, RequestMoves

LEMMA FileBeginStep == ASSUME FilesHold, NEW t \in {"request"},
    Storage!Begin(t) PROVE FilesHold'
  <1>1. UNCHANGED <<s2, s3, s4>>
    BY DEF Storage!Begin, Storage!Fixed
  <1>2. s4 \in Nat
    BY DEF FilesHold
  <1>3. PICK E, i : E = <<>> /\ i = Storage!Idle
    OBVIOUS
  <1>4. i = [at |-> "idle", does |-> "none", from |-> E, to |-> E, tag |-> 0,
             body |-> 0, tries |-> 0]
    BY <1>3 DEF Storage!Idle, Storage!NoETag, Storage!Nothing
  <1>5. FileRequests = [at : Steps, does : Tasks, from : PathSet \cup {E}, to : PathSet \cup {E},
                        tag : Int, body : Nat, tries : Nat]
    BY <1>3 DEF FileRequests
  <1>6. ASSUME NEW p \in PathSet, NEW does \in {"upload", "queue", "keep-both"},
               s6' = [s6 EXCEPT ![t] = [Storage!Idle EXCEPT !.at = "look", !.does = does, !.to = p]]
        PROVE  FilesHold'
    <2>1. PICK o : o = [i EXCEPT !.at = "look", !.does = does, !.to = p]
      OBVIOUS
    <2>2. o = [at |-> "look", does |-> does, from |-> E, to |-> p, tag |-> 0,
               body |-> 0, tries |-> 0]
      BY <1>4, <2>1
    <2>3. o \in FileRequests /\ TransferKeeps(o)
      BY <1>2, <1>5, <2>2 DEF Steps, Tasks, TransferKeeps
    <2> QED
      BY <1>1, <1>3, <1>6, <2>1, <2>3, RequestTurns
  <1>7. ASSUME NEW p \in PathSet, NEW d \in PathSet, NEW does \in {"transfer", "copy"},
               p # d,
               s6' = [s6 EXCEPT ![t] = [Storage!Idle EXCEPT !.at = "stat", !.does = does,
                                                    !.from = p, !.to = d]]
        PROVE  FilesHold'
    <2>1. PICK o : o = [i EXCEPT !.at = "stat", !.does = does, !.from = p, !.to = d]
      OBVIOUS
    <2>2. o = [at |-> "stat", does |-> does, from |-> p, to |-> d, tag |-> 0,
               body |-> 0, tries |-> 0]
      BY <1>4, <2>1
    <2>3. o \in FileRequests /\ TransferKeeps(o)
      BY <1>2, <1>5, <1>7, <2>2 DEF Steps, Tasks, TransferKeeps
    <2> QED
      BY <1>1, <1>3, <1>7, <2>1, <2>3, RequestTurns
  <1>8. ASSUME NEW p \in PathSet, NEW d \in PathSet, NEW does \in {"mkdir", "delete",
               "move"},
               s6' = [s6 EXCEPT ![t] =
                  [Storage!Idle EXCEPT !.at = does, !.does = does, !.from = p, !.to = d,
                               !.tag = IF does = "delete" THEN Storage!ETag(p) ELSE Storage!NoETag]]
        PROVE  FilesHold'
    <2>1. PICK tag : tag = IF does = "delete" THEN Storage!ETag(p) ELSE Storage!NoETag
      OBVIOUS
    <2>2. tag \in Int
      BY <2>1 DEF Storage!ETag, Storage!NoETag, FilesHold
    <2>3. PICK o : o = [i EXCEPT !.at = does, !.does = does, !.from = p, !.to = d,
               !.tag = tag]
      OBVIOUS
    <2>4. o = [at |-> does, does |-> does, from |-> p, to |-> d, tag |-> tag,
               body |-> 0, tries |-> 0]
      BY <1>4, <2>3
    <2>5. o \in FileRequests /\ TransferKeeps(o)
      BY <1>2, <1>5, <2>2, <2>4 DEF Steps, Tasks, TransferKeeps
    <2> QED
      BY <1>1, <1>3, <1>8, <2>1, <2>3, <2>5, RequestTurns
  <1> QED
    BY <1>6, <1>7, <1>8 DEF Storage!Begin

LEMMA StatSourceStep == ASSUME FilesHold, NEW t \in {"request"},
    Storage!StatSource(t) PROVE FilesHold'
  <1>1. s6[t].at = "stat" /\ UNCHANGED <<s2, s3, s4>>
    BY DEF Storage!StatSource, Storage!Fixed
  <1>2. CASE Storage!Done(t)
    BY <1>1, <1>2, RequestEnds DEF FilesHold
  <1>3. CASE /\ s3[s6[t].from] \notin {Storage!Nothing, Storage!Folder}
             /\ s6' = [s6 EXCEPT ![t].at = "open", ![t].tag = Storage!ETag(s6[t].from)]
    <2>1. PICK r, tag : r = s6[t] /\ tag = Storage!ETag(r.from)
      OBVIOUS
    <2>2. r \in FileRequests /\ TransferKeeps(r) /\ r.at = "stat"
      BY <1>1, <2>1 DEF FilesHold
    <2>3. PICK o : o = [r EXCEPT !.at = "open", !.tag = tag]
      OBVIOUS
    <2>4. s6' = [s6 EXCEPT ![t] = o]
      BY <1>3, <2>1, <2>3
    <2>5. r.from \in PathSet /\ r.to \in PathSet /\ r.body <= s4
      BY <2>2 DEF TransferKeeps
    <2>6. /\ s3[r.from] \in Int /\ s3[r.from] <= s4 /\ s3[r.from] >= -1
          /\ s3[r.from] # 0 /\ s3[r.from] # -1
      BY <1>3, <2>1, <2>5 DEF FilesHold, Storage!Nothing, Storage!Folder
    <2>7. tag \in Int /\ (s2 => tag = s3[r.from])
      BY <2>1, <2>6 DEF Storage!ETag, Storage!NoETag, Storage!Folder
    <2>8. /\ o.at = "open" /\ o.does = r.does /\ o.from = r.from /\ o.to = r.to
          /\ o.tag = tag /\ o.body = r.body
          /\ o \in FileRequests
      BY <2>2, <2>3, <2>7 DEF FileRequests, Steps
    <2>9. TransferKeeps(o)
      BY <2>2, <2>5, <2>6, <2>7, <2>8 DEF TransferKeeps
    <2> QED
      BY <1>1, <2>4, <2>8, <2>9, RequestTurns
  <1> QED
    BY <1>2, <1>3 DEF Storage!StatSource

LEMMA OpenSourceStep == ASSUME FilesHold, NEW t \in {"request"},
    Storage!OpenSource(t) PROVE FilesHold'
  <1>1. s6[t].at = "open" /\ UNCHANGED <<s2, s3, s4>>
    BY DEF Storage!OpenSource, Storage!Fixed
  <1>2. CASE Storage!Done(t)
    BY <1>1, <1>2, RequestEnds DEF FilesHold
  <1>3. CASE /\ s3[s6[t].from] \notin {Storage!Nothing, Storage!Folder}
             /\ s6' = [s6 EXCEPT ![t].at = "look", ![t].body = s3[s6[t].from]]
    <2>1. PICK r, body : r = s6[t] /\ body = s3[r.from]
      OBVIOUS
    <2>2. r \in FileRequests /\ TransferKeeps(r) /\ r.at = "open"
      BY <1>1, <2>1 DEF FilesHold
    <2>3. PICK o : o = [r EXCEPT !.at = "look", !.body = body]
      OBVIOUS
    <2>4. s6' = [s6 EXCEPT ![t] = o]
      BY <1>3, <2>1, <2>3
    <2>5. r.from \in PathSet /\ r.to \in PathSet
      BY <2>2 DEF TransferKeeps
    <2>6. body \in Nat /\ body <= s4
      BY <1>3, <2>1, <2>5 DEF FilesHold, Storage!Nothing, Storage!Folder
    <2>7. /\ o.at = "look" /\ o.does = r.does /\ o.from = r.from /\ o.to = r.to
          /\ o.tag = r.tag /\ o.body = body
          /\ o \in FileRequests
      BY <2>2, <2>3, <2>6 DEF FileRequests, Steps
    <2>8. TransferKeeps(o)
      BY <2>1, <2>2, <2>5, <2>6, <2>7 DEF TransferKeeps
    <2> QED
      BY <1>1, <2>4, <2>7, <2>8, RequestTurns
  <1> QED
    BY <1>2, <1>3 DEF Storage!OpenSource

(* A name that is taken is nothing to a transfer but its end. *)
LEMMA TakenStep ==
    ASSUME FilesHold, NEW t \in {"request"}, Storage!Taken(t), UNCHANGED <<s2, s3, s4>>,
           s6[t].at \in {"look", "put"}
    PROVE  FilesHold'
  <1>1. PICK r : r = s6[t]
    OBVIOUS
  <1>2. r \in FileRequests /\ TransferKeeps(r) /\ r.to \in PathSet
    BY <1>1 DEF FilesHold, TransferKeeps
  <1>3. CASE /\ r.does = "keep-both" /\ SecondName(r.to) \in PathSet
             /\ s6' = [s6 EXCEPT ![t].to = SecondName(@), ![t].tries = 1, ![t].at = "look"]
    <2>1. PICK n \in PathSet : n = SecondName(r.to)
      BY <1>3
    <2>2. PICK o : o = [r EXCEPT !.to = n, !.tries = 1, !.at = "look"]
      OBVIOUS
    <2>3. s6' = [s6 EXCEPT ![t] = o]
      BY <1>1, <1>3, <2>1, <2>2
    <2>4. /\ o.at = "look" /\ o.does = r.does /\ o.to = n /\ o.body = r.body
          /\ o \in FileRequests
      BY <1>2, <2>2 DEF FileRequests, Steps
    <2>5. TransferKeeps(o)
      BY <1>2, <1>3, <2>4 DEF TransferKeeps
    <2> QED
      BY <2>3, <2>4, <2>5, RequestTurns
  <1>4. CASE /\ r.does = "queue"
             /\ s6' = [s6 EXCEPT ![t].at = "clash", ![t].tag = s3[s6[t].to]]
    <2>1. PICK tag \in Int : tag = s3[r.to]
      BY <1>2 DEF FilesHold
    <2>2. PICK o : o = [r EXCEPT !.at = "clash", !.tag = tag]
      OBVIOUS
    <2>3. s6' = [s6 EXCEPT ![t] = o]
      BY <1>1, <1>4, <2>1, <2>2
    <2>4. /\ o.at = "clash" /\ o.does = r.does /\ o.to = r.to /\ o.body = r.body
          /\ o \in FileRequests
      BY <1>2, <2>2 DEF FileRequests, Steps
    <2>5. TransferKeeps(o)
      BY <1>2, <1>4, <2>4 DEF TransferKeeps
    <2> QED
      BY <2>3, <2>4, <2>5, RequestTurns
  <1>5. CASE Storage!Done(t)
    BY <1>5, RequestEnds DEF FilesHold
  <1> QED
    BY <1>1, <1>3, <1>4, <1>5 DEF Storage!Taken

LEMMA FileLookStep == ASSUME FilesHold, NEW t \in {"request"},
    Storage!Look(t) PROVE FilesHold'
  <1>1. s6[t].at = "look" /\ UNCHANGED <<s2, s3, s4>>
    BY DEF Storage!Look, Storage!Fixed
  <1>2. CASE Storage!Taken(t)
    BY <1>1, <1>2, TakenStep
  <1>3. CASE Storage!To(t, "put")
    <2>1. PICK r : r = s6[t]
      OBVIOUS
    <2>2. r \in FileRequests /\ TransferKeeps(r) /\ r.at = "look"
      BY <1>1, <2>1 DEF FilesHold
    <2>3. PICK o : o = [r EXCEPT !.at = "put"]
      OBVIOUS
    <2>4. s6' = [s6 EXCEPT ![t] = o]
      BY <1>3, <2>1, <2>3 DEF Storage!To
    <2>5. /\ o.at = "put" /\ o.does = r.does /\ o.from = r.from /\ o.to = r.to
          /\ o.tag = r.tag /\ o.body = r.body
          /\ o \in FileRequests
      BY <2>2, <2>3 DEF FileRequests, Steps
    <2>6. TransferKeeps(o)
      BY <2>2, <2>5 DEF TransferKeeps
    <2> QED
      BY <1>1, <2>4, <2>5, <2>6, RequestTurns
  <1> QED
    BY <1>2, <1>3 DEF Storage!Look

(* What is stored is a body that was stored before, or the next. *)
LEMMA StoreKeeps ==
    ASSUME FilesHold, NEW t \in {"request"}, Storage!Store(t), s6[t].at \in {"put", "clash"}
    PROVE  /\ s4' \in Nat /\ s4 <= s4' /\ s3' \in [PathSet -> Int]
           /\ \A p \in PathSet : Storage!Folder <= s3'[p] /\ s3'[p] <= s4'
           /\ \A p \in PathSet \ {s6[t].to} : s3'[p] = s3[p]
           /\ s5' = s5 \ {Storage!Front(s6[t].to)}
  <1>1. PICK r : r = s6[t]
    OBVIOUS
  <1>2. r \in FileRequests /\ r.to \in PathSet /\ r.body <= s4 /\ r.body \in Nat
    <2>1. r \in FileRequests /\ TransferKeeps(r)
      BY <1>1 DEF FilesHold
    <2> QED
      BY <1>1, <2>1 DEF TransferKeeps, FileRequests
  <1>3. /\ s4 \in Nat /\ s3 \in [PathSet -> Int]
        /\ \A p \in PathSet : Storage!Folder <= s3[p] /\ s3[p] <= s4
    BY DEF FilesHold
  <1>4. PICK n : n = Storage!Stored(t)
    OBVIOUS
  <1>5. s4' \in Nat /\ s4 <= s4' /\ n \in Int /\ -1 <= n /\ n <= s4'
    BY <1>1, <1>2, <1>3, <1>4 DEF Storage!Store, Storage!Stored, Storage!Nothing
  <1>6. s3' = [s3 EXCEPT ![r.to] = n] /\ s5' = s5 \ {Storage!Front(s6[t].to)}
    BY <1>1, <1>4 DEF Storage!Store, Storage!Drop
  <1> QED
    BY <1>1, <1>2, <1>3, <1>5, <1>6 DEF Storage!Folder

LEMMA PutNewStep == ASSUME FilesHold, NEW t \in {"request"},
    Storage!PutNew(t) PROVE FilesHold'
  <1>1. s6[t].at = "put" /\ s2' = s2
    BY DEF Storage!PutNew, Storage!Fixed
  <1>2. CASE Storage!Store(t) /\ s6[t].does = "transfer" /\ Storage!To(t, "remove")
    <2>1. PICK r : r = s6[t]
      OBVIOUS
    <2>2. r \in FileRequests /\ TransferKeeps(r) /\ r.at = "put" /\ r.does = "transfer"
      BY <1>1, <1>2, <2>1 DEF FilesHold
    <2>3. PICK o : o = [r EXCEPT !.at = "remove"]
      OBVIOUS
    <2>4. s6' = [s6 EXCEPT ![t] = o]
      BY <1>2, <2>1, <2>3 DEF Storage!To
    <2>5. /\ o.at = "remove" /\ o.does = r.does /\ o.from = r.from /\ o.to = r.to
          /\ o.tag = r.tag /\ o.body = r.body
          /\ o \in FileRequests
      BY <2>2, <2>3 DEF FileRequests, Steps
    <2>6. /\ s4' \in Nat /\ s4 <= s4' /\ s3' \in [PathSet -> Int]
          /\ \A p \in PathSet : Storage!Folder <= s3'[p] /\ s3'[p] <= s4'
          /\ \A p \in PathSet \ {r.to} : s3'[p] = s3[p]
      BY <1>1, <1>2, <2>1, StoreKeeps
    <2>7. /\ r.from \in PathSet /\ r.to \in PathSet /\ r.from # r.to /\ r.body <= s4
          /\ r.tag \in Int /\ r.body \in Nat /\ s4 \in Nat
          /\ s2 => r.tag > 0 /\ r.tag <= s4
          /\ s2 /\ s3[r.from] = r.tag => r.body = r.tag
      BY <2>2 DEF TransferKeeps, FileRequests, FilesHold
    <2>8. s3'[r.from] = s3[r.from]
      BY <2>6, <2>7
    <2>9. TransferKeeps(o)'
      BY <1>1, <2>2, <2>5, <2>6, <2>7, <2>8 DEF TransferKeeps
    <2> QED
      BY <2>4, <2>5, <2>6, <2>9, RequestMoves
  <1>3. CASE Storage!Store(t) /\ Storage!Done(t)
    <2>1. /\ s4' \in Nat /\ s3' \in [PathSet -> Int]
          /\ \A p \in PathSet : Storage!Folder <= s3'[p] /\ s3'[p] <= s4'
      BY <1>1, <1>3, StoreKeeps
    <2> QED
      BY <1>3, <2>1, RequestEnds
  <1>4. CASE Storage!Taken(t) /\ UNCHANGED <<s3, s4, s5>>
    BY <1>1, <1>4, TakenStep
  <1>5. CASE Storage!Done(t) /\ UNCHANGED <<s3, s4, s5>>
    BY <1>5, RequestEnds DEF FilesHold
  <1> QED
    BY <1>2, <1>3, <1>4, <1>5 DEF Storage!PutNew

LEMMA ClashStep == ASSUME FilesHold, NEW t \in {"request"},
    Storage!Clash(t) PROVE FilesHold'
  <1>1. s6[t].at = "clash" /\ s2' = s2
    BY DEF Storage!Clash, Storage!Fixed
  <1>2. CASE Storage!Store(t) /\ Storage!Done(t)
    <2>1. /\ s4' \in Nat /\ s3' \in [PathSet -> Int]
          /\ \A p \in PathSet : Storage!Folder <= s3'[p] /\ s3'[p] <= s4'
      BY <1>1, <1>2, StoreKeeps
    <2> QED
      BY <1>2, <2>1, RequestEnds
  <1>3. CASE /\ s6' = [s6 EXCEPT ![t].at = "look", ![t].does = "keep-both", ![t].tag = Storage!NoETag]
             /\ UNCHANGED <<s3, s4, s5>>
    <2>1. PICK r : r = s6[t]
      OBVIOUS
    <2>2. r \in FileRequests /\ TransferKeeps(r) /\ r.at = "clash"
      BY <1>1, <2>1 DEF FilesHold
    <2>3. PICK z \in Int : z = 0
      OBVIOUS
    <2>4. PICK o : o = [r EXCEPT !.at = "look", !.does = "keep-both", !.tag = z]
      OBVIOUS
    <2>5. s6' = [s6 EXCEPT ![t] = o]
      BY <1>3, <2>3, <2>1, <2>4 DEF Storage!NoETag
    <2>6. /\ o.at = "look" /\ o.does = "keep-both" /\ o.to = r.to /\ o.body = r.body
          /\ o \in FileRequests
      BY <2>2, <2>4 DEF FileRequests, Steps, Tasks
    <2>7. TransferKeeps(o)
      BY <2>2, <2>6 DEF TransferKeeps
    <2> QED
      BY <1>1, <1>3, <2>5, <2>6, <2>7, RequestTurns
  <1>4. CASE Storage!Done(t) /\ UNCHANGED <<s3, s4, s5>>
    BY <1>4, RequestEnds DEF FilesHold
  <1> QED
    BY <1>2, <1>3, <1>4 DEF Storage!Clash

(* Deletions and moves only take bodies away, or put them elsewhere. *)
LEMMA WithoutKeeps ==
    ASSUME FilesHold, NEW p
    PROVE  /\ Storage!Without(p) \in [PathSet -> Int]
           /\ \A q \in PathSet : Storage!Folder <= Storage!Without(p)[q]
               /\ Storage!Without(p)[q] <= s4
  BY DEF FilesHold, Storage!Without, Storage!Nothing, Storage!Folder

LEMMA MovedKeeps ==
    ASSUME FilesHold, NEW p, NEW d
    PROVE  /\ Storage!Moved(p, d) \in [PathSet -> Int]
           /\ \A q \in PathSet : Storage!Folder <= Storage!Moved(p, d)[q]
               /\ Storage!Moved(p, d)[q] <= s4
  <1>1. PICK w : w = Storage!Without(p)
    OBVIOUS
  <1>2. w \in [PathSet -> Int] /\ \A q \in PathSet : Storage!Folder <= w[q] /\ w[q] <= s4
    BY <1>1, WithoutKeeps
  <1>3. \A r \in PathSet : \/ Storage!Moved(p, d)[r] = w[r]
                           \/ \E q \in PathSet : Storage!Moved(p, d)[r] = s3[q]
    BY <1>1 DEF Storage!Moved
  <1>4. Storage!Moved(p, d) = [r \in PathSet |-> Storage!Moved(p, d)[r]]
    BY DEF Storage!Moved
  <1>5. \A r \in PathSet : Storage!Moved(p, d)[r] \in Int
            /\ Storage!Folder <= Storage!Moved(p, d)[r]
                         /\ Storage!Moved(p, d)[r] <= s4
    BY <1>2, <1>3 DEF FilesHold
  <1> QED
    BY <1>4, <1>5

LEMMA EndingStep ==
    ASSUME FilesHold, NEW t \in {"request"}, Storage!MakeDir(t) \/ Storage!Delete(t)
        \/ Storage!Move(t) \/ Storage!RemoveSource(t)
    PROVE  FilesHold'
  <1>1. Storage!Done(t) /\ s4' = s4
    BY DEF Storage!MakeDir, Storage!Delete, Storage!Move, Storage!RemoveSource, Storage!Ends
  <1>2. /\ s4 \in Nat /\ s3 \in [PathSet -> Int]
        /\ \A p \in PathSet : Storage!Folder <= s3[p] /\ s3[p] <= s4
    BY DEF FilesHold
  <1>3. /\ s3' \in [PathSet -> Int]
        /\ \A p \in PathSet : Storage!Folder <= s3'[p] /\ s3'[p] <= s4
    <2>1. CASE s3' = s3
      BY <1>2, <2>1
    <2>2. CASE \E p : s3' = Storage!Without(p)
      BY <2>2, WithoutKeeps
    <2>3. CASE \E p, d : s3' = Storage!Moved(p, d)
      BY <2>3, MovedKeeps
    <2>4. CASE s3' = [s3 EXCEPT ![s6[t].to] = Storage!Folder]
      <3>1. PICK x : x = s6[t].to
        OBVIOUS
      <3>2. PICK n \in Int : n = Storage!Folder
        BY DEF Storage!Folder
      <3>3. Storage!Folder <= n /\ n <= s4
        BY <1>2, <3>2 DEF Storage!Folder
      <3>4. s3' = [s3 EXCEPT ![x] = n]
        BY <2>4, <3>1, <3>2
      <3>5. \A p \in PathSet : s3'[p] = IF p = x THEN n ELSE s3[p]
        BY <1>2, <3>4
      <3> QED
        BY <1>2, <3>3, <3>4, <3>5
    <2> QED
      BY <2>1, <2>2, <2>3, <2>4 DEF Storage!MakeDir, Storage!Delete, Storage!Move,
         Storage!RemoveSource
  <1> QED
    BY <1>1, <1>2, <1>3, RequestEnds

LEMMA OthersStep == ASSUME FilesHold, Storage!OtherClient PROVE FilesHold'
  <1>1. UNCHANGED <<s1, s2, s5, s6>>
    BY DEF Storage!OtherClient
  <1>2. /\ s4 \in Nat /\ s3 \in [PathSet -> Int] /\ s6 \in [{"request"} -> FileRequests]
        /\ \A p \in PathSet : Storage!Folder <= s3[p] /\ s3[p] <= s4
    BY DEF FilesHold
  <1>3. PICK p \in PathSet :
          \/ s3' = [s3 EXCEPT ![p] = s4 + 1] /\ s4' = s4 + 1
          \/ s3' = [s3 EXCEPT ![p] = Storage!Nothing] /\ s4' = s4
    BY DEF Storage!OtherClient
  <1>4. /\ s4' \in Nat /\ s4 <= s4' /\ s3' \in [PathSet -> Int]
        /\ \A q \in PathSet : Storage!Folder <= s3'[q] /\ s3'[q] <= s4'
        /\ \A q \in PathSet : s3'[q] = s3[q] \/ s3'[q] = 0 \/ s3'[q] = s4 + 1
    BY <1>2, <1>3 DEF Storage!Nothing, Storage!Folder
  <1>5. ASSUME NEW t \in {"request"} PROVE TransferKeeps(s6[t])'
    <2>1. PICK r : r = s6[t]
      OBVIOUS
    <2>2. r \in FileRequests /\ TransferKeeps(r) /\ s6'[t] = r
      BY <1>1, <2>1 DEF FilesHold
    <2>3. r.tag \in Int /\ r.body \in Nat
      BY <2>2 DEF FileRequests
    <2>4. TransferKeeps(r)'
      BY <1>1, <1>2, <1>4, <2>2, <2>3 DEF TransferKeeps
    <2> QED
      BY <2>2, <2>4 DEF TransferKeeps
  <1> QED
    BY <1>1, <1>2, <1>4, <1>5 DEF FilesHold

LEMMA FilesStep == ASSUME FilesHold, [Storage!Next]_(Storage!vars) PROVE FilesHold'
  <1>1. CASE UNCHANGED <<s2, s3, s4, s6>>
    BY <1>1 DEF FilesHold, TransferKeeps
  <1>2. CASE UNCHANGED Storage!vars
    BY <1>1, <1>2 DEF Storage!vars
  <1>3. CASE Storage!Next
    <2>1. CASE \E d \in Storage!Dirs : Storage!List(d) \/ Storage!Forget(d)
      BY <1>1, <2>1 DEF Storage!List, Storage!Forget
    <2> QED
      BY <1>3, <2>1, FileBeginStep, StatSourceStep, OpenSourceStep, FileLookStep,
         PutNewStep, ClashStep,
         EndingStep, OthersStep DEF Storage!Next
  <1> QED
    BY <1>2, <1>3

-----------------------------------------------------------------------------
LEMMA UploadsAdd == ASSUME FilesHold,
    [Storage!Next]_(Storage!vars) PROVE Storage!UploadReplacesNothing
  <1>1. SUFFICES ASSUME NEW t \in {"request"}, s6[t].at = "put", s6'[t] # s6[t], s3' # s3,
                        Storage!Occupied(t)
                 PROVE  ~s1
    BY DEF Storage!UploadReplacesNothing
  <1>2. Storage!Next
    BY <1>1 DEF Storage!vars
  <1>3. \A u \in {"request"} : u = t
    BY OneRequest
  <1>4. Storage!PutNew(t)
    <2>1. ~Storage!OtherClient /\ \A d \in Storage!Dirs : ~Storage!List(d) /\ ~Storage!Forget(d)
      BY <1>1 DEF Storage!OtherClient, Storage!List, Storage!Forget
    <2>2. ~(Storage!Begin(t) \/ Storage!StatSource(t) \/ Storage!OpenSource(t)
            \/ Storage!Look(t) \/ Storage!RemoveSource(t)
            \/ Storage!Clash(t) \/ Storage!MakeDir(t) \/ Storage!Delete(t) \/ Storage!Move(t))
      BY <1>1 DEF Storage!Begin, Storage!StatSource, Storage!OpenSource, Storage!Look,
         Storage!RemoveSource, Storage!Clash, Storage!MakeDir, Storage!Delete, Storage!Move
    <2> QED
      BY <1>2, <1>3, <2>1, <2>2 DEF Storage!Next
  <1>5. s3[s6[t].to] = Storage!Nothing \/ ~s1
    BY <1>1, <1>4 DEF Storage!PutNew
  <1> QED
    BY <1>1, <1>5 DEF Storage!Occupied

LEMMA TransfersKeep == ASSUME FilesHold,
    [Storage!Next]_(Storage!vars) PROVE Storage!TransferLosesNothing
  <1>1. SUFFICES ASSUME NEW t \in {"request"}, s6[t].at = "remove", s6'[t] # s6[t],
                        s3' # s3,
                        s2
                 PROVE  s3[s6[t].from] = s6[t].body
    BY DEF Storage!TransferLosesNothing
  <1>2. Storage!Next
    BY <1>1 DEF Storage!vars
  <1>3. \A u \in {"request"} : u = t
    BY OneRequest
  <1>4. Storage!RemoveSource(t)
    <2>1. ~Storage!OtherClient /\ \A d \in Storage!Dirs : ~Storage!List(d) /\ ~Storage!Forget(d)
      BY <1>1 DEF Storage!OtherClient, Storage!List, Storage!Forget
    <2>2. ~(Storage!Begin(t) \/ Storage!StatSource(t) \/ Storage!OpenSource(t)
            \/ Storage!Look(t) \/ Storage!PutNew(t)
            \/ Storage!Clash(t) \/ Storage!MakeDir(t) \/ Storage!Delete(t) \/ Storage!Move(t))
      BY <1>1 DEF Storage!Begin, Storage!StatSource, Storage!OpenSource, Storage!Look,
         Storage!PutNew, Storage!Clash, Storage!MakeDir, Storage!Delete, Storage!Move
    <2> QED
      BY <1>2, <1>3, <2>1, <2>2 DEF Storage!Next
  <1>5. Storage!Matches(s6[t].from, s6[t].tag)
    BY <1>1, <1>4 DEF Storage!RemoveSource
  <1>6. TransferKeeps(s6[t])
    BY DEF FilesHold
  <1>7. s6[t].tag > 0 /\ (s3[s6[t].from] = s6[t].tag => s6[t].body = s6[t].tag)
    BY <1>1, <1>6 DEF TransferKeeps
  <1> QED
    BY <1>5, <1>7 DEF Storage!Matches, Storage!NoETag

-----------------------------------------------------------------------------
(* What a directory shows is what its members hold. *)
LEMMA SameMembersSameListing ==
    ASSUME NEW d, \A p \in PathSet : Storage!Front(p) = d => s3'[p] = s3[p]
    PROVE  Storage!Listing(d)' = Storage!Listing(d)
  <1>1. PICK M : M = {p \in PathSet : Storage!Front(p) = d /\ s3[p] # Storage!Nothing}
    OBVIOUS
  <1>2. Storage!Members(d) = M
    BY <1>1 DEF Storage!Members
  <1>3. Storage!Members(d)' = M
    BY <1>1 DEF Storage!Members
  <1>4. \A m \in M : s3'[m] = s3[m]
    BY <1>1
  <1>5. Storage!Listing(d) = [m \in M |-> s3[m]]
    BY <1>2 DEF Storage!Listing
  <1>6. Storage!Listing(d)' = [m \in M |-> s3'[m]]
    BY <1>3 DEF Storage!Listing
  <1>7. [m \in M |-> s3'[m]] = [m \in M |-> s3[m]]
    BY <1>4
  <1> QED
    BY <1>5, <1>6, <1>7

(* What is above a member is above its directory, or is it. *)
LEMMA AboveTheMember ==
    ASSUME NEW p \in Seq(STRING), NEW q \in Seq(STRING), Storage!IsStrictPrefix(q, p)
    PROVE  Storage!IsPrefix(q, Storage!Front(p))
  <1>1. Len(q) <= Len(p) /\ SubSeq(q, 1, Len(q)) = SubSeq(p, 1, Len(q)) /\ q # p
    BY DEF Storage!IsStrictPrefix, Storage!IsPrefix
  <1>2. Len(p) \in Nat /\ Len(q) \in Nat
    OBVIOUS
  <1>3. SubSeq(q, 1, Len(q)) = q /\ SubSeq(p, 1, Len(p)) = p
    OBVIOUS
  <1>4. Len(q) <= Len(p) - 1
    BY <1>1, <1>2, <1>3
  <1>5. PICK f : f = SubSeq(p, 1, Len(p) - 1)
    OBVIOUS
  <1>6. f \in Seq(STRING) /\ Len(f) = Len(p) - 1 /\ \A i \in 1 .. Len(p) - 1 : f[i] = p[i]
    <2>1. Len(p) - 1 \in 0 .. Len(p)
      BY <1>2, <1>4
    <2>2. /\ SubSeq(p, 1, Len(p) - 1) \in Seq(STRING)
          /\ Len(SubSeq(p, 1, Len(p) - 1)) = Len(p) - 1
      <3>1. PICK n \in Int : n = Len(p) - 1
        BY <1>2
      <3>2. \A i \in 1 .. n : p[i] \in STRING
        BY <1>2, <3>1
      <3>3. /\ SubSeq(p, 1, n) \in Seq(STRING)
            /\ Len(SubSeq(p, 1, n)) = IF 1 <= n THEN n - 1 + 1 ELSE 0
        BY <3>2, SubSeqProperties
      <3> QED
        BY <2>1, <3>1, <3>3
    <2>3. \A i \in 1 .. Len(p) - 1 : SubSeq(p, 1, Len(p) - 1)[i] = p[i]
      BY <1>2, <2>1
    <2> QED
      BY <1>5, <2>2, <2>3
  <1>7. SubSeq(f, 1, Len(q)) = SubSeq(p, 1, Len(q))
    BY <1>2, <1>4, <1>6
  <1> QED
    BY <1>1, <1>4, <1>5, <1>6, <1>7 DEF Storage!IsPrefix, Storage!Front

LEMMA OwnChangesAreSeen == ASSUME FilesHold,
    [Storage!Next]_(Storage!vars) PROVE Storage!OwnChangeShows
  <1>1. SUFFICES ASSUME NEW t \in {"request"}, NEW d \in Storage!Dirs, Storage!Outdates(t,
                        d)
                 PROVE  \/ s6[t].at = "move" /\ \E p \in {s6[t].from, s6[t].to} : Storage!IsPrefix(p, d)
                        \/ s6[t].at \in {"delete", "remove"} /\ Storage!IsStrictPrefix(s6[t].from, d)
    BY DEF Storage!OwnChangeShows
  <1>2. s6'[t] # s6[t] /\ d \in s5' /\ Storage!Listing(d)' # Storage!Listing(d)
    BY <1>1 DEF Storage!Outdates
  <1>3. PICK x \in PathSet : Storage!Front(x) = d /\ s3'[x] # s3[x]
    BY <1>2, SameMembersSameListing
  <1>4. Storage!Next
    BY <1>2 DEF Storage!vars
  <1>5. PICK r : r = s6[t]
    OBVIOUS
  <1>6. r.from \in Seq(STRING) /\ r.to \in Seq(STRING) /\ x \in Seq(STRING)
    <2>1. r \in FileRequests
      BY <1>5 DEF FilesHold
    <2>2. <<>> \in Seq(STRING)
      OBVIOUS
    <2> QED
      BY <1>3, <2>1, <2>2, PathsAssumption DEF FileRequests
  <1>7. s3 \in [PathSet -> Int]
    BY DEF FilesHold
  <1>8. \A p \in {r.from, r.to} : Storage!IsStrictPrefix(p, x) => Storage!IsPrefix(p, d)
    BY <1>3, <1>6, AboveTheMember
  <1>9. CASE Storage!Store(t) \/ (s3' = [s3 EXCEPT ![r.to] = Storage!Folder]
                 /\ Storage!Drop({Storage!Front(r.to)}))
    <2>1. d # Storage!Front(r.to)
      BY <1>2, <1>5, <1>9 DEF Storage!Store, Storage!Drop
    <2>2. x # r.to
      BY <1>3, <2>1
    <2>3. s3'[x] = s3[x]
      BY <1>5, <1>7, <1>9, <2>2 DEF Storage!Store
    <2> QED
      BY <1>3, <2>3
  <1>10. CASE /\ s3' = Storage!Without(r.from) /\ Storage!Drop({Storage!Front(r.from), r.from})
              /\ r.at \in {"delete", "remove"}
    <2>1. d # Storage!Front(r.from) /\ d # r.from
      BY <1>2, <1>10 DEF Storage!Drop
    <2>2. x # r.from
      BY <1>3, <2>1
    <2>3. Storage!IsStrictPrefix(r.from, x)
      BY <1>3, <1>10, <2>2 DEF Storage!Without, Storage!Under
    <2>4. Storage!IsStrictPrefix(r.from, d)
      BY <1>8, <2>1, <2>3 DEF Storage!IsStrictPrefix
    <2> QED
      BY <1>5, <1>10, <2>4
  <1>11. CASE /\ s3' = Storage!Moved(r.from, r.to) /\ Storage!Drop(Storage!MovedBetween(r.from, r.to))
              /\ r.at = "move"
    <2>1. d # Storage!Front(r.from) /\ d # Storage!Front(r.to)
      BY <1>2, <1>11 DEF Storage!Drop, Storage!MovedBetween
    <2>2. x # r.from /\ x # r.to
      BY <1>3, <2>1
    <2>3. Storage!IsStrictPrefix(r.from, x) \/ Storage!IsStrictPrefix(r.to, x)
      <3>1. CASE x \in Storage!Under(r.to)
        BY <3>1 DEF Storage!Under
      <3>2. CASE x \notin Storage!Under(r.to)
        <4>1. s3'[x] = Storage!Without(r.from)[x]
          BY <1>3, <1>11, <2>2, <3>2 DEF Storage!Moved
        <4> QED
          BY <1>3, <2>2, <4>1 DEF Storage!Without, Storage!Under
      <3> QED
        BY <3>1, <3>2
    <2> QED
      BY <1>5, <1>8, <1>11, <2>3
  <1>12. CASE UNCHANGED s3
    BY <1>3, <1>12
  <1> QED
    <2>1. \A u \in {"request"} : u = t
      BY OneRequest
    <2>2. ~Storage!OtherClient /\ \A e \in Storage!Dirs : ~Storage!List(e) /\ ~Storage!Forget(e)
      BY <1>2 DEF Storage!OtherClient, Storage!List, Storage!Forget
    <2>3. CASE Storage!Begin(t) \/ Storage!StatSource(t) \/ Storage!OpenSource(t) \/ Storage!Look(t)
      BY <1>12, <2>3 DEF Storage!Begin, Storage!StatSource, Storage!OpenSource, Storage!Look
    <2>4. CASE Storage!PutNew(t) \/ Storage!Clash(t)
      BY <1>9, <1>12, <2>4 DEF Storage!PutNew, Storage!Clash
    <2>5. CASE Storage!RemoveSource(t) \/ Storage!Delete(t)
      BY <1>5, <1>10, <1>12, <2>5 DEF Storage!RemoveSource, Storage!Delete
    <2>6. CASE Storage!MakeDir(t)
      BY <1>5, <1>9, <1>12, <2>6 DEF Storage!MakeDir
    <2>7. CASE Storage!Move(t)
      BY <1>5, <1>11, <1>12, <2>7 DEF Storage!Move
    <2> QED
      BY <1>4, <2>1, <2>2, <2>3, <2>4, <2>5, <2>6, <2>7 DEF Storage!Next

-----------------------------------------------------------------------------
(* Imports. *)
Places(s, set) == {i \in DOMAIN s : s[i] \in set}

(* What two sequences have of a set, they have of it one after the other. *)
LEMMA PlacesOfBoth ==
    ASSUME NEW S, NEW a \in Seq(S), NEW b \in Seq(S), NEW set
    PROVE  /\ a \o b \in Seq(S)
           /\ IsFiniteSet(Places(a, set)) /\ IsFiniteSet(Places(b, set))
           /\ Cardinality(Places(a \o b, set))
                = Cardinality(Places(a, set)) + Cardinality(Places(b, set))
  <1>1. PICK c \in Seq(S) : c = a \o b
    BY ConcatProperties
  <1>2. /\ Len(c) = Len(a) + Len(b) /\ DOMAIN c = 1 .. Len(c)
        /\ \A i \in 1 .. Len(c) : c[i] = IF i <= Len(a) THEN a[i] ELSE b[i - Len(a)]
    BY <1>1, ConcatProperties
  <1>3. /\ DOMAIN a = 1 .. Len(a)
        /\ DOMAIN b = 1 .. Len(b)
        /\ Len(a) \in Nat
        /\ Len(b) \in Nat
    OBVIOUS
  <1>4. IsFiniteSet(Places(a, set)) /\ IsFiniteSet(Places(b, set))
    <2>1. IsFiniteSet(1 .. Len(a)) /\ IsFiniteSet(1 .. Len(b))
      BY <1>3, FS_Interval
    <2>2. Places(a, set) \subseteq 1 .. Len(a) /\ Places(b, set) \subseteq 1 .. Len(b)
      BY <1>3 DEF Places
    <2> QED
      BY <2>1, <2>2, FS_Subset
  <1> DEFINE A == Places(a, set)
             B == Places(b, set)
             C == {Len(a) + i : i \in B}
             f == [i \in B |-> Len(a) + i]
  <1>5. Places(c, set) = A \cup C
    <2>1. ASSUME NEW i \in Places(c, set) PROVE i \in A \cup C
      <3>1. i \in 1 .. Len(a) + Len(b) /\ c[i] \in set
        BY <1>2, <2>1 DEF Places
      <3>2. CASE i <= Len(a)
        <4>1. i \in 1 .. Len(a)
          BY <1>3, <3>1, <3>2
        <4> QED
          BY <1>2, <1>3, <3>1, <3>2, <4>1 DEF Places
      <3>3. CASE ~(i <= Len(a))
        <4>1. i - Len(a) \in 1 .. Len(b) /\ i = Len(a) + (i - Len(a))
          BY <1>3, <3>1, <3>3
        <4>2. i - Len(a) \in B
          BY <1>2, <1>3, <3>1, <3>3, <4>1 DEF Places
        <4> HIDE DEF B
        <4> QED
          BY <4>1, <4>2
      <3> QED
        BY <3>2, <3>3
    <2>2. ASSUME NEW i \in A PROVE i \in Places(c, set)
      <3>1. i \in 1 .. Len(a) /\ a[i] \in set
        BY <1>3, <2>2 DEF Places
      <3>2. i \in 1 .. Len(c) /\ i <= Len(a)
        BY <1>2, <1>3, <3>1
      <3> QED
        BY <1>2, <3>1, <3>2 DEF Places
    <2>3. ASSUME NEW j \in B PROVE Len(a) + j \in Places(c, set)
      <3>1. j \in 1 .. Len(b) /\ b[j] \in set
        BY <1>3, <2>3 DEF Places
      <3>2. /\ Len(a) + j \in 1 .. Len(c)
            /\ ~(Len(a) + j <= Len(a))
            /\ (Len(a) + j) - Len(a) = j
        BY <1>2, <1>3, <3>1
      <3> QED
        BY <1>2, <3>1, <3>2 DEF Places
    <2> HIDE DEF A, B
    <2> QED
      BY <2>1, <2>2, <2>3
  <1>6. Bijection(B, C) # {} /\ f \in Bijection(B, C)
    <2>1. \A i \in B : i \in Nat
      BY <1>3 DEF Places
    <2> HIDE DEF B
    <2>2. \A i \in B : f[i] = Len(a) + i
      OBVIOUS
    <2>3. f \in [B -> C]
      OBVIOUS
    <2>4. \A i, j \in B : f[i] = f[j] => i = j
      BY <1>3, <2>1, <2>2
    <2>5. \A x \in C : \E i \in B : f[i] = x
      BY <2>2
    <2>6. f \in Bijection(B, C)
      <3> HIDE DEF f, C
      <3> QED
        BY <2>3, <2>4, <2>5 DEF Bijection, Injection, Surjection, IsInjective
    <2> QED
      BY <2>6
  <1>7. IsFiniteSet(C) /\ Cardinality(C) = Cardinality(B)
    <2> HIDE DEF C, B, f
    <2>1. ExistsBijection(B, C)
      BY <1>6 DEF ExistsBijection
    <2> QED
      BY <1>4, <2>1, FS_Bijection DEF B
  <1>8. A \cap C = {}
    <2>1. ASSUME NEW i \in A, NEW j \in B PROVE i # Len(a) + j
      <3>1. i \in 1 .. Len(a) /\ j \in 1 .. Len(b)
        BY <1>3, <2>1 DEF Places
      <3> QED
        BY <1>3, <3>1
    <2> HIDE DEF A, B
    <2> QED
      BY <2>1
  <1>9. Cardinality(A \cup C) = Cardinality(A) + Cardinality(C)
    <2> HIDE DEF A, C
    <2>1. IsFiniteSet(A)
      BY <1>4 DEF A
    <2>2. Cardinality(A \cup C) = Cardinality(A) + Cardinality(C) - Cardinality(A \cap C)
      BY <1>7, <2>1, FS_Union
    <2>3. Cardinality(A \cap C) = 0
      BY <1>8, FS_EmptySet
    <2>4. Cardinality(A) \in Nat /\ Cardinality(C) \in Nat
      BY <1>7, <2>1, FS_CardinalityType
    <2> QED
      BY <2>2, <2>3, <2>4
  <1> HIDE DEF C, f
  <1> QED
    BY <1>1, <1>4, <1>5, <1>7, <1>9

AsMany(s, p, t, q) ==
    /\ Len(s) = Len(t)
    /\ \A k \in 1 .. Len(s) : Cardinality(Places(s[k], p)) = Cardinality(Places(t[k], q))

(* Two flattened sequences have as much of two sets as their parts have of them. *)
LEMMA PlacesOfAll ==
    ASSUME NEW S, NEW T, NEW s \in Seq(Seq(S)), NEW t \in Seq(Seq(T)), NEW p, NEW q,
           AsMany(s, p, t, q)
    PROVE  /\ FlattenSeq(s) \in Seq(S) /\ FlattenSeq(t) \in Seq(T)
           /\ Cardinality(Places(FlattenSeq(s), p)) = Cardinality(Places(FlattenSeq(t), q))
  <1>1. Len(s) = Len(t) /\ \A k \in 1 .. Len(s) :
           Cardinality(Places(s[k], p)) = Cardinality(Places(t[k], q))
    BY DEF AsMany
  <1>2. CASE Len(s) = 0
    <2>1. s = <<>> /\ t = <<>>
      <3>1. Len(t) = 0
        BY <1>1, <1>2
      <3> QED
        BY <1>2, <3>1, EmptySeq
    <2>2. FlattenSeq(s) = <<>> /\ FlattenSeq(t) = <<>>
      BY <1>2, <2>1 DEF FlattenSeq
    <2>3. <<>> \in Seq(S) /\ <<>> \in Seq(T) /\ Places(<<>>, p) = Places(<<>>, q)
      BY DEF Places
    <2> QED
      BY <2>2, <2>3
  <1>3. CASE Len(s) # 0
    <2> DEFINE n == Len(s)
    <2>1. /\ n \in Nat \ {0} /\ n = Len(t)
          /\ \A i \in 1 .. n : s[i] \in Seq(S) /\ t[i] \in Seq(T)
      BY <1>1, <1>3
    <2>2. PICK f : /\ f[n] = FlattenSeq(s)
                   /\ \A i \in 1 .. n : f[i] = IF i = 1 THEN s[i] ELSE f[i - 1] \o s[i]
      BY <2>1, Flattened
    <2>3. PICK g : /\ g[n] = FlattenSeq(t)
                   /\ \A i \in 1 .. n : g[i] = IF i = 1 THEN t[i] ELSE g[i - 1] \o t[i]
      <3>1. Len(t) \in Nat \ {0}
        BY <2>1
      <3>2. \E h : /\ h[Len(t)] = FlattenSeq(t)
                   /\ \A i \in 1 .. Len(t) : h[i] = IF i = 1 THEN t[i] ELSE h[i - 1] \o t[i]
        BY <3>1, Flattened
      <3> QED
        BY <2>1, <3>2
    <2> DEFINE Right(i) == /\ f[i] \in Seq(S) /\ g[i] \in Seq(T)
                           /\ Cardinality(Places(f[i], p)) = Cardinality(Places(g[i], q))
               Q == {i \in Nat : i \in 1 .. n => Right(i)}
    <2>6. 0 \in Q
      OBVIOUS
    <2>7. ASSUME NEW i \in Nat, i \in Q PROVE i + 1 \in Q
      <3> SUFFICES ASSUME i + 1 \in 1 .. n PROVE Right(i + 1)
        OBVIOUS
      <3>1. /\ s[i + 1] \in Seq(S) /\ t[i + 1] \in Seq(T)
            /\ Cardinality(Places(s[i + 1], p)) = Cardinality(Places(t[i + 1], q))
        BY <1>1, <2>1
      <3>2. CASE i = 0
        <4>1. f[i + 1] = s[i + 1] /\ g[i + 1] = t[i + 1]
          BY <2>2, <2>3, <3>2
        <4> QED
          BY <3>1, <4>1
      <3>3. CASE i # 0
        <4>1. i \in 1 .. n /\ i + 1 # 1 /\ (i + 1) - 1 = i
          BY <2>1, <3>3
        <4>2. Right(i)
          BY <2>7, <4>1
        <4>3. f[i + 1] = f[i] \o s[i + 1] /\ g[i + 1] = g[i] \o t[i + 1]
          BY <2>2, <2>3, <4>1
        <4>4. PICK a \in Seq(S), b \in Seq(S) : a = f[i] /\ b = s[i + 1]
          BY <3>1, <4>2
        <4>5. PICK c \in Seq(T), d \in Seq(T) : c = g[i] /\ d = t[i + 1]
          BY <3>1, <4>2
        <4>6. a \o b \in Seq(S) /\ Cardinality(Places(a \o b, p))
                 = Cardinality(Places(a, p)) + Cardinality(Places(b, p))
          BY PlacesOfBoth
        <4>7. c \o d \in Seq(T) /\ Cardinality(Places(c \o d, q))
                 = Cardinality(Places(c, q)) + Cardinality(Places(d, q))
          BY PlacesOfBoth
        <4>8. Cardinality(Places(a, p)) = Cardinality(Places(c, q))
              /\ Cardinality(Places(b, p)) = Cardinality(Places(d, q))
          BY <3>1, <4>2, <4>4, <4>5
        <4>9. f[i + 1] = a \o b /\ g[i + 1] = c \o d
          BY <4>3, <4>4, <4>5
        <4> QED
          BY <4>6, <4>7, <4>8, <4>9
      <3> QED
        BY <3>2, <3>3
    <2> HIDE DEF Q
    <2>8. n \in Q
      BY <2>1, <2>6, <2>7, NatInductive
    <2>9. Right(n)
      BY <2>1, <2>8 DEF Q
    <2> QED
      BY <2>2, <2>3, <2>9
  <1> QED
    BY <1>2, <1>3

-----------------------------------------------------------------------------
FileCards == Seq(CardsOf(Payloads))
ImportedCards == CardsOf(Payloads) \cup {Imports!Unreadable}
ZipRows == {row \in [card : ImportedCards, stops : BOOLEAN] : Imports!Taken(row.card) => row.stops}
Takes == {row \in ZipRows : Imports!Taken(row.card)}
TakenCards == {card \in ImportedCards : Imports!Taken(card)}

(* The rows of a file: a file without cards is one that is not taken. *)
LEMMA RowsAreOfTheEntry ==
    ASSUME NEW entry \in FileCards
    PROVE  /\ Imports!RowsOf(entry) \in Seq(ZipRows)
           /\ Cardinality(Places(Imports!RowsOf(entry), Takes)) = Cardinality(Places(entry, TakenCards))
  <1>1. ~Imports!Taken(Imports!Unreadable)
    BY DEF Imports!Taken, Imports!Unreadable
  <1>2. CASE entry = <<>>
    <2>1. PICK row \in ZipRows : row = [card |-> Imports!Unreadable, stops |-> FALSE]
      <3>1. PICK card \in ImportedCards : card = Imports!Unreadable
        BY DEF ImportedCards
      <3> HIDE DEF ImportedCards
      <3>2. [card |-> card, stops |-> FALSE] \in [card : ImportedCards, stops : BOOLEAN]
        OBVIOUS
      <3> QED
        BY <1>1, <3>1, <3>2 DEF ZipRows
    <2>2. Imports!RowsOf(entry) = <<row>> /\ ~Imports!Taken(row.card)
      BY <1>1, <1>2, <2>1 DEF Imports!RowsOf
    <2>3. <<row>> \in Seq(ZipRows)
      OBVIOUS
    <2>4. Places(<<row>>, Takes) = {}
      <3>1. DOMAIN <<row>> = {1} /\ <<row>>[1] = row
        OBVIOUS
      <3> QED
        BY <2>2, <3>1 DEF Places, Takes
    <2>5. Places(entry, TakenCards) = {}
      BY <1>2 DEF Places
    <2> QED
      BY <2>2, <2>3, <2>4, <2>5
  <1>3. CASE entry # <<>>
    <2>1. Imports!RowsOf(entry) = [i \in DOMAIN entry |-> [card |-> entry[i], stops |-> TRUE]]
      BY <1>3 DEF Imports!RowsOf
    <2>2. /\ DOMAIN entry = 1 .. Len(entry) /\ Len(entry) \in Nat
          /\ \A i \in DOMAIN entry : entry[i] \in ImportedCards
      BY DEF ImportedCards, FileCards
    <2>3. \A i \in DOMAIN entry : Imports!RowsOf(entry)[i] \in ZipRows
              /\ Imports!RowsOf(entry)[i].card = entry[i]
      BY <2>1, <2>2 DEF ZipRows
    <2>4. Imports!RowsOf(entry) \in Seq(ZipRows)
      BY <2>1, <2>2, <2>3
    <2>5. \A i \in DOMAIN entry : Imports!RowsOf(entry)[i] \in Takes <=> entry[i] \in TakenCards
      BY <2>2, <2>3 DEF TakenCards, Takes
    <2>6. DOMAIN Imports!RowsOf(entry) = DOMAIN entry
      BY <2>1
    <2>7. Places(Imports!RowsOf(entry), Takes) = Places(entry, TakenCards)
      BY <2>5, <2>6 DEF Places
    <2> QED
      BY <2>4, <2>7
  <1> QED
    BY <1>2, <1>3

(* The least of the numbers that are meant. *)
LEMMA TheLeast ==
    ASSUME NEW N \in SUBSET Nat, N # {}
    PROVE  LET n == CHOOSE i \in N : \A j \in N : i <= j
           IN n \in N /\ \A j \in N : n <= j
  <1>1. \E i \in N : \A j \in N : i <= j
    <2>1. PICK m \in N : \A j \in Nat : j < m => j \notin N
      <3> DEFINE P == {i \in Nat : \A j \in 0 .. i : j \notin N}
      <3>1. SUFFICES ASSUME \A m \in N : \E j \in Nat : j < m /\ j \in N
                     PROVE  FALSE
        OBVIOUS
      <3>2. 0 \in P
        <4>1. \A j \in 0 .. 0 : j = 0 /\ \A i \in Nat : ~(i < j)
          OBVIOUS
        <4> QED
          BY <3>1, <4>1
      <3>3. ASSUME NEW i \in Nat, i \in P PROVE i + 1 \in P
        <4>1. i + 1 \notin N
          <5>1. \A j \in Nat : j < i + 1 => j \in 0 .. i
            OBVIOUS
          <5> QED
            BY <3>1, <3>3, <5>1
        <4>2. \A j \in 0 .. i + 1 : j \in 0 .. i \/ j = i + 1
          OBVIOUS
        <4> QED
          BY <3>3, <4>1, <4>2
      <3> HIDE DEF P
      <3>4. Nat \subseteq P
        BY <3>2, <3>3, NatInductive
      <3>5. \A i \in Nat : i \notin N
        BY <3>4 DEF P
      <3> QED
        BY <3>5
    <2>2. \A j \in N : m <= j
      BY <2>1
    <2> QED
      BY <2>2
  <1> QED
    BY <1>1

(* What a file keeps of its cards is within the limit, and all of it when it says so. *)
LEMMA LoneFileIsWhole ==
    ASSUME NEW S, NEW entry \in Seq(S)
    PROVE  /\ Imports!LoneFile(entry).cards \in Seq(S)
           /\ Len(Imports!LoneFile(entry).cards) <= MaxCards
           /\ ~Imports!LoneFile(entry).cut => Imports!LoneFile(entry).cards = entry
  <1>1. Len(entry) \in Nat /\ MaxCards \in Nat
    BY ImportAssumption
  <1>2. CASE Len(entry) > MaxCards
    <2>1. Imports!LoneFile(entry) = [cards |-> SubSeq(entry, 1, MaxCards), cut |-> TRUE]
      BY <1>2 DEF Imports!LoneFile, Imports!Read
    <2>2. /\ SubSeq(entry, 1, MaxCards) \in Seq(S)
          /\ Len(SubSeq(entry, 1, MaxCards)) = MaxCards
      BY <1>1, <1>2
    <2> QED
      BY <1>1, <2>1, <2>2
  <1>3. CASE ~(Len(entry) > MaxCards)
    <2>1. Imports!LoneFile(entry).cards = SubSeq(entry, 1, Len(entry))
      BY <1>3 DEF Imports!LoneFile, Imports!Read
    <2>2. SubSeq(entry, 1, Len(entry)) = entry
      OBVIOUS
    <2> QED
      BY <1>1, <1>3, <2>1, <2>2
  <1> QED
    BY <1>2, <1>3

(* A set of numbers up to the limit has no more than so many. *)
LEMMA WithinTheLimit ==
    ASSUME NEW n \in Nat, NEW N \in SUBSET (1 .. n)
    PROVE  IsFiniteSet(N) /\ Cardinality(N) <= n
  <1>1. IsFiniteSet(1 .. n) /\ Cardinality(1 .. n) = n
    BY FS_Interval
  <1>2. IsFiniteSet(N) /\ Cardinality(N) <= Cardinality(1 .. n)
    BY <1>1, FS_Subset
  <1> QED
    BY <1>1, <1>2

(* What a zip keeps of its files, likewise: a row that is taken stops it at the limit. *)
LEMMA ZipIsWhole ==
    ASSUME NEW entries \in Seq(FileCards)
    PROVE  /\ Imports!ZipOfCards(entries).cards \in Seq(ImportedCards)
           /\ FlattenSeq(entries) \in Seq(ImportedCards)
           /\ Cardinality(Places(Imports!ZipOfCards(entries).cards, TakenCards)) <= MaxCards
           /\ ~Imports!ZipOfCards(entries).cut =>
                 Cardinality(Places(Imports!ZipOfCards(entries).cards, TakenCards))
                    = Cardinality(Places(FlattenSeq(entries), TakenCards))
  <1> DEFINE parts == [e \in DOMAIN entries |-> Imports!RowsOf(entries[e])]
             rows == FlattenSeq(parts)
             full == {i \in DOMAIN rows : rows[i].stops /\ i >= MaxCards}
             last == IF full = {} THEN Len(rows) ELSE CHOOSE i \in full : \A j \in full : i <= j
             cards == [i \in 1 .. last |-> rows[i].card]
  <1>1. Imports!ZipOfCards(entries) = [cards |-> cards, cut |-> full # {}]
    BY ImportFlattens DEF Imports!ZipOfCards, Imports!Read
  <1>2. /\ parts \in Seq(Seq(ZipRows)) /\ Len(parts) = Len(entries)
        /\ \A k \in 1 .. Len(parts) :
              Cardinality(Places(parts[k], Takes)) = Cardinality(Places(entries[k], TakenCards))
    <2>1. \A e \in DOMAIN entries : entries[e] \in FileCards
      OBVIOUS
    <2>2. \A e \in DOMAIN entries : Imports!RowsOf(entries[e]) \in Seq(ZipRows) /\
             Cardinality(Places(Imports!RowsOf(entries[e]), Takes)) = Cardinality(Places(entries[e], TakenCards))
      BY <2>1, RowsAreOfTheEntry
    <2>3. parts \in Seq(Seq(ZipRows)) /\ Len(parts) = Len(entries)
          /\ DOMAIN entries = 1 .. Len(parts)
      BY <2>2
    <2> QED
      BY <2>2, <2>3
  <1>3. /\ rows \in Seq(ZipRows) /\ FlattenSeq(entries) \in FileCards
        /\ Cardinality(Places(rows, Takes)) = Cardinality(Places(FlattenSeq(entries), TakenCards))
    <2> HIDE DEF parts
    <2>1. PICK C : C = CardsOf(Payloads)
      OBVIOUS
    <2>2. FileCards = Seq(C)
      BY <2>1 DEF FileCards
    <2>3. PICK P \in Seq(Seq(ZipRows)) : P = parts
      BY <1>2
    <2>4. entries \in Seq(Seq(C))
      BY <2>2
    <2>5. PICK R, p, q : R = ZipRows /\ p = Takes /\ q = TakenCards
      OBVIOUS
    <2>6. /\ FlattenSeq(P) \in Seq(R) /\ FlattenSeq(entries) \in Seq(C)
          /\ Cardinality(Places(FlattenSeq(P), p)) = Cardinality(Places(FlattenSeq(entries), q))
      <3>1. AsMany(P, p, entries, q)
        BY <1>2, <2>3, <2>5 DEF AsMany
      <3>2. P \in Seq(Seq(R))
        BY <2>3, <2>5
      <3> QED
        BY <2>4, <3>1, <3>2, PlacesOfAll
    <2> QED
      BY <2>2, <2>3, <2>5, <2>6
  <1> HIDE DEF parts, rows
  <1>4. /\ Len(rows) \in Nat /\ DOMAIN rows = 1 .. Len(rows) /\ MaxCards \in Nat \ {0}
        /\ \A i \in 1 .. Len(rows) : rows[i] \in ZipRows
    BY <1>3, ImportAssumption
  <1>5. \A i \in 1 .. Len(rows) :
           /\ rows[i].card \in ImportedCards
           /\ rows[i].card \in TakenCards <=> rows[i] \in Takes
           /\ rows[i] \in Takes => rows[i].stops
    BY <1>4 DEF ZipRows, Takes, TakenCards
  <1>6. /\ last \in Nat /\ last <= Len(rows) /\ (full = {} => last = Len(rows))
        /\ \A j \in full : last <= j
    <2>1. CASE full = {}
      BY <1>4, <2>1
    <2>2. CASE full # {}
      <3>1. full \in SUBSET Nat
        BY <1>4
      <3>2. last \in full /\ \A j \in full : last <= j
        <4> HIDE DEF full
        <4> QED
          BY <2>2, <3>1, TheLeast
      <3>3. \A j \in full : j \in 1 .. Len(rows)
        BY <1>4
      <3> HIDE DEF last, full
      <3>4. last \in 1 .. Len(rows)
        BY <3>2, <3>3
      <3>5. last \in Nat /\ last <= Len(rows)
        BY <1>4, <3>4
      <3> QED
        BY <2>2, <3>2, <3>5
    <2> QED
      BY <2>1, <2>2
  <1> HIDE DEF last
  <1>7. /\ \A i \in 1 .. last : i \in 1 .. Len(rows)
        /\ DOMAIN cards = 1 .. last /\ \A i \in 1 .. last : cards[i] = rows[i].card
    <2>1. last \in Nat /\ last <= Len(rows) /\ Len(rows) \in Nat
      BY <1>4, <1>6
    <2> HIDE DEF full
    <2>2. \A i \in 1 .. last : i \in 1 .. Len(rows)
      BY <2>1
    <2> QED
      BY <2>2
  <1>8. cards \in Seq(ImportedCards)
    BY <1>5, <1>6, <1>7
  <1>9. Places(cards, TakenCards) = {i \in 1 .. last : rows[i] \in Takes}
    <2> HIDE DEF cards
    <2> QED
      BY <1>5, <1>7 DEF Places
  <1>10. Cardinality(Places(cards, TakenCards)) <= MaxCards
    <2> DEFINE N == {i \in 1 .. last : rows[i] \in Takes}
    <2>1. ASSUME NEW i \in N, i >= MaxCards PROVE i = last
      <3>1. i \in 1 .. last /\ rows[i].stops /\ i \in DOMAIN rows
        BY <1>4, <1>5, <1>7
      <3>2. i \in full
        BY <2>1, <3>1
      <3>3. last <= i
        <4> HIDE DEF full
        <4> QED
          BY <1>6, <3>2
      <3> QED
        BY <1>6, <3>1, <3>3
    <2>2. \A i \in N : i \in 1 .. last
      OBVIOUS
    <2> DEFINE M == N \ {last}
    <2>3. M \in SUBSET (1 .. MaxCards - 1)
      <3> HIDE DEF N
      <3>1. ASSUME NEW i \in N, i # last PROVE i \in 1 .. MaxCards - 1
        <4>1. ~(i >= MaxCards) /\ i \in 1 .. last
          BY <2>1, <2>2, <3>1
        <4>2. last \in Nat /\ MaxCards \in Nat
          BY <1>4, <1>6
        <4> QED
          BY <4>1, <4>2
      <3> QED
        BY <3>1
    <2>4. MaxCards - 1 \in Nat
      BY <1>4
    <2>5. PICK m \in Nat : m = MaxCards - 1
      BY <2>4
    <2>6. IsFiniteSet(M) /\ Cardinality(M) <= m
      <3>1. M \in SUBSET (1 .. m)
        BY <2>3, <2>5
      <3> HIDE DEF M
      <3> QED
        BY <3>1, WithinTheLimit
    <2>7. IsFiniteSet(M \cup {last}) /\ Cardinality(M \cup {last}) <= Cardinality(M) + 1
          /\ Cardinality(M) \in Nat
      <3> HIDE DEF M
      <3>1. last \in M => M \cup {last} = M
        OBVIOUS
      <3>2. IsFiniteSet(M \cup {last})
            /\ (last \notin M => Cardinality(M \cup {last}) = Cardinality(M) + 1)
        BY <2>6, FS_AddElement
      <3>3. Cardinality(M) \in Nat
        BY <2>6, FS_CardinalityType
      <3>4. CASE last \in M
        <4>1. M \cup {last} = M
          BY <3>1, <3>4
        <4>2. Cardinality(M) <= Cardinality(M) + 1
          BY <3>3
        <4> QED
          BY <2>6, <3>3, <4>1, <4>2
      <3>5. CASE last \notin M
        BY <3>2, <3>3, <3>5
      <3> QED
        BY <3>4, <3>5
    <2>8. N \subseteq M \cup {last}
      OBVIOUS
    <2>9. Cardinality(N) <= Cardinality(M \cup {last}) /\ IsFiniteSet(N)
      <3> HIDE DEF M, N
      <3> QED
        BY <2>7, <2>8, FS_Subset
    <2>10. Cardinality(N) \in Nat /\ Cardinality(M \cup {last}) \in Nat
      <3> HIDE DEF M, N
      <3> QED
        BY <2>7, <2>9, FS_CardinalityType
    <2> HIDE DEF M, N
    <2>11. Cardinality(N) <= MaxCards
      BY <1>4, <2>5, <2>6, <2>7, <2>9, <2>10
    <2> QED
      BY <1>9, <2>11 DEF N
  <1>11. full = {} => Places(cards, TakenCards) = Places(rows, Takes)
    <2> HIDE DEF full, cards
    <2> QED
      BY <1>4, <1>6, <1>9 DEF Places
  <1>12. full = {} => Cardinality(Places(cards, TakenCards))
                         = Cardinality(Places(FlattenSeq(entries), TakenCards))
    BY <1>3, <1>11
  <1>13. FlattenSeq(entries) \in Seq(ImportedCards)
    BY <1>3 DEF FileCards, ImportedCards
  <1> HIDE DEF full, cards
  <1>14. Imports!ZipOfCards(entries).cards = cards
             /\ (~Imports!ZipOfCards(entries).cut => full = {})
    <2>1. PICK b \in BOOLEAN : b = (full # {})
      OBVIOUS
    <2>2. Imports!ZipOfCards(entries) = [cards |-> cards, cut |-> b]
      BY <1>1, <2>1
    <2>3. /\ Imports!ZipOfCards(entries).cards = cards
          /\ (Imports!ZipOfCards(entries).cut = b)
      BY <2>2
    <2> QED
      BY <2>1, <2>3
  <1> QED
    BY <1>8, <1>10, <1>12, <1>13, <1>14

(* What the preview keeps of a file it reads: no more than the limit, and everything *)
(* that can be taken unless it says that the rest was left out.                      *)
LEMMA ReadIsWhole ==
    ASSUME NEW p \in Payloads, s1 \in Imports!Kinds
    PROVE  /\ Imports!ReadPayload(p).cards \in Seq(ImportedCards)
           /\ (IF s1 = "note" THEN Imports!Notes(p.entries) ELSE FlattenSeq(p.entries)) \in Seq(ImportedCards)
           /\ Cardinality(Places(Imports!ReadPayload(p).cards, TakenCards)) <= MaxCards
           /\ ~Imports!ReadPayload(p).cut =>
                 Cardinality(Places(Imports!ReadPayload(p).cards, TakenCards))
                    = Cardinality(Places(IF s1 = "note" THEN Imports!Notes(p.entries)
                                         ELSE FlattenSeq(p.entries), TakenCards))
  <1>1. p.entries \in Seq(FileCards) /\ (p.zip \/ Len(p.entries) = 1) /\ MaxCards \in Nat
    BY ImportAssumption DEF FileCards
  <1>2. ASSUME NEW s \in Seq(ImportedCards)
        PROVE  /\ Imports!LoneFile(s).cards \in Seq(ImportedCards)
               /\ Cardinality(Places(Imports!LoneFile(s).cards, TakenCards)) <= MaxCards
               /\ ~Imports!LoneFile(s).cut => Imports!LoneFile(s).cards = s
    <2>1. /\ Imports!LoneFile(s).cards \in Seq(ImportedCards)
          /\ Len(Imports!LoneFile(s).cards) <= MaxCards
          /\ ~Imports!LoneFile(s).cut => Imports!LoneFile(s).cards = s
      <3>1. PICK R : R = ImportedCards
        OBVIOUS
      <3>2. s \in Seq(R)
        BY <3>1
      <3>3. /\ Imports!LoneFile(s).cards \in Seq(R)
            /\ Len(Imports!LoneFile(s).cards) <= MaxCards
            /\ ~Imports!LoneFile(s).cut => Imports!LoneFile(s).cards = s
        BY <3>2, LoneFileIsWhole
      <3> QED
        BY <3>1, <3>3
    <2>2. PICK c \in Seq(ImportedCards) : c = Imports!LoneFile(s).cards
      BY <2>1
    <2>3. Len(c) \in Nat /\ DOMAIN c = 1 .. Len(c) /\ Len(c) <= MaxCards
      BY <2>1, <2>2
    <2>4. Places(c, TakenCards) \in SUBSET (1 .. MaxCards)
      <3>1. \A i \in 1 .. Len(c) : i \in 1 .. MaxCards
        BY <1>1, <2>3
      <3> QED
        BY <2>3, <3>1 DEF Places
    <2>5. Cardinality(Places(c, TakenCards)) <= MaxCards
      <3>1. PICK N \in SUBSET (1 .. MaxCards) : N = Places(c, TakenCards)
        BY <2>4
      <3>2. Cardinality(N) <= MaxCards
        BY <1>1, WithinTheLimit
      <3> QED
        BY <3>1, <3>2
    <2> QED
      BY <2>1, <2>2, <2>5
  <1>3. CASE s1 = "note"
    <2>1. Imports!Notes(p.entries) \in Seq(ImportedCards)
      <3>1. PICK e \in Seq(FileCards) : e = p.entries
        BY <1>1
      <3>2. ASSUME NEW i \in DOMAIN e PROVE (IF e[i] = <<>> THEN Imports!Unreadable ELSE e[i][1]) \in ImportedCards
        <4>1. e[i] \in Seq(CardsOf(Payloads))
          BY DEF FileCards
        <4>2. e[i] # <<>> => e[i][1] \in CardsOf(Payloads)
          BY <4>1
        <4> QED
          BY <4>2 DEF ImportedCards
      <3>3. Imports!Notes(e) \in Seq(ImportedCards)
        <4>1. DOMAIN e = 1 .. Len(e) /\ Len(e) \in Nat
          OBVIOUS
        <4> HIDE DEF ImportedCards
        <4> QED
          BY <3>2, <4>1 DEF Imports!Notes
      <3> QED
        BY <3>1, <3>3
    <2>2. PICK s \in Seq(ImportedCards) : s = Imports!Notes(p.entries)
      BY <2>1
    <2>3. Imports!ReadPayload(p) = Imports!LoneFile(s)
      BY <1>3, <2>2 DEF Imports!ReadPayload
    <2> QED
      BY <1>2, <1>3, <2>2, <2>3
  <1>4. CASE s1 # "note" /\ ~p.zip
    <2>1. Len(p.entries) = 1
      BY <1>1, <1>4
    <2>2. PICK e \in Seq(FileCards) : e = p.entries
      BY <1>1
    <2>3. e[1] \in FileCards /\ e[1] \in Seq(ImportedCards)
      <3>1. e[1] \in FileCards
        BY <2>1, <2>2
      <3> QED
        BY <3>1 DEF FileCards, ImportedCards
    <2>4. FlattenSeq(e) = e[1]
      <3>1. Len(e) \in Nat \ {0} /\ Len(e) = 1
        <4>1. Len(e) = 1
          BY <2>1, <2>2
        <4> QED
          BY <4>1
      <3>2. PICK joined : /\ joined[Len(e)] = FlattenSeq(e)
                          /\ \A i \in 1 .. Len(e) :
                                joined[i] = IF i = 1 THEN e[i] ELSE joined[i - 1] \o e[i]
        BY <3>1, Flattened
      <3>3. 1 \in 1 .. Len(e)
        BY <3>1
      <3>4. joined[1] = e[1]
        BY <3>2, <3>3
      <3> QED
        BY <3>1, <3>2, <3>4
    <2>5. PICK s \in Seq(ImportedCards) : s = e[1]
      BY <2>3
    <2>6. Imports!ReadPayload(p) = Imports!LoneFile(s) /\ FlattenSeq(p.entries) = s
      BY <1>4, <2>2, <2>4, <2>5 DEF Imports!ReadPayload
    <2> QED
      BY <1>2, <1>4, <2>6
  <1>5. CASE s1 # "note" /\ p.zip
    <2>1. PICK e \in Seq(FileCards) : e = p.entries
      BY <1>1
    <2>2. Imports!ReadPayload(p) = Imports!ZipOfCards(e)
      BY <1>5, <2>1 DEF Imports!ReadPayload
    <2>3. /\ Imports!ZipOfCards(e).cards \in Seq(ImportedCards)
          /\ FlattenSeq(e) \in Seq(ImportedCards)
          /\ Cardinality(Places(Imports!ZipOfCards(e).cards, TakenCards)) <= MaxCards
          /\ ~Imports!ZipOfCards(e).cut =>
                Cardinality(Places(Imports!ZipOfCards(e).cards, TakenCards))
                   = Cardinality(Places(FlattenSeq(e), TakenCards))
      BY ZipIsWhole
    <2> QED
      BY <1>5, <2>1, <2>2, <2>3
  <1> QED
    BY <1>3, <1>4, <1>5

-----------------------------------------------------------------------------
Phases == {"idle", "list", "create", "report"}
Takeable(todo) == {i \in DOMAIN todo : todo[i].kept}
Tried(t) == s6[t].created \cup s6[t].failed

ImportTypes ==
    /\ s1 \in Imports!Kinds
    /\ s2 = [u \in DOMAIN s2 |-> s2[u]]
    /\ \A u \in DOMAIN s2 : s2[u] \in Nat \X Nat
    /\ s3 = [preview |-> s3.preview, cards |-> s3.cards]
    /\ s3.preview \in 0 .. s4 /\ s4 \in Nat
    /\ DOMAIN s3.cards \subseteq Nat \ {0}
    /\ s5 \in Seq(Payloads) /\ Len(s5) = s4
    /\ s6 = [t \in Tabs |-> s6[t]]
    /\ \A t \in Tabs :
          /\ s6[t] = [at |-> s6[t].at, preview |-> s6[t].preview, todo |-> s6[t].todo,
                       known |-> s6[t].known, created |-> s6[t].created,
                       failed |-> s6[t].failed]
          /\ s6[t].at \in Phases /\ s6[t].preview \in 0 .. s4
          /\ DOMAIN s6[t].todo \subseteq Nat \ {0}

(* The draft is what its file was read as. *)
DraftIsOfItsFile ==
    s3 = Imports!NoDraft \/ (s3.preview # 0 /\ s3 = Imports!DraftOf(s3.preview, s5[s3.preview]))

(* Each preview is in the draft or in one tab, or done with. *)
OneConfirmation ==
    \A t \in Tabs :
       /\ s6[t].preview # 0 => s6[t].preview # s3.preview
       /\ s6[t].at # "idle" => s6[t].preview # 0
       /\ \A o \in Tabs : s6[t].preview = s6[o].preview /\ s6[t].preview # 0 => t = o

(* A tab tries each card that can be taken once. *)
TriesOnce ==
    \A t \in Tabs :
       /\ s6[t].created \cap s6[t].failed = {}
       /\ Tried(t) \subseteq Takeable(s6[t].todo)
       /\ s6[t].at = "list" => Tried(t) = {}
       /\ s6[t].at = "report" => Tried(t) = Takeable(s6[t].todo)

(* An object that came from a card is of a preview that has been confirmed, and the tab
   that still works on it has tried the card. *)
ObjectsAreOfTheirCards ==
    /\ \A u \in DOMAIN s2 : s2[u] # Imports!Others =>
          /\ s2[u][1] \in 1 .. s4 /\ s2[u][1] # s3.preview
          /\ \A t \in Tabs : s6[t].preview = s2[u][1] => s2[u][2] \in Tried(t)
    /\ \A u, v \in DOMAIN s2 : s2[u] = s2[v] /\ s2[u] # Imports!Others => u = v

ImportsHold ==
    /\ ImportTypes
    /\ DraftIsOfItsFile
    /\ OneConfirmation
    /\ TriesOnce
    /\ ObjectsAreOfTheirCards

LEMMA ImportsStart == Imports!Init => ImportsHold
  <1> SUFFICES ASSUME Imports!Init PROVE ImportsHold
    OBVIOUS
  <1>1. PICK names \in SUBSET {<<"a">>} : s2 = [u \in names |-> Imports!Others]
    BY DEF Imports!Init
  <1>2. /\ s1 \in Imports!Kinds /\ s3 = Imports!NoDraft /\ s4 = 0 /\ s5 = <<>>
        /\ s6 = [t \in Tabs |-> Imports!Idle]
    BY DEF Imports!Init
  <1>3. \A u \in DOMAIN s2 : s2[u] = Imports!Others
    BY <1>1
  <1>4. Imports!Others \in Nat \X Nat
    BY DEF Imports!Others
  <1>5. s5 \in Seq(Payloads) /\ Len(s5) = 0
    BY <1>2
  <1>6. /\ s3 = [preview |-> s3.preview, cards |-> s3.cards]
        /\ s3.preview = 0 /\ DOMAIN s3.cards = {}
    BY <1>2 DEF Imports!NoDraft
  <1>7. \A t \in Tabs :
           /\ s6[t] = [at |-> s6[t].at, preview |-> s6[t].preview, todo |-> s6[t].todo,
                        known |-> s6[t].known, created |-> s6[t].created,
                        failed |-> s6[t].failed]
           /\ s6[t].at = "idle" /\ s6[t].preview = 0 /\ DOMAIN s6[t].todo = {}
           /\ s6[t].created = {} /\ s6[t].failed = {}
    BY <1>2 DEF Imports!Idle
  <1>8. ImportTypes
    <2>1. s2 = [u \in DOMAIN s2 |-> s2[u]]
      BY <1>1
    <2>2. s6 = [t \in Tabs |-> s6[t]]
      BY <1>2
    <2>3. 0 \in 0 .. s4 /\ s4 \in Nat
      BY <1>2
    <2> QED
      BY <1>2, <1>3, <1>4, <1>5, <1>6, <1>7, <2>1, <2>2, <2>3 DEF ImportTypes, Phases
  <1>9. DraftIsOfItsFile
    BY <1>2 DEF DraftIsOfItsFile
  <1>10. OneConfirmation
    BY <1>7 DEF OneConfirmation
  <1>11. TriesOnce
    BY <1>7 DEF TriesOnce, Tried
  <1>12. ObjectsAreOfTheirCards
    BY <1>3 DEF ObjectsAreOfTheirCards
  <1> QED
    BY <1>8, <1>9, <1>10, <1>11, <1>12 DEF ImportsHold

(* The draft of a file is of its number, and its cards are numbered from one. *)
LEMMA DraftOfAFile ==
    ASSUME NEW n, NEW p \in Payloads, s1 \in Imports!Kinds
    PROVE  /\ Imports!DraftOf(n, p) = [preview |-> n, cards |-> Imports!DraftOf(n, p).cards]
           /\ Imports!DraftOf(n, p).preview = n
           /\ DOMAIN Imports!DraftOf(n, p).cards \subseteq Nat \ {0}
           /\ Takeable(Imports!DraftOf(n, p).cards) = Places(Imports!ReadPayload(p).cards, TakenCards)
  <1>1. PICK c \in Seq(ImportedCards) : c = Imports!ReadPayload(p).cards
    BY ReadIsWhole
  <1> DEFINE cards == [i \in DOMAIN c |-> [uid |-> Imports!BuiltUid(c[i], n, i), kept |-> Imports!Taken(c[i])]]
  <1>2. Imports!DraftOf(n, p) = [preview |-> n, cards |-> cards]
    BY <1>1 DEF Imports!DraftOf
  <1>3. DOMAIN c = 1 .. Len(c) /\ Len(c) \in Nat /\ DOMAIN cards = DOMAIN c
        /\ \A i \in DOMAIN c : c[i] \in ImportedCards
    OBVIOUS
  <1>4. \A i \in DOMAIN c : cards[i].kept <=> c[i] \in TakenCards
    BY <1>3 DEF TakenCards
  <1> HIDE DEF cards
  <1>5. Takeable(cards) = Places(c, TakenCards)
    BY <1>3, <1>4 DEF Takeable, Places
  <1>6. DOMAIN cards \subseteq Nat \ {0}
    BY <1>3
  <1> QED
    BY <1>1, <1>2, <1>5, <1>6

(* The card next in turn, if one is left. *)
LEMMA NextIsLeft ==
    ASSUME NEW t \in Tabs, ImportTypes
    PROVE  /\ Imports!NextCard(t) # 0 => Imports!NextCard(t) \in Takeable(s6[t].todo) \ Tried(t)
           /\ Imports!NextCard(t) = 0 => Takeable(s6[t].todo) \subseteq Tried(t)
  <1> DEFINE left == {i \in DOMAIN s6[t].todo :
                         i \notin s6[t].created \cup s6[t].failed /\ s6[t].todo[i].kept}
  <1>1. Imports!NextCard(t) = IF left = {} THEN 0 ELSE CHOOSE i \in left : \A j \in left : i <= j
    BY DEF Imports!NextCard
  <1>2. left = Takeable(s6[t].todo) \ Tried(t)
    BY DEF Takeable, Tried
  <1>3. left \subseteq Nat \ {0}
    <2>1. DOMAIN s6[t].todo \subseteq Nat \ {0}
      BY DEF ImportTypes
    <2> QED
      BY <2>1
  <1>4. left # {} => (CHOOSE i \in left : \A j \in left : i <= j) \in left
    <2>1. PICK N \in SUBSET Nat : N = left
      BY <1>3
    <2> HIDE DEF left
    <2>2. N # {} => (CHOOSE i \in N : \A j \in N : i <= j) \in N
      BY TheLeast
    <2> QED
      BY <2>1, <2>2
  <1>5. CASE left = {}
    BY <1>1, <1>2, <1>5
  <1>6. CASE left # {}
    <2>1. Imports!NextCard(t) \in left
      <3> HIDE DEF left
      <3> QED
        BY <1>1, <1>4, <1>6
    <2>2. Imports!NextCard(t) # 0
      BY <1>3, <2>1
    <2> QED
      BY <1>2, <2>1, <2>2
  <1> QED
    BY <1>5, <1>6

-----------------------------------------------------------------------------
LEMMA PreviewShows ==
    ASSUME ImportsHold, NEW t \in Tabs, Imports!Preview(t)
    PROVE  ImportsHold'
  <1> USE DEF ImportsHold
  <1>1. PICK p \in Payloads : s3' = Imports!DraftOf(s4 + 1, p) /\ s5' = Append(s5, p)
    BY DEF Imports!Preview
  <1>2. s4' = s4 + 1 /\ s1' = s1 /\ s2' = s2 /\ s6' = s6
    BY DEF Imports!Preview
  <1>3. /\ s4 \in Nat /\ s3.preview \in 0 .. s4 /\ s1 \in Imports!Kinds
        /\ s5 \in Seq(Payloads) /\ Len(s5) = s4
        /\ \A o \in Tabs : s6[o].preview \in 0 .. s4
    BY DEF ImportTypes
  <1>4. PICK n \in Nat : n = s4 + 1
    BY <1>3
  <1>5. /\ s3' = [preview |-> n, cards |-> s3'.cards] /\ s3'.preview = n
        /\ DOMAIN s3'.cards \subseteq Nat \ {0}
    BY <1>1, <1>3, <1>4, DraftOfAFile
  <1>6. s5' \in Seq(Payloads) /\ Len(s5') = n /\ s5'[n] = p
    BY <1>1, <1>3, <1>4
  <1>7. n # 0 /\ n \in 0 .. n /\ \A m \in 0 .. s4 : m \in 0 .. n /\ m # n
    BY <1>3, <1>4
  <1>8. ImportTypes'
    <2>1. s3'.preview \in 0 .. s4' /\ s4' \in Nat /\ Len(s5') = s4'
      BY <1>2, <1>4, <1>5, <1>6, <1>7
    <2>2. s3' = [preview |-> s3'.preview, cards |-> s3'.cards]
      BY <1>5
    <2>3. \A o \in Tabs : s6'[o].preview \in 0 .. s4'
      BY <1>2, <1>3, <1>4, <1>7
    <2> QED
      BY <1>2, <1>5, <1>6, <2>1, <2>2, <2>3 DEF ImportTypes
  <1>9. DraftIsOfItsFile'
    <2>1. s3' = Imports!DraftOf(n, p)'
      BY <1>1, <1>2, <1>4 DEF Imports!DraftOf, Imports!ReadPayload, Imports!BuiltUid,
         Imports!Taken
    <2> QED
      BY <1>5, <1>6, <1>7, <2>1 DEF DraftIsOfItsFile
  <1>10. OneConfirmation'
    BY <1>2, <1>3, <1>5, <1>7 DEF OneConfirmation
  <1>11. TriesOnce'
    BY <1>2 DEF TriesOnce, Tried, Takeable
  <1>12. ObjectsAreOfTheirCards'
    <2>1. \A m \in 1 .. s4 : m \in 1 .. n /\ m # n
      BY <1>3, <1>4
    <2> QED
      BY <1>2, <1>4, <1>5, <2>1 DEF ObjectsAreOfTheirCards, Tried
  <1> QED
    BY <1>8, <1>9, <1>10, <1>11, <1>12

LEMMA CancelForgets ==
    ASSUME ImportsHold, NEW t \in Tabs, Imports!Cancel(t)
    PROVE  ImportsHold'
  <1> USE DEF ImportsHold
  <1>1. /\ s3' = Imports!NoDraft /\ UNCHANGED <<s1, s2, s4, s5, s6>>
    BY DEF Imports!Cancel
  <1>2. /\ s3' = [preview |-> s3'.preview, cards |-> s3'.cards]
        /\ s3'.preview = 0 /\ DOMAIN s3'.cards = {}
    BY <1>1 DEF Imports!NoDraft
  <1>3. s4 \in Nat /\ 0 \in 0 .. s4
    BY DEF ImportTypes
  <1>4. ImportTypes'
    BY <1>1, <1>2, <1>3 DEF ImportTypes
  <1>5. DraftIsOfItsFile'
    BY <1>1 DEF DraftIsOfItsFile
  <1>6. OneConfirmation'
    BY <1>1, <1>2 DEF OneConfirmation
  <1>7. TriesOnce'
    BY <1>1 DEF TriesOnce, Tried, Takeable
  <1>8. ObjectsAreOfTheirCards'
    <2>1. \A m \in 1 .. s4 : m # 0
      BY <1>3
    <2> QED
      BY <1>1, <1>2, <2>1 DEF ObjectsAreOfTheirCards, Tried
  <1> QED
    BY <1>4, <1>5, <1>6, <1>7, <1>8

(* The confirmation takes the draft along, and no other tab has it. *)
LEMMA TakeImportTakes ==
    ASSUME ImportsHold, NEW t \in Tabs, Imports!TakeImport(t)
    PROVE  ImportsHold'
  <1> USE DEF ImportsHold
  <1>1. /\ s3 # Imports!NoDraft /\ s3' = Imports!NoDraft /\ UNCHANGED <<s1, s2, s4, s5>>
        /\ s6' = [s6 EXCEPT ![t] = [Imports!Idle EXCEPT !.at = "list", !.preview = s3.preview,
                                                  !.todo = s3.cards]]
    BY DEF Imports!TakeImport
  <1>2. PICK mine : mine = [Imports!Idle EXCEPT !.at = "list", !.preview = s3.preview,
                                        !.todo = s3.cards]
    OBVIOUS
  <1>3. /\ mine.at = "list" /\ mine.preview = s3.preview /\ mine.todo = s3.cards
        /\ mine.created = {} /\ mine.failed = {}
        /\ mine = [at |-> mine.at, preview |-> mine.preview, todo |-> mine.todo,
                   known |-> mine.known, created |-> mine.created, failed |-> mine.failed]
    BY <1>2 DEF Imports!Idle
  <1>4. s6 = [o \in Tabs |-> s6[o]]
    BY DEF ImportTypes
  <1>5. /\ s6'[t] = mine /\ \A o \in Tabs : o # t => s6'[o] = s6[o]
        /\ s6' = [o \in Tabs |-> s6'[o]]
    BY <1>1, <1>2, <1>4
  <1>6. s3.preview # 0
    BY <1>1 DEF DraftIsOfItsFile
  <1>7. /\ s3' = [preview |-> s3'.preview, cards |-> s3'.cards]
        /\ s3'.preview = 0 /\ DOMAIN s3'.cards = {}
    BY <1>1 DEF Imports!NoDraft
  <1>8. s4 \in Nat /\ 0 \in 0 .. s4 /\ s3.preview \in 0 .. s4
        /\ DOMAIN s3.cards \subseteq Nat \ {0}
    BY DEF ImportTypes
  <1>9. ImportTypes'
    <2>1. ASSUME NEW o \in Tabs
          PROVE  /\ s6'[o] = [at |-> s6'[o].at, preview |-> s6'[o].preview,
                               todo |-> s6'[o].todo, known |-> s6'[o].known,
                               created |-> s6'[o].created, failed |-> s6'[o].failed]
                 /\ s6'[o].at \in Phases /\ s6'[o].preview \in 0 .. s4
                 /\ DOMAIN s6'[o].todo \subseteq Nat \ {0}
      <3>1. CASE o = t
        BY <1>3, <1>5, <1>8, <3>1 DEF Phases
      <3>2. CASE o # t
        BY <1>5, <3>2 DEF ImportTypes
      <3> QED
        BY <3>1, <3>2
    <2> QED
      BY <1>1, <1>5, <1>7, <1>8, <2>1 DEF ImportTypes
  <1>10. DraftIsOfItsFile'
    BY <1>1 DEF DraftIsOfItsFile
  <1>11. OneConfirmation'
    <2>1. \A o \in Tabs : s6[o].preview # s3.preview
      BY <1>6 DEF OneConfirmation
    <2>2. ASSUME NEW o \in Tabs PROVE s6'[o].at # "idle" => s6'[o].preview # 0
      BY <1>3, <1>5, <1>6 DEF OneConfirmation
    <2>3. ASSUME NEW o \in Tabs, NEW q \in Tabs, s6'[o].preview = s6'[q].preview,
                 s6'[o].preview # 0
          PROVE  o = q
      BY <1>3, <1>5, <2>1, <2>3 DEF OneConfirmation
    <2> QED
      BY <1>7, <2>2, <2>3 DEF OneConfirmation
  <1>12. TriesOnce'
    <2>1. ASSUME NEW o \in Tabs
          PROVE  /\ s6'[o].created \cap s6'[o].failed = {}
                 /\ Tried(o)' \subseteq Takeable(s6'[o].todo)
                 /\ s6'[o].at = "list" => Tried(o)' = {}
                 /\ s6'[o].at = "report" => Tried(o)' = Takeable(s6'[o].todo)
      <3>1. CASE o = t
        BY <1>3, <1>5, <3>1 DEF Tried
      <3>2. CASE o # t
        <4>1. s6'[o] = s6[o] /\ Tried(o)' = Tried(o)
          BY <1>5, <3>2 DEF Tried
        <4> QED
          BY <4>1 DEF TriesOnce
      <3> QED
        BY <3>1, <3>2
    <2> QED
      BY <2>1 DEF TriesOnce, Takeable
  <1>13. ObjectsAreOfTheirCards'
    <2>1. ASSUME NEW u \in DOMAIN s2, s2[u] # Imports!Others, NEW o \in Tabs,
                 s6'[o].preview = s2[u][1]
          PROVE  s2[u][2] \in Tried(o)'
      <3>1. o # t
        BY <1>3, <1>5, <2>1 DEF ObjectsAreOfTheirCards
      <3> QED
        BY <1>5, <2>1, <3>1 DEF ObjectsAreOfTheirCards, Tried
    <2>2. \A m \in 1 .. s4 : m # 0
      BY <1>8
    <2> QED
      BY <1>1, <1>7, <2>1, <2>2 DEF ObjectsAreOfTheirCards
  <1> QED
    BY <1>9, <1>10, <1>11, <1>12, <1>13

(* A tab goes on, or leaves, and nothing else changes. *)
LEMMA TabGoesOn ==
    ASSUME ImportsHold, NEW t \in Tabs, NEW mine,
           UNCHANGED <<s1, s2, s3, s4, s5>>,
           s6' = [s6 EXCEPT ![t] = mine],
           mine = [at |-> mine.at, preview |-> mine.preview, todo |-> mine.todo,
                   known |-> mine.known, created |-> mine.created, failed |-> mine.failed],
           \/ mine = Imports!Idle
           \/ /\ mine.at \in {"create", "report"} /\ s6[t].at # "idle"
              /\ mine.preview = s6[t].preview /\ mine.todo = s6[t].todo
              /\ mine.created = s6[t].created /\ mine.failed = s6[t].failed
              /\ mine.at = "report" => Takeable(s6[t].todo) \subseteq Tried(t)
    PROVE  ImportsHold'
  <1> USE DEF ImportsHold
  <1>1. s6 = [o \in Tabs |-> s6[o]]
    BY DEF ImportTypes
  <1>2. /\ s6'[t] = mine /\ \A o \in Tabs : o # t => s6'[o] = s6[o]
        /\ s6' = [o \in Tabs |-> s6'[o]]
    BY <1>1
  <1>3. /\ s4 \in Nat /\ s6[t].preview \in 0 .. s4
        /\ DOMAIN s6[t].todo \subseteq Nat \ {0}
    BY DEF ImportTypes
  <1>4. mine = Imports!Idle => /\ mine.at = "idle" /\ mine.preview = 0 /\ DOMAIN mine.todo = {}
                      /\ mine.created = {} /\ mine.failed = {}
    BY DEF Imports!Idle
  <1>5. /\ mine.at \in Phases /\ mine.preview \in 0 .. s4
        /\ DOMAIN mine.todo \subseteq Nat \ {0}
    BY <1>3, <1>4 DEF Phases
  <1>6. mine.preview # 0 => mine.preview = s6[t].preview
    BY <1>4
  <1>7. mine.at # "idle" => mine.preview # 0
    BY <1>4 DEF OneConfirmation
  <1>8. ImportTypes'
    <2>1. ASSUME NEW o \in Tabs
          PROVE  /\ s6'[o] = [at |-> s6'[o].at, preview |-> s6'[o].preview,
                               todo |-> s6'[o].todo, known |-> s6'[o].known,
                               created |-> s6'[o].created, failed |-> s6'[o].failed]
                 /\ s6'[o].at \in Phases /\ s6'[o].preview \in 0 .. s4
                 /\ DOMAIN s6'[o].todo \subseteq Nat \ {0}
      <3>1. CASE o = t
        BY <1>2, <1>5, <3>1
      <3>2. CASE o # t
        BY <1>2, <3>2 DEF ImportTypes
      <3> QED
        BY <3>1, <3>2
    <2> QED
      BY <1>2, <2>1 DEF ImportTypes
  <1>9. DraftIsOfItsFile'
    BY DEF DraftIsOfItsFile, Imports!DraftOf, Imports!ReadPayload, Imports!BuiltUid,
       Imports!Taken
  <1>10. OneConfirmation'
    <2>1. ASSUME NEW o \in Tabs
          PROVE  /\ s6'[o].preview # 0 => s6'[o].preview = s6[o].preview
                 /\ s6'[o].at # "idle" => s6'[o].preview # 0
      <3>1. CASE o = t
        BY <1>2, <1>6, <1>7, <3>1
      <3>2. CASE o # t
        BY <1>2, <3>2 DEF OneConfirmation
      <3> QED
        BY <3>1, <3>2
    <2> QED
      BY <2>1 DEF OneConfirmation
  <1>11. TriesOnce'
    <2>1. ASSUME NEW o \in Tabs
          PROVE  /\ s6'[o].created \cap s6'[o].failed = {}
                 /\ Tried(o)' \subseteq Takeable(s6'[o].todo)
                 /\ s6'[o].at = "list" => Tried(o)' = {}
                 /\ s6'[o].at = "report" => Tried(o)' = Takeable(s6'[o].todo)
      <3>1. CASE o = t /\ mine = Imports!Idle
        BY <1>2, <1>4, <3>1 DEF Tried
      <3>2. CASE o = t /\ mine # Imports!Idle
        <4>1. Tried(t)' = Tried(t) /\ s6'[t].todo = s6[t].todo /\ s6'[t] = mine
              /\ mine.at # "list"
              /\ s6'[t].created = s6[t].created /\ s6'[t].failed = s6[t].failed
          BY <1>2, <3>2 DEF Tried
        <4>2. Tried(t) \subseteq Takeable(s6[t].todo)
              /\ s6[t].created \cap s6[t].failed = {}
          BY DEF TriesOnce
        <4>3. mine.at = "report" => Tried(t) = Takeable(s6[t].todo)
          BY <3>2, <4>2
        <4> QED
          BY <3>2, <4>1, <4>2, <4>3
      <3>3. CASE o # t
        <4>1. s6'[o] = s6[o] /\ Tried(o)' = Tried(o)
          BY <1>2, <3>3 DEF Tried
        <4> QED
          BY <4>1 DEF TriesOnce
      <3> QED
        BY <3>1, <3>2, <3>3
    <2> QED
      BY <2>1 DEF TriesOnce, Takeable
  <1>12. ObjectsAreOfTheirCards'
    <2>1. ASSUME NEW u \in DOMAIN s2, s2[u] # Imports!Others, NEW o \in Tabs,
                 s6'[o].preview = s2[u][1]
          PROVE  s2[u][2] \in Tried(o)'
      <3>1. s2[u][1] # 0
        BY <1>3, <2>1 DEF ObjectsAreOfTheirCards
      <3>2. s6[o].preview = s2[u][1] /\ Tried(o)' = Tried(o)
        <4>1. CASE o = t
          BY <1>2, <1>4, <2>1, <3>1, <4>1 DEF Tried
        <4>2. CASE o # t
          BY <1>2, <2>1, <4>2 DEF Tried
        <4> QED
          BY <4>1, <4>2
      <3> QED
        BY <2>1, <3>2 DEF ObjectsAreOfTheirCards
    <2> QED
      BY <2>1 DEF ObjectsAreOfTheirCards
  <1> QED
    BY <1>8, <1>9, <1>10, <1>11, <1>12

LEMMA TabLists ==
    ASSUME ImportsHold, NEW t \in Tabs, Imports!ExistingUIDs(t)
    PROVE  ImportsHold'
  <1>1. /\ s6[t].at = "list" /\ s6 = [o \in Tabs |-> s6[o]]
        /\ UNCHANGED <<s1, s2, s3, s4, s5>>
        /\ s6[t] = [at |-> s6[t].at, preview |-> s6[t].preview, todo |-> s6[t].todo,
                     known |-> s6[t].known, created |-> s6[t].created,
                     failed |-> s6[t].failed]
    BY DEF Imports!ExistingUIDs, ImportsHold, ImportTypes
  <1>2. CASE s6' = [s6 EXCEPT ![t].at = "create", ![t].known = DOMAIN s2]
    <2>1. PICK mine : mine = [s6[t] EXCEPT !.at = "create", !.known = DOMAIN s2]
      OBVIOUS
    <2>2. s6' = [s6 EXCEPT ![t] = mine]
      BY <1>2, <2>1
    <2>3. /\ mine = [at |-> mine.at, preview |-> mine.preview, todo |-> mine.todo,
                     known |-> mine.known, created |-> mine.created, failed |-> mine.failed]
          /\ mine.at = "create" /\ mine.preview = s6[t].preview /\ mine.todo = s6[t].todo
          /\ mine.created = s6[t].created /\ mine.failed = s6[t].failed
      BY <1>1, <2>1
    <2>4. mine.at \in {"create", "report"} /\ s6[t].at # "idle" /\ mine.at # "report"
      BY <1>1, <2>3
    <2> QED
      BY <1>1, <2>2, <2>3, <2>4, TabGoesOn
  <1>3. CASE s6' = [s6 EXCEPT ![t] = Imports!Idle]
    <2>1. PICK mine : mine = Imports!Idle
      OBVIOUS
    <2>2. mine = [at |-> mine.at, preview |-> mine.preview, todo |-> mine.todo,
                  known |-> mine.known, created |-> mine.created, failed |-> mine.failed]
      BY <2>1 DEF Imports!Idle
    <2> QED
      BY <1>1, <1>3, <2>1, <2>2, TabGoesOn
  <1> QED
    BY <1>2, <1>3 DEF Imports!ExistingUIDs

LEMMA TabReports ==
    ASSUME ImportsHold, NEW t \in Tabs, Imports!Report(t)
    PROVE  ImportsHold'
  <1>1. /\ s6[t].at = "create" /\ s6 = [o \in Tabs |-> s6[o]] /\ Imports!NextCard(t) = 0
        /\ UNCHANGED <<s1, s2, s3, s4, s5>>
        /\ s6[t] = [at |-> s6[t].at, preview |-> s6[t].preview, todo |-> s6[t].todo,
                     known |-> s6[t].known, created |-> s6[t].created,
                     failed |-> s6[t].failed]
        /\ s6' = [s6 EXCEPT ![t].at = "report"]
    BY DEF Imports!Report, ImportsHold, ImportTypes
  <1>2. PICK mine : mine = [s6[t] EXCEPT !.at = "report"]
    OBVIOUS
  <1>3. s6' = [s6 EXCEPT ![t] = mine]
    BY <1>1, <1>2
  <1>4. /\ mine = [at |-> mine.at, preview |-> mine.preview, todo |-> mine.todo,
                   known |-> mine.known, created |-> mine.created, failed |-> mine.failed]
        /\ mine.at = "report" /\ mine.preview = s6[t].preview /\ mine.todo = s6[t].todo
        /\ mine.created = s6[t].created /\ mine.failed = s6[t].failed
    BY <1>1, <1>2
  <1>5. mine.at \in {"create", "report"} /\ s6[t].at # "idle"
    BY <1>1, <1>4
  <1>6. Takeable(s6[t].todo) \subseteq Tried(t)
    BY <1>1, NextIsLeft DEF ImportsHold
  <1> QED
    BY <1>1, <1>3, <1>4, <1>5, <1>6, TabGoesOn

LEMMA TabLeaves ==
    ASSUME ImportsHold, NEW t \in Tabs, Imports!Leave(t)
    PROVE  ImportsHold'
  <1>1. PICK mine : mine = Imports!Idle
    OBVIOUS
  <1>2. mine = [at |-> mine.at, preview |-> mine.preview, todo |-> mine.todo,
                known |-> mine.known, created |-> mine.created, failed |-> mine.failed]
    BY <1>1 DEF Imports!Idle
  <1>3. s6' = [s6 EXCEPT ![t] = mine] /\ UNCHANGED <<s1, s2, s3, s4, s5>>
    BY <1>1 DEF Imports!Leave
  <1> QED
    BY <1>1, <1>2, <1>3, TabGoesOn

(* The server holds one object more, or another. *)
LEMMA ServerHolds ==
    ASSUME NEW name, NEW object, s2' = Imports!Holding(name, object)
    PROVE  /\ DOMAIN s2' = DOMAIN s2 \cup {name}
           /\ s2' = [u \in DOMAIN s2' |-> s2'[u]]
           /\ s2'[name] = object
           /\ \A u \in DOMAIN s2 : u # name => s2'[u] = s2[u]
  <1>1. PICK D : D = DOMAIN s2 \cup {name}
    OBVIOUS
  <1>2. s2' = [u \in D |-> IF u = name THEN object ELSE s2[u]]
    BY <1>1 DEF Imports!Holding
  <1> QED
    BY <1>1, <1>2

(* The card in turn is created under a name that was free, or reported as failed. *)
LEMMA CardIsCreated ==
    ASSUME ImportsHold, NEW t \in Tabs, Imports!CreateCard(t)
    PROVE  ImportsHold'
  <1> USE DEF ImportsHold
  <1>1. PICK i, uid, n : i = Imports!NextCard(t) /\ uid = Imports!UidFor(t, i) /\ n = s6[t].preview
    OBVIOUS
  <1> DEFINE Stored == s2' = Imports!Holding(uid, <<n, i>>)
  <1>2. /\ s6[t].at = "create" /\ i # 0 /\ UNCHANGED <<s1, s3, s4, s5>>
        /\ \/ /\ uid \notin DOMAIN s2 /\ Stored
              /\ s6' = [s6 EXCEPT ![t].created = @ \cup {i}, ![t].known = @ \cup {uid}]
           \/ /\ (s2' = s2 \/ (uid \notin DOMAIN s2 /\ Stored))
              /\ s6' = [s6 EXCEPT ![t].failed = @ \cup {i}]
    BY <1>1 DEF Imports!CreateCard
  <1>3. i \in Takeable(s6[t].todo) \ Tried(t)
    BY <1>1, <1>2, NextIsLeft
  <1>4. /\ s6 = [o \in Tabs |-> s6[o]] /\ s4 \in Nat
        /\ s6[t] = [at |-> s6[t].at, preview |-> s6[t].preview, todo |-> s6[t].todo,
                     known |-> s6[t].known, created |-> s6[t].created,
                     failed |-> s6[t].failed]
        /\ s6[t].preview \in 0 .. s4 /\ DOMAIN s6[t].todo \subseteq Nat \ {0}
    BY DEF ImportTypes
  <1>5. n # 0 /\ n \in 1 .. s4 /\ n # s3.preview /\ i \in Nat
    <2>1. n # 0 /\ n # s3.preview
      BY <1>1, <1>2 DEF OneConfirmation
    <2>2. i \in Nat
      BY <1>3, <1>4 DEF Takeable
    <2> QED
      BY <1>1, <1>4, <2>1, <2>2
  <1>6. PICK mine : /\ s6' = [s6 EXCEPT ![t] = mine]
                    /\ mine = [at |-> s6[t].at, preview |-> n, todo |-> s6[t].todo,
                               known |-> mine.known, created |-> mine.created,
                               failed |-> mine.failed]
                    /\ \/ mine.created = s6[t].created \cup {i} /\ mine.failed = s6[t].failed
                       \/ mine.failed = s6[t].failed \cup {i} /\ mine.created = s6[t].created
    <2>1. CASE s6' = [s6 EXCEPT ![t].created = @ \cup {i}, ![t].known = @ \cup {uid}]
      <3>1. PICK m : m = [s6[t] EXCEPT !.created = s6[t].created \cup {i},
                                       !.known = s6[t].known \cup {uid}]
        OBVIOUS
      <3>2. s6' = [s6 EXCEPT ![t] = m]
        BY <1>4, <2>1, <3>1
      <3>3. /\ m = [at |-> s6[t].at, preview |-> n, todo |-> s6[t].todo,
                    known |-> m.known, created |-> m.created, failed |-> m.failed]
            /\ m.created = s6[t].created \cup {i} /\ m.failed = s6[t].failed
        BY <1>1, <1>4, <3>1
      <3> QED
        BY <3>2, <3>3
    <2>2. CASE s6' = [s6 EXCEPT ![t].failed = @ \cup {i}]
      <3>1. PICK m : m = [s6[t] EXCEPT !.failed = s6[t].failed \cup {i}]
        OBVIOUS
      <3>2. s6' = [s6 EXCEPT ![t] = m]
        BY <1>4, <2>2, <3>1
      <3>3. /\ m = [at |-> s6[t].at, preview |-> n, todo |-> s6[t].todo,
                    known |-> m.known, created |-> m.created, failed |-> m.failed]
            /\ m.failed = s6[t].failed \cup {i} /\ m.created = s6[t].created
        BY <1>1, <1>4, <3>1
      <3> QED
        BY <3>2, <3>3
    <2> QED
      BY <1>2, <2>1, <2>2
  <1>7. /\ mine.at = "create" /\ mine.preview = n /\ mine.todo = s6[t].todo
        /\ mine = [at |-> mine.at, preview |-> mine.preview, todo |-> mine.todo,
                   known |-> mine.known, created |-> mine.created, failed |-> mine.failed]
    BY <1>2, <1>6
  <1>8. /\ s6'[t] = mine /\ \A o \in Tabs : o # t => s6'[o] = s6[o]
        /\ s6' = [o \in Tabs |-> s6'[o]]
    BY <1>4, <1>6
  <1>9. Tried(t)' = Tried(t) \cup {i} /\ \A o \in Tabs : o # t => Tried(o)' = Tried(o)
    BY <1>6, <1>8 DEF Tried
  <1>10. /\ s2' = [u \in DOMAIN s2' |-> s2'[u]]
         /\ DOMAIN s2' \subseteq DOMAIN s2 \cup {uid}
         /\ \A u \in DOMAIN s2' : \/ (u \in DOMAIN s2 /\ s2'[u] = s2[u])
                                     \/ (u = uid /\ s2'[u] = <<n, i>>)
    <2>1. CASE s2' = s2
      <3>1. s2 = [u \in DOMAIN s2 |-> s2[u]]
        BY DEF ImportTypes
      <3> HIDE DEF Stored
      <3> QED
        BY <2>1, <3>1
    <2>2. CASE uid \notin DOMAIN s2 /\ Stored
      <3>1. PICK object : object = <<n, i>>
        OBVIOUS
      <3>2. s2' = Imports!Holding(uid, object)
        BY <2>2, <3>1
      <3> HIDE DEF Stored
      <3>3. /\ DOMAIN s2' = DOMAIN s2 \cup {uid}
            /\ s2' = [u \in DOMAIN s2' |-> s2'[u]]
            /\ s2'[uid] = object
            /\ \A u \in DOMAIN s2 : u # uid => s2'[u] = s2[u]
        BY <3>2, ServerHolds
      <3> QED
        BY <2>2, <3>1, <3>3
    <2> QED
      BY <1>2, <2>1, <2>2
  <1>11. ImportTypes'
    <2>1. ASSUME NEW o \in Tabs
          PROVE  /\ s6'[o] = [at |-> s6'[o].at, preview |-> s6'[o].preview,
                               todo |-> s6'[o].todo, known |-> s6'[o].known,
                               created |-> s6'[o].created, failed |-> s6'[o].failed]
                 /\ s6'[o].at \in Phases /\ s6'[o].preview \in 0 .. s4
                 /\ DOMAIN s6'[o].todo \subseteq Nat \ {0}
      <3>1. CASE o = t
        BY <1>1, <1>4, <1>7, <1>8, <3>1 DEF Phases
      <3>2. CASE o # t
        BY <1>8, <3>2 DEF ImportTypes
      <3> QED
        BY <3>1, <3>2
    <2>2. ASSUME NEW u \in DOMAIN s2' PROVE s2'[u] \in Nat \X Nat
      <3>1. \A v \in DOMAIN s2 : s2[v] \in Nat \X Nat
        BY DEF ImportTypes
      <3>2. <<n, i>> \in Nat \X Nat
        BY <1>4, <1>5
      <3> QED
        BY <1>10, <3>1, <3>2
    <2> QED
      BY <1>2, <1>8, <1>10, <2>1, <2>2 DEF ImportTypes
  <1>12. DraftIsOfItsFile'
    BY <1>2 DEF DraftIsOfItsFile, Imports!DraftOf, Imports!ReadPayload, Imports!BuiltUid,
       Imports!Taken
  <1>13. OneConfirmation'
    <2>1. ASSUME NEW o \in Tabs
          PROVE  s6'[o].preview = s6[o].preview /\ s6'[o].at = s6[o].at
      BY <1>1, <1>2, <1>7, <1>8
    <2> QED
      BY <1>2, <2>1 DEF OneConfirmation
  <1>14. TriesOnce'
    <2>1. ASSUME NEW o \in Tabs
          PROVE  /\ s6'[o].created \cap s6'[o].failed = {}
                 /\ Tried(o)' \subseteq Takeable(s6'[o].todo)
                 /\ s6'[o].at = "list" => Tried(o)' = {}
                 /\ s6'[o].at = "report" => Tried(o)' = Takeable(s6'[o].todo)
      <3>1. CASE o = t
        <4>1. mine.created \cap mine.failed = {}
          BY <1>3, <1>6 DEF TriesOnce, Tried
        <4>2. Tried(t) \subseteq Takeable(s6[t].todo)
          BY DEF TriesOnce
        <4> QED
          BY <1>3, <1>7, <1>8, <1>9, <3>1, <4>1, <4>2
      <3>2. CASE o # t
        <4>1. s6'[o] = s6[o] /\ Tried(o)' = Tried(o)
          BY <1>8, <1>9, <3>2
        <4> QED
          BY <4>1 DEF TriesOnce
      <3> QED
        BY <3>1, <3>2
    <2> QED
      BY <2>1 DEF TriesOnce, Takeable
  <1>15. ObjectsAreOfTheirCards'
    <2>1. ASSUME NEW u \in DOMAIN s2', s2'[u] # Imports!Others
          PROVE  /\ s2'[u][1] \in 1 .. s4 /\ s2'[u][1] # s3.preview
                 /\ \A o \in Tabs : s6'[o].preview = s2'[u][1] =>
                       s2'[u][2] \in Tried(o)'
      <3>1. CASE u \in DOMAIN s2 /\ s2'[u] = s2[u]
        <4>1. ASSUME NEW o \in Tabs, s6'[o].preview = s2[u][1]
              PROVE  s2[u][2] \in Tried(o)'
          <5>1. s6[o].preview = s2[u][1]
            BY <1>1, <1>7, <1>8, <4>1
          <5>2. s2[u][2] \in Tried(o)
            BY <2>1, <3>1, <5>1 DEF ObjectsAreOfTheirCards
          <5> QED
            BY <1>9, <5>2
        <4> QED
          BY <2>1, <3>1, <4>1 DEF ObjectsAreOfTheirCards
      <3>2. CASE s2'[u] = <<n, i>>
        <4>1. s2'[u][1] = n /\ s2'[u][2] = i
          BY <3>2
        <4>2. ASSUME NEW o \in Tabs, s6'[o].preview = n PROVE i \in Tried(o)'
          <5>1. s6[o].preview = s6[t].preview /\ s6[o].preview # 0
            BY <1>1, <1>5, <1>7, <1>8, <4>2
          <5>2. o = t
            BY <5>1 DEF OneConfirmation
          <5> QED
            BY <1>9, <5>2
        <4> QED
          BY <1>5, <4>1, <4>2
      <3> QED
        BY <1>10, <3>1, <3>2
    <2>2. ASSUME NEW u \in DOMAIN s2, s2[u] = <<n, i>> PROVE FALSE
      <3>1. s2[u] # Imports!Others
        BY <1>5, <2>2 DEF Imports!Others
      <3>2. s2[u][1] = n /\ s2[u][2] = i
        BY <2>2
      <3>3. i \in Tried(t)
        BY <1>1, <3>1, <3>2 DEF ObjectsAreOfTheirCards
      <3> QED
        BY <1>3, <3>3
    <2>3. ASSUME NEW u \in DOMAIN s2', NEW v \in DOMAIN s2',
                 s2'[u] = s2'[v], s2'[u] # Imports!Others
          PROVE  u = v
      <3>1. CASE u \in DOMAIN s2 /\ v \in DOMAIN s2
                 /\ s2'[u] = s2[u] /\ s2'[v] = s2[v]
        BY <2>3, <3>1 DEF ObjectsAreOfTheirCards
      <3>2. CASE u = uid /\ v = uid
        BY <3>2
      <3> QED
        BY <1>10, <2>2, <2>3, <3>1, <3>2
    <2> QED
      BY <1>2, <2>1, <2>3 DEF ObjectsAreOfTheirCards
  <1> QED
    BY <1>11, <1>12, <1>13, <1>14, <1>15

(* Another client's objects come and go. *)
LEMMA OthersWrite ==
    ASSUME ImportsHold, Imports!OtherWrites
    PROVE  ImportsHold'
  <1> USE DEF ImportsHold
  <1>1. UNCHANGED <<s1, s3, s4, s5, s6>>
    BY DEF Imports!OtherWrites
  <1>2. /\ s2' = [u \in DOMAIN s2' |-> s2'[u]]
        /\ \A u \in DOMAIN s2' : \/ (u \in DOMAIN s2 /\ s2'[u] = s2[u])
                                    \/ s2'[u] = Imports!Others
    <2>1. PICK name : s2' = IF name \in DOMAIN s2
                                THEN Imports!Restrict(s2, DOMAIN s2 \ {name})
                                ELSE Imports!Holding(name, Imports!Others)
      BY DEF Imports!OtherWrites
    <2>2. CASE name \in DOMAIN s2
      BY <2>1, <2>2 DEF Imports!Restrict
    <2>3. CASE name \notin DOMAIN s2
      <3>1. PICK object : object = Imports!Others
        OBVIOUS
      <3>2. s2' = Imports!Holding(name, object)
        BY <2>1, <2>3, <3>1
      <3>3. /\ DOMAIN s2' = DOMAIN s2 \cup {name}
            /\ s2' = [u \in DOMAIN s2' |-> s2'[u]]
            /\ s2'[name] = object
            /\ \A u \in DOMAIN s2 : u # name => s2'[u] = s2[u]
        BY <3>2, ServerHolds
      <3> QED
        BY <3>1, <3>3
    <2> QED
      BY <2>2, <2>3
  <1>3. ImportTypes'
    <2>1. Imports!Others \in Nat \X Nat
      BY DEF Imports!Others
    <2> QED
      BY <1>1, <1>2, <2>1 DEF ImportTypes
  <1>4. DraftIsOfItsFile'
    BY <1>1 DEF DraftIsOfItsFile, Imports!DraftOf, Imports!ReadPayload, Imports!BuiltUid,
       Imports!Taken
  <1>5. OneConfirmation' /\ TriesOnce'
    BY <1>1 DEF OneConfirmation, TriesOnce, Tried, Takeable
  <1>6. ObjectsAreOfTheirCards'
    <2>1. \A u \in DOMAIN s2' : s2'[u] # Imports!Others =>
             u \in DOMAIN s2 /\ s2'[u] = s2[u]
      BY <1>2
    <2> QED
      BY <1>1, <2>1 DEF ObjectsAreOfTheirCards, Tried
  <1> QED
    BY <1>3, <1>4, <1>5, <1>6

LEMMA ImportsStep ==
    ASSUME ImportsHold, [Imports!Next]_(Imports!vars)
    PROVE  ImportsHold'
  <1>1. CASE UNCHANGED Imports!vars
    <2>1. UNCHANGED <<s1, s2, s3, s4, s5, s6>>
      BY <1>1 DEF Imports!vars
    <2>2. ImportTypes' /\ OneConfirmation'
      BY <2>1 DEF ImportsHold, ImportTypes, OneConfirmation
    <2>3. DraftIsOfItsFile'
      BY <2>1 DEF ImportsHold, DraftIsOfItsFile, Imports!DraftOf, Imports!ReadPayload,
         Imports!BuiltUid, Imports!Taken
    <2>4. TriesOnce' /\ ObjectsAreOfTheirCards'
      BY <2>1 DEF ImportsHold, TriesOnce, ObjectsAreOfTheirCards, Tried
    <2> QED
      BY <2>2, <2>3, <2>4 DEF ImportsHold
  <1>2. CASE \E t \in Tabs : Imports!Preview(t) \/ Imports!Cancel(t) \/ Imports!TakeImport(t)
                 \/ Imports!ExistingUIDs(t)
                            \/ Imports!CreateCard(t) \/ Imports!Report(t) \/ Imports!Leave(t)
    BY <1>2, PreviewShows, CancelForgets, TakeImportTakes, TabLists, CardIsCreated,
       TabReports, TabLeaves
  <1>3. CASE Imports!OtherWrites
    BY <1>3, OthersWrite
  <1> QED
    BY <1>1, <1>2, <1>3 DEF Imports!Next

LEMMA ImportsShow ==
    ASSUME ImportsHold
    PROVE  Imports!EachCardOnce /\ Imports!PreviewIsWhole
  <1> USE DEF ImportsHold
  <1>1. Imports!EachCardOnce
    <2>1. \A t \in Tabs : s6[t].at = "report" =>
            /\ s6[t].created \cap s6[t].failed = {}
            /\ s6[t].created \cup s6[t].failed =
                  {i \in DOMAIN s6[t].todo : s6[t].todo[i].kept}
      BY DEF TriesOnce, Tried, Takeable
    <2> QED
      BY <2>1 DEF Imports!EachCardOnce, OneConfirmation, ObjectsAreOfTheirCards
  <1>2. Imports!PreviewIsWhole
    <2> SUFFICES ASSUME s3 # Imports!NoDraft
                 PROVE  LET p == s5[s3.preview]
                            all == IF s1 = "note" THEN Imports!Notes(p.entries)
                                   ELSE FlattenSeq(p.entries)
                            kept == {i \in DOMAIN s3.cards : s3.cards[i].kept}
                        IN /\ Cardinality(kept) <= MaxCards
                           /\ ~Imports!ReadPayload(p).cut =>
                                 Cardinality(kept) = Cardinality({i \in DOMAIN all : Imports!Taken(all[i])})
      BY ImportCounts, ImportFlattens DEF Imports!PreviewIsWhole
    <2>1. PICK n : n = s3.preview
      OBVIOUS
    <2>2. n \in DOMAIN s5 /\ s1 \in Imports!Kinds /\ s3 = Imports!DraftOf(n, s5[n])
      <3>1. n # 0 /\ s3 = Imports!DraftOf(n, s5[n])
        BY <2>1 DEF DraftIsOfItsFile
      <3>2. n \in 0 .. Len(s5) /\ s5 \in Seq(Payloads) /\ s1 \in Imports!Kinds
        BY <2>1 DEF ImportTypes
      <3> QED
        BY <3>1, <3>2
    <2>3. PICK p \in Payloads : p = s5[n]
      BY <2>2 DEF ImportTypes
    <2> DEFINE kept == {i \in DOMAIN s3.cards : s3.cards[i].kept}
               all == IF s1 = "note" THEN Imports!Notes(p.entries) ELSE FlattenSeq(p.entries)
    <2>4. kept = Places(Imports!ReadPayload(p).cards, TakenCards)
      <3>1. Takeable(s3.cards) = Places(Imports!ReadPayload(p).cards, TakenCards)
        BY <2>2, <2>3, DraftOfAFile
      <3> QED
        BY <3>1 DEF Takeable
    <2>5. /\ Cardinality(kept) <= MaxCards
          /\ ~Imports!ReadPayload(p).cut => Cardinality(kept) = Cardinality(Places(all, TakenCards))
      BY <2>2, <2>4, ReadIsWhole
    <2>6. Places(all, TakenCards) = {i \in DOMAIN all : Imports!Taken(all[i])}
      <3>1. PICK s \in Seq(ImportedCards) : s = all
        BY <2>2, ReadIsWhole
      <3>2. \A i \in DOMAIN s : s[i] \in ImportedCards
        OBVIOUS
      <3>3. Places(s, TakenCards) = {i \in DOMAIN s : Imports!Taken(s[i])}
        BY <3>2 DEF Places, TakenCards
      <3> QED
        BY <3>1, <3>3
    <2> HIDE DEF kept, all
    <2>7. /\ Cardinality(kept) <= MaxCards
          /\ ~Imports!ReadPayload(p).cut =>
                Cardinality(kept) = Cardinality({i \in DOMAIN all : Imports!Taken(all[i])})
      BY <2>5, <2>6, ImportCounts
    <2> QED
      BY <2>1, <2>3, <2>7 DEF kept, all
  <1> QED
    BY <1>1, <1>2

(* A card that is created replaces nothing. *)
LEMMA CreationsAdd ==
    ASSUME NEW t \in Tabs, Imports!CreateCard(t)
    PROVE  /\ DOMAIN s2 \subseteq DOMAIN s2'
           /\ \A u \in DOMAIN s2 : s2'[u] = s2[u]
  <1>1. PICK uid, object : /\ uid = Imports!UidFor(t, Imports!NextCard(t))
                           /\ object = <<s6[t].preview, Imports!NextCard(t)>>
    OBVIOUS
  <1>2. s2' = s2 \/ (uid \notin DOMAIN s2 /\ s2' = Imports!Holding(uid, object))
    BY <1>1 DEF Imports!CreateCard
  <1>3. CASE uid \notin DOMAIN s2 /\ s2' = Imports!Holding(uid, object)
    <2>1. /\ DOMAIN s2' = DOMAIN s2 \cup {uid}
          /\ \A u \in DOMAIN s2 : u # uid => s2'[u] = s2[u]
      BY <1>3, ServerHolds
    <2> QED
      BY <1>3, <2>1
  <1> QED
    BY <1>2, <1>3

-----------------------------------------------------------------------------
(* Merge. *)
Folds(values) == {Merge!Fold(values[i]) : i \in DOMAIN values} \ {Merge!NoText}

(* The folds of a sequence with one more value. *)
LEMMA OneMoreFold ==
    ASSUME NEW s \in Seq(ValuesOf(Cards)), NEW v \in ValuesOf(Cards)
    PROVE  /\ Append(s, v) \in Seq(ValuesOf(Cards))
           /\ Folds(Append(s, v)) = (Folds(s) \cup {Merge!Fold(v)}) \ {Merge!NoText}
  <1>1. /\ Append(s, v) \in Seq(ValuesOf(Cards)) /\ DOMAIN Append(s, v) = 1 .. Len(s) + 1
        /\ \A i \in 1 .. Len(s) : Append(s, v)[i] = s[i]
        /\ Append(s, v)[Len(s) + 1] = v
        /\ DOMAIN s = 1 .. Len(s) /\ Len(s) \in Nat
    OBVIOUS
  <1>2. \A i : i \in 1 .. Len(s) + 1 <=> i \in 1 .. Len(s) \/ i = Len(s) + 1
    BY <1>1
  <1> QED
    BY <1>1, <1>2 DEF Folds

(* What is kept of a sequence of values has each fold of it once. *)
LEMMA Deduped ==
    ASSUME NEW base \in Seq(ValuesOf(Cards)), NEW incoming \in Seq(ValuesOf(Cards))
    PROVE  /\ Merge!dedupeValues(base, incoming) \in Seq(ValuesOf(Cards))
           /\ Folds(Merge!dedupeValues(base, incoming)) = Folds(base) \cup Folds(incoming)
           /\ IsFiniteSet(Folds(Merge!dedupeValues(base, incoming)))
           /\ Cardinality(Folds(Merge!dedupeValues(base, incoming)))
                = Len(Merge!dedupeValues(base, incoming))
  <1>1. PICK all \in Seq(ValuesOf(Cards)) : all = base \o incoming
    BY ConcatProperties
  <1> DEFINE n == Len(all)
             Skips(o, i) == \/ Merge!Fold(all[i]) = Merge!NoText
                            \/ \E j \in DOMAIN o : Merge!Fold(o[j]) = Merge!Fold(all[i])
             Step(o, i) == IF Skips(o, i) THEN o ELSE Append(o, all[i])
             Builds(h, m) == h = [i \in 0 .. m |-> IF i = 0 THEN <<>> ELSE Step(h[i - 1], i)]
             out == CHOOSE h : Builds(h, n)
  <1>2. n \in Nat /\ DOMAIN all = 1 .. n /\ \A i \in 1 .. n : all[i] \in ValuesOf(Cards)
    OBVIOUS
  <1>3. \E h : Builds(h, n)
    <2> DEFINE P == {m \in Nat : \E h : Builds(h, m)}
    <2>1. 0 \in P
      <3>1. Builds([i \in 0 .. 0 |-> <<>>], 0)
        OBVIOUS
      <3> QED
        BY <3>1
    <2>2. ASSUME NEW m \in Nat, m \in P PROVE m + 1 \in P
      <3>1. PICK h : Builds(h, m)
        BY <2>2
      <3> DEFINE g == [i \in 0 .. m + 1 |-> IF i = m + 1 THEN Step(h[m], m + 1) ELSE h[i]]
      <3>2. \A i \in 0 .. m + 1 : g[i] = IF i = m + 1 THEN Step(h[m], m + 1) ELSE h[i]
        OBVIOUS
      <3>3. DOMAIN g = 0 .. m + 1 /\ g = [i \in 0 .. m + 1 |-> g[i]]
        OBVIOUS
      <3> HIDE DEF Step, g
      <3>4. \A i \in 0 .. m : h[i] = IF i = 0 THEN <<>> ELSE Step(h[i - 1], i)
        BY <3>1
      <3>5. ASSUME NEW i \in 0 .. m + 1
            PROVE  g[i] = IF i = 0 THEN <<>> ELSE Step(g[i - 1], i)
        <4>1. CASE i = m + 1
          <5>1. i # 0 /\ i - 1 = m /\ i - 1 # m + 1 /\ i - 1 \in 0 .. m + 1
            BY <4>1
          <5> QED
            BY <3>2, <4>1, <5>1
        <4>2. CASE i \in 0 .. m
          <5>1. i # m + 1 /\ (i # 0 => i - 1 \in 0 .. m + 1 /\ i - 1 # m + 1)
            BY <4>2
          <5> QED
            BY <3>2, <3>4, <4>2, <5>1
        <4> QED
          BY <4>1, <4>2
      <3>6. Builds(g, m + 1)
        BY <3>3, <3>5
      <3> QED
        BY <3>6
    <2> HIDE DEF P
    <2>3. n \in P
      BY <2>1, <2>2, <1>2, NatInductive
    <2> QED
      BY <2>3 DEF P
  <1>4. Builds(out, n)
    BY <1>3
  <1>5. Merge!dedupeValues(base, incoming) = out[n]
    BY <1>1 DEF Merge!dedupeValues
  <1> HIDE DEF out
  <1>6. out[0] = <<>> /\ \A i \in 0 .. n - 1 : out[i + 1] = Step(out[i], i + 1)
    <2> HIDE DEF Step
    <2> QED
      BY <1>2, <1>4
  <1> DEFINE Upto(i) == {Merge!Fold(all[j]) : j \in 1 .. i} \ {Merge!NoText}
             Right(i) == /\ out[i] \in Seq(ValuesOf(Cards)) /\ Folds(out[i]) = Upto(i)
                         /\ Merge!NoText \notin {Merge!Fold(out[i][j]) : j \in DOMAIN out[i]}
                         /\ IsFiniteSet(Upto(i)) /\ Cardinality(Upto(i)) = Len(out[i])
             Q == {i \in Nat : i <= n => Right(i)}
  <1>7. 0 \in Q
    <2>1. <<>> \in Seq(ValuesOf(Cards)) /\ Len(<<>>) = 0 /\ DOMAIN <<>> = {}
      OBVIOUS
    <2>2. Upto(0) = {} /\ Folds(<<>>) = {}
      BY <2>1 DEF Folds
    <2>3. IsFiniteSet({}) /\ Cardinality({}) = 0
      BY FS_EmptySet
    <2>4. {Merge!Fold(out[0][j]) : j \in DOMAIN out[0]} = {}
      BY <1>6, <2>1
    <2>5. Right(0)
      <3> HIDE DEF Upto
      <3> QED
        BY <1>6, <2>1, <2>2, <2>3, <2>4
    <2> HIDE DEF Right
    <2> QED
      BY <2>5
  <1>8. ASSUME NEW i \in Nat, i \in Q PROVE i + 1 \in Q
    <2> SUFFICES ASSUME i + 1 <= n PROVE Right(i + 1)
      OBVIOUS
    <2>1. Right(i) /\ out[i + 1] = Step(out[i], i + 1) /\ all[i + 1] \in ValuesOf(Cards)
      <3>1. i + 1 \in 1 .. n /\ i \in 0 .. n - 1 /\ i <= n
        BY <1>2
      <3>2. Right(i)
        BY <1>8, <3>1
      <3>3. out[i + 1] = Step(out[i], i + 1)
        BY <1>6, <3>1
      <3>4. all[i + 1] \in ValuesOf(Cards)
        BY <1>2, <3>1
      <3> HIDE DEF Right, Step
      <3> QED
        BY <3>2, <3>3, <3>4
    <2>2. PICK o \in Seq(ValuesOf(Cards)), v \in ValuesOf(Cards) : o = out[i] /\ v = all[i + 1]
      BY <2>1
    <2>3. Upto(i + 1) = (Upto(i) \cup {Merge!Fold(v)}) \ {Merge!NoText}
      <3>1. \A j : j \in 1 .. i + 1 <=> j \in 1 .. i \/ j = i + 1
        OBVIOUS
      <3> QED
        BY <2>2, <3>1
    <2>4. CASE Merge!Fold(v) \in {Merge!NoText} \cup {Merge!Fold(o[j]) : j \in DOMAIN o}
      <3>1. out[i + 1] = o
        BY <2>1, <2>2, <2>4
      <3>2. Upto(i + 1) = Upto(i)
        <4>1. Merge!Fold(v) # Merge!NoText => Merge!Fold(v) \in Folds(o)
          BY <2>4 DEF Folds
        <4>2. Merge!NoText \notin Upto(i)
          OBVIOUS
        <4> HIDE DEF Upto
        <4> QED
          BY <2>1, <2>2, <2>3, <4>1, <4>2
      <3> HIDE DEF Upto
      <3> QED
        BY <2>1, <2>2, <3>1, <3>2
    <2>5. CASE Merge!Fold(v) \notin {Merge!NoText} \cup {Merge!Fold(o[j]) : j \in DOMAIN o}
      <3>1. out[i + 1] = Append(o, v)
        BY <2>1, <2>2, <2>5
      <3> HIDE DEF Upto
      <3>2. Upto(i + 1) = Upto(i) \cup {Merge!Fold(v)} /\ Merge!Fold(v) \notin Upto(i)
        <4>1. Merge!Fold(v) \notin Folds(o)
          BY <2>5 DEF Folds
        <4>2. Merge!NoText \notin Folds(o)
          BY DEF Folds
        <4> QED
          BY <2>1, <2>2, <2>3, <2>5, <4>1, <4>2
      <3>3. Append(o, v) \in Seq(ValuesOf(Cards))
            /\ Folds(Append(o, v)) = (Folds(o) \cup {Merge!Fold(v)}) \ {Merge!NoText}
        BY OneMoreFold
      <3>4. Folds(Append(o, v)) = Upto(i + 1)
        BY <2>1, <2>2, <2>3, <3>3
      <3>5. /\ IsFiniteSet(Upto(i + 1))
            /\ Cardinality(Upto(i + 1)) = Cardinality(Upto(i)) + 1
        <4>1. PICK U, x : U = Upto(i) /\ x = Merge!Fold(v)
          OBVIOUS
        <4>2. IsFiniteSet(U) /\ x \notin U
          BY <2>1, <3>2, <4>1
        <4>3. IsFiniteSet(U \cup {x}) /\ Cardinality(U \cup {x}) = Cardinality(U) + 1
          BY <4>2, FS_AddElement
        <4> QED
          BY <3>2, <4>1, <4>3
      <3>6. Len(Append(o, v)) = Len(o) + 1
        OBVIOUS
      <3>7. Merge!NoText \notin {Merge!Fold(Append(o, v)[j]) : j \in DOMAIN Append(o, v)}
        <4>1. ASSUME NEW j \in DOMAIN Append(o, v) PROVE Merge!Fold(Append(o,
                     v)[j]) # Merge!NoText
          <5>1. Append(o, v)[j] = v \/ \E k \in DOMAIN o : Append(o, v)[j] = o[k]
            OBVIOUS
          <5> QED
            BY <2>1, <2>2, <2>5, <5>1
        <4> QED
          BY <4>1
      <3> QED
        BY <2>1, <2>2, <3>1, <3>3, <3>4, <3>5, <3>6, <3>7
    <2> QED
      BY <2>4, <2>5
  <1> HIDE DEF Q
  <1>9. n \in Q
    BY <1>2, <1>7, <1>8, NatInductive
  <1>10. Right(n)
    BY <1>2, <1>9 DEF Q
  <1>11. Upto(n) = Folds(base) \cup Folds(incoming)
    <2>1. /\ Len(base) \in Nat /\ Len(incoming) \in Nat /\ n = Len(base) + Len(incoming)
          /\ DOMAIN base = 1 .. Len(base) /\ DOMAIN incoming = 1 .. Len(incoming)
          /\ \A i \in 1 .. Len(base) : all[i] = base[i]
          /\ \A i \in 1 .. Len(incoming) : all[Len(base) + i] = incoming[i]
      BY <1>1
    <2>2. ASSUME NEW j \in 1 .. n
          PROVE  \/ \E i \in DOMAIN base : all[j] = base[i]
                 \/ \E i \in DOMAIN incoming : all[j] = incoming[i]
      <3>1. CASE j <= Len(base)
        BY <2>1, <3>1
      <3>2. CASE ~(j <= Len(base))
        <4>1. j - Len(base) \in 1 .. Len(incoming) /\ Len(base) + (j - Len(base)) = j
          BY <2>1, <3>2
        <4> QED
          BY <2>1, <4>1
      <3> QED
        BY <3>1, <3>2
    <2>3. \A i \in DOMAIN base : \E j \in 1 .. n : all[j] = base[i]
      BY <2>1
    <2>4. \A i \in DOMAIN incoming : \E j \in 1 .. n : all[j] = incoming[i]
      <3>1. \A i \in 1 .. Len(incoming) : Len(base) + i \in 1 .. n
        BY <2>1
      <3> QED
        BY <2>1, <3>1
    <2> HIDE DEF n
    <2> QED
      <3>1. ASSUME NEW j \in 1 .. n, Merge!Fold(all[j]) # Merge!NoText
            PROVE  Merge!Fold(all[j]) \in Folds(base) \cup Folds(incoming)
        BY <2>2, <3>1 DEF Folds
      <3>2. ASSUME NEW i \in DOMAIN base, Merge!Fold(base[i]) # Merge!NoText
            PROVE  Merge!Fold(base[i]) \in Upto(n)
        BY <2>3, <3>2
      <3>3. ASSUME NEW i \in DOMAIN incoming, Merge!Fold(incoming[i]) # Merge!NoText
            PROVE  Merge!Fold(incoming[i]) \in Upto(n)
        BY <2>4, <3>3
      <3>4. Upto(n) \subseteq Folds(base) \cup Folds(incoming)
        BY <3>1
      <3>5. Folds(base) \cup Folds(incoming) \subseteq Upto(n)
        <4> HIDE DEF Upto
        <4> QED
          BY <3>2, <3>3 DEF Folds
      <3> QED
        BY <3>4, <3>5
  <1> HIDE DEF Upto
  <1> QED
    BY <1>5, <1>10, <1>11

LEMMA FoldsOfBoth ==
    ASSUME NEW a \in Seq(ValuesOf(Cards)), NEW b \in Seq(ValuesOf(Cards))
    PROVE  a \o b \in Seq(ValuesOf(Cards)) /\ Folds(a) \subseteq Folds(a \o b)
           /\ Folds(b) \subseteq Folds(a \o b)
  <1>1. PICK c \in Seq(ValuesOf(Cards)) : c = a \o b
    BY ConcatProperties
  <1>2. /\ Len(a) \in Nat /\ Len(b) \in Nat /\ Len(c) = Len(a) + Len(b)
        /\ DOMAIN a = 1 .. Len(a) /\ DOMAIN b = 1 .. Len(b) /\ DOMAIN c = 1 .. Len(c)
        /\ \A i \in 1 .. Len(a) : c[i] = a[i]
        /\ \A i \in 1 .. Len(b) : c[Len(a) + i] = b[i]
    BY <1>1
  <1>3. \A i \in DOMAIN a : i \in DOMAIN c /\ c[i] = a[i]
    BY <1>2
  <1>4. \A i \in DOMAIN b : Len(a) + i \in DOMAIN c /\ c[Len(a) + i] = b[i]
    BY <1>2
  <1> QED
    BY <1>1, <1>3, <1>4 DEF Folds

(* Sequences put together keep the folds of each. *)
LEMMA FoldsOfAll ==
    ASSUME NEW seqs \in Seq(Seq(ValuesOf(Cards)))
    PROVE  /\ FlattenSeq(seqs) \in Seq(ValuesOf(Cards))
           /\ \A k \in DOMAIN seqs : Folds(seqs[k]) \subseteq Folds(FlattenSeq(seqs))
  <1>1. CASE Len(seqs) = 0
    <2>1. seqs = <<>> /\ DOMAIN seqs = {}
      BY <1>1
    <2>2. FlattenSeq(seqs) = <<>>
      BY <1>1, <2>1 DEF FlattenSeq
    <2>3. <<>> \in Seq(ValuesOf(Cards))
      OBVIOUS
    <2> QED
      BY <2>1, <2>2, <2>3
  <1>2. CASE Len(seqs) # 0
    <2> DEFINE n == Len(seqs)
    <2>1. n \in Nat \ {0} /\ DOMAIN seqs = 1 .. n
              /\ \A i \in 1 .. n : seqs[i] \in Seq(ValuesOf(Cards))
      BY <1>2
    <2>2. PICK flatten :
             /\ flatten[n] = FlattenSeq(seqs)
             /\ \A i \in 1 .. n : flatten[i] = IF i = 1 THEN seqs[i] ELSE flatten[i - 1] \o seqs[i]
      BY <2>1, Flattened
    <2> DEFINE Right(i) == /\ flatten[i] \in Seq(ValuesOf(Cards))
                           /\ \A k \in 1 .. i : Folds(seqs[k]) \subseteq Folds(flatten[i])
               Q == {i \in Nat : i \in 1 .. n => Right(i)}
    <2>6. 0 \in Q
      OBVIOUS
    <2>7. ASSUME NEW i \in Nat, i \in Q PROVE i + 1 \in Q
      <3> SUFFICES ASSUME i + 1 \in 1 .. n PROVE Right(i + 1)
        OBVIOUS
      <3>1. seqs[i + 1] \in Seq(ValuesOf(Cards))
        BY <2>1
      <3>2. CASE i = 0
        <4>1. flatten[i + 1] = seqs[i + 1]
          BY <2>2, <3>2
        <4>2. \A k \in 1 .. i + 1 : k = i + 1
          BY <3>2
        <4> QED
          BY <3>1, <4>1, <4>2
      <3>3. CASE i # 0
        <4>1. i \in 1 .. n /\ i + 1 # 1 /\ (i + 1) - 1 = i
          BY <3>3
        <4>2. Right(i) /\ flatten[i + 1] = flatten[i] \o seqs[i + 1]
          BY <2>2, <2>7, <4>1
        <4>3. PICK a \in Seq(ValuesOf(Cards)), b \in Seq(ValuesOf(Cards)) : a = flatten[i]
                       /\ b = seqs[i + 1]
          BY <3>1, <4>2
        <4>4. flatten[i + 1] = a \o b
          BY <4>2, <4>3
        <4>5. a \o b \in Seq(ValuesOf(Cards)) /\ Folds(a) \subseteq Folds(a \o b)
              /\ Folds(b) \subseteq Folds(a \o b)
          BY FoldsOfBoth
        <4>6. \A k \in 1 .. i + 1 : k \in 1 .. i \/ k = i + 1
          OBVIOUS
        <4> QED
          BY <4>2, <4>3, <4>4, <4>5, <4>6
      <3> QED
        BY <3>2, <3>3
    <2> HIDE DEF Q
    <2>8. n \in Q
      BY <2>1, <2>6, <2>7, NatInductive
    <2>9. Right(n)
      BY <2>1, <2>8 DEF Q
    <2> QED
      BY <2>1, <2>2, <2>9
  <1> QED
    BY <1>1, <1>2

-----------------------------------------------------------------------------
Contents == [Merge!Names -> Seq(ValuesOf(Cards))]

(* The merged card has what the target and the others have, but for properties that a card *)
(* has once, and only where the values of the target differ from each other.               *)
LEMMA MergedHasAll ==
    ASSUME NEW target \in Contents, NEW others \in Seq(Contents)
    PROVE  /\ Merge!MergedCard(target, others) \in Contents
           /\ (\A n \in Merge!repeatableProperties : Cardinality(Folds(target[n])) = Len(target[n])) =>
              \A k \in DOMAIN others, n \in Merge!Names \ Merge!serverProperties :
                 n \in Merge!repeatableProperties \/ target[n] = <<>> =>
                     Folds(others[k][n]) \subseteq Folds(Merge!MergedCard(target, others)[n])
  <1> DEFINE collected(n) == Merge!Collect(others, n)
             values(n) == Merge!dedupeValues(target[n], collected(n))
  <1>1. ASSUME NEW n \in Merge!Names
        PROVE  /\ target[n] \in Seq(ValuesOf(Cards))
               /\ collected(n) \in Seq(ValuesOf(Cards))
               /\ \A k \in DOMAIN others : Folds(others[k][n]) \subseteq Folds(collected(n))
    <2>1. PICK seqs : seqs = [i \in DOMAIN others |-> others[i][n]]
      OBVIOUS
    <2>2. \A i \in DOMAIN others : others[i][n] \in Seq(ValuesOf(Cards))
      BY DEF Contents
    <2>3. seqs \in Seq(Seq(ValuesOf(Cards)))
      BY <2>1, <2>2
    <2>4. FlattenSeq(seqs) \in Seq(ValuesOf(Cards))
          /\ \A k \in DOMAIN seqs : Folds(seqs[k]) \subseteq Folds(FlattenSeq(seqs))
      BY <2>3, FoldsOfAll
    <2>5. collected(n) = FlattenSeq(seqs)
      BY <2>1, MergeFlattens DEF Merge!Collect
    <2> QED
      BY <2>1, <2>4, <2>5 DEF Contents
  <1>2. ASSUME NEW n \in Merge!Names
        PROVE  /\ values(n) \in Seq(ValuesOf(Cards))
               /\ Folds(values(n)) = Folds(target[n]) \cup Folds(collected(n))
               /\ IsFiniteSet(Folds(values(n)))
               /\ Cardinality(Folds(values(n))) = Len(values(n))
    <2>1. PICK a \in Seq(ValuesOf(Cards)), b \in Seq(ValuesOf(Cards)) : a = target[n]
                   /\ b = collected(n)
      BY <1>1
    <2>2. values(n) = Merge!dedupeValues(a, b)
      BY <2>1
    <2> HIDE DEF values, collected
    <2> QED
      BY <2>1, <2>2, Deduped
  <1>3. ASSUME NEW n \in Merge!Names
        PROVE  Merge!MergedCard(target, others)[n] =
                 IF n \in Merge!serverProperties THEN target[n]
                 ELSE IF target[n] = <<>> THEN values(n)
                 ELSE IF n \in Merge!repeatableProperties /\ Len(values(n)) # Len(target[n])
                 THEN values(n) ELSE target[n]
    BY DEF Merge!MergedCard, Merge!Merged
  <1> HIDE DEF values, collected
  <1>4. Merge!MergedCard(target, others) \in Contents
    <2>1. Merge!MergedCard(target, others) = [n \in Merge!Names |-> Merge!MergedCard(target, others)[n]]
      BY DEF Merge!MergedCard
    <2>2. \A n \in Merge!Names : Merge!MergedCard(target, others)[n] \in Seq(ValuesOf(Cards))
      BY <1>1, <1>2, <1>3
    <2> QED
      BY <2>1, <2>2 DEF Contents
  <1>5. ASSUME \A n \in Merge!repeatableProperties : Cardinality(Folds(target[n])) = Len(target[n]),
               NEW k \in DOMAIN others, NEW n \in Merge!Names \ Merge!serverProperties,
               n \in Merge!repeatableProperties \/ target[n] = <<>>
        PROVE  Folds(others[k][n]) \subseteq Folds(Merge!MergedCard(target, others)[n])
    <2>1. Folds(others[k][n]) \subseteq Folds(values(n))
      BY <1>1, <1>2
    <2>2. CASE target[n] = <<>> \/ Len(values(n)) # Len(target[n])
      BY <1>3, <1>5, <2>1, <2>2
    <2>3. CASE target[n] # <<>> /\ Len(values(n)) = Len(target[n])
      <3>1. Cardinality(Folds(values(n))) = Cardinality(Folds(target[n]))
        BY <1>2, <1>5, <2>3
      <3>2. Folds(target[n]) \subseteq Folds(values(n)) /\ IsFiniteSet(Folds(values(n)))
        BY <1>2
      <3>3. Folds(target[n]) = Folds(values(n))
        <4>1. PICK S, T : S = Folds(values(n)) /\ T = Folds(target[n])
          OBVIOUS
        <4> QED
          BY <3>1, <3>2, <4>1, FS_Subset
      <3>4. Merge!MergedCard(target, others)[n] = target[n]
        BY <1>3, <2>3
      <3> QED
        BY <2>1, <3>3, <3>4
    <2> QED
      BY <2>2, <2>3
  <1> QED
    BY <1>4, <1>5

-----------------------------------------------------------------------------
Versions == [etag : Nat, card : Contents]
Merging == [i \in DOMAIN Sources |-> s2[Sources[i]].card]

MergeTypes ==
    /\ s1 \in [Merge!All -> Versions \cup {Merge!Gone}]
    /\ s2 \in [Merge!All -> Versions \cup {Merge!Unread}]
    /\ s5 \in Nat

(* What was read is what the server had under that version. *)
ReadsAreOfTheirVersion ==
    \A c \in Merge!All : s2[c] # Merge!Unread /\ s1[c] # Merge!Gone =>
        /\ s2[c].etag <= s1[c].etag
        /\ s2[c].etag = s1[c].etag => s2[c] = s1[c]

(* Nothing is deleted until all was read, and what was read was written. *)
MergedBeforeDeleted ==
    /\ s3 = "plan" => s7 = <<>>
    /\ s3 = "delete" \/ s7 # <<>> =>
          Merge!Waiting = {} /\ s4 = Merge!MergedCard(s2["target"].card, Merging)
    /\ s7 \in Seq(Contents)
    /\ \A i \in DOMAIN s7 : \E k \in DOMAIN Sources : s7[i] = s2[Sources[k]].card

MergeHolds == MergeTypes /\ ReadsAreOfTheirVersion /\ MergedBeforeDeleted

-----------------------------------------------------------------------------
LEMMA MergeStarts == Merge!Init => MergeHolds
  <1> SUFFICES ASSUME Merge!Init PROVE MergeHolds
    OBVIOUS
  <1>1. \A c \in Cards : c \in Contents
    BY MergeAssumption DEF Contents
  <1>2. \A c \in Cards : [etag |-> 1, card |-> c] \in Versions
    BY <1>1 DEF Versions
  <1>3. s1 \in [Merge!All -> Versions \cup {Merge!Gone}]
            /\ s2 \in [Merge!All -> Versions \cup {Merge!Unread}]
        /\ \A c \in Merge!All : s2[c] = Merge!Unread
    BY <1>2 DEF Merge!Init
  <1>4. s7 = <<>> /\ s3 = "plan" /\ <<>> \in Seq(Contents) /\ DOMAIN <<>> = {} /\ s5 = 0
    BY DEF Merge!Init
  <1> QED
    BY <1>3, <1>4 DEF MergeHolds, MergeTypes, ReadsAreOfTheirVersion, MergedBeforeDeleted

LEMMA ReadMergeCardStep == ASSUME MergeHolds, Merge!ReadMergeCard PROVE MergeHolds'
  <1>1. /\ s3 = "plan" /\ s7 = <<>>
        /\ UNCHANGED <<s1, s4, s5, s6, s7>>
    BY DEF Merge!ReadMergeCard, MergeHolds, MergedBeforeDeleted
  <1>2. /\ s1 \in [Merge!All -> Versions \cup {Merge!Gone}]
        /\ s2 \in [Merge!All -> Versions \cup {Merge!Unread}]
        /\ s5 \in Nat
    BY DEF MergeHolds, MergeTypes
  <1>3. PICK c : \/ s1[c] # Merge!Gone /\ s2' = [s2 EXCEPT ![c] = s1[c]] /\ s3' = "plan"
                 \/ s3' = "stopped" /\ s2' = s2
    BY DEF Merge!ReadMergeCard, Merge!Stop
  <1>4. \A x \in Merge!All : \/ s2'[x] = s2[x]
                             \/ s2'[x] = s1[x] /\ s1[x] # Merge!Gone
    BY <1>2, <1>3
  <1>5. s2' \in [Merge!All -> Versions \cup {Merge!Unread}]
    <2>1. CASE c \in Merge!All
      BY <1>2, <1>3, <2>1
    <2>2. CASE c \notin Merge!All
      BY <1>2, <1>3, <2>2
    <2> QED
      BY <2>1, <2>2
  <1>6. MergeTypes'
    BY <1>1, <1>2, <1>5 DEF MergeTypes
  <1>7. ReadsAreOfTheirVersion'
    <2>1. SUFFICES ASSUME NEW x \in Merge!All, s2'[x] # Merge!Unread, s1[x] # Merge!Gone
                   PROVE  /\ s2'[x].etag <= s1[x].etag
                          /\ s2'[x].etag = s1[x].etag => s2'[x] = s1[x]
      BY <1>1 DEF ReadsAreOfTheirVersion
    <2>2. s1[x] \in Versions
      BY <1>2, <2>1
    <2>3. CASE s2'[x] = s2[x]
      BY <2>1, <2>3 DEF MergeHolds, ReadsAreOfTheirVersion
    <2>4. CASE s2'[x] = s1[x]
      BY <2>2, <2>4 DEF Versions
    <2> QED
      BY <1>4, <2>3, <2>4
  <1>8. MergedBeforeDeleted'
    <2>1. s3' # "delete" /\ s7' = <<>>
      BY <1>1, <1>3
    <2>2. <<>> \in Seq(Contents) /\ DOMAIN <<>> = {}
      OBVIOUS
    <2> QED
      BY <2>1, <2>2 DEF MergedBeforeDeleted
  <1> QED
    BY <1>6, <1>7, <1>8 DEF MergeHolds

(* A change of a card makes it newer than what was read. *)
LEMMA NewerThanRead ==
    ASSUME MergeHolds, NEW c \in Merge!All, NEW card \in Contents,
           s1[c] # Merge!Gone, s1' = [s1 EXCEPT ![c] = [etag |-> @.etag + 1, card |-> card]],
           s2' = s2
    PROVE  s1' \in [Merge!All -> Versions \cup {Merge!Gone}] /\ ReadsAreOfTheirVersion'
  <1>1. /\ s1 \in [Merge!All -> Versions \cup {Merge!Gone}]
        /\ s2 \in [Merge!All -> Versions \cup {Merge!Unread}]
        /\ ReadsAreOfTheirVersion
    BY DEF MergeHolds, MergeTypes
  <1>2. PICK v : v = [etag |-> s1[c].etag + 1, card |-> card]
    OBVIOUS
  <1>3. s1[c] \in Versions /\ s1[c].etag \in Nat
    BY <1>1 DEF Versions
  <1>4. v \in Versions /\ v.etag = s1[c].etag + 1
    BY <1>2, <1>3 DEF Versions
  <1>5. s1' = [s1 EXCEPT ![c] = v]
    BY <1>2
  <1>6. s1' \in [Merge!All -> Versions \cup {Merge!Gone}]
    BY <1>1, <1>4, <1>5
  <1>7. ASSUME NEW x \in Merge!All, s2[x] # Merge!Unread, s1'[x] # Merge!Gone
        PROVE  /\ s2[x].etag <= s1'[x].etag
               /\ s2[x].etag = s1'[x].etag => s2[x] = s1'[x]
    <2>1. CASE x = c
      <3>1. s2[x].etag <= s1[c].etag /\ s1'[x] = v /\ s2[x].etag \in Nat
        <4>1. s2[x] \in Versions
          BY <1>1, <1>7
        <4> QED
          BY <1>1, <1>5, <1>7, <2>1, <4>1 DEF ReadsAreOfTheirVersion, Versions
      <3> QED
        BY <1>3, <1>4, <3>1
    <2>2. CASE x # c
      <3>1. s1'[x] = s1[x]
        BY <1>1, <1>5, <2>2
      <3> QED
        BY <1>1, <1>7, <3>1 DEF ReadsAreOfTheirVersion
    <2> QED
      BY <2>1, <2>2
  <1> QED
    BY <1>6, <1>7 DEF ReadsAreOfTheirVersion

(* A card that goes is no longer compared with what was read. *)
LEMMA GoneIsNotRead ==
    ASSUME MergeHolds, NEW c, s1' = [s1 EXCEPT ![c] = Merge!Gone], s2' = s2
    PROVE  s1' \in [Merge!All -> Versions \cup {Merge!Gone}] /\ ReadsAreOfTheirVersion'
  <1>1. /\ s1 \in [Merge!All -> Versions \cup {Merge!Gone}] /\ ReadsAreOfTheirVersion
    BY DEF MergeHolds, MergeTypes
  <1>2. s1' \in [Merge!All -> Versions \cup {Merge!Gone}]
    BY <1>1
  <1>3. \A x \in Merge!All : s1'[x] = Merge!Gone \/ s1'[x] = s1[x]
    BY <1>1
  <1>4. ASSUME NEW x \in Merge!All, s2[x] # Merge!Unread, s1'[x] # Merge!Gone
        PROVE  /\ s2[x].etag <= s1'[x].etag
               /\ s2[x].etag = s1'[x].etag => s2[x] = s1'[x]
    <2>1. s1'[x] = s1[x]
      BY <1>3, <1>4
    <2> QED
      BY <1>1, <1>4, <2>1 DEF ReadsAreOfTheirVersion
  <1> QED
    BY <1>2, <1>4 DEF ReadsAreOfTheirVersion

(* When all was read, what is merged are cards. *)
LEMMA AllWasRead ==
    ASSUME MergeHolds, Merge!Waiting = {}
    PROVE  /\ s2["target"].card \in Contents /\ Merging \in Seq(Contents)
           /\ \A k \in DOMAIN Sources : Sources[k] \in Merge!All /\ s2[Sources[k]] \in Versions
           /\ Merge!MergedCard(s2["target"].card, Merging) \in Contents
  <1>1. s2 \in [Merge!All -> Versions \cup {Merge!Unread}]
    BY DEF MergeHolds, MergeTypes
  <1>2. \A c \in Merge!All : s2[c] \in Versions
    BY <1>1 DEF Merge!Waiting
  <1>3. "target" \in Merge!All /\ \A k \in DOMAIN Sources : Sources[k] \in Merge!All
    BY DEF Merge!All, Merge!Range
  <1>4. s2["target"].card \in Contents
        /\ \A k \in DOMAIN Sources : s2[Sources[k]] \in Versions /\ s2[Sources[k]].card \in Contents
    BY <1>2, <1>3 DEF Versions
  <1>5. Sources \in Seq(STRING)
    BY MergeAssumption
  <1>6. Merging \in Seq(Contents)
    BY <1>4, <1>5 DEF Merging
  <1> QED
    BY <1>3, <1>4, <1>6, MergedHasAll

LEMMA WriteMergedStep == ASSUME MergeHolds, Merge!WriteMerged PROVE MergeHolds'
  <1>1. /\ s3 = "plan" /\ s7 = <<>> /\ Merge!Waiting = {}
        /\ UNCHANGED <<s2, s5, s6, s7>>
    BY DEF Merge!WriteMerged, MergeHolds, MergedBeforeDeleted
  <1>2. PICK merged : merged = Merge!MergedCard(s2["target"].card, Merging)
    OBVIOUS
  <1>3. merged \in Contents
    BY <1>1, <1>2, AllWasRead
  <1>4. \/ /\ Merge!Holds("target")
           /\ s1' = [s1 EXCEPT !["target"] = [etag |-> @.etag + 1, card |-> merged]]
           /\ (s4' = merged /\ s3' = "delete") \/ s3' = "stopped"
        \/ s3' = "stopped" /\ s1' = s1
    BY <1>2 DEF Merge!WriteMerged, Merge!Stop, Merging
  <1>5. MergeTypes' /\ ReadsAreOfTheirVersion'
    <2>1. CASE s1' = s1
      BY <1>1, <2>1 DEF MergeHolds, MergeTypes, ReadsAreOfTheirVersion
    <2>2. CASE /\ Merge!Holds("target")
               /\ s1' = [s1 EXCEPT !["target"] = [etag |-> @.etag + 1, card |-> merged]]
      <3>1. "target" \in Merge!All /\ s1["target"] # Merge!Gone
        BY <2>2 DEF Merge!All, Merge!Holds
      <3> QED
        BY <1>1, <1>3, <2>2, <3>1, NewerThanRead DEF MergeHolds, MergeTypes
    <2> QED
      BY <1>4, <2>1, <2>2
  <1>6. MergedBeforeDeleted'
    <2>1. <<>> \in Seq(Contents) /\ DOMAIN <<>> = {}
      OBVIOUS
    <2>2. /\ s3' # "plan"
          /\ s7' = <<>>
          /\ Merge!Waiting' = Merge!Waiting
          /\ Merging' = Merging
      BY <1>1, <1>4 DEF Merge!Waiting, Merging
    <2>3. s3' = "delete" => s4' = Merge!MergedCard(s2["target"].card, Merging)'
      BY <1>1, <1>2, <1>4, <2>2
    <2> QED
      BY <1>1, <2>1, <2>2, <2>3 DEF MergedBeforeDeleted
  <1> QED
    BY <1>5, <1>6 DEF MergeHolds

LEMMA DeleteSourceStep == ASSUME MergeHolds, Merge!DeleteSource PROVE MergeHolds'
  <1>1. s3 = "delete" /\ s5 < Len(Sources) /\ UNCHANGED <<s2, s4, s6>>
    BY DEF Merge!DeleteSource
  <1>2. Merge!Waiting = {} /\ s4 = Merge!MergedCard(s2["target"].card, Merging)
    BY <1>1 DEF MergeHolds, MergedBeforeDeleted
  <1>3. /\ s7 \in Seq(Contents) /\ s5 \in Nat
        /\ \A i \in DOMAIN s7 : \E k \in DOMAIN Sources : s7[i] = s2[Sources[k]].card
    BY DEF MergeHolds, MergedBeforeDeleted, MergeTypes
  <1>4. PICK c : c = Sources[s5 + 1]
    OBVIOUS
  <1>5. \/ /\ Merge!Holds(c) /\ s1' = [s1 EXCEPT ![c] = Merge!Gone]
           /\ s7' = Append(s7, s1[c].card)
           /\ s5' \in {s5, s5 + 1} /\ s3' \in {"delete", "stopped"}
        \/ s3' = "stopped" /\ UNCHANGED <<s1, s5, s7>>
    BY <1>1, <1>4 DEF Merge!DeleteSource, Merge!Stop
  <1>6. MergeTypes' /\ ReadsAreOfTheirVersion'
    <2>1. CASE UNCHANGED <<s1, s5>>
      BY <1>1, <2>1 DEF MergeHolds, MergeTypes, ReadsAreOfTheirVersion
    <2>2. CASE s1' = [s1 EXCEPT ![c] = Merge!Gone] /\ s5' \in {s5, s5 + 1}
      <3>1. s1' \in [Merge!All -> Versions \cup {Merge!Gone}] /\ ReadsAreOfTheirVersion'
        BY <1>1, <2>2, GoneIsNotRead
      <3>2. s5' \in Nat
        BY <1>3, <2>2
      <3>3. s2' \in [Merge!All -> Versions \cup {Merge!Unread}]
        BY <1>1 DEF MergeHolds, MergeTypes
      <3> QED
        BY <3>1, <3>2, <3>3 DEF MergeTypes
    <2> QED
      BY <1>5, <2>1, <2>2
  <1>7. Merging' = Merging /\ Merge!Waiting' = Merge!Waiting /\ s2' = s2
    BY <1>1 DEF Merging, Merge!Waiting
  <1>8. /\ s7' \in Seq(Contents)
        /\ \A i \in DOMAIN s7' : \E k \in DOMAIN Sources : s7'[i] = s2[Sources[k]].card
    <2>1. CASE s7' = s7
      BY <1>3, <2>1
    <2>2. CASE Merge!Holds(c) /\ s7' = Append(s7, s1[c].card)
      <3>1. s5 + 1 \in DOMAIN Sources
        BY <1>1, <1>3, MergeAssumption
      <3>2. c \in Merge!All /\ s2[c] \in Versions
        BY <1>2, <1>4, <3>1, AllWasRead
      <3>3. s1[c] = s2[c]
        <4>1. s1[c] # Merge!Gone /\ s1[c].etag = s2[c].etag /\ s2[c] # Merge!Unread
          BY <1>2, <2>2, <3>2 DEF Merge!Holds, Merge!Waiting
        <4> QED
          BY <3>2, <4>1 DEF MergeHolds, ReadsAreOfTheirVersion
      <3>4. PICK x \in Contents : x = s1[c].card
        BY <3>2, <3>3 DEF Versions
      <3>5. /\ s7' \in Seq(Contents)
            /\ \A i \in DOMAIN s7' : s7'[i] = x \/ \E j \in DOMAIN s7 : s7'[i] = s7[j]
        BY <1>3, <2>2, <3>4
      <3> QED
        BY <1>3, <1>4, <3>1, <3>3, <3>4, <3>5
    <2> QED
      BY <1>5, <2>1, <2>2
  <1>9. MergedBeforeDeleted'
    BY <1>1, <1>2, <1>5, <1>7, <1>8 DEF MergedBeforeDeleted
  <1> QED
    BY <1>6, <1>9 DEF MergeHolds

LEMMA MergeStep == ASSUME MergeHolds, [Merge!Next]_(Merge!vars) PROVE MergeHolds'
  <1>1. CASE UNCHANGED <<s1, s2, s4, s5, s7>> /\ (s3' = s3 \/ s3' = "done")
    BY <1>1 DEF MergeHolds, MergeTypes, ReadsAreOfTheirVersion, MergedBeforeDeleted,
       Merge!Waiting, Merging
  <1>2. CASE UNCHANGED Merge!vars
    BY <1>1, <1>2 DEF Merge!vars
  <1>3. CASE Merge!DropGroup
    BY <1>1, <1>3 DEF Merge!DropGroup
  <1>4. ASSUME NEW c \in Merge!All, Merge!OthersEdit(c) \/ Merge!OthersDelete(c) PROVE MergeHolds'
    <2>1. UNCHANGED <<s2, s3, s4, s5, s6, s7>> /\ s1[c] # Merge!Gone
      BY <1>4 DEF Merge!OthersEdit, Merge!OthersDelete
    <2>2. s1' \in [Merge!All -> Versions \cup {Merge!Gone}] /\ ReadsAreOfTheirVersion'
      <3>1. CASE s1' = [s1 EXCEPT ![c] = Merge!Gone]
        BY <2>1, <3>1, GoneIsNotRead
      <3>2. ASSUME NEW card \in Cards,
                   s1' = [s1 EXCEPT ![c] = [etag |-> @.etag + 1, card |-> card]]
            PROVE  /\ s1' \in [Merge!All -> Versions \cup {Merge!Gone}]
                   /\ ReadsAreOfTheirVersion'
        <4>1. card \in Contents
          BY MergeAssumption DEF Contents
        <4> QED
          BY <2>1, <3>2, <4>1, NewerThanRead
      <3> QED
        BY <1>4, <3>1, <3>2 DEF Merge!OthersEdit, Merge!OthersDelete
    <2>3. MergeTypes' /\ MergedBeforeDeleted'
      BY <2>1, <2>2 DEF MergeHolds, MergeTypes, MergedBeforeDeleted, Merge!Waiting, Merging
    <2> QED
      BY <2>2, <2>3 DEF MergeHolds
  <1> QED
    BY <1>2, <1>3, <1>4, ReadMergeCardStep, WriteMergedStep, DeleteSourceStep DEF Merge!Next

(* What was written has what the sources had. *)
LEMMA MergeShows == MergeHolds => Merge!SourcesAreMergedFirst
  <1> SUFFICES ASSUME MergeHolds, s7 # <<>> PROVE
                  /\ s4 # Merge!Unread
                  /\ Merge!Distinct(s2["target"].card) => \A i \in DOMAIN s7 : Merge!Survives(s7[i])
    BY DEF Merge!SourcesAreMergedFirst
  <1>1. Merge!Waiting = {} /\ s4 = Merge!MergedCard(s2["target"].card, Merging)
    BY DEF MergeHolds, MergedBeforeDeleted
  <1>2. PICK target \in Contents, others \in Seq(Contents) :
          target = s2["target"].card /\ others = Merging
    BY <1>1, AllWasRead
  <1>3. s4 = Merge!MergedCard(target, others)
    BY <1>1, <1>2
  <1>4. s4 # Merge!Unread
    <2>1. DOMAIN s4 = Merge!Names
      BY <1>3 DEF Merge!MergedCard
    <2>2. DOMAIN Merge!Unread = {"unread"}
      BY DEF Merge!Unread
    <2> QED
      BY <2>1, <2>2 DEF Merge!Names
  <1>5. \A card, name : Merge!KeysOf(card, name) = Folds(card[name])
    BY DEF Merge!KeysOf, Folds
  <1>6. ASSUME Merge!Distinct(target), NEW i \in DOMAIN s7 PROVE Merge!Survives(s7[i])
    <2>1. PICK k \in DOMAIN Sources : s7[i] = s2[Sources[k]].card
      BY DEF MergeHolds, MergedBeforeDeleted
    <2>2. k \in DOMAIN others /\ s7[i] = others[k]
      BY <1>2, <2>1 DEF Merging
    <2>3. \A n \in Merge!repeatableProperties : Cardinality(Folds(target[n])) = Len(target[n])
      BY <1>5, <1>6, MergeCounts DEF Merge!Distinct
    <2>4. \A n \in Merge!Names \ Merge!serverProperties :
             n \in Merge!repeatableProperties \/ target[n] = <<>> =>
                 Folds(others[k][n]) \subseteq Folds(Merge!MergedCard(target, others)[n])
      BY <2>2, <2>3, MergedHasAll
    <2> QED
      BY <1>2, <1>3, <1>5, <2>2, <2>4 DEF Merge!Survives
  <1> QED
    BY <1>2, <1>4, <1>6

-----------------------------------------------------------------------------
(* All four together: the run is of one component at a time. *)
WritesHold ==
    /\ part = "files" => FilesHold
    /\ part = "edits" => EditsHold
    /\ part = "imports" => ImportsHold
    /\ part = "merge" => MergeHolds

LEMMA WritesStart == Init => WritesHold
  <1> SUFFICES ASSUME Init PROVE WritesHold
    OBVIOUS
  <1>1. part = "files" => FilesHold
    BY FilesStart DEF Init
  <1>2. part = "edits" => EditsHold
    BY EditsStart DEF Init
  <1>3. part = "imports" => ImportsHold
    BY ImportsStart DEF Init
  <1>4. part = "merge" => MergeHolds
    BY MergeStarts DEF Init
  <1> QED
    BY <1>1, <1>2, <1>3, <1>4 DEF WritesHold

LEMMA StepOfOne ==
    ASSUME [Next]_vars
    PROVE  /\ part' = part
           /\ part = "files" => [Storage!Next]_(Storage!vars)
           /\ part = "edits" => [Edits!Next]_(Edits!vars)
           /\ part = "imports" => [Imports!Next]_(Imports!vars)
           /\ part = "merge" => [Merge!Next]_(Merge!vars)
  <1>1. CASE Next
    <2>1. part' = part
      BY <1>1 DEF Next
    <2>2. part = "files" => Storage!Next
      BY <1>1 DEF Next
    <2>3. part = "edits" => Edits!Next
      BY <1>1 DEF Next
    <2>4. part = "imports" => Imports!Next
      BY <1>1 DEF Next
    <2>5. part = "merge" => Merge!Next
      BY <1>1 DEF Next
    <2> QED
      BY <2>1, <2>2, <2>3, <2>4, <2>5
  <1>2. CASE UNCHANGED vars
    <2>1. UNCHANGED part /\ UNCHANGED <<s1, s2, s3, s4, s5, s6, s7>>
      BY <1>2 DEF vars
    <2>2. UNCHANGED Storage!vars
      BY <2>1 DEF Storage!vars
    <2>3. UNCHANGED Edits!vars
      BY <2>1 DEF Edits!vars
    <2>4. UNCHANGED Imports!vars
      BY <2>1 DEF Imports!vars
    <2>5. UNCHANGED Merge!vars
      BY <2>1 DEF Merge!vars
    <2> QED
      BY <2>1, <2>2, <2>3, <2>4, <2>5
  <1> QED
    BY <1>1, <1>2

LEMMA WritesStep == ASSUME WritesHold, [Next]_vars PROVE WritesHold'
  <1>1. part = "files" => FilesHold'
    BY StepOfOne, FilesStep DEF WritesHold
  <1>2. part = "edits" => EditsHold'
    BY StepOfOne, EditsStep DEF WritesHold
  <1>3. part = "imports" => ImportsHold'
    BY StepOfOne, ImportsStep DEF WritesHold
  <1>4. part = "merge" => MergeHolds'
    BY StepOfOne, MergeStep DEF WritesHold
  <1> QED
    BY <1>1, <1>2, <1>3, <1>4, StepOfOne DEF WritesHold

LEMMA WritesInvariance == Spec => []WritesHold
  BY WritesStart, WritesStep, PTL DEF Spec

(* However the requests of several tabs and of other clients come between each other, an *)
(* attachment that is linked is stored, a refused write waits for a decision, a confirmed *)
(* import tries each of its cards once and its preview has all it does not say it left out, *)
(* and a source of a merge goes only when the merged card has what it held: for any tabs in *)
(* any sessions, any files and cards, any limit, and any sources of a merge.             *)
THEOREM NothingIsLeftHalfDone == Spec => []NothingHalfDone
  <1>1. WritesHold => NothingHalfDone
    BY EditsShow, ImportsShow, MergeShows DEF WritesHold, NothingHalfDone
  <1> QED
    BY <1>1, WritesInvariance, PTL

(* No step of a session destroys what its user did not see: an upload replaces nothing where *)
(* the server honours its condition, a transfer removes only what it has stored, the change *)
(* shows in the next listing, an edit is of the object the form was made from, and an import *)
(* only adds: for any collections, members, tabs, sessions and cards.                    *)
THEOREM NothingIsOverwritten == Spec => NothingOverwritten
  <1>1. ASSUME WritesHold, [Next]_vars, part = "files"
        PROVE  /\ Storage!UploadReplacesNothing
               /\ Storage!TransferLosesNothing
               /\ Storage!OwnChangeShows
    BY <1>1, StepOfOne, UploadsAdd, TransfersKeep, OwnChangesAreSeen DEF WritesHold
  <1>2. ASSUME WritesHold, [Next]_vars, part = "edits" PROVE Edits!EditIsOfWhatWasShown
    BY <1>2, StepOfOne, EditsApply DEF WritesHold
  <1>3. Imports!CreationAdds
    BY CreationsAdd DEF Imports!CreationAdds
  <1>4. WritesHold /\ [Next]_vars
        => [/\ part = "files" => /\ Storage!UploadReplacesNothing
                                 /\ Storage!TransferLosesNothing
                                 /\ Storage!OwnChangeShows
            /\ part = "edits" => Edits!EditIsOfWhatWasShown
            /\ part = "imports" => Imports!CreationAdds]_vars
    BY <1>1, <1>2, <1>3
  <1> QED
    BY <1>4, WritesInvariance, PTL DEF Spec, NothingOverwritten
=============================================================================
