---------------------------- MODULE FanoutProofs ----------------------------
(***************************************************************************)
(* Theorems about the fan-out.                                              *)
(*                                                                         *)
(* FanoutRegistry, for any sessions, tasks, limit and TTL: the two indexes    *)
(* agree, a new poll survives its own registration, and only a poll that       *)
(* nobody asked about is lost.  The indexes agree only because a task that is  *)
(* registered has an owner and is not registered again (Registered).  What     *)
(* unlinking leaves of a list is found by induction over the list, from the    *)
(* least number that would refute it: the library has the induction as a fact  *)
(* about sets.                                                              *)
(*                                                                         *)
(* FanoutTask, for every finite set of sources, any number of slots,    *)
(* retries and readers: no source is abandoned, the count never says more than *)
(* is running, and a cancelled task stays at rest.  Together with the types    *)
(* the three are inductive: the count only because every step that ends a      *)
(* source counts again, and cancellation because Begin and Retry look at it    *)
(* under the lock.                                                           *)
(***************************************************************************)
EXTENDS FanoutRegistry, FanoutTask, FiniteSetTheorems, SequenceTheorems,
        WellFoundedInduction, TLAPS

Registered ==
    /\ \A t \in starting \cup byID : owner[t] \in Sessions
    /\ starting \cap byID = {}

IInv == IndexesAgree /\ Registered /\ OnlyIdleTasksEscape

-----------------------------------------------------------------------------
(* Induction over the natural numbers. *)
LessThan == {ss \in Nat \X Nat : ss[1] < ss[2]}

LEMMA NatInductive ==
    ASSUME NEW P, 0 \in P, \A i \in Nat : i \in P => i + 1 \in P
    PROVE  Nat \subseteq P
  <1> SUFFICES ASSUME Nat \ P # {} PROVE FALSE
    OBVIOUS
  <1>1. IsWellFoundedOn(LessThan, Nat)
    BY NatLessThanWellFounded DEF OpToRel, LessThan
  <1>2. PICK x \in Nat \ P : \A y \in Nat \ P : ~ (<<y, x>> \in LessThan)
    <2>1. Nat \ P \subseteq Nat
      OBVIOUS
    <2> QED
      BY <1>1, <2>1, WFMin
  <1>3. x # 0 /\ x - 1 \in Nat
    OBVIOUS
  <1>4. <<x - 1, x>> \in Nat \X Nat /\ <<x - 1, x>>[1] < <<x - 1, x>>[2]
    BY <1>3
  <1>5. x - 1 \in P
    BY <1>2, <1>3, <1>4 DEF LessThan
  <1> QED
    BY <1>3, <1>5

-----------------------------------------------------------------------------
(* What Append leaves in a list of different tasks. *)
LEMMA Appended ==
    ASSUME NEW s \in Seq(Tasks), NEW t \in Tasks, IsInjective(s), t \notin Range(s)
    PROVE  /\ Append(s, t) \in Seq(Tasks)
           /\ Len(Append(s, t)) = Len(s) + 1
           /\ Range(Append(s, t)) = Range(s) \cup {t}
           /\ IsInjective(Append(s, t))
  <1> DEFINE u == Append(s, t)
  <1>1. /\ u \in Seq(Tasks) /\ Len(u) = Len(s) + 1
        /\ \A i \in 1 .. Len(s) : u[i] = s[i]
        /\ u[Len(s) + 1] = t
    BY AppendProperties
  <1>2. DOMAIN s = 1 .. Len(s) /\ DOMAIN u = 1 .. Len(s) + 1 /\ Len(s) \in Nat
    BY <1>1
  <1> HIDE DEF u
  <1>3. Range(u) = Range(s) \cup {t}
    BY <1>1, <1>2 DEF Range
  <1>4. ASSUME NEW i \in DOMAIN u, NEW j \in DOMAIN u, u[i] = u[j] PROVE i = j
    BY <1>1, <1>2, <1>4 DEF Range, IsInjective
  <1>5. IsInjective(u)
    BY <1>4 DEF IsInjective
  <1> QED
    BY <1>1, <1>3, <1>5 DEF u

(* Unlinking takes nothing else off a list, and leaves it in order. *)
LEMMA Unlinked ==
    ASSUME NEW seq \in Seq(Tasks), NEW ts, IsInjective(seq)
    PROVE  /\ Without(seq, ts) \in Seq(Tasks)
           /\ IsInjective(Without(seq, ts))
           /\ Range(Without(seq, ts)) = Range(seq) \ ts
           /\ Len(Without(seq, ts)) <= Len(seq)
  <1> DEFINE n == Len(seq)
             Step(w, i) == IF seq[i] \in ts THEN w ELSE Append(w, seq[i])
             Unlinking(h, m) == h = [i \in 0 .. m |-> IF i = 0 THEN <<>>
                                                    ELSE Step(h[i - 1], i)]
             kept == CHOOSE h : Unlinking(h, n)
  <1>1. n \in Nat /\ DOMAIN seq = 1 .. n /\ \A i \in 1 .. n : seq[i] \in Tasks
    OBVIOUS
  <1>2. \E h : Unlinking(h, n)
    <2> DEFINE P == {m \in Nat : \E h : Unlinking(h, m)}
    <2>1. 0 \in P
      <3>1. Unlinking([i \in 0 .. 0 |-> <<>>], 0)
        OBVIOUS
      <3> QED
        BY <3>1
    <2>2. ASSUME NEW m \in Nat, m \in P PROVE m + 1 \in P
      <3>1. PICK h : Unlinking(h, m)
        BY <2>2
      <3> DEFINE g == [i \in 0 .. m + 1 |-> IF i = m + 1 THEN Step(h[m], m + 1) ELSE h[i]]
      <3>2. \A i \in 0 .. m + 1 : g[i] = IF i = m + 1 THEN Step(h[m], m + 1) ELSE h[i]
        OBVIOUS
      <3>3. DOMAIN g = 0 .. m + 1 /\ g = [i \in 0 .. m + 1 |-> g[i]]
        OBVIOUS
      <3> HIDE DEF Step, g
      <3>4. \A i \in 0 .. m : h[i] = IF i = 0 THEN <<>> ELSE Step(h[i - 1], i)
        BY <3>1
      <3>5. ASSUME NEW i \in 0 .. m + 1
            PROVE  g[i] = IF i = 0 THEN <<>> ELSE Step(g[i - 1], i)
        <4>1. CASE i = m + 1
          <5>1. i # 0 /\ i - 1 = m /\ i - 1 # m + 1 /\ i - 1 \in 0 .. m + 1
            BY <4>1
          <5> QED
            BY <3>2, <4>1, <5>1
        <4>2. CASE i \in 0 .. m
          <5>1. i # m + 1 /\ (i # 0 => i - 1 \in 0 .. m + 1 /\ i - 1 # m + 1)
            BY <4>2
          <5> QED
            BY <3>2, <3>4, <4>2, <5>1
        <4> QED
          BY <4>1, <4>2
      <3>6. Unlinking(g, m + 1)
        BY <3>3, <3>5
      <3> QED
        BY <3>6
    <2> HIDE DEF P
    <2>3. n \in P
      BY <2>1, <2>2, <1>1, NatInductive
    <2> QED
      BY <2>3 DEF P
  <1>3. Unlinking(kept, n)
    BY <1>2
  <1>4. Without(seq, ts) = kept[n]
    BY DEF Without
  <1> HIDE DEF kept
  <1>5. kept[0] = <<>> /\ \A i \in 0 .. n - 1 : kept[i + 1] = Step(kept[i], i + 1)
    <2> HIDE DEF Step
    <2> QED
      BY <1>1, <1>3
  <1> DEFINE Good(i) == /\ kept[i] \in Seq(Tasks) /\ IsInjective(kept[i])
                        /\ Range(kept[i]) = {seq[j] : j \in 1 .. i} \ ts
                        /\ Len(kept[i]) <= i
             Q == {i \in Nat : i <= n => Good(i)}
  <1>6. 0 \in Q
    <2>1. <<>> \in Seq(Tasks) /\ Len(<<>>) = 0 /\ DOMAIN <<>> = {}
      OBVIOUS
    <2>2. Range(<<>>) = {} /\ IsInjective(<<>>)
      BY <2>1 DEF Range, IsInjective
    <2>3. {seq[j] : j \in 1 .. 0} = {}
      OBVIOUS
    <2>4. kept[0] = <<>>
      BY <1>5
    <2>5. Good(0)
      BY <2>1, <2>2, <2>3, <2>4
    <2> HIDE DEF Good
    <2> QED
      BY <2>5
  <1>7. ASSUME NEW i \in Nat, i \in Q PROVE i + 1 \in Q
    <2> SUFFICES ASSUME i + 1 <= n PROVE Good(i + 1)
      OBVIOUS
    <2>1. Good(i) /\ kept[i + 1] = Step(kept[i], i + 1) /\ seq[i + 1] \in Tasks
      BY <1>1, <1>5, <1>7
    <2>2. {seq[j] : j \in 1 .. i + 1} = {seq[j] : j \in 1 .. i} \cup {seq[i + 1]}
      OBVIOUS
    <2>3. CASE seq[i + 1] \in ts
      BY <2>1, <2>2, <2>3
    <2>4. CASE seq[i + 1] \notin ts
      <3>1. seq[i + 1] \notin {seq[j] : j \in 1 .. i}
        BY <1>1 DEF IsInjective
      <3>2. kept[i + 1] = Append(kept[i], seq[i + 1])
        BY <2>1, <2>4
      <3>3. Len(kept[i]) \in Nat
        BY <2>1
      <3> QED
        BY <2>1, <2>2, <2>4, <3>1, <3>2, <3>3, Appended
    <2> QED
      BY <2>3, <2>4
  <1> HIDE DEF Q
  <1>8. n \in Q
    BY <1>1, <1>6, <1>7, NatInductive
  <1>9. Good(n)
    BY <1>1, <1>8 DEF Q
  <1>10. Range(seq) = {seq[j] : j \in 1 .. n}
    BY <1>1 DEF Range
  <1> QED
    BY <1>4, <1>9, <1>10

(* A list of different tasks, cut to its newest: which ones went.           *)
LEMMA Trimmed ==
    ASSUME NEW ids \in Seq(Tasks), IsInjective(ids)
    PROVE  /\ Newest(ids) \in Seq(Tasks)
           /\ IsInjective(Newest(ids))
           /\ Range(Newest(ids)) = Range(ids) \ Excess(ids)
           /\ Len(Newest(ids)) <= MaxPerSession
           /\ Excess(ids) \subseteq Range(ids)
           /\ Len(ids) # 0 => ids[Len(ids)] \notin Excess(ids)
  <1> USE LimitAssumption
  <1> DEFINE n == Len(ids)  d == n - MaxPerSession
  <1>1. n \in Nat /\ DOMAIN ids = 1 .. n /\ d \in Int /\ d < n
    OBVIOUS
  <1>2. \A i, j \in 1 .. n : ids[i] = ids[j] => i = j
    BY <1>1 DEF IsInjective
  <1>3. Range(ids) = {ids[i] : i \in 1 .. n}
    BY <1>1 DEF Range
  <1>4. CASE n <= MaxPerSession
    <2>1. Newest(ids) = ids
      BY <1>4 DEF Newest
    <2>2. DOMAIN SubSeq(ids, 1, d) = {}
      <3>1. DOMAIN SubSeq(ids, 1, d) = 1 .. d /\ d <= 0
        BY <1>1, <1>4
      <3> QED
        BY <1>1, <3>1
    <2>3. Excess(ids) = {}
      BY <2>2 DEF Excess, Range
    <2> QED
      BY <1>1, <1>4, <2>1, <2>3
  <1>5. CASE ~(n <= MaxPerSession)
    <2> DEFINE u == SubSeq(ids, d + 1, n)  v == SubSeq(ids, 1, d)
    <2>1. Newest(ids) = u /\ Excess(ids) = Range(v)
      BY <1>5 DEF Newest, Excess
    <2>2. /\ u \in Seq(Tasks) /\ Len(u) = MaxPerSession
          /\ DOMAIN u = 1 .. MaxPerSession
          /\ \A i \in 1 .. MaxPerSession : u[i] = ids[d + i]
      BY <1>1, <1>5
    <2>3. DOMAIN v = 1 .. d /\ \A i \in 1 .. d : v[i] = ids[i]
      BY <1>1, <1>5
    <2> HIDE DEF u, v
    <2>4. Range(u) = {ids[i] : i \in d + 1 .. n}
      <3>1. \A i \in d + 1 .. n : i - d \in 1 .. MaxPerSession /\ ids[i] = u[i - d]
        BY <1>1, <2>2
      <3>2. \A i \in 1 .. MaxPerSession : d + i \in d + 1 .. n
        BY <1>1
      <3>3. Range(u) = {u[i] : i \in 1 .. MaxPerSession}
        BY <2>2 DEF Range
      <3>4. \A i \in 1 .. MaxPerSession : u[i] = ids[d + i]
        BY <2>2
      <3> HIDE DEF d, n, u
      <3>5. {u[i] : i \in 1 .. MaxPerSession} \subseteq {ids[i] : i \in d + 1 .. n}
        BY <3>2, <3>4
      <3>6. {ids[i] : i \in d + 1 .. n} \subseteq {u[i] : i \in 1 .. MaxPerSession}
        BY <3>1
      <3> QED
        BY <3>3, <3>5, <3>6
    <2>5. Range(v) = {ids[i] : i \in 1 .. d}
      BY <2>3 DEF Range
    <2>6. IsInjective(u)
      <3>1. ASSUME NEW i \in 1 .. MaxPerSession, NEW j \in 1 .. MaxPerSession, u[i] = u[j]
            PROVE  i = j
        <4>1. d + i \in 1 .. n /\ d + j \in 1 .. n
          BY <1>1, <1>5
        <4>2. d + i = d + j
          BY <1>2, <2>2, <3>1, <4>1
        <4> QED
          BY <1>1, <4>2
      <3> QED
        BY <2>2, <3>1 DEF IsInjective
    <2>7. \A i \in 1 .. n : i \in 1 .. d \/ i \in d + 1 .. n
      BY <1>1
    <2>8. \A i \in 1 .. d, j \in d + 1 .. n : i \in 1 .. n /\ j \in 1 .. n /\ i # j
      BY <1>1, <1>5
    <2>9. Range(u) = Range(ids) \ Range(v)
      <3> HIDE DEF n, d
      <3>1. \A i \in d + 1 .. n : ids[i] \notin Range(v)
        BY <1>2, <2>5, <2>8
      <3>2. \A i \in d + 1 .. n : i \in 1 .. n
        BY <1>1, <1>5 DEF d
      <3> QED
        BY <1>3, <2>4, <2>5, <2>7, <3>1, <3>2
    <2>10. Range(v) \subseteq Range(ids)
      BY <1>3, <2>5, <2>8, <1>1
    <2>11. n # 0 => ids[n] \notin Range(v)
      BY <1>1, <1>2, <2>5
    <2> QED
      BY <2>1, <2>2, <2>6, <2>9, <2>10, <2>11
  <1> QED
    BY <1>4, <1>5

-----------------------------------------------------------------------------
(* What dropLocked leaves of every session's list. *)
LEMMA Dropped ==
    ASSUME IndexesAgree, NEW ts, NEW s \in Sessions
    PROVE  /\ DropLocked(ts)[s] = Without(bySess[s], ts)
           /\ DropLocked(ts)[s] \in Seq(Tasks)
           /\ IsInjective(DropLocked(ts)[s])
           /\ Range(DropLocked(ts)[s]) = {t \in byID : owner[t] = s} \ ts
           /\ Len(DropLocked(ts)[s]) <= MaxPerSession
  <1>1. /\ bySess[s] \in Seq(Tasks) /\ IsInjective(bySess[s])
        /\ Range(bySess[s]) = {t \in byID : owner[t] = s}
        /\ Len(bySess[s]) <= MaxPerSession /\ Len(bySess[s]) \in Nat
    BY DEF IndexesAgree, TypeOK
  <1>2. DropLocked(ts)[s] = Without(bySess[s], ts)
    BY DEF DropLocked
  <1> DEFINE w == Without(bySess[s], ts)
  <1>3. /\ w \in Seq(Tasks) /\ IsInjective(w)
        /\ Range(w) = Range(bySess[s]) \ ts /\ Len(w) <= Len(bySess[s])
    BY <1>1, Unlinked
  <1>4. Len(w) \in Nat
    BY <1>3
  <1> HIDE DEF w
  <1>5. Len(w) <= MaxPerSession
    BY <1>1, <1>3, <1>4, LimitAssumption
  <1> QED
    BY <1>1, <1>2, <1>3, <1>5 DEF w

(* A registration: the new list of the session, and what was trimmed off it. *)
LEMMA RegisterStep ==
    ASSUME IndexesAgree, Registered, NEW t \in Tasks, Register(t)
    PROVE  /\ IndexesAgree' /\ Registered'
           /\ t \in byID'
           /\ \A u \in byID : u \in byID' \/ u \in stale' \/ age[u] > TaskTTL
  <1> DEFINE s == owner[t]
             kept == DropLocked(Expired)[s]
             ids == Append(kept, t)
             Mine(r) == {u \in byID : owner[u] = r} \ Expired
  <1>1. /\ t \in starting /\ t \notin byID /\ s \in Sessions
        /\ Expired \subseteq byID
    BY DEF Register, Registered, Expired
  <1>2. /\ kept = Without(bySess[s], Expired)
        /\ kept \in Seq(Tasks) /\ IsInjective(kept) /\ Range(kept) = Mine(s)
    BY <1>1, Dropped
  <1>3. /\ ids \in Seq(Tasks) /\ IsInjective(ids) /\ Len(ids) = Len(kept) + 1
        /\ Range(ids) = Mine(s) \cup {t}
        /\ ids[Len(ids)] = t
    <2> HIDE DEF kept
    <2>1. t \notin Range(kept)
      BY <1>1, <1>2
    <2> QED
      BY <1>2, <2>1, Appended, AppendProperties
  <1>4. Len(ids) # 0
    BY <1>2, <1>3
  <1>5. /\ Newest(ids) \in Seq(Tasks) /\ IsInjective(Newest(ids))
        /\ Range(Newest(ids)) = Range(ids) \ Excess(ids)
        /\ Len(Newest(ids)) <= MaxPerSession
        /\ Excess(ids) \subseteq Range(ids) /\ t \notin Excess(ids)
    <2> HIDE DEF ids
    <2> QED
      BY <1>3, <1>4, Trimmed
  <1>6. /\ starting' = starting \ {t}
        /\ byID' = ((byID \ Expired) \cup {t}) \ Excess(ids)
        /\ bySess' = [DropLocked(Expired) EXCEPT ![s] = Newest(ids)]
        /\ age' = [age EXCEPT ![t] = 0]
        /\ stale' = stale \cup Excess(ids)
        /\ UNCHANGED <<session, visiting, owner, polling>>
    BY <1>2 DEF Register
  <1> HIDE DEF ids
  <1>7. TypeOK'
    <2>1. bySess' \in [Sessions -> Seq(Tasks)]
      <3>1. DropLocked(Expired) \in [Sessions -> Seq(Tasks)]
        BY Dropped DEF DropLocked
      <3> QED
        BY <1>1, <1>5, <1>6, <3>1
    <2>2. age' \in [Tasks -> 0 .. TaskTTL + 1]
      BY <1>6, LimitAssumption DEF IndexesAgree, TypeOK
    <2>3. Excess(ids) \subseteq Tasks
      BY <1>3, <1>5 DEF IndexesAgree, TypeOK
    <2> QED
      BY <1>6, <2>1, <2>2, <2>3 DEF IndexesAgree, TypeOK
  <1>8. \A r \in Sessions :
            bySess'[r] = IF r = s THEN Newest(ids) ELSE DropLocked(Expired)[r]
    BY <1>6 DEF DropLocked
  <1>9. ASSUME NEW r \in Sessions
        PROVE  /\ IsInjective(bySess'[r]) /\ Len(bySess'[r]) <= MaxPerSession
               /\ Range(bySess'[r]) = {u \in byID' : owner'[u] = r}
    <2>1. CASE r = s
      <3>1. Range(Newest(ids)) = {u \in byID' : owner'[u] = r}
        BY <1>3, <1>5, <1>6, <2>1
      <3> QED
        BY <1>5, <1>8, <2>1, <3>1
    <2>2. CASE r # s
      <3>1. Mine(r) = {u \in byID' : owner'[u] = r}
        BY <1>3, <1>5, <1>6, <2>2
      <3> QED
        BY <1>8, <2>2, <3>1, Dropped
    <2> QED
      BY <2>1, <2>2
  <1>10. IndexesAgree'
    BY <1>7, <1>9 DEF IndexesAgree
  <1>11. Registered'
    BY <1>1, <1>6 DEF Registered
  <1>12. t \in byID'
    BY <1>5, <1>6
  <1>13. \A u \in byID : u \in byID' \/ u \in stale' \/ age[u] > TaskTTL
    BY <1>6 DEF Expired
  <1> QED
    BY <1>10, <1>11, <1>12, <1>13

(* The steps that only take tasks out of both indexes. *)
LEMMA DropStep ==
    ASSUME IndexesAgree, Registered, NEW ts,
           byID' = byID \ ts, bySess' = DropLocked(ts),
           stale' \in SUBSET Tasks,
           UNCHANGED <<session, visiting, owner, polling, starting, age>>
    PROVE  IndexesAgree' /\ Registered'
  <1>1. TypeOK'
    <2>1. bySess' \in [Sessions -> Seq(Tasks)]
      BY Dropped DEF DropLocked
    <2> QED
      BY <2>1 DEF IndexesAgree, TypeOK
  <1>2. ASSUME NEW r \in Sessions
        PROVE  /\ IsInjective(bySess'[r]) /\ Len(bySess'[r]) <= MaxPerSession
               /\ Range(bySess'[r]) = {u \in byID' : owner'[u] = r}
    <2>1. {u \in byID' : owner'[u] = r} = {u \in byID : owner[u] = r} \ ts
      OBVIOUS
    <2> QED
      BY <2>1, Dropped
  <1> QED
    BY <1>1, <1>2 DEF IndexesAgree, Registered

(* An empty list, for a session whose tasks are all gone. *)
LEMMA NothingListed ==
    ASSUME NEW S
    PROVE  <<>> \in Seq(S) /\ Range(<<>>) = {} /\ IsInjective(<<>>) /\ Len(<<>>) = 0
  <1>1. <<>> \in Seq(S) /\ Len(<<>>) = 0 /\ DOMAIN <<>> = {}
    OBVIOUS
  <1> QED
    BY <1>1 DEF Range, IsInjective

(* The indexes go on agreeing, whatever the step. *)
LEMMA IndexStep ==
    ASSUME IndexesAgree, Registered, [Next]_vars
    PROVE  IndexesAgree' /\ Registered'
  <1> USE LimitAssumption, NoSessionAssumption
  <1>0. TypeOK
    BY DEF IndexesAgree
  <1>1. ASSUME NEW t \in Tasks, NEW s \in Sessions, StartTask(t, s)
        PROVE  IndexesAgree' /\ Registered'
    <2>1. owner[t] = NoSession
      BY <1>1, TasksAssumption DEF StartTask
    <2>2. t \notin byID
      BY <2>1 DEF Registered
    <2>3. TypeOK'
      BY <1>0, <1>1 DEF StartTask, TypeOK
    <2>4. \A u \in byID : owner'[u] = owner[u]
      BY <1>0, <1>1, <2>2 DEF StartTask, TypeOK
    <2>5. \A r \in Sessions :
              {u \in byID' : owner'[u] = r} = {u \in byID : owner[u] = r}
      BY <1>1, <2>4 DEF StartTask
    <2>6. IndexesAgree'
      BY <1>1, <2>3, <2>5 DEF StartTask, IndexesAgree
    <2>7. Registered'
      BY <1>0, <1>1, <2>2, <2>4 DEF StartTask, Registered, TypeOK
    <2> QED
      BY <2>6, <2>7
  <1>2. ASSUME NEW t \in Tasks, Register(t) PROVE IndexesAgree' /\ Registered'
    BY <1>2, RegisterStep
  <1>3. ASSUME NEW t \in Tasks, NEW s \in Sessions, CancelTask(s, t)
        PROVE  IndexesAgree' /\ Registered'
    <2>1. stale' \in SUBSET Tasks
      BY <1>0, <1>3 DEF CancelTask, TypeOK
    <2> QED
      BY <1>3, <2>1, DropStep DEF CancelTask
  <1>4. CASE Sweep
    <2>1. stale' \in SUBSET Tasks
      BY <1>0, <1>4 DEF Sweep, Expired, TypeOK
    <2> QED
      BY <1>4, <2>1, DropStep DEF Sweep
  <1>5. ASSUME NEW s \in Sessions, CancelSession(s)
        PROVE  IndexesAgree' /\ Registered'
    <2>1. /\ byID' = byID \ Range(bySess[s]) /\ bySess' = [bySess EXCEPT ![s] = <<>>]
          /\ UNCHANGED <<visiting, owner, polling, starting, age>>
          /\ Range(bySess[s]) = {u \in byID : owner[u] = s}
      BY <1>5 DEF CancelSession, IndexesAgree
    <2>2. /\ \A r \in Sessions : bySess'[r] = IF r = s THEN <<>> ELSE bySess[r]
          /\ bySess' \in [Sessions -> Seq(Tasks)]
      BY <1>0, <2>1, NothingListed DEF TypeOK
    <2>3. TypeOK'
      BY <1>0, <1>5, <2>1, <2>2 DEF CancelSession, TypeOK
    <2>4. ASSUME NEW r \in Sessions
          PROVE  /\ IsInjective(bySess'[r]) /\ Len(bySess'[r]) <= MaxPerSession
                 /\ Range(bySess'[r]) = {u \in byID' : owner'[u] = r}
      <3>1. CASE r = s
        <4>1. {u \in byID' : owner'[u] = r} = {}
          BY <2>1, <3>1
        <4> QED
          BY <2>2, <3>1, <4>1, NothingListed
      <3>2. CASE r # s
        <4>1. {u \in byID' : owner'[u] = r} = {u \in byID : owner[u] = r}
          BY <2>1, <3>2
        <4> QED
          BY <2>2, <3>2, <4>1 DEF IndexesAgree
      <3> QED
        BY <3>1, <3>2
    <2>5. Registered'
      BY <2>1 DEF Registered
    <2> QED
      BY <2>3, <2>4, <2>5 DEF IndexesAgree
  <1>6. CASE Close
    <2>1. TypeOK'
      BY <1>0, <1>6, NothingListed DEF Close, TypeOK
    <2>2. \A r \in Sessions :
              bySess'[r] = <<>> /\ {u \in byID' : owner'[u] = r} = {}
      BY <1>6 DEF Close
    <2>3. Registered'
      BY <1>6 DEF Close, Registered
    <2> QED
      BY <2>1, <2>2, <2>3, NothingListed DEF IndexesAgree
  <1>7. ASSUME TypeOK', UNCHANGED <<owner, byID, bySess, starting>>
        PROVE  IndexesAgree' /\ Registered'
    BY <1>7 DEF IndexesAgree, Registered
  <1>8. CASE Tick
    <2>1. age' \in [Tasks -> 0 .. TaskTTL + 1]
      BY <1>0, <1>8 DEF Tick, TypeOK
    <2> QED
      BY <1>0, <1>7, <1>8, <2>1 DEF Tick, TypeOK
  <1>9. ASSUME NEW t \in Tasks, NEW s \in Sessions, Get(s, t) \/ FindCancel(s, t)
        PROVE  IndexesAgree' /\ Registered'
    <2>1. age' \in [Tasks -> 0 .. TaskTTL + 1]
      <3>1. [age EXCEPT ![t] = 0] \in [Tasks -> 0 .. TaskTTL + 1]
        BY <1>0 DEF TypeOK
      <3>2. age' = age \/ age' = [age EXCEPT ![t] = 0]
        BY <1>9 DEF Get, FindCancel
      <3> QED
        BY <1>0, <3>1, <3>2 DEF TypeOK
    <2>2. TypeOK'
      BY <1>0, <1>9, <2>1 DEF Get, FindCancel, TypeOK
    <2> QED
      BY <1>7, <1>9, <2>2 DEF Get, FindCancel
  <1>10. ASSUME NEW t \in Tasks, CancelStale(t) PROVE IndexesAgree' /\ Registered'
    <2>1. TypeOK'
      BY <1>0, <1>10 DEF CancelStale, TypeOK
    <2> QED
      BY <1>7, <1>10, <2>1 DEF CancelStale
  <1>11. ASSUME NEW s \in Sessions, Visit(s) \/ EndSession(s)
         PROVE  IndexesAgree' /\ Registered'
    <2>1. TypeOK'
      BY <1>0, <1>11 DEF Visit, EndSession, TypeOK
    <2> QED
      BY <1>7, <1>11, <2>1 DEF Visit, EndSession
  <1>12. CASE UNCHANGED vars
    BY <1>0, <1>7, <1>12 DEF vars, TypeOK
  <1> QED
    BY <1>1, <1>2, <1>3, <1>4, <1>5, <1>6, <1>8, <1>9, <1>10, <1>11, <1>12 DEF Next

-----------------------------------------------------------------------------
(* A poll is lost only by a sweep, whose result Start does not use. *)
LEMMA EscapeStep ==
    ASSUME IInv, [Next]_vars PROVE OnlyIdleTasksEscape'
  <1> USE LimitAssumption
      DEF IInv, IndexesAgree, TypeOK, OnlyIdleTasksEscape, Owned
  <1>1. ASSUME NEW t \in Tasks, NEW s \in Sessions, StartTask(t, s)
        PROVE  OnlyIdleTasksEscape'
    BY <1>1 DEF StartTask
  <1>2. ASSUME NEW t \in Tasks, Register(t) PROVE OnlyIdleTasksEscape'
    <2>1. /\ t \in byID'
          /\ \A u \in byID : u \in byID' \/ u \in stale' \/ age[u] > TaskTTL
      BY <1>2, RegisterStep
    <2>2. /\ polling' = polling /\ stale \subseteq stale'
          /\ starting' = starting \ {t}
          /\ \A u \in Tasks : u # t => age'[u] = age[u]
      BY <1>2 DEF Register
    <2> QED
      BY <2>1, <2>2
  <1>3. ASSUME NEW t \in Tasks, NEW s \in Sessions,
               Get(s, t) \/ CancelTask(s, t) \/ FindCancel(s, t)
        PROVE  OnlyIdleTasksEscape'
    BY <1>3 DEF Get, CancelTask, FindCancel
  <1>4. ASSUME NEW t \in Tasks, CancelStale(t) PROVE OnlyIdleTasksEscape'
    BY <1>4 DEF CancelStale
  <1>5. ASSUME NEW s \in Sessions, Visit(s) \/ EndSession(s) \/ CancelSession(s)
        PROVE  OnlyIdleTasksEscape'
    BY <1>5 DEF Visit, EndSession, CancelSession
  <1>6. CASE Sweep \/ Close
    BY <1>6 DEF Sweep, Close
  <1>7. CASE Tick
    <2>1. \A u \in Tasks : u \notin byID => age'[u] = age[u]
      BY <1>7 DEF Tick
    <2> QED
      BY <1>7, <2>1 DEF Tick
  <1>8. CASE UNCHANGED vars
    BY <1>8 DEF vars
  <1> QED
    BY <1>1, <1>2, <1>3, <1>4, <1>5, <1>6, <1>7, <1>8 DEF Next

LEMMA StartsWell == Init => IInv
  <1> SUFFICES ASSUME Init PROVE IInv
    OBVIOUS
  <1>1. TypeOK
    BY LimitAssumption, NothingListed DEF Init, TypeOK
  <1>2. \A s \in Sessions : bySess[s] = <<>> /\ byID = {}
    BY DEF Init
  <1>3. IndexesAgree
    BY <1>1, <1>2, NothingListed, LimitAssumption DEF IndexesAgree
  <1> QED
    BY <1>3 DEF Init, IInv, Registered, OnlyIdleTasksEscape

(* The map by id and the lists by session name the same tasks, each under its *)
(* own session, once, and never more than the limit.                          *)
THEOREM ListsNameWhatIsRegistered == Spec => []IndexesAgree
  <1>1. IInv /\ [Next]_vars => IInv'
    BY IndexStep, EscapeStep DEF IInv
  <1>2. IInv => IndexesAgree
    BY DEF IInv
  <1> QED
    BY <1>1, <1>2, StartsWell, PTL DEF Spec

(* No trim, cancellation, sweep or session end loses a poll: one that runs     *)
(* with nobody left to cancel it had not been asked about for TaskTTL.         *)
THEOREM EscapesAreIdle == Spec => []OnlyIdleTasksEscape
  <1>1. IInv /\ [Next]_vars => IInv'
    BY IndexStep, EscapeStep DEF IInv
  <1>2. IInv => OnlyIdleTasksEscape
    BY DEF IInv
  <1> QED
    BY <1>1, <1>2, StartsWell, PTL DEF Spec

(* What Start trims is older than what it registers: a poll that was started   *)
(* leaves `starting' only to be registered.                                   *)
THEOREM NewPollIsKept == Spec => NewestSurvives
  <1> DEFINE Kept == \A t \in Tasks : t \in starting /\ t \notin starting' => t \in byID'
  <1>1. IInv /\ [Next]_vars => IInv'
    BY IndexStep, EscapeStep DEF IInv
  <1>2. ASSUME IInv, [Next]_vars PROVE Kept
    <2>1. ASSUME NEW t \in Tasks, Register(t) PROVE Kept
      <3>1. t \in byID' /\ starting' = starting \ {t}
        BY <1>2, <2>1, RegisterStep DEF IInv, Register
      <3> QED
        BY <3>1
    <2>2. CASE \A t \in Tasks : ~Register(t)
      <3>1. starting \subseteq starting'
        BY <1>2, <2>2
           DEF Next, vars, StartTask, Get, CancelTask, FindCancel, CancelStale, Visit,
               EndSession, CancelSession, Sweep, Tick, Close
      <3> QED
        BY <3>1
    <2> QED
      BY <2>1, <2>2
  <1>3. IInv /\ [Next]_vars => [Kept]_vars
    BY <1>2
  <1>4. NewestSurvives <=> [][Kept]_vars
    BY PTL DEF NewestSurvives
  <1> QED
    BY <1>1, <1>3, <1>4, StartsWell, PTL DEF Spec

-----------------------------------------------------------------------------
(* One task: its variables are apart from those of the registry. *)
TaskInv == NoAbandonedSource /\ NeverOverReports /\ CancelIsFinal

(* What is running is a finite set, and fewer sources are a smaller number. *)
LEMMA OutstandingIsCounted ==
    ASSUME NEW st
    PROVE  /\ IsFiniteSet(Outstanding(st))
           /\ Cardinality(Outstanding(st)) \in Nat
           /\ Outstanding(st) = {} => Cardinality(Outstanding(st)) = 0
  <1>1. IsFiniteSet(Outstanding(st))
    BY SourcesAssumption, FS_Subset DEF Outstanding
  <1> QED
    BY <1>1, FS_CardinalityType, FS_EmptySet

LEMMA FewerOutstanding ==
    ASSUME NEW st, NEW new, Outstanding(st) \subseteq Outstanding(new)
    PROVE  Cardinality(Outstanding(st)) <= Cardinality(Outstanding(new))
  BY OutstandingIsCounted, FS_Subset

(* Settling counts what the new states have outstanding. *)
LEMMA SettledCount ==
    ASSUME NEW st \in [Sources -> State], SettleLocked(st),
           runCtx \in {"live", "canceled", "deadline"}
    PROVE  /\ state' = st
           /\ inFlight' \in Nat
           /\ inFlight' = Cardinality(Outstanding(state'))
           /\ Outstanding(st) = {} => inFlight' = 0
           /\ runCtx' \in {"live", "canceled", "deadline"}
  BY OutstandingIsCounted DEF SettleLocked

(* The end of a wait or of a query is a state nobody waits in. *)
LEMMA OutcomeIsTerminal ==
    ASSUME TaskTypeOK, NEW r \in Runs, NEW how \in Endings(r)
    PROVE  Outcome(how) \in TerminalStates
  BY DEF Endings, Outcome, TerminalStates, TaskTypeOK, RunContext

-----------------------------------------------------------------------------
(* Every variable keeps its type. *)
LEMMA TaskTypeStep == ASSUME TaskTypeOK, [TaskNext]_pollVars PROVE TaskTypeOK'
  <1> USE DEF TaskTypeOK, State, Pc, Running, TerminalStates, Runs, SweepRuns
  <1> DEFINE Ends == {"records", "nothing", "refused", "deadline", "canceled"}
  <1>1. ASSUME NEW r \in Runs, Begin(r) PROVE TaskTypeOK'
    BY <1>1 DEF Begin, Move, ctxVars, readerVars
  <1>2. ASSUME NEW r \in Runs, BeginCancelled(r) PROVE TaskTypeOK'
    <2> DEFINE st == [state EXCEPT ![r[1]] = "cancelled"]
    <2>1. st \in [Sources -> State] /\ SettleLocked(st)
      BY <1>2 DEF BeginCancelled
    <2> HIDE DEF st
    <2>2. state' \in [Sources -> State] /\ inFlight' \in Nat
          /\ runCtx' \in {"live", "canceled", "deadline"}
      BY <2>1, SettledCount
    <2> QED
      BY <1>2, <2>2 DEF BeginCancelled, Move, readerVars
  <1>3. ASSUME NEW r \in Runs, GiveUp(r) \/ Answer(r) PROVE TaskTypeOK'
    <2>1. PICK how \in Endings(r) :
              SettleLocked([state EXCEPT ![r[1]] = Outcome(how)])
      BY <1>3 DEF GiveUp, Answer
    <2> DEFINE st == [state EXCEPT ![r[1]] = Outcome(how)]
    <2>2. st \in [Sources -> State] /\ SettleLocked(st)
      BY <2>1, OutcomeIsTerminal
    <2> HIDE DEF st
    <2>3. state' \in [Sources -> State] /\ inFlight' \in Nat
          /\ runCtx' \in {"live", "canceled", "deadline"}
      BY <2>2, SettledCount
    <2> QED
      BY <1>3, <2>3 DEF GiveUp, Answer, Move, readerVars
  <1>4. ASSUME NEW r \in Runs, Query(r) \/ Leave(r) PROVE TaskTypeOK'
    BY <1>4 DEF Query, Leave, Move, Notify, taskVars, ctxVars
  <1>5. CASE CeilingPasses \/ WatchReturns
    BY <1>5 DEF CeilingPasses, WatchReturns, taskVars, ctxVars, runVars,
                readerVars
  <1>6. CASE WatchCeiling
    <2> DEFINE marked == [s \in Sources |-> IF state[s] \in Running
                                            THEN "timeout" ELSE state[s]]
    <2>1. marked \in [Sources -> State]
      OBVIOUS
    <2>2. \/ SettleLocked(marked)
          \/ UNCHANGED <<state, inFlight, runCtx>>
      BY <1>6 DEF WatchCeiling
    <2> HIDE DEF marked
    <2>3. state' \in [Sources -> State] /\ inFlight' \in Nat
          /\ runCtx' \in {"live", "canceled", "deadline"}
      BY <2>1, <2>2, SettledCount
    <2> QED
      BY <1>6, <2>3 DEF WatchCeiling, runVars
  <1>7. ASSUME NEW s \in Sources, Retry(s) PROVE TaskTypeOK'
    <2>1. inFlight' \in Nat
      BY <1>7, OutstandingIsCounted DEF Retry
    <2> QED
      BY <1>7, <2>1 DEF Retry, Move, ctxVars
  <1>8. CASE Cancel
    <2> DEFINE marked == [s \in Sources |-> IF state[s] \in Running
                                            THEN "cancelled" ELSE state[s]]
    <2>1. marked \in [Sources -> State] /\ SettleLocked(marked)
      BY <1>8 DEF Cancel
    <2> HIDE DEF marked
    <2>2. state' \in [Sources -> State] /\ inFlight' \in Nat
          /\ runCtx' \in {"live", "canceled", "deadline"}
      BY <2>1, SettledCount
    <2> QED
      BY <1>8, <2>2 DEF Cancel, runVars
  <1>9. CASE CancelRoot \/ NotifyOwed
    BY <1>9 DEF CancelRoot, NotifyOwed, Notify, taskVars, ctxVars, runVars
  <1>10. ASSUME NEW d \in Readers, StreamOpens(d) \/ Reader(d) PROVE TaskTypeOK'
    BY <1>10 DEF StreamOpens, Reader, StreamRenders, StreamWakes, StreamStep,
                 taskVars, ctxVars, runVars
  <1>11. CASE UNCHANGED pollVars
    BY <1>11 DEF pollVars, taskVars, ctxVars, runVars, readerVars
  <1> QED
    BY <1>1, <1>2, <1>3, <1>4, <1>5, <1>6, <1>7, <1>8, <1>9, <1>10, <1>11
       DEF TaskNext, Goroutine, Watch

-----------------------------------------------------------------------------
(* No step abandons a source: a source turns to running only with a goroutine *)
(* of its own, and a goroutine that ends leaves its source at rest.          *)
LEMMA NoneAbandoned ==
    ASSUME TaskInv, [TaskNext]_pollVars PROVE NoAbandonedSource'
  <1> SUFFICES ASSUME NEW s \in Sources, state'[s] \in Running
               PROVE  \E n \in 0 .. MaxRetries : Live(<<s, n>>)'
    BY DEF NoAbandonedSource
  <1> USE RetriesAssumption DEF TaskInv, NeverOverReports, TaskTypeOK, Runs, Live, Move
  <1>0. ASSUME state[s] \in Running, \A r \in Runs : Live(r) /\ r[1] = s => Live(r)'
        PROVE  \E n \in 0 .. MaxRetries : Live(<<s, n>>)'
    <2>1. PICK n \in 0 .. MaxRetries : Live(<<s, n>>)
      BY <1>0 DEF NoAbandonedSource
    <2> QED
      BY <1>0, <2>1
  <1>1. ASSUME NEW r \in Runs, Begin(r) \/ Query(r)
        PROVE  \E n \in 0 .. MaxRetries : Live(<<s, n>>)'
    <2>1. CASE r[1] = s
      BY <1>1, <2>1 DEF Begin, Query, Pc
    <2>2. CASE r[1] # s
      BY <1>0, <1>1, <2>2 DEF Begin, Query, taskVars
    <2> QED
      BY <2>1, <2>2
  <1>2. ASSUME NEW r \in Runs, BeginCancelled(r) \/ GiveUp(r) \/ Answer(r)
        PROVE  \E n \in 0 .. MaxRetries : Live(<<s, n>>)'
    <2>1. PICK o \in TerminalStates : state' = [state EXCEPT ![r[1]] = o]
      <3>1. CASE BeginCancelled(r)
        BY <3>1 DEF BeginCancelled, SettleLocked, TerminalStates
      <3>2. CASE GiveUp(r) \/ Answer(r)
        BY <3>2, OutcomeIsTerminal DEF GiveUp, Answer, SettleLocked
      <3> QED
        BY <1>2, <3>1, <3>2
    <2>2. r[1] # s /\ state[s] \in Running
      BY <2>1 DEF Running, TerminalStates
    <2> QED
      BY <1>0, <1>2, <2>2 DEF BeginCancelled, GiveUp, Answer
  <1>3. ASSUME NEW r \in Runs, Leave(r)
        PROVE  \E n \in 0 .. MaxRetries : Live(<<s, n>>)'
    BY <1>0, <1>3 DEF Leave, taskVars
  <1>4. CASE WatchCeiling \/ Cancel
    <2>1. state[s] \in Running
      BY <1>4 DEF WatchCeiling, Cancel, SettleLocked, Running
    <2> QED
      BY <1>0, <1>4, <2>1 DEF WatchCeiling, Cancel, runVars
  <1>5. ASSUME NEW q \in Sources, Retry(q)
        PROVE  \E n \in 0 .. MaxRetries : Live(<<s, n>>)'
    <2>1. CASE q = s
      <3>1. PICK n \in 1 .. MaxRetries :
                pc' = [pc EXCEPT ![<<q, n>>] = "queued"]
        BY <1>5 DEF Retry
      <3>2. n \in 0 .. MaxRetries /\ pc'[<<s, n>>] = "queued"
        BY <2>1, <3>1
      <3> QED
        BY <3>2
    <2>2. CASE q # s
      <3>1. state[s] \in Running
        BY <1>5, <2>2 DEF Retry
      <3> QED
        BY <1>0, <1>5, <2>2, <3>1 DEF Retry
    <2> QED
      BY <2>1, <2>2
  <1>6. CASE UNCHANGED <<state, pc>>
    BY <1>0, <1>6
  <1> QED
    BY <1>1, <1>2, <1>3, <1>4, <1>5, <1>6
       DEF TaskNext, Goroutine, Watch, CeilingPasses, WatchReturns, CancelRoot,
           NotifyOwed, StreamOpens, Reader, StreamRenders, StreamWakes,
           StreamStep, pollVars, taskVars, runVars

-----------------------------------------------------------------------------
(* What the count says is still running afterwards.  A step that starts a    *)
(* source leaves the count behind what runs; one that ends a source counts.  *)
LEMMA CountFollows ==
    ASSUME TaskInv, TaskTypeOK', [TaskNext]_pollVars
    PROVE  NeverOverReports' /\ CancelIsFinal'
  <1> DEFINE Goal == /\ inFlight' <= Cardinality(Outstanding(state'))
                     /\ cancelled' => inFlight' = 0 /\ Outstanding(state') = {}
  <1> SUFFICES Goal
    BY DEF NeverOverReports, CancelIsFinal, Outstanding
  <1> USE DEF TaskInv
  <1>1. ASSUME UNCHANGED <<state, inFlight, cancelled>>
        PROVE  Goal
    BY <1>1 DEF NeverOverReports, CancelIsFinal
  <1>2. ASSUME NEW st \in [Sources -> State], SettleLocked(st),
               cancelled' => Outstanding(st) = {}
        PROVE  Goal
    <2>1. /\ state' = st
          /\ inFlight' \in Nat
          /\ inFlight' = Cardinality(Outstanding(state'))
          /\ Outstanding(st) = {} => inFlight' = 0
      BY <1>2, SettledCount DEF NeverOverReports, TaskTypeOK
    <2> QED
      BY <1>2, <2>1
  <1>3. ASSUME NEW r \in Runs, Begin(r) PROVE Goal
    <2>1. state' = [state EXCEPT ![r[1]] = "querying"]
          /\ inFlight' = inFlight /\ ~cancelled'
      BY <1>3 DEF Begin
    <2>2. Outstanding(state) \subseteq Outstanding(state')
      BY <2>1 DEF Outstanding, Running, NeverOverReports, TaskTypeOK
    <2>3. Cardinality(Outstanding(state)) <= Cardinality(Outstanding(state'))
      BY <2>2, FewerOutstanding
    <2>4. /\ Cardinality(Outstanding(state)) \in Nat
          /\ Cardinality(Outstanding(state')) \in Nat
      BY OutstandingIsCounted
    <2> QED
      BY <2>1, <2>3, <2>4 DEF NeverOverReports, TaskTypeOK
  <1>4. ASSUME NEW r \in Runs, BeginCancelled(r) PROVE Goal
    <2> DEFINE st == [state EXCEPT ![r[1]] = "cancelled"]
    <2>1. SettleLocked(st) /\ cancelled /\ cancelled'
      BY <1>4 DEF BeginCancelled
    <2>2. st \in [Sources -> State]
      BY DEF NeverOverReports, TaskTypeOK, State, TerminalStates
    <2>3. Outstanding(st) = {}
      BY <2>1 DEF Outstanding, CancelIsFinal, Running, NeverOverReports, TaskTypeOK
    <2> HIDE DEF st
    <2> QED
      BY <1>2, <2>1, <2>2, <2>3
  <1>5. ASSUME NEW r \in Runs, GiveUp(r) \/ Answer(r) PROVE Goal
    <2>1. PICK how \in Endings(r) :
              SettleLocked([state EXCEPT ![r[1]] = Outcome(how)])
      BY <1>5 DEF GiveUp, Answer
    <2> DEFINE o == Outcome(how)
               st == [state EXCEPT ![r[1]] = o]
    <2>2. SettleLocked(st) /\ cancelled' = cancelled
      BY <1>5, <2>1 DEF GiveUp, Answer
    <2>3. o \in TerminalStates
      BY OutcomeIsTerminal DEF NeverOverReports
    <2> HIDE DEF o
    <2>4. st \in [Sources -> State]
      BY <2>3 DEF NeverOverReports, TaskTypeOK, State
    <2>5. cancelled' => Outstanding(st) = {}
      BY <2>2, <2>3 DEF Outstanding, CancelIsFinal, Running, TerminalStates,
                        NeverOverReports, TaskTypeOK
    <2> HIDE DEF st
    <2> QED
      BY <1>2, <2>2, <2>4, <2>5
  <1>6. CASE WatchCeiling
    <2> DEFINE marked == [s \in Sources |-> IF state[s] \in Running
                                            THEN "timeout" ELSE state[s]]
    <2>1. marked \in [Sources -> State] /\ Outstanding(marked) = {}
      BY DEF NeverOverReports, TaskTypeOK, State, TerminalStates, Outstanding,
             Running
    <2>2. \/ SettleLocked(marked)
          \/ UNCHANGED <<state, inFlight, cancelled>>
      BY <1>6 DEF WatchCeiling
    <2> HIDE DEF marked
    <2> QED
      BY <1>1, <1>2, <2>1, <2>2
  <1>7. ASSUME NEW s \in Sources, Retry(s) PROVE Goal
    <2>1. inFlight' = Cardinality(Outstanding(state')) /\ ~cancelled'
      BY <1>7 DEF Retry
    <2> QED
      BY <2>1, OutstandingIsCounted
  <1>8. CASE Cancel
    <2> DEFINE marked == [s \in Sources |-> IF state[s] \in Running
                                            THEN "cancelled" ELSE state[s]]
    <2>1. marked \in [Sources -> State] /\ Outstanding(marked) = {}
      BY DEF NeverOverReports, TaskTypeOK, State, TerminalStates, Outstanding,
             Running
    <2>2. SettleLocked(marked)
      BY <1>8 DEF Cancel
    <2> HIDE DEF marked
    <2> QED
      BY <1>2, <2>1, <2>2
  <1>9. CASE UNCHANGED <<state, inFlight, cancelled>>
    BY <1>1, <1>9
  <1>10. ASSUME \/ CeilingPasses \/ WatchReturns \/ CancelRoot \/ NotifyOwed
                \/ \E r \in Runs : Query(r) \/ Leave(r)
                \/ \E d \in Readers : StreamOpens(d) \/ Reader(d)
                \/ UNCHANGED pollVars
         PROVE  UNCHANGED <<state, inFlight, cancelled>>
    BY <1>10 DEF CeilingPasses, WatchReturns, CancelRoot, NotifyOwed, Query,
                 Leave, StreamOpens, Reader, StreamRenders, StreamWakes,
                 StreamStep, pollVars, taskVars
  <1> HIDE DEF Goal
  <1>11. ASSUME NEW r \in Runs, Goroutine(r) \/ Answer(r) PROVE Goal
    BY <1>3, <1>4, <1>5, <1>9, <1>10, <1>11 DEF Goroutine
  <1>12. CASE TaskNext
    BY <1>6, <1>7, <1>8, <1>9, <1>10, <1>11, <1>12 DEF TaskNext, Watch
  <1>13. CASE UNCHANGED pollVars
    BY <1>9, <1>10, <1>13
  <1> QED
    BY <1>12, <1>13

-----------------------------------------------------------------------------
(* A new task: every source waits and has its goroutine of the sweep. *)
LEMMA Start == ASSUME TaskInit PROVE TaskInv
  <1> USE DEF TaskInit, Runs, SweepRuns
  <1>1. Outstanding(state) = Sources
    BY DEF Outstanding, Running
  <1>2. Cardinality(Sources) \in Nat
    BY SourcesAssumption, FS_CardinalityType
  <1>3. TaskTypeOK
    BY <1>2 DEF TaskTypeOK, State, Running, Pc
  <1>4. NoAbandonedSource
    <2>1. \A s \in Sources : Live(<<s, 0>>)
      BY RetriesAssumption DEF Live
    <2>2. 0 \in 0 .. MaxRetries
      BY RetriesAssumption
    <2> QED
      BY <2>1, <2>2 DEF NoAbandonedSource
  <1> QED
    BY <1>1, <1>2, <1>3, <1>4 DEF TaskInv, NeverOverReports, CancelIsFinal

LEMMA TaskInductive == ASSUME TaskInv, [TaskNext]_pollVars PROVE TaskInv'
  <1>1. TaskTypeOK'
    BY TaskTypeStep DEF TaskInv, NeverOverReports
  <1> QED
    BY <1>1, NoneAbandoned, CountFollows DEF TaskInv

LEMMA TaskInvariance == TaskSpec => []TaskInv
  BY Start, TaskInductive, PTL DEF TaskSpec

(* "Every exit path goes through finish": a source that reads as waiting or   *)
(* querying always has a goroutine that has still to finish it.              *)
THEOREM NoneIsAbandoned == TaskSpec => []NoAbandonedSource
  <1>1. TaskInv => NoAbandonedSource
    BY DEF TaskInv
  <1> QED
    BY <1>1, TaskInvariance, PTL

(* The count of a task never exceeds what it has outstanding, so no page goes *)
(* on waiting for a task in which nothing runs.                              *)
THEOREM CountIsHonest == TaskSpec => []NeverOverReports
  <1>1. TaskInv => NeverOverReports
    BY DEF TaskInv
  <1> QED
    BY <1>1, TaskInvariance, PTL

(* After Cancel nothing of the task waits or is polled again: Begin and Retry *)
(* ask under the lock, and every later answer settles a task at rest.        *)
THEOREM CancelStands == TaskSpec => []CancelIsFinal
  <1>1. TaskInv => CancelIsFinal
    BY DEF TaskInv
  <1> QED
    BY <1>1, TaskInvariance, PTL
=============================================================================
