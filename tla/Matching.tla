------------------------------ MODULE Matching ------------------------------
(***************************************************************************)
(* Detection of duplicates (internal/merge): fingerprints, the score of a    *)
(* pair, the buckets that keep detection from comparing everything with       *)
(* everything, and the groups the pairs join into.                           *)
(*                                                                         *)
(* A letter is a number, a word a sequence of letters, a name a sequence of    *)
(* words; a telephone number and a birthday are sequences of digits.         *)
(***************************************************************************)
EXTENDS Integers, Sequences, FiniteSets, SequencesExt, FiniteSetsExt, Functions

CONSTANTS
    phoneKeyDigits, phoneMinDigits,   \* 9 and 5
    namePrefixLen                     \* 4

WeightEmail == 60
WeightPhone == 60
WeightUID == 60
WeightName == 30
WeightNameClose == 20
WeightNameLoose == 10
WeightBirthday == 20
WeightStartSummary == 60
similarityClose == 90
similarityLoose == 80
DefaultThreshold == 60

NoUID == ""
Space == 0

-----------------------------------------------------------------------------
(* The comparable tail of a number, or nothing. *)
PhoneKey(digits) ==
    IF Len(digits) < phoneMinDigits THEN <<>>
    ELSE SubSeq(digits, IF Len(digits) > phoneKeyDigits THEN Len(digits) - phoneKeyDigits + 1
                        ELSE 1, Len(digits))

(* Words in one order, whichever order they were written in. *)
Before(v, w) ==
    LET shorter == IF Len(v) < Len(w) THEN Len(v) ELSE Len(w)
        at == {i \in 1 .. shorter : v[i] # w[i]}
    IN IF at = {} THEN Len(v) < Len(w) ELSE v[Min(at)] < w[Min(at)]

NormalizeName(words) ==
    LET Join(name, word) == IF name = <<>> THEN word ELSE name \o <<Space>> \o word
    IN FoldLeft(Join, <<>>, SortSeq(words, Before))

BirthdayMatch(a, b) ==
    /\ Len(a) >= 4 /\ Len(b) >= 4
    /\ IsSuffix(a, b) \/ IsSuffix(b, a)

(* Edit distance over two rows: row[j] is the distance to the first j - 1. *)
Levenshtein(a, b) ==
    LET Row(previous, i) ==
            FoldLeft(LAMBDA row, j :
                        Append(row, Min({row[j] + 1, previous[j + 1] + 1,
                                         previous[j] + IF a[i] = b[j] THEN 0 ELSE 1})),
                     <<i>>, [j \in 1 .. Len(previous) - 1 |-> j])
        rows == FoldLeft(Row, [j \in 1 .. Len(b) + 1 |-> j - 1], [i \in DOMAIN a |-> i])
    IN rows[Len(b) + 1]

Similarity(a, b) ==
    IF a = <<>> \/ b = <<>> THEN 0
    ELSE 100 - (Levenshtein(a, b) * 100) \div Max({Len(a), Len(b)})

-----------------------------------------------------------------------------
(* Fingerprints; Start is 0 for none. *)
Blank == [kind |-> "contact", uid |-> NoUID, name |-> <<>>, emails |-> {}, phones |-> {},
          birthday |-> <<>>, start |-> 0]

FingerprintContact(c) ==
    [Blank EXCEPT !.uid = c.uid, !.name = NormalizeName(c.name), !.emails = c.emails,
                  !.phones = {PhoneKey(c.phones[i]) : i \in DOMAIN c.phones} \ {<<>>},
                  !.birthday = c.birthday]
FingerprintEvent(e) ==
    [Blank EXCEPT !.kind = "event", !.uid = e.uid, !.name = NormalizeName(e.name),
                  !.start = e.start]
FingerprintTodo(t) ==
    [Blank EXCEPT !.kind = "todo", !.uid = t.uid, !.name = NormalizeName(t.name)]
FingerprintNote(n) ==
    [Blank EXCEPT !.kind = "note", !.uid = n.uid, !.name = NormalizeName(n.name),
                  !.start = n.start]

Empty(f) ==
    f.uid = NoUID /\ f.name = <<>> /\ f.emails = {} /\ f.phones = {} /\ f.start = 0

Buckets(f) ==
    LET letters == SelectSeq(f.name, LAMBDA x : x # Space)
        prefix == SubSeq(letters, 1, Min({namePrefixLen, Len(letters)}))
        Key(what, set) == {<<what, x>> : x \in set}
    IN Key("u", {f.uid} \ {NoUID}) \cup Key("e", f.emails) \cup Key("p", f.phones)
       \cup Key("n", {prefix} \ {<<>>}) \cup Key("t", {f.start} \ {0})

-----------------------------------------------------------------------------
NameWeight(a, b) ==
    LET ratio == Similarity(a, b)
    IN CASE ratio >= 100 -> WeightName
         [] ratio >= similarityClose /\ ratio < 100 -> WeightNameClose
         [] ratio >= similarityLoose /\ ratio < similarityClose -> WeightNameLoose
         [] OTHER -> 0

If(holds, weight) == IF holds THEN weight ELSE 0

(* Contacts, and also tasks and notes, which have only some of the signals. *)
ScoreContact(a, b) ==
    LET match == If(a.uid # NoUID /\ a.uid = b.uid, WeightUID)
                 + If(a.emails \cap b.emails # {}, WeightEmail)
                 + If(a.phones \cap b.phones # {}, WeightPhone)
                 + NameWeight(a.name, b.name)
    IN match + If(match > 0 /\ BirthdayMatch(a.birthday, b.birthday), WeightBirthday)

ScoreEvent(a, b) ==
    IF a.uid # NoUID /\ a.uid = b.uid THEN WeightUID
    ELSE If(a.start # 0 /\ a.start = b.start /\ a.name # <<>> /\ a.name = b.name,
            WeightStartSummary)

Score(a, b) ==
    IF a.kind # b.kind \/ Empty(a) \/ Empty(b) THEN 0
    ELSE IF a.kind = "event" THEN ScoreEvent(a, b)
    ELSE ScoreContact(a, b)

-----------------------------------------------------------------------------
(* unionFind: a forest and the best score of each tree. *)
Root(parent, i) ==
    LET up[n \in 0 .. Len(parent)] == IF n = 0 THEN i ELSE parent[up[n - 1]]
    IN up[Len(parent)]

NewUnionFind(n) == [parent |-> [i \in 1 .. n |-> i], score |-> [i \in 1 .. n |-> 0]]

Union(sets, a, b, score) ==
    LET ra == Root(sets.parent, a)
        rb == Root(sets.parent, b)
    IN [parent |-> [sets.parent EXCEPT ![rb] = ra],
        score |-> [sets.score EXCEPT ![ra] = Max({@, sets.score[rb], score})]]

Scored(prints) ==
    {p \in (DOMAIN prints) \X (DOMAIN prints) :
        /\ p[1] < p[2]
        /\ ~Empty(prints[p[1]]) /\ ~Empty(prints[p[2]])
        /\ Buckets(prints[p[1]]) \cap Buckets(prints[p[2]]) # {}}

(* The pairs are met in any order, as the buckets of a map are; skip is what a
   decision covers. *)
Clusters(prints, threshold, skip, order) ==
    LET Take(sets, p) ==
            IF p \in Scored(prints) \ skip /\ Score(prints[p[1]], prints[p[2]]) >= threshold
            THEN Union(sets, p[1], p[2], Score(prints[p[1]], prints[p[2]]))
            ELSE sets
        sets == FoldLeft(Take, NewUnionFind(Len(prints)), order)
        members == [r \in {Root(sets.parent, i) : i \in DOMAIN prints} |->
                       {i \in DOMAIN prints : Root(sets.parent, i) = r}]
    IN {[indexes |-> members[r], score |-> sets.score[r]] :
          r \in {x \in DOMAIN members : Cardinality(members[x]) >= 2}}

-----------------------------------------------------------------------------
(* What detection promises: records in one group are those that a chain of
   matching pairs joins, with the best score among them. *)
Matches(prints, threshold, skip) ==
    {p \in (DOMAIN prints) \X (DOMAIN prints) :
        p[1] < p[2] /\ p \notin skip /\ Score(prints[p[1]], prints[p[2]]) >= threshold}

Reach(pairs, i, n) ==
    LET Grow(S, k) == S \cup {j \in 1 .. n : \E x \in S : <<x, j>> \in pairs \/ <<j, x>> \in pairs}
    IN FoldLeft(Grow, {i}, [k \in 1 .. n |-> k])

Groups(prints, threshold, skip) ==
    LET pairs == Matches(prints, threshold, skip)
    IN {[indexes |-> g,
         score |-> Max({Score(prints[p[1]], prints[p[2]]) :
                           p \in {q \in pairs : q[1] \in g}})] :
          g \in {Reach(pairs, p[1], Len(prints)) : p \in pairs}}

(* At the default threshold, and above, comparing only records that share a
   bucket misses no pair, and the groups do not depend on the order in which the
   pairs are met. *)
DetectsEveryPair(prints, threshold, skip, order) ==
    threshold >= DefaultThreshold =>
        Clusters(prints, threshold, skip, order) = Groups(prints, threshold, skip)

(* Below it, the one pair that is missed has two spellings of one name that
   differ in their first letters. *)
MissesOnlyOpenings(prints, threshold) ==
    \A p \in Matches(prints, threshold, Scored(prints)) :
       /\ prints[p[1]].name # prints[p[2]].name
       /\ Score(prints[p[1]], prints[p[2]]) <= WeightNameClose + WeightBirthday

-----------------------------------------------------------------------------
(* Slips of these operations. *)
BucketsWithoutPhones(f) ==
    LET letters == SelectSeq(f.name, LAMBDA x : x # Space)
        prefix == SubSeq(letters, 1, Min({namePrefixLen, Len(letters)}))
        Key(what, set) == {<<what, x>> : x \in set}
    IN Key("u", {f.uid} \ {NoUID}) \cup Key("e", f.emails)
       \cup Key("n", {prefix} \ {<<>>}) \cup Key("t", {f.start} \ {0})

UnionOfLeaves(sets, a, b, score) ==
    [parent |-> [sets.parent EXCEPT ![b] = a],
     score |-> [sets.score EXCEPT ![a] = Max({@, score})]]
=============================================================================
