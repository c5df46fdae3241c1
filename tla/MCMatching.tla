----------------------------- MODULE MCMatching -----------------------------
(* Matching on every three records of a small address book, calendar and
   journal; numbers and prefixes are three digits and two letters. *)
EXTENDS Matching

VARIABLES prints, threshold, skip, order

Ann == <<1, 2, 2>>
Anna == <<1, 2, 2, 1, 3, 3, 3, 3, 3, 3>>
Banna == <<4, 2, 2, 1, 3, 3, 3, 3, 3, 3>>
Poe == <<7, 8>>

C(uid, name, emails, phones, bday) ==
    FingerprintContact([uid |-> uid, name |-> name, emails |-> emails, phones |-> phones,
                        birthday |-> bday])

Contacts == {
    C("u1", <<Ann, Poe>>, {"ann"}, <<>>, <<>>),
    C("u2", <<Poe, Ann>>, {}, <<<<7, 1, 2, 3>>>>, <<0, 5, 1, 0>>),
    C("u3", <<Poe>>, {}, <<<<8, 1, 2, 3>>, <<1>>>>, <<>>),
    C("u3", <<Banna>>, {"ann"}, <<>>, <<>>),
    C("", <<Banna>>, {}, <<>>, <<8, 5, 0, 5, 1, 0>>),
    C("", <<Anna>>, {}, <<<<1>>>>, <<8, 5, 0, 5, 1, 0>>),
    C("", <<>>, {}, <<<<1>>>>, <<0, 5, 1, 0>>)}

Entries(Of(_)) == {Of([uid |-> e[1], name |-> e[2], start |-> e[3]]) :
    e \in {<<"", <<Ann>>, 9>>, <<"u1", <<Ann>>, 9>>, <<"u1", <<>>, 0>>, <<"", <<Ann, Poe>>, 9>>}}

Prints == [1 .. 3 -> Contacts]
          \cup [1 .. 3 -> Entries(FingerprintEvent)]
          \cup [1 .. 3 -> Entries(FingerprintNote)]
          \cup [1 .. 3 -> Entries(FingerprintTodo)]
Pairs == {<<1, 2>>, <<1, 3>>, <<2, 3>>}
Orders == {<<<<1, 3>>, <<2, 3>>, <<1, 2>>>>, <<<<2, 3>>, <<1, 2>>, <<1, 3>>>>}

Init ==
    /\ prints \in Prints
    /\ threshold = DefaultThreshold
    /\ skip = {}
    /\ order = <<>>

Next ==
    /\ order = <<>>
    /\ threshold' \in {40, 60, 80}
    /\ skip' \in {{}, {<<1, 3>>}}
    /\ order' \in Orders
    /\ UNCHANGED prints

Detection ==
    order # <<>> =>
        /\ DetectsEveryPair(prints, threshold, skip, order)
        /\ MissesOnlyOpenings(prints, threshold)
=============================================================================
