--------------------------- MODULE MCLoginSecrets ---------------------------
(* LoginSecrets on small instances. Names of every kind are interchangeable. *)
EXTENDS LoginSecrets, TLC

CONSTANTS r1, r2, r3, i1, i2, i3, k1, k2, k3, c1, c2

TwoRequests == {r1, r2}
ThreeRequests == {r1, r2, r3}
TwoIds == {i1, i2}
TwoKeys == {k1, k2}
OneConnection == {c1}
TwoConnections == {c1, c2}
Symmetry == Permutations(Requests) \cup Permutations(Ids)
            \cup Permutations(Keys) \cup Permutations(Connections)
=============================================================================
