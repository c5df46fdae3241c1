--------------------------- MODULE MCAccountStore ---------------------------
(* AccountStore on small instances. Names of every kind are interchangeable. *)
EXTENDS AccountStore, TLC

CONSTANTS a1, a2, a3, l1, l2, k1, k2, k3, i1

ThreeAccounts == {a1, a2, a3}
TwoLogins == {l1, l2}
ThreeKeys == {k1, k2, k3}
OneInvite == {i1}
Symmetry == Permutations(Accounts) \cup Permutations(Logins)
            \cup Permutations(Keys)
=============================================================================
