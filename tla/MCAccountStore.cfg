\* Two logins for three accounts, so that the third would have to share one,
\* and one invitation: every pair of administrators, every order of deposit,
\* recovery, reset and registration.
SPECIFICATION Spec
CONSTANTS
    a1 = a1
    a2 = a2
    a3 = a3
    l1 = l1
    l2 = l2
    k1 = k1
    k2 = k2
    k3 = k3
    i1 = i1
    None = None
    Accounts <- ThreeAccounts
    Logins <- TwoLogins
    Keys <- ThreeKeys
    Invites <- OneInvite
    MaxResends = 1
SYMMETRY Symmetry
CHECK_DEADLOCK FALSE
INVARIANTS
    AdminRemains
    CopyIsCurrent
    
    LoginsAndKeysUnique
    InviteMakesOneAccount
PROPERTIES
    CoveredKeepsKey
