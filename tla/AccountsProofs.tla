--------------------------- MODULE AccountsProofs ---------------------------
(***************************************************************************)
(* Proofs about the accounts, the file that keeps them and the mail that     *)
(* invites them.  The three modules share no state.                          *)
(*                                                                         *)
(* AccountStore, for every set of accounts, logins, keys and invitations.     *)
(* IInv is the inductive invariant: the type invariant, the safety            *)
(* invariants, and InviteCounted, which InviteMakesOneAccount needs because   *)
(* acceptance counts up from what the status says.                           *)
(*                                                                         *)
(* StateFile, for any set of changes and any length of the audit log: the     *)
(* file is always readable, a running store has exactly what its file has,     *)
(* the audit log keeps step, and StateFile implements DurableState.  They     *)
(* are about a store that nobody updates after Close: CloseKeepsState of       *)
(* StateFile says what happens otherwise.                                    *)
(*                                                                         *)
(* MailQueue, for any invitations, any capacity of the channel and any         *)
(* number of tokens and retries: a message is in one place only, and an        *)
(* invitation that shows as sent had one delivered.  Both need to know that a  *)
(* token not yet issued has left no trace (a new message is nowhere else) and  *)
(* that whoever will record "sent" did send.                                 *)
(***************************************************************************)
EXTENDS AccountStore, StateFile, MailQueue, SequenceTheorems,
        FiniteSetTheorems, TLAPS

InviteCounted ==
    \A i \in Invites :
        invite[i].taken = IF invite[i].status = "accepted" THEN 1 ELSE 0

IInv ==
    /\ TypeOK
    /\ AdminRemains
    /\ CopyIsCurrent
    /\ TemporaryIsMarked
    /\ LoginsAndKeysUnique
    /\ InviteCounted

-----------------------------------------------------------------------------
(* Facts about the records the actions build. *)

(* setCredentials keeps an account well formed and deposits at most the key *)
(* it just made, and only while escrow is active.                           *)
LEMMA SetCredentialsShape ==
    ASSUME NEW acc \in Account, NEW k \in Keys
    PROVE  /\ SetCredentials(acc, k) \in Account
           /\ SetCredentials(acc, k).dek = k
           /\ SetCredentials(acc, k).copy \in {k, None}
           /\ SetCredentials(acc, k).copy = k \/ ~EscrowActive
           /\ EscrowActive \/ SetCredentials(acc, k).copy = None
           /\ SetCredentials(acc, k).login = acc.login
           /\ SetCredentials(acc, k).role = acc.role
           /\ SetCredentials(acc, k).disabled = acc.disabled
           /\ SetCredentials(acc, k).unconfirmed = acc.unconfirmed
           /\ SetCredentials(acc, k).mustChange = acc.mustChange
           /\ SetCredentials(acc, k).knows = acc.knows
  BY DEF SetCredentials, Account

(* newUser: a well-formed account that is neither disabled nor unconfirmed. *)
LEMMA NewUserShape ==
    ASSUME NEW l \in Logins, NEW role \in Role, NEW k \in Keys
    PROVE  /\ NewUser(l, role, k) \in Account
           /\ NewUser(l, role, k).dek = k
           /\ NewUser(l, role, k).copy \in {k, None}
           /\ EscrowActive \/ NewUser(l, role, k).copy = None
           /\ NewUser(l, role, k).login = l
           /\ NewUser(l, role, k).role = role
           /\ NewUser(l, role, k).disabled = FALSE
           /\ NewUser(l, role, k).unconfirmed = FALSE
           /\ NewUser(l, role, k).mustChange = FALSE
           /\ NewUser(l, role, k).knows = "own"
  <1> DEFINE base == [Blank EXCEPT !.login = l, !.role = role]
  <1>1. /\ base \in Account
        /\ base.login = l /\ base.role = role
        /\ base.disabled = FALSE /\ base.unconfirmed = FALSE
        /\ base.mustChange = FALSE /\ base.knows = "own"
    BY DEF Blank, Account
  <1> HIDE DEF base
  <1>2. NewUser(l, role, k) = SetCredentials(base, k)
    BY DEF NewUser, base
  <1> QED
    BY <1>1, <1>2, SetCredentialsShape

-----------------------------------------------------------------------------
(* The three ways a step touches the accounts. *)

(* An account that may come into being: new login, new key, and a deposit   *)
(* only of that key and only when there is a recovery pair.                 *)
Enrollable(acc) ==
    /\ acc \in Account
    /\ LoginFree(acc.login) /\ FreshKey(acc.dek)
    /\ acc.dek # None
    /\ acc.copy # None => acc.copy = acc.dek /\ escrow # "none"
    /\ acc.knows = "admin" => acc.mustChange

LEMMA EnrolKeeps ==
    ASSUME IInv, NEW a \in Accounts, NEW acc, Enrollable(acc), Add(a, acc),
           escrow' = escrow, selfReg' = selfReg,
           invite' \in [Invites -> Invite], InviteCounted',
           \/ bootstrapped' = bootstrapped
           \/ /\ bootstrapped' = TRUE
              /\ acc.role = "admin" /\ ~acc.disabled /\ ~acc.unconfirmed
    PROVE  IInv'
  <1>1. /\ account' \in [Accounts -> Account]
        /\ users' = users \cup {a} /\ a \notin users
        /\ account'[a] = acc
        /\ \A b \in users : account'[b] = account[b] /\ b \in Accounts
    BY DEF IInv, TypeOK, Add, Enrollable
  <1>2. TypeOK'
    BY <1>1 DEF IInv, TypeOK
  <1>3. AdminRemains'
    <2>1. CASE bootstrapped' = bootstrapped
      BY <1>1, <2>1 DEF IInv, AdminRemains, ActiveAdmin, Admin
    <2>2. CASE acc.role = "admin" /\ ~acc.disabled /\ ~acc.unconfirmed
      BY <1>1, <2>2 DEF AdminRemains, ActiveAdmin, Admin
    <2> QED
      BY <2>1, <2>2
  <1>4. CopyIsCurrent'
    BY <1>1 DEF IInv, CopyIsCurrent, Enrollable
  <1>5. TemporaryIsMarked'
    BY <1>1 DEF IInv, TemporaryIsMarked, Enrollable
  <1>6. LoginsAndKeysUnique'
    BY <1>1 DEF IInv, LoginsAndKeysUnique, Enrollable, LoginFree, FreshKey
  <1> QED
    BY <1>2, <1>3, <1>4, <1>5, <1>6 DEF IInv

(* A change of account a that the invariant survives. *)
Changeable(a, acc) ==
    /\ acc \in Account
    /\ acc.login = account[a].login
    /\ acc.dek = account[a].dek \/ FreshKey(acc.dek)
    /\ acc.copy # None => acc.copy = acc.dek /\ escrow # "none"
    /\ acc.knows = "admin" => acc.mustChange
    /\ ActiveAdmin(a) =>
          \/ acc.role = "admin" /\ ~acc.disabled /\ ~acc.unconfirmed
          \/ ~IsLastActiveAdmin(a)

LEMMA ChangeKeeps ==
    ASSUME IInv, NEW a \in Accounts, NEW acc, Changeable(a, acc), Change(a, acc)
    PROVE  IInv'
  <1>1. /\ account' \in [Accounts -> Account]
        /\ users' = users /\ a \in users
        /\ account'[a] = acc
        /\ \A b \in users : b # a => account'[b] = account[b]
        /\ users \subseteq Accounts
    BY DEF IInv, TypeOK, Change, Changeable
  <1>2. UNCHANGED <<invite, escrow, selfReg, bootstrapped>>
    BY DEF Change, settings
  <1>3. TypeOK'
    BY <1>1, <1>2 DEF IInv, TypeOK
  <1>4. AdminRemains'
    <2>1. CASE ~ActiveAdmin(a)
      BY <1>1, <1>2, <2>1 DEF IInv, AdminRemains, ActiveAdmin, Admin
    <2>2. CASE acc.role = "admin" /\ ~acc.disabled /\ ~acc.unconfirmed
      BY <1>1, <1>2, <2>2 DEF AdminRemains, ActiveAdmin, Admin
    <2>3. CASE ActiveAdmin(a) /\ ~IsLastActiveAdmin(a)
      <3>1. PICK b \in users : ActiveAdmin(b) /\ b # a
        BY <2>3 DEF IsLastActiveAdmin
      <3> QED
        BY <1>1, <3>1 DEF AdminRemains, ActiveAdmin, Admin
    <2> QED
      BY <2>1, <2>2, <2>3 DEF Changeable
  <1>5. CopyIsCurrent'
    BY <1>1, <1>2 DEF IInv, CopyIsCurrent, Changeable
  <1>6. TemporaryIsMarked'
    BY <1>1 DEF IInv, TemporaryIsMarked, Changeable
  <1>7. LoginsAndKeysUnique'
    BY <1>1 DEF IInv, LoginsAndKeysUnique, Changeable, FreshKey
  <1>8. InviteCounted'
    BY <1>2 DEF IInv, InviteCounted
  <1> QED
    BY <1>3, <1>4, <1>5, <1>6, <1>7, <1>8 DEF IInv

(* What may leave is anyone but the last administrator who can log in. *)
LEMMA DeleteKeeps ==
    ASSUME IInv, NEW a \in Accounts, DeleteUser(a)
    PROVE  IInv'
  <1>1. /\ account' \in [Accounts -> Account]
        /\ users' = users \ {a} /\ a \in users /\ ~IsLastActiveAdmin(a)
        /\ \A b \in users' : account'[b] = account[b]
        /\ users \subseteq Accounts
    BY NoneAssumption DEF IInv, TypeOK, DeleteUser, Blank, Account, Role
  <1>2. UNCHANGED <<invite, escrow, selfReg, bootstrapped>>
    BY DEF DeleteUser, settings
  <1>3. TypeOK'
    BY <1>1, <1>2 DEF IInv, TypeOK
  <1>4. AdminRemains'
    <2> SUFFICES ASSUME bootstrapped
                 PROVE  \E b \in users' : ActiveAdmin(b)'
      BY <1>2 DEF AdminRemains
    <2>1. PICK b \in users : ActiveAdmin(b)
      BY DEF IInv, AdminRemains
    <2>2. CASE b # a
      BY <1>1, <2>1, <2>2 DEF ActiveAdmin, Admin
    <2>3. CASE b = a
      <3>1. PICK c \in users : ActiveAdmin(c) /\ c # a
        BY <1>1, <2>1, <2>3 DEF IsLastActiveAdmin
      <3> QED
        BY <1>1, <3>1 DEF ActiveAdmin, Admin
    <2> QED
      BY <2>2, <2>3
  <1>5. CopyIsCurrent' /\ TemporaryIsMarked' /\ LoginsAndKeysUnique'
    BY <1>1, <1>2 DEF IInv, CopyIsCurrent, TemporaryIsMarked, LoginsAndKeysUnique
  <1>6. InviteCounted'
    BY <1>2 DEF IInv, InviteCounted
  <1> QED
    BY <1>3, <1>4, <1>5, <1>6 DEF IInv

-----------------------------------------------------------------------------
(* The actions. *)

LEMMA BlanksTyped == Blank \in Account /\ NoInvite \in Invite
  <1>1. Blank \in Account
    BY DEF Blank, Account, Role
  <1>2. NoInvite \in Invite
    BY ResendsAssumption DEF NoInvite, Invite, Role
  <1> QED
    BY <1>1, <1>2

LEMMA InitHolds == Init => IInv
  <1> SUFFICES ASSUME Init PROVE IInv
    OBVIOUS
  <1>1. TypeOK
    BY BlanksTyped DEF Init, TypeOK
  <1>2. AdminRemains /\ CopyIsCurrent /\ TemporaryIsMarked
        /\ LoginsAndKeysUnique
    BY DEF Init, AdminRemains, CopyIsCurrent, TemporaryIsMarked,
           LoginsAndKeysUnique
  <1>3. InviteCounted
    BY DEF Init, InviteCounted, NoInvite
  <1> QED
    BY <1>1, <1>2, <1>3 DEF IInv

LEMMA EnrolStep == ASSUME IInv, Enrol PROVE IInv'
  <1> PICK a \in Accounts, l \in Logins, k \in Keys :
        \/ CreateFirstAdmin(a, l, k)
        \/ \E role \in Role : CreateUserWithPassword(a, l, role, k)
        \/ Register(a, l, k)
        \/ \E i \in Invites, n \in 0 .. MaxResends : AcceptInvite(a, i, n, l, k)
    BY DEF Enrol
  <1>0. k # None
    BY NoneAssumption
  <1>1. CASE CreateFirstAdmin(a, l, k)
    <2>0. PICK role \in Role : role = "admin"
      BY DEF Role
    <2> DEFINE acc == NewUser(l, role, k)
    <2>1. /\ acc \in Account /\ acc.dek = k /\ acc.login = l
          /\ acc.copy \in {k, None} /\ (EscrowActive \/ acc.copy = None)
          /\ acc.knows = "own" /\ acc.role = role
      BY ZenonT(40), NewUserShape
    <2>5. ~acc.disabled /\ ~acc.unconfirmed
      BY NewUserShape
    <2>2. LoginFree(l) /\ FreshKey(k) /\ Add(a, acc) /\ bootstrapped' = TRUE
          /\ UNCHANGED <<invite, escrow, selfReg>>
      BY <1>1, <2>0 DEF CreateFirstAdmin
    <2> HIDE DEF acc
    <2>3. Enrollable(acc)
      BY <1>0, <2>1, <2>2 DEF Enrollable, EscrowActive
    <2>4. invite' \in [Invites -> Invite] /\ InviteCounted'
      BY <2>2 DEF IInv, TypeOK, InviteCounted
    <2> QED
      BY <2>0, <2>1, <2>2, <2>3, <2>4, <2>5, EnrolKeeps
  <1>2. CASE \E role \in Role : CreateUserWithPassword(a, l, role, k)
    <2> PICK role \in Role : CreateUserWithPassword(a, l, role, k)
      BY <1>2
    <2> DEFINE new == NewUser(l, role, k)
               acc == [new EXCEPT !.mustChange = TRUE, !.knows = "admin"]
    <2>1. /\ new \in Account /\ new.dek = k /\ new.login = l
          /\ new.copy \in {k, None} /\ (EscrowActive \/ new.copy = None)
      BY NewUserShape
    <2>2. LoginFree(l) /\ FreshKey(k) /\ Add(a, acc)
          /\ UNCHANGED <<invite, escrow, selfReg, bootstrapped>>
      BY DEF CreateUserWithPassword, settings
    <2> HIDE DEF new
    <2>3. Enrollable(acc)
      BY <1>0, <2>1, <2>2 DEF Enrollable, Account, EscrowActive
    <2>4. invite' \in [Invites -> Invite] /\ InviteCounted'
      BY <2>2 DEF IInv, TypeOK, InviteCounted
    <2> HIDE DEF acc
    <2> QED
      BY <2>2, <2>3, <2>4, EnrolKeeps
  <1>3. CASE Register(a, l, k)
    <2>0. PICK role \in Role : role = "user"
      BY DEF Role
    <2> DEFINE new == NewUser(l, role, k)
               acc == [new EXCEPT !.unconfirmed = TRUE, !.link = TRUE]
    <2>1. /\ new \in Account /\ new.dek = k /\ new.login = l
          /\ new.copy \in {k, None} /\ (EscrowActive \/ new.copy = None)
          /\ new.knows = "own"
      BY ZenonT(40), NewUserShape
    <2>2. LoginFree(l) /\ FreshKey(k) /\ Add(a, acc)
          /\ UNCHANGED <<invite, escrow, selfReg, bootstrapped>>
      BY <1>3, <2>0 DEF Register, Stamped, settings
    <2> HIDE DEF new
    <2>3. Enrollable(acc)
      BY <1>0, <2>1, <2>2 DEF Enrollable, Account, EscrowActive
    <2>4. invite' \in [Invites -> Invite] /\ InviteCounted'
      BY <2>2 DEF IInv, TypeOK, InviteCounted
    <2> HIDE DEF acc
    <2> QED
      BY <2>2, <2>3, <2>4, EnrolKeeps
  <1>4. CASE \E i \in Invites, n \in 0 .. MaxResends : AcceptInvite(a, i, n, l, k)
    <2> PICK i \in Invites, n \in 0 .. MaxResends : AcceptInvite(a, i, n, l, k)
      BY <1>4
    <2> DEFINE acc == NewUser(l, invite[i].role, k)
    <2>0. invite[i] \in Invite /\ invite[i].role \in Role
      BY DEF IInv, TypeOK, Invite
    <2>1. /\ acc \in Account /\ acc.dek = k /\ acc.login = l
          /\ acc.copy \in {k, None} /\ (EscrowActive \/ acc.copy = None)
          /\ acc.knows = "own"
      BY ZenonT(40), <2>0, NewUserShape
    <2>2. LoginFree(l) /\ FreshKey(k) /\ Add(a, acc)
          /\ UNCHANGED <<escrow, selfReg, bootstrapped>>
      BY DEF AcceptInvite, settings
    <2> HIDE DEF acc
    <2>3. Enrollable(acc)
      BY <1>0, <2>1, <2>2 DEF Enrollable, EscrowActive
    <2>4. invite' = [invite EXCEPT ![i].status = "accepted", ![i].taken = @ + 1]
          /\ invite[i].status = "pending"
      BY DEF AcceptInvite
    <2>5. invite[i].taken = 0
      BY <2>4 DEF IInv, InviteCounted
    <2>6. invite' \in [Invites -> Invite]
      BY <2>0, <2>4, <2>5 DEF IInv, TypeOK, Invite
    <2>7. InviteCounted'
      BY <2>0, <2>4, <2>5 DEF IInv, TypeOK, Invite, InviteCounted
    <2> QED
      BY <2>2, <2>3, <2>6, <2>7, EnrolKeeps
  <1> QED
    BY <1>1, <1>2, <1>3, <1>4

LEMMA CredentialsStep ==
    ASSUME IInv, NEW a \in Accounts, Credentials(a) PROVE IInv'
  <1> DEFINE old == account[a]
  <1>0. /\ a \in users /\ old \in Account
        /\ old.copy # None => old.copy = old.dek /\ escrow # "none"
        /\ old.knows = "admin" => old.mustChange
        /\ ActiveAdmin(a) <=> old.role = "admin" /\ ~old.disabled
                              /\ ~old.unconfirmed
    BY DEF IInv, TypeOK, CopyIsCurrent, TemporaryIsMarked, ActiveAdmin, Admin,
           Credentials, RequestEmailChange, ConfirmEmailChange, LinkExpires,
           RegisterAgain, ResetPassword, ChangePassword, EscrowOptIn,
           EscrowOptOut, RecoverUser, Change
  <1>1. CASE RequestEmailChange(a)
    <2>1. Changeable(a, [old EXCEPT !.link = TRUE])
      BY <1>0 DEF Changeable, Account
    <2> QED
      BY <1>1, <2>1, ChangeKeeps DEF RequestEmailChange
  <1>2. CASE ConfirmEmailChange(a)
    <2>1. Changeable(a, [old EXCEPT !.link = FALSE, !.unconfirmed = FALSE])
      BY <1>0 DEF Changeable, Account
    <2> QED
      BY <1>2, <2>1, ChangeKeeps DEF ConfirmEmailChange
  <1>3. CASE LinkExpires(a)
    <2>1. Changeable(a, [old EXCEPT !.link = FALSE])
      BY <1>0 DEF Changeable, Account
    <2> QED
      BY <1>3, <2>1, ChangeKeeps DEF LinkExpires
  <1>4. ASSUME NEW k \in Keys, RegisterAgain(a, k) PROVE IInv'
    <2> DEFINE cred == SetCredentials(old, k)
               acc == [[cred EXCEPT !.knows = "own"]
                         EXCEPT !.unconfirmed = TRUE, !.link = TRUE]
    <2>1. /\ cred \in Account /\ cred.dek = k /\ cred.copy \in {k, None}
          /\ (EscrowActive \/ cred.copy = None) /\ cred.login = old.login
      BY <1>0, SetCredentialsShape
    <2>2. FreshKey(k) /\ Change(a, acc) /\ old.unconfirmed
      BY <1>4 DEF RegisterAgain, Stamped
    <2> HIDE DEF cred
    <2>3. Changeable(a, acc)
      BY <1>0, <2>1, <2>2 DEF Changeable, Account, EscrowActive
    <2> HIDE DEF acc
    <2> QED
      BY <2>2, <2>3, ChangeKeeps
  <1>5. ASSUME NEW k \in Keys, ResetPassword(a, k) PROVE IInv'
    <2> DEFINE cred == SetCredentials(old, k)
               acc == [cred EXCEPT !.mustChange = TRUE, !.knows = "admin"]
    <2>1. /\ cred \in Account /\ cred.dek = k /\ cred.copy \in {k, None}
          /\ (EscrowActive \/ cred.copy = None) /\ cred.login = old.login
          /\ cred.role = old.role /\ cred.disabled = old.disabled
          /\ cred.unconfirmed = old.unconfirmed
      BY <1>0, SetCredentialsShape
    <2>2. FreshKey(k) /\ Change(a, acc)
      BY <1>5 DEF ResetPassword
    <2> HIDE DEF cred
    <2>3. Changeable(a, acc)
      BY <1>0, <2>1, <2>2 DEF Changeable, Account, EscrowActive
    <2> HIDE DEF acc
    <2> QED
      BY <2>2, <2>3, ChangeKeeps
  <1>6. CASE ChangePassword(a)
    <2>1. Changeable(a, [old EXCEPT !.mustChange = FALSE, !.knows = "own"])
      BY <1>0 DEF Changeable, Account
    <2> QED
      BY <1>6, <2>1, ChangeKeeps DEF ChangePassword
  <1>7. CASE EscrowOptIn(a)
    <2>1. Changeable(a, [old EXCEPT !.copy = old.dek])
      BY <1>0, <1>7 DEF Changeable, Account, EscrowOptIn, EscrowActive
    <2> QED
      BY <1>7, <2>1, ChangeKeeps DEF EscrowOptIn
  <1>8. CASE EscrowOptOut(a)
    <2>1. Changeable(a, [old EXCEPT !.copy = None])
      BY <1>0 DEF Changeable, Account
    <2> QED
      BY <1>8, <2>1, ChangeKeeps DEF EscrowOptOut
  <1>9. CASE RecoverUser(a)
    <2> DEFINE acc == [old EXCEPT !.dek = old.copy, !.mustChange = TRUE,
                                  !.knows = "admin"]
    <2>1. Changeable(a, acc)
      BY <1>0, <1>9 DEF Changeable, Account, RecoverUser
    <2> QED
      BY <1>9, <2>1, ChangeKeeps DEF RecoverUser
  <1> QED
    BY <1>1, <1>2, <1>3, <1>4, <1>5, <1>6, <1>7, <1>8, <1>9 DEF Credentials

LEMMA AdministerStep ==
    ASSUME IInv, NEW a \in Accounts, Administer(a) PROVE IInv'
  <1> DEFINE old == account[a]
  <1>0. /\ a \in users => old \in Account
        /\ a \in users /\ old.copy # None => old.copy = old.dek /\ escrow # "none"
        /\ a \in users /\ old.knows = "admin" => old.mustChange
        /\ ActiveAdmin(a) => old.role = "admin" /\ ~old.disabled
                              /\ ~old.unconfirmed
    BY DEF IInv, TypeOK, CopyIsCurrent, TemporaryIsMarked, ActiveAdmin, Admin
  <1>1. ASSUME NEW b \in BOOLEAN, SetDisabled(a, b) PROVE IInv'
    <2>1. Changeable(a, [old EXCEPT !.disabled = b])
      BY <1>0, <1>1 DEF Changeable, Account, SetDisabled
    <2> QED
      BY <1>1, <2>1, ChangeKeeps DEF SetDisabled
  <1>2. ASSUME NEW role \in Role, SetRole(a, role) PROVE IInv'
    <2>1. Changeable(a, [old EXCEPT !.role = role])
      BY <1>0, <1>2 DEF Changeable, Account, SetRole
    <2> QED
      BY <1>2, <2>1, ChangeKeeps DEF SetRole
  <1> QED
    BY <1>1, <1>2, DeleteKeeps DEF Administer

(* A step that leaves the accounts and the settings alone. *)
LEMMA InvitationStep ==
    ASSUME IInv, NEW i \in Invites, Invitation(i) PROVE IInv'
  <1>0. invite[i] \in Invite
    BY DEF IInv, TypeOK
  <1>1. PICK inv \in Invite :
            /\ ChangeInvite(i, inv)
            /\ inv.taken = IF inv.status = "accepted" THEN 1 ELSE 0
    <2>1. ASSUME NEW role \in Role, NEW byMail \in BOOLEAN,
                 CreateInvite(i, role, byMail)
          PROVE  \E inv \in Invite :
                    /\ ChangeInvite(i, inv)
                    /\ inv.taken = IF inv.status = "accepted" THEN 1 ELSE 0
      <3> DEFINE inv == [NoInvite EXCEPT !.status = "pending", !.role = role,
                                         !.byMail = byMail]
      <3>0. NoInvite \in Invite /\ NoInvite.taken = 0
        BY BlanksTyped DEF NoInvite
      <3>1. inv \in Invite /\ inv.taken = 0 /\ inv.status = "pending"
        BY <3>0 DEF Invite
      <3>2. ChangeInvite(i, inv)
        BY <2>1 DEF CreateInvite
      <3> HIDE DEF inv
      <3> QED
        BY <3>1, <3>2
    <2>2. CASE RevokeInvite(i)
      BY <1>0, <2>2 DEF RevokeInvite, IInv, InviteCounted, Invite
    <2>3. CASE ExtendInvite(i)
      BY <1>0, <2>3 DEF ExtendInvite, IInv, InviteCounted, Invite
    <2>4. CASE ResendInvite(i)
      BY <1>0, <2>4, ResendsAssumption
      DEF ResendInvite, IInv, InviteCounted, Invite
    <2>5. CASE InviteExpires(i)
      BY <1>0, <2>5 DEF InviteExpires, IInv, InviteCounted, Invite
    <2> QED
      BY <2>1, <2>2, <2>3, <2>4, <2>5 DEF Invitation
  <1>2. /\ invite' = [invite EXCEPT ![i] = inv]
        /\ UNCHANGED <<users, account, escrow, selfReg, bootstrapped>>
    BY <1>1 DEF ChangeInvite, settings
  <1>3. TypeOK'
    BY <1>2 DEF IInv, TypeOK
  <1>4. InviteCounted'
    BY <1>1, <1>2 DEF IInv, TypeOK, InviteCounted
  <1>5. AdminRemains' /\ CopyIsCurrent' /\ TemporaryIsMarked'
        /\ LoginsAndKeysUnique'
    BY <1>2 DEF IInv, AdminRemains, ActiveAdmin, Admin, CopyIsCurrent,
                TemporaryIsMarked, LoginsAndKeysUnique
  <1> QED
    BY <1>3, <1>4, <1>5 DEF IInv

(* Once the recovery pair exists, settings may pause deposits, never drop it. *)
LEMMA SettingsStep == ASSUME IInv, Settings PROVE IInv'
  <1>1. /\ UNCHANGED <<users, account, invite, bootstrapped>>
        /\ escrow' \in {"none", "on", "off"} /\ selfReg' \in BOOLEAN
        /\ escrow # "none" => escrow' # "none"
    BY DEF IInv, TypeOK, Settings, EnableEscrow, ResumeEscrow, DisableEscrow,
           UpdateSettings
  <1> QED
    BY <1>1 DEF IInv, TypeOK, AdminRemains, ActiveAdmin, Admin, CopyIsCurrent,
                TemporaryIsMarked, LoginsAndKeysUnique, InviteCounted

LEMMA StutterStep == ASSUME IInv, UNCHANGED vars PROVE IInv'
  BY DEF vars, settings, IInv, TypeOK, AdminRemains, ActiveAdmin, Admin,
         CopyIsCurrent, TemporaryIsMarked, LoginsAndKeysUnique, InviteCounted

LEMMA StepKeeps == IInv /\ [Next]_vars => IInv'
  BY EnrolStep, CredentialsStep, AdministerStep, InvitationStep, SettingsStep,
     StutterStep
  DEF Next

(* The strengthened invariant holds in every reachable state. *)
THEOREM Invariant == Spec => []IInv
  BY InitHolds, StepKeeps, PTL DEF Spec

-----------------------------------------------------------------------------
(* State.Users and the settings always have their types. *)
THEOREM TypeCorrect == Spec => []TypeOK
  <1>1. IInv => TypeOK
    BY DEF IInv
  <1> QED
    BY <1>1, Invariant, PTL

(* An instance that was set up always has an administrator who can log in,  *)
(* whatever accounts are disabled, demoted, deleted or re-registered.       *)
THEOREM AdminAlwaysRemains == Spec => []AdminRemains
  <1>1. IInv => AdminRemains
    BY DEF IInv
  <1> QED
    BY <1>1, Invariant, PTL

(* A deposited copy always opens what the account has now. *)
THEOREM CopyAlwaysCurrent == Spec => []CopyIsCurrent
  <1>1. IInv => CopyIsCurrent
    BY DEF IInv
  <1> QED
    BY <1>1, Invariant, PTL

(* A password an administrator chose is always marked for replacement. *)
THEOREM TemporaryAlwaysMarked == Spec => []TemporaryIsMarked
  <1>1. IInv => TemporaryIsMarked
    BY DEF IInv
  <1> QED
    BY <1>1, Invariant, PTL

(* No two accounts ever share a login or a data key. *)
THEOREM AlwaysUnique == Spec => []LoginsAndKeysUnique
  <1>1. IInv => LoginsAndKeysUnique
    BY DEF IInv
  <1> QED
    BY <1>1, Invariant, PTL

(* An invitation never makes a second account. *)
THEOREM OneAccountPerInvite == Spec => []InviteMakesOneAccount
  <1>1. IInv => InviteMakesOneAccount
    BY DEF IInv, InviteCounted, InviteMakesOneAccount
  <1> QED
    BY <1>1, Invariant, PTL

-----------------------------------------------------------------------------
(* The steps of one account that keep its data key. *)
LEMMA CoveredStep ==
    ASSUME IInv, [Next]_vars, NEW a \in users,
           account[a].copy # None, ~account[a].unconfirmed, a \in users'
    PROVE  account'[a].dek = account[a].dek
  <1>0. /\ users \subseteq Accounts /\ account \in [Accounts -> Account]
        /\ account[a].copy = account[a].dek /\ escrow # "none"
    BY DEF IInv, TypeOK, CopyIsCurrent
  <1>1. CASE Enrol
    <2>1. PICK b \in Accounts : \E acc : Add(b, acc)
      BY ZenonT(40), <1>1 DEF Enrol, CreateFirstAdmin, CreateUserWithPassword, Register,
                  AcceptInvite
    <2> QED
      BY <1>0, <2>1 DEF Add
  <1>2. ASSUME NEW b \in Accounts, Credentials(b)
        PROVE  account'[a].dek = account[a].dek
    <2>1. CASE b # a
      BY <1>0, <1>2, <2>1
      DEF Credentials, RequestEmailChange, ConfirmEmailChange, LinkExpires,
          RegisterAgain, ResetPassword, ChangePassword, EscrowOptIn,
          EscrowOptOut, RecoverUser, Change
    <2>2. CASE b = a
      <3>1. ASSUME NEW k \in Keys, RegisterAgain(a, k)
            PROVE  account'[a].dek = account[a].dek
        BY <3>1 DEF RegisterAgain
      <3>2. ASSUME NEW k \in Keys, ResetPassword(a, k)
            PROVE  account'[a].dek = account[a].dek
        BY <1>0, <3>2 DEF ResetPassword
      <3>3. CASE RecoverUser(a)
        BY <1>0, <3>3 DEF RecoverUser, Change, Account
      <3>4. CASE RequestEmailChange(a) \/ ConfirmEmailChange(a) \/ LinkExpires(a)
        BY <1>0, <3>4 DEF RequestEmailChange, ConfirmEmailChange, LinkExpires,
                          Change, Account
      <3>5. CASE ChangePassword(a) \/ EscrowOptIn(a) \/ EscrowOptOut(a)
        BY <1>0, <3>5 DEF ChangePassword, EscrowOptIn, EscrowOptOut, Change,
                          Account
      <3> QED
        BY <1>2, <2>2, <3>1, <3>2, <3>3, <3>4, <3>5 DEF Credentials
    <2> QED
      BY <2>1, <2>2
  <1>3. ASSUME NEW b \in Accounts, Administer(b)
        PROVE  account'[a].dek = account[a].dek
    BY <1>0, <1>3 DEF Administer, SetDisabled, SetRole, DeleteUser, Change, Account
  <1>4. ASSUME NEW i \in Invites, Invitation(i)
        PROVE  account' = account
    BY <1>4 DEF Invitation, CreateInvite, RevokeInvite, ExtendInvite,
                ResendInvite, InviteExpires, ChangeInvite
  <1>5. CASE Settings
    BY <1>5 DEF Settings, EnableEscrow, ResumeEscrow, DisableEscrow, UpdateSettings
  <1>6. CASE UNCHANGED vars
    BY <1>6 DEF vars
  <1> QED
    BY <1>1, <1>2, <1>3, <1>4, <1>5, <1>6 DEF Next

(* A confirmed account with a deposited copy keeps its data key through     *)
(* every step: reset is refused, and recovery restores the same key.        *)
THEOREM CoveredAlwaysKeepsKey == Spec => CoveredKeepsKey
  <1>1. IInv /\ [Next]_vars =>
          [\A a \in users : (account[a].copy # None /\ ~account[a].unconfirmed
                             /\ a \in users')
                            => account'[a].dek = account[a].dek]_vars
    BY CoveredStep
  <1> QED
    BY <1>1, Invariant, PTL DEF Spec, CoveredKeepsKey

-----------------------------------------------------------------------------
(* The state file. *)

Writing == {"create", "write", "sync", "rename"}
Written == {"flush", "swap"}

(* What a state file holds when the store can be opened, and has a log that   *)
(* agrees with its changes.                                                 *)
Sound(v) == v \in Value /\ IsFiniteSet(v.done) /\ AuditMatches(v)
Whole(f) == Readable(f) /\ Sound(f.value) /\ f = Sealed(f.key, f.value)

FileInv == Whole(file) /\ \A f \in onDisk : Whole(f)

UpdateInv ==
    /\ process \in {"up", "closed", "down"}
    /\ Sound(mem) /\ Sound(next)
    /\ at \in Steps /\ change \in Changes
    /\ tried \subseteq Changes
    /\ process # "up" => at = "idle"
    /\ (process # "down" /\ at \notin Written) => mem = file.value
    /\ at \in Writing =>
           next = AppendAudit([mem EXCEPT !.done = @ \cup {change}], change)
    /\ at \in {"rename"} \cup Written => tmpSafe = TRUE
    /\ at \in Written => file = Sealed("server", next) /\ change \in next.done

(* A change that was never begun, or has not reached the rename, is in no     *)
(* file.                                                                    *)
Begun == IF at \in Writing THEN tried \ {change} ELSE tried

NewInv ==
    /\ at # "idle" => change \in tried
    /\ file.value.done \subseteq Begun
    /\ \A f \in onDisk : f.value.done \subseteq Begun

(* The inductive invariant.  The properties alone are not inductive: that a   *)
(* rename brings a whole file needs the temporary file to be synced by then,   *)
(* that it commits one change needs that change to be new to every file.      *)
FileIInv == FileInv /\ UpdateInv /\ NewInv

-----------------------------------------------------------------------------
(* The state a change makes of a sound state is sound, and is the one the     *)
(* abstract specification applies.                                          *)

Changed(v, c) == AppendAudit([v EXCEPT !.done = @ \cup {c}], c)

LEMMA NewStateSound == Sound(NewState)
  <1>1. NewState \in Value
    BY EmptySeq DEF NewState, Value
  <1>2. IsFiniteSet(NewState.done) /\ Cardinality(NewState.done) = 0
    BY FS_EmptySet DEF NewState
  <1>3. Len(NewState.audit) = 0 /\ NewState.seq = 0
    BY DEF NewState
  <1> QED
    BY <1>1, <1>2, <1>3, AuditAssumption DEF Sound, AuditMatches

LEMMA WithShape ==
    ASSUME NEW v \in Value, NEW d
    PROVE  [v EXCEPT !.done = d] = [done |-> d, seq |-> v.seq, audit |-> v.audit]
  BY DEF Value

LEMMA NewestShape ==
    ASSUME NEW s \in Seq(Entry)
    PROVE  /\ Newest(s) \in Seq(Entry)
           /\ Len(Newest(s)) = IF Len(s) > MaxAuditEntries
                               THEN MaxAuditEntries ELSE Len(s)
           /\ \A i \in 1 .. Len(Newest(s)) :
                  Newest(s)[i] = s[i + (Len(s) - Len(Newest(s)))]
  <1> DEFINE n == Len(s)
             over == n - MaxAuditEntries
  <1>1. n \in Nat /\ MaxAuditEntries \in Nat \ {0} /\ over \in Int
    BY AuditAssumption, LenProperties
  <1>2. CASE over > 0
    <2> DEFINE t == SubSeq(s, over + 1, n)
    <2>1. Newest(s) = t
      BY <1>2 DEF Newest
    <2>2. over + 1 \in Int /\ n \in Int /\ \A i \in over + 1 .. n : s[i] \in Entry
      BY <1>1, <1>2, ElementOfSeq
    <2>3. /\ t \in Seq(Entry)
          /\ Len(t) = IF over + 1 <= n THEN n - (over + 1) + 1 ELSE 0
          /\ \A i \in 1 .. n - (over + 1) + 1 : t[i] = s[over + 1 + i - 1]
      <3> HIDE DEF over, n
      <3> QED
        BY <2>2, SubSeqProperties
    <2> HIDE DEF t
    <2>4. Len(t) = MaxAuditEntries
      BY <1>1, <1>2, <2>3
    <2>5. \A i \in 1 .. Len(t) : t[i] = s[i + (n - Len(t))]
      BY <1>1, <1>2, <2>3, <2>4
    <2> QED
      BY <1>1, <1>2, <2>1, <2>3, <2>4, <2>5
  <1>3. CASE ~(over > 0)
    BY <1>1, <1>3 DEF Newest
  <1> QED
    BY <1>2, <1>3

LEMMA ChangedShape ==
    ASSUME NEW v \in Value, NEW c \in Changes
    PROVE  /\ Changed(v, c) = Durable!Apply(v, c)
           /\ Changed(v, c).done = v.done \cup {c}
           /\ Changed(v, c).seq = v.seq + 1
           /\ Changed(v, c).audit =
                  Newest(Append(v.audit, [seq |-> v.seq + 1, of |-> c]))
           /\ Changed(v, c) \in Value
  <1> DEFINE new == Newest(Append(v.audit, [seq |-> v.seq + 1, of |-> c]))
             with == [v EXCEPT !.done = @ \cup {c}]
  <1>1. with = [done |-> v.done \cup {c}, seq |-> v.seq, audit |-> v.audit]
    BY WithShape
  <1>2. Changed(v, c) = [with EXCEPT !.seq = with.seq + 1,
            !.audit = Newest(Append(with.audit, [seq |-> with.seq + 1, of |-> c]))]
    BY DEF Changed, AppendAudit
  <1>3. Changed(v, c) = [done |-> v.done \cup {c}, seq |-> v.seq + 1,
                         audit |-> new]
    <2> HIDE DEF with
    <2> QED
      BY <1>1, <1>2
  <1>4. Durable!Apply(v, c) = [done |-> v.done \cup {c}, seq |-> v.seq + 1,
                               audit |-> new]
    BY DEF Durable!Apply, Durable!Newest, Newest
  <1>5. Append(v.audit, [seq |-> v.seq + 1, of |-> c]) \in Seq(Entry)
    BY AppendProperties DEF Value, Entry
  <1>6. new \in Seq(Entry)
    BY <1>5, NewestShape
  <1> HIDE DEF new
  <1>7. Changed(v, c) \in Value
    BY <1>3, <1>6 DEF Value
  <1> QED
    BY <1>3, <1>4, <1>7 DEF new

(* A numbered log without repetitions, cut to its newest entries, is one.     *)
Numbered(s, last, d) ==
    /\ \A i \in 1 .. Len(s) : s[i].seq = last - Len(s) + i /\ s[i].of \in d
    /\ \A i, j \in 1 .. Len(s) : s[i].of = s[j].of => i = j

LEMMA NewestNumbered ==
    ASSUME NEW s \in Seq(Entry), NEW last \in Nat, NEW d, Numbered(s, last, d)
    PROVE  Numbered(Newest(s), last, d)
  <1>1. PICK n \in Nat : n = Len(s)
    BY LenProperties
  <1>2. PICK t : t = Newest(s)
    OBVIOUS
  <1>3. PICK m \in Nat : m = Len(t)
    BY <1>2, NewestShape, LenProperties
  <1>4. m = IF n > MaxAuditEntries THEN MaxAuditEntries ELSE n
    BY <1>1, <1>2, <1>3, NewestShape
  <1>5. \A i \in 1 .. m : t[i] = s[i + (n - m)]
    BY <1>1, <1>2, <1>3, NewestShape
  <1>6. \A i \in 1 .. n : s[i].seq = last - n + i /\ s[i].of \in d
    BY <1>1 DEF Numbered
  <1>7. \A i, j \in 1 .. n : s[i].of = s[j].of => i = j
    BY <1>1 DEF Numbered
  <1>8. \A i \in 1 .. m : i + (n - m) \in 1 .. n
    BY <1>4, AuditAssumption
  <1>9. \A i \in 1 .. m : t[i].seq = last - m + i /\ t[i].of \in d
    <2> TAKE i \in 1 .. m
    <2> PICK k \in 1 .. n : k = i + (n - m)
      BY <1>8
    <2>1. t[i] = s[k] /\ s[k].seq = last - n + k /\ s[k].of \in d
      BY <1>5, <1>6
    <2> QED
      BY <2>1
  <1>10. \A i, j \in 1 .. m : t[i].of = t[j].of => i = j
    <2> TAKE i, j \in 1 .. m
    <2> PICK k \in 1 .. n, l \in 1 .. n : k = i + (n - m) /\ l = j + (n - m)
      BY <1>8
    <2>1. t[i] = s[k] /\ t[j] = s[l] /\ (s[k].of = s[l].of => k = l)
      BY <1>5, <1>7
    <2> QED
      BY <2>1
  <1> QED
    BY <1>2, <1>3, <1>9, <1>10 DEF Numbered

LEMMA AppendNumbered ==
    ASSUME NEW s \in Seq(Entry), NEW last \in Nat, NEW d, NEW c \in Changes,
           Numbered(s, last, d), c \notin d
    PROVE  LET e == [seq |-> last + 1, of |-> c]
           IN  /\ Append(s, e) \in Seq(Entry)
               /\ Len(Append(s, e)) = Len(s) + 1
               /\ Numbered(Append(s, e), last + 1, d \cup {c})
  <1>0. [seq |-> last + 1, of |-> c] \in Entry
    BY DEF Entry
  <1>1. PICK e \in Entry : e = [seq |-> last + 1, of |-> c]
    BY <1>0
  <1>2. PICK n \in Nat : n = Len(s)
    BY LenProperties
  <1>3. PICK t : t = Append(s, e)
    OBVIOUS
  <1>4. t \in Seq(Entry) /\ Len(t) = n + 1
    BY <1>2, <1>3, AppendProperties
  <1>5. (\A i \in 1 .. n : t[i] = s[i]) /\ t[n + 1] = e
    BY <1>2, <1>3, AppendProperties
  <1>6. \A i \in 1 .. n : s[i].seq = last - n + i /\ s[i].of \in d
    BY <1>2 DEF Numbered
  <1>7. \A i, j \in 1 .. n : s[i].of = s[j].of => i = j
    BY <1>2 DEF Numbered
  <1>8. \A i \in 1 .. n + 1 : i \in 1 .. n \/ i = n + 1
    OBVIOUS
  <1>9. \A i \in 1 .. n + 1 :
            t[i].seq = last + 1 - (n + 1) + i /\ t[i].of \in d \cup {c}
    BY <1>1, <1>5, <1>6, <1>8
  <1>10. \A i, j \in 1 .. n + 1 : t[i].of = t[j].of => i = j
    BY SMTT(30), <1>1, <1>5, <1>6, <1>7, <1>8
  <1> QED
    BY <1>1, <1>2, <1>3, <1>4, <1>9, <1>10 DEF Numbered

LEMMA ChangedSound ==
    ASSUME NEW v, Sound(v), NEW c \in Changes, c \notin v.done
    PROVE  Sound(Changed(v, c)) /\ c \in Changed(v, c).done
  <1> DEFINE w == Changed(v, c)
             log == Append(v.audit, [seq |-> v.seq + 1, of |-> c])
  <1>1. /\ v \in Value /\ IsFiniteSet(v.done)
        /\ v.audit \in Seq(Entry) /\ v.seq \in Nat /\ Len(v.audit) \in Nat
    BY LenProperties DEF Sound, Value
  <1>2. /\ v.seq = Cardinality(v.done)
        /\ Len(v.audit) = IF v.seq < MaxAuditEntries THEN v.seq
                          ELSE MaxAuditEntries
        /\ Numbered(v.audit, v.seq, v.done)
    BY DEF Sound, AuditMatches, Numbered
  <1>3. /\ w.done = v.done \cup {c} /\ w.seq = v.seq + 1
        /\ w.audit = Newest(log) /\ w \in Value
    BY <1>1, ChangedShape
  <1>4. IsFiniteSet(w.done) /\ Cardinality(w.done) = Cardinality(v.done) + 1
    BY <1>1, <1>3, FS_AddElement
  <1>5. /\ log \in Seq(Entry) /\ Len(log) = Len(v.audit) + 1
        /\ Numbered(log, v.seq + 1, v.done \cup {c})
    BY <1>1, <1>2, AppendNumbered
  <1> HIDE DEF w, log
  <1>6. Numbered(w.audit, w.seq, w.done)
    BY <1>1, <1>3, <1>5, NewestNumbered
  <1>7. Len(w.audit) = IF Len(v.audit) + 1 > MaxAuditEntries
                       THEN MaxAuditEntries ELSE Len(v.audit) + 1
    BY <1>3, <1>5, NewestShape
  <1>8. /\ w.seq = Cardinality(w.done)
        /\ Len(w.audit) = IF w.seq < MaxAuditEntries THEN w.seq
                          ELSE MaxAuditEntries
    BY <1>1, <1>2, <1>3, <1>4, <1>7, AuditAssumption
  <1>9. AuditMatches(w)
    BY <1>6, <1>8 DEF AuditMatches, Numbered
  <1> QED
    BY <1>3, <1>4, <1>9 DEF Sound, w

-----------------------------------------------------------------------------
LEMMA AbsentWhole == Whole(Absent)
  BY NewStateSound DEF Whole, Absent, Sealed, Readable

LEMMA FileInitHolds == FileInit => FileIInv
  <1> SUFFICES ASSUME FileInit PROVE FileIInv
    OBVIOUS
  <1>1. FileInv
    BY AbsentWhole DEF FileInit, FileInv
  <1>2. UpdateInv
    BY NewStateSound DEF FileInit, UpdateInv, Steps, Writing, Written
  <1>3. NewInv
    BY DEF FileInit, NewInv, Absent, Sealed, NewState, Begun, Writing
  <1> QED
    BY <1>1, <1>2, <1>3 DEF FileIInv

LEMMA BeginStep ==
    ASSUME FileIInv, LateUpdates = FALSE, NEW c \in Changes, Update(c)
    PROVE  FileIInv'
  <1>1. /\ process = "up" /\ at = "idle" /\ c \notin tried
        /\ at' = "create" /\ change' = c /\ next' = Changed(mem, c)
        /\ tried' = tried \cup {c}
        /\ UNCHANGED <<process, mem, file, onDisk>>
    BY DEF Update, Changed, FileIInv, UpdateInv, volume
  <1>2. mem = file.value /\ file.value.done \subseteq tried
    BY <1>1 DEF FileIInv, UpdateInv, NewInv, Begun, Writing, Written
  <1>3. Sound(next')
    BY <1>1, <1>2, ChangedSound DEF FileIInv, UpdateInv
  <1>4. FileInv'
    BY <1>1 DEF FileIInv, FileInv
  <1>5. UpdateInv'
    BY <1>1, <1>2, <1>3
       DEF FileIInv, UpdateInv, Writing, Written, Steps, Changed
  <1>6. NewInv'
    BY <1>1 DEF FileIInv, NewInv, Begun, Writing
  <1> QED
    BY <1>4, <1>5, <1>6 DEF FileIInv

LEMMA WriteStep ==
    ASSUME FileIInv, CreateTemp \/ Write \/ Sync \/ Fail
    PROVE  FileIInv'
  <1>1. UNCHANGED <<process, mem, change, next, file, onDisk, tried>>
    BY DEF CreateTemp, Write, Sync, Fail, Proceed, volume
  <1>2. at \in Writing /\ process # "down"
    BY DEF CreateTemp, Write, Sync, Fail, Proceed, Writing
  <1>3. at' \in Writing \cup {"idle"} /\ (at' = "rename" => tmpSafe' = TRUE)
    BY DEF CreateTemp, Write, Sync, Fail, Proceed, Writing
  <1>4. FileInv'
    BY <1>1 DEF FileIInv, FileInv
  <1>5. UpdateInv'
    BY <1>1, <1>2, <1>3 DEF FileIInv, UpdateInv, Writing, Written, Steps
  <1>6. NewInv'
    BY <1>1, <1>2, <1>3 DEF FileIInv, NewInv, Begun, Writing
  <1> QED
    BY <1>4, <1>5, <1>6 DEF FileIInv

(* The one step at which the state under the file's name changes. *)
LEMMA RenameFacts ==
    ASSUME FileIInv, Rename
    PROVE  /\ at = "rename" /\ at' = "flush" /\ process = "up"
           /\ UNCHANGED <<process, mem, change, next, tmpSafe, tried, acked>>
           /\ file' = Sealed("server", next)
           /\ onDisk' = onDisk \cup {Sealed("server", next)}
           /\ next = Changed(file.value, change)
           /\ change \in Changes /\ change \notin file.value.done
           /\ Sound(file.value) /\ Whole(Sealed("server", next))
  <1>1. /\ at = "rename" /\ at' = "flush" /\ process = "up"
        /\ UNCHANGED <<process, mem, change, next, tmpSafe, tried, acked>>
        /\ tmpSafe = TRUE
    BY DEF Rename, Proceed, FileIInv, UpdateInv
  <1>2. file' = Sealed("server", next)
        /\ onDisk' = onDisk \cup {Sealed("server", next)}
    BY <1>1 DEF Rename, Key
  <1>3. mem = file.value /\ next = Changed(mem, change)
    BY <1>1 DEF FileIInv, UpdateInv, Writing, Written, Changed
  <1>4. change \notin file.value.done
    BY <1>1 DEF FileIInv, NewInv, Begun, Writing
  <1>5. Sound(file.value) /\ Sound(next) /\ change \in Changes
    BY DEF FileIInv, UpdateInv, FileInv, Whole
  <1>6. Whole(Sealed("server", next))
    BY <1>5 DEF Whole, Sealed, Readable
  <1> QED
    BY <1>1, <1>2, <1>3, <1>4, <1>5, <1>6

LEMMA RenameStep == ASSUME FileIInv, Rename PROVE FileIInv'
  <1>1. FileInv'
    BY RenameFacts DEF FileIInv, FileInv
  <1>2. change \in next.done /\ next.done = file.value.done \cup {change}
    BY RenameFacts, ChangedShape DEF Sound
  <1>3. UpdateInv'
    BY <1>2, RenameFacts DEF FileIInv, UpdateInv, Writing, Written, Steps
  <1>4. NewInv'
    <2>1. file'.value = next
      BY RenameFacts DEF Sealed
    <2>2. change \in tried /\ Begun' = tried /\ Begun \subseteq tried
      BY RenameFacts DEF FileIInv, NewInv, Begun, Writing
    <2>3. file.value.done \subseteq tried
      BY <2>2 DEF FileIInv, NewInv
    <2>4. \A f \in onDisk' : f.value.done \subseteq tried
      BY <1>2, <2>2, <2>3, RenameFacts DEF FileIInv, NewInv, Sealed
    <2> QED
      BY <1>2, <2>1, <2>2, <2>3, <2>4, RenameFacts DEF NewInv
  <1> QED
    BY <1>1, <1>3, <1>4 DEF FileIInv

LEMMA FlushStep == ASSUME FileIInv, SyncDir \/ Swap PROVE FileIInv'
  <1>1. /\ at \in Written /\ at' \in {"swap", "idle"} /\ process = "up"
        /\ UNCHANGED <<process, change, next, file, tmpSafe, tried>>
        /\ onDisk' = onDisk \/ onDisk' = {file}
        /\ (at' = "swap" /\ mem' = mem) \/ (at' = "idle" /\ mem' = next)
    BY DEF SyncDir, Swap, Proceed, FileIInv, UpdateInv, Written, volume
  <1>2. FileInv'
    BY <1>1 DEF FileIInv, FileInv
  <1>3. file.value = next
    BY <1>1 DEF FileIInv, UpdateInv, Sealed
  <1>4. UpdateInv'
    BY <1>1, <1>3 DEF FileIInv, UpdateInv, Writing, Written, Steps
  <1>5. NewInv'
    BY <1>1 DEF FileIInv, NewInv, Begun, Writing, Written
  <1> QED
    BY <1>2, <1>4, <1>5 DEF FileIInv

LEMMA ProcessStep ==
    ASSUME FileIInv, Open \/ Close \/ Die \/ PowerLoss
    PROVE  FileIInv'
  <1>1. at' = "idle" /\ UNCHANGED <<change, next, tmpSafe, tried>>
    BY DEF Open, Close, Die, PowerLoss, FileIInv, UpdateInv, volume
  <1>2. /\ file' = file \/ file' \in onDisk
        /\ \A f \in onDisk' : f \in onDisk
    BY DEF Open, Close, Die, PowerLoss, volume
  <1>3. FileInv'
    BY <1>2 DEF FileIInv, FileInv
  <1>4. /\ process' \in {"up", "closed", "down"}
        /\ mem' = mem \/ mem' = file.value
        /\ process' # "down" => mem' = file'.value
    <2>1. CASE Open
      BY <2>1 DEF Open, volume
    <2>2. CASE Close
      BY <2>2 DEF Close, volume, FileIInv, UpdateInv, Written
    <2>3. CASE Die \/ PowerLoss
      BY <2>3 DEF Die, PowerLoss
    <2> QED
      BY <2>1, <2>2, <2>3
  <1>5. Sound(mem')
    BY <1>4 DEF FileIInv, UpdateInv, FileInv, Whole
  <1>6. UpdateInv'
    BY <1>1, <1>4, <1>5 DEF FileIInv, UpdateInv, Writing, Written, Steps
  <1>7. NewInv'
    BY <1>1, <1>2 DEF FileIInv, NewInv, Begun, Writing
  <1> QED
    BY <1>3, <1>6, <1>7 DEF FileIInv

LEMMA FileStutters == ASSUME FileIInv, UNCHANGED fileVars PROVE FileIInv'
  BY DEF fileVars, FileIInv, FileInv, UpdateInv, NewInv, Begun

LEMMA FileStepKeeps ==
    ASSUME LateUpdates = FALSE, FileIInv, [FileNext]_fileVars
    PROVE  FileIInv'
  BY BeginStep, WriteStep, RenameStep, FlushStep, ProcessStep, FileStutters
     DEF FileNext

(* The invariant above holds in every reachable state. *)
THEOREM FileInvariant == ASSUME LateUpdates = FALSE PROVE FileSpec => []FileIInv
  <1>1. FileIInv /\ [FileNext]_fileVars => FileIInv'
    BY FileStepKeeps
  <1> QED
    BY <1>1, FileInitHolds, PTL DEF FileSpec

-----------------------------------------------------------------------------
(* The store keeps its types: the invariant above has most of them, a step only *)
(* ever acknowledges the change under way.                                    *)
THEOREM FileTypeCorrect == ASSUME LateUpdates = FALSE PROVE FileSpec => []FileTypeOK
  <1> DEFINE Rest == tmpSafe \in BOOLEAN /\ acked \subseteq Changes
  <1>1. FileInit => Rest
    BY DEF FileInit
  <1>2. FileIInv /\ Rest /\ [FileNext]_fileVars => Rest'
    <2> SUFFICES ASSUME FileIInv, Rest, [FileNext]_fileVars PROVE Rest'
      OBVIOUS
    <2>1. change \in Changes
      BY DEF FileIInv, UpdateInv
    <2>2. CASE Swap
      BY <2>1, <2>2 DEF Swap
    <2>3. CASE UNCHANGED fileVars
      BY <2>3 DEF fileVars
    <2>4. CASE Open \/ Close \/ Die \/ PowerLoss \/ \E c \in Changes : Update(c)
      BY <2>4 DEF Open, Close, Die, PowerLoss, Update
    <2>5. CASE CreateTemp \/ Write \/ Sync \/ Rename \/ SyncDir \/ Fail
      BY <2>5 DEF CreateTemp, Write, Sync, Rename, SyncDir, Fail
    <2> QED
      BY <2>2, <2>3, <2>4, <2>5 DEF FileNext
  <1>3. FileIInv /\ Rest => FileTypeOK
    BY DEF FileIInv, FileInv, UpdateInv, Whole, Sound, Sealed, Readable, Content, FileTypeOK
  <1> QED
    BY <1>1, <1>2, <1>3, FileInvariant, PTL DEF FileSpec

(* Whatever fails or crashes, the state file is one the store can open, now    *)
(* and after a power loss (writeAtomic).                                    *)
THEOREM FileAlwaysReadable ==
    ASSUME LateUpdates = FALSE PROVE FileSpec => []AlwaysReadable
  <1>1. FileIInv => AlwaysReadable
    BY DEF FileIInv, FileInv, Whole, AlwaysReadable
  <1> QED
    BY <1>1, FileInvariant, PTL

(* A running store has in memory what its file has (Store.update).            *)
THEOREM MemoryIsAlwaysFile ==
    ASSUME LateUpdates = FALSE PROVE FileSpec => []MemoryIsFile
  <1>1. FileIInv => MemoryIsFile
    BY DEF FileIInv, UpdateInv, MemoryIsFile, Written
  <1> QED
    BY <1>1, FileInvariant, PTL

(* The audit log agrees with the changes, in memory and in the file, for any   *)
(* length of the log (appendAudit).                                         *)
THEOREM AuditAlwaysInStep ==
    ASSUME LateUpdates = FALSE PROVE FileSpec => []AuditInStep
  <1>1. FileIInv => AuditInStep
    BY DEF FileIInv, FileInv, UpdateInv, Whole, Sound, AuditInStep
  <1> QED
    BY <1>1, FileInvariant, PTL

-----------------------------------------------------------------------------
(* The refinement: a rename commits, a flushed directory flushes, a return     *)
(* acknowledges, and everything else is invisible to the abstract state.      *)

LEMMA CommitStep == ASSUME FileIInv, Rename PROVE Durable!Commit(change)
  <1>1. file'.value = Durable!Apply(file.value, change)
    <2>1. file'.value = next
      BY RenameFacts DEF Sealed
    <2>2. next = Changed(file.value, change)
          /\ file.value \in Value /\ change \in Changes
      BY RenameFacts DEF Sound
    <2> QED
      BY <2>1, <2>2, ChangedShape
  <1>2. {f.value : f \in onDisk'} = {f.value : f \in onDisk} \cup {file'.value}
    BY RenameFacts DEF Sealed
  <1> QED
    BY <1>1, <1>2, RenameFacts DEF Durable!Commit

LEMMA AbstractStep ==
    ASSUME LateUpdates = FALSE, FileIInv, [FileNext]_fileVars
    PROVE  [Durable!Next]_(Durable!durable)
  <1>1. CASE UNCHANGED <<file, onDisk, acked>>
    BY <1>1 DEF Durable!durable
  <1>2. CASE Rename
    BY <1>2, CommitStep, RenameFacts DEF Durable!Next, Durable!Commit
  <1>3. CASE SyncDir
    <2>1. UNCHANGED <<file, acked>> /\ (onDisk' = onDisk \/ onDisk' = {file})
      BY <1>3 DEF SyncDir, Proceed, FileIInv, UpdateInv, Written
    <2>2. CASE onDisk' = onDisk
      BY <2>1, <2>2, <1>1
    <2>3. CASE onDisk' = {file}
      BY <2>1, <2>3 DEF Durable!Next, Durable!Flush
    <2> QED
      BY <2>1, <2>2, <2>3
  <1>4. CASE Swap
    <2>1. /\ UNCHANGED <<file, onDisk>> /\ acked' = acked \cup {change}
          /\ change \in file.value.done /\ change \in Changes
      BY <1>4 DEF Swap, Proceed, volume, FileIInv, UpdateInv, Written, Sealed
    <2> QED
      BY <2>1 DEF Durable!Next, Durable!Acknowledge
  <1>5. CASE PowerLoss
    <2>1. PICK f \in onDisk : file' = f /\ onDisk' = {f} /\ acked' = acked
      BY <1>5 DEF PowerLoss
    <2>2. {g.value : g \in onDisk'} = {file'.value}
      BY <2>1
    <2>3. file'.value \in {g.value : g \in onDisk}
      BY <2>1
    <2> QED
      BY <2>1, <2>2, <2>3 DEF Durable!Next, Durable!PowerLoss
  <1> QED
    BY <1>1, <1>2, <1>3, <1>4, <1>5
       DEF FileNext, Open, Close, Die, Update, CreateTemp, Write, Sync, Fail, fileVars,
           volume

(* StateFile implements DurableState: whatever fails, changes are applied one  *)
(* at a time, each with its record, and acknowledged once they are in the      *)
(* file; a power loss only takes the file back to a value it held after the    *)
(* last flush.                                                              *)
THEOREM Implements == ASSUME LateUpdates = FALSE PROVE FileSpec => KeepsPromise
  <1>1. FileInit => Durable!Init
    <2> SUFFICES ASSUME FileInit PROVE Durable!Init
      OBVIOUS
    <2>1. Absent.value = Durable!NewState
      BY DEF Absent, Sealed, NewState, Durable!NewState
    <2>2. file = Absent /\ onDisk = {Absent} /\ acked = {}
      BY DEF FileInit
    <2>3. {f.value : f \in onDisk} = {Absent.value}
      BY <2>2
    <2> QED
      BY <2>1, <2>2, <2>3 DEF Durable!Init
  <1>2. FileIInv /\ [FileNext]_fileVars => [Durable!Next]_(Durable!durable)
    BY AbstractStep
  <1> QED
    BY <1>1, <1>2, FileInvariant, PTL DEF FileSpec, KeepsPromise, Durable!Spec

-----------------------------------------------------------------------------
(* The mail queue. *)
Issued(m) == m[2] <= token[m[1]]
Traces ==
    /\ \A m \in owed \cup Range(jobs) : Issued(m)
    /\ \A m \in Messages : sender[m] # Unsent => Issued(m)
SentIsSent ==
    \A m \in Messages : sender[m].outcome = "sent" => sender[m].sent
OneBusy == busy = {} \/ \E m \in Messages : busy = {m}
RetryIsLeft ==
    \A m \in Messages : sender[m].at = "sleep" => sender[m].attempt < MaxRetries

MailInv ==
    OnePlace /\ SentWasSent /\ Traces /\ SentIsSent /\ OneBusy /\ RetryIsLeft

-----------------------------------------------------------------------------
(* The channel: what Append and Tail leave in it. *)
LEMMA Appended ==
    ASSUME NEW S, NEW s \in Seq(S), NEW m \in S, IsInjective(s), m \notin Range(s)
    PROVE  /\ Append(s, m) \in Seq(S)
           /\ Len(Append(s, m)) = Len(s) + 1
           /\ Range(Append(s, m)) = Range(s) \cup {m}
           /\ IsInjective(Append(s, m))
  <1> DEFINE t == Append(s, m)
  <1>1. /\ t \in Seq(S) /\ Len(t) = Len(s) + 1
        /\ \A i \in 1 .. Len(s) : t[i] = s[i]
        /\ t[Len(s) + 1] = m
    BY AppendProperties
  <1>2. DOMAIN s = 1 .. Len(s) /\ DOMAIN t = 1 .. Len(s) + 1 /\ Len(s) \in Nat
    BY <1>1
  <1> HIDE DEF t
  <1>3. Range(t) = Range(s) \cup {m}
    <2>1. ASSUME NEW i \in DOMAIN t PROVE t[i] \in Range(s) \cup {m}
      BY <1>1, <1>2, i \in 1 .. Len(s) \/ i = Len(s) + 1 DEF Range
    <2>2. ASSUME NEW i \in DOMAIN s PROVE s[i] \in Range(t)
      BY <1>1, <1>2, i \in DOMAIN t DEF Range
    <2>3. m \in Range(t)
      BY <1>1, <1>2, Len(s) + 1 \in DOMAIN t DEF Range
    <2> QED
      BY <2>1, <2>2, <2>3 DEF Range
  <1>4. IsInjective(t)
    <2> SUFFICES ASSUME NEW i \in DOMAIN t, NEW j \in DOMAIN t, t[i] = t[j]
                 PROVE  i = j
      BY DEF IsInjective
    <2>1. \A k \in 1 .. Len(s) : s[k] \in Range(s)
      BY <1>2 DEF Range
    <2>2. \A k, l \in 1 .. Len(s) : s[k] = s[l] => k = l
      BY <1>2 DEF IsInjective
    <2> QED
      BY <1>1, <1>2, <2>1, <2>2
  <1> QED
    BY <1>1, <1>3, <1>4 DEF t

LEMMA Taken ==
    ASSUME NEW S, NEW s \in Seq(S), s # <<>>, IsInjective(s)
    PROVE  /\ Head(s) \in S /\ Head(s) \in Range(s)
           /\ Tail(s) \in Seq(S) /\ Len(Tail(s)) = Len(s) - 1
           /\ Range(Tail(s)) = Range(s) \ {Head(s)}
           /\ IsInjective(Tail(s))
  <1> DEFINE t == Tail(s)
  <1>1. /\ Head(s) \in S /\ t \in Seq(S) /\ Len(t) = Len(s) - 1
        /\ \A i \in 1 .. Len(t) : t[i] = s[i + 1]
    BY HeadTailProperties
  <1>2. /\ Len(s) \in Nat \ {0} /\ Head(s) = s[1]
        /\ DOMAIN s = 1 .. Len(s) /\ DOMAIN t = 1 .. Len(s) - 1
    BY <1>1, EmptySeq
  <1>3. \A k, l \in 1 .. Len(s) : s[k] = s[l] => k = l
    BY <1>2 DEF IsInjective
  <1> HIDE DEF t
  <1>4. Range(t) = Range(s) \ {Head(s)}
    <2>1. ASSUME NEW i \in DOMAIN t PROVE t[i] \in Range(s) \ {Head(s)}
      <3>1. i + 1 \in DOMAIN s /\ i + 1 # 1 /\ 1 \in DOMAIN s
        BY <1>2
      <3> QED
        BY <1>1, <1>2, <1>3, <3>1 DEF Range
    <2>2. ASSUME NEW i \in DOMAIN s, s[i] # Head(s) PROVE s[i] \in Range(t)
      <3>1. i - 1 \in DOMAIN t
        BY <1>2, <2>2
      <3>2. t[i - 1] = s[i]
        BY <1>1, <1>2, <3>1
      <3> QED
        BY <3>1, <3>2 DEF Range
    <2> QED
      BY <2>1, <2>2 DEF Range
  <1>5. IsInjective(t)
    BY <1>1, <1>2, <1>3 DEF IsInjective
  <1>6. Head(s) \in Range(s)
    BY <1>2 DEF Range
  <1> QED
    BY <1>1, <1>4, <1>5, <1>6 DEF t

-----------------------------------------------------------------------------
(* A message that is with nobody goes to a sender. *)
LEMMA Delivered ==
    ASSUME MailTypeOK, NEW m \in Messages, Deliver(m), sender[m].at = "none"
    PROVE  /\ sender' \in [Messages -> Sender]
           /\ \A n \in Messages : n # m => sender'[n] = sender[n]
           /\ sender'[m].at = "config"
           /\ sender'[m].sent = sender[m].sent
           /\ sender'[m].outcome = sender[m].outcome
  BY DEF MailTypeOK, Deliver, Sender

(* A sender goes on, and says it sent what it sent. *)
LEMMA Advanced ==
    ASSUME MailInv, NEW m \in Messages, NEW from, from # "none",
           NEW new \in Sender, Advance(m, from, new),
           new.outcome = "sent" => new.sent,
           sender[m].sent => new.sent,
           new.at \in {"config", "send", "sleep"} => ~new.sent,
           new.at = "sleep" => new.attempt < MaxRetries
    PROVE  /\ sender' \in [Messages -> Sender]
           /\ IsInjective(jobs)' /\ Apart'
           /\ Traces' /\ SentIsSent' /\ RetryIsLeft'
           /\ \A n \in Messages : sender[n].sent => sender'[n].sent
  <1> USE DEF Advance, MailInv
  <1>1. sender' = [sender EXCEPT ![m] = new] /\ sender' \in [Messages -> Sender]
    BY DEF OnePlace, MailTypeOK
  <1>2. jobs' = jobs /\ owed' = owed /\ token' = token
    OBVIOUS
  <1>3. m \notin owed \cup Range(jobs)
    BY DEF OnePlace, Apart
  <1>4. IsInjective(jobs)' /\ Apart'
    BY <1>1, <1>2, <1>3 DEF OnePlace, Apart, MailTypeOK
  <1>5. sender[m] # Unsent
    BY DEF Unsent
  <1>6. Traces'
    BY <1>1, <1>2, <1>5 DEF Traces, Issued, OnePlace, MailTypeOK
  <1>7. /\ SentIsSent' /\ RetryIsLeft'
        /\ \A n \in Messages : sender[n].sent => sender'[n].sent
    BY <1>1 DEF SentIsSent, RetryIsLeft, OnePlace, MailTypeOK
  <1> QED
    BY <1>1, <1>4, <1>6, <1>7

(* The worker has one message at most. *)
LEMMA AtMostOne ==
    ASSUME NEW B, B = {} \/ \E m \in Messages : B = {m}
    PROVE  Cardinality(B) <= 1 /\ B \in SUBSET Messages
  <1>1. CASE B = {}
    BY <1>1, FS_EmptySet
  <1>2. ASSUME NEW m \in Messages, B = {m}
        PROVE  Cardinality(B) <= 1 /\ B \in SUBSET Messages
    <2>1. Cardinality({m}) = 1
      BY FS_Singleton
    <2> QED
      BY <1>2, <2>1
  <1> QED
    BY <1>1, <1>2

-----------------------------------------------------------------------------
(* One lemma per kind of step. *)

LEMMA IssueStep == ASSUME MailInv, NEW i \in Invitations, Issue(i) PROVE MailInv'
  <1> USE BoundsAssumption DEF MailInv, OnePlace
  <1>0. PICK m \in Messages : m = <<i, token[i] + 1>>
    <2>1. <<i, token[i] + 1>> \in Messages
      BY DEF Issue, MailTypeOK, Messages
    <2> QED
      BY <2>1
  <1>1. ~Issued(m)
    BY <1>0 DEF MailTypeOK, Issued
  <1>2. m \notin owed \cup Range(jobs) /\ sender[m] = Unsent
    BY <1>1 DEF Traces
  <1>3. /\ owed' = owed \cup {m} /\ jobs' = jobs /\ sender' = sender
        /\ busy' = busy
    BY <1>0 DEF Issue
  <1>4. MailTypeOK'
    BY <1>1, <1>3 DEF Issue, MailTypeOK, Status
  <1>5. Apart'
    BY <1>2, <1>3 DEF Apart, Unsent
  <1>6. \A n \in Messages : Issued(n) => Issued(n)'
    BY DEF Issue, MailTypeOK, Messages, Issued
  <1>7. Issued(m)'
    BY <1>0 DEF Issue, MailTypeOK, Issued
  <1>8. Range(jobs) \subseteq Messages /\ owed \subseteq Messages
    BY DEF MailTypeOK, Range
  <1>9. Traces'
    BY <1>3, <1>6, <1>7, <1>8 DEF Traces
  <1>10. SentWasSent'
    <2> SUFFICES ASSUME NEW j \in Invitations, status'[j] = "sent"
                 PROVE  \E n \in 1 .. token'[j] : sender'[<<j, n>>].sent
      BY DEF SentWasSent
    <2>1. status[j] = "sent" /\ j # i
      BY DEF Issue, MailTypeOK
    <2> QED
      BY <2>1, <1>3 DEF Issue, MailTypeOK, SentWasSent
  <1> QED
    BY <1>3, <1>4, <1>5, <1>9, <1>10 DEF SentIsSent, OneBusy, RetryIsLeft

LEMMA QueueStep == ASSUME MailInv, NEW m \in Messages, QueueInvite(m) PROVE MailInv'
  <1> USE DEF MailInv, OnePlace
  <1>1. /\ m \in owed /\ owed' = owed \ {m}
        /\ UNCHANGED <<smtp, token, status, busy, worker, closed, ctx>>
    BY DEF QueueInvite
  <1>2. /\ m \notin Range(jobs) /\ sender[m].at = "none" /\ ~sender[m].sent
        /\ Issued(m)
    BY <1>1 DEF Apart, Traces
  <1>3. CASE UNCHANGED <<jobs, sender>>
    BY <1>1, <1>3 DEF MailTypeOK, Apart, Traces, Issued, SentWasSent, SentIsSent,
                      OneBusy, RetryIsLeft
  <1>4. CASE jobs' = Append(jobs, m) /\ Len(jobs) < Capacity /\ sender' = sender
    <2>1. /\ jobs' \in Seq(Messages) /\ Len(jobs') = Len(jobs) + 1
          /\ Range(jobs') = Range(jobs) \cup {m} /\ IsInjective(jobs')
      BY <1>2, <1>4, Appended DEF MailTypeOK
    <2>2. MailTypeOK'
      BY <1>1, <1>4, <2>1, BoundsAssumption DEF MailTypeOK
    <2>3. Apart'
      BY <1>1, <1>2, <1>4, <2>1 DEF Apart
    <2>4. Traces'
      BY <1>1, <1>2, <1>4, <2>1 DEF Traces, Issued
    <2> QED
      BY <1>1, <1>4, <2>1, <2>2, <2>3, <2>4 DEF SentWasSent, SentIsSent, OneBusy,
                                     RetryIsLeft
  <1>5. CASE Deliver(m) /\ jobs' = jobs
    <2>1. /\ sender' \in [Messages -> Sender]
          /\ \A n \in Messages : n # m => sender'[n] = sender[n]
          /\ sender'[m].at = "config"
          /\ sender'[m].sent = sender[m].sent
          /\ sender'[m].outcome = sender[m].outcome
      BY <1>2, <1>5, Delivered
    <2>2. MailTypeOK'
      BY <1>1, <1>5, <2>1 DEF MailTypeOK
    <2>3. Apart'
      BY <1>1, <1>2, <1>5, <2>1 DEF Apart
    <2>4. Traces'
      BY <1>1, <1>2, <1>5, <2>1 DEF Traces, Issued
    <2>5. SentIsSent' /\ RetryIsLeft'
      BY <2>1 DEF SentIsSent, RetryIsLeft
    <2>6. SentWasSent'
      <3>1. \A n \in Messages : sender'[n].sent = sender[n].sent
        BY <2>1
      <3>2. \A i \in Invitations : \A n \in 1 .. token[i] : <<i, n>> \in Messages
        BY BoundsAssumption DEF MailTypeOK, Messages
      <3> QED
        BY <1>1, <3>1, <3>2 DEF SentWasSent
    <2> QED
      BY <1>1, <1>5, <2>2, <2>3, <2>4, <2>5, <2>6 DEF OneBusy
  <1> QED
    BY <1>3, <1>4, <1>5 DEF QueueInvite, Enqueue

LEMMA TakeStep == ASSUME MailInv, Take PROVE MailInv'
  <1> USE DEF MailInv, OnePlace
  <1>0. PICK m : m = Head(jobs)
    OBVIOUS
  <1>1. /\ jobs' = Tail(jobs) /\ busy' = {m} /\ Deliver(m)
        /\ UNCHANGED <<smtp, token, status, owed, worker, closed, ctx>>
    BY <1>0 DEF Take
  <1>2. /\ m \in Messages /\ m \in Range(jobs)
        /\ jobs' \in Seq(Messages) /\ Len(jobs') = Len(jobs) - 1
        /\ Range(jobs') = Range(jobs) \ {m} /\ IsInjective(jobs')
    BY <1>0, <1>1, Taken DEF Take, MailTypeOK
  <1>3. sender[m].at = "none" /\ ~sender[m].sent /\ m \notin owed /\ Issued(m)
    BY <1>2 DEF Apart, Traces
  <1>4. /\ sender' \in [Messages -> Sender]
        /\ \A n \in Messages : n # m => sender'[n] = sender[n]
        /\ sender'[m].at = "config"
        /\ sender'[m].sent = sender[m].sent
        /\ sender'[m].outcome = sender[m].outcome
    BY <1>1, <1>2, <1>3, Delivered
  <1>5. MailTypeOK'
    BY <1>1, <1>2, <1>4, BoundsAssumption DEF MailTypeOK
  <1>6. Apart'
    BY <1>1, <1>2, <1>3, <1>4 DEF Apart
  <1>7. Traces'
    BY <1>1, <1>2, <1>3, <1>4 DEF Traces, Issued
  <1>8. SentIsSent' /\ RetryIsLeft'
    BY <1>2, <1>4 DEF SentIsSent, RetryIsLeft
  <1>9. SentWasSent'
    <2>1. \A n \in Messages : sender'[n].sent = sender[n].sent
      BY <1>4
    <2>2. \A i \in Invitations : \A n \in 1 .. token[i] : <<i, n>> \in Messages
      BY BoundsAssumption DEF MailTypeOK, Messages
    <2> QED
      BY <1>1, <2>1, <2>2 DEF SentWasSent
  <1>10. OneBusy'
    BY <1>1, <1>2 DEF OneBusy
  <1>11. Cardinality(busy') <= 1
    <2>1. Cardinality({m}) = 1
      BY FS_Singleton
    <2> QED
      BY <1>1, <2>1
  <1> QED
    BY <1>2, <1>5, <1>6, <1>7, <1>8, <1>9, <1>10, <1>11

LEMMA SendingStep ==
    ASSUME MailInv, NEW m \in Messages, Sending(m) PROVE MailInv'
  <1> USE DEF MailInv, OnePlace
  <1>1. /\ sender[m] \in Sender
        /\ sender[m].outcome = "sent" => sender[m].sent
        /\ sender[m].at = "sleep" => sender[m].attempt < MaxRetries
        /\ sender[m].at \in {"config", "send", "sleep"} => ~sender[m].sent
    BY DEF MailTypeOK, SentIsSent, RetryIsLeft, Apart
  <1> DEFINE Good(new) ==
        /\ new \in Sender
        /\ new.outcome = "sent" => new.sent
        /\ sender[m].sent => new.sent
        /\ new.at \in {"config", "send", "sleep"} => ~new.sent
        /\ new.at = "sleep" => new.attempt < MaxRetries
  (* Every step of deliver is an advance to such a state. *)
  <1>2. PICK from, new : /\ from # "none" /\ Advance(m, from, new)
                         /\ Good(new)
    <2> USE BoundsAssumption, <1>1 DEF Outcome, Sender, Status
    <2>1. CASE LoadConfig(m)
      <3>1. sender[m].at = "config"
        BY <2>1 DEF LoadConfig, Advance
      <3>2. /\ Good([sender[m] EXCEPT !.at = "send"])
            /\ Good(Outcome(m, "failed")) /\ Good(Outcome(m, "not_configured"))
        BY <3>1
      <3> QED
        BY <2>1, <3>2 DEF LoadConfig
    <2>2. CASE SendSucceeds(m)
      <3>1. Good([Outcome(m, "sent") EXCEPT !.sent = TRUE])
        OBVIOUS
      <3> QED
        BY <2>2, <3>1 DEF SendSucceeds
    <2>3. CASE SendFails(m)
      <3>1. sender[m].at = "send"
        BY <2>3 DEF SendFails, Advance
      <3>2. Good(IF sender[m].attempt < MaxRetries
                 THEN [sender[m] EXCEPT !.at = "sleep"] ELSE Outcome(m, "failed"))
        BY <3>1
      <3> QED
        BY <2>3, <3>2 DEF SendFails
    <2>4. CASE Wake(m)
      <3>1. sender[m].at = "sleep" /\ sender[m].attempt + 1 \in 0 .. MaxRetries
        BY <2>4 DEF Wake, Advance
      <3>2. Good([sender[m] EXCEPT !.at = "config", !.attempt = @ + 1])
        BY <3>1
      <3> QED
        BY <2>4, <3>2 DEF Wake
    <2>5. CASE Record(m)
      <3>1. Good([sender[m] EXCEPT !.at = "none"])
        OBVIOUS
      <3> QED
        BY <2>5, <3>1 DEF Record
    <2> QED
      BY <2>1, <2>2, <2>3, <2>4, <2>5 DEF Sending
  <1>3. /\ sender' \in [Messages -> Sender]
        /\ IsInjective(jobs)' /\ Apart'
        /\ Traces' /\ SentIsSent' /\ RetryIsLeft'
        /\ \A n \in Messages : sender[n].sent => sender'[n].sent
    BY <1>2, Advanced
  <1>4. UNCHANGED <<smtp, token, owed, jobs, worker, closed, ctx>>
    BY <1>2 DEF Advance
  <1> HIDE DEF Good
  <1>5. \A i \in Invitations : \A n \in 1 .. token[i] : <<i, n>> \in Messages
    BY BoundsAssumption DEF MailTypeOK, Messages
  <1>6. CASE UNCHANGED <<status, busy>>
    <2>1. SentWasSent'
      BY <1>3, <1>4, <1>5, <1>6 DEF SentWasSent
    <2> QED
      BY <1>3, <1>4, <1>6, <2>1 DEF MailTypeOK, OneBusy
  <1>7. CASE Record(m)
    <2>1. /\ status' = [status EXCEPT ![m[1]] = sender[m].outcome]
          /\ busy' = busy \ {m} /\ sender[m].at = "record"
      BY <1>7 DEF Record, Advance
    <2>2. m[1] \in Invitations /\ m = <<m[1], m[2]>> /\ sender[m].outcome \in Status
      BY <1>1 DEF Messages, Sender
    <2>3. status' \in [Invitations -> Status]
      BY <2>1, <2>2 DEF MailTypeOK
    <2>4. OneBusy'
      BY <2>1 DEF OneBusy
    <2>5. MailTypeOK' /\ Cardinality(busy') <= 1
      BY <1>3, <1>4, <2>3, <2>4, AtMostOne DEF MailTypeOK, OneBusy
    <2>6. SentWasSent'
      <3> SUFFICES ASSUME NEW i \in Invitations, status'[i] = "sent"
                   PROVE  \E n \in 1 .. token[i] : sender'[<<i, n>>].sent
        BY <1>4 DEF SentWasSent
      <3>1. CASE i # m[1]
        BY <1>3, <1>5, <2>1, <3>1 DEF SentWasSent, MailTypeOK
      <3>2. CASE i = m[1]
        <4>1. sender[m].outcome = "sent"
          BY <2>1, <2>2, <3>2 DEF MailTypeOK
        <4>2. sender'[m].sent
          BY <1>1, <1>3, <4>1
        <4>3. sender[m] # Unsent
          BY <2>1 DEF Unsent
        <4>4. m[2] \in 1 .. token[i]
          BY <2>2, <3>2, <4>3, BoundsAssumption DEF Traces, Issued, Messages,
                                                    MailTypeOK
        <4> QED
          BY <2>2, <3>2, <4>2, <4>4
      <3> QED
        BY <3>1, <3>2
    <2> QED
      BY <1>3, <2>4, <2>5, <2>6
  <1> QED
    BY <1>6, <1>7 DEF Sending, LoadConfig, SendSucceeds, SendFails, Wake

-----------------------------------------------------------------------------
LEMMA Start == MailInit => MailInv
  <1> SUFFICES ASSUME MailInit PROVE MailInv
    OBVIOUS
  <1> USE BoundsAssumption DEF MailInit
  <1>1. MailTypeOK
    <2>1. Unsent \in Sender
      BY DEF Unsent, Sender, Status
    <2>2. jobs \in Seq(Messages) /\ Len(jobs) <= Capacity
      BY EmptySeq
    <2>3. token \in [Invitations -> 0 .. MaxTokens]
      OBVIOUS
    <2>4. status \in [Invitations -> Status] /\ sender \in [Messages -> Sender]
      BY <2>1 DEF Status
    <2> QED
      BY <2>2, <2>3, <2>4 DEF MailTypeOK
  <1>2. Range(jobs) = {} /\ IsInjective(jobs)
    BY DEF Range, IsInjective
  <1>3. Cardinality(busy) <= 1
    BY FS_EmptySet
  <1>4. Apart /\ Traces /\ SentIsSent /\ SentWasSent /\ RetryIsLeft /\ OneBusy
    BY <1>2 DEF Apart, Traces, SentIsSent, SentWasSent, RetryIsLeft, OneBusy,
                Unsent
  <1> QED
    BY <1>1, <1>2, <1>3, <1>4 DEF MailInv, OnePlace

LEMMA Inductive == MailInv /\ [MailNext]_mailVars => MailInv'
  <1> SUFFICES ASSUME MailInv, [MailNext]_mailVars PROVE MailInv'
    OBVIOUS
  <1>1. CASE Configure \/ WorkerReturns \/ Cancel \/ CloseQueue \/ UNCHANGED mailVars
    <2>1. /\ UNCHANGED <<token, status, owed, jobs, sender, busy>>
          /\ smtp' \in BOOLEAN /\ worker' \in BOOLEAN /\ closed' \in BOOLEAN
          /\ ctx' \in {"live", "canceled"}
      BY <1>1 DEF Configure, WorkerReturns, Cancel, CloseQueue, mailVars, MailInv, OnePlace,
                  MailTypeOK
    <2> QED
      BY <2>1 DEF MailInv, OnePlace, MailTypeOK, Apart, SentWasSent, Traces, Issued,
                  SentIsSent, OneBusy, RetryIsLeft
  <1> QED
    BY <1>1, IssueStep, QueueStep, TakeStep, SendingStep DEF MailNext

LEMMA Invariance == MailSpec => []MailInv
  BY Start, Inductive, PTL DEF MailSpec

(* A message is with its handler, in the channel or with one sender, never two *)
(* of them, and one the relay took is not sent again.                        *)
THEOREM NeverDoubled == MailSpec => []OnePlace
  <1>1. MailInv => OnePlace
    BY DEF MailInv
  <1> QED
    BY <1>1, Invariance, PTL

(* An invitation shown as sent had a message delivered, however resends and    *)
(* slow senders overlap.                                                     *)
THEOREM SentIsTrue == MailSpec => []SentWasSent
  <1>1. MailInv => SentWasSent
    BY DEF MailInv
  <1> QED
    BY <1>1, Invariance, PTL
=============================================================================
