---------------------------- MODULE AccountStore ----------------------------
(***************************************************************************)
(* The accounts, invitations and key deposit of internal/store: users.go,   *)
(* register.go, email_change.go, invites.go, escrow.go and settings.go.     *)
(*                                                                         *)
(* Store.update holds the store's lock over the whole change, so every      *)
(* method that changes state is one step here; that a step is all or        *)
(* nothing on the volume, too, is module StateFile.  A method that returns  *)
(* an error changes nothing and is not a step.  Passwords are reduced to    *)
(* who knows the current one, wrapping a key under a password to the key,    *)
(* addresses and notices to nothing, and the blob of secrets is module       *)
(* LoginSecrets.                                                            *)
(***************************************************************************)
EXTENDS Naturals, FiniteSets

CONSTANTS
    Accounts,    \* user identifiers
    Logins,
    Keys,        \* data keys (DEKs)
    Invites,     \* invitation identifiers, each issued once
    MaxResends,  \* bound: token rotations of one invitation
    None

ASSUME NoneAssumption == None \notin Keys \cup Logins
ASSUME ResendsAssumption == MaxResends \in Nat

VARIABLES
    users,         \* the accounts of State.Users
    account,       \* [Accounts -> Account], Blank outside users
    invite,        \* [Invites -> Invite]
    escrow,        \* Settings.Escrow: "none", "on" or "off" (pair kept)
    selfReg,       \* Settings.SelfRegistration
    bootstrapped   \* history: CreateFirstAdmin has succeeded

vars == <<users, account, invite, escrow, selfReg, bootstrapped>>
settings == <<escrow, selfReg, bootstrapped>>

Role == {"admin", "user"}

(* knows: "own" when the password was chosen by its owner, "admin" when an  *)
(* administrator chose it.  link: a confirmation link of the account works. *)
Account ==
    [login : Logins \cup {None}, role : Role, disabled : BOOLEAN,
     unconfirmed : BOOLEAN, link : BOOLEAN, mustChange : BOOLEAN,
     knows : {"own", "admin"}, dek : Keys \cup {None},
     copy : Keys \cup {None}]

Blank ==
    [login |-> None, role |-> "user", disabled |-> FALSE,
     unconfirmed |-> FALSE, link |-> FALSE, mustChange |-> FALSE,
     knows |-> "own", dek |-> None, copy |-> None]

(* token counts ResendInvite; taken counts the accounts made from it. *)
Invite ==
    [status : {"none", "pending", "expired", "revoked", "accepted"},
     byMail : BOOLEAN, role : Role, token : 0 .. MaxResends, taken : Nat]

NoInvite ==
    [status |-> "none", byMail |-> FALSE, role |-> "user", token |-> 0,
     taken |-> 0]

Init ==
    /\ users = {}
    /\ account = [a \in Accounts |-> Blank]
    /\ invite = [i \in Invites |-> NoInvite]
    /\ escrow = "none" /\ selfReg = FALSE /\ bootstrapped = FALSE

-----------------------------------------------------------------------------
Admin(a) == a \in users /\ account[a].role = "admin"

(* An administrator who can still log in, as isLastActiveAdmin counts them. *)
ActiveAdmin(a) ==
    Admin(a) /\ ~account[a].disabled /\ ~account[a].unconfirmed

(* Slip: a disabled administrator counts as one who is left. *)
IsLastAdmin(a) == ActiveAdmin(a) /\ \A b \in users : Admin(b) => b = a

IsLastActiveAdmin(a) ==
    ActiveAdmin(a) /\ \A b \in users : ActiveAdmin(b) => b = a

NeedsBootstrap == \A a \in users : ~Admin(a)

(* Slip: a login waiting for its confirmation counts as free. *)
LoginUnconfirmed(l) ==
    \A a \in users : account[a].login # l \/ account[a].unconfirmed

LoginFree(l) == \A a \in users : account[a].login # l

(* NewDEK: a key nothing on the volume is sealed under. *)
FreshKey(k) ==
    \A a \in users : account[a].dek # k /\ account[a].copy # k

EscrowActive == escrow = "on"

(* Slip: the copy of the old key stays while escrow is paused. *)
SetCredentialsOnly(acc, k) ==
    [acc EXCEPT !.dek = k, !.copy = IF EscrowActive THEN k ELSE @]

(* setCredentials: a new key, deposited when escrow is active. *)
SetCredentials(acc, k) ==
    [acc EXCEPT !.dek = k, !.copy = IF EscrowActive THEN k ELSE None]

NewUser(l, role, k) ==
    SetCredentials([Blank EXCEPT !.login = l, !.role = role], k)

Add(a, acc) ==
    /\ a \notin users
    /\ users' = users \cup {a}
    /\ account' = [account EXCEPT ![a] = acc]

Change(a, acc) ==
    /\ a \in users
    /\ account' = [account EXCEPT ![a] = acc]
    /\ UNCHANGED <<users, invite, settings>>

-----------------------------------------------------------------------------
(* Accounts that come into being. *)

CreateFirstAdmin(a, l, k) ==
    /\ NeedsBootstrap
    /\ LoginFree(l) /\ FreshKey(k)
    /\ Add(a, NewUser(l, "admin", k))
    /\ bootstrapped' = TRUE
    /\ UNCHANGED <<invite, escrow, selfReg>>

(* An administrator's action needs an administrator. *)
CreateUserWithPassword(a, l, role, k) ==
    /\ ~NeedsBootstrap
    /\ LoginFree(l) /\ FreshKey(k)
    /\ Add(a, [NewUser(l, role, k) EXCEPT !.mustChange = TRUE,
                                          !.knows = "admin"])
    /\ UNCHANGED <<invite, settings>>

Stamped(acc) == [acc EXCEPT !.unconfirmed = TRUE, !.link = TRUE]

Register(a, l, k) ==
    /\ selfReg
    /\ LoginFree(l) /\ FreshKey(k)
    /\ Add(a, Stamped(NewUser(l, "user", k)))
    /\ UNCHANGED <<invite, settings>>

(* Register again, with the login and address of an unconfirmed account. *)
RegisterAgain(a, k) ==
    /\ selfReg /\ a \in users
    /\ account[a].unconfirmed
    /\ FreshKey(k)
    /\ Change(a, Stamped([SetCredentials(account[a], k) EXCEPT !.knows = "own"]))

(* AcceptInvite, with the n-th token of invitation i. *)
AcceptInvite(a, i, n, l, k) ==
    /\ invite[i].status = "pending" /\ invite[i].token = n
    /\ LoginFree(l) /\ FreshKey(k)
    /\ Add(a, NewUser(l, invite[i].role, k))
    /\ invite' = [invite EXCEPT ![i].status = "accepted", ![i].taken = @ + 1]
    /\ UNCHANGED settings

-----------------------------------------------------------------------------
(* Links that confirm an address. *)

RequestEmailChange(a) ==
    /\ a \in users
    /\ Change(a, [account[a] EXCEPT !.link = TRUE])

ConfirmEmailChange(a) ==
    /\ a \in users /\ account[a].link
    /\ Change(a, [account[a] EXCEPT !.link = FALSE, !.unconfirmed = FALSE])

LinkExpires(a) ==
    /\ a \in users /\ account[a].link
    /\ Change(a, [account[a] EXCEPT !.link = FALSE])

-----------------------------------------------------------------------------
(* Passwords and keys. *)

(* ChangePassword by someone who knows the current one: the key is rewrapped. *)
ChangePassword(a) ==
    /\ a \in users
    /\ Change(a, [account[a] EXCEPT !.mustChange = FALSE, !.knows = "own"])

(* Slip: the reset is only refused while new deposits are made. *)
ResetWhilePaused(a, k) ==
    /\ ~NeedsBootstrap /\ a \in users
    /\ ~(account[a].copy # None /\ EscrowActive)
    /\ FreshKey(k)
    /\ Change(a, [SetCredentials(account[a], k)
                    EXCEPT !.mustChange = TRUE, !.knows = "admin"])

(* ResetPassword: refused while a deposited copy could recover the account. *)
ResetPassword(a, k) ==
    /\ ~NeedsBootstrap /\ a \in users
    /\ ~(account[a].copy # None /\ escrow # "none")
    /\ FreshKey(k)
    /\ Change(a, [SetCredentials(account[a], k)
                    EXCEPT !.mustChange = TRUE, !.knows = "admin"])

EscrowOptIn(a) ==
    /\ EscrowActive
    /\ a \in users /\ account[a].copy = None
    /\ Change(a, [account[a] EXCEPT !.copy = account[a].dek])

EscrowOptOut(a) ==
    /\ a \in users /\ account[a].copy # None
    /\ Change(a, [account[a] EXCEPT !.copy = None])

(* Slip: the temporary password of a recovery may be kept. *)
RecoverUnmarked(a) ==
    /\ ~NeedsBootstrap /\ escrow # "none"
    /\ a \in users /\ account[a].copy # None
    /\ Change(a, [account[a] EXCEPT !.dek = account[a].copy, !.knows = "admin"])

(* RecoverUser: what is wrapped from now on is what the copy held. *)
RecoverUser(a) ==
    /\ ~NeedsBootstrap /\ escrow # "none"
    /\ a \in users /\ account[a].copy # None
    /\ Change(a, [account[a] EXCEPT !.dek = account[a].copy,
                                    !.mustChange = TRUE, !.knows = "admin"])

-----------------------------------------------------------------------------
(* The administrator's other actions on an account. *)

SetDisabled(a, disabled) ==
    /\ ~NeedsBootstrap
    /\ a \in users /\ account[a].disabled # disabled
    /\ disabled => ~IsLastActiveAdmin(a)
    /\ Change(a, [account[a] EXCEPT !.disabled = disabled])

SetRole(a, role) ==
    /\ ~NeedsBootstrap
    /\ a \in users /\ account[a].role # role
    /\ role # "admin" => ~IsLastActiveAdmin(a)
    /\ Change(a, [account[a] EXCEPT !.role = role])

DeleteUser(a) ==
    /\ ~NeedsBootstrap
    /\ a \in users /\ ~IsLastActiveAdmin(a)
    /\ users' = users \ {a}
    /\ account' = [account EXCEPT ![a] = Blank]
    /\ UNCHANGED <<invite, settings>>

-----------------------------------------------------------------------------
(* Invitations. Status pending is Usable. *)

ChangeInvite(i, inv) ==
    /\ invite' = [invite EXCEPT ![i] = inv]
    /\ UNCHANGED <<users, account, settings>>

CreateInvite(i, role, byMail) ==
    /\ ~NeedsBootstrap
    /\ invite[i].status = "none"
    /\ ChangeInvite(i, [NoInvite EXCEPT !.status = "pending", !.role = role,
                                        !.byMail = byMail])

(* Slip: a status the rest of the code does not know. *)
RevokeUnknown(i) ==
    /\ ~NeedsBootstrap
    /\ invite[i].status = "pending"
    /\ ChangeInvite(i, [invite[i] EXCEPT !.status = "withdrawn"])

RevokeInvite(i) ==
    /\ ~NeedsBootstrap
    /\ invite[i].status = "pending"
    /\ ChangeInvite(i, [invite[i] EXCEPT !.status = "revoked"])

(* Slip: an invitation that was used can be extended, too. *)
ExtendUsed(i) ==
    /\ ~NeedsBootstrap
    /\ invite[i].status \in {"pending", "expired", "accepted"}
    /\ ChangeInvite(i, [invite[i] EXCEPT !.status = "pending"])

ExtendInvite(i) ==
    /\ ~NeedsBootstrap
    /\ invite[i].status \in {"pending", "expired"}
    /\ ChangeInvite(i, [invite[i] EXCEPT !.status = "pending"])

ResendInvite(i) ==
    /\ ~NeedsBootstrap
    /\ invite[i].status = "pending" /\ invite[i].byMail
    /\ invite[i].token < MaxResends
    /\ ChangeInvite(i, [invite[i] EXCEPT !.token = @ + 1])

InviteExpires(i) ==
    /\ invite[i].status = "pending"
    /\ ChangeInvite(i, [invite[i] EXCEPT !.status = "expired"])

-----------------------------------------------------------------------------
(* Settings. *)

EnableEscrow ==
    /\ ~NeedsBootstrap /\ escrow = "none"
    /\ escrow' = "on"
    /\ UNCHANGED <<users, account, invite, selfReg, bootstrapped>>

ResumeEscrow ==
    /\ ~NeedsBootstrap /\ escrow = "off"
    /\ escrow' = "on"
    /\ UNCHANGED <<users, account, invite, selfReg, bootstrapped>>

DisableEscrow ==
    /\ ~NeedsBootstrap /\ escrow = "on"
    /\ escrow' = "off"
    /\ UNCHANGED <<users, account, invite, selfReg, bootstrapped>>

(* UpdateSettings, which cannot reach the recovery key pair. *)
UpdateSettings ==
    /\ ~NeedsBootstrap
    /\ selfReg' = ~selfReg
    /\ UNCHANGED <<users, account, invite, escrow, bootstrapped>>

-----------------------------------------------------------------------------
Enrol ==
    \E a \in Accounts, l \in Logins, k \in Keys :
        \/ CreateFirstAdmin(a, l, k)
        \/ \E role \in Role : CreateUserWithPassword(a, l, role, k)
        \/ Register(a, l, k)
        \/ \E i \in Invites, n \in 0 .. MaxResends : AcceptInvite(a, i, n, l, k)

Credentials(a) ==
    \/ RequestEmailChange(a) \/ ConfirmEmailChange(a) \/ LinkExpires(a)
    \/ \E k \in Keys : RegisterAgain(a, k) \/ ResetPassword(a, k)
    \/ ChangePassword(a)
    \/ EscrowOptIn(a) \/ EscrowOptOut(a) \/ RecoverUser(a)

Administer(a) ==
    \/ \E b \in BOOLEAN : SetDisabled(a, b)
    \/ \E role \in Role : SetRole(a, role)
    \/ DeleteUser(a)

Invitation(i) ==
    \/ \E role \in Role, byMail \in BOOLEAN : CreateInvite(i, role, byMail)
    \/ RevokeInvite(i) \/ ExtendInvite(i) \/ ResendInvite(i)
    \/ InviteExpires(i)

Settings == EnableEscrow \/ ResumeEscrow \/ DisableEscrow \/ UpdateSettings

Next ==
    \/ Enrol
    \/ \E a \in Accounts : Credentials(a) \/ Administer(a)
    \/ \E i \in Invites : Invitation(i)
    \/ Settings

Spec == Init /\ [][Next]_vars

-----------------------------------------------------------------------------
TypeOK ==
    /\ users \in SUBSET Accounts
    /\ account \in [Accounts -> Account]
    /\ invite \in [Invites -> Invite]
    /\ escrow \in {"none", "on", "off"}
    /\ selfReg \in BOOLEAN /\ bootstrapped \in BOOLEAN

(* "Deleting, demoting or disabling them would leave the instance with no   *)
(* way back in": once set up, an administrator who can log in always exists. *)
AdminRemains == bootstrapped => \E a \in users : ActiveAdmin(a)

(* A deposited copy is a copy of the key the account uses now, and exists   *)
(* only where a recovery pair does: a recovery never brings back a key the   *)
(* data is not sealed under.                                                *)
CopyIsCurrent ==
    \A a \in users : account[a].copy # None =>
        account[a].copy = account[a].dek /\ escrow # "none"

(* "A password the administrator knows is not one the user may keep."       *)
TemporaryIsMarked ==
    \A a \in users : account[a].knows = "admin" => account[a].mustChange

(* No two accounts share a login, or a data key.                            *)
LoginsAndKeysUnique ==
    \A a, b \in users :
        a # b => /\ account[a].login # account[b].login
                 /\ account[a].dek # account[b].dek

(* An invitation makes at most one account, over expiry, extension, resend  *)
(* and revocation.                                                          *)
InviteMakesOneAccount == \A i \in Invites : invite[i].taken <= 1

(* A confirmed account covered by escrow never loses its key while it       *)
(* exists: "when the account is covered by escrow [a reset] is refused,     *)
(* because a recovery would keep the data".                                 *)
CoveredKeepsKey ==
    [][\A a \in users : (account[a].copy # None /\ ~account[a].unconfirmed
                         /\ a \in users') => account'[a].dek = account[a].dek]_vars
=============================================================================
