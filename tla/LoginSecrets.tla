---------------------------- MODULE LoginSecrets ----------------------------
(***************************************************************************)
(* One account seen by the handlers that use the store and the sessions one   *)
(* after the other: login (login.go), the forced password change (profile.go), *)
(* the administrator's disable, delete, reset and recover (admin.go,          *)
(* escrow.go), and the requests that rewrite the blob of secrets              *)
(* (web/handler/accounts.go, store/accounts.go) with the key of a session     *)
(* that may end while they use it.                                           *)
(*                                                                         *)
(* A call of the store or of the session manager is one step, except a        *)
(* rewrite of the blob: it holds the store's lock, which does not stop the     *)
(* session manager from zeroing the key between Open and Seal.  What one      *)
(* store change does to the other accounts is module AccountStore.            *)
(***************************************************************************)
EXTENDS FiniteSets

CONSTANTS
    Requests,      \* requests the server handles at the same time
    Ids,           \* session identifiers, each used once
    Keys,          \* data keys, each used once
    Connections,   \* identifiers of saved DAV accounts, each used once
    Zero,          \* the key an overwritten buffer holds
    None

ASSUME NamesAssumption == Zero \notin Keys /\ None \notin Keys \cup {Zero}
                          /\ None \notin Requests \cup Ids \cup Connections

VARIABLES
    user,      \* [there, disabled, mustChange, dek]: the stored account
    covered,   \* a copy of its key is deposited
    secrets,   \* [key, conns]: User.Secrets, key None when there is no blob
    session,   \* [Ids -> Session]
    req,       \* [Requests -> Request]
    lock,      \* the request that rewrites the blob, or None
    spent,     \* data keys that were in use once
    removed    \* connections that DeleteDAVAccount removed

stored == <<user, covered, spent>>
blob == <<secrets, lock, removed>>
vars == <<stored, blob, session, req>>

(* live: registered with the manager.  late: its login had read the account  *)
(* when an administrator changed it.                                        *)
Session == [at : {"fresh", "live", "dead"}, key : Keys \cup {None},
            must : BOOLEAN, late : BOOLEAN]
Fresh == [at |-> "fresh", key |-> None, must |-> FALSE, late |-> FALSE]

(* id, conn and op say what a request is about; key, must and late are what   *)
(* a login read of the account.                                             *)
Request == [at : {"none", "verify", "discover", "store", "seal", "clear", "end"},
            op : {"put", "delete", "touch"},
            id : Ids \cup {None}, conn : Connections \cup {None},
            key : Keys \cup {None}, must : BOOLEAN, late : BOOLEAN]
NoRequest == [at |-> "none", op |-> "touch", id |-> None, conn |-> None,
              key |-> None, must |-> FALSE, late |-> FALSE]

Init ==
    /\ \E k \in Keys :
           /\ user = [there |-> TRUE, disabled |-> FALSE, mustChange |-> FALSE,
                      dek |-> k]
           /\ spent = {k}
    /\ covered \in BOOLEAN
    /\ secrets = [key |-> None, conns |-> {}]
    /\ session = [i \in Ids |-> Fresh]
    /\ req = [r \in Requests |-> NoRequest]
    /\ lock = None /\ removed = {}

Live(i) == session[i].at = "live"
Pending(step) == \E r \in Requests : req[r].at = step

(* The bytes behind Session.DEK of a session that was live once. *)
Buffer(i) == IF Live(i) THEN session[i].key ELSE Zero

Done(r) == req' = [req EXCEPT ![r] = NoRequest]

(* DestroyUser, or the end of one session: the key is zeroed in place. *)
End(ids) ==
    session' = [i \in Ids |-> IF i \in ids /\ Live(i)
                              THEN [session[i] EXCEPT !.at = "dead"]
                              ELSE session[i]]

-----------------------------------------------------------------------------
(* Login. *)

(* Slip: the answer to a right password does not depend on Disabled. *)
AuthenticateAnyone(r) ==
    /\ req[r].at = "none" /\ user.there
    /\ req' = [req EXCEPT ![r] = [NoRequest EXCEPT
                   !.at = "verify", !.key = user.dek, !.must = user.mustChange]]
    /\ UNCHANGED <<stored, blob, session>>

(* Authenticate reads the account, then derives keys for a while. *)
Authenticate(r) ==
    /\ req[r].at = "none"
    /\ user.there /\ ~user.disabled
    /\ req' = [req EXCEPT ![r] = [NoRequest EXCEPT
                   !.at = "verify", !.key = user.dek, !.must = user.mustChange]]
    /\ UNCHANGED <<stored, blob, session>>

(* startSession: Create, from what was read; nothing asks again. *)
StartSession(r, i) ==
    /\ req[r].at = "verify" /\ session[i] = Fresh
    /\ session' = [session EXCEPT ![i] =
           [at |-> "live", key |-> req[r].key, must |-> req[r].must,
            late |-> req[r].late]]
    /\ Done(r)
    /\ UNCHANGED <<stored, blob>>

Logout(i) ==
    /\ Live(i)
    /\ End({i})
    /\ UNCHANGED <<stored, blob, req>>

-----------------------------------------------------------------------------
(* changePasswordSubmit: the store first, then the flag of every session. *)

ChangePassword(r, i) ==
    /\ req[r].at = "none" /\ Live(i) /\ lock = None
    /\ user.there
    /\ user' = [user EXCEPT !.mustChange = FALSE]
    /\ req' = [req EXCEPT ![r].at = "clear"]
    /\ UNCHANGED <<covered, spent, blob, session>>

SetMustChangePassword(r) ==
    /\ req[r].at = "clear"
    /\ session' = [i \in Ids |-> IF Live(i) THEN [session[i] EXCEPT !.must = FALSE]
                                 ELSE session[i]]
    /\ Done(r)
    /\ UNCHANGED <<stored, blob>>

-----------------------------------------------------------------------------
(* The administrator: the store first, then DestroyUser. *)

Administer(r, new) ==
    /\ req[r].at = "none" /\ lock = None
    /\ user.there
    /\ user' = new
    /\ req' = [q \in Requests |->
                  IF q = r THEN [NoRequest EXCEPT !.at = "end"]
                  ELSE [req[q] EXCEPT !.late = req[q].at = "verify"]]
    /\ UNCHANGED <<covered, session, lock, removed>>

DisableUser(r) ==
    /\ ~user.disabled
    /\ Administer(r, [user EXCEPT !.disabled = TRUE])
    /\ UNCHANGED <<secrets, spent>>

DeleteUser(r) ==
    /\ Administer(r, [user EXCEPT !.there = FALSE])
    /\ secrets' = [key |-> None, conns |-> {}]
    /\ UNCHANGED spent

ResetPassword(r, k) ==
    /\ ~covered /\ k \notin spent
    /\ Administer(r, [user EXCEPT !.dek = k, !.mustChange = TRUE])
    /\ secrets' = [key |-> None, conns |-> {}]
    /\ spent' = spent \cup {k}

RecoverUser(r) ==
    /\ covered
    /\ Administer(r, [user EXCEPT !.mustChange = TRUE])
    /\ UNCHANGED <<secrets, spent>>

DestroyUser(r) ==
    /\ req[r].at = "end"
    /\ End(Ids)
    /\ Done(r)
    /\ UNCHANGED <<stored, blob>>

EnableUser ==
    /\ user.there /\ user.disabled /\ lock = None
    /\ user' = [user EXCEPT !.disabled = FALSE]
    /\ UNCHANGED <<covered, spent, blob, session, req>>

-----------------------------------------------------------------------------
(* Requests that rewrite the blob of secrets. RequirePasswordChange lets      *)
(* none of them through on a temporary password.                            *)

Begin(r, i, at, op, c) ==
    /\ req[r].at = "none" /\ Live(i) /\ ~session[i].must
    /\ req' = [req EXCEPT ![r] = [NoRequest EXCEPT
                   !.at = at, !.id = i, !.op = op, !.conn = c]]
    /\ UNCHANGED <<stored, blob, session>>

Known(c) == c \in secrets.conns \cup removed \cup {req[r].conn : r \in Requests}

(* appConnectDAV: discovery with the credentials of the form. *)
Connect(r, i, c) == ~Known(c) /\ Begin(r, i, "discover", "put", c)

(* appUpdateDAV: the saved connection is read first. *)
Edit(r, i, c) ==
    /\ lock = None
    /\ c \in secrets.conns /\ secrets.key = session[i].key
    /\ Begin(r, i, "discover", "put", c)

(* DeleteDAVAccount, or UpdateViews and its like, as soon as they are asked. *)
Delete(r, i, c) == c \in secrets.conns /\ Begin(r, i, "store", "delete", c)
Touch(r, i) == Begin(r, i, "store", "touch", None)

DiscoveryFails(r) ==
    /\ req[r].at = "discover"
    /\ Done(r)
    /\ UNCHANGED <<stored, blob, session>>

(* Discovery went well: sess.DEK() now; a session that ended has none left    *)
(* and the write is refused.                                                *)
TakeKey(r) ==
    /\ req[r].at = "discover"
    /\ IF Live(req[r].id) THEN req' = [req EXCEPT ![r].at = "store"] ELSE Done(r)
    /\ UNCHANGED <<stored, blob, session>>

(* Slip: a blob that does not open passes for an empty one. *)
OpensAnyway(k) == TRUE

(* The first half of the change in Store.update: account.Open, which takes    *)
(* any key when there is no blob yet.                                       *)
Opens(k) == secrets.key \in {None, k}
Found(r) == req[r].op = "delete" => req[r].conn \in secrets.conns

OpenBlob(r) ==
    /\ req[r].at = "store" /\ lock = None
    /\ IF user.there /\ Opens(Buffer(req[r].id)) /\ Found(r)
       THEN lock' = r /\ req' = [req EXCEPT ![r].at = "seal"]
       ELSE lock' = lock /\ Done(r)
    /\ UNCHANGED <<stored, secrets, removed, session>>

(* Slip: every rewrite upserts the connection of the request. *)
RewrittenAlike(r) == secrets.conns \cup {req[r].conn}

(* The second half: Upsert or Remove, and account.Seal. *)
Rewritten(r) ==
    CASE req[r].op = "put" -> secrets.conns \cup {req[r].conn}
      [] req[r].op = "delete" -> secrets.conns \ {req[r].conn}
      [] req[r].op = "touch" -> secrets.conns

SealBlob(r) ==
    /\ req[r].at = "seal"
    /\ secrets' = [key |-> Buffer(req[r].id), conns |-> Rewritten(r)]
    /\ removed' = removed \cup (secrets.conns \ secrets'.conns)
    /\ lock' = None
    /\ Done(r)
    /\ UNCHANGED <<stored, session>>

-----------------------------------------------------------------------------
Next ==
    \/ \E r \in Requests :
           \/ Authenticate(r) \/ SetMustChangePassword(r)
           \/ DisableUser(r) \/ DeleteUser(r) \/ RecoverUser(r) \/ DestroyUser(r)
           \/ \E k \in Keys : ResetPassword(r, k)
           \/ DiscoveryFails(r) \/ TakeKey(r) \/ OpenBlob(r) \/ SealBlob(r)
           \/ \E i \in Ids :
                  \/ StartSession(r, i) \/ ChangePassword(r, i) \/ Touch(r, i)
                  \/ \E c \in Connections :
                         Connect(r, i, c) \/ Edit(r, i, c) \/ Delete(r, i, c)
    \/ \E i \in Ids : Logout(i)
    \/ EnableUser

Spec == Init /\ [][Next]_vars

-----------------------------------------------------------------------------
TypeOK ==
    /\ user \in [there : BOOLEAN, disabled : BOOLEAN, mustChange : BOOLEAN,
                 dek : Keys]
    /\ covered \in BOOLEAN
    /\ secrets \in [key : Keys \cup {Zero, None}, conns : SUBSET Connections]
    /\ session \in [Ids -> Session]
    /\ req \in [Requests -> Request]
    /\ lock \in Requests \cup {None}
    /\ spent \in SUBSET Keys /\ removed \in SUBSET Connections

(* Once the administrator's request has ended the sessions, the only ones     *)
(* left with an account that is disabled, deleted or under another key come   *)
(* from a login that was under way when the administrator changed it.         *)
OnlyOverlappingLogins ==
    /\ TypeOK
    /\ ~Pending("end") =>
           \A i \in Ids : Live(i) /\ ~session[i].late =>
               user.there /\ ~user.disabled /\ session[i].key = user.dek

(* A session left over from before a reset never replaces a blob that was      *)
(* sealed since: whatever overlaps, a blob goes from one key to another only   *)
(* by being dropped, or by a buffer zeroed under a request.                   *)
StaleNeverOverwrites ==
    [][(secrets.key # None /\ secrets'.key # None)
           => secrets'.key \in {secrets.key, Zero}]_vars

(* "Disabling has to take effect immediately": once the sessions of a          *)
(* disabled account were ended, it has none. It does not hold of a login under *)
(* way.                                                                       *)
DisabledIsOut ==
    user.disabled /\ ~Pending("end") => \A i \in Ids : ~Live(i)

(* RequirePasswordChange "sends users who still carry a temporary password to   *)
(* the change screen": every session such a user opens is held there. It does  *)
(* not hold: a change under way lifts the flag of a later reset.               *)
HeldOnTemporary ==
    user.mustChange /\ ~Pending("end") =>
        \A i \in Ids : Live(i) /\ ~session[i].late => session[i].must

(* "Each user carries a secrets blob sealed under their own DEK". It does not  *)
(* hold when the session ends under a rewrite.                                *)
SealedUnderOwnKey == secrets.key \in {None, user.dek}

(* DeleteDAVAccount "removes one DAV account": it does not come back. It does  *)
(* not hold against an edit under way.                                        *)
DeletedStaysDeleted == secrets.conns \cap removed = {}
=============================================================================
