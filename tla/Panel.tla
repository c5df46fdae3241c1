--------------------------------- MODULE Panel ---------------------------------
(***************************************************************************)
(* The administration panel, the account page and the key-deposit notice, at the  *)
(* grain of the calls their handlers make one after the other (handler/admin.go,    *)
(* escrow.go, self_account.go, settings.go, invite.go, login.go): the store        *)
(* changes first, then sessions end, then somebody is told; other requests run in    *)
(* between, and the server may stop.                                          *)
(*                                                                         *)
(* What a change of the store does to keys is module AccountStore, sessions and      *)
(* keys LoginSecrets, and what becomes of a queued message MailQueue; here an        *)
(* account is what the pages show of it.                                        *)
(***************************************************************************)
EXTENDS Naturals, FiniteSets

CONSTANTS
    People, Root,    \* Root is the administrator of a fresh volume
    HasAddress,      \* people with an email address on file
    Ids,             \* session identifiers, each used once
    Requests,
    MaxRecoveries,   \* bound, over all accounts
    None

VARIABLES
    account,   \* [People -> Account]
    escrow,    \* "none", "on", "off"
    smtp,      \* Settings.SMTP.Configured
    session,   \* [Ids -> Session]
    req,       \* [Requests -> Request]
    recovery   \* [People -> [done, told, lost]]: recoveries, those told of, those cut off

stored == <<account, escrow, smtp>>
vars == <<stored, session, req, recovery>>

(* copy: EscrowDEK is there.  seen: EscrowNoticeSeen.  gone: deleted; an identifier is    *)
(* not used again. *)
Nobody == [there |-> FALSE, gone |-> FALSE, admin |-> FALSE, disabled |-> FALSE,
           copy |-> FALSE, seen |-> FALSE]
Gone == [Nobody EXCEPT !.gone = TRUE]

(* admin and notice are copies made when the session began; why is how it ended,    *)
(* by which request's session. *)
Fresh == [at |-> "fresh", who |-> None, admin |-> FALSE, notice |-> FALSE,
          why |-> "none", by |-> None]

(* on: the session that serves the request.  about: the account it is about.  user:   *)
(* what a call of the store returned.  ids: sessions listed and not yet ended. *)
NoRequest == [at |-> "none", on |-> None, about |-> None, user |-> Nobody, ids |-> {}]

Init ==
    /\ account = [p \in People |->
                     IF p = Root THEN [Nobody EXCEPT !.there = TRUE, !.admin = TRUE] ELSE Nobody]
    /\ escrow = "none" /\ smtp \in BOOLEAN
    /\ session = [i \in Ids |-> Fresh]
    /\ req = [r \in Requests |-> NoRequest]
    /\ recovery = [p \in People |-> [done |-> 0, told |-> 0, lost |-> 0]]

Live(i) == session[i].at = "live"
Sessions(p) == {i \in Ids : Live(i) /\ session[i].who = p}
Free(r) == req[r] = NoRequest
Done(r) == req' = [req EXCEPT ![r] = NoRequest]
Goes(r, at) == req' = [req EXCEPT ![r].at = at]
(* Every action of a page answers with a page, whoever was signed out meanwhile. *)
Answers(r, i) == req' = [req EXCEPT ![r] = [NoRequest EXCEPT !.at = "page", !.on = i]]
Start(r, at, i, p) == req' = [req EXCEPT ![r] = [NoRequest EXCEPT
                                  !.at = at, !.on = i, !.about = p]]

(* Destroy and DestroyUser. *)
End(ids, why, by) ==
    session' = [i \in Ids |-> IF i \in ids /\ Live(i)
                              THEN [session[i] EXCEPT !.at = "dead", !.why = why, !.by = by,
                                                      !.admin = FALSE]
                              ELSE session[i]]

(* RequireAdmin goes by the session.  A stopped request's session may be gone by now. *)
Admitted(i) == Live(i) /\ session[i].admin

LastActiveAdmin(p) ==
    /\ account[p].admin /\ ~account[p].disabled
    /\ \A q \in People \ {p} : account[q].there /\ account[q].admin => account[q].disabled

Stored(p, acc) == account' = [account EXCEPT ![p] = acc] /\ UNCHANGED <<escrow, smtp>>

(* setCredentials: a new key is deposited when deposit is on, whatever was before. *)
Deposited(acc) == [acc EXCEPT !.copy = (escrow = "on")]

-----------------------------------------------------------------------------
(* Signing in: at the form, or at once after an invitation was accepted. *)

AcceptInvite(r, p) ==
    /\ Free(r) /\ account[p] = Nobody
    /\ Stored(p, Deposited([Nobody EXCEPT !.there = TRUE]))
    /\ Start(r, "authenticate", None, p)
    /\ UNCHANGED <<session, recovery>>

Login(r, p) ==
    /\ Free(r)
    /\ LET user == account[p]
       IN /\ user.there /\ ~user.disabled
          /\ req' = [req EXCEPT ![r] = [NoRequest EXCEPT !.at = "create", !.about = p,
                                        !.user = user]]
    /\ UNCHANGED <<stored, session, recovery>>

(* acceptInviteSubmit goes on to sign the new account in. *)
Authenticate(r) ==
    /\ req[r].at = "authenticate"
    /\ LET user == account[req[r].about]
       IN IF user.there /\ ~user.disabled
          THEN req' = [req EXCEPT ![r].at = "create", ![r].user = user] ELSE Done(r)
    /\ UNCHANGED <<stored, session, recovery>>

(* startSession *)
StartSession(r, i) ==
    /\ req[r].at = "create" /\ session[i] = Fresh
    /\ LET user == req[r].user
       IN session' = [session EXCEPT ![i] = [Fresh EXCEPT
              !.at = "live", !.who = req[r].about, !.admin = user.admin,
              !.notice = user.copy /\ ~user.seen]]
    /\ Done(r)
    /\ UNCHANGED <<stored, recovery>>

Logout(i) == Live(i) /\ End({i}, "logout", i) /\ UNCHANGED <<stored, req, recovery>>

(* settingsFrame, adminFrame: firstLoginEscrowNotice of the session, and then the store. *)
Page(r, i) ==
    LET p == session[i].who
    IN /\ \/ Free(r) /\ Live(i)
          \/ req[r].at = "page" /\ req[r].on = i
       /\ session' = [session EXCEPT ![i].notice = FALSE]
       /\ IF session[i].notice THEN Start(r, "mark", i, p) ELSE Done(r)
       /\ UNCHANGED <<stored, recovery>>

MarkEscrowNoticeSeen(r) ==
    LET p == req[r].about
    IN /\ req[r].at = "mark"
       /\ IF account[p].there THEN Stored(p, [account[p] EXCEPT !.seen = TRUE])
          ELSE UNCHANGED stored
       /\ Done(r)
       /\ UNCHANGED <<session, recovery>>

-----------------------------------------------------------------------------
(* ProfileEscrow: the decision is its own notice. *)

OptIn(r, i) ==
    LET p == session[i].who
    IN /\ Free(r) /\ Live(i) /\ escrow = "on" /\ account[p].there /\ ~account[p].copy
       /\ Stored(p, [account[p] EXCEPT !.copy = TRUE, !.seen = TRUE])
       /\ Answers(r, i)
       /\ UNCHANGED <<session, recovery>>

OptOut(r, i) ==
    LET p == session[i].who
    IN /\ Free(r) /\ Live(i) /\ account[p].there /\ account[p].copy
       /\ Stored(p, [account[p] EXCEPT !.copy = FALSE])
       /\ Answers(r, i)
       /\ UNCHANGED <<session, recovery>>

(* endOwnSession, endOtherSessions: the sessions are listed, then ended one by one. *)
EndOwn(r, i) ==
    LET others == Sessions(session[i].who) \ {i}
    IN /\ Free(r) /\ Live(i)
       /\ \E ids \in {others} \cup {{j} : j \in others} :
              req' = [req EXCEPT ![r] = [NoRequest EXCEPT
                         !.at = "destroy", !.on = i, !.ids = ids]]
       /\ UNCHANGED <<stored, session, recovery>>

Destroy(r) ==
    /\ req[r].at = "destroy"
    /\ IF req[r].ids = {} THEN Answers(r, req[r].on) /\ UNCHANGED session
       ELSE \E j \in req[r].ids :
                /\ End({j}, "own", req[r].on)
                /\ req' = [req EXCEPT ![r].ids = @ \ {j}]
    /\ UNCHANGED <<stored, recovery>>

-----------------------------------------------------------------------------
(* The panel's actions on an account.  A refusal answers at once. *)

(* deleteOwnAccount, adminDeleteUser: the store decides first. *)
DeleteUser(r, i, p) ==
    /\ Free(r) /\ account[p].there
    /\ Admitted(i) \/ (Live(i) /\ session[i].who = p)
    /\ IF LastActiveAdmin(p) THEN Answers(r, i) /\ UNCHANGED stored
       ELSE Stored(p, Gone) /\ Start(r, "deleted", i, p)
    /\ UNCHANGED <<session, recovery>>

(* Slip: the sessions end on the way to being refused. *)
DeleteSignedOut(r, i, p) ==
    /\ Free(r) /\ account[p].there
    /\ Admitted(i) \/ (Live(i) /\ session[i].who = p)
    /\ IF LastActiveAdmin(p) THEN Start(r, "deleted", i, p) /\ UNCHANGED stored
       ELSE Stored(p, Gone) /\ Start(r, "deleted", i, p)
    /\ UNCHANGED <<session, recovery>>

DisableUser(r, i, p) ==
    /\ Free(r) /\ Admitted(i) /\ account[p].there /\ ~account[p].disabled
    /\ ~LastActiveAdmin(p)
    /\ Stored(p, [account[p] EXCEPT !.disabled = TRUE])
    /\ Start(r, "disabled", i, p)
    /\ UNCHANGED <<session, recovery>>

(* adminResetPassword: not for a covered account. *)
ResetPassword(r, i, p) ==
    /\ Free(r) /\ Admitted(i) /\ account[p].there
    /\ ~(account[p].copy /\ escrow # "none")
    /\ Stored(p, Deposited(account[p]))
    /\ Start(r, "reset", i, p)
    /\ UNCHANGED <<session, recovery>>

(* adminKillSessions *)
KillSessions(r, i, p) ==
    /\ Free(r) /\ Admitted(i) /\ account[p].there
    /\ End(Sessions(p), "killed", i)
    /\ Answers(r, i)
    /\ UNCHANGED <<stored, recovery>>

(* After the store: the sessions of the account. *)
DestroyUser(r) ==
    /\ req[r].at \in {"deleted", "disabled", "reset", "recovered"}
    /\ End(Sessions(req[r].about), req[r].at, req[r].on)
    /\ IF req[r].at = "recovered" THEN Goes(r, "notify") ELSE Answers(r, req[r].on)
    /\ UNCHANGED <<stored, recovery>>

(* The panel's actions that are one call: enable, change the role, the settings. *)
EnableUser(r, i, p) ==
    /\ Free(r) /\ Admitted(i) /\ account[p].there /\ account[p].disabled
    /\ Stored(p, [account[p] EXCEPT !.disabled = FALSE])
    /\ Answers(r, i)
    /\ UNCHANGED <<session, recovery>>

ChangeRole(r, i, p) ==
    /\ Free(r) /\ Admitted(i) /\ account[p].there /\ ~LastActiveAdmin(p)
    /\ Stored(p, [account[p] EXCEPT !.admin = ~@])
    /\ Answers(r, i)
    /\ UNCHANGED <<session, recovery>>

SaveSettings(r, i) ==
    /\ Free(r) /\ Admitted(i)
    /\ \/ smtp' = ~smtp /\ UNCHANGED escrow
       \/ escrow' = (IF escrow = "on" THEN "off" ELSE "on") /\ UNCHANGED smtp
    /\ Answers(r, i)
    /\ UNCHANGED <<account, session, recovery>>

-----------------------------------------------------------------------------
(* adminRecoverUser, with the right master password. *)

Recoveries == {p \in People : recovery[p].done > 0}

RecoverUser(r, i, p) ==
    /\ Free(r) /\ Admitted(i) /\ account[p].there /\ account[p].copy /\ escrow # "none"
    /\ recovery[p].done < MaxRecoveries /\ Recoveries \subseteq {p}
    /\ recovery' = [recovery EXCEPT ![p].done = @ + 1]
    /\ Start(r, "recovered", i, p)
    /\ UNCHANGED <<stored, session>>

(* QueueEscrowRecovery asks for the relay when the message is queued; notifyRecovery    *)
(* warns the administrator of what it could not queue. *)
Queued(p) == p \in HasAddress /\ smtp
Warned(p) == p \notin HasAddress \/ ~smtp

(* Slip: an address on file counts as the message sent. *)
WarnedWithoutAddress(p) == p \notin HasAddress

NotifyRecovery(r) ==
    LET p == req[r].about
    IN /\ req[r].at = "notify"
       /\ recovery' = [recovery EXCEPT ![p].told =
              IF Queued(p) \/ Warned(p) THEN @ + 1 ELSE @]
       /\ Answers(r, req[r].on)
       /\ UNCHANGED <<stored, session>>

(* The server stops: what its requests had left to do is lost. *)
Recovering(p) == {r \in Requests : req[r].about = p /\ req[r].at \in {"recovered", "notify"}}

Restart ==
    /\ \E r \in Requests : ~Free(r)
    /\ recovery' = [p \in People |-> [recovery[p] EXCEPT
                                        !.lost = @ + Cardinality(Recovering(p))]]
    /\ req' = [r \in Requests |-> NoRequest]
    /\ End(Ids, "stopped", None)
    /\ UNCHANGED <<stored>>

Next ==
    \/ Restart
    \/ \E r \in Requests :
           \/ Authenticate(r) \/ MarkEscrowNoticeSeen(r) \/ Destroy(r) \/ DestroyUser(r)
           \/ NotifyRecovery(r)
           \/ \E p \in People : AcceptInvite(r, p) \/ Login(r, p)
           \/ \E i \in Ids :
                  \/ StartSession(r, i) \/ Page(r, i) \/ EndOwn(r, i)
                  \/ OptIn(r, i) \/ OptOut(r, i) \/ SaveSettings(r, i)
                  \/ \E p \in People :
                         \/ DeleteUser(r, i, p) \/ DisableUser(r, i, p) \/ EnableUser(r, i, p)
                         \/ ChangeRole(r, i, p) \/ KillSessions(r, i, p)
                         \/ ResetPassword(r, i, p) \/ RecoverUser(r, i, p)
    \/ \E i \in Ids : Logout(i)

Spec == Init /\ [][Next]_vars

-----------------------------------------------------------------------------
(* Every recovery is told, by mail or by the administrator the page asks to,      *)
(* however settings and addresses change meanwhile; only a stop of the server        *)
(* between the two leaves one untold (escrow.go: "the user is told what happened     *)
(* whether the administrator likes it or not").  And the order of the handlers        *)
(* holds: a session ended by a deletion belongs to an account that is gone (a refused   *)
(* deletion ends none), and nobody ends by hand a session of another, or the one      *)
(* that serves the page.                                                        *)
PanelKeepsItsOrder ==
    /\ \A p \in People :
           recovery[p].done = recovery[p].told + recovery[p].lost + Cardinality(Recovering(p))
    /\ \A i \in Ids :
           /\ session[i].why = "deleted" => account[session[i].who] = Gone
           /\ session[i].why = "own" => session[i].by # i
                                        /\ session[session[i].by].who = session[i].who

(* Why it holds.  A deleted account stays gone, a session that has begun keeps its        *)
(* owner, and what a handler carries over a gap between two calls is still so.          *)
Account == [there : BOOLEAN, gone : BOOLEAN, admin : BOOLEAN, disabled : BOOLEAN,
            copy : BOOLEAN, seen : BOOLEAN]
Session == [at : {"fresh", "live", "dead"}, who : People \cup {None}, admin : BOOLEAN,
            notice : BOOLEAN, by : Ids \cup {None},
            why : {"none", "logout", "own", "killed", "stopped",
                   "deleted", "disabled", "reset", "recovered"}]
Request == [at : {"none", "page", "authenticate", "create", "mark", "destroy",
                  "deleted", "disabled", "reset", "recovered", "notify"},
            on : Ids \cup {None}, about : People \cup {None}, user : Account, ids : SUBSET Ids]

TypeOK ==
    /\ account \in [People -> Account]
    /\ session \in [Ids -> Session]
    /\ req \in [Requests -> Request]
    /\ recovery \in [People -> [done : Nat, told : Nat, lost : Nat]]

Begun(i) == i \in Ids /\ session[i].at # "fresh"

Accounted(p) ==
    recovery[p].done = recovery[p].told + recovery[p].lost + Cardinality(Recovering(p))

EndedRightly(i) ==
    /\ Begun(i) => session[i].who \in People
    /\ session[i].notice => Begun(i)
    /\ session[i].why # "none" => Begun(i)
    /\ session[i].why = "deleted" => account[session[i].who] = Gone
    /\ session[i].why = "own" => /\ Begun(session[i].by) /\ session[i].by # i
                                 /\ session[session[i].by].who = session[i].who

CarriedRightly(r) ==
    /\ req[r].at \notin {"none", "page", "destroy"} => req[r].about \in People
    /\ req[r].at = "deleted" => account[req[r].about] = Gone
    /\ req[r].at = "destroy" =>
           /\ Begun(req[r].on)
           /\ \A j \in req[r].ids : /\ Begun(j) /\ j # req[r].on
                                     /\ session[j].who = session[req[r].on].who

IInv ==
    /\ TypeOK
    /\ \A p \in People : Accounted(p)
    /\ \A i \in Ids : EndedRightly(i)
    /\ \A r \in Requests : CarriedRightly(r)
===============================================================================
