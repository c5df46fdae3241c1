--------------------------- MODULE SessionManager ---------------------------
(***************************************************************************)
(* Sessions and the keyring: Manager of internal/session/session.go, the    *)
(* photo drafts of scratch.go with the upload handler that makes them, and   *)
(* the shutdown of cmd/carrel/main.go.                                      *)
(*                                                                         *)
(* Manager.mu makes each of its methods one step.  A key is named by the    *)
(* session Create made for it; it is a buffer, so Rotate hands it on and    *)
(* remove overwrites it.  Ages are capped where the code stops telling them *)
(* apart.  The cache, which travels with the key, is left out; the flags     *)
(* that follow an account are in LoginSecrets.                              *)
(***************************************************************************)
EXTENDS Naturals, FiniteSets

CONSTANTS
    Users,
    Ids,        \* session identifiers, numbered as they are drawn
    Requests,   \* requests the server handles at the same time
    Files,      \* temporary files an upload may create
    Idle,       \* Options.Idle, in ticks
    Absolute,   \* Options.Absolute, in ticks
    None

ASSUME LifetimeAssumption == Idle \in Nat \ {0} /\ Absolute \in Nat \ {0}
ASSUME IdsAssumption == Ids \subseteq Nat
ASSUME NoneAssumption == None \notin Ids \cup Files \cup Users

VARIABLES
    sessions,   \* Manager.sessions: the registered identifiers
    byUser,     \* [Users -> SUBSET Ids], Manager.byUser
    user,       \* [Ids -> Users \cup {None}], Session.UserID; None if unused
    dek,        \* [Ids -> Ids \cup {None}], the buffer Session.dek points at
    dead,       \* identifiers whose Session.dead is set
    quiet,      \* [Ids -> 0 .. Idle], time since lastSeen
    life,       \* [Ids -> 0 .. Absolute], time already taken off deadline
    held,       \* [Ids -> 0 .. Absolute], how long the key has been held
    made,       \* key buffers Create was given
    zeroed,     \* key buffers that have been overwritten
    draft,      \* [Ids -> Files \cup {None}], the file of the photo draft
    files,      \* temporary files on disk
    req,        \* [Requests -> [at, id, file]], where each request is
    phase,      \* "running", "draining" or "exited"
    sweeper     \* the StartSweeper goroutine is alive

tables == <<sessions, byUser, user, dek, dead>>
clocks == <<quiet, life, held>>
keys == <<made, zeroed>>
scratch == <<draft, files>>
process == <<phase, sweeper>>
vars == <<tables, clocks, keys, scratch, req, process>>

NoRequest == [at |-> "none", id |-> None, file |-> None]

Init ==
    /\ sessions = {} /\ byUser = [u \in Users |-> {}]
    /\ user = [i \in Ids |-> None] /\ dek = [i \in Ids |-> None]
    /\ dead = {} /\ made = {} /\ zeroed = {}
    /\ quiet = [i \in Ids |-> 0] /\ life = [i \in Ids |-> 0]
    /\ held = [i \in Ids |-> 0]
    /\ draft = [i \in Ids |-> None] /\ files = {}
    /\ req = [r \in Requests |-> NoRequest]
    /\ phase = "running" /\ sweeper = TRUE

(* A fresh random name: the first that was not drawn yet. *)
Fresh(i) == \A j \in Ids : j < i <=> user[j] # None
Busy == {r \in Requests : req[r].at # "none"}

(* expired *)
Expired(i) == i \in dead \/ life[i] >= Absolute \/ quiet[i] >= Idle

(* Slip: the index by user keeps the sessions that went. *)
RemoveKeepsIndex(gone) ==
    /\ sessions' = sessions \ gone
    /\ dek' = [i \in Ids |-> IF i \in gone THEN None ELSE dek[i]]
    /\ dead' = dead \cup gone
    /\ zeroed' = zeroed \cup ({dek[i] : i \in gone} \ {None})
    /\ draft' = [i \in Ids |-> IF i \in gone THEN None ELSE draft[i]]
    /\ files' = files \ {draft[i] : i \in gone}
    /\ UNCHANGED <<byUser, user, made, clocks>>

(* Slip: the key is let go of and not overwritten. *)
RemoveKeepsKey(gone) ==
    /\ sessions' = sessions \ gone
    /\ byUser' = [u \in Users |-> byUser[u] \ gone]
    /\ dek' = [i \in Ids |-> IF i \in gone THEN None ELSE dek[i]]
    /\ dead' = dead \cup gone
    /\ draft' = [i \in Ids |-> IF i \in gone THEN None ELSE draft[i]]
    /\ files' = files \ {draft[i] : i \in gone}
    /\ UNCHANGED <<zeroed, user, made, clocks>>

(* remove, of every session of gone: key zeroed in place, drafts deleted    *)
(* with their files, session dead and unlinked from both indexes.           *)
Remove(gone) ==
    /\ sessions' = sessions \ gone
    /\ byUser' = [u \in Users |-> byUser[u] \ gone]
    /\ dek' = [i \in Ids |-> IF i \in gone THEN None ELSE dek[i]]
    /\ dead' = dead \cup gone
    /\ zeroed' = zeroed \cup ({dek[i] : i \in gone} \ {None})
    /\ draft' = [i \in Ids |-> IF i \in gone THEN None ELSE draft[i]]
    /\ files' = files \ {draft[i] : i \in gone}
    /\ UNCHANGED <<user, made, clocks>>

(* Slip: the identifier is stored where the user belongs. *)
InsertSwapped(i, u, k) ==
    /\ sessions' = sessions \cup {i}
    /\ byUser' = [byUser EXCEPT ![u] = @ \cup {i}]
    /\ user' = [user EXCEPT ![i] = i]
    /\ dek' = [dek EXCEPT ![i] = k]

(* insert, of identifier i for user u holding key buffer k. *)
Insert(i, u, k) ==
    /\ sessions' = sessions \cup {i}
    /\ byUser' = [byUser EXCEPT ![u] = @ \cup {i}]
    /\ user' = [user EXCEPT ![i] = u]
    /\ dek' = [dek EXCEPT ![i] = k]

-----------------------------------------------------------------------------
(* Manager, as handlers call it. *)

(* LoginSubmit is admitted; it proves a password and then calls Create. *)
BeginLogin(r) ==
    /\ phase = "running" /\ req[r].at = "none"
    /\ req' = [req EXCEPT ![r].at = "login"]
    /\ UNCHANGED <<tables, clocks, keys, scratch, process>>

(* Create: a fresh identifier, and the manager owns the key from here. *)
Create(r, u, i) ==
    /\ phase # "exited" /\ req[r].at = "login"
    /\ Fresh(i)
    /\ Insert(i, u, i)
    /\ req' = [req EXCEPT ![r] = NoRequest]
    /\ made' = made \cup {i}
    /\ UNCHANGED <<dead, clocks, zeroed, scratch, process>>

(* Get of a live session by a request's cookie. *)
Admit(r, i) ==
    /\ phase = "running" /\ req[r].at = "none"
    /\ i \in sessions /\ ~Expired(i)
    /\ quiet' = [quiet EXCEPT ![i] = 0]
    /\ req' = [req EXCEPT ![r] = [at |-> "working", id |-> i, file |-> None]]
    /\ UNCHANGED <<tables, life, held, keys, scratch, process>>

(* Get of an expired session destroys it on the way out. *)
AdmitExpired(i) ==
    /\ phase = "running"
    /\ i \in sessions /\ Expired(i)
    /\ Remove({i})
    /\ UNCHANGED <<req, process>>

(* Slip: the new identifier comes with a deadline of its own. *)
RotateAfresh(i, j) ==
    /\ phase # "exited"
    /\ i \in sessions /\ Fresh(j)
    /\ sessions' = (sessions \ {i}) \cup {j}
    /\ byUser' = [byUser EXCEPT ![user[i]] = (@ \ {i}) \cup {j}]
    /\ user' = [user EXCEPT ![j] = user[i]]
    /\ dek' = [dek EXCEPT ![i] = None, ![j] = dek[i]]
    /\ dead' = dead \cup {i}
    /\ draft' = [draft EXCEPT ![i] = None, ![j] = draft[i]]
    /\ UNCHANGED <<life, quiet, held, keys, files, req, process>>

(* Rotate: key, deadline and drafts pass to a new identifier. *)
Rotate(i, j) ==
    /\ phase # "exited"
    /\ i \in sessions /\ Fresh(j)
    /\ sessions' = (sessions \ {i}) \cup {j}
    /\ byUser' = [byUser EXCEPT ![user[i]] = (@ \ {i}) \cup {j}]
    /\ user' = [user EXCEPT ![j] = user[i]]
    /\ dek' = [dek EXCEPT ![i] = None, ![j] = dek[i]]
    /\ dead' = dead \cup {i}
    /\ life' = [life EXCEPT ![j] = life[i]]
    /\ draft' = [draft EXCEPT ![i] = None, ![j] = draft[i]]
    /\ UNCHANGED <<quiet, held, keys, files, req, process>>

(* Destroy: logout. *)
Destroy(i) ==
    /\ phase # "exited" /\ i \in sessions
    /\ Remove({i})
    /\ UNCHANGED <<req, process>>

(* DestroyUser: disable, delete, reset, "end sessions". *)
DestroyUser(u) ==
    /\ phase # "exited" /\ byUser[u] # {}
    /\ Remove(byUser[u] \cap sessions)
    /\ UNCHANGED <<req, process>>

(* Sweep on the ticker, and the sweepLocked of Count and Sessions. *)
Sweep ==
    /\ phase = "running" /\ sweeper
    /\ \E i \in sessions : Expired(i)
    /\ Remove({i \in sessions : Expired(i)})
    /\ UNCHANGED <<req, process>>

Tick ==
    /\ phase # "exited"
    /\ \E i \in Ids : dek[i] # None /\ (quiet[i] < Idle \/ life[i] < Absolute)
    /\ quiet' = [i \in Ids |-> IF dek[i] # None /\ quiet[i] < Idle
                               THEN quiet[i] + 1 ELSE quiet[i]]
    /\ life' = [i \in Ids |-> IF dek[i] # None /\ life[i] < Absolute
                              THEN life[i] + 1 ELSE life[i]]
    /\ held' = [k \in Ids |->
                   IF held[k] < Absolute /\ \E i \in Ids : dek[i] = k
                   THEN held[k] + 1 ELSE held[k]]
    /\ UNCHANGED <<tables, keys, scratch, req, process>>

-----------------------------------------------------------------------------
(* contactPhotoAction, by a request that keeps its *Session to the end. *)

(* upload_photo: os.CreateTemp, then a provider call. *)
Upload(r, f) ==
    /\ phase # "exited" /\ req[r].at = "working"
    /\ f \notin files
    /\ files' = files \cup {f}
    /\ req' = [req EXCEPT ![r].at = "uploading", ![r].file = f]
    /\ UNCHANGED <<tables, clocks, keys, draft, process>>

(* The provider or the image refuses the upload, or confirm_photo is over:  *)
(* the handler removes the file it owns.                                    *)
RemoveFile(r) ==
    /\ phase # "exited" /\ req[r].at \in {"uploading", "cropping"}
    /\ files' = files \ {req[r].file}
    /\ req' = [req EXCEPT ![r] = NoRequest]
    /\ UNCHANGED <<tables, clocks, keys, draft, process>>

(* Slip: the draft that is replaced leaves its file behind. *)
PutDraftOver(r) ==
    /\ phase # "exited" /\ req[r].at = "uploading"
    /\ draft' = [draft EXCEPT ![req[r].id] = req[r].file]
    /\ req' = [req EXCEPT ![r] = NoRequest]
    /\ UNCHANGED <<tables, clocks, keys, files, process>>

(* PutPhotoDraft: the file of the draft it replaces is removed. The session *)
(* may have ended meanwhile; nothing here asks.                             *)
PutPhotoDraft(r) ==
    LET i == req[r].id
    IN  /\ phase # "exited" /\ req[r].at = "uploading"
        /\ files' = files \ {draft[i]}
        /\ draft' = [draft EXCEPT ![i] = req[r].file]
        /\ req' = [req EXCEPT ![r] = NoRequest]
        /\ UNCHANGED <<tables, clocks, keys, process>>

(* confirm_photo: TakePhotoDraft, and the handler owns the file. *)
TakePhotoDraft(r) ==
    LET i == req[r].id
    IN  /\ phase # "exited" /\ req[r].at = "working"
        /\ draft[i] # None
        /\ draft' = [draft EXCEPT ![i] = None]
        /\ req' = [req EXCEPT ![r].at = "cropping", ![r].file = draft[i]]
        /\ UNCHANGED <<tables, clocks, keys, files, process>>

(* cancel_photo: ClearPhotoDraft. *)
ClearPhotoDraft(r) ==
    LET i == req[r].id
    IN  /\ phase # "exited" /\ req[r].at = "working"
        /\ draft[i] # None
        /\ files' = files \ {draft[i]}
        /\ draft' = [draft EXCEPT ![i] = None]
        /\ UNCHANGED <<tables, clocks, keys, req, process>>

Leave(r) ==
    /\ phase # "exited" /\ req[r].at \in {"working", "login"}
    /\ req' = [req EXCEPT ![r] = NoRequest]
    /\ UNCHANGED <<tables, clocks, keys, scratch, process>>

-----------------------------------------------------------------------------
(* Shutdown. *)

(* SIGTERM: ctx is cancelled and httpSrv.Shutdown stops admitting. *)
Sigterm ==
    /\ phase = "running"
    /\ phase' = "draining"
    /\ UNCHANGED <<tables, clocks, keys, scratch, req, sweeper>>

(* StartSweeper's way out: Close, as soon as ctx is cancelled. *)
SweeperCloses ==
    /\ phase = "draining" /\ sweeper
    /\ sweeper' = FALSE
    /\ Remove(sessions)
    /\ UNCHANGED <<req, phase>>

(* main: Shutdown returns with every request done or with the grace period  *)
(* over; then sessions.Close() and the process exits.                       *)
FinalClose ==
    /\ phase = "draining"
    /\ phase' = "exited"
    /\ sweeper' = FALSE
    /\ Remove(sessions)
    /\ UNCHANGED req

Handler(r) ==
    \/ BeginLogin(r)
    \/ \E u \in Users, i \in Ids : Create(r, u, i)
    \/ \E i \in Ids : Admit(r, i)
    \/ \E f \in Files : Upload(r, f)
    \/ RemoveFile(r) \/ PutPhotoDraft(r) \/ TakePhotoDraft(r)
    \/ ClearPhotoDraft(r) \/ Leave(r)

Next ==
    \/ \E r \in Requests : Handler(r)
    \/ \E i \in Ids : AdmitExpired(i) \/ Destroy(i)
    \/ \E i, j \in Ids : Rotate(i, j)
    \/ \E u \in Users : DestroyUser(u)
    \/ Sweep \/ Tick
    \/ Sigterm \/ SweeperCloses \/ FinalClose

Spec == Init /\ [][Next]_vars

(* The ticker fires and a shutdown that began goes on; nothing is asked of  *)
(* the people, who may simply go away.                                      *)
FairSpec == Spec /\ WF_vars(Tick) /\ WF_vars(Sweep) /\ WF_vars(FinalClose)

-----------------------------------------------------------------------------
TypeOK ==
    /\ sessions \in SUBSET Ids
    /\ byUser \in [Users -> SUBSET Ids]
    /\ user \in [Ids -> Users \cup {None}]
    /\ dek \in [Ids -> Ids \cup {None}]
    /\ dead \in SUBSET Ids
    /\ quiet \in [Ids -> 0 .. Idle]
    /\ life \in [Ids -> 0 .. Absolute]
    /\ held \in [Ids -> 0 .. Absolute]
    /\ made \in SUBSET Ids /\ zeroed \in SUBSET Ids
    /\ draft \in [Ids -> Files \cup {None}]
    /\ files \in SUBSET Files
    /\ req \in [Requests -> [at : {"none", "login", "working", "uploading",
                                   "cropping"},
                             id : Ids \cup {None}, file : Files \cup {None}]]
    /\ phase \in {"running", "draining", "exited"}
    /\ sweeper \in BOOLEAN

(* The two indexes agree: DestroyUser finds every session a user still has. *)
IndexesAgree ==
    /\ TypeOK
    /\ \A u \in Users : byUser[u] = {i \in sessions : user[i] = u}

(* The keyring: a registered session holds a usable key, no two hold the    *)
(* same one, and a key that no registered session holds has been zeroed.    *)
(* "Graceful shutdown ... wipes every key": an exited process holds none.   *)
KeysAccounted ==
    /\ \A i \in sessions : dek[i] # None /\ dek[i] \notin zeroed
    /\ \A i, j \in sessions : dek[i] = dek[j] => i = j
    /\ \A i \in Ids : dek[i] # None => i \in sessions
    /\ \A k \in made \ zeroed : \E i \in sessions : dek[i] = k
    /\ phase = "exited" => made \subseteq zeroed

(* "Absolute caps the lifetime of a session regardless of activity": a      *)
(* request is never admitted with a key held for that long, also when the   *)
(* session was rotated meanwhile.                                           *)
AbsoluteCap ==
    [][\A r \in Requests :
          (req[r].at = "none" /\ req'[r].at = "working") =>
              held[dek[req'[r].id]] < Absolute]_vars

(* Temporary files: one on disk is the draft of a session or in the hands   *)
(* of a request (one that is neither would never be deleted); a draft has   *)
(* its file, which no other draft shares, so that the crop step never finds *)
(* it deleted by another upload.                                            *)
DraftFiles ==
    /\ \A f \in files : (\E i \in Ids : draft[i] = f)
                         \/ (\E r \in Requests : req[r].file = f)
    /\ \A i \in Ids : draft[i] # None => draft[i] \in files
    /\ \A i, j \in Ids : draft[i] # None /\ draft[i] = draft[j] => i = j

(* An abandoned session loses its key without anyone asking for it.         *)
KeysAreWiped == \A k \in Ids : (k \in made) ~> (k \in zeroed)

(* "Requests are done: no session is in use any more, so every DEK can go": *)
(* shutdown has not ended the sessions while a request is still at work.    *)
(* It does not hold: the sweeper does.                                      *)
WipesAfterRequests == phase = "draining" /\ ~sweeper => Busy = {}
=============================================================================
