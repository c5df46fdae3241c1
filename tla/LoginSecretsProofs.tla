------------------------- MODULE LoginSecretsProofs -------------------------
(***************************************************************************)
(* Theorems about LoginSecrets, for any requests, sessions and keys: who can   *)
(* be left signed in once an administrator's request is over, and which key    *)
(* may replace which on the blob of secrets.                                *)
(***************************************************************************)
EXTENDS LoginSecrets, TLAPS

(* A login that overlapped no administrator's change read what is stored. *)
VerifiesTheStored ==
    \A r \in Requests : req[r].at = "verify" /\ ~req[r].late =>
        user.there /\ ~user.disabled /\ req[r].key = user.dek

(* A request for the blob names a session that was there, and a connection to  *)
(* put.                                                                       *)
Rewriting(r) == req[r].at \in {"discover", "store", "seal"}
Named ==
    \A r \in Requests : Rewriting(r) =>
        /\ req[r].id \in Ids /\ session[req[r].id].at # "fresh"
        /\ req[r].op = "put" => req[r].conn \in Connections

(* The lock is held from Open to Seal, over a blob that the session's key      *)
(* opened.                                                                    *)
SealsWhatItOpened ==
    \A r \in Requests : req[r].at = "seal" =>
        /\ lock = r
        /\ secrets.key # None => Buffer(req[r].id) \in {secrets.key, Zero}

IInv ==
    OnlyOverlappingLogins /\ VerifiesTheStored /\ Named /\ SealsWhatItOpened

-----------------------------------------------------------------------------
(* What the steps that several handlers share leave behind. *)

LEMMA Ended ==
    ASSUME TypeOK, NEW ids, End(ids)
    PROVE  /\ session' \in [Ids -> Session]
           /\ \A i \in Ids : /\ Live(i)' => Live(i) /\ i \notin ids
                             /\ session'[i].at = "fresh" <=> session[i].at = "fresh"
                             /\ session'[i].key = session[i].key
                             /\ session'[i].late = session[i].late
  BY DEF TypeOK, End, Live, Session

LEMMA Finished ==
    ASSUME TypeOK, NEW r \in Requests, Done(r)
    PROVE  /\ req' \in [Requests -> Request]
           /\ req'[r].at = "none"
           /\ \A q \in Requests : q # r => req'[q] = req[q]
  BY NamesAssumption DEF TypeOK, Done, Request, NoRequest

LEMMA Moved ==
    ASSUME TypeOK, NEW r \in Requests,
           NEW at \in {"none", "verify", "discover", "store", "seal", "clear",
                       "end"},
           req' = [req EXCEPT ![r].at = at]
    PROVE  /\ req' \in [Requests -> Request]
           /\ req'[r].at = at /\ req'[r].id = req[r].id
           /\ \A q \in Requests : q # r => req'[q] = req[q]
  BY DEF TypeOK, Request

LEMMA Administered ==
    ASSUME TypeOK, NEW r \in Requests, NEW new, Administer(r, new)
    PROVE  /\ req' \in [Requests -> Request]
           /\ user' = new /\ req'[r].at = "end" /\ lock = None
           /\ \A q \in Requests :
                  q # r => /\ req'[q].at = req[q].at /\ req'[q].id = req[q].id
                           /\ req'[q].at = "verify" => req'[q].late
           /\ UNCHANGED <<covered, session, lock, removed>>
  <1> DEFINE late(q) == req[q].at = "verify"
  <1>1. req' = [q \in Requests |->
                   IF q = r THEN [NoRequest EXCEPT !.at = "end"]
                   ELSE [req[q] EXCEPT !.late = late(q)]]
    BY DEF Administer
  <1>2. [NoRequest EXCEPT !.at = "end"] \in Request
    BY NamesAssumption DEF NoRequest, Request
  <1>3. \A q \in Requests : late(q) \in BOOLEAN /\ (late(q) <=> req[q].at = "verify")
    OBVIOUS
  <1> HIDE DEF late
  <1>4. ASSUME NEW q \in Requests
        PROVE  /\ [req[q] EXCEPT !.late = late(q)] \in Request
               /\ [req[q] EXCEPT !.late = late(q)].at = req[q].at
               /\ [req[q] EXCEPT !.late = late(q)].id = req[q].id
               /\ [req[q] EXCEPT !.late = late(q)].late = late(q)
    BY <1>3 DEF TypeOK, Request
  <1>5. req' \in [Requests -> Request] /\ req'[r].at = "end"
    BY <1>1, <1>2, <1>4 DEF NoRequest
  <1>6. ASSUME NEW q \in Requests, q # r
        PROVE  /\ req'[q].at = req[q].at /\ req'[q].id = req[q].id
               /\ req'[q].at = "verify" => req'[q].late
    BY <1>1, <1>3, <1>4, <1>6
  <1> QED
    BY <1>5, <1>6 DEF Administer

(* What a session's key may be by the time it seals. *)
LEMMA BufferType ==
    ASSUME TypeOK, NEW i \in Ids PROVE Buffer(i) \in Keys \cup {Zero, None}
  BY DEF TypeOK, Buffer, Session

-----------------------------------------------------------------------------
(* Every variable keeps its type. *)
LEMMA TypeStep == ASSUME TypeOK, Named, [Next]_vars PROVE TypeOK'
  <1> USE DEF TypeOK
  <1>1. ASSUME NEW r \in Requests, Authenticate(r) PROVE TypeOK'
    BY <1>1 DEF Authenticate, stored, blob, Request, NoRequest
  <1>2. ASSUME NEW r \in Requests, NEW i \in Ids, StartSession(r, i)
        PROVE  TypeOK'
    BY <1>2 DEF StartSession, Done, stored, blob, Request, NoRequest, Session
  <1>3. ASSUME NEW i \in Ids, Logout(i) PROVE TypeOK'
    BY <1>3, Ended DEF Logout, stored, blob
  <1>4. ASSUME NEW r \in Requests, NEW i \in Ids, ChangePassword(r, i)
        PROVE  TypeOK'
    <2>1. user' \in [there : BOOLEAN, disabled : BOOLEAN, mustChange : BOOLEAN,
                      dek : Keys]
      BY <1>4 DEF ChangePassword
    <2> QED
      BY <1>4, <2>1, Moved DEF ChangePassword, blob
  <1>5. ASSUME NEW r \in Requests, SetMustChangePassword(r) PROVE TypeOK'
    <2>1. session' \in [Ids -> Session]
      BY <1>5 DEF SetMustChangePassword, Session
    <2> QED
      BY <1>5, <2>1, Finished DEF SetMustChangePassword, stored, blob
  <1>6. ASSUME NEW r \in Requests, NEW new, Administer(r, new),
               new \in [there : BOOLEAN, disabled : BOOLEAN,
                        mustChange : BOOLEAN, dek : Keys],
               secrets' \in [key : Keys \cup {Zero, None},
                             conns : SUBSET Connections],
               spent' \in SUBSET Keys
        PROVE  TypeOK'
    BY <1>6, Administered
  <1>7. ASSUME NEW r \in Requests, DisableUser(r) \/ RecoverUser(r)
        PROVE  TypeOK'
    BY <1>6, <1>7 DEF DisableUser, RecoverUser
  <1>8. ASSUME NEW r \in Requests,
               DeleteUser(r) \/ \E k \in Keys : ResetPassword(r, k)
        PROVE  TypeOK'
    <2>1. [key |-> None, conns |-> {}] \in [key : Keys \cup {Zero, None},
                                             conns : SUBSET Connections]
      OBVIOUS
    <2>2. [user EXCEPT !.there = FALSE] \in [there : BOOLEAN,
              disabled : BOOLEAN, mustChange : BOOLEAN, dek : Keys]
      OBVIOUS
    <2>3. CASE DeleteUser(r)
      BY <1>6, <2>1, <2>2, <2>3 DEF DeleteUser
    <2>4. ASSUME NEW k \in Keys, ResetPassword(r, k) PROVE TypeOK'
      <3>1. [user EXCEPT !.dek = k, !.mustChange = TRUE] \in [there : BOOLEAN,
                disabled : BOOLEAN, mustChange : BOOLEAN, dek : Keys]
        OBVIOUS
      <3> QED
        BY <1>6, <2>1, <2>4, <3>1 DEF ResetPassword
    <2> QED
      BY <1>8, <2>3, <2>4
  <1>9. ASSUME NEW r \in Requests, DestroyUser(r) PROVE TypeOK'
    BY <1>9, Ended, Finished DEF DestroyUser, stored, blob
  <1>10. CASE EnableUser
    BY <1>10 DEF EnableUser, blob
  <1>11. ASSUME NEW r \in Requests, NEW i \in Ids, NEW at, NEW op,
                NEW c \in Connections \cup {None}, Begin(r, i, at, op, c),
                at \in {"discover", "store"}, op \in {"put", "delete", "touch"}
         PROVE  TypeOK'
    BY ZenonT(40), <1>11 DEF Begin, stored, blob, Request, NoRequest
  <1>12. ASSUME NEW r \in Requests, DiscoveryFails(r) \/ TakeKey(r)
         PROVE  TypeOK'
    BY <1>12, Finished, Moved DEF DiscoveryFails, TakeKey, stored, blob
  <1>13. ASSUME NEW r \in Requests, OpenBlob(r) PROVE TypeOK'
    BY <1>13, Finished, Moved DEF OpenBlob, stored
  <1>14. ASSUME NEW r \in Requests, SealBlob(r) PROVE TypeOK'
    <2>0. req[r].id \in Ids /\ (req[r].op = "put" => req[r].conn \in Connections)
      BY <1>14 DEF SealBlob, Named, Rewriting
    <2>1. Rewritten(r) \in SUBSET Connections
      <3>1. /\ req[r].op \in {"put", "delete", "touch"}
            /\ secrets.conns \in SUBSET Connections
        BY DEF Request
      <3>2. CASE req[r].op = "put"
        BY <2>0, <3>1, <3>2 DEF Rewritten
      <3>3. CASE req[r].op = "delete"
        BY <3>1, <3>3 DEF Rewritten
      <3>4. CASE req[r].op = "touch"
        BY <3>1, <3>4 DEF Rewritten
      <3> QED
        BY <3>1, <3>2, <3>3, <3>4
    <2>2. secrets' \in [key : Keys \cup {Zero, None}, conns : SUBSET Connections]
      BY <1>14, <2>0, <2>1, BufferType DEF SealBlob
    <2> QED
      BY <1>14, <2>2, Finished DEF SealBlob, stored
  <1>15. CASE UNCHANGED vars
    BY <1>15 DEF vars, stored, blob
  <1>16. ASSUME NEW r \in Requests, NEW i \in Ids,
                \/ Touch(r, i)
                \/ \E c \in Connections :
                       Connect(r, i, c) \/ Edit(r, i, c) \/ Delete(r, i, c)
         PROVE  TypeOK'
    BY <1>11, <1>16 DEF Touch, Connect, Edit, Delete
  <1> HIDE DEF TypeOK
  <1>17. ASSUME NEW r \in Requests, NEW i \in Ids,
                \/ StartSession(r, i) \/ ChangePassword(r, i) \/ Touch(r, i)
                \/ \E c \in Connections :
                       Connect(r, i, c) \/ Edit(r, i, c) \/ Delete(r, i, c)
         PROVE  TypeOK'
    BY <1>2, <1>4, <1>16, <1>17
  <1>18. ASSUME NEW r \in Requests,
                \/ Authenticate(r) \/ SetMustChangePassword(r)
                \/ DisableUser(r) \/ DeleteUser(r) \/ RecoverUser(r)
                \/ DestroyUser(r) \/ \E k \in Keys : ResetPassword(r, k)
                \/ DiscoveryFails(r) \/ TakeKey(r) \/ OpenBlob(r) \/ SealBlob(r)
         PROVE  TypeOK'
    BY <1>1, <1>5, <1>7, <1>8, <1>9, <1>12, <1>13, <1>14, <1>18
  <1> QED
    BY <1>3, <1>10, <1>15, <1>17, <1>18 DEF Next

-----------------------------------------------------------------------------
(* Sessions left behind. *)

(* A step that leaves account and sessions alone, whose requests neither stop  *)
(* owing an end nor start to verify, keeps what is known of them.           *)
LEMMA Bystander ==
    ASSUME IInv, TypeOK', UNCHANGED user,
           \A i \in Ids : Live(i)' => Live(i) /\ session'[i].key = session[i].key
                                      /\ session'[i].late = session[i].late,
           \A r \in Requests :
               /\ req[r].at = "end" => req'[r].at = "end"
               /\ req'[r].at = "verify" => req'[r] = req[r]
    PROVE  OnlyOverlappingLogins' /\ VerifiesTheStored'
  <1>1. Pending("end") => Pending("end")'
    BY DEF Pending
  <1>2. OnlyOverlappingLogins'
    BY <1>1 DEF IInv, OnlyOverlappingLogins
  <1>3. VerifiesTheStored'
    BY DEF IInv, VerifiesTheStored
  <1> QED
    BY <1>2, <1>3

(* An administrator's change is followed by the end of the sessions, and every *)
(* login under way is late.                                                   *)
LEMMA AdministerStep ==
    ASSUME TypeOK, TypeOK', NEW r \in Requests, NEW new, Administer(r, new)
    PROVE  OnlyOverlappingLogins' /\ VerifiesTheStored'
  <1>1. /\ req'[r].at = "end"
        /\ \A q \in Requests : req'[q].at = "verify" => req'[q].late
    BY Administered
  <1>2. Pending("end")'
    BY <1>1 DEF Pending
  <1> QED
    BY <1>1, <1>2 DEF OnlyOverlappingLogins, VerifiesTheStored

LEMMA LoginsStep ==
    ASSUME IInv, TypeOK', [Next]_vars
    PROVE  OnlyOverlappingLogins' /\ VerifiesTheStored'
  <1> DEFINE Goal == OnlyOverlappingLogins' /\ VerifiesTheStored'
  <1> SUFFICES Goal
    OBVIOUS
  <1>0. TypeOK
    BY DEF IInv, OnlyOverlappingLogins
  <1>1. ASSUME NEW r \in Requests, Authenticate(r) PROVE Goal
    <2>1. /\ req' = [req EXCEPT ![r] = [NoRequest EXCEPT
                   !.at = "verify", !.key = user.dek, !.must = user.mustChange]]
          /\ req[r].at = "none" /\ user.there /\ ~user.disabled
          /\ UNCHANGED <<user, session>>
      BY <1>1 DEF Authenticate, stored
    <2>2. /\ req'[r].at = "verify" /\ req'[r].key = user.dek
          /\ \A q \in Requests : q # r => req'[q] = req[q]
      BY <1>0, <2>1 DEF TypeOK, NoRequest
    <2>3. Pending("end") => Pending("end")'
      BY <2>1, <2>2 DEF Pending
    <2> QED
      BY <2>1, <2>2, <2>3 DEF IInv, OnlyOverlappingLogins, VerifiesTheStored, Live
  <1>2. ASSUME NEW r \in Requests, NEW i \in Ids, StartSession(r, i) PROVE Goal
    <2>1. /\ session' = [session EXCEPT ![i] =
                 [at |-> "live", key |-> req[r].key, must |-> req[r].must,
                  late |-> req[r].late]]
          /\ req[r].at = "verify" /\ UNCHANGED user /\ Done(r)
      BY <1>2 DEF StartSession, stored
    <2>2. /\ req'[r].at = "none"
          /\ \A q \in Requests : q # r => req'[q] = req[q]
      BY <1>0, <2>1, Finished
    <2>3. Pending("end") => Pending("end")'
      BY <2>1, <2>2 DEF Pending
    <2>4. ~req[r].late => user.there /\ ~user.disabled /\ req[r].key = user.dek
      BY <2>1 DEF IInv, VerifiesTheStored
    <2>5. OnlyOverlappingLogins'
      BY <1>0, <2>1, <2>3, <2>4 DEF IInv, OnlyOverlappingLogins, Live, TypeOK
    <2> QED
      BY <2>1, <2>2, <2>5 DEF IInv, VerifiesTheStored
  <1>3. ASSUME NEW i \in Ids, Logout(i) PROVE Goal
    BY <1>0, <1>3, Ended, Bystander DEF Logout, stored
  <1>4. ASSUME NEW r \in Requests, NEW i \in Ids, ChangePassword(r, i)
        PROVE  Goal
    <2>1. /\ user' = [user EXCEPT !.mustChange = FALSE]
          /\ req' = [req EXCEPT ![r].at = "clear"] /\ req[r].at = "none"
          /\ UNCHANGED session
      BY <1>4 DEF ChangePassword
    <2>2. /\ req'[r].at = "clear"
          /\ \A q \in Requests : q # r => req'[q] = req[q]
      BY <1>0, <2>1, Moved
    <2>3. Pending("end") => Pending("end")'
      BY <2>1, <2>2 DEF Pending
    <2>4. /\ user'.there = user.there /\ user'.disabled = user.disabled
          /\ user'.dek = user.dek
      BY <1>0, <2>1 DEF TypeOK
    <2> QED
      BY <2>1, <2>2, <2>3, <2>4
         DEF IInv, OnlyOverlappingLogins, VerifiesTheStored, Live
  <1>5. ASSUME NEW r \in Requests, SetMustChangePassword(r) PROVE Goal
    <2>1. UNCHANGED user /\ req[r].at = "clear" /\ Done(r)
      BY <1>5 DEF SetMustChangePassword, stored
    <2>2. \A i \in Ids : Live(i)' => Live(i) /\ session'[i].key = session[i].key
                                    /\ session'[i].late = session[i].late
      BY <1>0, <1>5 DEF SetMustChangePassword, Live, TypeOK, Session
    <2> QED
      BY <1>0, <2>1, <2>2, Finished, Bystander
  <1>6. ASSUME NEW r \in Requests,
               \/ DisableUser(r) \/ DeleteUser(r) \/ RecoverUser(r)
               \/ \E k \in Keys : ResetPassword(r, k)
        PROVE  Goal
    BY <1>0, <1>6, AdministerStep
       DEF DisableUser, DeleteUser, RecoverUser, ResetPassword
  <1>7. ASSUME NEW r \in Requests, DestroyUser(r) PROVE Goal
    <2>1. \A i \in Ids : ~Live(i)'
      BY <1>0, <1>7, Ended DEF DestroyUser
    <2>2. OnlyOverlappingLogins'
      BY <2>1 DEF OnlyOverlappingLogins
    <2>3. UNCHANGED user /\ \A q \in Requests :
              req'[q].at = "verify" => req'[q] = req[q]
      BY <1>0, <1>7, Finished DEF DestroyUser, stored
    <2> QED
      BY <2>2, <2>3 DEF IInv, VerifiesTheStored
  <1>8. CASE EnableUser
    <2>1. user' = [user EXCEPT !.disabled = FALSE]
          /\ UNCHANGED <<session, req>>
      BY <1>8 DEF EnableUser
    <2>2. user'.there = user.there /\ ~user'.disabled /\ user'.dek = user.dek
      BY <1>0, <2>1 DEF TypeOK
    <2> QED
      BY <2>1, <2>2
         DEF IInv, OnlyOverlappingLogins, VerifiesTheStored, Live, Pending
  <1>9. ASSUME NEW r \in Requests, NEW i \in Ids, NEW at, NEW op, NEW c,
               Begin(r, i, at, op, c), at \in {"discover", "store"}
        PROVE  Goal
    <2>1. /\ UNCHANGED <<user, session>> /\ req[r].at = "none"
          /\ req'[r].at # "verify"
          /\ \A q \in Requests : q # r => req'[q] = req[q]
      BY <1>0, <1>9 DEF Begin, stored, TypeOK, NoRequest
    <2> QED
      BY <1>0, <2>1, Bystander DEF Live
  <1>10. ASSUME NEW r \in Requests,
                DiscoveryFails(r) \/ TakeKey(r) \/ OpenBlob(r) \/ SealBlob(r)
         PROVE  Goal
    <2>1. /\ UNCHANGED <<user, session>> /\ req[r].at \in {"discover", "store", "seal"}
          /\ \/ Done(r) \/ req' = [req EXCEPT ![r].at = "store"]
             \/ req' = [req EXCEPT ![r].at = "seal"]
      BY <1>10 DEF DiscoveryFails, TakeKey, OpenBlob, SealBlob, stored
    <2>2. /\ req'[r].at \in {"none", "store", "seal"}
          /\ \A q \in Requests : q # r => req'[q] = req[q]
      BY <1>0, <2>1, Finished, Moved
    <2> QED
      BY <1>0, <2>1, <2>2, Bystander DEF Live
  <1>11. CASE UNCHANGED vars
    BY <1>11, Bystander DEF vars, stored, Live
  <1> HIDE DEF Goal
  <1>12. ASSUME NEW r \in Requests, NEW i \in Ids,
                \/ Touch(r, i)
                \/ \E c \in Connections :
                       Connect(r, i, c) \/ Edit(r, i, c) \/ Delete(r, i, c)
         PROVE  Goal
    BY <1>9, <1>12 DEF Touch, Connect, Edit, Delete
  <1> QED
    BY <1>1, <1>2, <1>3, <1>4, <1>5, <1>6, <1>7, <1>8, <1>10, <1>11, <1>12
       DEF Next

-----------------------------------------------------------------------------
(* The key a blob is sealed under. *)

(* No session goes back to fresh, and one that was there keeps its key or      *)
(* loses it: every buffer that was somebody's stays, or turns to zeroes.       *)
LEMMA BuffersFade ==
    ASSUME TypeOK, [Next]_vars, NEW i \in Ids, session[i].at # "fresh"
    PROVE  session'[i].at # "fresh" /\ Buffer(i)' \in {Buffer(i), Zero}
  <1> USE DEF TypeOK, Buffer, Live
  <1> DEFINE Goal == /\ session'[i].at # "fresh"
                     /\ Buffer(i)' \in {Buffer(i), Zero}
  <1> SUFFICES Goal
    OBVIOUS
  <1>1. ASSUME NEW r \in Requests, NEW j \in Ids, StartSession(r, j) PROVE Goal
    BY <1>1 DEF StartSession, Fresh
  <1>2. ASSUME NEW ids, End(ids) PROVE Goal
    BY <1>2, Ended
  <1>3. ASSUME NEW r \in Requests, SetMustChangePassword(r) PROVE Goal
    BY <1>3 DEF SetMustChangePassword, Session
  <1>4. CASE UNCHANGED session
    BY <1>4
  <1> HIDE DEF Goal
  <1>5. ASSUME NEW r \in Requests, NEW j \in Ids, NEW at, NEW op, NEW c,
               Begin(r, j, at, op, c)
        PROVE  UNCHANGED session
    BY <1>5 DEF Begin
  <1>6. ASSUME NEW r \in Requests, NEW new, Administer(r, new)
        PROVE  UNCHANGED session
    BY <1>6 DEF Administer
  <1>7. ASSUME NEW r \in Requests, NEW j \in Ids,
               \/ StartSession(r, j) \/ ChangePassword(r, j) \/ Touch(r, j)
               \/ \E c \in Connections :
                      Connect(r, j, c) \/ Edit(r, j, c) \/ Delete(r, j, c)
        PROVE  Goal
    BY <1>1, <1>4, <1>5, <1>7
       DEF ChangePassword, Touch, Connect, Edit, Delete
  <1>8. ASSUME NEW r \in Requests,
               \/ DisableUser(r) \/ DeleteUser(r) \/ RecoverUser(r)
               \/ \E k \in Keys : ResetPassword(r, k)
        PROVE  Goal
    BY <1>4, <1>6, <1>8 DEF DisableUser, DeleteUser, RecoverUser, ResetPassword
  <1>9. ASSUME NEW r \in Requests,
               \/ Authenticate(r) \/ SetMustChangePassword(r) \/ DestroyUser(r)
               \/ DiscoveryFails(r) \/ TakeKey(r) \/ OpenBlob(r) \/ SealBlob(r)
        PROVE  Goal
    BY <1>2, <1>3, <1>4, <1>9
       DEF Authenticate, DestroyUser, DiscoveryFails, TakeKey, OpenBlob, SealBlob
  <1> QED
    BY <1>2, <1>4, <1>7, <1>8, <1>9 DEF Next, Logout, EnableUser, vars

(* A step of other requests: they neither start a rewrite nor touch the blob   *)
(* while a request holds it open.                                            *)
LEMMA OtherRequests ==
    ASSUME IInv, [Next]_vars,
           (\E r \in Requests : req[r].at = "seal") => UNCHANGED <<secrets, lock>>,
           \A r \in Requests : Rewriting(r)' =>
               /\ req'[r].at = req[r].at /\ req'[r].id = req[r].id
               /\ req'[r].op = req[r].op /\ req'[r].conn = req[r].conn
    PROVE  Named' /\ SealsWhatItOpened'
  <1>0. TypeOK
    BY DEF IInv, OnlyOverlappingLogins
  <1>1. Named'
    BY <1>0, BuffersFade DEF IInv, Named, Rewriting
  <1>2. SealsWhatItOpened'
    <2> SUFFICES ASSUME NEW r \in Requests, req'[r].at = "seal"
                 PROVE  (/\ lock = r
                         /\ secrets.key # None =>
                                Buffer(req[r].id) \in {secrets.key, Zero})'
      BY DEF SealsWhatItOpened
    <2>1. /\ req[r].at = "seal" /\ req'[r].id = req[r].id
          /\ UNCHANGED <<secrets, lock>>
      BY DEF Rewriting
    <2>2. PICK i : i = req[r].id
      OBVIOUS
    <2>3. i \in Ids /\ session[i].at # "fresh"
      BY <2>1, <2>2 DEF IInv, Named, Rewriting
    <2>4. Buffer(i)' \in {Buffer(i), Zero}
      BY <1>0, <2>3, BuffersFade
    <2>5. lock = r /\ (secrets.key # None => Buffer(i) \in {secrets.key, Zero})
      BY <2>1, <2>2 DEF IInv, SealsWhatItOpened
    <2> QED
      BY <2>1, <2>2, <2>4, <2>5 DEF Buffer, Live
  <1> QED
    BY <1>1, <1>2

(* A blob keeps its key, is dropped, or is sealed with a buffer of zeroes. *)
KeyFades ==
    secrets.key # None /\ secrets'.key # None => secrets'.key \in {secrets.key, Zero}

LEMMA BlobStep ==
    ASSUME IInv, [Next]_vars
    PROVE  Named' /\ SealsWhatItOpened' /\ KeyFades
  <1> DEFINE Goal == Named' /\ SealsWhatItOpened' /\ KeyFades
  <1> SUFFICES Goal
    OBVIOUS
  <1>0. TypeOK
    BY DEF IInv, OnlyOverlappingLogins
  <1>1. ASSUME NEW r \in Requests, NEW i \in Ids, NEW at, NEW op,
               NEW c \in Connections \cup {None}, Begin(r, i, at, op, c),
               at \in {"discover", "store"}, op = "put" => c \in Connections
        PROVE  Goal
    <2>1. /\ req'[r].at = at /\ req'[r].id = i /\ req'[r].op = op
          /\ req'[r].conn = c
          /\ \A q \in Requests : q # r => req'[q] = req[q]
          /\ UNCHANGED <<secrets, lock, session>>
          /\ session[i].at = "live"
      BY <1>0, <1>1 DEF Begin, NoRequest, TypeOK, blob, Live
    <2>2. Named'
      BY <1>1, <2>1 DEF IInv, Named, Rewriting
    <2>3. SealsWhatItOpened'
      BY <1>1, <2>1 DEF IInv, SealsWhatItOpened, Buffer, Live
    <2> QED
      BY <2>1, <2>2, <2>3 DEF KeyFades
  <1>2. ASSUME NEW r \in Requests, OpenBlob(r) PROVE Goal
    <2>1. CASE Done(r) /\ UNCHANGED lock
      <3>1. UNCHANGED <<secrets, lock>>
        BY <1>2, <2>1 DEF OpenBlob
      <3>2. Named' /\ SealsWhatItOpened'
        BY <1>0, <2>1, <3>1, Finished, OtherRequests DEF Rewriting
      <3> QED
        BY <3>1, <3>2 DEF KeyFades
    <2>2. CASE lock' = r /\ Opens(Buffer(req[r].id))
               /\ req' = [req EXCEPT ![r].at = "seal"]
      <3>1. /\ UNCHANGED <<secrets, session>> /\ lock = None
            /\ req[r].at = "store"
        BY <1>2 DEF OpenBlob
      <3>2. /\ req'[r].at = "seal" /\ req'[r].id = req[r].id
            /\ req'[r].op = req[r].op /\ req'[r].conn = req[r].conn
            /\ \A q \in Requests : q # r => req'[q] = req[q]
        BY <1>0, <2>2 DEF TypeOK, Request
      <3>3. Named'
        BY <3>1, <3>2 DEF IInv, Named, Rewriting
      <3>4. \A q \in Requests : req'[q].at = "seal" => q = r
        BY <3>1, <3>2, NamesAssumption DEF IInv, SealsWhatItOpened
      <3>5. SealsWhatItOpened'
        BY <2>2, <3>1, <3>2, <3>4 DEF SealsWhatItOpened, Opens, Buffer, Live
      <3> QED
        BY <3>1, <3>3, <3>5 DEF KeyFades
    <2> QED
      BY <1>2, <2>1, <2>2 DEF OpenBlob
  <1>3. ASSUME NEW r \in Requests, SealBlob(r) PROVE Goal
    <2>1. /\ req[r].at = "seal" /\ lock = r /\ secrets'.key = Buffer(req[r].id)
          /\ Done(r) /\ UNCHANGED session
      BY <1>3 DEF IInv, SealsWhatItOpened, SealBlob
    <2>2. /\ req'[r].at = "none"
          /\ \A q \in Requests : q # r => req'[q] = req[q]
      BY <1>0, <2>1, Finished
    <2>3. \A q \in Requests : req'[q].at # "seal"
      BY <2>1, <2>2 DEF IInv, SealsWhatItOpened
    <2>4. Named'
      BY <2>1, <2>2 DEF IInv, Named, Rewriting
    <2>5. KeyFades
      BY <2>1 DEF IInv, SealsWhatItOpened, KeyFades
    <2> QED
      BY <2>3, <2>4, <2>5 DEF SealsWhatItOpened
  <1>4. ASSUME NEW r \in Requests, NEW new, Administer(r, new),
               secrets'.key = None \/ UNCHANGED secrets
        PROVE  Goal
    <2>1. \A q \in Requests : req[q].at # "seal"
      BY <1>0, <1>4, Administered, NamesAssumption DEF IInv, SealsWhatItOpened
    <2>2. ASSUME NEW q \in Requests, Rewriting(q)'
          PROVE  /\ req'[q].at = req[q].at /\ req'[q].id = req[q].id
                 /\ req'[q].op = req[q].op /\ req'[q].conn = req[q].conn
      BY <1>0, <1>4, <2>2 DEF Administer, Rewriting, TypeOK, Request, NoRequest
    <2>3. Named' /\ SealsWhatItOpened'
      BY <2>1, <2>2, OtherRequests
    <2> QED
      BY <1>4, <2>3 DEF KeyFades
  <1>5. ASSUME UNCHANGED <<secrets, lock>>,
               \A r \in Requests : Rewriting(r)' =>
                   /\ req'[r].at = req[r].at /\ req'[r].id = req[r].id
                   /\ req'[r].op = req[r].op /\ req'[r].conn = req[r].conn
        PROVE  Goal
    BY <1>5, OtherRequests DEF KeyFades
  <1>6. ASSUME NEW r \in Requests, Authenticate(r) PROVE Goal
    <2>1. req'[r].at = "verify" /\ \A q \in Requests : q # r => req'[q] = req[q]
      BY <1>0, <1>6 DEF Authenticate, TypeOK, NoRequest
    <2> QED
      BY <1>5, <1>6, <2>1 DEF Authenticate, blob, Rewriting
  <1>7. ASSUME NEW r \in Requests,
               \/ SetMustChangePassword(r) \/ DestroyUser(r) \/ DiscoveryFails(r)
               \/ \E i \in Ids : StartSession(r, i)
               \/ TakeKey(r) /\ ~Live(req[r].id)
        PROVE  Goal
    <2>1. Done(r) /\ UNCHANGED <<secrets, lock>>
      BY <1>7 DEF SetMustChangePassword, DestroyUser, DiscoveryFails,
                  StartSession, TakeKey, blob
    <2> QED
      BY <1>0, <1>5, <2>1, Finished DEF Rewriting
  <1>8. ASSUME NEW r \in Requests, NEW i \in Ids, ChangePassword(r, i)
        PROVE  Goal
    <2>1. /\ req'[r].at = "clear" /\ UNCHANGED <<secrets, lock>>
          /\ \A q \in Requests : q # r => req'[q] = req[q]
      BY <1>0, <1>8, Moved DEF ChangePassword, blob
    <2> QED
      BY <1>5, <2>1 DEF Rewriting
  <1>9. ASSUME NEW r \in Requests, TakeKey(r), Live(req[r].id) PROVE Goal
    <2>1. /\ req[r].at = "discover" /\ UNCHANGED <<secrets, lock, session>>
          /\ req' = [req EXCEPT ![r].at = "store"]
      BY <1>9 DEF TakeKey, blob
    <2>2. /\ req'[r].at = "store" /\ req'[r].id = req[r].id
          /\ req'[r].op = req[r].op /\ req'[r].conn = req[r].conn
          /\ \A q \in Requests : q # r => req'[q] = req[q]
      BY <1>0, <2>1 DEF TypeOK, Request
    <2>3. Named'
      BY <2>1, <2>2 DEF IInv, Named, Rewriting
    <2>4. SealsWhatItOpened'
      BY <2>1, <2>2 DEF IInv, SealsWhatItOpened, Buffer, Live
    <2> QED
      BY <2>1, <2>3, <2>4 DEF KeyFades
  <1>10. CASE EnableUser \/ UNCHANGED vars \/ \E i \in Ids : Logout(i)
    BY <1>5, <1>10 DEF EnableUser, Logout, vars, blob
  <1> HIDE DEF Goal
  <1>11. ASSUME NEW r \in Requests, NEW i \in Ids,
                \/ Touch(r, i)
                \/ \E c \in Connections :
                       Connect(r, i, c) \/ Edit(r, i, c) \/ Delete(r, i, c)
         PROVE  Goal
    BY <1>1, <1>11 DEF Touch, Connect, Edit, Delete
  <1>12. ASSUME NEW r \in Requests,
                \/ DisableUser(r) \/ DeleteUser(r) \/ RecoverUser(r)
                \/ \E k \in Keys : ResetPassword(r, k)
         PROVE  Goal
    <2>1. CASE DisableUser(r) \/ RecoverUser(r)
      BY <1>4, <2>1 DEF DisableUser, RecoverUser
    <2>2. CASE DeleteUser(r)
      BY <1>4, <2>2 DEF DeleteUser
    <2>3. ASSUME NEW k \in Keys, ResetPassword(r, k) PROVE Goal
      BY <1>4, <2>3 DEF ResetPassword
    <2> QED
      BY <1>12, <2>1, <2>2, <2>3
  <1>13. ASSUME NEW r \in Requests, TakeKey(r) PROVE Goal
    BY <1>7, <1>9, <1>13
  <1> QED
    BY <1>2, <1>3, <1>6, <1>7, <1>8, <1>10, <1>11, <1>12, <1>13 DEF Next

-----------------------------------------------------------------------------
LEMMA Start == Init => IInv
  <1> SUFFICES ASSUME Init PROVE IInv
    OBVIOUS
  <1> USE NamesAssumption DEF Init
  <1>1. Fresh \in Session /\ NoRequest \in Request
    BY DEF Fresh, Session, NoRequest, Request
  <1>2. TypeOK
    BY <1>1 DEF TypeOK
  <1>3. \A i \in Ids : ~Live(i)
    BY DEF Live, Fresh
  <1> QED
    BY <1>2, <1>3 DEF IInv, OnlyOverlappingLogins, VerifiesTheStored, Named,
                      Rewriting, SealsWhatItOpened, NoRequest

LEMMA Inductive == IInv /\ [Next]_vars => IInv'
  <1> SUFFICES ASSUME IInv, [Next]_vars PROVE IInv'
    OBVIOUS
  <1>1. TypeOK'
    BY TypeStep DEF IInv, OnlyOverlappingLogins
  <1> QED
    BY <1>1, LoginsStep, BlobStep DEF IInv

LEMMA Invariance == Spec => []IInv
  BY Start, Inductive, PTL DEF Spec

(* Once the administrator's request has ended an account's sessions, the only   *)
(* ones left that do not fit the account come from a login it overlapped.      *)
THEOREM OnlyOverlapping == Spec => []OnlyOverlappingLogins
  <1>1. IInv => OnlyOverlappingLogins
    BY DEF IInv
  <1> QED
    BY <1>1, Invariance, PTL

(* A session from before a reset never replaces a blob sealed since: a blob    *)
(* keeps its key until it is dropped, unless a buffer was zeroed under a        *)
(* request.                                                                   *)
THEOREM StaleIsHarmless == Spec => StaleNeverOverwrites
  <1>1. IInv /\ [Next]_vars => KeyFades
    BY BlobStep
  <1> QED
    BY <1>1, Invariance, PTL DEF Spec, StaleNeverOverwrites, KeyFades
=============================================================================
