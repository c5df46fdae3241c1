------------------------ MODULE SessionManagerProofs ------------------------
(***************************************************************************)
(* Theorems about SessionManager, for any users, requests, files, lifetimes   *)
(* and identifiers: the indexes agree, every key is held by one session or    *)
(* zeroed, every temporary file is somebody's, and rotation does not extend    *)
(* the life of a key.                                                       *)
(*                                                                         *)
(* What makes them inductive is that an identifier not drawn yet has left no   *)
(* trace (Drawn), that a file in a request's hands is nobody else's (Hands),   *)
(* and that a key is never older than the session that holds it (Ages).      *)
(***************************************************************************)
EXTENDS SessionManager, TLAPS

Drawn ==
    /\ \A i \in sessions : user[i] \in Users
    /\ zeroed \subseteq made
    /\ \A i \in Ids : dek[i] # None => dek[i] \in made
    /\ \A k \in made : user[k] # None
    /\ \A i \in Ids : draft[i] # None => user[i] # None

Holds(r) == req[r].at \in {"uploading", "cropping"}
Hands ==
    \A r \in Requests :
        /\ req[r].at = "working" \/ Holds(r) =>
               req[r].id \in Ids /\ user[req[r].id] # None
        /\ ~Holds(r) => req[r].file = None
        /\ Holds(r) =>
               /\ req[r].file \in files
               /\ \A i \in Ids : draft[i] # req[r].file
               /\ \A q \in Requests : req[q].file = req[r].file => q = r

Ages ==
    /\ \A i \in sessions : held[dek[i]] <= life[i]
    /\ \A k \in Ids \ made : held[k] = 0

IInv == IndexesAgree /\ KeysAccounted /\ DraftFiles /\ Drawn /\ Hands /\ Ages

-----------------------------------------------------------------------------
(* An identifier that is fresh belongs to nobody and nothing. *)
LEMMA FreshIsUnused ==
    ASSUME IInv, NEW i \in Ids, Fresh(i)
    PROVE  /\ user[i] = None /\ i \notin sessions /\ i \notin made
           /\ i \notin zeroed /\ dek[i] = None /\ draft[i] = None
           /\ held[i] = 0
           /\ \A j \in Ids : dek[j] # i
  <1>1. ~(i < i)
    BY IdsAssumption
  <1>2. user[i] = None
    BY <1>1 DEF Fresh
  <1> QED
    BY <1>2, NoneAssumption
       DEF IInv, IndexesAgree, TypeOK, KeysAccounted, Drawn, Ages

(* Sessions end: what remove takes away, it takes away whole. *)
LEMMA RemoveStep ==
    ASSUME IInv, NEW gone, gone \subseteq sessions, Remove(gone), UNCHANGED req,
           phase # "exited", phase' \in {"running", "draining", "exited"},
           sweeper' \in BOOLEAN, phase' = "exited" => gone = sessions
    PROVE  IInv'
  <1> USE DEF IInv, Remove
  <1>1. TypeOK'
    <2>1. /\ sessions' \in SUBSET Ids /\ byUser' \in [Users -> SUBSET Ids]
          /\ dek' \in [Ids -> Ids \cup {None}] /\ dead' \in SUBSET Ids
      BY DEF IndexesAgree, TypeOK
    <2>2. zeroed' \in SUBSET Ids
      BY DEF IndexesAgree, TypeOK
    <2>3. draft' \in [Ids -> Files \cup {None}] /\ files' \in SUBSET Files
      BY DEF IndexesAgree, TypeOK
    <2> QED
      BY <2>1, <2>2, <2>3 DEF IndexesAgree, TypeOK, clocks
  <1>2. IndexesAgree'
    BY <1>1 DEF IndexesAgree, TypeOK
  <1>3. KeysAccounted'
    <2> USE DEF IndexesAgree, TypeOK
    <2>1. \A i \in Ids : dek'[i] = IF i \in gone THEN None ELSE dek[i]
      OBVIOUS
    <2>2. \A i \in sessions' : dek'[i] # None /\ dek'[i] \notin zeroed'
      BY <2>1 DEF KeysAccounted
    <2>3. \A i, j \in sessions' : dek'[i] = dek'[j] => i = j
      BY <2>1 DEF KeysAccounted
    <2>4. \A i \in Ids : dek'[i] # None => i \in sessions'
      BY <2>1 DEF KeysAccounted
    <2>5. ASSUME NEW k \in made' \ zeroed'
          PROVE  \E i \in sessions' : dek'[i] = k
      <3>1. PICK i \in sessions : dek[i] = k
        BY DEF KeysAccounted
      <3>2. k # None
        BY <3>1 DEF KeysAccounted
      <3>3. i \notin gone
        BY <3>1, <3>2
      <3> QED
        BY <2>1, <3>1, <3>3
    <2>6. phase' = "exited" => made' \subseteq zeroed'
      BY <2>5
    <2> QED
      BY <2>2, <2>3, <2>4, <2>5, <2>6 DEF KeysAccounted
  <1>4. \A i \in Ids : draft'[i] = IF i \in gone THEN None ELSE draft[i]
    BY DEF IndexesAgree, TypeOK
  <1>5. DraftFiles'
    <2>1. ASSUME NEW f \in files'
          PROVE  (\E i \in Ids : draft'[i] = f) \/ (\E r \in Requests : req'[r].file = f)
      <3>1. CASE \E i \in Ids : draft[i] = f
        BY <1>4, <3>1
      <3>2. CASE \E r \in Requests : req[r].file = f
        BY <3>2
      <3> QED
        BY <3>1, <3>2 DEF DraftFiles
    <2>2. \A i \in Ids : draft'[i] # None => draft'[i] \in files'
      BY <1>4 DEF DraftFiles, IndexesAgree, TypeOK
    <2>3. \A i, j \in Ids : draft'[i] # None /\ draft'[i] = draft'[j] => i = j
      BY <1>4 DEF DraftFiles
    <2> QED
      BY <2>1, <2>2, <2>3 DEF DraftFiles
  <1>6. Drawn'
    BY <1>4 DEF Drawn, IndexesAgree, TypeOK
  <1>7. Hands'
    <2> SUFFICES ASSUME NEW r \in Requests
                 PROVE  (/\ req[r].at = "working" \/ Holds(r) =>
                                req[r].id \in Ids /\ user[req[r].id] # None
                         /\ ~Holds(r) => req[r].file = None
                         /\ Holds(r) =>
                                /\ req[r].file \in files
                                /\ \A i \in Ids : draft[i] # req[r].file
                                /\ \A q \in Requests :
                                       req[q].file = req[r].file => q = r)'
      BY DEF Hands
    <2>1. Holds(r) => /\ req[r].file # None
                      /\ \A i \in Ids : draft'[i] # req[r].file
                      /\ req[r].file \in files'
      BY <1>4, NoneAssumption DEF Hands, IndexesAgree, TypeOK
    <2> QED
      BY <2>1 DEF Hands, Holds
  <1>8. Ages'
    BY DEF Ages, clocks, IndexesAgree, TypeOK
  <1> QED
    BY <1>2, <1>3, <1>5, <1>6, <1>7, <1>8

(* A new session, under an identifier and a key that nobody knows.         *)
LEMMA CreateStep ==
    ASSUME IInv, NEW r \in Requests, NEW u \in Users, NEW i \in Ids,
           Create(r, u, i)
    PROVE  IInv'
  <1> USE NoneAssumption DEF IInv
  <1>0. /\ user[i] = None /\ i \notin sessions /\ i \notin made
        /\ i \notin zeroed /\ dek[i] = None /\ draft[i] = None /\ held[i] = 0
        /\ \A j \in Ids : dek[j] # i
    BY FreshIsUnused DEF Create
  <1>1. /\ sessions' = sessions \cup {i}
        /\ byUser' = [byUser EXCEPT ![u] = @ \cup {i}]
        /\ user' = [user EXCEPT ![i] = u] /\ dek' = [dek EXCEPT ![i] = i]
        /\ req' = [req EXCEPT ![r] = NoRequest] /\ made' = made \cup {i}
        /\ req[r].at = "login" /\ phase # "exited"
        /\ UNCHANGED <<dead, quiet, life, held, zeroed, draft, files, phase,
                       sweeper>>
    BY DEF Create, Insert, clocks, scratch, process
  <1>2. TypeOK'
    BY <1>1 DEF IndexesAgree, TypeOK, NoRequest
  <1>3. IndexesAgree'
    BY <1>0, <1>1, <1>2 DEF IndexesAgree, TypeOK
  <1>4. KeysAccounted'
    <2> USE DEF IndexesAgree, TypeOK
    <2>1. \A j \in Ids : dek'[j] = IF j = i THEN i ELSE dek[j]
      BY <1>1
    <2>2. \A j \in sessions' : dek'[j] # None /\ dek'[j] \notin zeroed'
      BY <1>0, <1>1, <2>1 DEF KeysAccounted
    <2>3. \A j, k \in sessions' : dek'[j] = dek'[k] => j = k
      BY <1>0, <1>1, <2>1 DEF KeysAccounted
    <2>4. \A j \in Ids : dek'[j] # None => j \in sessions'
      BY <1>1, <2>1 DEF KeysAccounted
    <2>5. ASSUME NEW k \in made' \ zeroed'
          PROVE  \E j \in sessions' : dek'[j] = k
      <3>1. CASE k = i
        BY <1>1, <2>1, <3>1
      <3>2. CASE k # i
        BY <1>0, <1>1, <2>1, <3>2 DEF KeysAccounted
      <3> QED
        BY <3>1, <3>2
    <2> QED
      BY <1>1, <2>2, <2>3, <2>4, <2>5 DEF KeysAccounted
  <1>5. req[r].file = None /\ ~Holds(r)
    BY <1>1 DEF Hands, Holds
  <1>6. /\ req'[r] = NoRequest
        /\ \A q \in Requests : q # r => req'[q] = req[q]
    BY <1>1 DEF IndexesAgree, TypeOK
  <1>7. \A f \in files : f # None
    BY DEF IndexesAgree, TypeOK
  <1>8. DraftFiles'
    BY <1>1, <1>5, <1>6, <1>7 DEF DraftFiles
  <1>9. Drawn'
    BY <1>0, <1>1 DEF Drawn, IndexesAgree, TypeOK
  <1>10. Hands'
    BY <1>1, <1>5, <1>6, <1>7 DEF Hands, Holds, NoRequest, IndexesAgree, TypeOK
  <1>11. Ages'
    BY <1>0, <1>1 DEF Ages, IndexesAgree, TypeOK
  <1> QED
    BY <1>3, <1>4, <1>8, <1>9, <1>10, <1>11

(* Rotation hands key, age and draft on to a new identifier.               *)
LEMMA RotateStep ==
    ASSUME IInv, NEW i \in Ids, NEW j \in Ids, Rotate(i, j)
    PROVE  IInv'
  <1> USE NoneAssumption DEF IInv
  <1>0. /\ user[j] = None /\ j \notin sessions /\ j \notin made
        /\ dek[j] = None /\ draft[j] = None /\ i # j
    BY FreshIsUnused DEF Rotate
  <1>1. /\ i \in sessions /\ phase # "exited"
        /\ sessions' = (sessions \ {i}) \cup {j}
        /\ byUser' = [byUser EXCEPT ![user[i]] = (@ \ {i}) \cup {j}]
        /\ user' = [user EXCEPT ![j] = user[i]]
        /\ dek' = [dek EXCEPT ![i] = None, ![j] = dek[i]]
        /\ dead' = dead \cup {i}
        /\ life' = [life EXCEPT ![j] = life[i]]
        /\ draft' = [draft EXCEPT ![i] = None, ![j] = draft[i]]
        /\ UNCHANGED <<quiet, held, made, zeroed, files, req, phase, sweeper>>
    BY DEF Rotate, keys, process
  <1>2. user[i] \in Users
    BY <1>1 DEF Drawn
  <1>3. TypeOK'
    BY <1>1, <1>2 DEF IndexesAgree, TypeOK
  <1>4. IndexesAgree'
    BY <1>0, <1>1, <1>2, <1>3 DEF IndexesAgree, TypeOK
  <1>5. /\ \A k \in Ids : dek'[k] = IF k = j THEN dek[i]
                                    ELSE IF k = i THEN None ELSE dek[k]
        /\ \A k \in Ids : draft'[k] = IF k = j THEN draft[i]
                                      ELSE IF k = i THEN None ELSE draft[k]
    BY <1>0, <1>1 DEF IndexesAgree, TypeOK
  <1>6. KeysAccounted'
    <2> USE DEF IndexesAgree, TypeOK
    <2>1. \A k \in sessions' : dek'[k] # None /\ dek'[k] \notin zeroed'
      BY <1>0, <1>1, <1>5 DEF KeysAccounted
    <2>2. \A k, l \in sessions' : dek'[k] = dek'[l] => k = l
      BY <1>0, <1>1, <1>5 DEF KeysAccounted
    <2>3. \A k \in Ids : dek'[k] # None => k \in sessions'
      BY <1>0, <1>1, <1>5 DEF KeysAccounted
    <2>4. ASSUME NEW k \in made' \ zeroed'
          PROVE  \E l \in sessions' : dek'[l] = k
      <3>1. PICK l \in sessions : dek[l] = k
        BY <1>1 DEF KeysAccounted
      <3>2. CASE l = i
        BY <1>1, <1>5, <3>1, <3>2
      <3>3. CASE l # i
        BY <1>0, <1>1, <1>5, <3>1, <3>3
      <3> QED
        BY <3>2, <3>3
    <2> QED
      BY <1>1, <2>1, <2>2, <2>3, <2>4 DEF KeysAccounted
  <1>7. DraftFiles'
    <2>1. ASSUME NEW f \in files'
          PROVE  (\E k \in Ids : draft'[k] = f) \/ (\E r \in Requests : req'[r].file = f)
      <3>1. CASE \E k \in Ids : draft[k] = f
        <4>1. PICK k \in Ids : draft[k] = f
          BY <3>1
        <4>2. f # None
          BY <1>1 DEF IndexesAgree, TypeOK
        <4>3. CASE k = i
          BY <1>5, <4>1, <4>3
        <4>4. CASE k # i
          BY <1>0, <1>5, <4>1, <4>2, <4>4
        <4> QED
          BY <4>3, <4>4
      <3>2. CASE \E r \in Requests : req[r].file = f
        BY <1>1, <3>2
      <3> QED
        BY <1>1, <3>1, <3>2 DEF DraftFiles
    <2>2. \A k \in Ids : draft'[k] # None => draft'[k] \in files'
      BY <1>1, <1>5 DEF DraftFiles, IndexesAgree, TypeOK
    <2>3. \A k, l \in Ids : draft'[k] # None /\ draft'[k] = draft'[l] => k = l
      BY <1>0, <1>5 DEF DraftFiles
    <2> QED
      BY <2>1, <2>2, <2>3 DEF DraftFiles
  <1>8. Drawn'
    <2> USE DEF IndexesAgree, TypeOK
    <2>1. \A k \in Ids : user[k] # None => user'[k] = user[k]
      BY <1>0, <1>1
    <2>2. user'[j] = user[i]
      BY <1>1
    <2>3. \A k \in sessions' : user'[k] \in Users
      BY <1>1, <1>2, <2>1, <2>2 DEF Drawn
    <2>4. \A k \in Ids : dek'[k] # None => dek'[k] \in made'
      BY <1>1, <1>5 DEF Drawn
    <2>5. \A k \in made' : user'[k] # None
      BY <1>1, <2>1 DEF Drawn
    <2>6. \A k \in Ids : draft'[k] # None => user'[k] # None
      BY <1>2, <1>5, <2>1, <2>2 DEF Drawn
    <2> QED
      BY <1>1, <2>3, <2>4, <2>5, <2>6 DEF Drawn
  <1>9. Hands'
    <2>1. \A k \in Ids : user[k] # None => user'[k] # None
      BY <1>0, <1>1, <1>2 DEF IndexesAgree, TypeOK
    <2>2. ASSUME NEW r \in Requests, Holds(r), NEW k \in Ids
          PROVE  draft'[k] # req[r].file
      <3>1. req[r].file # None
        BY <2>2 DEF Hands, IndexesAgree, TypeOK
      <3> QED
        BY <1>5, <2>2, <3>1 DEF Hands
    <2> QED
      BY <1>1, <2>1, <2>2 DEF Hands, Holds
  <1>10. Ages'
    <2>1. \A k \in sessions' : held[dek'[k]] <= life'[k]
      BY <1>0, <1>1, <1>5 DEF Ages, IndexesAgree, TypeOK
    <2> QED
      BY <1>1, <2>1 DEF Ages
  <1> QED
    BY <1>4, <1>6, <1>7, <1>8, <1>9, <1>10

(* Time: a key ages no faster than the session that holds it.              *)
LEMMA TickStep == ASSUME IInv, Tick PROVE IInv'
  <1> USE DEF IInv
  <1>1. /\ quiet' = [i \in Ids |-> IF dek[i] # None /\ quiet[i] < Idle
                                   THEN quiet[i] + 1 ELSE quiet[i]]
        /\ life' = [i \in Ids |-> IF dek[i] # None /\ life[i] < Absolute
                                  THEN life[i] + 1 ELSE life[i]]
        /\ held' = [k \in Ids |->
                       IF held[k] < Absolute /\ \E i \in Ids : dek[i] = k
                       THEN held[k] + 1 ELSE held[k]]
        /\ UNCHANGED <<sessions, byUser, user, dek, dead, made, zeroed, draft,
                       files, req, phase, sweeper>>
    BY DEF Tick, tables, keys, scratch, process
  <1>2. /\ quiet' \in [Ids -> 0 .. Idle] /\ life' \in [Ids -> 0 .. Absolute]
        /\ held' \in [Ids -> 0 .. Absolute]
    BY <1>1, LifetimeAssumption DEF IndexesAgree, TypeOK
  <1>3. IndexesAgree'
    BY <1>1, <1>2 DEF IndexesAgree, TypeOK
  <1>4. KeysAccounted' /\ DraftFiles' /\ Drawn' /\ Hands'
    BY <1>1 DEF KeysAccounted, DraftFiles, Drawn, Hands, Holds
  <1>5. Ages'
    <2>1. ASSUME NEW i \in sessions PROVE held'[dek[i]] <= life'[i]
      <3>1. /\ i \in Ids /\ dek[i] \in Ids /\ dek[i] # None
            /\ life[i] \in 0 .. Absolute /\ held[dek[i]] \in 0 .. Absolute
            /\ held[dek[i]] <= life[i]
        BY DEF IndexesAgree, TypeOK, KeysAccounted, Ages
      <3>2. life'[i] = IF life[i] < Absolute THEN life[i] + 1 ELSE life[i]
        BY <1>1, <3>1
      <3>3. held'[dek[i]] \in {held[dek[i]], held[dek[i]] + 1}
            /\ held'[dek[i]] \in 0 .. Absolute
        BY <1>1, <1>2, <3>1
      <3> QED
        BY <3>1, <3>2, <3>3, LifetimeAssumption
    <2>2. ASSUME NEW k \in Ids \ made PROVE held'[k] = 0
      BY <1>1, NoneAssumption DEF Drawn, Ages
    <2> QED
      BY <1>1, <2>1, <2>2 DEF Ages
  <1> QED
    BY <1>3, <1>4, <1>5

-----------------------------------------------------------------------------
(* Requests and their files. *)

(* A step of one request that leaves the sessions alone disturbs DraftFiles    *)
(* and Hands only.                                                           *)
LEMMA RequestKeeps ==
    ASSUME IInv, NEW r \in Requests, NEW new,
           req' = [req EXCEPT ![r] = new],
           new \in [at : {"none", "login", "working", "uploading", "cropping"},
                    id : Ids \cup {None}, file : Files \cup {None}],
           UNCHANGED <<tables, life, held, keys, process>>,
           quiet' \in [Ids -> 0 .. Idle],
           draft' \in [Ids -> Files \cup {None}], files' \in SUBSET Files,
           \A i \in Ids : draft'[i] # None => user[i] # None,
           DraftFiles', Hands'
    PROVE  IInv'
  BY DEF IInv, IndexesAgree, TypeOK, KeysAccounted, Drawn, Ages, tables, keys,
         process

(* A request that holds no file comes, goes, or is admitted. *)
LEMMA EmptyHanded ==
    ASSUME IInv, NEW r \in Requests, BeginLogin(r) \/ Leave(r) \/ \E i \in Ids : Admit(r, i)
    PROVE  IInv'
  <1> USE NoneAssumption DEF IInv
  <1> DEFINE Empty(new) ==
          /\ new \in [at : {"none", "login", "working"}, id : Ids \cup {None},
                      file : {None}]
          /\ new.at = "working" => new.id \in Ids /\ user[new.id] # None
  <1>1. req[r].file = None /\ req[r].at \in {"none", "login", "working"}
    BY DEF BeginLogin, Leave, Admit, Hands, Holds
  <1>2. PICK new : Empty(new) /\ req' = [req EXCEPT ![r] = new]
    <2>1. CASE BeginLogin(r)
      <3>1. Empty([req[r] EXCEPT !.at = "login"])
        BY <1>1 DEF IndexesAgree, TypeOK
      <3> QED
        BY <2>1, <3>1 DEF BeginLogin
    <2>2. CASE Leave(r)
      <3>1. Empty(NoRequest)
        BY DEF NoRequest
      <3> QED
        BY <2>2, <3>1 DEF Leave
    <2>3. ASSUME NEW i \in Ids, Admit(r, i)
          PROVE  \E new : Empty(new) /\ req' = [req EXCEPT ![r] = new]
      <3>1. user[i] # None
        BY <2>3 DEF Admit, Drawn
      <3>2. Empty([at |-> "working", id |-> i, file |-> None])
        BY <3>1
      <3> QED
        BY <2>3, <3>2 DEF Admit
    <2> QED
      BY <2>1, <2>2, <2>3
  <1>3. /\ UNCHANGED <<tables, life, held, keys, scratch, process>>
        /\ quiet' \in [Ids -> 0 .. Idle]
    BY LifetimeAssumption DEF BeginLogin, Leave, Admit, clocks, IndexesAgree,
                              TypeOK
  <1>4. /\ req'[r] = new
        /\ \A q \in Requests : q # r => req'[q] = req[q]
    BY <1>2 DEF IndexesAgree, TypeOK
  <1>5. DraftFiles'
    <2>1. \A f \in files : f # None
      BY DEF IndexesAgree, TypeOK
    <2> QED
      BY <1>1, <1>3, <1>4, <2>1 DEF DraftFiles, scratch
  <1>6. Hands'
    BY <1>1, <1>2, <1>3, <1>4 DEF Hands, Holds, scratch, tables, IndexesAgree,
                                  TypeOK
  <1>7. \A i \in Ids : draft'[i] # None => user[i] # None
    BY <1>3 DEF scratch, Drawn
  <1>8. draft' \in [Ids -> Files \cup {None}] /\ files' \in SUBSET Files
    BY <1>3 DEF scratch, IndexesAgree, TypeOK
  <1> QED
    BY <1>2, <1>3, <1>5, <1>6, <1>7, <1>8, RequestKeeps

(* A file is created, and the request has it. *)
LEMMA UploadStep ==
    ASSUME IInv, NEW r \in Requests, NEW f \in Files, Upload(r, f) PROVE IInv'
  <1> USE NoneAssumption DEF IInv
  <1> DEFINE new == [req[r] EXCEPT !.at = "uploading", !.file = f]
  <1>1. /\ req[r].at = "working" /\ f \notin files /\ files' = files \cup {f}
        /\ req' = [req EXCEPT ![r] = new]
        /\ UNCHANGED <<tables, clocks, keys, draft, process>>
    BY DEF Upload
  <1>2. /\ req[r].file = None /\ req[r].id \in Ids /\ user[req[r].id] # None
    BY <1>1 DEF Hands, Holds
  <1>3. /\ new \in [at : {"none", "login", "working", "uploading", "cropping"},
                    id : Ids \cup {None}, file : Files \cup {None}]
        /\ new.at = "uploading" /\ new.file = f /\ new.id = req[r].id
    <2>1. req[r] \in [at : {"none", "login", "working", "uploading", "cropping"},
                      id : Ids \cup {None}, file : Files \cup {None}]
      BY DEF IndexesAgree, TypeOK
    <2> QED
      BY <2>1
  <1> HIDE DEF new
  <1>4. req'[r] = new /\ \A q \in Requests : q # r => req'[q] = req[q]
    BY <1>1 DEF IndexesAgree, TypeOK
  <1>5. \A i \in Ids : draft[i] # f
    BY <1>1 DEF DraftFiles
  <1>6. \A q \in Requests : q # r => req[q].file # f
    BY <1>1 DEF Hands
  <1>7. DraftFiles'
    BY <1>1, <1>2, <1>3, <1>4 DEF DraftFiles, IndexesAgree, TypeOK
  <1>8. Hands'
    BY <1>1, <1>2, <1>3, <1>4, <1>5, <1>6 DEF Hands, Holds, tables
  <1>9. /\ draft' \in [Ids -> Files \cup {None}] /\ files' \in SUBSET Files
        /\ quiet' \in [Ids -> 0 .. Idle]
        /\ \A i \in Ids : draft'[i] # None => user[i] # None
        /\ UNCHANGED <<life, held>>
    BY <1>1 DEF IndexesAgree, TypeOK, Drawn, clocks
  <1> QED
    BY <1>1, <1>3, <1>7, <1>8, <1>9, RequestKeeps

(* The request deletes its file, or makes it the draft of its session, whose   *)
(* former draft goes.                                                        *)
LEMMA LetGoStep ==
    ASSUME IInv, NEW r \in Requests, RemoveFile(r) \/ PutPhotoDraft(r) PROVE IInv'
  <1> USE NoneAssumption DEF IInv
  <1>0. PICK i : i = req[r].id
    OBVIOUS
  <1>1. /\ Holds(r) /\ req' = [req EXCEPT ![r] = NoRequest]
        /\ UNCHANGED <<tables, clocks, keys, process>>
        /\ \/ files' = files \ {req[r].file} /\ draft' = draft
           \/ /\ files' = files \ {draft[i]}
              /\ draft' = [draft EXCEPT ![i] = req[r].file]
    BY <1>0 DEF RemoveFile, PutPhotoDraft, Holds
  <1>2. /\ i \in Ids /\ user[i] # None /\ req[r].file \in files
        /\ req[r].file # None
        /\ \A j \in Ids : draft[j] # req[r].file
        /\ \A q \in Requests : req[q].file = req[r].file => q = r
    BY <1>0, <1>1 DEF Hands, IndexesAgree, TypeOK
  <1>3. /\ NoRequest \in [at : {"none", "login", "working", "uploading", "cropping"},
                          id : Ids \cup {None}, file : Files \cup {None}]
        /\ NoRequest.at = "none" /\ NoRequest.file = None
    BY DEF NoRequest
  <1>4. req'[r] = NoRequest /\ \A q \in Requests : q # r => req'[q] = req[q]
    BY <1>1 DEF IndexesAgree, TypeOK
  <1>5. \A j \in Ids : draft'[j] = draft[j] \/ (j = i /\ draft'[j] = req[r].file)
    BY <1>1 DEF IndexesAgree, TypeOK
  <1>6. CASE files' = files \ {req[r].file} /\ draft' = draft
    <2>1. DraftFiles'
      BY <1>2, <1>3, <1>4, <1>6 DEF DraftFiles
    <2>2. Hands'
      <3>1. ASSUME NEW q \in Requests, q # r, Holds(q)
            PROVE  /\ req[q].file \in files' /\ req[q].file # None
                   /\ \A j \in Ids : draft'[j] # req[q].file
        BY <1>2, <1>6, <3>1 DEF Hands, IndexesAgree, TypeOK
      <3>2. UNCHANGED user
        BY <1>1 DEF tables
      <3> QED
        BY <1>2, <1>3, <1>4, <3>1, <3>2 DEF Hands, Holds
    <2>3. /\ draft' \in [Ids -> Files \cup {None}] /\ files' \in SUBSET Files
          /\ quiet' \in [Ids -> 0 .. Idle]
          /\ \A j \in Ids : draft'[j] # None => user[j] # None
          /\ UNCHANGED <<life, held>>
      BY <1>1, <1>6 DEF IndexesAgree, TypeOK, Drawn, clocks
    <2> QED
      BY <1>1, <1>3, <2>1, <2>2, <2>3, RequestKeeps
  <1>7. CASE files' = files \ {draft[i]} /\ draft' = [draft EXCEPT ![i] = req[r].file]
    <2>1. \A j \in Ids : draft'[j] = IF j = i THEN req[r].file ELSE draft[j]
      BY <1>7 DEF IndexesAgree, TypeOK
    <2>2. DraftFiles'
      <3>1. ASSUME NEW f \in files'
            PROVE  (\E j \in Ids : draft'[j] = f) \/ (\E q \in Requests : req'[q].file = f)
        <4>1. f \in files /\ f # draft[i]
          BY <1>7
        <4>2. CASE \E j \in Ids : draft[j] = f
          BY <2>1, <4>1, <4>2
        <4>3. CASE \E q \in Requests : req[q].file = f
          <5>1. PICK q \in Requests : req[q].file = f
            BY <4>3
          <5>2. CASE q = r
            BY <1>2, <2>1, <5>1, <5>2
          <5>3. CASE q # r
            BY <1>4, <5>1, <5>3
          <5> QED
            BY <5>2, <5>3
        <4> QED
          BY <4>1, <4>2, <4>3 DEF DraftFiles
      <3>2. \A j \in Ids : draft'[j] # None => draft'[j] \in files'
        BY <1>2, <1>7, <2>1 DEF DraftFiles
      <3>3. \A j, k \in Ids : draft'[j] # None /\ draft'[j] = draft'[k] => j = k
        BY <1>2, <2>1 DEF DraftFiles
      <3> QED
        BY <3>1, <3>2, <3>3 DEF DraftFiles
    <2>3. Hands'
      <3>1. ASSUME NEW q \in Requests, q # r, Holds(q)
            PROVE  /\ req[q].file \in files' /\ req[q].file # None
                   /\ \A j \in Ids : draft'[j] # req[q].file
        BY <1>2, <1>7, <2>1, <3>1 DEF Hands, IndexesAgree, TypeOK
      <3>2. UNCHANGED user
        BY <1>1 DEF tables
      <3> QED
        BY <1>2, <1>3, <1>4, <3>1, <3>2 DEF Hands, Holds
    <2>4. /\ draft' \in [Ids -> Files \cup {None}] /\ files' \in SUBSET Files
          /\ quiet' \in [Ids -> 0 .. Idle] /\ UNCHANGED <<life, held>>
      BY <1>1, <1>2, <1>7 DEF IndexesAgree, TypeOK, clocks
    <2>5. \A j \in Ids : draft'[j] # None => user[j] # None
      BY <1>2, <2>1 DEF Drawn
    <2> QED
      BY <1>1, <1>3, <2>2, <2>3, <2>4, <2>5, RequestKeeps
  <1> QED
    BY <1>1, <1>6, <1>7

(* The request takes the draft of its session over, or deletes it.         *)
LEMMA TakeOverStep ==
    ASSUME IInv, NEW r \in Requests, TakePhotoDraft(r) \/ ClearPhotoDraft(r)
    PROVE  IInv'
  <1> USE NoneAssumption DEF IInv
  <1>0. PICK i : i = req[r].id
    OBVIOUS
  <1> DEFINE new == [req[r] EXCEPT !.at = "cropping", !.file = draft[i]]
  <1>1. /\ req[r].at = "working" /\ draft[i] # None
        /\ draft' = [draft EXCEPT ![i] = None]
        /\ UNCHANGED <<tables, clocks, keys, process>>
        /\ \/ files' = files /\ req' = [req EXCEPT ![r] = new]
           \/ files' = files \ {draft[i]} /\ req' = req
    BY <1>0 DEF TakePhotoDraft, ClearPhotoDraft
  <1>2. i \in Ids /\ user[i] # None /\ req[r].file = None /\ draft[i] \in files
    BY <1>0, <1>1 DEF Hands, Holds, DraftFiles
  <1>3. /\ new \in [at : {"none", "login", "working", "uploading", "cropping"},
                    id : Ids \cup {None}, file : Files \cup {None}]
        /\ new.at = "cropping" /\ new.file = draft[i] /\ new.id = i
    <2>1. /\ req[r] \in [at : {"none", "login", "working", "uploading", "cropping"},
                         id : Ids \cup {None}, file : Files \cup {None}]
          /\ draft[i] \in Files \cup {None}
      BY <1>2 DEF IndexesAgree, TypeOK
    <2> QED
      BY <1>0, <2>1
  <1> HIDE DEF new
  <1>4. \A j \in Ids : draft'[j] = IF j = i THEN None ELSE draft[j]
    BY <1>1 DEF IndexesAgree, TypeOK
  <1>5. \A j \in Ids : j # i => draft[j] # draft[i]
    BY <1>1, <1>2 DEF DraftFiles
  <1>6. \A q \in Requests : req[q].file # draft[i]
    BY <1>1, <1>2 DEF Hands
  <1>7. /\ draft' \in [Ids -> Files \cup {None}] /\ files' \in SUBSET Files
        /\ quiet' \in [Ids -> 0 .. Idle] /\ UNCHANGED <<life, held>>
        /\ \A j \in Ids : draft'[j] # None => user[j] # None
    BY <1>1, <1>4 DEF IndexesAgree, TypeOK, Drawn, clocks
  <1>8. UNCHANGED user
    BY <1>1 DEF tables
  <1>9. CASE files' = files /\ req' = [req EXCEPT ![r] = new]
    <2>1. req'[r] = new /\ \A q \in Requests : q # r => req'[q] = req[q]
      BY <1>9 DEF IndexesAgree, TypeOK
    <2>2. DraftFiles'
      <3>1. ASSUME NEW f \in files'
            PROVE  (\E j \in Ids : draft'[j] = f) \/ (\E q \in Requests : req'[q].file = f)
        <4>1. f \in files /\ f # None
          BY <1>9 DEF IndexesAgree, TypeOK
        <4>2. CASE f = draft[i]
          BY <1>3, <2>1, <4>2
        <4>3. CASE f # draft[i] /\ \E j \in Ids : draft[j] = f
          BY <1>4, <4>3
        <4>4. CASE \E q \in Requests : req[q].file = f
          BY <1>2, <2>1, <4>1, <4>4
        <4> QED
          BY <4>1, <4>2, <4>3, <4>4 DEF DraftFiles
      <3>2. \A j \in Ids : draft'[j] # None => draft'[j] \in files'
        BY <1>4, <1>9 DEF DraftFiles
      <3>3. \A j, k \in Ids : draft'[j] # None /\ draft'[j] = draft'[k] => j = k
        BY <1>4 DEF DraftFiles
      <3> QED
        BY <3>1, <3>2, <3>3 DEF DraftFiles
    <2>3. Hands'
      <3>1. ASSUME NEW q \in Requests, q # r, Holds(q)
            PROVE  /\ req[q].file \in files'
                   /\ \A j \in Ids : draft'[j] # req[q].file
        <4>1. req[q].file # None
          BY <3>1 DEF Hands, IndexesAgree, TypeOK
        <4> QED
          BY <1>4, <1>9, <3>1, <4>1 DEF Hands
      <3>2. \A j \in Ids : draft'[j] # draft[i]
        BY <1>1, <1>4, <1>5
      <3> QED
        BY <1>2, <1>3, <1>6, <1>8, <1>9, <2>1, <3>1, <3>2 DEF Hands, Holds
    <2> QED
      BY <1>1, <1>3, <1>7, <1>9, <2>2, <2>3, RequestKeeps
  <1>10. CASE files' = files \ {draft[i]} /\ req' = req
    <2>1. DraftFiles'
      BY <1>4, <1>5, <1>10 DEF DraftFiles, IndexesAgree, TypeOK
    <2>2. Hands'
      <3>1. ASSUME NEW q \in Requests, Holds(q)
            PROVE  /\ req[q].file \in files'
                   /\ \A j \in Ids : draft'[j] # req[q].file
        <4>1. req[q].file # None
          BY <3>1 DEF Hands, IndexesAgree, TypeOK
        <4> QED
          BY <1>4, <1>6, <1>10, <3>1, <4>1 DEF Hands
      <3> QED
        BY <1>8, <1>10, <3>1 DEF Hands, Holds
    <2>3. req' = [req EXCEPT ![r] = req[r]]
      BY <1>10 DEF IndexesAgree, TypeOK
    <2>4. req[r] \in [at : {"none", "login", "working", "uploading", "cropping"},
                      id : Ids \cup {None}, file : Files \cup {None}]
      BY DEF IndexesAgree, TypeOK
    <2> QED
      BY <1>1, <1>7, <2>1, <2>2, <2>3, <2>4, RequestKeeps
  <1> QED
    BY <1>1, <1>9, <1>10

-----------------------------------------------------------------------------
LEMMA Start == Init => IInv
  <1> SUFFICES ASSUME Init PROVE IInv
    OBVIOUS
  <1> USE NoneAssumption, LifetimeAssumption DEF Init
  <1>1. NoRequest \in [at : {"none"}, id : {None}, file : {None}]
        /\ NoRequest.at = "none" /\ NoRequest.file = None
    BY DEF NoRequest
  <1>2. /\ quiet \in [Ids -> 0 .. Idle] /\ life \in [Ids -> 0 .. Absolute]
        /\ held \in [Ids -> 0 .. Absolute]
    OBVIOUS
  <1>3. TypeOK
    BY <1>1, <1>2 DEF TypeOK
  <1> QED
    BY <1>1, <1>3 DEF IInv, IndexesAgree, KeysAccounted, DraftFiles, Drawn,
                      Hands, Holds, Ages

LEMMA Inductive == IInv /\ [Next]_vars => IInv'
  <1> SUFFICES ASSUME IInv, [Next]_vars PROVE IInv'
    OBVIOUS
  <1>0. phase \in {"running", "draining", "exited"} /\ sweeper \in BOOLEAN
        /\ \A u \in Users : byUser[u] \subseteq Ids
    BY DEF IInv, IndexesAgree, TypeOK
  <1>1. ASSUME NEW r \in Requests, Handler(r) PROVE IInv'
    BY <1>1, CreateStep, EmptyHanded, UploadStep, LetGoStep, TakeOverStep
       DEF Handler
  <1>2. ASSUME NEW gone, gone \subseteq sessions, Remove(gone),
               UNCHANGED <<req, process>>, phase # "exited"
        PROVE  IInv'
    BY <1>0, <1>2, RemoveStep DEF process
  <1>3. ASSUME NEW i \in Ids, AdmitExpired(i) \/ Destroy(i) PROVE IInv'
    BY <1>2, <1>3 DEF AdmitExpired, Destroy
  <1>4. ASSUME NEW u \in Users, DestroyUser(u) PROVE IInv'
    BY <1>2, <1>4 DEF DestroyUser
  <1>5. CASE Sweep
    <2>1. Remove({i \in sessions : Expired(i)})
      BY <1>5 DEF Sweep
    <2> QED
      BY <1>2, <1>5, <2>1 DEF Sweep
  <1>6. CASE SweeperCloses \/ FinalClose
    BY <1>0, <1>6, RemoveStep DEF SweeperCloses, FinalClose
  <1>7. CASE Sigterm \/ UNCHANGED vars
    <2>1. /\ UNCHANGED <<tables, clocks, keys, scratch, req, sweeper>>
          /\ phase' \in {"running", "draining", "exited"}
          /\ phase' = "exited" => phase = "exited"
      BY <1>0, <1>7 DEF Sigterm, vars, process
    <2> QED
      BY <2>1 DEF IInv, IndexesAgree, TypeOK, KeysAccounted, DraftFiles, Drawn,
                  Hands, Holds, Ages, tables, clocks, keys, scratch
  <1> QED
    BY <1>1, <1>3, <1>4, <1>5, <1>6, <1>7, RotateStep, TickStep DEF Next

LEMMA Invariance == Spec => []IInv
  BY Start, Inductive, PTL DEF Spec

(* DestroyUser finds every session of a user: the two indexes always agree. *)
THEOREM IndexesAlwaysAgree == Spec => []IndexesAgree
  <1>1. IInv => IndexesAgree
    BY DEF IInv
  <1> QED
    BY <1>1, Invariance, PTL

(* Every key is held by exactly one session or has been zeroed, and a process   *)
(* that exits leaves none.                                                   *)
THEOREM KeysAreAccounted == Spec => []KeysAccounted
  <1>1. IInv => KeysAccounted
    BY DEF IInv
  <1> QED
    BY <1>1, Invariance, PTL

(* Every temporary file is a draft or in the hands of a request, and a draft    *)
(* always has its own file.                                                  *)
THEOREM FilesAreAccounted == Spec => []DraftFiles
  <1>1. IInv => DraftFiles
    BY DEF IInv
  <1> QED
    BY <1>1, Invariance, PTL

(* No request is admitted with a key held for Absolute, however often its      *)
(* session was rotated.                                                      *)
THEOREM LifetimeIsCapped == Spec => AbsoluteCap
  <1> DEFINE Capped == \A r \in Requests :
          (req[r].at = "none" /\ req'[r].at = "working") =>
              held[dek[req'[r].id]] < Absolute
  <1>1. ASSUME IInv, [Next]_vars PROVE Capped
    <2> SUFFICES ASSUME NEW r \in Requests,
                        req[r].at = "none", req'[r].at = "working"
                 PROVE  held[dek[req'[r].id]] < Absolute
      OBVIOUS
    <2>0. TypeOK
      BY <1>1 DEF IInv, IndexesAgree
    <2>1. \E i \in Ids : Admit(r, i)
      <3>1. ASSUME NEW q \in Requests, Handler(q), ~\E i \in Ids : Admit(q, i)
            PROVE  req'[q] = req[q] \/ req'[q].at # "working"
        BY <2>0, <3>1 DEF TypeOK, Handler, BeginLogin, Create, Upload, RemoveFile,
                PutPhotoDraft, TakePhotoDraft, ClearPhotoDraft, Leave, NoRequest
      <3>2. ASSUME NEW q \in Requests, Handler(q), q # r
            PROVE  req'[r] = req[r]
        BY <2>0, <3>2 DEF TypeOK, Handler, BeginLogin, Create, Admit, Upload,
                RemoveFile, PutPhotoDraft, TakePhotoDraft, ClearPhotoDraft, Leave
      <3>3. ASSUME ~\E q \in Requests : Handler(q) PROVE req' = req
        BY <1>1, <3>3 DEF Next, AdmitExpired, Destroy, Rotate, DestroyUser, Sweep,
                Tick, Sigterm, SweeperCloses, FinalClose, vars
      <3> QED
        BY <3>1, <3>2, <3>3
    <2>2. PICK i \in Ids : Admit(r, i)
      BY <2>1
    <2>3. req'[r].id = i /\ i \in sessions /\ ~(life[i] >= Absolute)
      BY <2>0, <2>2 DEF Admit, Expired, TypeOK
    <2>4. /\ held[dek[i]] <= life[i] /\ dek[i] \in Ids
          /\ life[i] \in 0 .. Absolute /\ held[dek[i]] \in 0 .. Absolute
      BY <1>1, <2>0, <2>3 DEF IInv, Ages, KeysAccounted, TypeOK
    <2> QED
      BY <2>3, <2>4, LifetimeAssumption
  <1> QED
    BY <1>1, Invariance, PTL DEF Spec, AbsoluteCap
=============================================================================
