------------------------------ MODULE HouseProofs ------------------------------
(***************************************************************************)
(* Theorems about MCHouse, for every finite or infinite choice its assumptions allow   *)
(* of people, sessions, requests, keys, files, set-ups and versions.  Each component    *)
(* has its inductive invariant, IInv, beside its actions; here it is shown to hold at    *)
(* the start, to survive every step, and to imply what is promised.  The invariants     *)
(* are then put together, for the one component a behaviour runs.                    *)
(***************************************************************************)
EXTENDS MCHouse, SequenceTheorems, FiniteSetTheorems, WellFoundedInduction, TLAPS

-----------------------------------------------------------------------------
(* The server key. *)
LEMMA KeysStartEmpty == Keys!Init => Keys!IInv
  BY DEF Keys!Init, Keys!IInv, Keys!OneKey, Keys!OneWriter, Keys!TypeOK, Keys!Step

\* One process writes at a time, whatever the others do meanwhile.
LEMMA KeysStep == ASSUME Keys!IInv, [Keys!Next]_(Keys!vars) PROVE Keys!IInv'
  <1> USE KeyAssumption
      DEF Keys!IInv, Keys!OneKey, Keys!OneWriter, Keys!TypeOK, Keys!Step, Keys!Move
  <1>1. ASSUME NEW p \in Processes, Keys!Start(p) PROVE Keys!IInv'
    BY <1>1 DEF Keys!Start
  <1>2. ASSUME NEW p \in Processes, Keys!Load(p, "load") \/ Keys!Load(p, "reload")
        PROVE  Keys!IInv'
    BY <1>2 DEF Keys!Load
  <1>3. ASSUME NEW p \in Processes, Keys!NoKeyYet(p) PROVE Keys!IInv'
    BY <1>3 DEF Keys!NoKeyYet
  <1>4. ASSUME NEW p \in Processes, Keys!Create(p) PROVE Keys!IInv'
    BY <1>4 DEF Keys!Create
  <1>5. ASSUME NEW p \in Processes, Keys!Write(p) PROVE Keys!IInv'
    BY <1>5 DEF Keys!Write
  <1>6. ASSUME NEW p \in Processes, Keys!Sync(p) PROVE Keys!IInv'
    BY <1>6 DEF Keys!Sync
  <1>7. ASSUME NEW p \in Processes, Keys!Exit(p) PROVE Keys!IInv'
    BY <1>7 DEF Keys!Exit
  <1>8. CASE UNCHANGED Keys!vars
    BY <1>8 DEF Keys!vars
  <1> QED
    BY <1>1, <1>2, <1>3, <1>4, <1>5, <1>6, <1>7, <1>8 DEF Keys!Next

(* The only write to the file comes while it holds no key. *)
LEMMA KeyIsKept == ASSUME Keys!IInv, [Keys!Next]_(Keys!vars) PROVE Keys!KeyKept
  <1> USE KeyAssumption DEF Keys!KeyKept, Keys!Move
  <1>1. ASSUME NEW p \in Processes, Keys!Create(p) PROVE Keys!KeyKept
    BY <1>1 DEF Keys!Create
  <1>2. ASSUME NEW p \in Processes, Keys!Write(p) PROVE Keys!KeyKept
    BY <1>2 DEF Keys!Write, Keys!IInv, Keys!OneWriter
  <1>3. ASSUME NEW p \in Processes,
               \/ Keys!Start(p) \/ Keys!Load(p, "load") \/ Keys!NoKeyYet(p)
               \/ Keys!Load(p, "reload") \/ Keys!Sync(p) \/ Keys!Exit(p)
        PROVE  Keys!KeyKept
    BY <1>3 DEF Keys!Start, Keys!Load, Keys!NoKeyYet, Keys!Sync, Keys!Exit
  <1>4. CASE UNCHANGED Keys!vars
    BY <1>4 DEF Keys!vars
  <1> QED
    BY <1>1, <1>2, <1>3, <1>4 DEF Keys!Next

-----------------------------------------------------------------------------
(* What is read is a configuration, and the settings the program wrote itself are *)
(* read as they are.                                                           *)
LEMMA ReadAsSettings ==
    ASSUME NEW f \in Files \cup Configuration!Configurations \cup {None},
           NEW e \in Environments
    PROVE  Configuration!Effective(f, e) \in Configuration!Configurations
  <1> USE FilesAssumption DEF Configuration!Fields, Configuration!Plain, Configuration!Dav, Configuration!Cache
  <1> DEFINE S == Configuration!Settings
  <1>1. \A g \in Files \cup Environments : \A x \in DOMAIN g : x \in Configuration!Fields /\ g[x] \in S
    BY DEF Configuration!Settings
  <1>2. \A x \in Configuration!Fields : Configuration!Default[x] \in S
    BY DEF Configuration!Default, Configuration!Settings
  <1>3. 0 \in S
    BY DEF Configuration!Settings
  <1>4. f # None => \A x \in DOMAIN f : f[x] \in S
    BY <1>1 DEF Configuration!Configurations
  <1> HIDE DEF S
  <1> DEFINE read == IF f = None THEN Configuration!Default ELSE Configuration!ApplyFile(f)
  <1>5. \A x \in Configuration!Fields : read[x] \in S
    <2>1. CASE f = None
      BY <2>1, <1>2
    <2>2. ASSUME f # None, NEW x \in Configuration!Fields PROVE Configuration!ApplyFile(f)[x] \in S
      BY <2>2, <1>2, <1>3, <1>4
         DEF Configuration!ApplyFile, Configuration!FilledIn, Configuration!Given
    <2> QED
      BY <2>1, <2>2
  <1> HIDE DEF read
  <1>6. Configuration!Effective(f, e) = Configuration!ApplyEnv(read, e)
    BY DEF Configuration!Effective, read
  <1>7. Configuration!ApplyEnv(read, e) \in [Configuration!Fields -> S]
    BY <1>1, <1>5 DEF Configuration!ApplyEnv
  <1> QED
    BY <1>6, <1>7 DEF Configuration!Configurations, S

\* What the program wrote is read as it was, whatever the variables.
LEMMA WrittenAsRead ==
    ASSUME NEW c \in Configuration!Configurations, Configuration!Valid(c)
    PROVE  /\ c # None /\ c # Torn
           /\ \A e : Configuration!Effective(c, e) = Configuration!ApplyEnv(c, e)
  <1> USE DEF Configuration!Fields, Configuration!Plain, Configuration!Dav, Configuration!Cache
  <1>1. c # None /\ c # Torn
    BY FilesAssumption
  <1>2. DOMAIN c = Configuration!Fields /\ c = [x \in Configuration!Fields |-> c[x]]
    BY DEF Configuration!Configurations
  <1>3. c["bodies"] # 0
    BY DEF Configuration!Valid
  <1>4. ASSUME NEW x \in Configuration!Fields PROVE Configuration!ApplyFile(c)[x] = c[x]
    BY <1>2, <1>3
       DEF Configuration!ApplyFile, Configuration!FilledIn, Configuration!Given
  <1>5. Configuration!ApplyFile(c) = c
    BY <1>2, <1>4 DEF Configuration!ApplyFile
  <1>6. \A e : Configuration!Effective(c, e) = Configuration!ApplyEnv(c, e)
    BY <1>1, <1>5 DEF Configuration!Effective
  <1> QED
    BY <1>1, <1>6

\* And so is the address in it.
LEMMA AddressAsRead ==
    ASSUME NEW c \in Configuration!Configurations
    PROVE  Configuration!Effective(c, <<>>)["public"] = c["public"]
  <1>1. c # None /\ DOMAIN c = Configuration!Fields /\ DOMAIN <<>> = {}
    BY FilesAssumption DEF Configuration!Configurations
  <1> QED
    BY <1>1 DEF Configuration!Effective, Configuration!ApplyEnv, Configuration!ApplyFile,
                Configuration!Fields, Configuration!Plain, Configuration!Dav,
                Configuration!Cache

(* A save writes what the server starts from under the same variables. *)
LEMMA SaveLoads ==
    ASSUME NEW address \in Addresses, s3 \in Environments,
           s1 \in Files \cup Configuration!Configurations \cup {None, Torn},
           Configuration!Loads(s1, s3),
           Configuration!Valid(Configuration!Prepared(address, s3))
    PROVE  /\ Configuration!Prepared(address, s3) \in Configuration!Configurations
           /\ Configuration!Loads(Configuration!Prepared(address, s3), s3)
  <1> DEFINE old == Configuration!Effective(s1, s3)
             c == Configuration!Prepared(address, s3)
             new == Configuration!Effective(c, s3)
  <1>1. s1 # Torn /\ Configuration!Valid(old)
    BY DEF Configuration!Loads
  <1>2. old \in Configuration!Configurations
    BY <1>1, ReadAsSettings
  <1>3. c = [old EXCEPT !["public"] = address]
    BY DEF Configuration!Prepared
  <1>4. c \in Configuration!Configurations
    BY <1>2, <1>3 DEF Configuration!Configurations, Configuration!Settings
  <1>5. c # Torn /\ new = Configuration!ApplyEnv(c, s3)
    BY <1>4, WrittenAsRead
  <1>6. \A x \in Configuration!Fields : x \in DOMAIN s3 => new[x] = old[x]
    BY <1>5 DEF Configuration!ApplyEnv, Configuration!Effective
  <1>7. \A x \in Configuration!Fields : x \notin DOMAIN s3 => new[x] = c[x]
    BY <1>5 DEF Configuration!ApplyEnv
  <1>8. Configuration!Valid(new)
    <2> HIDE DEF new, old, c
    <2>1. Configuration!Valid(c)
      BY DEF c
    <2>2. "public" \in Configuration!Fields
      BY DEF Configuration!Fields, Configuration!Plain
    <2> QED
      BY <1>1, <1>6, <1>7, <2>1, <2>2 DEF Configuration!Valid
  <1> QED
    BY <1>4, <1>5, <1>8 DEF Configuration!Loads

\* Any file and any variables the program may find.
LEMMA ConfigurationStarts == Configuration!Init => Configuration!IInv
  <1> SUFFICES ASSUME Configuration!Init PROVE Configuration!IInv
    OBVIOUS
  <1>1. Configuration!Default \in Configuration!Configurations
    BY DEF Configuration!Default, Configuration!Configurations, Configuration!Settings
  <1>2. None \in Configuration!Settings
    BY DEF Configuration!Settings
  <1> QED
    BY <1>1, <1>2, FilesAssumption
       DEF Configuration!Init, Configuration!IInv, Configuration!Quiet,
           Configuration!NoRequest, Configuration!Down, Configuration!OneSave,
           Configuration!AddressInForce

\* A save, a start or a stop at any step, edits by hand while the server is down.
LEMMA ConfigurationStep ==
    ASSUME Configuration!IInv, [Configuration!Next]_(Configuration!vars)
    PROVE  Configuration!IInv'
  <1> USE FilesAssumption
      DEF Configuration!IInv, Configuration!OneSave, Configuration!AddressInForce,
          Configuration!Quiet
  <1>1. Configuration!NoRequest.at = "none"
        /\ Configuration!NoRequest \in
               [at : {"none", "create", "write", "rename", "report"},
                cfg : Configuration!Configurations, file : {None, "tmp", "config"}]
    BY DEF Configuration!NoRequest, Configuration!Default, Configuration!Configurations,
           Configuration!Settings
  <1> DEFINE Saving == [at : {"none", "create", "write", "rename", "report"},
                        cfg : Configuration!Configurations, file : {None, "tmp", "config"}]
  <1>0. ASSUME NEW r \in Admins, s5[r].at # "none", ~s6
        PROVE  /\ s4.up /\ \A q \in Admins : q # r => s5[q].at = "none"
               /\ s5[r].cfg \in Configuration!Configurations
               /\ Configuration!Loads(s5[r].cfg, s3)
    BY <1>0
  <1>13. Configuration!Down \in [up : BOOLEAN, cfg : Configuration!Configurations,
                                 public : Configuration!Settings]
         /\ Configuration!Down.up = FALSE
    BY DEF Configuration!Down, Configuration!Default, Configuration!Configurations,
           Configuration!Settings
  <1>2. CASE Configuration!Start
    <2>1. /\ s4' = [up |-> TRUE, cfg |-> Configuration!Effective(s1, s3),
                    public |-> Configuration!Effective(s1, s3)["public"]]
          /\ Configuration!Loads(s1, s3)
          /\ UNCHANGED <<s1, s2, s3, s5, s6, s7>>
      BY <1>2 DEF Configuration!Start
    <2>3. s4' \in [up : BOOLEAN, cfg : Configuration!Configurations,
                   public : Configuration!Settings]
      <3>1. s1 # Torn
        BY <2>1 DEF Configuration!Loads
      <3>2. Configuration!Effective(s1, s3) \in Configuration!Configurations
        BY <3>1, ReadAsSettings
      <3>3. Configuration!Effective(s1, s3)["public"] \in Configuration!Settings
        BY <3>2 DEF Configuration!Configurations, Configuration!Fields, Configuration!Plain
      <3> QED
        BY <2>1, <3>2, <3>3
    <2>2. "public" \notin DOMAIN s3 =>
              Configuration!Effective(s1, <<>>)["public"] = s4'.public
      <3>1. "public" \in Configuration!Fields /\ DOMAIN <<>> = {}
        BY DEF Configuration!Fields, Configuration!Plain
      <3> QED
        BY <2>1, <3>1 DEF Configuration!Effective, Configuration!ApplyEnv
    <2> QED
      BY <2>1, <2>2, <2>3
  <1>3. CASE Configuration!Stop
    BY <1>1, <1>3, <1>13 DEF Configuration!Stop
  <1>4. CASE Configuration!SetEnvironment
    BY <1>4 DEF Configuration!SetEnvironment
  <1>5. CASE Configuration!EditFile
    BY <1>5 DEF Configuration!EditFile
  <1>6. ASSUME NEW r \in Admins, Configuration!LoadAgain(r) PROVE Configuration!IInv'
    <2>1. PICK address \in Addresses :
              /\ Configuration!Loads(s1, s3)
              /\ Configuration!Valid(Configuration!Prepared(address, s3))
              /\ s5' = [s5 EXCEPT ![r] = [at |-> "create",
                            cfg |-> Configuration!Prepared(address, s3), file |-> None]]
      BY <1>6 DEF Configuration!LoadAgain
    <2> DEFINE c == Configuration!Prepared(address, s3)
    <2>2. c \in Configuration!Configurations /\ Configuration!Loads(c, s3)
      BY <2>1, SaveLoads
    <2> HIDE DEF c
    <2>3. \A q \in Admins : s5'[q] = IF q = r THEN [at |-> "create", cfg |-> c, file |-> None]
                                     ELSE s5[q]
      BY <2>1 DEF c
    <2>4. s4.up /\ s6' = (s6 \/ ~Configuration!Quiet) /\ UNCHANGED <<s1, s2, s3, s4, s7>>
      BY <1>6 DEF Configuration!LoadAgain
    <2>5. s5' \in [Admins -> [at : {"none", "create", "write", "rename", "report"},
                             cfg : Configuration!Configurations, file : {None, "tmp", "config"}]]
      BY <2>1, <2>2 DEF c
    <2>6. ~s6' => (~s6 /\ \A q \in Admins : s5[q].at = "none")
      BY <2>4
    <2>7. ~s6' => Configuration!OneSave'
      BY <2>2, <2>3, <2>4, <2>6
    <2>8. ~s6' => Configuration!AddressInForce'
      BY <2>3, <2>4, <2>6
    <2> QED
      BY <2>4, <2>5, <2>6, <2>7, <2>8
  <1>7. ASSUME NEW r \in Admins, Configuration!Create(r) PROVE Configuration!IInv'
    <2>1. /\ s5[r].at = "create" /\ s2' = Torn /\ UNCHANGED <<s1, s3, s4, s6, s7>>
          /\ s5' = [s5 EXCEPT ![r].at = "write", ![r].file = "tmp"]
      BY <1>7 DEF Configuration!Create
    <2>2. s5' \in [Admins -> Saving]
      BY <2>1
    <2>3. /\ \A q \in Admins : q # r => s5'[q] = s5[q]
          /\ s5'[r].at = "write" /\ s5'[r].file = "tmp" /\ s5'[r].cfg = s5[r].cfg
      BY <2>1
    <2>4. ~s6 => Configuration!OneSave'
      BY <1>0, <2>1, <2>3
    <2>5. ~s6 => Configuration!AddressInForce'
      BY <1>0, <2>1, <2>3
    <2>6. s2' \in Configuration!Configurations \cup {None, Torn} /\ s4.up
      BY <2>1
    <2> QED
      BY <2>1, <2>2, <2>4, <2>5, <2>6
  <1>8. ASSUME NEW r \in Admins, Configuration!Write(r) PROVE Configuration!IInv'
    BY <1>8 DEF Configuration!Write, Configuration!Texts
  <1>9. ASSUME NEW r \in Admins, Configuration!Rename(r) PROVE Configuration!IInv'
    <2>1. /\ s5[r].at = "rename" /\ s1' = s2 /\ s2' = None /\ s2 # None
          /\ UNCHANGED <<s3, s4, s6, s7>>
          /\ s5' = [q \in Admins |->
                        IF q = r THEN [s5[q] EXCEPT !.at = "report", !.file = None]
                        ELSE [s5[q] EXCEPT !.file = Configuration!Moved(@)]]
      BY <1>9 DEF Configuration!Rename
    <2>2. s5' \in [Admins -> Saving]
      BY <2>1 DEF Configuration!Moved
    <2>3. /\ \A q \in Admins : q # r => s5'[q].at = s5[q].at
          /\ s5'[r].at = "report" /\ s5'[r].cfg = s5[r].cfg
      BY <2>1
    <2>4. ~s6 => /\ s1' = s5[r].cfg /\ s1' # Torn
                 /\ Configuration!Loads(s1', s3')
      <3> SUFFICES ASSUME ~s6 PROVE /\ s1' = s5[r].cfg /\ s1' # Torn
                                    /\ Configuration!Loads(s1', s3')
        OBVIOUS
      <3>1. s5[r].at # "none" /\ s2 = s5[r].cfg
        BY <2>1
      <3>2. Configuration!Loads(s5[r].cfg, s3)
            /\ s5[r].cfg \in Configuration!Configurations
        BY <1>0, <3>1
      <3>3. s1' = s5[r].cfg /\ s3' = s3
        BY <2>1, <3>1
      <3> QED
        BY <3>2, <3>3
    <2>5. ~s6 => Configuration!OneSave'
      <3> SUFFICES ASSUME ~s6 PROVE Configuration!OneSave'
        OBVIOUS
      <3>1. \A q \in Admins : q # r => s5'[q].at = "none"
        <4>1. s5[r].at # "none"
          BY <2>1
        <4>2. \A q \in Admins : q # r => s5[q].at = "none"
          BY <1>0, <4>1
        <4> QED
          BY <2>3, <4>2
      <3>2. Configuration!Loads(s5'[r].cfg, s3') /\ s1' = s5'[r].cfg
            /\ s5'[r].cfg \in Configuration!Configurations
        <4>1. s5'[r].cfg = s5[r].cfg /\ s5[r].cfg \in Configuration!Configurations
          BY <2>3
        <4>2. s1' = s5[r].cfg /\ Configuration!Loads(s1', s3')
          BY <2>4
        <4> QED
          BY <4>1, <4>2
      <3> QED
        BY <2>3, <3>1, <3>2
    <2>6. ~s6 => Configuration!AddressInForce'
      BY <2>3
    <2>7. s1' \in Files \cup Configuration!Configurations \cup {None, Torn} /\ s4.up
      BY <2>1
    <2> QED
      BY <2>1, <2>2, <2>4, <2>5, <2>6, <2>7
  <1>10. ASSUME NEW r \in Admins, Configuration!RenameFails(r) PROVE Configuration!IInv'
    BY <1>1, <1>10 DEF Configuration!RenameFails, Configuration!Fail
  <1>11. ASSUME NEW r \in Admins, Configuration!Report(r) PROVE Configuration!IInv'
    <2>1. /\ s5[r].at = "report" /\ UNCHANGED <<s1, s2, s3, s6>>
          /\ s4' = [s4 EXCEPT !.public = s5[r].cfg["public"]]
          /\ s5' = [s5 EXCEPT ![r] = Configuration!NoRequest]
      BY <1>11 DEF Configuration!Report
    <2>2. s5' \in [Admins -> Saving]
      BY <1>1, <2>1
    <2>3. \A q \in Admins : s5'[q] = IF q = r THEN Configuration!NoRequest ELSE s5[q]
      BY <2>1
    <2>4. s4'.up = s4.up
      BY <2>1
    <2>5. ASSUME ~s6 PROVE Configuration!AddressInForce'
      <3>1. s1 = s5[r].cfg /\ s1 \in Configuration!Configurations
        BY <1>0, <2>1, <2>5
      <3>2. CASE "public" \in DOMAIN s3
        BY <2>1, <3>2
      <3>3. CASE "public" \notin DOMAIN s3
        <4>1. Configuration!Effective(s1, <<>>)["public"] = s1["public"]
          BY <3>1, AddressAsRead
        <4>2. s4.up => s4'.public = s1["public"]
          BY <2>1, <3>1
        <4> QED
          BY <2>1, <2>4, <4>1, <4>2
      <3> QED
        BY <3>2, <3>3
    <2>6. s4' \in [up : BOOLEAN, cfg : Configuration!Configurations,
                   public : Configuration!Settings]
      <3>1. s5[r].cfg["public"] \in Configuration!Settings
        BY <2>1 DEF Configuration!Configurations, Configuration!Fields, Configuration!Plain
      <3> QED
        BY <2>1, <3>1
    <2>7. ~s6 => Configuration!OneSave'
      BY <1>0, <1>1, <2>1, <2>3
    <2>8. s4.up
      BY <2>1
    <2> QED
      BY <1>0, <2>1, <2>2, <2>4, <2>5, <2>6, <2>7, <2>8
  <1>12. CASE UNCHANGED Configuration!vars
    BY <1>12 DEF Configuration!vars
  <1> QED
    BY <1>2, <1>3, <1>4, <1>5, <1>6, <1>7, <1>8, <1>9, <1>10, <1>11, <1>12
       DEF Configuration!Next

-----------------------------------------------------------------------------
(* The desktop application. *)
LEMMA ApplicationStarts == Application!Init => Application!IInv
  <1> USE DEF Application!Init, Application!TypeOK, Application!App, Application!Dead,
              Application!Threads, Application!Labels, Application!Starting
  <1>1. Application!Init => Application!TypeOK
    OBVIOUS
  <1>2. Application!Init => Application!VersionsInStep /\ ~s8.alive
    BY DEF Application!VersionsInStep
  <1> QED
    BY <1>1, <1>2 DEF Application!IInv

\* What was told or found healthy is a server still.
LEMMA ServersStayServers ==
    ASSUME NEW S, S \subseteq Application!Server, NEW id
    PROVE  /\ {[s EXCEPT !.told = s.told \/ s.id = id] : s \in S} \subseteq Application!Server
           /\ {[s EXCEPT !.healthy = s.healthy \/ s.id = id] : s \in S} \subseteq Application!Server
  <1>1. ASSUME NEW s \in S
        PROVE  [s EXCEPT !.told = s.told \/ s.id = id] \in Application!Server
    BY DEF Application!Server
  <1>2. ASSUME NEW s \in S
        PROVE  [s EXCEPT !.healthy = s.healthy \/ s.id = id] \in Application!Server
    BY DEF Application!Server
  <1> QED
    BY <1>1, <1>2

\* Three threads and crashes: the conjuncts each action can disturb.
LEMMA ApplicationStep ==
    ASSUME Application!IInv, [Application!Next]_(Application!vars)
    PROVE  Application!IInv'
  <1> USE VersionsAssumption
      DEF Application!IInv, Application!TypeOK, Application!App, Application!Threads,
          Application!Server, Application!Labels, Application!Starting, Application!Kept
  <1>1. ASSUME NEW version \in Versions, NEW tray \in BOOLEAN, Application!Launch(version, tray) PROVE Application!IInv'
    <2>1. /\ ~s8.alive /\ version >= s1 /\ version >= s2 /\ s7' = s7 + 1
          /\ UNCHANGED <<s1, s2, s3, s5, s6>>
          /\ s8'.pc["main"] \in {"ensure", "started"}
          /\ s8'.pc["call"] = "idle" /\ s8'.pc["leave"] = "idle"
          /\ s8'.alive = TRUE /\ s8'.version = version /\ s8'.running = 0
          /\ s8'.quitting = FALSE /\ s8'.ready = FALSE /\ s8'.cfg = s3
      BY <1>1 DEF Application!Launch, Application!Dead, Application!Acquired, Application!InitialMode, Application!OneStart
    <2>2. Application!TypeOK'
      <3>1. s8' \in Application!App
        <4>1. PICK label \in {"ensure", "started"}, target \in {"remote", "none"} :
                 s8' = [Application!Dead EXCEPT !.alive = TRUE, !.version = version, !.cfg = s3,
                            !.tray = tray, !.target = target, !.pc["main"] = label]
          BY <1>1 DEF Application!Launch
        <4>2. s8' = [alive |-> TRUE, version |-> version, cfg |-> s3, tray |-> tray,
                     target |-> target, running |-> 0, mutex |-> "free", icon |-> "new",
                     quitting |-> FALSE, ready |-> FALSE,
                     pc |-> [[t \in Application!Threads |-> "idle"] EXCEPT !["main"] = label],
                     mine |-> [t \in Application!Threads |-> 0]]
          BY <4>1 DEF Application!Dead
        <4> QED
          BY <4>2
      <3>2. s7' \in Nat
        BY <2>1
      <3> QED
        BY <2>1, <3>1, <3>2
    <2>3. Application!VersionsInStep'
      BY <2>1 DEF Application!VersionsInStep
    <2>4. s8'.alive => Application!OneStart'
      BY <2>1 DEF Application!OneStart
    <2>5. s8'.alive => Application!OpenIsKnown'
      <3>1. \A s \in s5' : s.owner # s7'
        BY <2>1 DEF Application!VersionsInStep
      <3> QED
        BY <2>1, <3>1 DEF Application!OpenIsKnown
    <2> QED
      BY <2>2, <2>3, <2>4, <2>5
  <1>2. CASE Application!Started
    <2>1. /\ s8.alive /\ s8.pc["main"] = "started" /\ UNCHANGED <<s1, s2, s3, s5, s6, s7>>
          /\ s8'.alive = s8.alive /\ s8'.version = s8.version /\ s8'.target = s8.target
          /\ s8'.running = s8.running /\ s8'.quitting = s8.quitting /\ s8'.mine = s8.mine
          /\ s8'.cfg = s8.cfg /\ s8'.ready = TRUE /\ s8'.pc = [s8.pc EXCEPT !["main"] = "idle"]
      BY <1>2 DEF Application!Started, Application!TrayApplied, Application!At, Application!OneStart
    <2>2. Application!TypeOK'
      BY <1>2 DEF Application!Started, Application!TrayApplied, Application!At, Application!Dead
    <2>3. Application!VersionsInStep'
      BY <2>1 DEF Application!VersionsInStep
    <2>4. s8'.alive => Application!OneStart'
      BY <2>1 DEF Application!OneStart
    <2>5. s8'.alive => Application!OpenIsKnown'
      BY <2>1 DEF Application!OneStart, Application!OpenIsKnown
    <2> QED
      BY <2>2, <2>3, <2>4, <2>5
  <1>3. CASE Application!Opened
    <2>1. /\ s8.alive /\ s8.pc["call"] = "opened" /\ UNCHANGED <<s1, s2, s3, s5, s6, s7>>
          /\ s8'.alive = s8.alive /\ s8'.version = s8.version /\ s8'.target = s8.target
          /\ s8'.running = s8.running /\ s8'.quitting = s8.quitting /\ s8'.ready = s8.ready
          /\ s8'.mine = s8.mine /\ s8'.cfg = s8.cfg /\ s8'.pc = [s8.pc EXCEPT !["call"] = "idle"]
      BY <1>3 DEF Application!Opened, Application!TrayApplied, Application!At, Application!Jump, Application!OneStart
    <2>2. Application!TypeOK'
      BY <1>3 DEF Application!Opened, Application!TrayApplied, Application!At, Application!Jump, Application!Dead
    <2>3. Application!VersionsInStep'
      BY <2>1 DEF Application!VersionsInStep
    <2>4. s8'.alive => Application!OneStart'
      BY <2>1 DEF Application!OneStart
    <2>5. s8'.alive => Application!OpenIsKnown'
      BY <2>1 DEF Application!OneStart, Application!OpenIsKnown
    <2> QED
      BY <2>2, <2>3, <2>4, <2>5
  <1>4. CASE Application!OpenRemote
    <2>1. /\ s8.alive /\ s8.pc["call"] = "remote" /\ UNCHANGED <<s1, s2, s3, s5, s6, s7>>
          /\ s8'.alive = s8.alive /\ s8'.version = s8.version /\ s8'.running = s8.running
          /\ s8'.quitting = s8.quitting /\ s8'.ready = s8.ready /\ s8'.mine = s8.mine
          /\ s8'.cfg = s8.cfg /\ s8'.target = "remote" /\ s8'.pc = [s8.pc EXCEPT !["call"] = "idle"]
      BY <1>4 DEF Application!OpenRemote, Application!TrayApplied, Application!At, Application!Jump, Application!OneStart
    <2>2. Application!TypeOK'
      BY ZenonT(40), <1>4 DEF Application!OpenRemote, Application!TrayApplied, Application!At, Application!Jump, Application!Dead
    <2>3. Application!VersionsInStep'
      BY <2>1 DEF Application!VersionsInStep
    <2>4. s8'.alive => Application!OneStart'
      BY <2>1 DEF Application!OneStart
    <2>5. s8'.alive => Application!OpenIsKnown'
      BY <2>1 DEF Application!OneStart, Application!OpenIsKnown
    <2> QED
      BY <2>2, <2>3, <2>4, <2>5
  <1>5. CASE Application!SignOut
    <2>1. /\ s8.ready /\ ~s8.quitting /\ s8.pc["call"] = "idle" /\ s8.pc["leave"] = "idle"
          /\ s3' = "none" /\ UNCHANGED <<s1, s2, s5, s6, s7>>
          /\ s8'.alive = s8.alive /\ s8'.version = s8.version /\ s8'.quitting = s8.quitting
          /\ s8'.ready = s8.ready /\ s8'.target = "none" /\ s8'.cfg = "none"
          /\ s8'.running = 0 /\ s8'.mine = [s8.mine EXCEPT !["leave"] = s8.running] /\ s8'.pc = [s8.pc EXCEPT !["leave"] = "stop"]
      BY <1>5 DEF Application!SignOut, Application!Jump, Application!OneStart
    <2>2. Application!TypeOK'
      BY <1>5 DEF Application!SignOut, Application!Jump, Application!Dead
    <2>3. Application!VersionsInStep'
      BY <2>1 DEF Application!VersionsInStep
    <2>4. s8'.alive => Application!OneStart'
      BY <2>1 DEF Application!OneStart
    <2>5. s8'.alive => Application!OpenIsKnown'
      BY <2>1 DEF Application!OneStart, Application!OpenIsKnown
    <2> QED
      BY <2>2, <2>3, <2>4, <2>5
  <1>6. CASE Application!StopAfterSignOut
    <2>1. /\ s8.pc["leave"] = "stop" /\ UNCHANGED <<s1, s2, s3, s6, s7>>
          /\ s5' = {[s EXCEPT !.told = s.told \/ s.id = s8.mine["leave"]] : s \in s5}
          /\ s8'.alive = s8.alive /\ s8'.version = s8.version /\ s8'.target = s8.target
          /\ s8'.running = s8.running /\ s8'.quitting = s8.quitting /\ s8'.ready = s8.ready
          /\ s8'.mine = s8.mine /\ s8'.cfg = s8.cfg /\ s8'.pc = [s8.pc EXCEPT !["leave"] = "stopping"]
      BY <1>6 DEF Application!StopAfterSignOut, Application!Told, Application!At, Application!Jump, Application!OneStart
    <2>2. Application!TypeOK'
      BY <1>6 DEF Application!StopAfterSignOut, Application!Told, Application!At, Application!Jump, Application!Dead
    <2>3. Application!VersionsInStep'
      BY <2>1 DEF Application!VersionsInStep
    <2>4. s8'.alive => Application!OneStart'
      BY <2>1 DEF Application!OneStart
    <2>5. s8'.alive => Application!OpenIsKnown'
      BY <2>1 DEF Application!OneStart, Application!OpenIsKnown
    <2> QED
      BY <2>2, <2>3, <2>4, <2>5
  <1>7. CASE Application!Quit
    <2>1. /\ s8.ready /\ ~s8.quitting /\ UNCHANGED <<s1, s2, s3, s5, s6, s7>>
          /\ s8'.alive = s8.alive /\ s8'.version = s8.version /\ s8'.target = s8.target
          /\ s8'.running = s8.running /\ s8'.ready = s8.ready /\ s8'.mine = s8.mine
          /\ s8'.cfg = s8.cfg /\ s8'.quitting = TRUE /\ s8'.pc = [s8.pc EXCEPT !["main"] = "detach"]
      BY <1>7 DEF Application!Quit, Application!Jump, Application!OneStart
    <2>2. Application!TypeOK'
      BY <1>7 DEF Application!Quit, Application!Jump, Application!Dead
    <2>3. Application!VersionsInStep'
      BY <2>1 DEF Application!VersionsInStep
    <2>4. s8'.alive => Application!OneStart'
      BY <2>1 DEF Application!OneStart
    <2>5. s8'.alive => Application!OpenIsKnown'
      BY <2>1 DEF Application!OneStart, Application!OpenIsKnown
    <2> QED
      BY <2>2, <2>3, <2>4, <2>5
  <1>8. ASSUME NEW t \in {"main", "call"}, Application!Ensure(t) PROVE Application!IInv'
    <2>1. PICK label \in {"enter", "download"} :
              /\ s8.alive /\ s8.pc[t] = "ensure" /\ UNCHANGED <<s1, s2, s3, s5, s6, s7>>
              /\ label = "enter" => s1 # 0 /\ s2 = s8.version
              /\ s8'.alive = s8.alive /\ s8'.version = s8.version /\ s8'.target = s8.target
              /\ s8'.running = s8.running /\ s8'.quitting = s8.quitting /\ s8'.ready = s8.ready
              /\ s8'.mine = s8.mine /\ s8'.cfg = s8.cfg /\ s8'.pc = [s8.pc EXCEPT ![t] = label]
      BY <1>8 DEF Application!Ensure, Application!At, Application!Jump, Application!OneStart
    <2>2. Application!TypeOK'
      BY <1>8 DEF Application!Ensure, Application!At, Application!Jump, Application!Dead
    <2>3. Application!VersionsInStep'
      BY <2>1 DEF Application!VersionsInStep
    <2>4. s8'.alive => Application!OneStart'
      BY <2>1 DEF Application!OneStart
    <2>5. s8'.alive => Application!OpenIsKnown'
      BY <2>1 DEF Application!OneStart, Application!OpenIsKnown
    <2> QED
      BY <2>2, <2>3, <2>4, <2>5
  <1>9. ASSUME NEW t \in {"main", "call"}, Application!ReplaceBinary(t) PROVE Application!IInv'
    <2>1. PICK label \in {"note", "started", "idle"} :
              /\ s8.alive /\ s8.pc[t] = "download" /\ UNCHANGED <<s2, s3, s5, s6, s7>>
              /\ s1' = s8.version \/ (s1' = s1 /\ label # "note")
              /\ label = "idle" => t = "call"
              /\ label = "started" => t = "main"
              /\ s8'.alive = s8.alive /\ s8'.version = s8.version /\ s8'.target = s8.target
              /\ s8'.running = s8.running /\ s8'.quitting = s8.quitting /\ s8'.ready = s8.ready
              /\ s8'.mine = s8.mine /\ s8'.cfg = s8.cfg /\ s8'.pc = [s8.pc EXCEPT ![t] = label]
      BY <1>9 DEF Application!ReplaceBinary, Application!At, Application!Jump, Application!Failed, Application!OneStart
    <2>2. Application!TypeOK'
      BY <1>9 DEF Application!ReplaceBinary, Application!At, Application!Jump, Application!Failed, Application!Dead
    <2>3. Application!VersionsInStep'
      BY <2>1 DEF Application!VersionsInStep
    <2>4. s8'.alive => Application!OneStart'
      BY <2>1 DEF Application!OneStart
    <2>5. s8'.alive => Application!OpenIsKnown'
      BY <2>1 DEF Application!OneStart, Application!OpenIsKnown
    <2> QED
      BY <2>2, <2>3, <2>4, <2>5
  <1>10. ASSUME NEW t \in {"main", "call"}, Application!WriteVersion(t) PROVE Application!IInv'
    <2>1. PICK label \in {"enter", "started", "idle"} :
              /\ s8.alive /\ s8.pc[t] = "note" /\ UNCHANGED <<s1, s3, s5, s6, s7>>
              /\ s2' = s8.version \/ (s2' = s2 /\ label # "enter")
              /\ label = "idle" => t = "call"
              /\ label = "started" => t = "main"
              /\ s8'.alive = s8.alive /\ s8'.version = s8.version /\ s8'.target = s8.target
              /\ s8'.running = s8.running /\ s8'.quitting = s8.quitting /\ s8'.ready = s8.ready
              /\ s8'.mine = s8.mine /\ s8'.cfg = s8.cfg /\ s8'.pc = [s8.pc EXCEPT ![t] = label]
      BY <1>10 DEF Application!WriteVersion, Application!At, Application!Jump, Application!Failed, Application!OneStart
    <2>2. Application!TypeOK'
      BY <1>10 DEF Application!WriteVersion, Application!At, Application!Jump, Application!Failed, Application!Dead
    <2>3. Application!VersionsInStep'
      BY <2>1 DEF Application!VersionsInStep
    <2>4. s8'.alive => Application!OneStart'
      BY <2>1 DEF Application!OneStart
    <2>5. s8'.alive => Application!OpenIsKnown'
      BY <2>1 DEF Application!OneStart, Application!OpenIsKnown
    <2> QED
      BY <2>2, <2>3, <2>4, <2>5
  <1>11. ASSUME NEW t \in {"main", "call"}, Application!EnterStart(t) PROVE Application!IInv'
    <2>1. /\ s8.alive /\ s8.pc[t] = "enter" /\ UNCHANGED <<s1, s2, s3, s5, s6, s7>>
          /\ s8'.alive = s8.alive /\ s8'.version = s8.version /\ s8'.target = s8.target
          /\ s8'.quitting = s8.quitting /\ s8'.ready = s8.ready /\ s8'.mine = s8.mine
          /\ s8'.cfg = s8.cfg /\ s8'.running = 0 /\ s8'.pc = [s8.pc EXCEPT ![t] = "spawn"]
      BY <1>11 DEF Application!EnterStart, Application!At, Application!Jump, Application!OneStart
    <2>2. Application!TypeOK'
      BY <1>11 DEF Application!EnterStart, Application!At, Application!Jump, Application!Dead
    <2>3. Application!VersionsInStep'
      BY <2>1 DEF Application!VersionsInStep
    <2>4. s8'.alive => Application!OneStart'
      BY <2>1 DEF Application!OneStart
    <2>5. s8'.alive => Application!OpenIsKnown'
      BY <2>1 DEF Application!OneStart, Application!OpenIsKnown
    <2> QED
      BY <2>2, <2>3, <2>4, <2>5
  <1>12. ASSUME NEW t \in {"main", "call"}, Application!Spawn(t) PROVE Application!IInv'
    <2>1. PICK label \in {"health", "started", "idle"} :
              /\ s8.alive /\ s8.pc[t] = "spawn" /\ UNCHANGED <<s1, s2, s3, s7>> /\ s6' \in Nat
              /\ \/ s5' = s5
                 \/ s5' = s5 \cup {[id |-> s6 + 1, owner |-> s7, version |-> s1,
                                    healthy |-> FALSE, told |-> FALSE]}
              /\ label = "idle" => t = "call"
              /\ label = "started" => t = "main"
              /\ s8'.alive = s8.alive /\ s8'.version = s8.version /\ s8'.target = s8.target
              /\ s8'.running = s8.running /\ s8'.quitting = s8.quitting /\ s8'.ready = s8.ready
              /\ s8'.cfg = s8.cfg /\ s8'.pc = [s8.pc EXCEPT ![t] = label]
      <3>1. CASE /\ s6' = s6 + 1
                 /\ s5' = s5 \cup {[id |-> s6', owner |-> s7, version |-> s1,
                                    healthy |-> FALSE, told |-> FALSE]}
                 /\ s8' = [Application!Jump(t, "health") EXCEPT !.mine[t] = s6']
        <4>1. /\ s8.alive /\ s8.pc[t] = "spawn" /\ UNCHANGED <<s1, s2, s3, s7>>
          BY <1>12 DEF Application!Spawn, Application!At
        <4>2. /\ s8'.alive = s8.alive /\ s8'.version = s8.version /\ s8'.target = s8.target
              /\ s8'.running = s8.running /\ s8'.quitting = s8.quitting
              /\ s8'.ready = s8.ready /\ s8'.cfg = s8.cfg
              /\ s8'.pc = [s8.pc EXCEPT ![t] = "health"]
          BY <3>1 DEF Application!Jump
        <4>3. s6' \in Nat
          BY <3>1
        <4> QED
          BY <3>1, <4>1, <4>2, <4>3
      <3>2. CASE /\ UNCHANGED <<s5, s6>>
                 /\ s8' = [Application!Jump(t, Application!Failed(t)) EXCEPT !.mutex = "free"]
        BY <1>12, <3>2 DEF Application!Spawn, Application!At, Application!Jump, Application!Failed
      <3> QED
        BY <1>12, <3>1, <3>2 DEF Application!Spawn
    <2>2. Application!TypeOK'
      <3>1. s8' \in Application!App
        <4>1. CASE s8' = [Application!Jump(t, "health") EXCEPT !.mine[t] = s6']
          BY <2>1, <4>1 DEF Application!Jump
        <4>2. CASE s8' = [Application!Jump(t, Application!Failed(t)) EXCEPT !.mutex = "free"]
          BY <4>2 DEF Application!Jump, Application!Failed
        <4> QED
          BY <1>12, <4>1, <4>2 DEF Application!Spawn
      <3>2. [id |-> s6 + 1, owner |-> s7, version |-> s1, healthy |-> FALSE, told |-> FALSE]
                \in Application!Server
        OBVIOUS
      <3>3. s5' \subseteq Application!Server
        <4>1. s5 \subseteq Application!Server
          OBVIOUS
        <4> HIDE DEF Application!IInv, Application!Server
        <4> QED
          BY <2>1, <3>2, <4>1
      <3> QED
        BY <2>1, <3>1, <3>3
    <2>3. Application!VersionsInStep'
      BY <2>1 DEF Application!VersionsInStep
    <2>4. s8'.alive => Application!OneStart'
      BY <2>1 DEF Application!OneStart
    <2>5. s8'.alive => Application!OpenIsKnown'
      <3>1. \A s \in s5' : s.healthy => s \in s5
        BY <2>1
      <3>2. s8.alive => s8.running = 0
        BY <2>1 DEF Application!OneStart
      <3>3. ASSUME NEW u \in Application!Threads
            PROVE  \/ s8'.pc[u] = s8.pc[u]
                   \/ u = t /\ s8'.pc[u] \in {"health", "started", "idle"}
        BY <2>1
      <3>4. s8'.mine["leave"] = s8.mine["leave"]
        <4>1. CASE s8' = [Application!Jump(t, "health") EXCEPT !.mine[t] = s6']
          BY <4>1 DEF Application!Jump
        <4>2. CASE s8' = [Application!Jump(t, Application!Failed(t)) EXCEPT !.mutex = "free"]
          BY <4>2 DEF Application!Jump
        <4> QED
          BY <1>12, <4>1, <4>2 DEF Application!Spawn
      <3> QED
        BY <2>1, <3>1, <3>2, <3>3, <3>4 DEF Application!OneStart, Application!OpenIsKnown
    <2> QED
      BY <2>2, <2>3, <2>4, <2>5
  <1>13. ASSUME NEW t \in {"main", "call"}, Application!Abandon(t) PROVE Application!IInv'
    <2>1. PICK label \in {"started", "idle"} :
              /\ s8.alive /\ s8.pc[t] = "abandon" /\ UNCHANGED <<s1, s2, s3, s5, s6, s7>>
              /\ label = "idle" => t = "call"
              /\ label = "started" => t = "main"
              /\ s8'.alive = s8.alive /\ s8'.version = s8.version /\ s8'.target = s8.target
              /\ s8'.running = s8.running /\ s8'.quitting = s8.quitting /\ s8'.ready = s8.ready
              /\ s8'.mine = s8.mine /\ s8'.cfg = s8.cfg /\ s8'.pc = [s8.pc EXCEPT ![t] = label]
      BY <1>13 DEF Application!Abandon, Application!At, Application!Jump, Application!Failed, Application!OneStart
    <2>2. Application!TypeOK'
      BY <1>13 DEF Application!Abandon, Application!At, Application!Jump, Application!Failed, Application!Dead
    <2>3. Application!VersionsInStep'
      BY <2>1 DEF Application!VersionsInStep
    <2>4. s8'.alive => Application!OneStart'
      BY <2>1 DEF Application!OneStart
    <2>5. s8'.alive => Application!OpenIsKnown'
      BY <2>1 DEF Application!OneStart, Application!OpenIsKnown
    <2> QED
      BY <2>2, <2>3, <2>4, <2>5
  <1>14. ASSUME NEW t \in {"main", "call"}, Application!Publish(t) PROVE Application!IInv'
    <2>1. PICK label \in {"started", "opened", "detach"} :
              /\ s8.alive /\ s8.pc[t] = "publish" /\ UNCHANGED <<s1, s2, s3, s5, s6, s7>>
              /\ \/ s8'.target = "local" /\ label # "detach"
                 \/ s8'.target = "none" /\ label = "detach"
              /\ label = "opened" => t = "call"
              /\ label = "started" => t = "main"
              /\ s8'.alive = s8.alive /\ s8'.version = s8.version /\ s8'.running = s8.running
              /\ s8'.quitting = s8.quitting /\ s8'.ready = s8.ready /\ s8'.mine = s8.mine
              /\ s8'.cfg = s8.cfg /\ s8'.pc = [s8.pc EXCEPT ![t] = label]
      BY <1>14 DEF Application!Publish, Application!At, Application!Jump, Application!After, Application!OneStart
    <2>2. Application!TypeOK'
      <3>1. s8' \in Application!App
        <4>1. CASE s8' = [Application!Jump(t, Application!After(t)) EXCEPT !.target = "local"]
          BY <4>1 DEF Application!Jump, Application!After
        <4>2. CASE s8' = [Application!Jump(t, "detach") EXCEPT !.target = "none"]
          BY <4>2 DEF Application!Jump
        <4> QED
          BY <1>14, <4>1, <4>2 DEF Application!Publish
      <3> QED
        BY <2>1, <3>1
    <2>3. Application!VersionsInStep'
      BY <2>1 DEF Application!VersionsInStep
    <2>4. s8'.alive => Application!OneStart'
      BY <2>1 DEF Application!OneStart
    <2>5. s8'.alive => Application!OpenIsKnown'
      BY <2>1 DEF Application!OneStart, Application!OpenIsKnown
    <2> QED
      BY <2>2, <2>3, <2>4, <2>5
  <1>15. ASSUME NEW t \in {"main", "call"}, Application!Detach(t) PROVE Application!IInv'
    <2>1. /\ s8.alive /\ s8.pc[t] = "detach" /\ UNCHANGED <<s1, s2, s3, s6, s7>>
          /\ s5' = {[s EXCEPT !.told = s.told \/ s.id = s8.running] : s \in s5}
          /\ s8'.alive = s8.alive /\ s8'.version = s8.version /\ s8'.target = s8.target
          /\ s8'.quitting = s8.quitting /\ s8'.ready = s8.ready /\ s8'.cfg = s8.cfg
          /\ s8'.running = 0 /\ s8'.mine = [s8.mine EXCEPT ![t] = s8.running] /\ s8'.pc = [s8.pc EXCEPT ![t] = "stopping"]
      BY <1>15 DEF Application!Detach, Application!At, Application!Jump, Application!Told, Application!OneStart
    <2>2. Application!TypeOK'
      <3>1. s8' \in Application!App
        BY <1>15 DEF Application!Detach, Application!Jump
      <3>2. s5' \subseteq Application!Server
        BY <2>1
      <3> QED
        BY <2>1, <3>1, <3>2
    <2>3. Application!VersionsInStep'
      BY <2>1 DEF Application!VersionsInStep
    <2>4. s8'.alive => Application!OneStart'
      BY <2>1 DEF Application!OneStart
    <2>5. s8'.alive => Application!OpenIsKnown'
      BY <2>1 DEF Application!OneStart, Application!OpenIsKnown
    <2> QED
      BY <2>2, <2>3, <2>4, <2>5
  <1>16. ASSUME NEW t \in Application!Threads, Application!Stopped(t) PROVE Application!IInv'
    <2>1. PICK label \in {"unlock", "started", "remote", "idle"} :
              /\ s8.alive /\ s8.pc[t] = "stopping" /\ UNCHANGED <<s1, s2, s3, s5, s6, s7>>
              /\ label \in {"unlock", "started"} <=> t = "main"
              /\ label = "unlock" <=> t = "main" /\ s8.quitting
              /\ label = "remote" => t = "call"
              /\ s8'.alive = s8.alive /\ s8'.version = s8.version /\ s8'.target = s8.target
              /\ s8'.running = s8.running /\ s8'.quitting = s8.quitting /\ s8'.ready = s8.ready
              /\ s8'.mine = s8.mine /\ s8'.cfg = s8.cfg /\ s8'.pc = [s8.pc EXCEPT ![t] = label]
      BY <1>16 DEF Application!Stopped, Application!At, Application!Jump, Application!OneStart
    <2>2. Application!TypeOK'
      BY <1>16 DEF Application!Stopped, Application!At, Application!Jump, Application!Dead
    <2>3. Application!VersionsInStep'
      BY <2>1 DEF Application!VersionsInStep
    <2>4. s8'.alive => Application!OneStart'
      BY <2>1 DEF Application!OneStart
    <2>5. s8'.alive => Application!OpenIsKnown'
      BY <2>1 DEF Application!OneStart, Application!OpenIsKnown
    <2> QED
      BY <2>2, <2>3, <2>4, <2>5
  <1>17. ASSUME NEW t \in {"main", "call"}, Application!Healthy(t) PROVE Application!IInv'
    <2>1. \/ /\ ~s8.quitting
             /\ s5' = {[s EXCEPT !.healthy = s.healthy \/ s.id = s8.mine[t]] : s \in s5}
             /\ s8' = [Application!Jump(t, "publish") EXCEPT !.mutex = "free",
                                                             !.running = s8.mine[t]]
          \/ /\ s5' = {[s EXCEPT !.told = s.told \/ s.id = s8.mine[t]] : s \in s5}
             /\ s8' = Application!Jump(t, "abandon")
      BY <1>17 DEF Application!Healthy, Application!Told
    <2>2. s8.alive /\ s8.pc[t] = "health" /\ UNCHANGED <<s1, s2, s3, s6, s7>>
      BY <1>17 DEF Application!Healthy, Application!At
    <2>3. Application!TypeOK'
      <3>1. s8' \in Application!App
        <4>1. CASE s8' = [Application!Jump(t, "publish") EXCEPT !.mutex = "free",
                                                                !.running = s8.mine[t]]
          BY <4>1 DEF Application!Jump
        <4>2. CASE s8' = Application!Jump(t, "abandon")
          BY <4>2 DEF Application!Jump
        <4> QED
          BY <2>1, <4>1, <4>2
      <3>2. s5' \subseteq Application!Server
        <4>1. CASE s5' = {[s EXCEPT !.healthy = s.healthy \/ s.id = s8.mine[t]] : s \in s5}
          BY <4>1, ServersStayServers
        <4>2. CASE s5' = {[s EXCEPT !.told = s.told \/ s.id = s8.mine[t]] : s \in s5}
          BY <4>2, ServersStayServers
        <4> QED
          BY <2>1, <4>1, <4>2
      <3> QED
        BY <2>2, <3>1, <3>2
    <2>4. /\ s8'.alive = s8.alive /\ s8'.version = s8.version /\ s8'.target = s8.target
          /\ s8'.quitting = s8.quitting /\ s8'.ready = s8.ready /\ s8'.mine = s8.mine
          /\ \/ /\ ~s8.quitting /\ s8'.running = s8.mine[t]
                /\ s8'.pc = [s8.pc EXCEPT ![t] = "publish"]
             \/ s8'.running = s8.running /\ s8'.pc = [s8.pc EXCEPT ![t] = "abandon"]
      BY <2>1, <2>2 DEF Application!Jump
    <2>5. Application!VersionsInStep'
      BY <2>1, <2>2, <2>4 DEF Application!VersionsInStep
    <2>6. s8'.alive => Application!OneStart'
      BY <2>2, <2>4 DEF Application!OneStart
    <2>7. s8'.alive => Application!OpenIsKnown'
      <3>1. CASE s8'.pc = [s8.pc EXCEPT ![t] = "abandon"]
        <4>1. s5' = {[s EXCEPT !.told = s.told \/ s.id = s8.mine[t]] : s \in s5}
          <5>1. s8'.pc[t] = "abandon"
            BY <2>2, <3>1
          <5>2. ASSUME s8' = [Application!Jump(t, "publish") EXCEPT !.mutex = "free",
                                                                   !.running = s8.mine[t]]
                PROVE  FALSE
            <6>1. s8'.pc = [s8.pc EXCEPT ![t] = "publish"]
              BY <5>2 DEF Application!Jump
            <6> QED
              BY <5>1, <6>1
          <5> QED
            BY <2>1, <5>2
        <4>2. s8'.running = s8.running
          BY <2>2, <2>4, <3>1
        <4> QED
          BY <2>2, <2>4, <3>1, <4>1, <4>2 DEF Application!OneStart, Application!OpenIsKnown
      <3>2. CASE s8'.pc = [s8.pc EXCEPT ![t] = "publish"]
        BY <2>1, <2>2, <2>4, <3>2
           DEF Application!Jump, Application!OneStart, Application!OpenIsKnown
      <3> QED
        BY <2>4, <3>1, <3>2
    <2> QED
      BY <2>3, <2>5, <2>6, <2>7
  <1>18. ASSUME NEW mode \in {"local", "remote"}, NEW tray \in BOOLEAN,
                Application!Connect(mode, tray)
         PROVE  Application!IInv'
    <2>1. /\ s8.ready /\ s8.target = "none" /\ s8.pc["call"] = "idle" /\ ~s8.quitting
          /\ UNCHANGED <<s1, s2, s4, s5, s6, s7>>
      BY <1>18 DEF Application!Connect, Application!Onboarding
    <2>2. CASE UNCHANGED <<s3, s8>>
      BY <2>1, <2>2 DEF Application!VersionsInStep, Application!OneStart, Application!OpenIsKnown
    <2>3. CASE s3' = mode /\ s8' = [Application!Jump("call",
                   IF mode = "local" THEN "ensure" ELSE "detach") EXCEPT !.cfg = mode, !.tray = tray]
      <3>1. PICK label \in {"ensure", "detach"} :
                /\ s8'.alive = s8.alive /\ s8'.version = s8.version /\ s8'.target = s8.target
                /\ s8'.running = s8.running /\ s8'.quitting = s8.quitting
                /\ s8'.ready = s8.ready /\ s8'.mine = s8.mine
                /\ s8'.pc = [s8.pc EXCEPT !["call"] = label]
        BY <2>3 DEF Application!Jump
      <3>2. Application!TypeOK'
        BY ZenonT(40), <2>1, <2>3 DEF Application!Jump
      <3>3. Application!VersionsInStep'
        BY <2>1, <3>1 DEF Application!VersionsInStep
      <3>4. s8.alive => s8.running = 0
        BY <2>1 DEF Application!OneStart, Application!OpenIsKnown
      <3>5. s8'.alive => Application!OneStart'
        BY <2>1, <3>1, <3>4 DEF Application!OneStart
      <3>6. s8'.alive => Application!OpenIsKnown'
        BY <2>1, <3>1, <3>4 DEF Application!OneStart, Application!OpenIsKnown
      <3> QED
        BY <3>2, <3>3, <3>5, <3>6
    <2> QED
      BY <1>18, <2>2, <2>3 DEF Application!Connect
  <1>19. CASE Application!Exit \/ Application!Crash
    <2>1. s8' = Application!Dead /\ UNCHANGED <<s1, s2, s3, s5, s6, s7>>
      BY <1>19 DEF Application!Exit, Application!Crash
    <2>2. Application!TypeOK'
      BY <2>1 DEF Application!Dead
    <2>3. Application!VersionsInStep' /\ ~s8'.alive
      BY <2>1 DEF Application!Dead, Application!VersionsInStep
    <2> QED
      BY <2>2, <2>3
  <1>20. ASSUME NEW s \in s5, Application!ServerEnds(s) PROVE Application!IInv'
    BY <1>20 DEF Application!ServerEnds, Application!VersionsInStep, Application!OneStart, Application!OpenIsKnown
  <1>21. CASE UNCHANGED Application!vars
    BY <1>21 DEF Application!vars, Application!VersionsInStep, Application!OneStart, Application!OpenIsKnown
  <1> HIDE DEF Application!IInv, Application!TypeOK
  <1> QED
    BY <1>1, <1>2, <1>3, <1>4, <1>5, <1>6, <1>7, <1>8, <1>9, <1>10, <1>11, <1>12, <1>13,
       <1>14, <1>15, <1>16, <1>17, <1>18, <1>19, <1>20, <1>21
       DEF Application!Next, Application!StartSidecar

\* With the lock about to be removed nothing runs under its number, so a server that was
\* opened was told, or is left to a sign-out that has not begun.
LEMMA ApplicationAnswers ==
    ASSUME Application!IInv
    PROVE  Application!RunsItsOwnVersion /\ Application!QuitStopsServers
  <1> USE DEF Application!IInv, Application!TypeOK, Application!App, Application!Threads
  <1>1. \A s \in s5 : s8.alive /\ s.owner = s7 => s.version = s8.version
    BY DEF Application!VersionsInStep
  <1>2. ASSUME NEW t \in Application!Threads, Application!At(t, "enter") PROVE s8.running = 0
    BY <1>2 DEF Application!At, Application!OneStart, Application!Starting
  <1>3. ASSUME s8.alive, s8.pc["main"] = "unlock", NEW s \in s5, s.healthy, s.owner = s7
        PROVE  s.told \/ s8.pc["leave"] = "stop"
    <2>1. s8.quitting /\ s8.running = 0
      BY <1>3 DEF Application!OneStart, Application!OpenIsKnown
    <2>2. s.id # 0
      BY DEF Application!Server
    <2> QED
      BY <1>3, <2>1, <2>2 DEF Application!OpenIsKnown
  <1> QED
    BY <1>1, <1>2, <1>3 DEF Application!RunsItsOwnVersion, Application!QuitStopsServers

-----------------------------------------------------------------------------
(* The check of an installation. *)
LEMMA CheckingStarts == Checking!Init => Checking!IInv
  BY WorldsAssumption
     DEF Checking!Init, Checking!IInv, Checking!TypeOK, Checking!Report, Checking!Stages,
         Checking!RowsAreWarranted, Checking!GateHasARun, Checking!Failing

\* A step of run r that leaves the stage `from' adds the rows new and reaches the stage at;
\* what the stage reached vouches for has to follow when none of the new rows fails.
LEMMA RowsAdded ==
    ASSUME Checking!IInv, NEW r \in Runs, NEW at \in Checking!Stages,
           NEW new \in SUBSET (Checking!Checks \X {"ok", "warn", "fail", "local"}),
           Checking!Add(r, at, new), UNCHANGED s1,
           s2' # None => s2' \in Runs /\ s3'[s2'].at \notin {"none", "done"},
           Checking!Failing(s3[r].rows) = {} /\ Checking!Failing(new) = {} =>
               /\ at \in {"stream", "upload", "clear", "done"} => s1.host = "same"
               /\ at \in {"upload", "clear", "done"} => ~s1.buffers
               /\ at \in {"clear", "done"} =>
                      ~s1.limits /\ s1.writable /\ (s1.https => Checking!SecureCookies)
    PROVE  Checking!IInv'
  <1> USE DEF Checking!IInv, Checking!TypeOK, Checking!Report, Checking!Add
  <1>1. /\ s3' \in [Runs -> Checking!Report]
        /\ s3'[r] = [at |-> at, rows |-> s3[r].rows \cup new]
        /\ \A x \in Runs \ {r} : s3'[x] = s3[x]
    OBVIOUS
  <1>2. Checking!TypeOK'
    BY <1>1
  <1>3. Checking!SecureCookies' = Checking!SecureCookies
    BY DEF Checking!SecureCookies, Checking!IsHTTPS, Checking!TrustedProxies
  <1>4. Checking!Failing(s3'[r].rows) = {} =>
            Checking!Failing(s3[r].rows) = {} /\ Checking!Failing(new) = {}
    BY <1>1 DEF Checking!Failing
  <1>5. Checking!RowsAreWarranted'
    BY <1>1, <1>3, <1>4 DEF Checking!RowsAreWarranted
  <1> QED
    BY <1>2, <1>5 DEF Checking!GateHasARun

\* Each stage warrants what its row says.
LEMMA CheckingStep ==
    ASSUME Checking!IInv, [Checking!Next]_(Checking!vars)
    PROVE  Checking!IInv'
  <1> USE DEF Checking!IInv, Checking!TypeOK, Checking!Report, Checking!Stages
  <1>1. ASSUME NEW r \in Runs, Checking!Register(r) PROVE Checking!IInv'
    <2>1. s2' = r /\ s3'[r].at = "echo" /\ UNCHANGED s1
      BY <1>1 DEF Checking!Register, Checking!Add
    <2> DEFINE new == Checking!Reachable \cup Checking!Certificate
    <2>2. new \in SUBSET (Checking!Checks \X {"ok", "warn", "fail", "local"})
      BY DEF Checking!Reachable, Checking!Certificate, Checking!Row, Checking!Checks
    <2>3. Checking!Add(r, "echo", new)
      BY <1>1 DEF Checking!Register
    <2> HIDE DEF new
    <2> QED
      BY <2>1, <2>2, <2>3, RowsAdded
  <1>2. ASSUME NEW r \in Runs, Checking!AskEcho(r) PROVE Checking!IInv'
    <2>1. UNCHANGED <<s1, s2>> /\ s3[r].at = "echo" /\ s3'[r].at = "stream"
          /\ \A x \in Runs \ {r} : s3'[x] = s3[x]
      BY <1>2 DEF Checking!AskEcho, Checking!Add
    <2>2. PICK new : Checking!Add(r, "stream", new) /\ new = Checking!Echo(Checking!Answered(r))
      BY <1>2 DEF Checking!AskEcho
    <2>3. new \in SUBSET (Checking!Checks \X {"ok", "warn", "fail", "local"})
      BY <2>2 DEF Checking!Echo, Checking!BaseAddress, Checking!Scheme, Checking!ClientAddress,
             Checking!Row, Checking!Checks
    <2>4. s1.host = "same" \/ Checking!Failing(new) # {}
      <3>1. s1.host # "same" =>
                <<"base", "fail">> \in new \/ <<"headers", "fail">> \in new
        BY <2>2 DEF Checking!Echo, Checking!BaseAddress, Checking!Row
      <3> QED
        BY <3>1 DEF Checking!Failing
    <2>5. s2' # None => s2' \in Runs /\ s3'[s2'].at \notin {"none", "done"}
      BY <2>1 DEF Checking!GateHasARun
    <2> QED
      BY <2>1, <2>2, <2>3, <2>4, <2>5, RowsAdded
  <1>3. ASSUME NEW r \in Runs, Checking!AskStream(r) PROVE Checking!IInv'
    <2>1. UNCHANGED <<s1, s2>> /\ s3[r].at = "stream" /\ s3'[r].at = "upload"
          /\ \A x \in Runs \ {r} : s3'[x] = s3[x]
      BY <1>3 DEF Checking!AskStream, Checking!Add
    <2>2. PICK new : Checking!Add(r, "upload", new) /\ new = Checking!Stream(Checking!Answered(r))
      BY <1>3 DEF Checking!AskStream
    <2>3. new \in SUBSET (Checking!Checks \X {"ok", "warn", "fail", "local"})
      BY <2>2 DEF Checking!Stream, Checking!Row, Checking!Checks
    <2>4. ~s1.buffers \/ Checking!Failing(new) # {}
      <3>1. s1.buffers => <<"stream", "fail">> \in new
        BY <2>2 DEF Checking!Stream, Checking!Row
      <3> QED
        BY <3>1 DEF Checking!Failing
    <2>5. s2' # None => s2' \in Runs /\ s3'[s2'].at \notin {"none", "done"}
      BY <2>1 DEF Checking!GateHasARun
    <2>6. Checking!Failing(s3[r].rows) = {} => s1.host = "same"
      BY <2>1 DEF Checking!RowsAreWarranted
    <2> QED
      BY <2>1, <2>2, <2>3, <2>4, <2>5, <2>6, RowsAdded
  <1>4. ASSUME NEW r \in Runs, Checking!AskUpload(r) PROVE Checking!IInv'
    <2>1. UNCHANGED <<s1, s2>> /\ s3[r].at = "upload" /\ s3'[r].at = "clear"
          /\ \A x \in Runs \ {r} : s3'[x] = s3[x]
      BY <1>4 DEF Checking!AskUpload, Checking!Add
    <2>2. PICK new : /\ Checking!Add(r, "clear", new)
                     /\ new = Checking!Upload(Checking!Answered(r)) \cup Checking!Timeout
                                  \cup Checking!Cookie \cup Checking!Clock \cup Checking!DataDir
      BY <1>4 DEF Checking!AskUpload
    <2>3. new \in SUBSET (Checking!Checks \X {"ok", "warn", "fail", "local"})
      BY <2>2 DEF Checking!Upload, Checking!Timeout, Checking!Cookie, Checking!Clock, Checking!DataDir,
             Checking!Row, Checking!Checks
    <2>4. \/ ~s1.limits /\ s1.writable /\ (s1.https => Checking!SecureCookies)
          \/ Checking!Failing(new) # {}
      <3>1. /\ s1.limits => <<"upload", "fail">> \in new
            /\ ~s1.writable => <<"data", "fail">> \in new
            /\ s1.https /\ ~Checking!SecureCookies => <<"cookie", "fail">> \in new
        BY <2>2 DEF Checking!Upload, Checking!Cookie, Checking!DataDir, Checking!Row
      <3> QED
        BY <3>1 DEF Checking!Failing
    <2>5. s2' # None => s2' \in Runs /\ s3'[s2'].at \notin {"none", "done"}
      BY <2>1 DEF Checking!GateHasARun
    <2>6. Checking!Failing(s3[r].rows) = {} => s1.host = "same" /\ ~s1.buffers
      BY <2>1 DEF Checking!RowsAreWarranted
    <2> QED
      BY <2>1, <2>2, <2>3, <2>4, <2>5, <2>6, RowsAdded
  <1>5. ASSUME NEW r \in Runs, Checking!Clear(r) PROVE Checking!IInv'
    <2>1. s3[r].at = "clear" /\ s2' = None /\ UNCHANGED s1 /\ Checking!Add(r, "done", {})
      BY <1>5 DEF Checking!Clear
    <2>2. Checking!Failing(s3[r].rows) = {} =>
              /\ s1.host = "same" /\ ~s1.buffers /\ ~s1.limits /\ s1.writable
              /\ s1.https => Checking!SecureCookies
      BY <2>1 DEF Checking!RowsAreWarranted
    <2> QED
      BY <2>1, <2>2, RowsAdded
  <1>6. CASE Checking!Expire \/ UNCHANGED Checking!vars
    <2>1. UNCHANGED <<s1, s3>> /\ (s2' = None \/ s2' = s2)
      BY <1>6 DEF Checking!Expire, Checking!vars
    <2>2. Checking!TypeOK' /\ Checking!GateHasARun'
      BY <2>1 DEF Checking!GateHasARun
    <2>3. Checking!RowsAreWarranted'
      BY <2>1 DEF Checking!RowsAreWarranted, Checking!SecureCookies, Checking!IsHTTPS,
             Checking!TrustedProxies
    <2> QED
      BY <2>2, <2>3
  <1> QED
    BY <1>1, <1>2, <1>3, <1>4, <1>5, <1>6 DEF Checking!Next

\* The right end of the header is the client's address as the proxy saw it: the walk stops there.
LEMMA ClientCannotMove ==
    ASSUME NEW forged \in Seq({Proxy, Elsewhere, Bad})
    PROVE  Checking!ClientIP(Proxy, forged \o <<Client>>, {Proxy}) = Client
  <1> DEFINE hops == forged \o <<Client>>
             passed == {i \in 1 .. Len(hops) : hops[i] \notin {Proxy}}
  <1>1. Len(hops) = Len(forged) + 1 /\ Len(forged) \in Nat /\ hops[Len(hops)] = Client
    OBVIOUS
  <1>2. Len(hops) \in passed /\ \A i \in passed : Len(hops) >= i
    BY <1>1, WorldsAssumption
  <1>3. Checking!Max(passed) = Len(hops)
    BY <1>1, <1>2 DEF Checking!Max
  <1>4. Checking!SelectLastInSeq(hops, LAMBDA h : h \notin {Proxy}) = Len(hops)
    BY <1>2, <1>3 DEF Checking!SelectLastInSeq
  <1> QED
    BY <1>1, <1>4, WorldsAssumption DEF Checking!ClientIP

\* A clean report ended, so all its stages were warranted.
LEMMA CheckingAnswers == Checking!IInv => Checking!CleanReportIsTrue
  <1> SUFFICES ASSUME Checking!IInv PROVE Checking!CleanReportIsTrue
    OBVIOUS
  <1>1. ASSUME NEW r \in Runs, Checking!Ended(r), Checking!Failing(s3[r].rows) = {}
        PROVE  /\ s1.https => Checking!SecureCookies /\ Checking!LinksAreRight
               /\ ~s1.buffers /\ ~s1.limits /\ s1.writable
    BY <1>1 DEF Checking!IInv, Checking!RowsAreWarranted, Checking!Ended, Checking!SecureCookies,
           Checking!LinksAreRight
  <1>2. (\A r \in Runs : s3[r].at \in {"none", "done"}) => s2 = None
    BY DEF Checking!IInv, Checking!GateHasARun
  <1>3. ASSUME NEW forged \in Checking!SeqOf({Proxy, Elsewhere, Bad}, 2)
        PROVE  forged \in Seq({Proxy, Elsewhere, Bad})
    <2>1. PICK m \in 0 .. 2 : forged \in [1 .. m -> {Proxy, Elsewhere, Bad}]
      BY DEF Checking!SeqOf
    <2> QED
      BY <2>1, SeqDef
  <1> QED
    BY <1>1, <1>2, <1>3, ClientCannotMove DEF Checking!CleanReportIsTrue

-----------------------------------------------------------------------------
(* The administration panel. *)
\* The panel counts as everybody counts.
LEMMA PanelCounts == \A S : Administration!Cardinality(S) = Cardinality(S)
  BY DEF Administration!Cardinality, Cardinality

\* Nothing has begun and nobody was recovered.
LEMMA AdministrationStarts == Administration!Init => Administration!IInv
  <1> SUFFICES ASSUME Administration!Init PROVE Administration!IInv
    OBVIOUS
  <1> USE DEF Administration!Init, Administration!Nobody, Administration!Fresh, Administration!NoRequest
  <1>1. Administration!TypeOK
    BY DEF Administration!TypeOK, Administration!Account, Administration!Session, Administration!Request
  <1>2. ASSUME NEW p \in People PROVE Administration!Accounted(p)
    <2>1. Administration!Recovering(p) = {}
      BY DEF Administration!Recovering
    <2>2. Administration!Cardinality(Administration!Recovering(p)) = 0
      BY <2>1, FS_EmptySet, PanelCounts
    <2>3. s6[p].done = 0 /\ s6[p].told = 0 /\ s6[p].lost = 0
      OBVIOUS
    <2> QED
      BY <2>2, <2>3 DEF Administration!Accounted
  <1>3. ASSUME NEW i \in Ids PROVE Administration!EndedRightly(i)
    BY DEF Administration!EndedRightly, Administration!Begun
  <1>4. ASSUME NEW r \in Requests PROVE Administration!CarriedRightly(r)
    BY DEF Administration!CarriedRightly
  <1> QED
    BY <1>1, <1>2, <1>3, <1>4 DEF Administration!IInv

\* What a session's end says stays so: no account comes back, no session changes hands.
LEMMA EndingsHold ==
    ASSUME Administration!IInv,
           \A p \in People : s1[p] = Administration!Gone => s1'[p] = Administration!Gone,
           \A i \in Ids : Administration!Begun(i) => Administration!Begun(i)' /\ s4'[i].who = s4[i].who,
           \A i \in Ids : \/ /\ s4'[i].at = s4[i].at /\ s4'[i].who = s4[i].who
                              /\ s4'[i].why = s4[i].why /\ s4'[i].by = s4[i].by
                              /\ s4'[i].notice \in {FALSE, s4[i].notice}
                           \/ Administration!EndedRightly(i)'
    PROVE  \A i \in Ids : Administration!EndedRightly(i)'
  <1> TAKE i \in Ids
  <1> SUFFICES ASSUME s4'[i].at = s4[i].at, s4'[i].who = s4[i].who,
                      s4'[i].why = s4[i].why, s4'[i].by = s4[i].by,
                      s4'[i].notice \in {FALSE, s4[i].notice}
               PROVE  Administration!EndedRightly(i)'
    OBVIOUS
  <1>1. Administration!EndedRightly(i)
    BY DEF Administration!IInv
  <1>2. Administration!Begun(i)' <=> Administration!Begun(i)
    BY DEF Administration!Begun
  <1>3. Administration!Begun(i) => s4[i].who \in People
    BY <1>1 DEF Administration!EndedRightly
  <1>4. ASSUME s4'[i].why = "own"
        PROVE  Administration!Begun(s4[i].by)' /\ s4'[i].by # i /\ s4'[s4'[i].by].who = s4'[i].who
    <2>1. Administration!Begun(s4[i].by) /\ s4[i].by # i /\ s4[s4[i].by].who = s4[i].who
      BY <1>1, <1>4 DEF Administration!EndedRightly
    <2>2. s4[i].by \in Ids
      BY <2>1 DEF Administration!Begun
    <2>3. Administration!Begun(s4[i].by)' /\ s4'[s4[i].by].who = s4[s4[i].by].who
      BY <2>1, <2>2
    <2> QED
      BY <2>1, <2>3
  <1>5. s4'[i].why # "none" \/ s4'[i].notice => Administration!Begun(i)'
    BY <1>1, <1>2 DEF Administration!EndedRightly
  <1>6. s4'[i].why = "deleted" => s1'[s4'[i].who] = Administration!Gone
    BY <1>1, <1>3 DEF Administration!EndedRightly
  <1> QED
    BY <1>2, <1>3, <1>4, <1>5, <1>6 DEF Administration!EndedRightly

\* And so does what a request carries.
LEMMA RequestHolds ==
    ASSUME Administration!IInv, NEW q \in Requests, s5'[q] = s5[q],
           \A p \in People : s1[p] = Administration!Gone => s1'[p] = Administration!Gone,
           \A i \in Ids : Administration!Begun(i) => Administration!Begun(i)' /\ s4'[i].who = s4[i].who
    PROVE  Administration!CarriedRightly(q)'
  <1>1. Administration!CarriedRightly(q) /\ s5'[q] = s5[q]
    BY DEF Administration!IInv
  <1>2. ASSUME s5[q].at = "destroy"
        PROVE  /\ Administration!Begun(s5[q].on)'
               /\ \A j \in s5[q].ids : /\ Administration!Begun(j)' /\ j # s5[q].on
                                       /\ s4'[j].who = s4'[s5[q].on].who
    <2>1. Administration!Begun(s5[q].on) /\ s5[q].on \in Ids
      BY <1>1, <1>2 DEF Administration!CarriedRightly, Administration!Begun
    <2>2. Administration!Begun(s5[q].on)' /\ s4'[s5[q].on].who = s4[s5[q].on].who
      BY <2>1
    <2>3. ASSUME NEW j \in s5[q].ids
          PROVE  Administration!Begun(j)' /\ j # s5[q].on /\ s4'[j].who = s4'[s5[q].on].who
      <3>1. Administration!Begun(j) /\ j # s5[q].on /\ s4[j].who = s4[s5[q].on].who
        BY <1>1, <1>2 DEF Administration!CarriedRightly
      <3>2. j \in Ids
        BY <3>1 DEF Administration!Begun
      <3>3. Administration!Begun(j)' /\ s4'[j].who = s4[j].who
        BY <3>1, <3>2
      <3> QED
        BY <2>2, <3>1, <3>3
    <2> QED
      BY <2>2, <2>3
  <1>3. s5[q].at \notin {"none", "page", "destroy"} => s5[q].about \in People
    BY <1>1 DEF Administration!CarriedRightly
  <1>4. s5[q].at = "deleted" => s1'[s5[q].about] = Administration!Gone
    BY <1>1, <1>3 DEF Administration!CarriedRightly
  <1> QED
    BY <1>1, <1>2, <1>3, <1>4 DEF Administration!CarriedRightly

\* A step of one request: what became of the others, of the accounts that are gone and of
\* the sessions that have begun is settled once.
LEMMA RequestStep ==
    ASSUME Administration!IInv, Administration!TypeOK', NEW r \in Requests,
           \A q \in Requests \ {r} : s5'[q] = s5[q],
           \A p \in People : s1[p] = Administration!Gone => s1'[p] = Administration!Gone,
           \A i \in Ids : Administration!Begun(i) => Administration!Begun(i)' /\ s4'[i].who = s4[i].who,
           \A i \in Ids : \/ /\ s4'[i].at = s4[i].at /\ s4'[i].who = s4[i].who
                              /\ s4'[i].why = s4[i].why /\ s4'[i].by = s4[i].by
                              /\ s4'[i].notice \in {FALSE, s4[i].notice}
                           \/ Administration!EndedRightly(i)',
           Administration!CarriedRightly(r)', \A p \in People : Administration!Accounted(p)'
    PROVE  Administration!IInv'
  <1>1. \A i \in Ids : Administration!EndedRightly(i)'
    BY EndingsHold
  <1>2. \A q \in Requests \ {r} : Administration!CarriedRightly(q)'
    BY RequestHolds
  <1> QED
    BY <1>1, <1>2 DEF Administration!IInv

\* A request that recovers nothing leaves the count as it was.
LEMMA NothingRecovered ==
    ASSUME Administration!IInv, NEW r \in Requests, \A q \in Requests \ {r} : s5'[q] = s5[q],
           s5'[r].at \in {"recovered", "notify"} <=> s5[r].at \in {"recovered", "notify"},
           s5[r].at \in {"recovered", "notify"} => s5'[r].about = s5[r].about,
           UNCHANGED s6
    PROVE  \A p \in People : Administration!Accounted(p)'
  <1>1. ASSUME NEW p PROVE Administration!Recovering(p)' = Administration!Recovering(p)
    BY DEF Administration!Recovering
  <1> QED
    BY <1>1 DEF Administration!Accounted, Administration!IInv

\* The steps that touch no session and recover nothing.
LEMMA StoreStep ==
    ASSUME Administration!IInv, NEW r \in Requests, NEW x \in Administration!Request, UNCHANGED <<s4, s6>>,
           s1' \in [People -> Administration!Account], \A p \in People : s1[p] = Administration!Gone => s1'[p] = Administration!Gone,
           s5' = [s5 EXCEPT ![r] = x],
           x.at \notin {"recovered", "notify"}, s5[r].at \notin {"recovered", "notify"},
           Administration!CarriedRightly(r)'
    PROVE  Administration!IInv'
  <1>1. Administration!TypeOK' /\ s5'[r] = x /\ \A q \in Requests \ {r} : s5'[q] = s5[q]
    BY DEF Administration!IInv, Administration!TypeOK
  <1>2. \A p \in People : Administration!Accounted(p)'
    BY <1>1, NothingRecovered
  <1> QED
    BY <1>1, <1>2, RequestStep DEF Administration!Begun

\* An account is changed, and was not gone.
LEMMA AccountStored ==
    ASSUME Administration!IInv, NEW p, NEW acc, Administration!Stored(p, acc), p \in People => acc \in Administration!Account,
           p \in People => s1[p].there \/ s1[p] = Administration!Nobody
    PROVE  /\ s1' \in [People -> Administration!Account]
           /\ \A q \in People : s1[q] = Administration!Gone => s1'[q] = Administration!Gone
  <1>1. p \in People => s1[p] # Administration!Gone
    BY DEF Administration!Gone, Administration!Nobody
  <1> QED
    BY <1>1 DEF Administration!IInv, Administration!TypeOK, Administration!Stored

\* Requests as their handlers begin and answer them.
LEMMA Requested ==
    ASSUME NEW i \in Ids \cup {None}, NEW p \in People \cup {None}, NEW at,
           at \in {"none", "page", "authenticate", "create", "mark", "destroy",
                   "deleted", "disabled", "reset", "recovered", "notify"}
    PROVE  /\ Administration!NoRequest \in Administration!Request
           /\ [Administration!NoRequest EXCEPT !.at = at, !.on = i] \in Administration!Request
           /\ [Administration!NoRequest EXCEPT !.at = at, !.on = i, !.about = p] \in Administration!Request
  BY DEF Administration!NoRequest, Administration!Request, Administration!Nobody, Administration!Account

\* A request that begins carries nothing.
LEMMA FreeRequest == ASSUME NEW r, Administration!Free(r) PROVE s5[r].at = "none"
  BY DEF Administration!Free, Administration!NoRequest

\* An account edited is an account.
LEMMA Edited ==
    ASSUME NEW a \in Administration!Account
    PROVE  /\ \A b \in BOOLEAN : [a EXCEPT !.disabled = b] \in Administration!Account
           /\ [a EXCEPT !.admin = ~@] \in Administration!Account
           /\ \A b \in BOOLEAN : [a EXCEPT !.copy = b] \in Administration!Account
           /\ [a EXCEPT !.copy = TRUE, !.seen = TRUE] \in Administration!Account
           /\ [a EXCEPT !.seen = TRUE] \in Administration!Account
           /\ Administration!Deposited(a) \in Administration!Account
  <1>1. \A b \in BOOLEAN : [a EXCEPT !.disabled = b] \in Administration!Account /\ [a EXCEPT !.copy = b] \in Administration!Account
    BY DEF Administration!Account
  <1>2. [a EXCEPT !.admin = ~@] \in Administration!Account
    BY DEF Administration!Account
  <1>3. [a EXCEPT !.copy = TRUE, !.seen = TRUE] \in Administration!Account /\ [a EXCEPT !.seen = TRUE] \in Administration!Account
    BY DEF Administration!Account
  <1> QED
    BY <1>1, <1>2, <1>3 DEF Administration!Deposited

\* What a request's step does to nothing but the store is settled by StoreStep.
LEMMA StoreSteps ==
    ASSUME Administration!IInv, NEW r \in Requests,
           \/ Administration!Authenticate(r) \/ Administration!MarkEscrowNoticeSeen(r)
           \/ \E p \in People : Administration!AcceptInvite(r, p) \/ Administration!Login(r, p)
    PROVE  Administration!IInv'
  <1> USE DEF Administration!IInv, Administration!TypeOK
  <1>1. ASSUME NEW p \in People, Administration!AcceptInvite(r, p) PROVE Administration!IInv'
    <2> DEFINE x == [Administration!NoRequest EXCEPT !.at = "authenticate", !.on = None, !.about = p]
               acc == Administration!Deposited([Administration!Nobody EXCEPT !.there = TRUE])
    <2>1. s5[r].at = "none" /\ s5' = [s5 EXCEPT ![r] = x] /\ UNCHANGED <<s4, s6>>
          /\ Administration!Stored(p, acc) /\ s1[p] = Administration!Nobody
      BY <1>1, FreeRequest DEF Administration!AcceptInvite, Administration!Start
    <2>2. x \in Administration!Request /\ x.at = "authenticate" /\ x.about = p
      BY Requested DEF Administration!NoRequest
    <2>3. acc \in Administration!Account
      BY DEF Administration!Deposited, Administration!Nobody, Administration!Account
    <2> HIDE DEF x, acc, Administration!IInv, Administration!TypeOK
    <2>4. /\ s1' \in [People -> Administration!Account]
          /\ \A q \in People : s1[q] = Administration!Gone => s1'[q] = Administration!Gone
      BY <2>1, <2>3, AccountStored
    <2>5. Administration!CarriedRightly(r)'
      BY <2>1, <2>2 DEF Administration!CarriedRightly, Administration!IInv, Administration!TypeOK
    <2> QED
      BY <2>1, <2>2, <2>4, <2>5, StoreStep
  <1>2. ASSUME NEW p \in People, Administration!Login(r, p) PROVE Administration!IInv'
    <2> DEFINE x == [Administration!NoRequest EXCEPT !.at = "create", !.about = p, !.user = s1[p]]
    <2>1. s5[r].at = "none" /\ s5' = [s5 EXCEPT ![r] = x] /\ UNCHANGED <<s1, s4, s6>>
      BY <1>2, FreeRequest DEF Administration!Login, Administration!stored
    <2>2. x \in Administration!Request /\ x.at = "create" /\ x.about = p
      BY DEF Administration!NoRequest, Administration!Request, Administration!Nobody, Administration!Account
    <2> HIDE DEF x
    <2>3. Administration!CarriedRightly(r)'
      BY <2>1, <2>2 DEF Administration!CarriedRightly
    <2> QED
      BY <2>1, <2>2, <2>3, StoreStep
  <1>3. CASE Administration!Authenticate(r)
    <2>1. PICK x : /\ s5' = [s5 EXCEPT ![r] = x]
                   /\ \/ x = [s5[r] EXCEPT !.at = "create", !.user = s1[s5[r].about]]
                      \/ x = Administration!NoRequest
      BY <1>3 DEF Administration!Authenticate, Administration!Done
    <2>2. s5[r].at = "authenticate" /\ UNCHANGED <<s1, s4, s6>>
      BY <1>3 DEF Administration!Authenticate, Administration!stored
    <2>3. s5[r].about \in People
      BY <2>2 DEF Administration!CarriedRightly
    <2>4. /\ x \in Administration!Request
          /\ (x.at = "create" /\ x.about = s5[r].about) \/ x.at = "none"
      <3>1. s1[s5[r].about] \in Administration!Account /\ s5[r] \in Administration!Request
        BY <2>3
      <3>2. CASE x = [s5[r] EXCEPT !.at = "create", !.user = s1[s5[r].about]]
        BY <3>1, <3>2 DEF Administration!Request
      <3>3. CASE x = Administration!NoRequest
        BY <3>3 DEF Administration!Request, Administration!NoRequest, Administration!Account, Administration!Nobody
      <3> QED
        BY <2>1, <3>2, <3>3
    <2>5. Administration!CarriedRightly(r)'
      BY <2>1, <2>3, <2>4 DEF Administration!CarriedRightly
    <2> QED
      BY <2>1, <2>2, <2>4, <2>5, StoreStep
  <1>4. CASE Administration!MarkEscrowNoticeSeen(r)
    <2>1. s5[r].at = "mark" /\ UNCHANGED <<s4, s6>> /\ s5' = [s5 EXCEPT ![r] = Administration!NoRequest]
      BY <1>4 DEF Administration!MarkEscrowNoticeSeen, Administration!Done
    <2>2. s5[r].about \in People
      BY <2>1 DEF Administration!CarriedRightly
    <2> DEFINE p == s5[r].about
    <2>3. \/ s1[p].there /\ Administration!Stored(p, [s1[p] EXCEPT !.seen = TRUE])
          \/ UNCHANGED s1
      BY <1>4 DEF Administration!MarkEscrowNoticeSeen, Administration!stored
    <2>4. [s1[p] EXCEPT !.seen = TRUE] \in Administration!Account
      BY <2>2, Edited
    <2>5. /\ s1' \in [People -> Administration!Account]
          /\ \A q \in People : s1[q] = Administration!Gone => s1'[q] = Administration!Gone
      <3> HIDE DEF Administration!IInv, Administration!TypeOK
      <3>1. CASE UNCHANGED s1
        BY <3>1 DEF Administration!IInv, Administration!TypeOK
      <3> QED
        BY <2>3, <2>4, <3>1, AccountStored
    <2>6. Administration!NoRequest \in Administration!Request /\ Administration!NoRequest.at = "none"
      BY DEF Administration!NoRequest, Administration!Request, Administration!Nobody, Administration!Account
    <2>7. Administration!CarriedRightly(r)'
      BY <2>1, <2>6 DEF Administration!CarriedRightly
    <2> QED
      BY <2>1, <2>5, <2>6, <2>7, StoreStep
  <1> QED
    BY <1>1, <1>2, <1>3, <1>4

\* A page answers, or the request goes on to end the sessions of an account it changed.
LEMMA Answered ==
    ASSUME Administration!IInv, NEW r \in Requests, NEW i \in Ids \cup {None}, UNCHANGED <<s4, s6>>, s5[r].at \notin {"recovered", "notify"},
           s1' \in [People -> Administration!Account], \A p \in People : s1[p] = Administration!Gone => s1'[p] = Administration!Gone,
           \/ Administration!Answers(r, i)
           \/ \E p \in People, at \in {"deleted", "disabled", "reset", "mark"} :
                  Administration!Start(r, at, i, p) /\ (at = "deleted" => s1'[p] = Administration!Gone)
    PROVE  Administration!IInv'
  <1>1. CASE Administration!Answers(r, i)
    <2> DEFINE x == [Administration!NoRequest EXCEPT !.at = "page", !.on = i]
    <2>1. s5' = [s5 EXCEPT ![r] = x] /\ x \in Administration!Request /\ x.at = "page"
      BY <1>1 DEF Administration!Answers, Administration!NoRequest, Administration!Request, Administration!Nobody, Administration!Account
    <2> HIDE DEF x
    <2>2. Administration!CarriedRightly(r)'
      BY <2>1 DEF Administration!CarriedRightly, Administration!IInv, Administration!TypeOK
    <2> QED
      BY <2>1, <2>2, StoreStep
  <1>2. ASSUME NEW p \in People, NEW at \in {"deleted", "disabled", "reset", "mark"},
               Administration!Start(r, at, i, p), at = "deleted" => s1'[p] = Administration!Gone
        PROVE  Administration!IInv'
    <2> DEFINE x == [Administration!NoRequest EXCEPT !.at = at, !.on = i, !.about = p]
    <2>1. s5' = [s5 EXCEPT ![r] = x] /\ x \in Administration!Request /\ x.at = at /\ x.about = p
      BY <1>2 DEF Administration!Start, Administration!NoRequest, Administration!Request, Administration!Nobody, Administration!Account
    <2> HIDE DEF x
    <2>2. Administration!CarriedRightly(r)'
      BY <1>2, <2>1 DEF Administration!CarriedRightly, Administration!IInv, Administration!TypeOK
    <2> QED
      BY <2>1, <2>2, StoreStep
  <1> QED
    BY <1>1, <1>2

\* What the panel does to an account in one call.
LEMMA PanelSteps ==
    ASSUME Administration!IInv, NEW r \in Requests, NEW i \in Ids,
           \/ Administration!OptIn(r, i) \/ Administration!OptOut(r, i) \/ Administration!SaveSettings(r, i)
           \/ \E p \in People :
                  \/ Administration!DeleteUser(r, i, p) \/ Administration!DisableUser(r, i, p) \/ Administration!EnableUser(r, i, p)
                  \/ Administration!ChangeRole(r, i, p) \/ Administration!ResetPassword(r, i, p)
    PROVE  Administration!IInv'
  <1> DEFINE stays == /\ s1' \in [People -> Administration!Account]
                      /\ \A q \in People : s1[q] = Administration!Gone => s1'[q] = Administration!Gone
  <1>1. s5[r].at = "none" /\ UNCHANGED <<s4, s6>>
    BY FreeRequest DEF Administration!OptIn, Administration!OptOut, Administration!SaveSettings, Administration!DeleteUser, Administration!DisableUser, Administration!EnableUser, Administration!ChangeRole,
           Administration!ResetPassword
  <1>2. ASSUME NEW p, s1[p].there, NEW acc, Administration!Stored(p, acc), p \in People => acc \in Administration!Account
        PROVE  stays
    BY <1>2, AccountStored
  <1>3. ASSUME NEW p \in People PROVE s1[p] \in Administration!Account
    BY DEF Administration!IInv, Administration!TypeOK
  <1>4. Administration!Gone \in Administration!Account
    BY DEF Administration!Account, Administration!Gone, Administration!Nobody
  <1> HIDE DEF stays
  <1>5. CASE Administration!OptIn(r, i) \/ Administration!OptOut(r, i)
    <2>1. stays /\ Administration!Answers(r, i)
      BY <1>2, <1>3, <1>5, Edited DEF Administration!OptIn, Administration!OptOut
    <2> QED
      BY <1>1, <2>1, Answered DEF stays
  <1>6. CASE Administration!SaveSettings(r, i)
    <2>1. UNCHANGED s1 /\ Administration!Answers(r, i)
      BY <1>6 DEF Administration!SaveSettings
    <2> QED
      BY <1>1, <2>1, Answered DEF Administration!IInv, Administration!TypeOK
  <1>7. ASSUME NEW p \in People, Administration!DeleteUser(r, i, p) PROVE Administration!IInv'
    <2>1. CASE Administration!Answers(r, i) /\ UNCHANGED Administration!stored
      BY <1>1, <2>1, Answered DEF Administration!IInv, Administration!TypeOK, Administration!stored
    <2>2. CASE Administration!Stored(p, Administration!Gone) /\ Administration!Start(r, "deleted", i, p)
      <3>1. s1[p].there /\ s1'[p] = Administration!Gone
        BY <1>7, <2>2 DEF Administration!DeleteUser, Administration!Stored, Administration!IInv, Administration!TypeOK
      <3>2. stays
        BY <1>2, <1>4, <2>2, <3>1
      <3> QED
        BY <1>1, <2>2, <3>1, <3>2, Answered DEF stays
    <2> QED
      BY <1>7, <2>1, <2>2 DEF Administration!DeleteUser
  <1>8. ASSUME NEW p \in People, Administration!DisableUser(r, i, p) \/ Administration!ResetPassword(r, i, p)
        PROVE  Administration!IInv'
    <2>1. stays
      BY <1>2, <1>3, <1>8, Edited DEF Administration!DisableUser, Administration!ResetPassword
    <2>2. \E at \in {"disabled", "reset"} : Administration!Start(r, at, i, p)
      BY <1>8 DEF Administration!DisableUser, Administration!ResetPassword
    <2> QED
      BY <1>1, <2>1, <2>2, Answered DEF stays
  <1>9. ASSUME NEW p \in People, Administration!EnableUser(r, i, p) \/ Administration!ChangeRole(r, i, p) PROVE Administration!IInv'
    <2>1. stays /\ Administration!Answers(r, i)
      BY <1>2, <1>3, <1>9, Edited DEF Administration!EnableUser, Administration!ChangeRole
    <2> QED
      BY <1>1, <2>1, Answered DEF stays
  <1> QED
    BY <1>5, <1>6, <1>7, <1>8, <1>9

\* Sessions are ended, for a reason that holds.
LEMMA SessionsEnded ==
    ASSUME Administration!IInv, NEW ids, NEW why, NEW by \in Ids \cup {None}, Administration!End(ids, why, by), UNCHANGED s1,
           why \in {"logout", "own", "killed", "stopped", "deleted", "disabled", "reset", "recovered"},
           why = "deleted" => \A i \in ids : Administration!Begun(i) => s1[s4[i].who] = Administration!Gone,
           why = "own" => /\ Administration!Begun(by) /\ by \notin ids
                          /\ \A i \in ids : s4[by].who = s4[i].who
    PROVE  /\ s4' \in [Ids -> Administration!Session]
           /\ \A i \in Ids : Administration!Begun(i) => Administration!Begun(i)' /\ s4'[i].who = s4[i].who
           /\ \A i \in Ids : s4'[i] = s4[i] \/ Administration!EndedRightly(i)'
  <1>1. ASSUME NEW i \in Ids
        PROVE  \/ s4'[i] = s4[i]
               \/ /\ i \in ids /\ s4[i].at = "live" /\ s4'[i] \in Administration!Session
                  /\ s4'[i].at = "dead" /\ s4'[i].who = s4[i].who
                  /\ s4'[i].why = why /\ s4'[i].by = by
    BY ZenonT(40) DEF Administration!End, Administration!Live, Administration!IInv, Administration!TypeOK, Administration!Session
  <1>2. s4' \in [Ids -> Administration!Session]
    <2>1. s4' = [i \in Ids |-> s4'[i]]
      BY DEF Administration!End
    <2>2. \A i \in Ids : s4[i] \in Administration!Session
      BY DEF Administration!IInv, Administration!TypeOK
    <2> QED
      BY <1>1, <2>1, <2>2
  <1>3. ASSUME NEW i \in Ids, Administration!Begun(i) PROVE Administration!Begun(i)' /\ s4'[i].who = s4[i].who
    BY <1>1, <1>3 DEF Administration!Begun
  <1>4. ASSUME NEW i \in Ids, s4'[i] # s4[i] PROVE Administration!EndedRightly(i)'
    <2>1. /\ i \in ids /\ Administration!Begun(i) /\ Administration!Begun(i)'
          /\ s4'[i].who = s4[i].who /\ s4'[i].why = why /\ s4'[i].by = by
      BY <1>1, <1>4 DEF Administration!Begun
    <2>2. s4[i].who \in People
      BY <2>1 DEF Administration!IInv, Administration!EndedRightly
    <2>3. ASSUME why = "own"
          PROVE  /\ Administration!Begun(by)' /\ by # i /\ s4'[by].who = s4'[i].who
      <3>1. by \in Ids /\ Administration!Begun(by)
        BY <2>3 DEF Administration!Begun
      <3>2. Administration!Begun(by)' /\ s4'[by].who = s4[by].who
        BY <1>3, <3>1
      <3> QED
        BY <2>1, <2>3, <3>1, <3>2
    <2>4. Administration!Begun(by)' => Administration!Begun(s4[i].by)'
      BY <2>1 DEF Administration!Begun
    <2> QED
      BY <2>1, <2>2, <2>3, <2>4 DEF Administration!EndedRightly
  <1> QED
    BY <1>2, <1>3, <1>4

\* A request that has sessions ended, and recovers nothing.
LEMMA EndingStep ==
    ASSUME Administration!IInv, NEW r \in Requests, NEW x \in Administration!Request, UNCHANGED <<s1, s6>>,
           s5' = [s5 EXCEPT ![r] = x],
           x.at \in {"recovered", "notify"} <=> s5[r].at \in {"recovered", "notify"},
           s5[r].at \in {"recovered", "notify"} => x.about = s5[r].about,
           NEW ids, NEW why, NEW by \in Ids \cup {None}, Administration!End(ids, why, by),
           why \in {"logout", "own", "killed", "stopped", "deleted", "disabled", "reset", "recovered"},
           why = "deleted" => \A i \in ids : Administration!Begun(i) => s1[s4[i].who] = Administration!Gone,
           why = "own" => /\ Administration!Begun(by) /\ by \notin ids
                          /\ \A i \in ids : s4[by].who = s4[i].who,
           Administration!CarriedRightly(r)'
    PROVE  Administration!IInv'
  <1>1. /\ s4' \in [Ids -> Administration!Session]
        /\ \A i \in Ids : Administration!Begun(i) => Administration!Begun(i)' /\ s4'[i].who = s4[i].who
        /\ \A i \in Ids : s4'[i] = s4[i] \/ Administration!EndedRightly(i)'
    BY SessionsEnded
  <1>2. /\ s5'[r] = x /\ \A q \in Requests \ {r} : s5'[q] = s5[q]
        /\ s5' \in [Requests -> Administration!Request]
    BY DEF Administration!IInv, Administration!TypeOK
  <1>3. Administration!TypeOK'
    BY <1>1, <1>2 DEF Administration!IInv, Administration!TypeOK
  <1>4. \A p \in People : Administration!Accounted(p)'
    BY <1>2, NothingRecovered
  <1> QED
    BY <1>1, <1>2, <1>3, <1>4, RequestStep

\* Sessions end: those of somebody, after the store change that is the reason, or one's own.
LEMMA EndingSteps ==
    ASSUME Administration!IInv, NEW r \in Requests,
           \/ Administration!Destroy(r) \/ Administration!DestroyUser(r)
           \/ \E i \in Ids : Administration!EndOwn(r, i) \/ \E p \in People : Administration!KillSessions(r, i, p)
    PROVE  Administration!IInv'
  <1>1. ASSUME NEW i \in Ids \cup {None}
        PROVE  [Administration!NoRequest EXCEPT !.at = "page", !.on = i] \in Administration!Request
    BY DEF Administration!NoRequest, Administration!Request, Administration!Nobody, Administration!Account
  <1>2. CASE Administration!Destroy(r)
    <2>1. s5[r] \in Administration!Request /\ s5[r].at = "destroy" /\ UNCHANGED <<s1, s6>>
      BY <1>2 DEF Administration!Destroy, Administration!IInv, Administration!TypeOK, Administration!stored
    <2>2. s5[r].on \in Ids \cup {None} /\ s5[r].ids \subseteq Ids
      BY <2>1 DEF Administration!Request
    <2>3. /\ Administration!Begun(s5[r].on)
          /\ \A j \in s5[r].ids : Administration!Begun(j) /\ j # s5[r].on /\ s4[j].who = s4[s5[r].on].who
      BY <2>1 DEF Administration!IInv, Administration!CarriedRightly
    <2>4. CASE Administration!Answers(r, s5[r].on) /\ UNCHANGED s4
      BY <2>1, <2>2, <2>4, Answered DEF Administration!IInv, Administration!TypeOK
    <2>5. ASSUME NEW j \in s5[r].ids, Administration!End({j}, "own", s5[r].on),
                 s5' = [s5 EXCEPT ![r].ids = @ \ {j}]
          PROVE  Administration!IInv'
      <3> DEFINE x == [s5[r] EXCEPT !.ids = @ \ {j}]
      <3>1. /\ s5' = [s5 EXCEPT ![r] = x] /\ x \in Administration!Request
            /\ x.at = "destroy" /\ x.on = s5[r].on /\ x.ids \subseteq s5[r].ids
        BY <2>1, <2>5 DEF Administration!Request, Administration!IInv, Administration!TypeOK
      <3> HIDE DEF x
      <3>2. s5'[r] = x
        BY <3>1 DEF Administration!IInv, Administration!TypeOK
      <3>3. \A i \in Ids : Administration!Begun(i) => Administration!Begun(i)' /\ s4'[i].who = s4[i].who
        BY <2>1, <2>2, <2>3, <2>5, SessionsEnded
      <3>4. Administration!Begun(s5[r].on)' /\ Administration!Begun(s5[r].on) /\ s5'[r].on = s5[r].on
        BY <2>3, <3>1, <3>2, <3>3 DEF Administration!Begun
      <3>5. ASSUME NEW k \in x.ids
            PROVE  Administration!Begun(k)' /\ k # x.on /\ s4'[k].who = s4'[x.on].who
        <4>1. k \in Ids /\ Administration!Begun(k) /\ k # s5[r].on /\ s4[k].who = s4[s5[r].on].who
          BY <2>2, <2>3, <3>1
        <4>2. s5[r].on \in Ids
          BY <2>3 DEF Administration!Begun
        <4> QED
          BY <2>3, <3>1, <3>3, <4>1, <4>2
      <3>6. Administration!CarriedRightly(r)'
        BY <3>1, <3>2, <3>4, <3>5 DEF Administration!CarriedRightly
      <3>7. PICK ended : ended = {j}
        OBVIOUS
      <3>8. /\ s5[r].on \notin ended /\ \A i \in ended : s4[s5[r].on].who = s4[i].who
            /\ Administration!End(ended, "own", s5[r].on)
        BY <2>3, <2>5, <3>7
      <3>9. x.at \notin {"recovered", "notify"} /\ s5[r].at \notin {"recovered", "notify"}
        BY <2>1, <3>1
      <3>10. PICK why : why = "own"
        OBVIOUS
      <3>11. PICK by \in Ids \cup {None} : by = s5[r].on
        BY <2>2
      <3>12. /\ why \in {"logout", "own", "killed", "stopped", "deleted", "disabled", "reset", "recovered"}
             /\ why = "deleted" => \A i \in ended : Administration!Begun(i) => s1[s4[i].who] = Administration!Gone
             /\ UNCHANGED <<s1, s6>>
        BY <2>1, <3>10
      <3>13. /\ Administration!End(ended, why, by)
             /\ why = "own" => /\ Administration!Begun(by) /\ by \notin ended
                          /\ \A i \in ended : s4[by].who = s4[i].who
        BY <3>4, <3>8, <3>10, <3>11
      <3>14. /\ x \in Administration!Request
             /\ s5' = [s5 EXCEPT ![r] = x]
             /\ x.at \in {"recovered", "notify"} <=> s5[r].at \in {"recovered", "notify"}
             /\ s5[r].at \in {"recovered", "notify"} => x.about = s5[r].about
        BY <3>1, <3>9
      <3> QED
        BY <3>6, <3>12, <3>13, <3>14, EndingStep
    <2> QED
      BY <1>2, <2>4, <2>5 DEF Administration!Destroy
  <1>3. CASE Administration!DestroyUser(r)
    <2>1. s5[r] \in Administration!Request /\ s5[r].at \in {"deleted", "disabled", "reset", "recovered"}
      BY <1>3 DEF Administration!DestroyUser, Administration!IInv, Administration!TypeOK
    <2>2. UNCHANGED <<s1, s6>> /\ Administration!End(Administration!Sessions(s5[r].about), s5[r].at, s5[r].on)
      BY <1>3 DEF Administration!DestroyUser, Administration!stored
    <2>3. s5[r].about \in People /\ (s5[r].at = "deleted" => s1[s5[r].about] = Administration!Gone)
      BY <2>1 DEF Administration!IInv, Administration!CarriedRightly
    <2>4. s5[r].on \in Ids \cup {None}
      BY <2>1 DEF Administration!Request
    <2>5. \A i \in Administration!Sessions(s5[r].about) : s4[i].who = s5[r].about
      BY DEF Administration!Sessions
    <2> DEFINE x == IF s5[r].at = "recovered" THEN [s5[r] EXCEPT !.at = "notify"]
                    ELSE [Administration!NoRequest EXCEPT !.at = "page", !.on = s5[r].on]
    <2>6. s5' = [s5 EXCEPT ![r] = x]
      BY <1>3 DEF Administration!DestroyUser, Administration!Goes, Administration!Answers, Administration!IInv, Administration!TypeOK
    <2>7. /\ x \in Administration!Request
          /\ s5[r].at = "recovered" => x.at = "notify" /\ x.about = s5[r].about
          /\ s5[r].at # "recovered" => x.at = "page"
      BY <1>1, <2>1, <2>4 DEF Administration!Request, Administration!NoRequest
    <2> HIDE DEF x
    <2>8. Administration!CarriedRightly(r)'
      BY <2>3, <2>6, <2>7 DEF Administration!CarriedRightly, Administration!IInv, Administration!TypeOK
    <2> QED
      BY <2>1, <2>2, <2>3, <2>4, <2>5, <2>6, <2>7, <2>8, EndingStep
  <1>4. ASSUME NEW i \in Ids, NEW p \in People, Administration!KillSessions(r, i, p) PROVE Administration!IInv'
    <2> DEFINE x == [Administration!NoRequest EXCEPT !.at = "page", !.on = i]
    <2>1. /\ s5[r].at = "none" /\ UNCHANGED <<s1, s6>> /\ s5' = [s5 EXCEPT ![r] = x]
          /\ Administration!End(Administration!Sessions(p), "killed", i)
      BY <1>4, FreeRequest DEF Administration!KillSessions, Administration!Answers, Administration!stored
    <2>2. x \in Administration!Request /\ x.at = "page"
      BY <1>1 DEF Administration!NoRequest
    <2> HIDE DEF x
    <2>3. Administration!CarriedRightly(r)'
      BY <2>1, <2>2 DEF Administration!CarriedRightly, Administration!IInv, Administration!TypeOK
    <2> QED
      BY <2>1, <2>2, <2>3, EndingStep
  <1>5. ASSUME NEW i \in Ids, Administration!EndOwn(r, i) PROVE Administration!IInv'
    <2>1. s5[r].at = "none" /\ UNCHANGED <<s1, s4, s6>> /\ Administration!Live(i)
      BY <1>5, FreeRequest DEF Administration!EndOwn, Administration!stored
    <2>2. PICK ids \in SUBSET (Administration!Sessions(s4[i].who) \ {i}) :
              s5' = [s5 EXCEPT ![r] = [Administration!NoRequest EXCEPT !.at = "destroy", !.on = i, !.ids = ids]]
      BY <1>5 DEF Administration!EndOwn
    <2> DEFINE x == [Administration!NoRequest EXCEPT !.at = "destroy", !.on = i, !.ids = ids]
    <2>3. \A j \in ids : j \in Ids /\ Administration!Live(j) /\ s4[j].who = s4[i].who /\ j # i
      BY <2>2 DEF Administration!Sessions
    <2>4. x \in Administration!Request /\ x.at = "destroy" /\ x.on = i /\ x.ids = ids
      BY <2>3 DEF Administration!NoRequest, Administration!Request, Administration!Nobody, Administration!Account
    <2>5. s5' = [s5 EXCEPT ![r] = x]
      BY <2>2
    <2> HIDE DEF x
    <2>6. Administration!CarriedRightly(r)'
      BY <2>1, <2>3, <2>4, <2>5 DEF Administration!CarriedRightly, Administration!Begun, Administration!Live, Administration!IInv, Administration!TypeOK
    <2> QED
      BY <2>1, <2>4, <2>5, <2>6, StoreStep DEF Administration!IInv, Administration!TypeOK
  <1> QED
    BY <1>2, <1>3, <1>4, <1>5

\* A sign-in makes a session, and its pages show what it was made with.
LEMMA SessionSteps ==
    ASSUME Administration!IInv, NEW r \in Requests, NEW i \in Ids, Administration!StartSession(r, i) \/ Administration!Page(r, i)
    PROVE  Administration!IInv'
  <1>1. CASE Administration!StartSession(r, i)
    <2>1. s5[r].at = "create" /\ s4[i] = Administration!Fresh /\ UNCHANGED <<s1, s6>>
      BY <1>1 DEF Administration!StartSession, Administration!stored
    <2>2. s5[r].about \in People /\ s5[r] \in Administration!Request
      BY <2>1 DEF Administration!IInv, Administration!TypeOK, Administration!CarriedRightly
    <2> DEFINE new == [Administration!Fresh EXCEPT !.at = "live", !.who = s5[r].about, !.admin = s5[r].user.admin,
                                    !.notice = s5[r].user.copy /\ ~s5[r].user.seen]
    <2>3. s4' = [s4 EXCEPT ![i] = new] /\ s5' = [s5 EXCEPT ![r] = Administration!NoRequest]
      BY <1>1 DEF Administration!StartSession, Administration!Done
    <2>4. s5[r].user \in Administration!Account
      BY <2>2 DEF Administration!Request
    <2>5. /\ new \in Administration!Session
          /\ new.at = "live" /\ new.who = s5[r].about /\ new.why = "none"
      BY <2>2, <2>4 DEF Administration!Fresh, Administration!Session, Administration!Account
    <2> HIDE DEF new
    <2>6. Administration!NoRequest \in Administration!Request /\ Administration!NoRequest.at = "none"
      BY DEF Administration!NoRequest, Administration!Request, Administration!Nobody, Administration!Account
    <2>7. /\ s5'[r] = Administration!NoRequest /\ s5' \in [Requests -> Administration!Request]
          /\ \A q \in Requests \ {r} : s5'[q] = s5[q]
      BY <2>3, <2>6 DEF Administration!IInv, Administration!TypeOK
    <2>8. /\ s4'[i] = new /\ s4' \in [Ids -> Administration!Session]
          /\ \A k \in Ids \ {i} : s4'[k] = s4[k]
      BY <2>3, <2>5 DEF Administration!IInv, Administration!TypeOK
    <2>9. Administration!TypeOK'
      BY <2>1, <2>7, <2>8 DEF Administration!IInv, Administration!TypeOK
    <2>10. \A k \in Ids : Administration!Begun(k) => Administration!Begun(k)' /\ s4'[k].who = s4[k].who
      BY <2>1, <2>8 DEF Administration!Begun, Administration!Fresh
    <2>11. Administration!EndedRightly(i)'
      BY <2>2, <2>5, <2>8 DEF Administration!EndedRightly, Administration!Begun
    <2>12. Administration!CarriedRightly(r)'
      BY <2>6, <2>7 DEF Administration!CarriedRightly
    <2>13. \A p \in People : Administration!Accounted(p)'
      BY <2>1, <2>6, <2>7, NothingRecovered
    <2> QED
      BY <2>1, <2>7, <2>8, <2>9, <2>10, <2>11, <2>12, <2>13, RequestStep
  <1>2. CASE Administration!Page(r, i)
    <2>1. s5[r].at \in {"none", "page"} /\ UNCHANGED <<s1, s6>>
      BY <1>2, FreeRequest DEF Administration!Page, Administration!stored
    <2>2. s4' = [s4 EXCEPT ![i].notice = FALSE]
      BY <1>2 DEF Administration!Page
    <2>3. /\ s4' \in [Ids -> Administration!Session]
          /\ \A k \in Ids : /\ s4'[k].at = s4[k].at /\ s4'[k].who = s4[k].who
                            /\ s4'[k].why = s4[k].why /\ s4'[k].by = s4[k].by
                            /\ s4'[k].notice \in {FALSE, s4[k].notice}
      BY ZenonT(40), <2>2 DEF Administration!IInv, Administration!TypeOK, Administration!Session
    <2>4. s4[i] \in Administration!Session
      BY DEF Administration!IInv, Administration!TypeOK
    <2>5. s4[i].who \in People \cup {None}
      BY <2>4 DEF Administration!Session
    <2> DEFINE mark == [Administration!NoRequest EXCEPT !.at = "mark", !.on = i, !.about = s4[i].who]
    <2>6. mark \in Administration!Request /\ mark.at = "mark" /\ mark.about = s4[i].who
      BY <2>5 DEF Administration!NoRequest, Administration!Request, Administration!Nobody, Administration!Account
    <2>7. Administration!NoRequest \in Administration!Request /\ Administration!NoRequest.at = "none"
      BY DEF Administration!NoRequest, Administration!Request, Administration!Nobody, Administration!Account
    <2>8. PICK x \in {mark, Administration!NoRequest} :
              s5' = [s5 EXCEPT ![r] = x] /\ (x = mark => s4[i].notice)
      BY <1>2, <2>6, <2>7 DEF Administration!Page, Administration!Start, Administration!Done
    <2> HIDE DEF mark
    <2>9. /\ s5'[r] = x /\ s5' \in [Requests -> Administration!Request] /\ x.at \in {"mark", "none"}
          /\ \A q \in Requests \ {r} : s5'[q] = s5[q]
      BY <2>6, <2>7, <2>8 DEF Administration!IInv, Administration!TypeOK
    <2>10. Administration!TypeOK'
      BY <2>1, <2>3, <2>9 DEF Administration!IInv, Administration!TypeOK
    <2>11. x = mark => s4[i].who \in People
      BY <2>8 DEF Administration!IInv, Administration!EndedRightly
    <2>12. Administration!CarriedRightly(r)'
      BY <2>6, <2>7, <2>8, <2>9, <2>11 DEF Administration!CarriedRightly
    <2>13. \A p \in People : Administration!Accounted(p)'
      BY <2>1, <2>9, NothingRecovered
    <2> QED
      BY <2>1, <2>3, <2>9, <2>10, <2>12, <2>13, RequestStep DEF Administration!Begun
  <1> QED
    BY <1>1, <1>2

\* A recovery, and the notice of it.
LEMMA RecoverySteps ==
    ASSUME Administration!IInv, NEW r \in Requests,
           Administration!NotifyRecovery(r) \/ \E i \in Ids, p \in People : Administration!RecoverUser(r, i, p)
    PROVE  Administration!IInv'
  <1>1. ASSUME NEW p \in People PROVE IsFiniteSet(Administration!Recovering(p))
    <2>1. Administration!Recovering(p) \subseteq Requests
      BY DEF Administration!Recovering
    <2> QED
      BY <2>1, RequestsAssumption, FS_Subset
  <1>2. ASSUME NEW i \in Ids, NEW p \in People, Administration!RecoverUser(r, i, p) PROVE Administration!IInv'
    <2> DEFINE x == [Administration!NoRequest EXCEPT !.at = "recovered", !.on = i, !.about = p]
    <2>1. /\ s5[r].at = "none" /\ UNCHANGED <<s1, s4>> /\ s5' = [s5 EXCEPT ![r] = x]
          /\ s6' = [s6 EXCEPT ![p].done = @ + 1]
      BY <1>2, FreeRequest DEF Administration!RecoverUser, Administration!Start, Administration!stored
    <2>2. x \in Administration!Request /\ x.at = "recovered" /\ x.about = p
      BY DEF Administration!NoRequest, Administration!Request, Administration!Nobody, Administration!Account
    <2> HIDE DEF x
    <2>3. /\ s5'[r] = x /\ s5' \in [Requests -> Administration!Request]
          /\ \A q \in Requests \ {r} : s5'[q] = s5[q]
      BY <2>1, <2>2 DEF Administration!IInv, Administration!TypeOK
    <2>4. Administration!TypeOK'
      BY <2>1, <2>3 DEF Administration!IInv, Administration!TypeOK
    <2>5. Administration!CarriedRightly(r)'
      BY <2>2, <2>3 DEF Administration!CarriedRightly
    <2>6. ASSUME NEW o \in People PROVE Administration!Accounted(o)'
      <3>1. CASE o = p
        <4>1. Administration!Recovering(p)' = Administration!Recovering(p) \cup {r} /\ r \notin Administration!Recovering(p)
          BY <2>1, <2>2, <2>3 DEF Administration!Recovering
        <4>2. Administration!Cardinality(Administration!Recovering(p)') = Administration!Cardinality(Administration!Recovering(p)) + 1
          BY <1>1, <4>1, FS_AddElement, PanelCounts
        <4>3. Administration!Cardinality(Administration!Recovering(p)) \in Nat
          BY <1>1, FS_CardinalityType, PanelCounts
        <4>4. /\ s6[p].done \in Nat /\ s6[p].told \in Nat /\ s6[p].lost \in Nat
              /\ s6'[p].done = s6[p].done + 1 /\ s6'[p].told = s6[p].told /\ s6'[p].lost = s6[p].lost
          BY <2>1 DEF Administration!IInv, Administration!TypeOK
        <4>5. s6[p].done = s6[p].told + s6[p].lost + Administration!Cardinality(Administration!Recovering(p))
          BY DEF Administration!IInv, Administration!Accounted
        <4> QED
          BY <3>1, <4>2, <4>3, <4>4, <4>5 DEF Administration!Accounted
      <3>2. CASE o # p
        <4>1. Administration!Recovering(o)' = Administration!Recovering(o)
          BY <2>1, <2>2, <2>3, <3>2 DEF Administration!Recovering
        <4>2. s6'[o] = s6[o]
          BY <2>1, <3>2 DEF Administration!IInv, Administration!TypeOK
        <4> QED
          BY <4>1, <4>2 DEF Administration!IInv, Administration!Accounted
      <3> QED
        BY <3>1, <3>2
    <2> QED
      BY <2>1, <2>3, <2>4, <2>5, <2>6, RequestStep DEF Administration!Begun
  <1>3. CASE Administration!NotifyRecovery(r)
    <2> DEFINE p == s5[r].about
    <2>1. s5[r].at = "notify" /\ UNCHANGED <<s1, s4>> /\ Administration!Answers(r, s5[r].on)
      BY <1>3 DEF Administration!NotifyRecovery, Administration!stored
    <2>2. p \in People /\ s5[r] \in Administration!Request
      BY <2>1 DEF Administration!IInv, Administration!TypeOK, Administration!CarriedRightly
    <2>3. s6' = [s6 EXCEPT ![p].told = @ + 1]
      BY <1>3 DEF Administration!NotifyRecovery, Administration!Queued, Administration!Warned
    <2> DEFINE x == [Administration!NoRequest EXCEPT !.at = "page", !.on = s5[r].on]
    <2>4. s5' = [s5 EXCEPT ![r] = x] /\ x \in Administration!Request /\ x.at = "page"
      BY <2>1, <2>2 DEF Administration!Answers, Administration!NoRequest, Administration!Request, Administration!Nobody, Administration!Account
    <2> HIDE DEF x
    <2>5. /\ s5'[r] = x /\ s5' \in [Requests -> Administration!Request]
          /\ \A q \in Requests \ {r} : s5'[q] = s5[q]
      BY <2>4 DEF Administration!IInv, Administration!TypeOK
    <2>6. Administration!TypeOK'
      BY <2>1, <2>2, <2>3, <2>5 DEF Administration!IInv, Administration!TypeOK
    <2>7. Administration!CarriedRightly(r)'
      BY <2>4, <2>5 DEF Administration!CarriedRightly
    <2>8. ASSUME NEW o \in People PROVE Administration!Accounted(o)'
      <3>1. CASE o = p
        <4>1. Administration!Recovering(o)' = Administration!Recovering(o) \ {r} /\ r \in Administration!Recovering(o)
          BY <2>1, <2>4, <2>5, <3>1 DEF Administration!Recovering
        <4>2. Administration!Cardinality(Administration!Recovering(o)') = Administration!Cardinality(Administration!Recovering(o)) - 1
          BY <1>1, <4>1, FS_RemoveElement, PanelCounts
        <4>3. Administration!Cardinality(Administration!Recovering(o)) \in Nat
          BY <1>1, FS_CardinalityType, PanelCounts
        <4>4. /\ s6[o].done \in Nat /\ s6[o].told \in Nat /\ s6[o].lost \in Nat
              /\ s6'[o].done = s6[o].done /\ s6'[o].told = s6[o].told + 1 /\ s6'[o].lost = s6[o].lost
          BY <2>2, <2>3, <3>1 DEF Administration!IInv, Administration!TypeOK
        <4>5. s6[o].done = s6[o].told + s6[o].lost + Administration!Cardinality(Administration!Recovering(o))
          BY DEF Administration!IInv, Administration!Accounted
        <4> QED
          BY <4>2, <4>3, <4>4, <4>5 DEF Administration!Accounted
      <3>2. CASE o # p
        <4>1. Administration!Recovering(o)' = Administration!Recovering(o)
          BY <2>1, <2>4, <2>5, <3>2 DEF Administration!Recovering
        <4>2. s6'[o] = s6[o]
          BY <2>3, <3>2 DEF Administration!IInv, Administration!TypeOK
        <4> QED
          BY <4>1, <4>2 DEF Administration!IInv, Administration!Accounted
      <3> QED
        BY <3>1, <3>2
    <2> QED
      BY <2>1, <2>5, <2>6, <2>7, <2>8, RequestStep DEF Administration!Begun
  <1> QED
    BY <1>2, <1>3

\* The server stops, and with it every session and every request.
LEMMA RestartStep == ASSUME Administration!IInv, Administration!Restart PROVE Administration!IInv'
  <1>1. /\ UNCHANGED s1 /\ Administration!End(Ids, "stopped", None)
        /\ s5' = [r \in Requests |-> Administration!NoRequest]
        /\ s6' = [p \in People |-> [s6[p] EXCEPT !.lost = @ + Administration!Cardinality(Administration!Recovering(p))]]
    BY DEF Administration!Restart, Administration!stored
  <1>2. /\ s4' \in [Ids -> Administration!Session]
        /\ \A i \in Ids : Administration!Begun(i) => Administration!Begun(i)' /\ s4'[i].who = s4[i].who
        /\ \A i \in Ids : s4'[i] = s4[i] \/ Administration!EndedRightly(i)'
    BY <1>1, SessionsEnded
  <1>3. \A i \in Ids : Administration!EndedRightly(i)'
    BY <1>1, <1>2, EndingsHold
  <1>4. Administration!NoRequest \in Administration!Request /\ Administration!NoRequest.at = "none"
    BY DEF Administration!NoRequest, Administration!Request, Administration!Nobody, Administration!Account
  <1>5. ASSUME NEW p \in People
        PROVE  Administration!Cardinality(Administration!Recovering(p)) \in Nat /\ Administration!Cardinality(Administration!Recovering(p)') = 0
    <2>1. IsFiniteSet(Administration!Recovering(p))
      <3>1. Administration!Recovering(p) \subseteq Requests
        BY DEF Administration!Recovering
      <3> QED
        BY <3>1, RequestsAssumption, FS_Subset
    <2>2. Administration!Recovering(p)' = {}
      BY <1>1, <1>4 DEF Administration!Recovering
    <2> QED
      BY <2>1, <2>2, FS_CardinalityType, FS_EmptySet, PanelCounts
  <1>6. ASSUME NEW p \in People
        PROVE  /\ s6'[p] \in [done : Nat, told : Nat, lost : Nat]
               /\ s6'[p].done = s6[p].done /\ s6'[p].told = s6[p].told
               /\ s6'[p].lost = s6[p].lost + Administration!Cardinality(Administration!Recovering(p))
               /\ s6[p].done \in Nat /\ s6[p].told \in Nat /\ s6[p].lost \in Nat
    <2>1. s6[p] \in [done : Nat, told : Nat, lost : Nat]
      BY DEF Administration!IInv, Administration!TypeOK
    <2>2. s6'[p] = [s6[p] EXCEPT !.lost = @ + Administration!Cardinality(Administration!Recovering(p))]
      BY <1>1
    <2> QED
      BY <1>5, <2>1, <2>2
  <1>7. Administration!TypeOK'
    <2>1. s6' \in [People -> [done : Nat, told : Nat, lost : Nat]]
      BY <1>1, <1>6
    <2>2. s5' \in [Requests -> Administration!Request]
      BY <1>1, <1>4
    <2> QED
      BY <1>1, <1>2, <2>1, <2>2 DEF Administration!IInv, Administration!TypeOK
  <1>8. ASSUME NEW p \in People PROVE Administration!Accounted(p)'
    <2>1. s6[p].done = s6[p].told + s6[p].lost + Administration!Cardinality(Administration!Recovering(p))
      BY DEF Administration!IInv, Administration!Accounted
    <2> QED
      BY <1>5, <1>6, <2>1 DEF Administration!Accounted
  <1>9. ASSUME NEW r \in Requests PROVE Administration!CarriedRightly(r)'
    BY <1>1, <1>4 DEF Administration!CarriedRightly
  <1> QED
    BY <1>3, <1>7, <1>8, <1>9 DEF Administration!IInv

\* Signing out.
LEMMA LogoutStep == ASSUME Administration!IInv, NEW i \in Ids, Administration!Logout(i) PROVE Administration!IInv'
  <1>1. UNCHANGED <<s1, s5, s6>> /\ Administration!End({i}, "logout", i)
    BY DEF Administration!Logout, Administration!stored
  <1>2. /\ s4' \in [Ids -> Administration!Session]
        /\ \A k \in Ids : Administration!Begun(k) => Administration!Begun(k)' /\ s4'[k].who = s4[k].who
        /\ \A k \in Ids : s4'[k] = s4[k] \/ Administration!EndedRightly(k)'
    BY <1>1, SessionsEnded
  <1>3. \A k \in Ids : Administration!EndedRightly(k)'
    BY <1>1, <1>2, EndingsHold
  <1>4. \A r \in Requests : Administration!CarriedRightly(r)'
    BY <1>1, <1>2, RequestHolds
  <1>5. Administration!TypeOK' /\ \A p \in People : Administration!Accounted(p)'
    BY <1>1, <1>2 DEF Administration!IInv, Administration!TypeOK, Administration!Accounted, Administration!Recovering
  <1> QED
    BY <1>3, <1>4, <1>5 DEF Administration!IInv

\* Every handler, at every gap between its calls.
LEMMA AdministrationStep ==
    ASSUME Administration!IInv, [Administration!Next]_(Administration!vars)
    PROVE  Administration!IInv'
  <1>1. CASE UNCHANGED Administration!vars
    BY <1>1 DEF Administration!vars, Administration!stored, Administration!IInv, Administration!TypeOK, Administration!Accounted, Administration!Recovering, Administration!EndedRightly,
           Administration!CarriedRightly, Administration!Begun
  <1> QED
    BY <1>1, RestartStep, LogoutStep, StoreSteps, PanelSteps, EndingSteps, SessionSteps,
       RecoverySteps DEF Administration!Next

\* The counts and the reasons are what was promised.
LEMMA AdministrationAnswers == Administration!IInv => Administration!PanelKeepsItsOrder
  BY DEF Administration!IInv, Administration!Accounted, Administration!EndedRightly, Administration!PanelKeepsItsOrder

-----------------------------------------------------------------------------
(* The limiter of guesses. *)
\* Induction over the natural numbers, as a fact about sets.
LessThan == {ss \in Nat \X Nat : ss[1] < ss[2]}

LEMMA NatInductive ==
    ASSUME NEW P, 0 \in P, \A i \in Nat : i \in P => i + 1 \in P
    PROVE  Nat \subseteq P
  <1> SUFFICES ASSUME Nat \ P # {} PROVE FALSE
    OBVIOUS
  <1>1. IsWellFoundedOn(LessThan, Nat)
    BY NatLessThanWellFounded DEF OpToRel, LessThan
  <1>2. PICK x \in Nat \ P : \A y \in Nat \ P : ~ (<<y, x>> \in LessThan)
    <2>1. Nat \ P \subseteq Nat
      OBVIOUS
    <2> QED
      BY <1>1, <2>1, WFMin
  <1>3. x # 0 /\ x - 1 \in Nat
    OBVIOUS
  <1>4. <<x - 1, x>> \in Nat \X Nat /\ <<x - 1, x>>[1] < <<x - 1, x>>[2]
    BY <1>3
  <1>5. x - 1 \in P
    BY <1>2, <1>3, <1>4 DEF LessThan
  <1> QED
    BY <1>3, <1>5

\* A function over the natural numbers that is given by its first value and by each value
\* from the one before is there: its beginnings are, and they agree.
Steps(step, S) == \A n \in Nat, x \in S : step[n][x] \in S
IsRecursive(f, S, a, step) ==
    f \in [Nat -> S] /\ \A n \in Nat : f[n] = IF n = 0 THEN a ELSE step[n][f[n - 1]]

LEMMA Recursion ==
    ASSUME NEW S, NEW a \in S, NEW step, Steps(step, S)
    PROVE  \E f : IsRecursive(f, S, a, step)
  <1> USE DEF Steps, IsRecursive
  <1> DEFINE Begins(h, m) == /\ h \in [0 .. m -> S]
                             /\ \A i \in 0 .. m : h[i] = IF i = 0 THEN a ELSE step[i][h[i - 1]]
  <1>1. \A m \in Nat : \E h : Begins(h, m)
    <2> DEFINE P == {m \in Nat : \E h : Begins(h, m)}
    <2>1. 0 \in P
      <3>1. Begins([i \in 0 .. 0 |-> a], 0)
        OBVIOUS
      <3> QED
        BY <3>1
    <2>2. ASSUME NEW m \in Nat, m \in P PROVE m + 1 \in P
      <3>1. PICK h : Begins(h, m)
        BY <2>2
      <3> DEFINE g == [i \in 0 .. m + 1 |-> IF i = m + 1 THEN step[m + 1][h[m]] ELSE h[i]]
      <3>2. \A i \in 0 .. m + 1 : g[i] = IF i = m + 1 THEN step[m + 1][h[m]] ELSE h[i]
        OBVIOUS
      <3>3. step[m + 1][h[m]] \in S /\ \A i \in 0 .. m : h[i] \in S
        BY <3>1
      <3>4. g \in [0 .. m + 1 -> S]
        BY <3>3
      <3> HIDE DEF g
      <3>5. ASSUME NEW i \in 0 .. m + 1
            PROVE  g[i] = IF i = 0 THEN a ELSE step[i][g[i - 1]]
        <4>1. CASE i = m + 1
          <5>1. i # 0 /\ i - 1 = m /\ i - 1 # m + 1 /\ i - 1 \in 0 .. m + 1
            BY <4>1
          <5> QED
            BY <3>2, <4>1, <5>1
        <4>2. CASE i \in 0 .. m
          <5>1. i # m + 1 /\ (i # 0 => i - 1 \in 0 .. m + 1 /\ i - 1 # m + 1)
            BY <4>2
          <5> QED
            BY <3>1, <3>2, <4>2, <5>1
        <4> QED
          BY <4>1, <4>2
      <3>6. Begins(g, m + 1)
        BY <3>4, <3>5
      <3> QED
        BY <3>6
    <2> HIDE DEF P
    <2>3. Nat \subseteq P
      BY <2>1, <2>2, NatInductive
    <2> QED
      BY <2>3 DEF P
  <1> DEFINE start == [m \in Nat |-> CHOOSE h : Begins(h, m)]
             f == [m \in Nat |-> start[m][m]]
  <1>2. \A m \in Nat : Begins(start[m], m)
    BY <1>1
  <1> HIDE DEF start
  <1>3. ASSUME NEW n \in Nat PROVE start[n + 1][n] = start[n][n]
    <2> DEFINE Q == {i \in Nat : i <= n => start[n + 1][i] = start[n][i]}
    <2>1. Begins(start[n + 1], n + 1) /\ Begins(start[n], n)
      BY <1>2
    <2>2. 0 \in Q
      BY <2>1
    <2>3. ASSUME NEW i \in Nat, i \in Q PROVE i + 1 \in Q
      <3> SUFFICES ASSUME i + 1 <= n PROVE start[n + 1][i + 1] = start[n][i + 1]
        OBVIOUS
      <3>1. start[n + 1][i] = start[n][i]
        BY <2>3
      <3>2. i + 1 \in 0 .. n /\ i + 1 \in 0 .. n + 1 /\ i + 1 # 0 /\ i + 1 - 1 = i
        OBVIOUS
      <3>3. start[n + 1][i + 1] = step[i + 1][start[n + 1][i]]
        <4>1. \A j \in 0 .. n + 1 :
                 start[n + 1][j] = IF j = 0 THEN a ELSE step[j][start[n + 1][j - 1]]
          BY <2>1
        <4> QED
          BY <3>2, <4>1
      <3>4. start[n][i + 1] = step[i + 1][start[n][i]]
        <4>1. \A j \in 0 .. n :
                 start[n][j] = IF j = 0 THEN a ELSE step[j][start[n][j - 1]]
          BY <2>1
        <4> QED
          BY <3>2, <4>1
      <3> QED
        BY <3>1, <3>3, <3>4
    <2> HIDE DEF Q
    <2>4. Nat \subseteq Q
      BY <2>2, <2>3, NatInductive
    <2> QED
      BY <2>4 DEF Q
  <1>4. f \in [Nat -> S]
    BY <1>2
  <1>5. ASSUME NEW n \in Nat PROVE f[n] = IF n = 0 THEN a ELSE step[n][f[n - 1]]
    <2>1. Begins(start[n], n)
      BY <1>2
    <2>2. CASE n = 0
      BY <2>1, <2>2
    <2>3. CASE n # 0
      <3>1. n - 1 \in Nat /\ n - 1 + 1 = n
        BY <2>3
      <3>2. start[n][n - 1] = start[n - 1][n - 1]
        BY <1>3, <3>1
      <3>3. start[n][n] = step[n][start[n][n - 1]]
        BY <2>1, <2>3
      <3> QED
        BY <2>3, <3>1, <3>2, <3>3
    <2> QED
      BY <2>2, <2>3
  <1> QED
    BY <1>4, <1>5

\* The recursive functions of the limiter do what their equations say.
LEMMA DelayValues ==
    /\ Guessing!Delay \in [Nat -> Nat] /\ Guessing!Delay[0] = BaseDelay
    /\ \A n \in Nat : Guessing!Delay[n + 1] = IF Guessing!Delay[n] * 2 >= MaxDelay THEN MaxDelay ELSE Guessing!Delay[n] * 2
  <1> DEFINE step == [n \in Nat |-> [x \in Nat |-> IF x * 2 >= MaxDelay THEN MaxDelay ELSE x * 2]]
             Recurs(f) == f = [n \in Nat |-> IF n = 0 THEN BaseDelay
                                             ELSE IF f[n - 1] * 2 >= MaxDelay THEN MaxDelay ELSE f[n - 1] * 2]
  <1>1. Steps(step, Nat) /\ BaseDelay \in Nat
    BY GuessingAssumption DEF Steps
  <1>2. PICK f : IsRecursive(f, Nat, BaseDelay, step)
    <2> HIDE DEF step
    <2> QED
      BY <1>1, Recursion
  <1>3. ASSUME NEW n \in Nat
        PROVE  f[n] = IF n = 0 THEN BaseDelay ELSE IF f[n - 1] * 2 >= MaxDelay THEN MaxDelay ELSE f[n - 1] * 2
    <2>1. CASE n = 0
      BY <1>2, <2>1 DEF IsRecursive
    <2>2. CASE n # 0
      <3>1. n - 1 \in Nat
        BY <2>2
      <3>2. f[n - 1] \in Nat /\ f[n] = step[n][f[n - 1]]
        BY <1>2, <2>2, <3>1 DEF IsRecursive
      <3> QED
        BY <2>2, <3>2
    <2> QED
      BY <2>1, <2>2
  <1>4. Recurs(f)
    BY <1>2, <1>3 DEF IsRecursive
  <1>5. Guessing!Delay = CHOOSE g : Recurs(g)
    BY DEF Guessing!Delay
  <1>6. Recurs(Guessing!Delay)
    <2> HIDE DEF Recurs
    <2> QED
      BY <1>4, <1>5
  <1> HIDE DEF step
  <1>7. Guessing!Delay[0] = BaseDelay
    BY <1>6
  <1>8. ASSUME NEW n \in Nat PROVE Guessing!Delay[n + 1] = IF Guessing!Delay[n] * 2 >= MaxDelay THEN MaxDelay ELSE Guessing!Delay[n] * 2
    <2>1. n + 1 \in Nat /\ n + 1 # 0 /\ n + 1 - 1 = n
      OBVIOUS
    <2> QED
      BY <1>6, <2>1
  <1>9. Guessing!Delay \in [Nat -> Nat]
    <2> DEFINE P == {n \in Nat : Guessing!Delay[n] \in Nat}
    <2>1. 0 \in P
      BY <1>1, <1>7
    <2>2. ASSUME NEW n \in Nat, n \in P PROVE n + 1 \in P
      <3>1. Guessing!Delay[n] \in Nat
        BY <2>2
      <3>2. (IF Guessing!Delay[n] * 2 >= MaxDelay THEN MaxDelay ELSE Guessing!Delay[n] * 2) \in Nat
        BY GuessingAssumption, <3>1
      <3> QED
        BY <1>8, <3>2
    <2> HIDE DEF P
    <2>3. Nat \subseteq P
      BY <2>1, <2>2, NatInductive
    <2> QED
      BY <1>6, <2>3 DEF P
  <1> QED
    BY <1>7, <1>8, <1>9

\* The pauses before they are cut off at the longest.
LEMMA DoubledValues ==
    /\ Guessing!Doubled \in [Nat -> Nat] /\ Guessing!Doubled[0] = BaseDelay
    /\ \A n \in Nat : Guessing!Doubled[n + 1] = Guessing!Doubled[n] * 2
  <1> DEFINE step == [n \in Nat |-> [x \in Nat |-> x * 2]]
             Recurs(f) == f = [n \in Nat |-> IF n = 0 THEN BaseDelay
                                             ELSE f[n - 1] * 2]
  <1>1. Steps(step, Nat) /\ BaseDelay \in Nat
    BY GuessingAssumption DEF Steps
  <1>2. PICK f : IsRecursive(f, Nat, BaseDelay, step)
    <2> HIDE DEF step
    <2> QED
      BY <1>1, Recursion
  <1>3. ASSUME NEW n \in Nat
        PROVE  f[n] = IF n = 0 THEN BaseDelay ELSE f[n - 1] * 2
    <2>1. CASE n = 0
      BY <1>2, <2>1 DEF IsRecursive
    <2>2. CASE n # 0
      <3>1. n - 1 \in Nat
        BY <2>2
      <3>2. f[n - 1] \in Nat /\ f[n] = step[n][f[n - 1]]
        BY <1>2, <2>2, <3>1 DEF IsRecursive
      <3> QED
        BY <2>2, <3>2
    <2> QED
      BY <2>1, <2>2
  <1>4. Recurs(f)
    BY <1>2, <1>3 DEF IsRecursive
  <1>5. Guessing!Doubled = CHOOSE g : Recurs(g)
    BY DEF Guessing!Doubled
  <1>6. Recurs(Guessing!Doubled)
    <2> HIDE DEF Recurs
    <2> QED
      BY <1>4, <1>5
  <1> HIDE DEF step
  <1>7. Guessing!Doubled[0] = BaseDelay
    BY <1>6
  <1>8. ASSUME NEW n \in Nat PROVE Guessing!Doubled[n + 1] = Guessing!Doubled[n] * 2
    <2>1. n + 1 \in Nat /\ n + 1 # 0 /\ n + 1 - 1 = n
      OBVIOUS
    <2> QED
      BY <1>6, <2>1
  <1>9. Guessing!Doubled \in [Nat -> Nat]
    <2> DEFINE P == {n \in Nat : Guessing!Doubled[n] \in Nat}
    <2>1. 0 \in P
      BY <1>1, <1>7
    <2>2. ASSUME NEW n \in Nat, n \in P PROVE n + 1 \in P
      <3>1. Guessing!Doubled[n] \in Nat
        BY <2>2
      <3>2. (Guessing!Doubled[n] * 2) \in Nat
        BY GuessingAssumption, <3>1
      <3> QED
        BY <1>8, <3>2
    <2> HIDE DEF P
    <2>3. Nat \subseteq P
      BY <2>1, <2>2, NatInductive
    <2> QED
      BY <1>6, <2>3 DEF P
  <1> QED
    BY <1>7, <1>8, <1>9

\* No pause is empty.
LEMMA PauseIsLong == \A n \in Nat : Guessing!Doubled[n] \in Nat \ {0} /\ Guessing!Pause(n) \in Nat \ {0}
  <1> DEFINE P == {n \in Nat : Guessing!Doubled[n] # 0}
  <1>1. 0 \in P
    BY DoubledValues, GuessingAssumption
  <1>2. ASSUME NEW n \in Nat, n \in P PROVE n + 1 \in P
    <2>1. Guessing!Doubled[n] \in Nat /\ Guessing!Doubled[n] # 0
      BY <1>2, DoubledValues
    <2>2. Guessing!Doubled[n + 1] = Guessing!Doubled[n] * 2
      BY DoubledValues
    <2> QED
      BY <2>1, <2>2
  <1> HIDE DEF P
  <1>3. Nat \subseteq P
    BY <1>1, <1>2, NatInductive
  <1> QED
    BY <1>3, DoubledValues, GuessingAssumption DEF P, Guessing!Pause, Guessing!Lower

\* And their sums.
LEMMA PausesValues ==
    /\ Guessing!Pauses \in [Nat -> Nat] /\ Guessing!Pauses[0] = 0
    /\ \A n \in Nat : Guessing!Pauses[n + 1] = Guessing!Pauses[n] + Guessing!Pause(n)
  <1> DEFINE step == [n \in Nat |-> [x \in Nat |-> IF n = 0 THEN 0 ELSE x + Guessing!Pause(n - 1)]]
             Recurs(f) == f = [n \in Nat |-> IF n = 0 THEN 0
                                             ELSE f[n - 1] + Guessing!Pause(n - 1)]
  <1>1. Steps(step, Nat) /\ 0 \in Nat
    BY PauseIsLong DEF Steps
  <1>2. PICK f : IsRecursive(f, Nat, 0, step)
    <2> HIDE DEF step
    <2> QED
      BY <1>1, Recursion
  <1>3. ASSUME NEW n \in Nat
        PROVE  f[n] = IF n = 0 THEN 0 ELSE f[n - 1] + Guessing!Pause(n - 1)
    <2>1. CASE n = 0
      BY <1>2, <2>1 DEF IsRecursive
    <2>2. CASE n # 0
      <3>1. n - 1 \in Nat
        BY <2>2
      <3>2. f[n - 1] \in Nat /\ f[n] = step[n][f[n - 1]]
        BY <1>2, <2>2, <3>1 DEF IsRecursive
      <3> QED
        BY <2>2, <3>2
    <2> QED
      BY <2>1, <2>2
  <1>4. Recurs(f)
    BY <1>2, <1>3 DEF IsRecursive
  <1>5. Guessing!Pauses = CHOOSE g : Recurs(g)
    BY DEF Guessing!Pauses, Guessing!Pause
  <1>6. Recurs(Guessing!Pauses)
    <2> HIDE DEF Recurs
    <2> QED
      BY <1>4, <1>5
  <1> HIDE DEF step
  <1>7. Guessing!Pauses[0] = 0
    BY <1>6
  <1>8. ASSUME NEW n \in Nat PROVE Guessing!Pauses[n + 1] = Guessing!Pauses[n] + Guessing!Pause(n)
    <2>1. n + 1 \in Nat /\ n + 1 # 0 /\ n + 1 - 1 = n
      OBVIOUS
    <2> QED
      BY <1>6, <2>1
  <1>9. Guessing!Pauses \in [Nat -> Nat]
    <2> DEFINE P == {n \in Nat : Guessing!Pauses[n] \in Nat}
    <2>1. 0 \in P
      BY <1>1, <1>7
    <2>2. ASSUME NEW n \in Nat, n \in P PROVE n + 1 \in P
      <3>1. Guessing!Pauses[n] \in Nat
        BY <2>2
      <3>2. (Guessing!Pauses[n] + Guessing!Pause(n)) \in Nat
        BY PauseIsLong, <3>1
      <3> QED
        BY <1>8, <3>2
    <2> HIDE DEF P
    <2>3. Nat \subseteq P
      BY <2>1, <2>2, NatInductive
    <2> QED
      BY <1>6, <2>3 DEF P
  <1> QED
    BY <1>7, <1>8, <1>9

\* The loop of delayFor and the pauses of the property are the same numbers.
LEMMA DelayIsPause ==
    \A n \in Nat : Guessing!DelayFor(FreeTries + n + 1) = Guessing!Pause(n)
  <1> DEFINE P == {n \in Nat : \/ Guessing!Delay[n] = Guessing!Doubled[n]
                               \/ Guessing!Delay[n] = MaxDelay /\ Guessing!Doubled[n] >= MaxDelay}
  <1>1. 0 \in P
    BY DelayValues, DoubledValues
  <1>2. ASSUME NEW n \in Nat, n \in P PROVE n + 1 \in P
    <2>1. /\ Guessing!Delay[n] \in Nat /\ Guessing!Doubled[n] \in Nat /\ MaxDelay \in Nat
          /\ Guessing!Delay[n + 1] = IF Guessing!Delay[n] * 2 >= MaxDelay THEN MaxDelay ELSE Guessing!Delay[n] * 2
          /\ Guessing!Doubled[n + 1] = Guessing!Doubled[n] * 2
      BY DelayValues, DoubledValues, GuessingAssumption
    <2> QED
      BY <1>2, <2>1
  <1>3. Nat \subseteq P
    <2> HIDE DEF P
    <2> QED
      BY <1>1, <1>2, NatInductive
  <1>4. ASSUME NEW n \in Nat PROVE Guessing!Lower(MaxDelay, Guessing!Delay[n]) = Guessing!Lower(MaxDelay, Guessing!Doubled[n])
    <2>1. Guessing!Delay[n] \in Nat /\ Guessing!Doubled[n] \in Nat /\ MaxDelay \in Nat
      BY DelayValues, DoubledValues, GuessingAssumption
    <2> QED
      BY <1>3, <2>1 DEF Guessing!Lower
  <1>5. ASSUME NEW n \in Nat PROVE Guessing!DelayFor(FreeTries + n + 1) = Guessing!Lower(MaxDelay, Guessing!Delay[n])
    <2>1. FreeTries \in Nat
      BY GuessingAssumption
    <2>2. ~(FreeTries + n + 1 <= FreeTries) /\ FreeTries + n + 1 - FreeTries - 1 = n
      BY <2>1
    <2> QED
      BY <2>1, <2>2 DEF Guessing!DelayFor
  <1> QED
    BY <1>4, <1>5 DEF Guessing!Pause

\* Pauses do not get shorter.
LEMMA PausesGrow == \A n \in Nat, d \in Nat : Guessing!Pause(n) <= Guessing!Pause(n + d)
  <1> TAKE n \in Nat
  <1> DEFINE P == {d \in Nat : Guessing!Doubled[n] <= Guessing!Doubled[n + d]}
  <1>1. 0 \in P
    BY DoubledValues
  <1>2. ASSUME NEW d \in Nat, d \in P PROVE d + 1 \in P
    <2>1. n + d \in Nat /\ n + (d + 1) = (n + d) + 1
      OBVIOUS
    <2>2. Guessing!Doubled[n] \in Nat /\ Guessing!Doubled[n + d] \in Nat /\ Guessing!Doubled[n + (d + 1)] = Guessing!Doubled[n + d] * 2
      BY <2>1, DoubledValues
    <2> QED
      BY <1>2, <2>2
  <1>3. Nat \subseteq P
    <2> HIDE DEF P
    <2> QED
      BY <1>1, <1>2, NatInductive
  <1>4. ASSUME NEW d \in Nat PROVE Guessing!Pause(n) <= Guessing!Pause(n + d)
    <2>1. /\ Guessing!Doubled[n] \in Nat /\ Guessing!Doubled[n + d] \in Nat /\ MaxDelay \in Nat
      <3>1. n + d \in Nat
        OBVIOUS
      <3> QED
        BY <3>1, DoubledValues, GuessingAssumption
    <2>2. Guessing!Doubled[n] <= Guessing!Doubled[n + d]
      BY <1>3
    <2> QED
      BY <2>1, <2>2 DEF Guessing!Pause, Guessing!Lower
  <1> QED
    BY <1>4

\* So many pauses take so long at least.
LEMMA PausesTakeTime == \A n \in Nat : Guessing!Pauses[n] \in Nat /\ n <= Guessing!Pauses[n]
  <1> DEFINE P == {n \in Nat : n <= Guessing!Pauses[n]}
  <1>1. 0 \in P
    BY PausesValues
  <1>2. ASSUME NEW n \in Nat, n \in P PROVE n + 1 \in P
    <2>1. /\ Guessing!Pauses[n] \in Nat /\ Guessing!Pause(n) \in Nat \ {0}
          /\ Guessing!Pauses[n + 1] = Guessing!Pauses[n] + Guessing!Pause(n)
      BY PausesValues, PauseIsLong
    <2> QED
      BY <1>2, <2>1
  <1>3. Nat \subseteq P
    <2> HIDE DEF P
    <2> QED
      BY <1>1, <1>2, NatInductive
  <1> QED
    BY <1>3, PausesValues

\* The requests that use a key can be counted.
LEMMA UsersCounted ==
    \A k : /\ IsFiniteSet(Guessing!Users(k)) /\ Guessing!Cardinality(Guessing!Users(k)) \in Nat
           /\ \A S \in SUBSET Guessing!Users(k) : IsFiniteSet(S) /\ Guessing!Cardinality(S) \in Nat
                                          /\ Guessing!Cardinality(S) <= Guessing!Cardinality(Guessing!Users(k))
  <1>1. \A S : Guessing!Cardinality(S) = Cardinality(S)
    BY DEF Guessing!Cardinality, Cardinality
  <1>2. ASSUME NEW k
        PROVE  /\ IsFiniteSet(Guessing!Users(k)) /\ Guessing!Cardinality(Guessing!Users(k)) \in Nat
               /\ \A S \in SUBSET Guessing!Users(k) : IsFiniteSet(S) /\ Guessing!Cardinality(S) \in Nat
                                              /\ Guessing!Cardinality(S) <= Guessing!Cardinality(Guessing!Users(k))
    <2>1. Guessing!Users(k) \subseteq Attempts /\ IsFiniteSet(Attempts)
      BY GuessingAssumption DEF Guessing!Users
    <2>2. IsFiniteSet(Guessing!Users(k))
      BY <2>1, FS_Subset
    <2>3. \A S \in SUBSET Guessing!Users(k) : IsFiniteSet(S) /\ Cardinality(S) <= Cardinality(Guessing!Users(k))
      BY <2>2, FS_Subset
    <2> QED
      BY <1>1, <2>2, <2>3, FS_CardinalityType
  <1> QED
    BY <1>2

\* One more request is one more to count.
LEMMA OneMore ==
    \A S, x : IsFiniteSet(S) /\ x \notin S =>
        Guessing!Cardinality(S \cup {x}) = Guessing!Cardinality(S) + 1 /\ Guessing!Cardinality({x}) = 1
  <1>1. \A S : Guessing!Cardinality(S) = Cardinality(S)
    BY DEF Guessing!Cardinality, Cardinality
  <1> QED
    BY <1>1, FS_AddElement, FS_Singleton

\* Nothing is counted.
LEMMA GuessingStarts == Guessing!Init => Guessing!IInv
  <1> SUFFICES ASSUME Guessing!Init PROVE Guessing!IInv
    OBVIOUS
  <1>1. ASSUME NEW r \in Attempts PROVE 1 \in DOMAIN KeysOf[r]
    BY GuessingAssumption
  <1>2. Guessing!TypeOK
    BY <1>1, GuessingAssumption DEF Guessing!Init, Guessing!TypeOK, Guessing!Nobody
  <1>3. \A k \in RateKeys : ~Guessing!Counted(k)
    BY DEF Guessing!Init, Guessing!Counted
  <1> QED
    BY <1>2, <1>3 DEF Guessing!IInv

\* A key that is left alone stays slowed down: who is let through has waited.
LEMMA LeftAlone ==
    ASSUME Guessing!IInv, NEW k \in RateKeys, s2'[k] = s2[k], s4'[k] = s4[k], s5'[k] = s5[k],
           s1' \in Nat, s1 <= s1',
           \A q \in Guessing!Users(k) : Guessing!Armed(q, k)' => Guessing!Armed(q, k) \/ s2[k].retryAt <= s1,
           Guessing!Counted(k)'
    PROVE  Guessing!SlowedDown(k)'
  <1>1. Guessing!SlowedDown(k) /\ s1 \in Nat /\ s2[k] \in Guessing!Entry
    BY DEF Guessing!IInv, Guessing!Counted, Guessing!TypeOK
  <1>2. s2[k].seen \in Nat /\ s2[k].retryAt \in Nat /\ s4[k] \in Nat /\ s5[k] \in Nat
    BY <1>1 DEF Guessing!Entry, Guessing!IInv, Guessing!TypeOK
  <1>3. s2'[k].failures = s5'[k] /\ s4'[k] <= s2'[k].seen /\ s2'[k].seen <= s1'
    BY <1>1, <1>2 DEF Guessing!SlowedDown
  <1>4. CASE s5[k] <= FreeTries
    BY <1>3, <1>4 DEF Guessing!SlowedDown
  <1>5. ASSUME NEW n \in 0 .. MaxTime, NEW since \in 0 .. s1, NEW late \in SUBSET Guessing!Users(k),
               Guessing!InRound(k, n, since, late)
        PROVE  Guessing!SlowedDown(k)'
    <2>1. Guessing!Pause(n) \in Nat /\ n \in Nat
      BY PauseIsLong, GuessingAssumption
    <2>2. since + Guessing!Pause(n) <= s2[k].retryAt
      BY <1>5 DEF Guessing!InRound
    <2>3. ASSUME NEW r \in late, Guessing!Armed(r, k)' PROVE since + Guessing!Pause(n) <= s1'
      <3>1. Guessing!Armed(r, k) \/ s2[k].retryAt <= s1
        BY <2>3
      <3>2. CASE Guessing!Armed(r, k)
        <4>1. since + Guessing!Pause(n) <= s1
          BY <1>5, <3>2 DEF Guessing!InRound
        <4> QED
          BY <1>1, <2>1, <4>1
      <3>3. CASE s2[k].retryAt <= s1
        BY <1>1, <1>2, <2>1, <2>2, <3>3
      <3> QED
        BY <3>1, <3>2, <3>3
    <2>4. Guessing!InRound(k, n, since, late)'
      <3> USE DEF Guessing!InRound
      <3>1. s4'[k] + Guessing!Pauses[n] <= since /\ since + Guessing!Pause(n) <= s2'[k].retryAt
        BY <1>5
      <3>2. FreeTries + n < s5'[k]
        BY <1>5
      <3>3. s5'[k] <= FreeTries + Guessing!Cardinality(Guessing!Users(k)) * n + Guessing!Cardinality(late)
        BY <1>5
      <3>4. Guessing!Pause(n)' = Guessing!Pause(n) /\ Guessing!Users(k)' = Guessing!Users(k) /\ Guessing!Cardinality(late)' = Guessing!Cardinality(late)
        BY DEF Guessing!Pause, Guessing!Users
      <3> QED
        BY <2>3, <3>1, <3>2, <3>3, <3>4
    <2>5. since \in 0 .. s1'
      BY <1>1
    <2> QED
      BY <1>3, <2>4, <2>5 DEF Guessing!SlowedDown
  <1> QED
    BY <1>1, <1>4, <1>5 DEF Guessing!SlowedDown

\* A failure of r at the key k, which r had been let through for.
LEMMA AnotherFailure ==
    ASSUME Guessing!IInv, NEW r \in Attempts, NEW k \in RateKeys, r \in Guessing!Users(k),
           Guessing!Armed(r, k), ~Guessing!Armed(r, k)', UNCHANGED s1,
           \A q \in Guessing!Users(k) : Guessing!Armed(q, k)' => Guessing!Armed(q, k),
           s2'[k] = Guessing!Failed(k), s4'[k] = s4[k], s5'[k] = s5[k] + 1,
           Guessing!Counted(k), ~Guessing!Quiet(k)
    PROVE  Guessing!SlowedDown(k)'
  <1>1. /\ s2[k].failures = s5[k] /\ s4[k] <= s2[k].seen /\ s2[k].seen <= s1
        /\ s1 \in Nat /\ s1 <= MaxTime /\ s4[k] \in Nat /\ s5[k] \in Nat /\ s2[k].seen \in Nat
    BY DEF Guessing!IInv, Guessing!SlowedDown, Guessing!TypeOK, Guessing!Counted, Guessing!Entry
  <1>2. FreeTries \in Nat /\ MaxTime \in Nat
    BY GuessingAssumption
  <1>3. /\ s2'[k].failures = s5[k] + 1 /\ s2'[k].seen = s1
        /\ s2'[k].retryAt = s1 + Guessing!DelayFor(s5[k] + 1)
    BY <1>1 DEF Guessing!Failed
  <1>4. s2'[k].failures = s5'[k] /\ s4'[k] <= s2'[k].seen /\ s2'[k].seen <= s1'
    BY <1>1, <1>3
  <1>5. ASSUME NEW n \in Nat, FreeTries + n < s5[k] + 1
        PROVE  s1 + Guessing!Pause(n) <= s2'[k].retryAt
    <2> DEFINE d == s5[k] - FreeTries - n
    <2>1. d \in Nat /\ n + d \in Nat /\ s5[k] + 1 = FreeTries + (n + d) + 1
      BY <1>1, <1>2, <1>5
    <2>2. Guessing!DelayFor(s5[k] + 1) = Guessing!Pause(n + d)
      BY <2>1, DelayIsPause
    <2>3. Guessing!Pause(n) <= Guessing!Pause(n + d)
      BY <2>1, PausesGrow
    <2>4. Guessing!Pause(n) \in Nat /\ Guessing!Pause(n + d) \in Nat
      BY <2>1, PauseIsLong
    <2> HIDE DEF d
    <2> QED
      BY <1>1, <1>3, <2>2, <2>3, <2>4
  <1>6. Guessing!Users(k)' = Guessing!Users(k)
    BY DEF Guessing!Users
  <1>7. IsFiniteSet(Guessing!Users(k)) /\ Guessing!Cardinality(Guessing!Users(k)) \in Nat
    BY UsersCounted
  <1>8. CASE s5[k] + 1 <= FreeTries
    BY <1>4, <1>8 DEF Guessing!SlowedDown
  <1>9. CASE s5[k] = FreeTries
    <2>1. Guessing!Cardinality({r}) = 1
      BY FS_EmptySet, OneMore
    <2>2. Guessing!InRound(k, 0, s1, {r})'
      <3>1. s4'[k] + Guessing!Pauses[0] <= s1
        BY <1>1, PausesValues
      <3>2. s1 + Guessing!Pause(0) <= s2'[k].retryAt
        BY <1>2, <1>5, <1>9
      <3>3. FreeTries + 0 < s5'[k]
        BY <1>2, <1>9
      <3>4. s5'[k] <= FreeTries + Guessing!Cardinality(Guessing!Users(k)) * 0 + Guessing!Cardinality({r})
        BY <1>2, <1>7, <1>9, <2>1
      <3>5. Guessing!Pause(0)' = Guessing!Pause(0) /\ Guessing!Cardinality({r})' = Guessing!Cardinality({r})
        BY DEF Guessing!Pause
      <3> QED
        BY <1>6, <3>1, <3>2, <3>3, <3>4, <3>5 DEF Guessing!InRound
    <2>3. 0 \in 0 .. MaxTime /\ s1 \in 0 .. s1' /\ {r} \in SUBSET Guessing!Users(k)
      BY <1>1, <1>2
    <2> QED
      BY <1>4, <1>6, <2>2, <2>3 DEF Guessing!SlowedDown
  <1>10. ASSUME NEW n \in 0 .. MaxTime, NEW since \in 0 .. s1, NEW late \in SUBSET Guessing!Users(k),
                Guessing!InRound(k, n, since, late)
         PROVE  Guessing!SlowedDown(k)'
    <2>1. /\ Guessing!Pause(n) \in Nat /\ Guessing!Pauses[n] \in Nat /\ n \in Nat /\ since \in Nat
          /\ Guessing!Pauses[n + 1] = Guessing!Pauses[n] + Guessing!Pause(n)
      <3>1. n \in Nat /\ since \in Nat
        BY <1>1, GuessingAssumption
      <3> QED
        BY <3>1, PauseIsLong, PausesValues
    <2>2. /\ s4[k] + Guessing!Pauses[n] <= since /\ FreeTries + n < s5[k]
          /\ s5[k] <= FreeTries + Guessing!Cardinality(Guessing!Users(k)) * n + Guessing!Cardinality(late)
          /\ \A q \in late : Guessing!Armed(q, k) => since + Guessing!Pause(n) <= s1
      BY <1>10 DEF Guessing!InRound
    <2>3. IsFiniteSet(late) /\ Guessing!Cardinality(late) \in Nat
          /\ Guessing!Cardinality(late) <= Guessing!Cardinality(Guessing!Users(k))
      BY UsersCounted
    <2>4. Guessing!Cardinality(Guessing!Users(k)) * n \in Nat
          /\ Guessing!Cardinality(Guessing!Users(k)) * (n + 1) = Guessing!Cardinality(Guessing!Users(k)) * n + Guessing!Cardinality(Guessing!Users(k))
      BY <1>7, <2>1
    <2>5. CASE r \notin late
      <3>1. Guessing!Cardinality(late \cup {r}) = Guessing!Cardinality(late) + 1
        BY <2>3, <2>5, OneMore
      <3>2. ASSUME NEW q \in late \cup {r}, Guessing!Armed(q, k)'
            PROVE  since + Guessing!Pause(n) <= s1
        BY <2>2, <3>2
      <3>3. Guessing!InRound(k, n, since, late \cup {r})'
        <4>1. s4'[k] + Guessing!Pauses[n] <= since
          BY <2>2
        <4>2. since + Guessing!Pause(n) <= s2'[k].retryAt
          <5>1. s1 + Guessing!Pause(n) <= s2'[k].retryAt
            BY <1>1, <1>2, <1>5, <2>1, <2>2
          <5>2. s2'[k].retryAt \in Nat /\ since <= s1
            <6>1. s5[k] + 1 = FreeTries + (s5[k] - FreeTries) + 1 /\ s5[k] - FreeTries \in Nat
              BY <1>1, <1>2, <2>1, <2>2
            <6>2. Guessing!DelayFor(s5[k] + 1) \in Nat
              BY <6>1, DelayIsPause, PauseIsLong
            <6> QED
              BY <1>1, <1>3, <6>2
          <5> QED
            BY <1>1, <2>1, <5>1, <5>2
        <4>3. FreeTries + n < s5'[k]
          BY <1>1, <1>2, <2>1, <2>2
        <4>4. s5'[k] <= FreeTries + Guessing!Cardinality(Guessing!Users(k)) * n
                       + Guessing!Cardinality(late \cup {r})
          <5> DEFINE c == Guessing!Cardinality(Guessing!Users(k)) * n
          <5> HIDE DEF c
          <5> QED
            BY <1>1, <1>2, <2>2, <2>3, <2>4, <3>1 DEF c
        <4>5. Guessing!Pause(n)' = Guessing!Pause(n)
              /\ Guessing!Cardinality(late \cup {r})' = Guessing!Cardinality(late \cup {r})
          BY DEF Guessing!Pause
        <4> QED
          BY <1>6, <3>2, <4>1, <4>2, <4>3, <4>4, <4>5 DEF Guessing!InRound
      <3>4. late \cup {r} \in SUBSET Guessing!Users(k) /\ since \in 0 .. s1'
        OBVIOUS
      <3> QED
        BY <1>4, <1>6, <3>3, <3>4 DEF Guessing!SlowedDown
    <2>6. CASE r \in late
      <3>1. since + Guessing!Pause(n) <= s1
        BY <2>2, <2>6
      <3>2. s4[k] + Guessing!Pauses[n + 1] <= s1
        BY <1>1, <2>1, <2>2, <3>1
      <3>3. n + 1 \in 0 .. MaxTime
        <4>1. n + 1 \in Nat /\ Guessing!Pauses[n + 1] \in Nat /\ n + 1 <= Guessing!Pauses[n + 1]
          BY <2>1, PausesTakeTime
        <4> QED
          BY <1>1, <1>2, <3>2, <4>1
      <3>4. Guessing!Cardinality({r}) = 1
        BY FS_EmptySet, OneMore
      <3>5. Guessing!InRound(k, n + 1, s1, {r})'
        <4>1. s4'[k] + Guessing!Pauses[n + 1] <= s1
          BY <3>2
        <4>2. s1 + Guessing!Pause(n + 1) <= s2'[k].retryAt
          BY <1>1, <1>2, <1>5, <2>1, <2>2
        <4>3. FreeTries + (n + 1) < s5'[k]
          BY <1>1, <1>2, <2>1, <2>2
        <4>4. s5'[k] <= FreeTries + Guessing!Cardinality(Guessing!Users(k)) * (n + 1)
                       + Guessing!Cardinality({r})
          <5> DEFINE c == Guessing!Cardinality(Guessing!Users(k)) * n
          <5> HIDE DEF c
          <5> QED
            BY <1>1, <1>2, <1>7, <2>2, <2>3, <2>4, <3>4 DEF c
        <4>5. Guessing!Pause(n + 1)' = Guessing!Pause(n + 1)
              /\ Guessing!Cardinality({r})' = Guessing!Cardinality({r})
          BY DEF Guessing!Pause
        <4> QED
          BY <1>6, <4>1, <4>2, <4>3, <4>4, <4>5 DEF Guessing!InRound
      <3>6. {r} \in SUBSET Guessing!Users(k) /\ s1 \in 0 .. s1'
        BY <1>1
      <3> QED
        BY <1>4, <1>6, <3>3, <3>5, <3>6 DEF Guessing!SlowedDown
    <2> QED
      BY <2>5, <2>6
  <1> QED
    BY <1>1, <1>2, <1>8, <1>9, <1>10 DEF Guessing!SlowedDown, Guessing!IInv

\* The first failure at a key that is not counted, or has been quiet.
LEMMA FirstFailure ==
    ASSUME Guessing!IInv, NEW r \in Attempts, NEW k \in RateKeys, r \in Guessing!Users(k),
           ~Guessing!Armed(r, k)', UNCHANGED s1,
           s2'[k] = Guessing!Failed(k), s4'[k] = s1, s5'[k] = 1,
           ~Guessing!Counted(k) \/ Guessing!Quiet(k)
    PROVE  Guessing!SlowedDown(k)'
  <1>1. s1 \in Nat /\ FreeTries \in Nat /\ MaxTime \in Nat
    BY GuessingAssumption DEF Guessing!IInv, Guessing!TypeOK
  <1>2. s2'[k].failures = 1 /\ s2'[k].seen = s1 /\ s2'[k].retryAt = s1 + Guessing!DelayFor(1)
    BY DEF Guessing!Failed
  <1>3. s2'[k].failures = s5'[k] /\ s4'[k] <= s2'[k].seen /\ s2'[k].seen <= s1'
    BY <1>1, <1>2
  <1>4. CASE 1 <= FreeTries
    BY <1>3, <1>4 DEF Guessing!SlowedDown
  <1>5. CASE FreeTries = 0
    <2>1. Guessing!Cardinality({r}) = 1
      BY FS_EmptySet, OneMore
    <2>2. Guessing!InRound(k, 0, s1, {r})'
      <3>1. s4'[k] + Guessing!Pauses[0] <= s1
        BY <1>1, PausesValues
      <3>2. s1 + Guessing!Pause(0) <= s2'[k].retryAt
        <4>1. FreeTries + 0 + 1 = 1
          BY <1>5
        <4>2. Guessing!DelayFor(1) = Guessing!Pause(0)
          BY <4>1, DelayIsPause
        <4>3. Guessing!Pause(0) \in Nat
          BY PauseIsLong
        <4> QED
          BY <1>1, <1>2, <4>2, <4>3
      <3>3. FreeTries + 0 < s5'[k]
        BY <1>5
      <3>4. s5'[k] <= FreeTries + Guessing!Cardinality(Guessing!Users(k)) * 0 + Guessing!Cardinality({r})
        <4>1. Guessing!Cardinality(Guessing!Users(k)) \in Nat
          BY UsersCounted
        <4> QED
          BY <1>5, <2>1, <4>1
      <3>5. Guessing!Pause(0)' = Guessing!Pause(0) /\ Guessing!Cardinality({r})' = Guessing!Cardinality({r})
        BY DEF Guessing!Pause
      <3>6. Guessing!Users(k)' = Guessing!Users(k)
        BY DEF Guessing!Users
      <3> QED
        BY <3>1, <3>2, <3>3, <3>4, <3>5, <3>6 DEF Guessing!InRound
    <2>3. 0 \in 0 .. MaxTime /\ s1 \in 0 .. s1' /\ {r} \in SUBSET Guessing!Users(k)'
      BY <1>1 DEF Guessing!Users
    <2> QED
      BY <1>3, <2>2, <2>3 DEF Guessing!SlowedDown
  <1> QED
    BY <1>1, <1>4, <1>5

\* The keys of a request: a request uses those at its positions, each at one position.
LEMMA KeysAreNamed ==
    ASSUME NEW r \in Attempts
    PROVE  /\ KeysOf[r] \in Seq(RateKeys) /\ Len(KeysOf[r]) \in Nat \ {0}
           /\ DOMAIN KeysOf[r] = 1 .. Len(KeysOf[r])
           /\ \A i \in DOMAIN KeysOf[r] : KeysOf[r][i] \in RateKeys /\ r \in Guessing!Users(KeysOf[r][i])
           /\ \A i, j \in DOMAIN KeysOf[r] : KeysOf[r][i] = KeysOf[r][j] => i = j
  <1>1. KeysOf[r] \in Seq(RateKeys) /\ KeysOf[r] # <<>> /\ Guessing!IsInjective(KeysOf[r])
    BY GuessingAssumption
  <1> DEFINE ks == KeysOf[r]
  <1>2. Len(ks) \in Nat /\ DOMAIN ks = 1 .. Len(ks) /\ \A i \in DOMAIN ks : ks[i] \in RateKeys
    BY <1>1
  <1>3. Len(ks) # 0
    BY <1>1
  <1>4. \A i, j \in DOMAIN ks : ks[i] = ks[j] => i = j
    BY <1>1 DEF Guessing!IsInjective
  <1>5. \A i \in DOMAIN ks : r \in Guessing!Users(ks[i])
    BY DEF Guessing!Users, Guessing!Range
  <1> QED
    BY <1>1, <1>2, <1>3, <1>4, <1>5

\* Who is let through for a key after a step, and was not before, has asked when the key
\* had nothing left to wait.
LEMMA AskedAfterWaiting ==
    ASSUME Guessing!IInv, NEW r \in Attempts, Guessing!Ask(r), NEW q \in Attempts,
           NEW k \in RateKeys, Guessing!Armed(q, k)', Guessing!Counted(k)'
    PROVE  Guessing!Armed(q, k) \/ s2[k].retryAt <= s1
  <1> USE DEF Guessing!Armed
  <1>1. s3 \in [Attempts -> [at : {"none", "ask", "check", "fail", "reset"}, key : Nat, refused : BOOLEAN]]
        /\ s3[r].key \in DOMAIN KeysOf[r] /\ (s3[r].at = "none" => s3[r].key = 1)
        /\ s3[r].at \in {"none", "ask"} /\ s1 \in Nat
    BY DEF Guessing!Ask, Guessing!IInv, Guessing!TypeOK
  <1>2. CASE q # r
    BY <1>1, <1>2 DEF Guessing!Ask
  <1>3. CASE q = r
    <2> DEFINE kk == KeysOf[r][s3[r].key]
               refused == s3[r].refused \/ Guessing!Refuses(kk)
    <2>1. PICK i \in DOMAIN KeysOf[r] :
              /\ KeysOf[r][i] = k
              /\ \/ s3'[r].at = "ask" /\ ~s3'[r].refused /\ i < s3'[r].key
                 \/ s3'[r].at = "check"
                 \/ s3'[r].at = "fail" /\ s3'[r].key <= i
      BY <1>3
    <2>2. s3'[r] = IF s3[r].key # Len(KeysOf[r]) THEN [at |-> "ask", key |-> s3[r].key + 1, refused |-> refused]
                   ELSE IF refused THEN Guessing!Nobody
                   ELSE [at |-> "check", key |-> 1, refused |-> FALSE]
      BY <1>1 DEF Guessing!Ask
    <2>3. ~refused /\ i <= s3[r].key
      <3>1. i \in 1 .. Len(KeysOf[r]) /\ s3[r].key \in 1 .. Len(KeysOf[r])
        BY <1>1, KeysAreNamed
      <3> HIDE DEF refused
      <3> QED
        BY <2>1, <2>2, <3>1 DEF Guessing!Nobody
    <2>4. CASE i = s3[r].key
      <3>1. ~Guessing!Refuses(k)
        BY <2>1, <2>3, <2>4
      <3>2. s2' = (IF Guessing!Quiet(k) THEN [s2 EXCEPT ![k] = None] ELSE s2)
        BY <2>1, <2>4 DEF Guessing!Ask
      <3>3. s2 \in [RateKeys -> {None} \cup Guessing!Entry]
        BY DEF Guessing!IInv, Guessing!TypeOK
      <3>4. ~Guessing!Quiet(k) /\ Guessing!Counted(k)
        BY <3>2, <3>3 DEF Guessing!Counted
      <3>5. s2[k].retryAt \in Nat
        BY <3>3, <3>4 DEF Guessing!Counted, Guessing!Entry
      <3> QED
        BY <1>1, <3>1, <3>4, <3>5 DEF Guessing!Refuses
    <2>5. CASE i < s3[r].key
      <3>1. s3[r].at = "ask"
        <4>1. i \in 1 .. Len(KeysOf[r])
          BY KeysAreNamed
        <4> QED
          BY <1>1, <2>5, <4>1
      <3> QED
        BY <1>3, <2>1, <2>3, <2>5, <3>1
    <2>6. i \in Nat /\ s3[r].key \in Nat
      BY <1>1, KeysAreNamed
    <2> QED
      BY <2>3, <2>4, <2>5, <2>6
  <1> QED
    BY <1>2, <1>3

\* A step of a request keeps its place in its keys.
LEMMA AttemptsHold ==
    ASSUME Guessing!TypeOK, NEW r \in Attempts,
           NEW a \in [at : {"none", "ask", "check", "fail", "reset"}, key : Nat, refused : BOOLEAN],
           a.key \in DOMAIN KeysOf[r], a.at # "none" \/ a.key = 1,
           s3' = [s3 EXCEPT ![r] = a],
           s2' \in [RateKeys -> {None} \cup Guessing!Entry],
           s1' \in 0 .. MaxTime, s4' \in [RateKeys -> Nat], s5' \in [RateKeys -> Nat]
    PROVE  Guessing!TypeOK'
  <1>1. s3' \in [Attempts -> [at : {"none", "ask", "check", "fail", "reset"}, key : Nat, refused : BOOLEAN]]
    BY DEF Guessing!TypeOK
  <1>2. ASSUME NEW q \in Attempts
        PROVE  s3'[q].key \in DOMAIN KeysOf[q] /\ (s3'[q].at = "none" => s3'[q].key = 1)
    BY DEF Guessing!TypeOK
  <1> QED
    BY <1>1, <1>2 DEF Guessing!TypeOK

\* The delay is a number, however many the failures.
LEMMA DelayIsLong == \A n \in Nat : Guessing!DelayFor(n) \in Nat
  <1> TAKE n \in Nat
  <1>1. FreeTries \in Nat
    BY GuessingAssumption
  <1>2. CASE n <= FreeTries
    BY <1>2 DEF Guessing!DelayFor
  <1>3. CASE n > FreeTries
    <2>1. n - FreeTries - 1 \in Nat /\ n = FreeTries + (n - FreeTries - 1) + 1
      BY <1>1, <1>3
    <2>2. Guessing!DelayFor(n) = Guessing!Pause(n - FreeTries - 1)
      BY <2>1, DelayIsPause
    <2> QED
      BY <2>1, <2>2, PauseIsLong
  <1> QED
    BY <1>1, <1>2, <1>3

\* A request asks for its next key: it is let through only for keys with nothing left to wait.
LEMMA AskStep ==
    ASSUME Guessing!IInv, NEW r \in Attempts, Guessing!Ask(r) PROVE Guessing!IInv'
  <1>1. Guessing!TypeOK /\ s3[r].key \in DOMAIN KeysOf[r] /\ s3[r].refused \in BOOLEAN
    BY DEF Guessing!IInv, Guessing!TypeOK
  <1>2. s1' = s1 /\ s4' = s4 /\ s5' = s5 /\ s1 \in 0 .. MaxTime /\ s4 \in [RateKeys -> Nat]
        /\ s5 \in [RateKeys -> Nat] /\ s2 \in [RateKeys -> {None} \cup Guessing!Entry]
    BY <1>1 DEF Guessing!Ask, Guessing!TypeOK
  <1> DEFINE kk == KeysOf[r][s3[r].key]
             refused == s3[r].refused \/ Guessing!Refuses(kk)
             a == IF s3[r].key # Len(KeysOf[r]) THEN [at |-> "ask", key |-> s3[r].key + 1, refused |-> refused]
                  ELSE IF refused THEN Guessing!Nobody
                  ELSE [at |-> "check", key |-> 1, refused |-> FALSE]
  <1>3. s2' = (IF Guessing!Quiet(kk) THEN [s2 EXCEPT ![kk] = None] ELSE s2) /\ kk \in RateKeys
    BY <1>1, KeysAreNamed DEF Guessing!Ask
  <1>4. s2' \in [RateKeys -> {None} \cup Guessing!Entry]
        /\ \A k \in RateKeys : s2'[k] = s2[k] \/ s2'[k] = None
    BY <1>2, <1>3
  <1>5. Guessing!TypeOK'
    <2>1. s3' = [s3 EXCEPT ![r] = a]
      BY <1>1 DEF Guessing!Ask, Guessing!TypeOK
    <2>2. refused \in BOOLEAN
      BY <1>1 DEF Guessing!Refuses
    <2>3. s3[r].key \in 1 .. Len(KeysOf[r]) /\ Len(KeysOf[r]) \in Nat
      BY <1>1, KeysAreNamed
    <2> HIDE DEF refused
    <2>4. a \in [at : {"none", "ask", "check", "fail", "reset"}, key : Nat, refused : BOOLEAN]
      BY <2>2, <2>3 DEF Guessing!Nobody
    <2>5. a.key \in 1 .. Len(KeysOf[r]) /\ (a.at # "none" \/ a.key = 1)
      BY <2>2, <2>3 DEF Guessing!Nobody
    <2>6. a.key \in DOMAIN KeysOf[r]
      BY <2>5, KeysAreNamed
    <2> HIDE DEF a
    <2> QED
      BY <1>1, <1>2, <1>4, <2>1, <2>4, <2>5, <2>6, AttemptsHold
  <1>6. ASSUME NEW k \in RateKeys, Guessing!Counted(k)' PROVE Guessing!SlowedDown(k)'
    <2>1. s2'[k] = s2[k]
      BY <1>4, <1>6 DEF Guessing!Counted
    <2>2. \A q \in Guessing!Users(k) : Guessing!Armed(q, k)' => Guessing!Armed(q, k) \/ s2[k].retryAt <= s1
      BY <1>6, AskedAfterWaiting DEF Guessing!Users
    <2>3. s1' \in Nat /\ s1 <= s1' /\ s4'[k] = s4[k] /\ s5'[k] = s5[k]
      BY <1>2
    <2> QED
      BY <1>6, <2>1, <2>2, <2>3, LeftAlone
  <1> QED
    BY <1>5, <1>6 DEF Guessing!IInv

\* The secret is checked: nobody is let through who was not.
LEMMA CheckStep ==
    ASSUME Guessing!IInv, NEW r \in Attempts, Guessing!Check(r) PROVE Guessing!IInv'
  <1>1. Guessing!TypeOK /\ s3[r].key \in DOMAIN KeysOf[r] /\ s3[r].at = "check"
    BY DEF Guessing!IInv, Guessing!TypeOK, Guessing!Check
  <1>2. UNCHANGED <<s1, s2, s4, s5>> /\ s1 \in 0 .. MaxTime /\ s4 \in [RateKeys -> Nat]
        /\ s5 \in [RateKeys -> Nat] /\ s2 \in [RateKeys -> {None} \cup Guessing!Entry]
        /\ s3 \in [Attempts -> [at : {"none", "ask", "check", "fail", "reset"}, key : Nat, refused : BOOLEAN]]
    BY <1>1 DEF Guessing!Check, Guessing!TypeOK
  <1>3. PICK result \in {"fail", "reset"} : s3' = [s3 EXCEPT ![r].at = result]
    BY DEF Guessing!Check
  <1>4. Guessing!TypeOK'
    <2> DEFINE a == [s3[r] EXCEPT !.at = result]
    <2>1. s3' = [s3 EXCEPT ![r] = a]
      BY <1>3
    <2>2. a \in [at : {"none", "ask", "check", "fail", "reset"}, key : Nat, refused : BOOLEAN]
          /\ a.key = s3[r].key /\ a.at # "none"
      BY <1>2
    <2> HIDE DEF a
    <2> QED
      BY <1>1, <1>2, <2>1, <2>2, AttemptsHold
  <1>5. ASSUME NEW k \in RateKeys, Guessing!Counted(k)' PROVE Guessing!SlowedDown(k)'
    <2>1. ASSUME NEW q \in Attempts, Guessing!Armed(q, k)' PROVE Guessing!Armed(q, k)
      BY <1>1, <1>2, <1>3, <2>1 DEF Guessing!Armed
    <2>2. \A q \in Guessing!Users(k) : Guessing!Armed(q, k)' => Guessing!Armed(q, k) \/ s2[k].retryAt <= s1
      BY <2>1 DEF Guessing!Users
    <2> QED
      BY <1>2, <1>5, <2>2, LeftAlone
  <1> QED
    BY <1>4, <1>5 DEF Guessing!IInv

\* A success: the keys of the request are not counted any more.
LEMMA ResetStep ==
    ASSUME Guessing!IInv, NEW r \in Attempts, Guessing!Reset(r) PROVE Guessing!IInv'
  <1>1. Guessing!TypeOK
    BY DEF Guessing!IInv
  <1>2. UNCHANGED <<s1, s4, s5>> /\ s1 \in 0 .. MaxTime /\ s4 \in [RateKeys -> Nat]
        /\ s5 \in [RateKeys -> Nat] /\ s2 \in [RateKeys -> {None} \cup Guessing!Entry]
        /\ s3 \in [Attempts -> [at : {"none", "ask", "check", "fail", "reset"}, key : Nat, refused : BOOLEAN]]
        /\ s3' = [s3 EXCEPT ![r] = Guessing!Nobody]
        /\ s2' = [k \in RateKeys |-> IF k \in Guessing!Range(KeysOf[r]) THEN None ELSE s2[k]]
    BY <1>1 DEF Guessing!Reset, Guessing!TypeOK
  <1>3. s2' \in [RateKeys -> {None} \cup Guessing!Entry]
        /\ \A k \in RateKeys : s2'[k] = s2[k] \/ s2'[k] = None
    BY <1>2
  <1>4. Guessing!TypeOK'
    <2>1. Guessing!Nobody \in [at : {"none", "ask", "check", "fail", "reset"}, key : Nat, refused : BOOLEAN]
          /\ Guessing!Nobody.key = 1
      BY DEF Guessing!Nobody
    <2>2. 1 \in DOMAIN KeysOf[r]
      BY KeysAreNamed
    <2> QED
      BY <1>1, <1>2, <1>3, <2>1, <2>2, AttemptsHold
  <1>5. ASSUME NEW k \in RateKeys, Guessing!Counted(k)' PROVE Guessing!SlowedDown(k)'
    <2>1. ASSUME NEW q \in Attempts, Guessing!Armed(q, k)' PROVE Guessing!Armed(q, k)
      BY <1>2, <2>1 DEF Guessing!Armed, Guessing!Nobody
    <2>2. \A q \in Guessing!Users(k) : Guessing!Armed(q, k)' => Guessing!Armed(q, k) \/ s2[k].retryAt <= s1
      BY <2>1 DEF Guessing!Users
    <2>3. s2'[k] = s2[k]
      BY <1>3, <1>5 DEF Guessing!Counted
    <2> QED
      BY <1>2, <1>5, <2>2, <2>3, LeftAlone
  <1> QED
    BY <1>4, <1>5 DEF Guessing!IInv

\* Sweeping, and the time that passes.
LEMMA TimeStep ==
    ASSUME Guessing!IInv, Guessing!Sweep \/ Guessing!Tick PROVE Guessing!IInv'
  <1>1. Guessing!TypeOK /\ MaxTime \in Nat
    BY GuessingAssumption DEF Guessing!IInv
  <1>2. UNCHANGED <<s3, s4, s5>> /\ s1' \in 0 .. MaxTime /\ s1 \in 0 .. MaxTime /\ s1 <= s1'
        /\ s2 \in [RateKeys -> {None} \cup Guessing!Entry]
    BY <1>1 DEF Guessing!Sweep, Guessing!Tick, Guessing!TypeOK
  <1>3. s2' \in [RateKeys -> {None} \cup Guessing!Entry]
        /\ \A k \in RateKeys : s2'[k] = s2[k] \/ s2'[k] = None
    BY <1>2 DEF Guessing!Sweep, Guessing!Tick
  <1>4. Guessing!TypeOK'
    BY <1>1, <1>2, <1>3 DEF Guessing!TypeOK
  <1>5. ASSUME NEW k \in RateKeys, Guessing!Counted(k)' PROVE Guessing!SlowedDown(k)'
    <2>1. \A q \in Guessing!Users(k) : Guessing!Armed(q, k)' => Guessing!Armed(q, k) \/ s2[k].retryAt <= s1
      BY <1>2 DEF Guessing!Armed
    <2>2. s2'[k] = s2[k]
      BY <1>3, <1>5 DEF Guessing!Counted
    <2> QED
      BY <1>2, <1>5, <2>1, <2>2, LeftAlone
  <1> QED
    BY <1>4, <1>5 DEF Guessing!IInv

\* A failure at one key; the other keys are left alone.
LEMMA FailStep ==
    ASSUME Guessing!IInv, NEW r \in Attempts, Guessing!Fail(r) PROVE Guessing!IInv'
  <1>1. PICK kk : kk = KeysOf[r][s3[r].key]
    OBVIOUS
  <1>2. PICK fresh \in BOOLEAN : fresh = (~Guessing!Counted(kk) \/ Guessing!Quiet(kk))
    OBVIOUS
  <1>3. PICK a : a = IF s3[r].key < Len(KeysOf[r]) THEN [s3[r] EXCEPT !.key = s3[r].key + 1] ELSE Guessing!Nobody
    OBVIOUS
  <1>4. Guessing!TypeOK /\ s3[r].key \in DOMAIN KeysOf[r] /\ s3[r].at = "fail"
    BY DEF Guessing!IInv, Guessing!TypeOK, Guessing!Fail
  <1>5. s1' = s1 /\ s1 \in 0 .. MaxTime /\ s1 \in Nat /\ s4 \in [RateKeys -> Nat]
        /\ s5 \in [RateKeys -> Nat] /\ s2 \in [RateKeys -> {None} \cup Guessing!Entry]
        /\ s3 \in [Attempts -> [at : {"none", "ask", "check", "fail", "reset"}, key : Nat, refused : BOOLEAN]]
    BY SMTT(30), <1>4, GuessingAssumption DEF Guessing!Fail, Guessing!TypeOK
  <1>6. kk \in RateKeys /\ r \in Guessing!Users(kk) /\ s3[r].key \in 1 .. Len(KeysOf[r]) /\ Len(KeysOf[r]) \in Nat
    BY <1>1, <1>4, KeysAreNamed
  <1>7. s2' = [s2 EXCEPT ![kk] = Guessing!Failed(kk)]
    BY <1>1 DEF Guessing!Fail
  <1>8. s4' = (IF fresh THEN [s4 EXCEPT ![kk] = s1] ELSE s4)
    BY <1>1, <1>2 DEF Guessing!Fail
  <1>9. s5' = [s5 EXCEPT ![kk] = IF fresh THEN 1 ELSE s5[kk] + 1]
    BY <1>1, <1>2 DEF Guessing!Fail
  <1>10. s3' = [s3 EXCEPT ![r] = a]
    <2>1. s3' = IF s3[r].key < Len(KeysOf[r]) THEN [s3 EXCEPT ![r] = [s3[r] EXCEPT !.key = s3[r].key + 1]]
                ELSE [s3 EXCEPT ![r] = Guessing!Nobody]
      BY <1>5 DEF Guessing!Fail
    <2> QED
      BY <1>3, <2>1
  <1>11. Guessing!Failed(kk) \in Guessing!Entry
    <2> DEFINE failures == 1 + IF fresh THEN 0 ELSE s2[kk].failures
    <2>1. failures \in Nat
      <3>1. CASE fresh
        BY <3>1
      <3>2. CASE ~fresh
        <4>1. s2[kk] \in Guessing!Entry
          BY <1>2, <1>5, <1>6, <3>2 DEF Guessing!Counted
        <4>2. s2[kk].failures \in Nat
          BY <4>1 DEF Guessing!Entry
        <4> QED
          BY <3>2, <4>2
      <3> QED
        BY <3>1, <3>2
    <2>2. Guessing!DelayFor(failures) \in Nat
      <3> HIDE DEF failures
      <3> QED
        BY <2>1, DelayIsLong
    <2>3. Guessing!Failed(kk) = [failures |-> failures, seen |-> s1, retryAt |-> s1 + Guessing!DelayFor(failures)]
      BY <1>2 DEF Guessing!Failed
    <2> HIDE DEF failures
    <2> QED
      BY <1>5, <2>1, <2>2, <2>3 DEF Guessing!Entry
  <1>12. /\ s2' \in [RateKeys -> {None} \cup Guessing!Entry]
         /\ s4' \in [RateKeys -> Nat] /\ s5' \in [RateKeys -> Nat]
    <2>1. (IF fresh THEN 1 ELSE s5[kk] + 1) \in Nat
      BY <1>5, <1>6
    <2> QED
      BY <1>5, <1>6, <1>7, <1>8, <1>9, <1>11, <2>1
  <1>13. Guessing!TypeOK'
    <2>1. a \in [at : {"none", "ask", "check", "fail", "reset"}, key : Nat, refused : BOOLEAN]
      <3>1. s3[r].key + 1 \in Nat
        BY <1>6
      <3>2. s3[r] \in [at : {"none", "ask", "check", "fail", "reset"}, key : Nat, refused : BOOLEAN]
        BY <1>5
      <3>3. CASE s3[r].key < Len(KeysOf[r])
        BY <1>3, <3>1, <3>2, <3>3
      <3>4. CASE ~(s3[r].key < Len(KeysOf[r]))
        BY <1>3, <3>4 DEF Guessing!Nobody
      <3> QED
        BY <3>3, <3>4
    <2>2. a.key \in 1 .. Len(KeysOf[r]) /\ (a.at # "none" \/ a.key = 1)
      BY <1>3, <1>4, <1>5, <1>6 DEF Guessing!Nobody
    <2>3. a.key \in DOMAIN KeysOf[r]
      BY <2>2, KeysAreNamed
    <2>4. s1' \in 0 .. MaxTime
      BY <1>5
    <2> QED
      BY <1>4, <1>10, <1>12, <2>1, <2>2, <2>3, <2>4, AttemptsHold
  <1>14. ASSUME NEW q \in Attempts, NEW k \in RateKeys, Guessing!Armed(q, k)'
         PROVE  Guessing!Armed(q, k) /\ (k = kk => q # r)
    <2> USE DEF Guessing!Armed
    <2>1. CASE q # r
      BY <1>5, <1>10, <1>14, <2>1
    <2>2. CASE q = r
      <3>1. s3'[r] = a
        BY <1>5, <1>10
      <3>2. PICK i \in DOMAIN KeysOf[r] : /\ KeysOf[r][i] = k
                /\ \/ a.at = "ask" /\ ~a.refused /\ i < a.key
                   \/ a.at = "check"
                   \/ a.at = "fail" /\ a.key <= i
        BY <1>14, <2>2, <3>1
      <3>3. a.at = "fail" /\ a.key = s3[r].key + 1 /\ s3[r].key + 1 <= i
        BY <1>3, <1>4, <1>5, <1>6, <3>2 DEF Guessing!Nobody
      <3>4. i \in Nat /\ s3[r].key <= i /\ i # s3[r].key
        <4>1. i \in 1 .. Len(KeysOf[r])
          BY KeysAreNamed
        <4> QED
          BY <1>6, <3>3, <4>1
      <3>5. k # kk
        BY <1>1, <1>4, <3>2, <3>4, KeysAreNamed
      <3> QED
        BY <1>4, <2>2, <3>2, <3>4, <3>5
    <2> QED
      BY <2>1, <2>2
  <1>15. ASSUME NEW k \in RateKeys, k # kk, Guessing!Counted(k)' PROVE Guessing!SlowedDown(k)'
    <2>1. s2'[k] = s2[k] /\ s4'[k] = s4[k] /\ s5'[k] = s5[k]
      BY <1>5, <1>7, <1>8, <1>9, <1>15
    <2>2. \A q \in Guessing!Users(k) : Guessing!Armed(q, k)' => Guessing!Armed(q, k) \/ s2[k].retryAt <= s1
      BY <1>14 DEF Guessing!Users
    <2>3. s1' \in Nat /\ s1 <= s1'
      BY <1>5
    <2> QED
      BY <1>15, <2>1, <2>2, <2>3, LeftAlone
  <1>16. Guessing!SlowedDown(kk)'
    <2>1. ~Guessing!Armed(r, kk)'
      BY <1>6, <1>14
    <2>2. s2'[kk] = Guessing!Failed(kk)
      BY <1>5, <1>6, <1>7
    <2>3. CASE fresh
      <3>1. s4'[kk] = s1 /\ s5'[kk] = 1
        BY <1>5, <1>6, <1>8, <1>9, <2>3
      <3> QED
        BY <1>2, <1>5, <1>6, <2>1, <2>2, <2>3, <3>1, FirstFailure
    <2>4. CASE ~fresh
      <3>1. s4'[kk] = s4[kk] /\ s5'[kk] = s5[kk] + 1
        BY <1>5, <1>6, <1>8, <1>9, <2>4
      <3>2. \A q \in Guessing!Users(kk) : Guessing!Armed(q, kk)' => Guessing!Armed(q, kk)
        BY <1>6, <1>14 DEF Guessing!Users
      <3>3. Guessing!Armed(r, kk)
        BY <1>1, <1>4, <1>5, <1>6 DEF Guessing!Armed
      <3>4. Guessing!Counted(kk) /\ ~Guessing!Quiet(kk)
        BY <1>2, <2>4
      <3> QED
        BY <1>5, <1>6, <2>1, <2>2, <3>1, <3>2, <3>3, <3>4, AnotherFailure
    <2> QED
      BY <2>3, <2>4
  <1> QED
    BY <1>13, <1>15, <1>16 DEF Guessing!IInv

\* All of the limiter.
LEMMA GuessingStep == Guessing!IInv /\ [Guessing!Next]_<<s1, s2, s3, s4, s5>> => Guessing!IInv'
  <1> SUFFICES ASSUME Guessing!IInv, [Guessing!Next]_<<s1, s2, s3, s4, s5>> PROVE Guessing!IInv'
    OBVIOUS
  <1>1. ASSUME NEW r \in Attempts,
               Guessing!Ask(r) \/ Guessing!Check(r) \/ Guessing!Fail(r) \/ Guessing!Reset(r)
        PROVE  Guessing!IInv'
    BY <1>1, AskStep, CheckStep, FailStep, ResetStep
  <1>2. CASE Guessing!Sweep \/ Guessing!Tick
    BY <1>2, TimeStep
  <1>3. CASE UNCHANGED <<s1, s2, s3, s4, s5>>
    <2>1. Guessing!TypeOK'
      BY <1>3 DEF Guessing!IInv, Guessing!TypeOK
    <2>2. ASSUME NEW k \in RateKeys, Guessing!Counted(k)' PROVE Guessing!SlowedDown(k)'
      <3>1. \A q \in Guessing!Users(k) : Guessing!Armed(q, k)' => Guessing!Armed(q, k) \/ s2[k].retryAt <= s1
        BY <1>3 DEF Guessing!Armed
      <3>2. s1' \in Nat /\ s1 <= s1'
        BY <1>3, GuessingAssumption DEF Guessing!IInv, Guessing!TypeOK
      <3> QED
        BY <1>3, <2>2, <3>1, <3>2, LeftAlone
    <2> QED
      BY <2>1, <2>2 DEF Guessing!IInv
  <1> QED
    BY <1>1, <1>2, <1>3 DEF Guessing!Next

\* The pauses of the rounds have passed, and each round lets everybody fail once.
LEMMA GuessingAnswers == Guessing!IInv => Guessing!GuessingSlowsDown
  <1> SUFFICES ASSUME Guessing!IInv, NEW k \in RateKeys, Guessing!Counted(k)
               PROVE  \E n \in 0 .. MaxTime + 1 :
                          /\ Guessing!Pauses[n] <= s1 - s4[k]
                          /\ s5[k] <= FreeTries + Guessing!Cardinality(Guessing!Users(k)) * (n + 1)
    BY DEF Guessing!GuessingSlowsDown
  <1>1. Guessing!SlowedDown(k) /\ s1 \in Nat /\ s4[k] \in Nat /\ s5[k] \in Nat
        /\ FreeTries \in Nat /\ MaxTime \in Nat /\ s2[k] \in Guessing!Entry
    BY GuessingAssumption DEF Guessing!IInv, Guessing!TypeOK, Guessing!Counted
  <1>2. Guessing!Cardinality(Guessing!Users(k)) \in Nat
    BY UsersCounted
  <1>3. CASE s5[k] <= FreeTries
    <2>1. Guessing!Pauses[0] <= s1 - s4[k]
      BY <1>1, PausesValues DEF Guessing!SlowedDown, Guessing!Entry
    <2>2. s5[k] <= FreeTries + Guessing!Cardinality(Guessing!Users(k)) * (0 + 1)
      BY <1>1, <1>2, <1>3
    <2> QED
      BY <1>1, <2>1, <2>2
  <1>4. ASSUME NEW n \in 0 .. MaxTime, NEW since \in 0 .. s1, NEW late \in SUBSET Guessing!Users(k),
               Guessing!InRound(k, n, since, late)
        PROVE  /\ Guessing!Pauses[n] <= s1 - s4[k]
               /\ s5[k] <= FreeTries + Guessing!Cardinality(Guessing!Users(k)) * (n + 1)
    <2>1. n \in Nat
      BY <1>1
    <2>2. Guessing!Pauses[n] \in Nat
      BY <2>1, PausesValues
    <2>3. s4[k] + Guessing!Pauses[n] <= since
      BY <1>4 DEF Guessing!InRound
    <2>4. s5[k] <= FreeTries + Guessing!Cardinality(Guessing!Users(k)) * n + Guessing!Cardinality(late)
      BY <1>4 DEF Guessing!InRound
    <2>5. Guessing!Cardinality(late) \in Nat /\ Guessing!Cardinality(late) <= Guessing!Cardinality(Guessing!Users(k))
      BY UsersCounted
    <2>6. Guessing!Cardinality(Guessing!Users(k)) * n \in Nat
          /\ Guessing!Cardinality(Guessing!Users(k)) * (n + 1)
             = Guessing!Cardinality(Guessing!Users(k)) * n + Guessing!Cardinality(Guessing!Users(k))
      BY <1>2, <2>1
    <2> DEFINE c == Guessing!Cardinality(Guessing!Users(k)) * n
    <2> HIDE DEF c
    <2> QED
      BY <1>1, <1>2, <2>2, <2>3, <2>4, <2>5, <2>6 DEF c
  <1>5. 0 .. MaxTime \subseteq 0 .. MaxTime + 1
    BY <1>1
  <1> QED
    BY <1>1, <1>3, <1>4, <1>5 DEF Guessing!SlowedDown

-----------------------------------------------------------------------------
(* Whichever component runs, its invariant holds. *)
HouseHolds ==
    /\ part = "panel" => Administration!IInv
    /\ part = "guessing" => Guessing!IInv
    /\ part = "key" => Keys!IInv
    /\ part = "configuration" => Configuration!IInv
    /\ part = "checking" => Checking!IInv
    /\ part = "application" => Application!IInv

\* Each component starts in its invariant.
LEMMA HouseStarts == Init => HouseHolds
  BY AdministrationStarts, GuessingStarts, KeysStartEmpty, ConfigurationStarts, CheckingStarts,
     ApplicationStarts
     DEF Init, HouseHolds

\* A step of the house is a step of its component, or leaves the component alone.
LEMMA StepOfOne ==
    ASSUME [Next]_vars
    PROVE  /\ part' = part
           /\ part = "panel" => [Administration!Next]_(Administration!vars)
           /\ part = "guessing" => [Guessing!Next]_<<s1, s2, s3, s4, s5>>
           /\ part = "key" => [Keys!Next]_(Keys!vars)
           /\ part = "configuration" => [Configuration!Next]_(Configuration!vars)
           /\ part = "checking" => [Checking!Next]_(Checking!vars)
           /\ part = "application" => [Application!Next]_(Application!vars)
  <1>1. CASE Next
    <2>1. part' = part
      BY <1>1 DEF Next
    <2>2. part = "panel" => Administration!Next
      BY <1>1 DEF Next
    <2>3. part = "guessing" => Guessing!Next
      BY <1>1 DEF Next
    <2>4. part = "key" => Keys!Next
      BY <1>1 DEF Next
    <2>5. part = "configuration" => Configuration!Next
      BY <1>1 DEF Next
    <2>6. part = "checking" => Checking!Next
      BY <1>1 DEF Next
    <2>7. part = "application" => Application!Next
      BY <1>1 DEF Next
    <2> QED
      BY <2>1, <2>2, <2>3, <2>4, <2>5, <2>6, <2>7
  <1>2. CASE UNCHANGED vars
    <2>1. UNCHANGED part /\ UNCHANGED <<s1, s2, s3, s4, s5>> /\ UNCHANGED <<s6, s7, s8>>
      BY <1>2 DEF vars
    <2>2. UNCHANGED Administration!vars
      BY <2>1 DEF Administration!vars, Administration!stored
    <2>3. UNCHANGED Keys!vars
      BY <2>1 DEF Keys!vars
    <2>4. UNCHANGED Configuration!vars
      BY <2>1 DEF Configuration!vars
    <2>5. UNCHANGED Checking!vars
      BY <2>1 DEF Checking!vars
    <2>6. UNCHANGED Application!vars
      BY <2>1 DEF Application!vars
    <2> QED
      BY <2>1, <2>2, <2>3, <2>4, <2>5, <2>6
  <1> QED
    BY <1>1, <1>2

\* And a step of the house keeps it.
LEMMA HouseStep == ASSUME HouseHolds, [Next]_vars PROVE HouseHolds'
  <1>1. part = "panel" => Administration!IInv'
    BY StepOfOne, AdministrationStep DEF HouseHolds
  <1>2. part = "guessing" => Guessing!IInv'
    BY StepOfOne, GuessingStep DEF HouseHolds
  <1>3. part = "key" => Keys!IInv'
    BY StepOfOne, KeysStep DEF HouseHolds
  <1>4. part = "configuration" => Configuration!IInv'
    BY StepOfOne, ConfigurationStep DEF HouseHolds
  <1>5. part = "checking" => Checking!IInv'
    BY StepOfOne, CheckingStep DEF HouseHolds
  <1>6. part = "application" => Application!IInv'
    BY StepOfOne, ApplicationStep DEF HouseHolds
  <1> QED
    BY <1>1, <1>2, <1>3, <1>4, <1>5, <1>6, StepOfOne DEF HouseHolds

\* So it holds throughout.
LEMMA Invariance == Spec => []HouseHolds
  BY HouseStarts, HouseStep, PTL DEF Spec

(* However requests, saved settings and a crash fall together, who was recovered is told so, *)
(* sessions end for their handler's reason, and guesses at one key are slowed down, for      *)
(* every number of accounts, sessions and requests, and all options of the limiter.          *)
THEOREM AdministrationIsKept == Spec => []AdministrationHolds
  <1>1. HouseHolds => AdministrationHolds
    BY AdministrationAnswers, GuessingAnswers DEF HouseHolds, AdministrationHolds
  <1> QED
    BY <1>1, Invariance, PTL

(* The sidecar a window talks to is of the window's version, processes that start together  *)
(* seal under one key, an address reported saved is in force, and an installation reported    *)
(* clean works.                                                               *)
THEOREM WhatStartsIsMeant == Spec => []StartsRight
  <1>1. HouseHolds => StartsRight
    <2>1. Keys!IInv => Keys!OneKey
      BY DEF Keys!IInv
    <2>2. Configuration!IInv => Configuration!SavedAddressServes
      BY DEF Configuration!IInv, Configuration!AddressInForce, Configuration!Quiet,
             Configuration!SavedAddressServes
    <2> QED
      BY <2>1, <2>2, ApplicationAnswers, CheckingAnswers DEF HouseHolds, StartsRight
  <1> QED
    BY <1>1, Invariance, PTL

(* Quitting stops every sidecar, and a key that has been handed out is never replaced: steps, *)
(* from states the invariants hold in.                                        *)
THEOREM QuitStopsAndKeysStay == Spec => StopsAndKeysStay
  <1>1. HouseHolds /\ [Next]_vars
        => [/\ part = "application" => Application!QuitStopsServers
            /\ part = "key" => Keys!KeyKept]_vars
    BY StepOfOne, ApplicationAnswers, KeyIsKept DEF HouseHolds
  <1> QED
    BY <1>1, Invariance, PTL DEF Spec, StopsAndKeysStay
=============================================================================
