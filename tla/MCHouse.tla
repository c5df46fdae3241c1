------------------------------- MODULE MCHouse -------------------------------
(***************************************************************************)
(* Carrel itself: the administration panel, the limiter of guesses, the server's key,    *)
(* its configuration, the check of an installation, and the desktop application.  The   *)
(* run is of one component at a time, whose variables are held in slots.           *)
(***************************************************************************)
EXTENDS Integers, Sequences, FiniteSets, TLC

CONSTANTS
    Parts,                                         \* the components of this run
    People, Root, HasAddress, Ids, Requests, MaxRecoveries,           \* Panel
    Attempts, KeysOf, RateKeys, FreeTries, BaseDelay, MaxDelay, Forget, MaxTime,  \* Throttle
    Processes, NoFile, Short,                                      \* ServerKey
    Admins, Addresses, Bad, Torn, Files, Environments,              \* ConfigFile
    Runs, Worlds, Client, Proxy, Elsewhere,                        \* InstallCheck
    Versions, MaxServers, MaxLaunches,                              \* Desktop
    None

VARIABLES part, s1, s2, s3, s4, s5, s6, s7, s8

vars == <<part, s1, s2, s3, s4, s5, s6, s7, s8>>

-----------------------------------------------------------------------------
Administration == INSTANCE Panel WITH
    account <- s1, escrow <- s2, smtp <- s3, session <- s4, req <- s5, recovery <- s6

Guessing == INSTANCE Throttle WITH
    now <- s1, entries <- s2, attempt <- s3, born <- s4, tries <- s5

Keys == INSTANCE ServerKey WITH file <- s1, at <- s2, key <- s3, damaged <- s4

Configuration == INSTANCE ConfigFile WITH
    config <- s1, tmp <- s2, env <- s3, process <- s4, req <- s5, overlapped <- s6,
    saved <- s7

Checking == INSTANCE InstallCheck WITH world <- s1, gate <- s2, run <- s3

Application == INSTANCE Desktop WITH
    binary <- s1, noted <- s2, config <- s3, lock <- s4, servers <- s5, spawned <- s6,
    pid <- s7, app <- s8

-----------------------------------------------------------------------------
(* What the names and numbers stand for.  NoFile and Short are no keys. *)
ASSUME KeyAssumption == NoFile # Short /\ {NoFile, Short} \cap Processes = {}

(* A file is read as the settings it has, or is no text the program wrote. *)
ASSUME FilesAssumption ==
    /\ None # Torn /\ Torn \notin Files
    /\ None \notin Configuration!Configurations /\ Torn \notin Configuration!Configurations
    /\ \A f \in Files \cup Environments :
           /\ DOMAIN f \subseteq Configuration!Fields
           /\ \A x \in DOMAIN f \ {"public"} : f[x] \in Nat

(* A server answers so many requests at a time. *)
ASSUME RequestsAssumption == IsFiniteSet(Requests)

(* The options with their defaults; a request counts under several keys, each once. *)
ASSUME GuessingAssumption ==
    /\ FreeTries \in Nat /\ BaseDelay \in Nat \ {0} /\ MaxDelay \in Nat \ {0}
    /\ Forget \in Nat /\ MaxTime \in Nat
    /\ IsFiniteSet(Attempts)
    /\ \A r \in Attempts : /\ KeysOf[r] \in Seq(RateKeys) /\ KeysOf[r] # <<>>
                           /\ Guessing!IsInjective(KeysOf[r])
    /\ None \notin Guessing!Entry

(* Set-ups of the installation; the client's address parses, and is not the proxy's. *)
ASSUME WorldsAssumption ==
    Worlds \subseteq Checking!World /\ Client \notin {Proxy, Bad}

(* Versions are numbered; 0 is none. *)
ASSUME VersionsAssumption == Versions \subseteq Nat \ {0}

-----------------------------------------------------------------------------
(* The instance that is checked. *)

(* One address: a form with a login, and one without. *)
LoginForms == [a |-> <<"ip", "ada">>, b |-> <<"ip">>]

(* A file from before the body ceiling, one with a partial section that does not load,
   one with an address; no variables, a port, an address. *)
Written == {"ttl" :> 2, "connect" :> 2 @@ "redirects" :> 0, "redirects" :> 2,
            "public" :> "a" @@ "port" :> 2}
Given == {<<>>, "port" :> 3, "public" :> "b" @@ "connect" :> 3}

(* The set-ups of the proxy (every world of Checking, whose Worlds this instance fills);
   one fault at most in the certificate, the proxy's limits and the volume. *)
Faults(w) == (IF w.certificate THEN 0 ELSE 1) + (IF w.buffers THEN 1 ELSE 0)
             + (IF w.limits THEN 1 ELSE 0) + (IF w.writable THEN 0 ELSE 1)
Proxies == [https : BOOLEAN, local : BOOLEAN, base : BOOLEAN, path : BOOLEAN,
            host : {"same", "other"}, forwardedHost : {"none", "same", "other"},
            proto : {"none", "http", "https"}, proxies : {"none", "others", "proxy"},
            certificate : BOOLEAN, buffers : BOOLEAN, limits : BOOLEAN, writable : BOOLEAN]
SetUps == {w \in Proxies : (~w.path \/ w.base) /\ Faults(w) <= 1}

Symmetry == Permutations(Ids) \cup Permutations(Requests)

(* Bound: the first administrator stays one, and is neither locked out nor covered. *)
RootStays ==
    part = "panel" =>
        s1[Root].there /\ s1[Root].admin /\ ~s1[Root].disabled /\ ~s1[Root].copy

-----------------------------------------------------------------------------
(* The slots a component leaves unused. *)
Empty == 0
After7 == s8 = Empty
After6 == s7 = Empty /\ After7
After5 == s6 = Empty /\ After6
After4 == s5 = Empty /\ After5
After3 == s4 = Empty /\ After4

Rest7 == <<s8>>
Rest6 == <<s7, Rest7>>
Rest5 == <<s6, Rest6>>
Rest4 == <<s5, Rest5>>
Rest3 == <<s4, Rest4>>

Init ==
    /\ part \in Parts
    /\ \/ part = "panel" /\ Administration!Init /\ After6
       \/ part = "guessing" /\ Guessing!Init /\ After5
       \/ part = "key" /\ Keys!Init /\ After4
       \/ part = "configuration" /\ Configuration!Init /\ After7
       \/ part = "checking" /\ Checking!Init /\ After3
       \/ part = "application" /\ Application!Init

Next ==
    /\ UNCHANGED part
    /\ \/ part = "panel" /\ Administration!Next /\ UNCHANGED Rest6
       \/ part = "guessing" /\ Guessing!Next /\ UNCHANGED Rest5
       \/ part = "key" /\ Keys!Next /\ UNCHANGED Rest4
       \/ part = "configuration" /\ Configuration!Next /\ UNCHANGED Rest7
       \/ part = "checking" /\ Checking!Next /\ UNCHANGED Rest3
       \/ part = "application" /\ Application!Next

Spec == Init /\ [][Next]_vars

-----------------------------------------------------------------------------
(* However requests overlap and settings change meanwhile, everybody whose account was
   recovered is told so, and every session ended for the reason its handler had
   (handler/escrow.go, admin.go, self_account.go); guesses at one key are slowed down
   however many arrive together (ratelimit/ratelimit.go). *)
AdministrationHolds ==
    /\ part = "panel" => Administration!PanelKeepsItsOrder
    /\ part = "guessing" => Guessing!GuessingSlowsDown

(* What starts is what was meant: the desktop window is served by the sidecar of its own
   version, processes that start together seal under one key, an address reported saved is
   the one in force, and an installation reported clean works (cmd/carrel-desktop,
   crypto/serverkey.go, config/config.go, installcheck/). *)
StartsRight ==
    /\ part = "application" => Application!RunsItsOwnVersion
    /\ part = "key" => Keys!OneKey
    /\ part = "configuration" => Configuration!SavedAddressServes
    /\ part = "checking" => Checking!CleanReportIsTrue

(* To quit stops every sidecar the application started, and a key that has been handed out
   is never replaced (cmd/carrel-desktop/app.go, crypto/serverkey.go). *)
StopsAndKeysStay ==
    [][/\ part = "application" => Application!QuitStopsServers
       /\ part = "key" => Keys!KeyKept]_vars
=============================================================================
