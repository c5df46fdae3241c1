----------------------------- MODULE InstallCheck -----------------------------
(***************************************************************************)
(* The installation check (internal/installcheck, handler/installcheck.go): the  *)
(* server calls itself at its public address and tells the administrator, row by    *)
(* row, what a browser would see through the reverse proxy; and what the server      *)
(* itself believes of a request (handler/proxy.go), which is what the rows are      *)
(* about.  The probe endpoints answer while their token is the one in the gate,      *)
(* and the gate holds one token: two administrators share it.                      *)
(*                                                                         *)
(* The world, the proxy and how it is set up, is fixed.  Certificates and paths     *)
(* are reduced to whether they fit; ports, which the check does not compare,        *)
(* are left out, and so is the latency of anything but the event stream.            *)
(***************************************************************************)
EXTENDS Naturals, Sequences, FiniteSets, SequencesExt

CONSTANTS
    Runs,      \* requests that run the check, each once
    Worlds,    \* the set-ups looked at: subset of World
    Client, Proxy, Elsewhere, Bad,   \* addresses; Bad does not parse
    None

(* base, path: the server is mounted below the root, and the public address names    *)
(* that path, too.  host, forwardedHost, proto: what the proxy sends of the request;   *)
(* proxies: trusted_proxies is empty, names other machines, or the proxy.            *)
World == [https : BOOLEAN, local : BOOLEAN, base : BOOLEAN, path : BOOLEAN,
          host : {"same", "other"}, forwardedHost : {"none", "same", "other"},
          proto : {"none", "http", "https"}, proxies : {"none", "others", "proxy"},
          certificate : BOOLEAN, buffers : BOOLEAN, limits : BOOLEAN, writable : BOOLEAN]

VARIABLES
    world,
    gate,     \* the run whose token is registered, or None
    run       \* [Runs -> [at, rows]]

vars == <<world, gate, run>>

Init ==
    /\ world \in Worlds
    /\ gate = None
    /\ run = [r \in Runs |-> [at |-> "none", rows |-> {}]]

-----------------------------------------------------------------------------
(* ProxyTrust. *)

TrustedProxies == CASE world.proxies = "proxy" -> {Proxy}
                    [] world.proxies = "others" -> {Elsewhere}
                    [] OTHER -> {}

(* ClientIP: the header is walked from the right, past trusted hops only. *)
ClientIP(remote, hops, trusted) ==
    LET last == SelectLastInSeq(hops, LAMBDA h : h \notin trusted)
        walked == [i \in 1 .. Len(hops) + 1 |-> IF i > Len(hops) THEN remote ELSE hops[i]]
    IN IF remote \notin trusted THEN remote
       ELSE IF last = 0 THEN walked[1]
       ELSE IF hops[last] = Bad THEN walked[last + 1] ELSE hops[last]

(* Slip: the first address of the header is taken for the client. *)
ClientIPNamed(remote, hops, trusted) ==
    IF remote \notin trusted \/ hops = <<>> THEN remote ELSE Head(hops)

(* IsHTTPS of a request that came through the proxy. *)
IsHTTPS == Proxy \in TrustedProxies /\ world.proto = "https"

(* What hangs on it: the Secure flag of the cookies, the scheme of publicURL. *)
SecureCookies == IsHTTPS
LinksAreRight == (IsHTTPS <=> world.https) /\ world.host = "same"

-----------------------------------------------------------------------------
(* The rows. *)

Row(name, status) == {<<name, status>>}

(* installProbes: the public address, then the base path again. *)
ProbesArrive == ~(world.base /\ world.path)

Reachable == IF world.local THEN Row("reachable", "local")
             ELSE Row("reachable", IF ProbesArrive THEN "ok" ELSE "fail")

Certificate == IF ~world.https THEN Row("certificate", "warn")
               ELSE Row("certificate", IF world.certificate THEN "ok" ELSE "fail")

BaseAddress == Row("base",
    IF world.host = "same" /\ world.forwardedHost \in {"none", "same"} THEN "ok" ELSE "fail")

Scheme == Row("scheme",
    IF world.https /\ world.proto = "none"
    THEN IF world.proxies = "none" THEN "fail" ELSE "warn"
    ELSE IF world.https /\ world.proto = "https" THEN "ok"
    ELSE IF ~world.https /\ world.proto = "none" THEN "ok" ELSE "fail")

ClientAddress == Row("client",
    IF world.proxies = "none" THEN "warn"
    ELSE IF ClientIP(Proxy, <<Client>>, TrustedProxies) = None THEN "fail" ELSE "ok")

Echo(answered) == IF answered THEN BaseAddress \cup Scheme \cup ClientAddress
                  ELSE Row("headers", "fail")

(* The first event within two seconds. *)
Stream(answered) == Row("stream", IF answered /\ ~world.buffers THEN "ok" ELSE "fail")

(* A proxy's limit answers before Carrel does. *)
Upload(answered) == Row("upload", IF world.limits THEN "fail"
                                  ELSE IF answered THEN "ok" ELSE "warn")

Timeout == Row("timeout", "warn")

(* Slip: the flag is read, and not asked for. *)
CookieAny == Row("cookie", "ok")

Cookie == Row("cookie", IF world.https /\ ~SecureCookies THEN "fail" ELSE "ok")

Clock == Row("clock", "ok")
DataDir == Row("data", IF world.writable THEN "ok" ELSE "fail")

Failing(rows) == {row \in rows : row[2] = "fail"}

-----------------------------------------------------------------------------
(* adminRunInstallCheck. *)

(* InstallCheckEcho, InstallCheckSSE, InstallCheckUpload: for the gate's token only. *)
Answered(r) == ProbesArrive /\ gate = r

Add(r, at, rows) == run' = [run EXCEPT ![r] = [at |-> at, rows |-> @.rows \cup rows]]

Register(r) ==
    /\ run[r].at = "none"
    /\ gate' = r
    /\ Add(r, "echo", Reachable \cup Certificate)
    /\ UNCHANGED world

AskEcho(r) ==
    /\ run[r].at = "echo"
    /\ Add(r, "stream", Echo(Answered(r)))
    /\ UNCHANGED <<world, gate>>

AskStream(r) ==
    /\ run[r].at = "stream"
    /\ Add(r, "upload", Stream(Answered(r)))
    /\ UNCHANGED <<world, gate>>

AskUpload(r) ==
    /\ run[r].at = "upload"
    /\ Add(r, "clear", Upload(Answered(r)) \cup Timeout \cup Cookie \cup Clock \cup DataDir)
    /\ UNCHANGED <<world, gate>>

(* Slip: a probe is taken back only by the run that is still registered when it     *)
(* has found nothing wrong. *)
ClearWhenClean(r) ==
    /\ run[r].at = "clear"
    /\ gate' = IF Failing(run[r].rows) = {} THEN None ELSE gate
    /\ Add(r, "done", {})
    /\ UNCHANGED world

Clear(r) ==
    /\ run[r].at = "clear"
    /\ gate' = None
    /\ Add(r, "done", {})
    /\ UNCHANGED world

(* installProbeTTL: a slow run outlives its token. *)
Expire == gate # None /\ gate' = None /\ UNCHANGED <<world, run>>

Next == Expire \/ \E r \in Runs : Register(r) \/ AskEcho(r) \/ AskStream(r) \/ AskUpload(r)
                                  \/ Clear(r)

Spec == Init /\ [][Next]_vars

-----------------------------------------------------------------------------
Ended(r) == run[r].at = "done"

(* A report without a failing row can be relied on, whatever other runs do to the    *)
(* gate meanwhile: behind an https address the cookies are Secure and the links of    *)
(* invitations are the address people use, events are not held back and a large      *)
(* upload passes; the probes are closed when no run is under way; and no header      *)
(* a client sends moves the address the limiter counts ("a client that sends its     *)
(* own X-Forwarded-For therefore cannot forge its position in the chain").          *)
CleanReportIsTrue ==
    /\ \A r \in Runs : Ended(r) /\ Failing(run[r].rows) = {} =>
           /\ world.https => SecureCookies /\ LinksAreRight
           /\ ~world.buffers /\ ~world.limits /\ world.writable
    /\ (\A r \in Runs : run[r].at \in {"none", "done"}) => gate = None
    /\ \A forged \in SeqOf({Proxy, Elsewhere, Bad}, 2) :
           ClientIP(Proxy, forged \o <<Client>>, {Proxy}) = Client

(* Why it holds.  From the stage that asks for it on, what a clean report vouches for is   *)
(* so; and the gate is held for a run that is under way.                          *)
Stages == {"none", "echo", "stream", "upload", "clear", "done"}
Checks == {"reachable", "certificate", "base", "scheme", "client", "headers", "stream", "upload",
           "timeout", "cookie", "clock", "data"}
Report == [at : Stages, rows : SUBSET (Checks \X {"ok", "warn", "fail", "local"})]

TypeOK == world \in World /\ run \in [Runs -> Report]

RowsAreWarranted ==
    \A r \in Runs : Failing(run[r].rows) = {} =>
        /\ run[r].at \in {"stream", "upload", "clear", "done"} => world.host = "same"
        /\ run[r].at \in {"upload", "clear", "done"} => ~world.buffers
        /\ run[r].at \in {"clear", "done"} =>
               ~world.limits /\ world.writable /\ (world.https => SecureCookies)

GateHasARun == gate # None => gate \in Runs /\ run[gate].at \notin {"none", "done"}

IInv == TypeOK /\ RowsAreWarranted /\ GateHasARun

(* Does not hold.  A row that says "links are built as https" or "limits count ...,   *)
(* not the proxy" (check.go:311, check.go:332) is not believed on the proxy's word:     *)
(* an instance that does not trust the proxy, or trusts another, gets both.          *)
OkRowsAreTrue ==
    \A r \in Runs : Ended(r) =>
        /\ <<"scheme", "ok">> \in run[r].rows => (IsHTTPS <=> world.https)
        /\ <<"client", "ok">> \in run[r].rows =>
               ClientIP(Proxy, <<Client>>, TrustedProxies) = Client

(* Does not hold.  Behind a proxy that is set up as README.md:222 says, one check     *)
(* at a time finds nothing wrong; but the form offers the address with the base path,  *)
(* and the probes add it again.                                                *)
RightSetupPasses ==
    \A r \in Runs : Ended(r) /\ Cardinality(Runs) = 1 /\ world.certificate
                    /\ world.https /\ world.host = "same" /\ world.forwardedHost # "other"
                    /\ world.proto = "https" /\ world.proxies = "proxy"
                    /\ ~world.buffers /\ ~world.limits /\ world.writable =>
        Failing(run[r].rows) = {}
===============================================================================
