-------------------------------- MODULE Desktop --------------------------------
(***************************************************************************)
(* The desktop wrapper: internal/desktop and its sidecar package.  One     *)
(* instance at a time shows the onboarding page or a Carrel server, local  *)
(* (a sidecar process it starts on the data directory of the user) or      *)
(* remote.  Three threads: `main' runs startup and shutdown, `call' the    *)
(* onboarding button under way, `leave' the goroutine that stops a sidecar *)
(* after a sign-out.  Files are replaced whole; the instance may die at    *)
(* any step and be launched again, perhaps in a newer version.             *)
(***************************************************************************)
EXTENDS Naturals, FiniteSets

CONSTANTS Versions,     \* versions of the application, numbered; an installation is never downgraded
          MaxServers,   \* bound on sidecar processes ever started
          MaxLaunches   \* bound on launches

VARIABLES binary,       \* the version of the sidecar in the install directory, 0 when missing
          noted,        \* version.json, 0 when missing
          config,       \* desktop.json: "none", "local" or "remote"
          lock,         \* instance.lock: [pid, mode], pid 0 when missing
          servers,      \* sidecar processes alive: [id, owner, version, healthy, told]
          spawned,      \* sidecar processes started so far
          pid,          \* launches so far: the process id of the last instance
          app           \* the instance: its fields below, and the pc of each thread
vars == <<binary, noted, config, lock, servers, spawned, pid, app>>

Threads == {"main", "call", "leave"}
Dead == [alive |-> FALSE, version |-> 0, cfg |-> "none", tray |-> FALSE, target |-> "none",
         running |-> 0, mutex |-> "free", icon |-> "new", quitting |-> FALSE, ready |-> FALSE,
         pc |-> [t \in Threads |-> "idle"], mine |-> [t \in Threads |-> 0]]

Told(ss, id) == {[s EXCEPT !.told = s.told \/ s.id = id] : s \in ss}
Alive(id) == \E s \in servers : s.id = id
Kept == <<binary, noted, config, lock>>

Init ==
    /\ binary = 0 /\ noted = 0 /\ config = "none"
    /\ lock = [pid |-> 0, mode |-> "setup"]
    /\ servers = {} /\ spawned = 0 /\ pid = 0
    /\ app = Dead

At(t, label) == app.alive /\ app.pc[t] = label
Jump(t, label) == [app EXCEPT !.pc[t] = label]

\* trayActive, maybeStartTray, stopTray: the icon can be started once and is never started again.
TrayApplied(a) ==
    IF a.cfg # "none" /\ a.tray /\ a.target # "none"
    THEN IF a.icon = "new" THEN [a EXCEPT !.icon = "running"] ELSE a
    ELSE IF a.icon = "running" THEN [a EXCEPT !.icon = "done"] ELSE a

--------------------------------------------------------------------------------
\* initialLockMode, AcquireLock and RemoveLock: one instance at a time is alive, so a lock
\* that is found names a dead process and is replaced; only its own is removed.
InitialMode(cfg) == IF cfg = "none" THEN "setup" ELSE cfg
Acquired(id, cfg) == [pid |-> id, mode |-> InitialMode(cfg)]
RemovedBy(id) == IF lock.pid = id THEN [lock EXCEPT !.pid = 0] ELSE lock

\* main and startup: the configuration is read, and the lock of a dead holder replaced.
Launch(version, tray) ==
    /\ ~app.alive /\ pid < MaxLaunches
    /\ version >= binary /\ version >= noted
    /\ pid' = pid + 1
    /\ lock' = Acquired(pid', config)
    /\ app' = [Dead EXCEPT !.alive = TRUE, !.version = version, !.cfg = config, !.tray = tray,
                           !.target = IF config = "remote" THEN "remote" ELSE "none",
                           !.pc["main"] = IF config = "local" THEN "ensure" ELSE "started"]
    /\ UNCHANGED <<binary, noted, config, servers, spawned>>

\* startup ends with the tray; the page is loaded after it.
Started ==
    /\ At("main", "started")
    /\ app' = [TrayApplied(app) EXCEPT !.pc["main"] = "idle", !.ready = TRUE]
    /\ UNCHANGED <<binary, noted, config, lock, servers, spawned, pid>>

\* Where a thread goes on after startSidecar.
After(t) == IF t = "main" THEN "started" ELSE "opened"
Failed(t) == IF t = "main" THEN "started" ELSE "idle"

\* sidecar.Ensure: nothing to do when the recorded version is the wanted one.
Ensure(t) ==
    /\ At(t, "ensure")
    /\ app' = Jump(t, IF binary # 0 /\ noted = app.version THEN "enter" ELSE "download")
    /\ UNCHANGED <<Kept, servers, spawned, pid>>

\* slip: a sidecar that is there is never too old
EnsureThere(t) ==
    /\ At(t, "ensure")
    /\ app' = Jump(t, IF binary # 0 THEN "enter" ELSE "download")
    /\ UNCHANGED <<Kept, servers, spawned, pid>>

\* Downloaded, checked and extracted beside the target, then renamed over it, or nothing.
ReplaceBinary(t) ==
    /\ At(t, "download")
    /\ \/ binary' = app.version /\ app' = Jump(t, "note")
       \/ UNCHANGED binary /\ app' = Jump(t, Failed(t))
    /\ UNCHANGED <<noted, config, lock, servers, spawned, pid>>

WriteVersion(t) ==
    /\ At(t, "note")
    /\ \/ noted' = app.version /\ app' = Jump(t, "enter")
       \/ UNCHANGED noted /\ app' = Jump(t, Failed(t))
    /\ UNCHANGED <<binary, config, lock, servers, spawned, pid>>

\* sidecarM is taken.  A sidecar that runs would be stopped first: there is none (below).
EnterStart(t) ==
    /\ At(t, "enter") /\ app.mutex = "free"
    /\ app' = [Jump(t, "spawn") EXCEPT !.mutex = t, !.running = 0]
    /\ UNCHANGED <<Kept, servers, spawned, pid>>

\* Supervisor.Start: a free port, the process, and its health asked for.
Spawn(t) ==
    /\ At(t, "spawn")
    /\ \/ /\ binary # 0 /\ spawned < MaxServers
          /\ spawned' = spawned + 1
          /\ servers' = servers \cup {[id |-> spawned', owner |-> pid, version |-> binary,
                                       healthy |-> FALSE, told |-> FALSE]}
          /\ app' = [Jump(t, "health") EXCEPT !.mine[t] = spawned']
       \/ /\ app' = [Jump(t, Failed(t)) EXCEPT !.mutex = "free"]
          /\ UNCHANGED <<servers, spawned>>
    /\ UNCHANGED <<Kept, pid>>

\* slip: the context of the start outlives the window
HealthyLater(t) ==
    /\ At(t, "health") /\ Alive(app.mine[t])
    /\ servers' = {[s EXCEPT !.healthy = s.healthy \/ s.id = app.mine[t]] : s \in servers}
    /\ app' = [Jump(t, "publish") EXCEPT !.mutex = "free", !.running = app.mine[t]]
    /\ UNCHANGED <<Kept, spawned, pid>>

\* waitHealthy: the context ends when the application quits, or after its timeout.
Healthy(t) ==
    /\ At(t, "health")
    /\ \/ /\ Alive(app.mine[t]) /\ ~app.quitting
          /\ servers' = {[s EXCEPT !.healthy = s.healthy \/ s.id = app.mine[t]] : s \in servers}
          /\ app' = [Jump(t, "publish") EXCEPT !.mutex = "free", !.running = app.mine[t]]
       \/ /\ servers' = Told(servers, app.mine[t])
          /\ app' = Jump(t, "abandon")
    /\ UNCHANGED <<Kept, spawned, pid>>

Abandon(t) ==
    /\ At(t, "abandon") /\ ~Alive(app.mine[t])
    /\ app' = [Jump(t, Failed(t)) EXCEPT !.mutex = "free"]
    /\ UNCHANGED <<Kept, servers, spawned, pid>>

\* The target is set, then the lock rewritten; without a lock nothing is shown.
Publish(t) ==
    /\ At(t, "publish")
    /\ \/ /\ lock' = [pid |-> pid, mode |-> "local"]
          /\ app' = [Jump(t, After(t)) EXCEPT !.target = "local"]
       \/ /\ UNCHANGED lock
          /\ app' = [Jump(t, "detach") EXCEPT !.target = "none"]
    /\ UNCHANGED <<binary, noted, config, servers, spawned, pid>>

--------------------------------------------------------------------------------
\* detachSidecar under its mutex, then Stop: told, waited for, killed after the grace.
Detach(t) ==
    /\ At(t, "detach") /\ app.mutex = "free"
    /\ servers' = Told(servers, app.running)
    /\ app' = [Jump(t, "stopping") EXCEPT !.mine[t] = app.running, !.running = 0]
    /\ UNCHANGED <<Kept, spawned, pid>>

\* Where Stop returns to: nowhere, the rest of ConnectRemote, or the end of shutdown.
Stopped(t) ==
    /\ At(t, "stopping") /\ ~Alive(app.mine[t])
    /\ app' = Jump(t, IF t = "main" THEN (IF app.quitting THEN "unlock" ELSE "started")
                      ELSE IF t = "call" /\ app.cfg = "remote" THEN "remote" ELSE "idle")
    /\ UNCHANGED <<Kept, servers, spawned, pid>>

\* The lock is removed, and the process ends with its threads.
Exit ==
    /\ At("main", "unlock")
    /\ lock' = RemovedBy(pid)
    /\ app' = Dead
    /\ UNCHANGED <<binary, noted, config, servers, spawned, pid>>

--------------------------------------------------------------------------------
\* The onboarding page, whose buttons are off while a call is under way.
Onboarding == app.ready /\ app.target = "none" /\ app.pc["call"] = "idle" /\ ~app.quitting

Connect(mode, tray) ==
    /\ Onboarding
    /\ \/ /\ config' = mode
          /\ app' = [Jump("call", IF mode = "local" THEN "ensure" ELSE "detach") EXCEPT !.cfg = mode, !.tray = tray]
       \/ UNCHANGED <<config, app>> \* the configuration cannot be written
    /\ UNCHANGED <<binary, noted, lock, servers, spawned, pid>>

Opened ==
    /\ At("call", "opened")
    /\ app' = TrayApplied(Jump("call", "idle"))
    /\ UNCHANGED <<Kept, servers, spawned, pid>>

OpenRemote ==
    /\ At("call", "remote")
    /\ lock' = [pid |-> pid, mode |-> "remote"]
    /\ app' = TrayApplied([Jump("call", "idle") EXCEPT !.target = "remote"])
    /\ UNCHANGED <<binary, noted, config, servers, spawned, pid>>

\* shouldResetDesktop: Carrel's own sign-out, seen by the watch script.  The redirect to the
\* onboarding page does not wait for the goroutine that stops the sidecar.
SignOut ==
    /\ app.ready /\ app.target # "none" /\ ~app.quitting /\ app.pc["call"] = "idle"
    /\ app.pc["leave"] = "idle" /\ app.mutex = "free"
    /\ config' = "none"
    /\ lock' = [pid |-> pid, mode |-> "setup"]
    /\ app' = [Jump("leave", "stop") EXCEPT !.target = "none", !.cfg = "none",
                                            !.mine["leave"] = app.running, !.running = 0]
    /\ UNCHANGED <<binary, noted, servers, spawned, pid>>

StopAfterSignOut ==
    /\ At("leave", "stop")
    /\ servers' = Told(servers, app.mine["leave"])
    /\ app' = Jump("leave", "stopping")
    /\ UNCHANGED <<Kept, spawned, pid>>

\* onBeforeClose: hidden while the tray is on, or after a sign-out that left the icon.
Hides == \/ app.cfg # "none" /\ app.tray /\ app.target # "none"
         \/ app.icon = "running" /\ app.cfg = "none"
\* Closing without a tray, or Quit in its menu.
Quit ==
    /\ app.ready /\ ~app.quitting
    /\ (~Hides \/ app.icon = "running")
    /\ app' = [Jump("main", "detach") EXCEPT !.quitting = TRUE,
                                             !.icon = IF app.icon = "running" THEN "done" ELSE app.icon]
    /\ UNCHANGED <<Kept, servers, spawned, pid>>

\* The instance is killed; its sidecars are processes of their own.
Crash ==
    /\ app.alive
    /\ app' = Dead
    /\ UNCHANGED <<Kept, servers, spawned, pid>>

\* A sidecar ends after it was told, or dies.
ServerEnds(s) ==
    /\ servers' = servers \ {s}
    /\ UNCHANGED <<Kept, spawned, pid, app>>

StartSidecar(t) ==
    \/ Ensure(t) \/ ReplaceBinary(t) \/ WriteVersion(t) \/ EnterStart(t)
    \/ Spawn(t) \/ Healthy(t) \/ Abandon(t) \/ Publish(t) \/ Detach(t)

Next ==
    \/ \E version \in Versions, tray \in BOOLEAN : Launch(version, tray)
    \/ Started \/ Opened \/ OpenRemote \/ SignOut \/ StopAfterSignOut \/ Quit \/ Exit \/ Crash
    \/ \E t \in {"main", "call"} : StartSidecar(t)
    \/ \E t \in Threads : Stopped(t)
    \/ \E mode \in {"local", "remote"}, tray \in BOOLEAN : Connect(mode, tray)
    \/ \E s \in servers : ServerEnds(s)

Spec == Init /\ [][Next]_vars

--------------------------------------------------------------------------------
\* docs/plans/desktop-wrapper.md, "desktop version = sidecar version": whatever
\* download failed or was cut short before, and by which version, a sidecar is
\* started from the binary of the version of the application (sidecar.Ensure).  And
\* no start finds a sidecar running that it must stop: no page offers one then.
RunsItsOwnVersion ==
    /\ \A s \in servers : app.alive /\ s.owner = pid => s.version = app.version
    /\ \A t \in Threads : At(t, "enter") => app.running = 0 \/ ~Alive(app.running)

\* A quit that is not a crash leaves no server that was ever opened to itself
\* (app.go shutdown, detachSidecar, the mutex and the context of a start): each
\* has ended or was told to, even when a start was under way in another thread.
\* Only a sign-out whose goroutine has not begun yet dies with the process.
QuitStopsServers ==
    app.alive /\ app.pc["main"] = "unlock" /\ ~app'.alive =>
        \A s \in servers : s.healthy /\ s.owner = pid => s.told \/ app.pc["leave"] = "stop"
QuitStopsWhatWasOpened == [][QuitStopsServers]_vars

\* Why both hold.  The recorded version never runs ahead of the binary, nor the binary ahead
\* of the application; one thread at a time starts a sidecar, with none open; and what is open
\* is known by its number, until the thread that will stop it has taken the number.
Starting == {"ensure", "download", "note", "enter", "spawn", "health", "abandon"}
Labels == Starting \cup {"idle", "started", "publish", "opened", "detach", "stopping", "stop",
                        "remote", "unlock"}

App == [alive : BOOLEAN, version : Nat, cfg : {"none", "local", "remote"}, tray : BOOLEAN,
        target : {"none", "local", "remote"}, running : Nat, mutex : Threads \cup {"free"},
        icon : {"new", "running", "done"}, quitting : BOOLEAN, ready : BOOLEAN,
        pc : [Threads -> Labels], mine : [Threads -> Nat]]

Server == [id : Nat \ {0}, owner : Nat, version : Nat, healthy : BOOLEAN, told : BOOLEAN]

TypeOK ==
    /\ binary \in Nat /\ noted \in Nat /\ spawned \in Nat /\ pid \in Nat
    /\ config \in {"none", "local", "remote"}
    /\ servers \subseteq Server
    /\ app \in App

VersionsInStep ==
    /\ noted <= binary
    /\ app.alive => /\ binary <= app.version
                    /\ \A t \in Threads :
                           app.pc[t] \in {"note", "enter", "spawn"} => binary = app.version
    /\ \A s \in servers : /\ s.owner <= pid
                          /\ app.alive /\ s.owner = pid => s.version = app.version

OneStart ==
    /\ app.pc["leave"] \in {"idle", "stop", "stopping"}
    /\ ~app.ready => app.pc["call"] = "idle" /\ app.pc["leave"] = "idle" /\ ~app.quitting
    /\ app.ready => app.pc["main"] \in {"idle", "detach", "stopping", "unlock"}
    /\ app.ready /\ ~app.quitting => app.pc["main"] = "idle"
    /\ app.pc["main"] = "unlock" => app.quitting
    /\ \A t \in Threads : app.pc[t] \in Starting => app.running = 0

OpenIsKnown ==
    /\ app.running # 0 => \/ app.target = "local"
                          \/ \E t \in Threads : app.pc[t] \in {"publish", "detach"}
    /\ app.pc["call"] \in {"detach", "stopping", "remote"} => app.target # "local"
    /\ app.quitting /\ app.pc["main"] \in {"stopping", "unlock"} => app.running = 0
    /\ \A s \in servers : s.owner = pid /\ s.healthy =>
           \/ s.told \/ s.id = app.running
           \/ app.pc["leave"] = "stop" /\ s.id = app.mine["leave"]

IInv == TypeOK /\ VersionsInStep /\ (app.alive => OneStart /\ OpenIsKnown)

\* The plan's "login page -> stop local sidecar -> onboarding": two sidecars never have the
\* data directory together.  It does not hold: the redirect comes before the stop, and the
\* next local server starts while the last one is still writing its state.
OneServerPerDataDir == Cardinality({s \in servers : s.owner = pid}) <= 1
================================================================================
