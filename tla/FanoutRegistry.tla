--------------------------- MODULE FanoutRegistry ---------------------------
(***************************************************************************)
(* The registry of running polls, internal/fanout/registry.go, with the    *)
(* session ends that drive it: Manager.remove calls OnEnd, which main.go    *)
(* sets to CancelSession.                                                   *)
(*                                                                         *)
(* A critical section of Registry.mu is one step.  A task that was dropped  *)
(* under the lock is cancelled after the unlock, so the two interleave with *)
(* every other step.  A task is only what the registry knows of it: it is   *)
(* polling until someone cancels it (module FanoutTask has its inside).     *)
(* `age' is the time since an entry was touched, capped just above TaskTTL: *)
(* the code only compares it with TaskTTL.                                  *)
(***************************************************************************)
EXTENDS Naturals, Sequences, FiniteSets, SequencesExt

CONSTANTS
    Tasks,          \* task identifiers, numbered as they are drawn
    Sessions,
    MaxPerSession,  \* tasks one session may hold
    TaskTTL,        \* ticks after which an untouched task is dropped
    NoSession

ASSUME LimitAssumption == MaxPerSession \in Nat \ {0} /\ TaskTTL \in Nat
ASSUME TasksAssumption == Tasks \subseteq Nat
ASSUME NoSessionAssumption == NoSession \notin Sessions

VARIABLES
    session,    \* [Sessions -> {"live", "ending", "ended"}]
    visiting,   \* sessions with an admitted request that may still call Get
    owner,      \* [Tasks -> Sessions \cup {NoSession}], entry.sessionID
    polling,    \* tasks started and not cancelled
    starting,   \* tasks started by a handler and not yet registered
    byID,       \* Registry.byID: the registered tasks
    bySess,     \* [Sessions -> Seq(Tasks)], Registry.bySess
    age,        \* [Tasks -> 0 .. TaskTTL + 1], time since entry.touched
    stale       \* dropped tasks whose cancelAll has not reached them yet

vars == <<session, visiting, owner, polling, starting, byID, bySess, age, stale>>

Init ==
    /\ session = [s \in Sessions |-> "live"]
    /\ visiting = {}
    /\ owner = [t \in Tasks |-> NoSession]
    /\ polling = {} /\ starting = {}
    /\ byID = {}
    /\ bySess = [s \in Sessions |-> <<>>]
    /\ age = [t \in Tasks |-> 0]
    /\ stale = {}

(* A list that ts are unlinked from, in the order it had. *)
Without(seq, ts) ==
    LET kept[i \in 0 .. Len(seq)] ==
            IF i = 0 THEN <<>>
            ELSE IF seq[i] \in ts THEN kept[i - 1] ELSE Append(kept[i - 1], seq[i])
    IN  kept[Len(seq)]

(* Slip: the sweep walks the sessions that are still there. *)
ExpiredOfLive == {t \in byID : age[t] > TaskTTL /\ session[owner[t]] = "live"}

(* sweepLocked: the registered tasks nobody asked about within TaskTTL. *)
Expired == {t \in byID : age[t] > TaskTTL}

(* Slip: the newest are dropped. *)
ExcessNewest(ids) == Range(SubSeq(ids, MaxPerSession + 1, Len(ids)))

(* trimLocked: the oldest of a session's tasks that are over the limit. *)
Excess(ids) == Range(SubSeq(ids, 1, Len(ids) - MaxPerSession))

(* What trimLocked leaves of the list. *)
Newest(ids) == IF Len(ids) <= MaxPerSession THEN ids
               ELSE SubSeq(ids, Len(ids) - MaxPerSession + 1, Len(ids))

(* Slip: the list of the session is not looked at. *)
DropByIDOnly(ts) == bySess

(* dropLocked of every task of ts. *)
DropLocked(ts) == [s \in Sessions |-> Without(bySess[s], ts)]

-----------------------------------------------------------------------------
(* Handlers. *)

(* A search handler of a live session (LoadSession) calls fanout.Start: the *)
(* task polls from here on, before it is registered. Its name is a fresh     *)
(* one: the first that was not drawn yet.                                   *)
StartTask(t, s) ==
    /\ session[s] = "live"
    /\ \A u \in Tasks : u < t <=> owner[u] # NoSession
    /\ owner' = [owner EXCEPT ![t] = s]
    /\ polling' = polling \cup {t}
    /\ starting' = starting \cup {t}
    /\ UNCHANGED <<session, visiting, byID, bySess, age, stale>>

(* Slip: the entry is made without the time it was touched. *)
RegisterUntouched(t) ==
    LET s == owner[t]
        ids == Append(Without(bySess[s], Expired), t)
    IN  /\ t \in starting
        /\ starting' = starting \ {t}
        /\ byID' = ((byID \ Expired) \cup {t}) \ Excess(ids)
        /\ bySess' = [DropLocked(Expired) EXCEPT ![s] = Newest(ids)]
        /\ age' = [age EXCEPT ![t] = TaskTTL + 2]
        /\ stale' = stale \cup Excess(ids)
        /\ UNCHANGED <<session, visiting, owner, polling>>

(* Registry.Start under its lock: sweepLocked, whose result is not used,    *)
(* then the new entry, then trimLocked, whose result is cancelled.          *)
Register(t) ==
    LET s == owner[t]
        swept == Expired
        ids == Append(Without(bySess[s], swept), t)
        trimmed == Excess(ids)
    IN  /\ t \in starting
        /\ starting' = starting \ {t}
        /\ byID' = ((byID \ swept) \cup {t}) \ trimmed
        /\ bySess' = [DropLocked(swept) EXCEPT ![s] = Newest(ids)]
        /\ age' = [age EXCEPT ![t] = 0]
        /\ stale' = stale \cup trimmed
        /\ UNCHANGED <<session, visiting, owner, polling>>

(* LoadSession admits a request that will ask for a task. *)
Visit(s) ==
    /\ session[s] = "live"
    /\ visiting' = visiting \cup {s}
    /\ UNCHANGED <<session, owner, polling, starting, byID, bySess, age, stale>>

(* Get: another session's task, or an unknown one, is ErrNoTask. *)
Get(s, t) ==
    /\ s \in visiting
    /\ visiting' = visiting \ {s}
    /\ age' = IF t \in byID /\ owner[t] = s THEN [age EXCEPT ![t] = 0] ELSE age
    /\ UNCHANGED <<session, owner, polling, starting, byID, bySess, stale>>

(* Registry.Cancel: dropped under the lock, cancelled after it. *)
CancelTask(s, t) ==
    /\ session[s] = "live"
    /\ t \in byID /\ owner[t] = s
    /\ byID' = byID \ {t}
    /\ bySess' = DropLocked({t})
    /\ stale' = stale \cup {t}
    /\ UNCHANGED <<session, visiting, owner, polling, starting, age>>

(* FindCancel: Task.Cancel on a task that stays registered. *)
FindCancel(s, t) ==
    /\ session[s] = "live"
    /\ t \in byID \cap polling /\ owner[t] = s
    /\ polling' = polling \ {t}
    /\ age' = [age EXCEPT ![t] = 0]
    /\ UNCHANGED <<session, visiting, owner, starting, byID, bySess, stale>>

-----------------------------------------------------------------------------
(* Sessions, the sweeper and time. *)

(* Manager.remove: the session is dead; OnEnd is still to be called. *)
EndSession(s) ==
    /\ session[s] = "live"
    /\ session' = [session EXCEPT ![s] = "ending"]
    /\ UNCHANGED <<visiting, owner, polling, starting, byID, bySess, age, stale>>

(* Slip: the tasks of the session are dropped and go on polling. *)
CancelSessionDrops(s) ==
    /\ session[s] = "ending"
    /\ session' = [session EXCEPT ![s] = "ended"]
    /\ byID' = byID \ Range(bySess[s])
    /\ bySess' = [bySess EXCEPT ![s] = <<>>]
    /\ UNCHANGED <<visiting, owner, polling, starting, age, stale>>

(* CancelSession. *)
CancelSession(s) ==
    /\ session[s] = "ending"
    /\ session' = [session EXCEPT ![s] = "ended"]
    /\ stale' = stale \cup (Range(bySess[s]) \cap byID)
    /\ byID' = byID \ Range(bySess[s])
    /\ bySess' = [bySess EXCEPT ![s] = <<>>]
    /\ UNCHANGED <<visiting, owner, polling, starting, age>>

(* Sweep, once a minute from main.go. *)
Sweep ==
    /\ Expired # {}
    /\ byID' = byID \ Expired
    /\ bySess' = DropLocked(Expired)
    /\ stale' = stale \cup Expired
    /\ UNCHANGED <<session, visiting, owner, polling, starting, age>>

(* cancelAll, one task at a time and in no particular order. *)
CancelStale(t) ==
    /\ t \in stale
    /\ stale' = stale \ {t}
    /\ polling' = polling \ {t}
    /\ UNCHANGED <<session, visiting, owner, starting, byID, bySess, age>>

Tick ==
    /\ \E t \in byID : age[t] <= TaskTTL
    /\ age' = [t \in Tasks |->
                  IF t \in byID /\ age[t] <= TaskTTL THEN age[t] + 1 ELSE age[t]]
    /\ UNCHANGED <<session, visiting, owner, polling, starting, byID, bySess,
                   stale>>

(* Close, deferred by run() in main.go: nothing is left registered. *)
Close ==
    /\ byID # {}
    /\ stale' = stale \cup byID
    /\ byID' = {}
    /\ bySess' = [s \in Sessions |-> <<>>]
    /\ UNCHANGED <<session, visiting, owner, polling, starting, age>>

Next ==
    \/ \E t \in Tasks, s \in Sessions :
           StartTask(t, s) \/ Get(s, t) \/ CancelTask(s, t) \/ FindCancel(s, t)
    \/ \E t \in Tasks : Register(t) \/ CancelStale(t)
    \/ \E s \in Sessions : Visit(s) \/ EndSession(s) \/ CancelSession(s)
    \/ Sweep \/ Tick \/ Close

Spec == Init /\ [][Next]_vars

(* Time passes, the sweeper runs, and whoever dropped a task cancels it;    *)
(* handlers and session ends that began go on.                              *)
FairSpec ==
    /\ Spec
    /\ WF_vars(Tick) /\ WF_vars(Sweep)
    /\ \A t \in Tasks : WF_vars(Register(t)) /\ WF_vars(CancelStale(t))
    /\ \A s \in Sessions :
           /\ WF_vars(CancelSession(s))
           /\ WF_vars(\E t \in Tasks : Get(s, t))

-----------------------------------------------------------------------------
TypeOK ==
    /\ session \in [Sessions -> {"live", "ending", "ended"}]
    /\ visiting \in SUBSET Sessions
    /\ owner \in [Tasks -> Sessions \cup {NoSession}]
    /\ polling \in SUBSET Tasks
    /\ starting \in SUBSET Tasks
    /\ byID \in SUBSET Tasks
    /\ bySess \in [Sessions -> Seq(Tasks)]
    /\ age \in [Tasks -> 0 .. TaskTTL + 1]
    /\ stale \in SUBSET Tasks

(* The two indexes agree: the list of a session names exactly its own       *)
(* registered tasks, each once, and no more than MaxPerSession.  A task that *)
(* is missing from its list could never be trimmed or cancelled with its    *)
(* session.                                                                 *)
IndexesAgree ==
    /\ TypeOK
    /\ \A s \in Sessions :
           /\ IsInjective(bySess[s])
           /\ Range(bySess[s]) = {t \in byID : owner[t] = s}
           /\ Len(bySess[s]) <= MaxPerSession

Owned(t) == t \in byID \/ t \in starting \/ t \in stale

(* A poll that runs with no owner left to cancel it was one nobody had      *)
(* asked about for TaskTTL: no trim, cancel or session end loses a task.    *)
OnlyIdleTasksEscape ==
    \A t \in polling : ~Owned(t) => age[t] > TaskTTL

(* A new poll survives its own registration: what Start trims is older.     *)
NewestSurvives ==
    [][\A t \in Tasks : t \in starting /\ t \notin starting' => t \in byID']_vars

(* Whatever a session leaves registered when it ends, or registers late, is *)
(* dropped in the end: the sweep is the backstop for both.                  *)
EndedSessionIsSwept ==
    \A t \in Tasks :
        (t \in byID /\ session[owner[t]] = "ended") ~> (t \notin byID)

(* "The registry ... cancels whatever it drops": a running poll is always   *)
(* registered, about to be, or about to be cancelled. It does not hold.     *)
CancelsWhatItDrops == \A t \in polling : Owned(t)

(* "CancelSession ends every task of a session ... so a closed session      *)
(* leaves no poll running": once it has run, the session owns no poll.      *)
(* It does not hold of a poll that is registered afterwards.                *)
ClosedSessionOwnsNothing ==
    \A s \in Sessions : session[s] = "ended" => bySess[s] = <<>>

=============================================================================
