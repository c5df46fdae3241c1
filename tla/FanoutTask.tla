----------------------------- MODULE FanoutTask -----------------------------
(***************************************************************************)
(* One fan-out poll of internal/fanout/fanout.go: a goroutine per source,   *)
(* the overall ceiling, retries, cancellation, and the event-stream readers *)
(* (FindStream of internal/web/handler/find.go) that follow the task.       *)
(*                                                                         *)
(* A critical section of Task.mu is one step; everything between two of    *)
(* them may interleave.  A "run" <<s, n>> is one goroutine polling source  *)
(* s: n = 0 is the sweep started by Start, n > 0 the n-th Retry of the task. *)
(* Records, durations and error wording are abstracted to how a query       *)
(* ended. A goroutine that waits for its next critical section decides there *)
(* how its wait or its query ended: a context that has ended stays ended, so *)
(* whatever it might have seen before it can still see then.  What has the    *)
(* name of an operator of FanoutRegistry is called after the task: FanoutProofs *)
(* is about both.                                                            *)
(***************************************************************************)
EXTENDS Naturals, FiniteSets

CONSTANTS
    Sources,      \* the sources one task polls
    Parallel,     \* Options.Parallel: slots of the sweep's gate
    MaxRetries,   \* bound: presses of the retry button
    Readers       \* the event streams opened on the task, one per tab

ASSUME SourcesAssumption == Sources # {} /\ IsFiniteSet(Sources)
ASSUME ParallelAssumption == Parallel \in Nat \ {0}
ASSUME RetriesAssumption == MaxRetries \in Nat

VARIABLES
    state,        \* [Sources -> State], sourceState.state
    inFlight,     \* Task.inFlight
    cancelled,    \* Task.cancelled
    expired,      \* Task.expired
    rootCtx,      \* "live" or "canceled"
    runCtx,       \* "live", "canceled" or "deadline": the sweep's context
    watching,     \* the watchCeiling goroutine has not returned
    pc,           \* [Runs -> Pc], where each polling goroutine is
    slots,        \* runs of the sweep that hold a slot of the gate
    owed,         \* notify calls outside the runs that are still to be made
    token,        \* [Readers -> BOOLEAN], its channel holds a token
    stream        \* [Readers -> ...], where its FindStream is

ctxVars == <<rootCtx, runCtx>>
taskVars == <<state, inFlight, cancelled, expired>>
runVars == <<pc, slots>>
readerVars == <<owed, token, stream>>
pollVars == <<taskVars, ctxVars, watching, runVars, readerVars>>

Running == {"waiting", "querying"}
TerminalStates == {"done", "empty", "error", "timeout", "cancelled"}
State == Running \cup TerminalStates
Pc == {"idle", "queued", "begun", "querying", "finished", "over"}

Runs == Sources \X (0 .. MaxRetries)
SweepRuns == Sources \X {0}

Outstanding(st) == {s \in Sources : st[s] \in Running}

(* settleLocked: recount what is running; when nothing is, release the      *)
(* ceiling's timer.                                                         *)
SettleLocked(st) ==
    LET running == Cardinality(Outstanding(st))
    IN  /\ state' = st
        /\ inFlight' = running
        /\ runCtx' = IF running = 0 /\ runCtx = "live"
                     THEN "canceled" ELSE runCtx

(* notify: every subscribed channel that is empty receives a token. *)
Notify ==
    token' = [d \in Readers |-> token[d] \/ stream[d] \in {"view", "wait"}]

Move(r, from, to) == pc[r] = from /\ pc' = [pc EXCEPT ![r] = to]

RunContext(r) == IF r \in SweepRuns THEN runCtx ELSE rootCtx

TaskInit ==
    /\ state = [s \in Sources |-> "waiting"]
    /\ inFlight = Cardinality(Sources)
    /\ cancelled = FALSE /\ expired = FALSE
    /\ rootCtx = "live" /\ runCtx = "live"
    /\ watching = TRUE
    /\ pc = [r \in Runs |-> IF r \in SweepRuns THEN "queued" ELSE "idle"]
    /\ slots = {}
    /\ owed = {}
    /\ token = [d \in Readers |-> FALSE]
    /\ stream = [d \in Readers |-> "off"]

-----------------------------------------------------------------------------
(* The polling goroutines. *)

(* How a query, or the wait for the gate, may have ended: a deadline may     *)
(* always pass in a query, a cancellation needs a cancelled context.        *)
Endings(r) ==
    IF pc[r] = "queued" THEN {RunContext(r)} \ {"live"}
    ELSE {"records", "nothing", "refused", "deadline"}
             \cup ({RunContext(r)} \ {"live"})

(* Slip: a cancelled query passes for an answer nobody knows. *)
OutcomeUnnamed(how) ==
    CASE how = "records" -> "done"
      [] how = "nothing" -> "empty"
      [] how = "refused" -> "error"
      [] how = "deadline" -> "timeout"
      [] how = "canceled" -> how

Outcome(how) ==
    CASE how = "records" -> "done"
      [] how = "nothing" -> "empty"
      [] how = "refused" -> "error"
      [] how = "deadline" -> "timeout"
      [] how = "canceled" -> IF ~cancelled /\ expired
                             THEN "timeout" ELSE "cancelled"

(* Slip: begin does not look at Task.cancelled. *)
BeginAlways(r) ==
    /\ Move(r, "queued", "begun")
    /\ r \in SweepRuns => Cardinality(slots) < Parallel
    /\ slots' = IF r \in SweepRuns THEN slots \cup {r} ELSE slots
    /\ state' = [state EXCEPT ![r[1]] = "querying"]
    /\ UNCHANGED <<inFlight, cancelled, expired, ctxVars, watching, readerVars>>

(* run and begin: the gate lets the goroutine in (select may choose it       *)
(* although the context ended; a retry has a gate of its own), and the task *)
(* is not cancelled.                                                        *)
Begin(r) ==
    /\ ~cancelled
    /\ Move(r, "queued", "begun")
    /\ r \in SweepRuns => Cardinality(slots) < Parallel
    /\ slots' = IF r \in SweepRuns THEN slots \cup {r} ELSE slots
    /\ state' = [state EXCEPT ![r[1]] = "querying"]
    /\ UNCHANGED <<inFlight, cancelled, expired, ctxVars, watching, readerVars>>

(* run and begin, on a task cancelled before this source's turn came. *)
BeginCancelled(r) ==
    /\ cancelled
    /\ Move(r, "queued", "finished")
    /\ r \in SweepRuns => Cardinality(slots) < Parallel
    /\ slots' = IF r \in SweepRuns THEN slots \cup {r} ELSE slots
    /\ SettleLocked([state EXCEPT ![r[1]] = "cancelled"])
    /\ UNCHANGED <<cancelled, expired, rootCtx, watching, readerVars>>

(* begin notifies, and the query is sent. *)
Query(r) ==
    /\ Move(r, "begun", "querying")
    /\ Notify
    /\ UNCHANGED <<taskVars, ctxVars, watching, slots, owed, stream>>

(* Slip: finish sets the state and does not settle. *)
AnswerUnsettled(r) ==
    /\ Move(r, "querying", "finished")
    /\ \E how \in Endings(r) :
           state' = [state EXCEPT ![r[1]] = Outcome(how)]
    /\ UNCHANGED <<inFlight, cancelled, expired, ctxVars, watching, slots,
                   readerVars>>

(* finish, after the query returned. *)
Answer(r) ==
    /\ Move(r, "querying", "finished")
    /\ \E how \in Endings(r) :
           SettleLocked([state EXCEPT ![r[1]] = Outcome(how)])
    /\ UNCHANGED <<cancelled, expired, rootCtx, watching, slots, readerVars>>

(* Slip: run returns without finish when the wait for the gate is cut short. *)
GiveUpSilently(r) ==
    /\ Move(r, "queued", "over")
    /\ Endings(r) # {}
    /\ UNCHANGED <<taskVars, ctxVars, watching, slots, readerVars>>

(* finish, after the context ended during the wait for the gate. *)
GiveUp(r) ==
    /\ Move(r, "queued", "finished")
    /\ \E how \in Endings(r) :
           SettleLocked([state EXCEPT ![r[1]] = Outcome(how)])
    /\ UNCHANGED <<cancelled, expired, rootCtx, watching, slots, readerVars>>

(* Slip: nobody is told of the last change. *)
LeaveSilently(r) ==
    /\ Move(r, "finished", "over")
    /\ slots' = slots \ {r}
    /\ UNCHANGED <<taskVars, ctxVars, watching, readerVars>>

(* finish (or begin) notifies; the deferred calls release the slot. *)
Leave(r) ==
    /\ Move(r, "finished", "over")
    /\ Notify
    /\ slots' = slots \ {r}
    /\ UNCHANGED <<taskVars, ctxVars, watching, owed, stream>>

Goroutine(r) ==
    \/ Begin(r) \/ BeginCancelled(r) \/ GiveUp(r) \/ Query(r) \/ Leave(r)

-----------------------------------------------------------------------------
(* The ceiling. *)

(* The timer of context.WithTimeout(root, TotalTimeout) fires. *)
CeilingPasses ==
    /\ runCtx = "live"
    /\ runCtx' = "deadline"
    /\ UNCHANGED <<taskVars, rootCtx, watching, runVars, readerVars>>

(* watchCeiling wakes up because the sweep was released or cancelled. *)
WatchReturns ==
    /\ watching /\ runCtx = "canceled"
    /\ watching' = FALSE
    /\ UNCHANGED <<taskVars, ctxVars, runVars, readerVars>>

(* watchCeiling marks whatever has not answered. *)
WatchCeiling ==
    LET marked == [s \in Sources |-> IF state[s] \in Running
                                     THEN "timeout" ELSE state[s]]
        changed == Outstanding(state) # {}
    IN  /\ watching /\ runCtx = "deadline"
        /\ watching' = FALSE
        /\ expired' = TRUE
        /\ IF changed
           THEN SettleLocked(marked)
           ELSE UNCHANGED <<state, inFlight, runCtx>>
        /\ owed' = IF changed THEN owed \cup {"ceiling"} ELSE owed
        /\ UNCHANGED <<cancelled, rootCtx, runVars, token, stream>>

-----------------------------------------------------------------------------
(* The person's handlers. *)

(* Retry: the source goes back to waiting and a goroutine of its own, under *)
(* the task's root context, polls it again.                                 *)
Retry(s) ==
    /\ ~cancelled
    /\ state[s] \in TerminalStates
    /\ \E n \in 1 .. MaxRetries :
           /\ n = 1 + Cardinality({r \in Runs \ SweepRuns : pc[r] # "idle"})
           /\ Move(<<s, n>>, "idle", "queued")
    /\ state' = [state EXCEPT ![s] = "waiting"]
    /\ inFlight' = Cardinality(Outstanding(state'))
    /\ owed' = owed \cup {"retry"}
    /\ UNCHANGED <<cancelled, expired, ctxVars, watching, slots,
                   token, stream>>

(* Cancel, its critical section. *)
Cancel ==
    /\ cancelled' = TRUE
    /\ SettleLocked([s \in Sources |-> IF state[s] \in Running
                                       THEN "cancelled" ELSE state[s]])
    /\ owed' = owed \cup {"cancel"}
    /\ UNCHANGED <<expired, rootCtx, watching, runVars, token, stream>>

(* Cancel, after the lock: rootCancel once, then notify. *)
CancelRoot ==
    /\ "cancel" \in owed
    /\ rootCtx' = "canceled"
    /\ runCtx' = IF runCtx = "live" THEN "canceled" ELSE runCtx
    /\ owed' = owed \ {"cancel"}
    /\ Notify
    /\ UNCHANGED <<taskVars, watching, runVars, stream>>

(* The notify at the end of Retry and of watchCeiling. *)
NotifyOwed ==
    /\ \E who \in owed \ {"cancel"} : owed' = owed \ {who}
    /\ Notify
    /\ UNCHANGED <<taskVars, ctxVars, watching, runVars, stream>>

-----------------------------------------------------------------------------
(* FindStream: subscribe, render, then render again after every token until *)
(* a snapshot says the task is no longer running.                           *)

StreamStep(d, from, to) ==
    /\ stream[d] = from
    /\ stream' = [stream EXCEPT ![d] = to]
    /\ UNCHANGED <<taskVars, ctxVars, watching, runVars, owed>>

StreamOpens(d) == StreamStep(d, "off", "view") /\ UNCHANGED token

StreamRenders(d) ==
    /\ StreamStep(d, "view", IF inFlight > 0 THEN "wait" ELSE "ended")
    /\ UNCHANGED token

StreamWakes(d) ==
    /\ token[d]
    /\ StreamStep(d, "wait", "view")
    /\ token' = [token EXCEPT ![d] = FALSE]

-----------------------------------------------------------------------------
Reader(d) == StreamRenders(d) \/ StreamWakes(d)
Watch == WatchReturns \/ WatchCeiling

TaskNext ==
    \/ \E r \in Runs : Goroutine(r) \/ Answer(r)
    \/ CeilingPasses \/ Watch
    \/ \E s \in Sources : Retry(s)
    \/ Cancel \/ CancelRoot \/ NotifyOwed
    \/ \E d \in Readers : StreamOpens(d) \/ Reader(d)

TaskSpec == TaskInit /\ [][TaskNext]_pollVars

(* Goroutines that can move do, a query returns (every one of them has a    *)
(* context that ends by itself, which the comment of type Query tells it to *)
(* respect), the timer fires, and callers that took the lock notify.        *)
TaskFairSpec ==
    /\ TaskSpec
    /\ \A r \in Runs : WF_pollVars(Goroutine(r)) /\ WF_pollVars(Answer(r))
    /\ WF_pollVars(CeilingPasses) /\ WF_pollVars(Watch)
    /\ WF_pollVars(CancelRoot) /\ WF_pollVars(NotifyOwed)
    /\ \A d \in Readers : WF_pollVars(Reader(d))

-----------------------------------------------------------------------------
TaskTypeOK ==
    /\ state \in [Sources -> State]
    /\ inFlight \in Nat
    /\ cancelled \in BOOLEAN /\ expired \in BOOLEAN
    /\ rootCtx \in {"live", "canceled"}
    /\ runCtx \in {"live", "canceled", "deadline"}
    /\ watching \in BOOLEAN
    /\ pc \in [Runs -> Pc]
    /\ slots \in SUBSET SweepRuns
    /\ owed \in SUBSET {"retry", "ceiling", "cancel"}
    /\ token \in [Readers -> BOOLEAN]
    /\ stream \in [Readers -> {"off", "view", "wait", "ended"}]

(* "Every exit path goes through finish, so a source cannot be left in      *)
(* querying whatever the query does": a source that still shows as running  *)
(* has a goroutine that will finish it, across late answers, the ceiling,   *)
(* retries and cancellation.                                                *)
Live(r) == pc[r] \notin {"idle", "finished", "over"}
NoAbandonedSource ==
    \A s \in Sources : state[s] \in Running =>
        \E n \in 0 .. MaxRetries : Live(<<s, n>>)

(* A task that reads as running really has a source outstanding; a count    *)
(* left too high would keep every indicator turning for ever.               *)
NeverOverReports ==
    /\ TaskTypeOK
    /\ inFlight <= Cardinality(Outstanding(state))

(* Cancel is final: from then on no source of the task is waiting or being  *)
(* polled, whichever goroutines were between the gate and begin.            *)
CancelIsFinal == cancelled => inFlight = 0 /\ Outstanding(state) = {}

(* Every task comes to rest: it reads as finished, for good once no further *)
(* retry is made.                                                           *)
ComesToRest == <>[](inFlight = 0)

(* Every open stream is closed: no wakeup is lost between a state change,   *)
(* its notify and the reader's next snapshot.                               *)
StreamEnds ==
    \A d \in Readers : (stream[d] # "off") ~> (stream[d] = "ended")

(* Two properties that do not hold.                                          *)
(*                                                                         *)
(* "The ceiling has to be enforced even if every goroutine is stuck": once   *)
(* it was, and nobody pressed retry, the task reads as finished.            *)
CeilingEnforced ==
    expired /\ (\A r \in Runs \ SweepRuns : pc[r] = "idle") => inFlight = 0

(* "Terminal reports whether a state can still change on its own": a        *)
(* terminal state is only ever left by Retry.                               *)
TerminalIsStable ==
    [][\A s \in Sources : state[s] \in TerminalStates =>
           state'[s] = state[s] \/ state'[s] = "waiting"]_pollVars
=============================================================================
