------------------------------- MODULE FindPanel -------------------------------
(***************************************************************************)
(* The progress panel of a cross-source poll (handler/find.go), the page's side of     *)
(* it included (static/carrel.js, template/base.html): fragments are pushed over one    *)
(* event stream, or polled for when the stream does not open or breaks, and a retry     *)
(* or a cancellation answers with a fragment of its own.  Fragments that travel on      *)
(* different connections overtake each other.                                    *)
(*                                                                         *)
(* The poll is module FanoutTask, reduced to what a snapshot shows: the state of        *)
(* each source.  A fragment is the snapshot it was rendered from, and whether it         *)
(* carries the poller.                                                          *)
(***************************************************************************)
EXTENDS Naturals, Sequences

CONSTANTS
    Sources,
    MaxRetries, MaxBreaks, MaxLost,  \* bounds: retries, broken streams, lost answers
    MaxPipe,                         \* bound: events written and not read
    SlowRetries                      \* whether retries last until the stream's limit

VARIABLES
    task,     \* [Sources -> {"waiting", "done", "failed", "cancelled"}]
    mode,     \* Progress.SSE()
    panel,    \* what the page shows: [shows, poll], poll being the Poll of its request
    poller,   \* the fragment shown holds a poller that has not asked yet
    calls,    \* [{"poll", "post"} -> Call]
    conn,     \* the page's end: "none", "connecting", "open", "closed", "refused"
    pipe,     \* events on the way to the page
    stream,   \* the server's end: "none", "view", "select"
    ping,     \* a notification waits in the subscriber's channel
    grace,    \* the page waits for the stream's first word
    fallen,   \* dataset.pollFallback
    retries, breaks, lost,
    odd       \* what happened that the panel has no answer to

delivery == <<conn, pipe, stream, grace, fallen>>
counts == <<retries, breaks, lost>>
vars == <<task, mode, panel, poller, calls, delivery, ping, counts, odd>>

NoCall == [at |-> "none", src |-> "none", shows |-> <<>>, poll |-> FALSE]

Running(snapshot) == \E s \in Sources : snapshot[s] = "waiting"

(* startFind: the task is started before the page is rendered. *)
Init ==
    /\ task = [s \in Sources |-> "waiting"]
    /\ mode \in {"sse", "poll"}
    /\ panel = [shows |-> task, poll |-> FALSE]
    /\ poller = (mode = "poll")
    /\ calls = [c \in {"poll", "post"} |-> NoCall]
    /\ conn = (IF mode = "sse" THEN "connecting" ELSE "none")
    /\ pipe = <<>> /\ stream = "none" /\ ping = FALSE
    /\ grace = (mode = "sse") /\ fallen = FALSE
    /\ retries = 0 /\ breaks = 0 /\ lost = 0 /\ odd = {}

(* Task.notify reaches the stream that subscribed. *)
Notify == ping' = (ping \/ stream # "none")

(* A source answers, fails or runs out of time. *)
Settle(s) ==
    /\ task[s] = "waiting"
    /\ \E result \in {"done", "failed"} : task' = [task EXCEPT ![s] = result]
    /\ Notify
    /\ UNCHANGED <<mode, panel, poller, calls, delivery, counts, odd>>

-----------------------------------------------------------------------------
(* FindStream *)

Subscribe ==
    /\ conn = "connecting"
    /\ conn' = "open" /\ stream' = "view" /\ ping' = FALSE
    /\ UNCHANGED <<task, mode, panel, poller, calls, pipe, grace, fallen, counts, odd>>

(* The events "results" and "done". *)
Results == [end |-> FALSE, shows |-> task]
End == [end |-> TRUE, shows |-> <<>>]

(* Slip: the stream ends with the poll, and the last fragment is not sent. *)
ViewWhileRunning ==
    /\ stream = "view" /\ Len(pipe) < MaxPipe
    /\ IF Running(task)
       THEN pipe' = Append(pipe, Results) /\ stream' = "select"
       ELSE pipe' = Append(pipe, End) /\ stream' = "none"
    /\ ping' = (ping /\ Running(task))
    /\ UNCHANGED <<task, mode, panel, poller, calls, conn, grace, fallen, counts, odd>>

(* One fragment at a time, and "done" after the last. *)
View ==
    /\ stream = "view" /\ Len(pipe) < MaxPipe
    /\ IF Running(task)
       THEN pipe' = Append(pipe, Results) /\ stream' = "select"
       ELSE pipe' = pipe \o <<Results, End>> /\ stream' = "none"
    /\ ping' = (ping /\ Running(task))
    /\ UNCHANGED <<task, mode, panel, poller, calls, conn, grace, fallen, counts, odd>>

Wake ==
    /\ stream = "select" /\ ping
    /\ stream' = "view" /\ ping' = FALSE
    /\ UNCHANGED <<task, mode, panel, poller, calls, conn, pipe, grace, fallen, counts, odd>>

(* streamLimit is past any poll's total, but a retry is a poll of its own. *)
Deadline ==
    /\ SlowRetries
    /\ stream = "select" /\ retries > 0 /\ Len(pipe) < MaxPipe
    /\ pipe' = Append(pipe, End) /\ stream' = "none" /\ ping' = FALSE
    /\ odd' = odd \cup {"deadline"}
    /\ UNCHANGED <<task, mode, panel, poller, calls, conn, grace, fallen, counts>>

-----------------------------------------------------------------------------
(* The page. *)

Streams(poll) == mode = "sse" /\ ~poll

(* Every swap replaces the poller, too. *)
Swap(shows, poll) ==
    /\ panel' = [shows |-> shows, poll |-> poll]
    /\ poller' = (Running(shows) /\ ~Streams(poll))
    /\ grace' = FALSE

(* A finished fragment a retry has overtaken; the answer to a button that relies on a    *)
(* stream that ended. *)
Overtaken(shows) == IF ~Running(shows) /\ shows # task THEN {"overtaken"} ELSE {}
Unheard(c) ==
    IF c = "post" /\ Running(calls[c].shows) /\ Streams(calls[c].poll)
       /\ stream = "none" /\ conn # "connecting"
    THEN {"unheard"} ELSE {}

Ask(c, src) == calls' = [calls EXCEPT ![c] = [NoCall EXCEPT !.at = "asked", !.src = src,
                                                 !.poll = (c = "poll") \/ panel.poll]]

(* Slip: the fallback asks for fragments that wait for the stream. *)
AskForTheStream(c, src) ==
    calls' = [calls EXCEPT ![c] = [NoCall EXCEPT !.at = "asked", !.src = src,
                                                 !.poll = panel.poll]]

Receive ==
    /\ conn = "open" /\ pipe # <<>>
    /\ pipe' = Tail(pipe)
    /\ IF Head(pipe).end THEN conn' = "closed" /\ UNCHANGED <<panel, poller, grace>>
       ELSE Swap(Head(pipe).shows, FALSE) /\ UNCHANGED conn
    /\ odd' = IF Head(pipe).end THEN odd ELSE odd \cup Overtaken(Head(pipe).shows)
    /\ UNCHANGED <<task, mode, calls, stream, ping, fallen, counts>>

(* fallback *)
Fallback ==
    IF fallen THEN UNCHANGED <<calls, fallen>>
    ELSE Ask("poll", "none") /\ fallen' = TRUE

(* The connection breaks or is refused: the browser opens a broken one again. *)
Break ==
    /\ conn \in {"connecting", "open"} /\ breaks < MaxBreaks
    /\ fallen \/ calls["poll"] = NoCall
    /\ conn' \in {"connecting", "refused"}
    /\ pipe' = <<>> /\ stream' = "none" /\ ping' = FALSE
    /\ Fallback
    /\ breaks' = breaks + 1
    /\ odd' = IF fallen /\ conn' = "refused" THEN odd \cup {"refused"} ELSE odd
    /\ UNCHANGED <<task, mode, panel, poller, grace, retries, lost>>

(* watch: nothing was heard for three seconds, so that the page shows a running poll. *)
Grace ==
    /\ grace
    /\ grace' = FALSE
    /\ Fallback
    /\ UNCHANGED <<task, mode, panel, poller, conn, pipe, stream, ping, counts, odd>>

PollerFires ==
    /\ poller /\ calls["poll"] = NoCall
    /\ Ask("poll", "none")
    /\ poller' = FALSE
    /\ UNCHANGED <<task, mode, panel, delivery, ping, counts, odd>>

(* The buttons: FindRetry on a source that failed, FindCancel while the poll runs. *)
Click(s) ==
    /\ calls["post"] = NoCall
    /\ \/ s \in Sources /\ panel.shows[s] = "failed" /\ retries < MaxRetries
       \/ s = "cancel" /\ Running(panel.shows)
    /\ Ask("post", s)
    /\ UNCHANGED <<task, mode, panel, poller, delivery, ping, counts, odd>>

-----------------------------------------------------------------------------
(* The answers: FindResults, FindRetry, FindCancel. *)

Retried(s) == [task EXCEPT ![s] = "waiting"]
Cancelled == [s \in Sources |-> IF task[s] = "waiting" THEN "cancelled" ELSE task[s]]

(* Task.Retry takes a source of a poll that was not cancelled. *)
CanRetry(s) == task[s] = "failed" /\ \A q \in Sources : task[q] # "cancelled"

Answer(c) ==
    LET call == calls[c]
        after == IF call.src \in Sources
                 THEN IF CanRetry(call.src) THEN Retried(call.src) ELSE task
                 ELSE IF call.src = "cancel" THEN Cancelled ELSE task
    IN /\ call.at = "asked"
       /\ task' = after
       /\ IF after # task THEN Notify ELSE UNCHANGED ping
       /\ calls' = [calls EXCEPT ![c].at = "answered", ![c].shows = after]
       /\ retries' = IF call.src \in Sources THEN retries + 1 ELSE retries
       /\ UNCHANGED <<mode, panel, poller, delivery, breaks, lost, odd>>

Arrive(c) ==
    /\ calls[c].at = "answered"
    /\ Swap(calls[c].shows, calls[c].poll)
    /\ calls' = [calls EXCEPT ![c] = NoCall]
    /\ odd' = odd \cup Overtaken(calls[c].shows) \cup Unheard(c)
    /\ UNCHANGED <<task, mode, conn, pipe, stream, fallen, ping, counts>>

(* htmx leaves the page as it is when a request fails. *)
Lose(c) ==
    /\ calls[c] # NoCall /\ lost < MaxLost
    /\ calls' = [calls EXCEPT ![c] = NoCall]
    /\ lost' = lost + 1 /\ odd' = odd \cup {"lost"}
    /\ UNCHANGED <<task, mode, panel, poller, delivery, ping, retries, breaks>>

Next ==
    \/ Subscribe \/ View \/ Wake \/ Deadline \/ Receive \/ Break \/ Grace \/ PollerFires
    \/ \E s \in Sources : Settle(s)
    \/ \E s \in Sources \cup {"cancel"} : Click(s)
    \/ \E c \in {"poll", "post"} : Answer(c) \/ Arrive(c) \/ Lose(c)

Spec == Init /\ [][Next]_vars

-----------------------------------------------------------------------------
(* Something is on its way to the page, or the page is going to ask. *)
Followed ==
    \/ poller \/ conn \in {"connecting", "open"}
    \/ \E c \in {"poll", "post"} : calls[c] # NoCall

(* A page nothing is on its way to shows the poll as it is, whichever way its          *)
(* fragments came: unless an answer was lost, a reopened stream refused after the        *)
(* fallback was spent, the stream's limit reached during a retry, a finished fragment    *)
(* overtaken by a retry, or a retry made when the stream had ended.                   *)
PanelEndsRight == ~Followed /\ odd = {} => panel.shows = task

(* Does not hold.  The user is never left with an indicator that does not end            *)
(* (docs/carrel-spec.md:460).  A source that failed is retried after the poll was         *)
(* done: its stream was closed by the "done" event, the fragment FindRetry answers with    *)
(* has no poller because the page streams, and "Waiting" stays.                       *)
NeverLeftWaiting == Running(panel.shows) => Followed
===============================================================================
