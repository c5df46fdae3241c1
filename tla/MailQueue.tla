------------------------------ MODULE MailQueue ------------------------------
(***************************************************************************)
(* Invitations by mail: the queue of internal/mail/queue.go, the send status  *)
(* internal/store/invites.go keeps, and the handlers of admin.go that call     *)
(* one and then the other.                                                  *)
(*                                                                         *)
(* A message is named by its invitation and the token it carries.  A sender   *)
(* is a goroutine that runs deliver: the worker, which takes one message at a  *)
(* time, or one started because the channel was full.  Delays are left out:    *)
(* a sleeping sender may go on at any time.                                  *)
(***************************************************************************)
EXTENDS Naturals, Sequences, FiniteSets, SequencesExt

CONSTANTS
    Invitations,
    MaxTokens,    \* bound: tokens issued for one invitation
    Capacity,     \* of the channel; 64 in the code
    MaxRetries    \* job.maxRetries

ASSUME BoundsAssumption ==
    MaxTokens \in Nat /\ Capacity \in Nat /\ MaxRetries \in Nat

VARIABLES
    smtp,       \* a relay is configured
    token,      \* [Invitations -> 0 .. MaxTokens], tokens issued so far
    status,     \* [Invitations -> Status], Invite.SendStatus
    owed,       \* messages a handler is about to hand to QueueInvite
    jobs,       \* Queue.jobs
    sender,     \* [Messages -> Sender], deliver of that message
    busy,       \* the message the worker delivers, if it does: {} or {m}
    worker,     \* the worker has not returned
    closed,     \* Queue.closed
    ctx         \* "live" or "canceled": the context of Start

mailVars == <<smtp, token, status, owed, jobs, sender, busy, worker,
              closed, ctx>>

Messages == Invitations \X (1 .. MaxTokens)
Status == {"none", "not_configured", "pending", "sent", "failed"}

(* at: what deliver does next; "record" with the outcome it will record. *)
Sender == [at : {"none", "config", "send", "sleep", "record"},
           attempt : 0 .. MaxRetries, outcome : Status, sent : BOOLEAN]
Unsent == [at |-> "none", attempt |-> 0, outcome |-> "none", sent |-> FALSE]

MailInit ==
    /\ smtp \in BOOLEAN
    /\ token = [i \in Invitations |-> 0]
    /\ status = [i \in Invitations |-> "none"]
    /\ owed = {} /\ jobs = <<>>
    /\ sender = [m \in Messages |-> Unsent]
    /\ busy = {} /\ worker = TRUE /\ closed = FALSE /\ ctx = "live"

-----------------------------------------------------------------------------
(* The administrator. *)

(* CreateInvite and ResendInvite of an invitation by mail: a new token. *)
Issue(i) ==
    /\ token[i] < MaxTokens
    /\ token' = [token EXCEPT ![i] = @ + 1]
    /\ status' = [status EXCEPT ![i] = IF smtp THEN "pending"
                                       ELSE "not_configured"]
    /\ owed' = owed \cup {<<i, token[i] + 1>>}
    /\ UNCHANGED <<smtp, jobs, sender, busy, worker, closed, ctx>>

Configure ==
    /\ smtp' = ~smtp
    /\ UNCHANGED <<token, status, owed, jobs, sender, busy, worker, closed, ctx>>

Deliver(m) == sender' = [sender EXCEPT ![m].at = "config"]

(* Slips: the channel is not bounded; the message goes to a goroutine and     *)
(* into the channel; it is dropped when the channel is full.                *)
EnqueueAlways(m) ==
    \/ closed /\ UNCHANGED <<jobs, sender>>
    \/ ~closed /\ jobs' = Append(jobs, m) /\ UNCHANGED sender

EnqueueTwice(m) ==
    \/ (closed \/ Len(jobs) >= Capacity) /\ UNCHANGED <<jobs, sender>>
    \/ /\ ~closed /\ Len(jobs) < Capacity
       /\ jobs' = Append(jobs, m)
       /\ Deliver(m)

EnqueueOrDrop(m) ==
    \/ (closed \/ Len(jobs) >= Capacity) /\ UNCHANGED <<jobs, sender>>
    \/ /\ ~closed /\ Len(jobs) < Capacity
       /\ jobs' = Append(jobs, m)
       /\ UNCHANGED sender

(* enqueue: dropped when closed, a goroutine of its own when full. *)
Enqueue(m) ==
    \/ closed /\ UNCHANGED <<jobs, sender>>
    \/ /\ ~closed /\ Len(jobs) < Capacity
       /\ jobs' = Append(jobs, m)
       /\ UNCHANGED sender
    \/ /\ ~closed /\ Len(jobs) >= Capacity
       /\ Deliver(m)
       /\ UNCHANGED jobs

(* QueueInvite, after the store was updated: it reads the settings anew. *)
QueueInvite(m) ==
    /\ m \in owed
    /\ owed' = owed \ {m}
    /\ \/ smtp /\ Enqueue(m)
       \/ ~smtp /\ UNCHANGED <<jobs, sender>>
    /\ UNCHANGED <<smtp, token, status, busy, worker, closed, ctx>>

-----------------------------------------------------------------------------
(* The worker. With its context cancelled and a message waiting it takes      *)
(* either branch of its select.                                             *)

Take ==
    /\ worker /\ busy = {} /\ jobs # <<>>
    /\ busy' = {Head(jobs)}
    /\ jobs' = Tail(jobs)
    /\ Deliver(Head(jobs))
    /\ UNCHANGED <<smtp, token, status, owed, worker, closed, ctx>>

WorkerReturns ==
    /\ worker /\ busy = {}
    /\ ctx = "canceled" \/ (closed /\ jobs = <<>>)
    /\ worker' = FALSE
    /\ UNCHANGED <<smtp, token, status, owed, jobs, sender, busy, closed, ctx>>

-----------------------------------------------------------------------------
(* deliver. *)

Advance(m, from, new) ==
    /\ sender[m].at = from
    /\ sender' = [sender EXCEPT ![m] = new]
    /\ UNCHANGED <<smtp, token, owed, jobs, worker, closed, ctx>>

Outcome(m, outcome) == [sender[m] EXCEPT !.at = "record", !.outcome = outcome]

(* loadConfig: it may also fail to read the relay's password. *)
LoadConfig(m) ==
    /\ \/ smtp /\ Advance(m, "config", [sender[m] EXCEPT !.at = "send"])
       \/ smtp /\ Advance(m, "config", Outcome(m, "failed"))
       \/ ~smtp /\ Advance(m, "config", Outcome(m, "not_configured"))
    /\ UNCHANGED <<status, busy>>

SendSucceeds(m) ==
    /\ Advance(m, "send", [Outcome(m, "sent") EXCEPT !.sent = TRUE])
    /\ UNCHANGED <<status, busy>>

(* Slip: the last attempt is recorded as sent, however it went. *)
SendGivesUp(m) ==
    /\ Advance(m, "send", IF sender[m].attempt < MaxRetries
                          THEN [sender[m] EXCEPT !.at = "sleep"]
                          ELSE Outcome(m, "sent"))
    /\ UNCHANGED <<status, busy>>

(* The relay refused, or the connection broke. *)
SendFails(m) ==
    /\ Advance(m, "send", IF sender[m].attempt < MaxRetries
                          THEN [sender[m] EXCEPT !.at = "sleep"]
                          ELSE Outcome(m, "failed"))
    /\ UNCHANGED <<status, busy>>

Wake(m) ==
    /\ Advance(m, "sleep", [sender[m] EXCEPT !.at = "config", !.attempt = @ + 1])
    /\ UNCHANGED <<status, busy>>

(* recordInvite, RecordInviteSend; the worker is free again. *)
Record(m) ==
    /\ Advance(m, "record", [sender[m] EXCEPT !.at = "none"])
    /\ status' = [status EXCEPT ![m[1]] = sender[m].outcome]
    /\ busy' = busy \ {m}

-----------------------------------------------------------------------------
(* Shutdown: SIGTERM cancels the context, and Close comes later. *)

Cancel ==
    /\ ctx = "live"
    /\ ctx' = "canceled"
    /\ UNCHANGED <<smtp, token, status, owed, jobs, sender, busy, worker, closed>>

CloseQueue ==
    /\ ctx = "canceled" /\ ~closed
    /\ closed' = TRUE
    /\ UNCHANGED <<smtp, token, status, owed, jobs, sender, busy, worker, ctx>>

Sending(m) ==
    \/ LoadConfig(m) \/ SendSucceeds(m) \/ SendFails(m) \/ Wake(m) \/ Record(m)

MailNext ==
    \/ \E i \in Invitations : Issue(i)
    \/ Configure
    \/ \E m \in Messages : QueueInvite(m) \/ Sending(m)
    \/ Take \/ WorkerReturns \/ Cancel \/ CloseQueue

MailSpec == MailInit /\ [][MailNext]_mailVars

(* A handler that updated the store goes on, goroutines run, Send returns      *)
(* (its connection has a deadline) and sleeps end.                           *)
FairSpec ==
    /\ MailSpec
    /\ WF_mailVars(Take) /\ WF_mailVars(WorkerReturns)
    /\ \A m \in Messages : WF_mailVars(QueueInvite(m)) /\ WF_mailVars(Sending(m))

-----------------------------------------------------------------------------
MailTypeOK ==
    /\ smtp \in BOOLEAN /\ closed \in BOOLEAN
    /\ token \in [Invitations -> 0 .. MaxTokens]
    /\ status \in [Invitations -> Status]
    /\ owed \in SUBSET Messages
    /\ jobs \in Seq(Messages) /\ Len(jobs) <= Capacity
    /\ sender \in [Messages -> Sender]
    /\ busy \in SUBSET Messages /\ worker \in BOOLEAN
    /\ ctx \in {"live", "canceled"}

(* A message is in one place: waiting for its handler, in the channel, or      *)
(* with one sender, and a message the relay took is not sent again: the        *)
(* goroutine started for a full channel never doubles the worker.             *)
Apart == \A m \in Messages :
    /\ m \in owed => m \notin Range(jobs) /\ sender[m].at = "none"
    /\ m \in owed \cup Range(jobs) => sender[m].at = "none" /\ ~sender[m].sent
    /\ sender[m].at \in {"config", "send", "sleep"} => ~sender[m].sent
OnePlace ==
    /\ MailTypeOK
    /\ IsInjective(jobs) /\ Apart
    /\ Cardinality(busy) <= 1

(* An invitation that shows as sent had a message delivered, whichever of      *)
(* its messages (a resend overtakes a slow one) was recorded last.            *)
SentWasSent ==
    \A i \in Invitations : status[i] = "sent" =>
        \E n \in 1 .. token[i] : sender[<<i, n>>].sent

(* "The work is not dropped": a message handed to the queue while the relay is  *)
(* set is taken, also when the channel is full, and one that was taken is       *)
(* delivered or its failure recorded, until the process is told to stop.       *)
Settled(m) == sender[m].at = "none" /\ sender[m].outcome # "none"
Accepted(m) == m \in Range(jobs) \/ sender[m].at # "none" \/ Settled(m)
TakenIsSettled ==
    \A m \in Messages :
        /\ (m \in owed) ~> (Accepted(m) \/ ~smtp \/ ctx = "canceled")
        /\ Accepted(m) ~> (Settled(m) \/ ctx = "canceled")

(* "Close stops accepting new jobs and drains the queue": when it has run and   *)
(* the worker is gone, nothing is left in the channel. It does not hold.       *)
CloseDrains == closed /\ ~worker => jobs = <<>>

(* "When SMTP is unset the store already marks the invite accordingly; nothing  *)
(* is queued": an invitation that shows as pending has its message somewhere.  *)
(* It does not hold when the relay is unset between the two.                  *)
PendingIsQueued ==
    ~closed => \A i \in Invitations :
        status[i] = "pending" =>
            LET m == <<i, token[i]>>
            IN  m \in owed \cup Range(jobs) \/ sender[m].at # "none"
=============================================================================
