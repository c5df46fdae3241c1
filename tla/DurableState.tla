----------------------------- MODULE DurableState -----------------------------
(***************************************************************************)
(* What internal/store promises of the state file, whatever happens to the   *)
(* process and to the volume: changes are applied one at a time, each with   *)
(* its audit record, to the one value that has reached the file; a caller    *)
(* is told of success only afterwards.  A power loss may take the volume     *)
(* back, but to a value it really held, and never past the last flush.       *)
(***************************************************************************)
EXTENDS Integers, Sequences, FiniteSets

CONSTANTS
    Changes,         \* the changes callers ask for, each asked once
    MaxAuditEntries

(* done: the changes applied; seq: State.AuditSeq; audit: State.Audit. *)
NewState == [done |-> {}, seq |-> 0, audit |-> <<>>]

(* The change with its audit record: the oldest records make room. *)
Newest(log) ==
    LET over == Len(log) - MaxAuditEntries
    IN  IF over > 0 THEN SubSeq(log, over + 1, Len(log)) ELSE log

Apply(v, c) ==
    [done |-> v.done \cup {c}, seq |-> v.seq + 1,
     audit |-> Newest(Append(v.audit, [seq |-> v.seq + 1, of |-> c]))]

VARIABLES
    value,     \* the state the file holds
    past,      \* values a power loss may take it back to
    acked      \* changes whose caller was told of success

durable == <<value, past, acked>>

Init == value = NewState /\ past = {NewState} /\ acked = {}

Commit(c) ==
    /\ c \notin value.done
    /\ value' = Apply(value, c)
    /\ past' = past \cup {value'}
    /\ UNCHANGED acked

Flush == past' = {value} /\ UNCHANGED <<value, acked>>

Acknowledge(c) ==
    /\ c \in value.done
    /\ acked' = acked \cup {c}
    /\ UNCHANGED <<value, past>>

PowerLoss ==
    /\ \E v \in past : value' = v /\ past' = {v}
    /\ UNCHANGED acked

Next ==
    \/ \E c \in Changes : Commit(c) \/ Acknowledge(c)
    \/ Flush \/ PowerLoss

Spec == Init /\ [][Next]_durable
=============================================================================
