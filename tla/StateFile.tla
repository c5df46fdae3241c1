------------------------------ MODULE StateFile ------------------------------
(***************************************************************************)
(* How internal/store/store.go keeps the state: Store.update clones the      *)
(* state, applies the change and its audit record (audit.go), writes a       *)
(* temporary file, syncs it, renames it over the old one, flushes the        *)
(* directory and only then makes it visible.  The process may die between    *)
(* any two of these steps, every one of them may fail, and a power loss      *)
(* takes with it whatever was not synced.                                   *)
(*                                                                         *)
(* The whole of update holds Store.mu, so one change is under way at a time. *)
(* What a change does to the accounts is module AccountStore.               *)
(***************************************************************************)
EXTENDS Integers, Sequences, FiniteSets

CONSTANTS
    Changes,          \* the changes callers ask for, each asked once
    MaxAuditEntries,
    LateUpdates       \* whether an update may come after Store.Close

ASSUME AuditAssumption == MaxAuditEntries \in Nat \ {0}
ASSUME LateAssumption == LateUpdates \in BOOLEAN

VARIABLES
    process,   \* "up", "closed" (Store.Close has run) or "down"
    mem,       \* Store.state
    at,        \* the step update is about to take, "idle" between updates
    change,    \* the change it is about, when at # "idle"
    next,      \* the state it is writing
    file,      \* what a process reads under the state file's name
    onDisk,    \* what that name may hold after a power loss
    tmpSafe,   \* the temporary file's data has been synced
    tried,     \* changes that were begun
    acked      \* changes whose update returned nil

volume == <<file, onDisk>>
fileVars == <<process, mem, at, change, next, file, onDisk, tmpSafe, tried, acked>>

Steps == {"idle", "create", "write", "sync", "rename", "flush", "swap"}

NewState == [done |-> {}, seq |-> 0, audit |-> <<>>]

(* A state file: the key it is sealed under and the state it stands for.     *)
Sealed(key, v) == [key |-> key, value |-> v]
Absent == Sealed("none", NewState)    \* no file: an empty store
Torn == Sealed("torn", NewState)      \* its data never reached the volume
Readable(f) == f.key \in {"server", "none"}

(* persist seals under the server key, which Store.Close has zeroed. *)
Key == IF process = "closed" THEN "zeroed" ELSE "server"

(* Slip: one record too many is kept. *)
NewestOffByOne(log) ==
    LET over == Len(log) - MaxAuditEntries
    IN  IF over > 0 THEN SubSeq(log, over, Len(log)) ELSE log

(* appendAudit: the oldest entries make room for the new one. *)
Newest(log) ==
    LET over == Len(log) - MaxAuditEntries
    IN  IF over > 0 THEN SubSeq(log, over + 1, Len(log)) ELSE log

(* Slip: records are numbered downwards. *)
AppendDownwards(v, c) ==
    [v EXCEPT !.seq = @ - 1,
              !.audit = Newest(Append(@, [seq |-> v.seq - 1, of |-> c]))]

AppendAudit(v, c) ==
    [v EXCEPT !.seq = @ + 1,
              !.audit = Newest(Append(@, [seq |-> v.seq + 1, of |-> c]))]

FileInit ==
    /\ process = "down" /\ mem = NewState
    /\ at = "idle" /\ change \in Changes /\ next = NewState
    /\ file = Absent /\ onDisk = {Absent} /\ tmpSafe = FALSE
    /\ tried = {} /\ acked = {}

-----------------------------------------------------------------------------
(* load, in OpenWith: a missing file is an empty store. *)
Open ==
    /\ process = "down" /\ Readable(file)
    /\ process' = "up"
    /\ mem' = file.value
    /\ UNCHANGED <<at, change, next, volume, tmpSafe, tried, acked>>

(* Slip: the change is made to the state readers see. *)
UpdateInPlace(c) ==
    /\ process = "up" \/ (process = "closed" /\ LateUpdates)
    /\ at = "idle" /\ c \notin tried
    /\ at' = "create" /\ change' = c
    /\ next' = AppendAudit([mem EXCEPT !.done = @ \cup {c}], c)
    /\ mem' = next'
    /\ tmpSafe' = FALSE
    /\ tried' = tried \cup {c}
    /\ UNCHANGED <<process, volume, acked>>

(* update: a clone of the state, the change and its audit record. *)
Update(c) ==
    /\ process = "up" \/ (process = "closed" /\ LateUpdates)
    /\ at = "idle" /\ c \notin tried
    /\ at' = "create" /\ change' = c
    /\ next' = AppendAudit([mem EXCEPT !.done = @ \cup {c}], c)
    /\ tmpSafe' = FALSE
    /\ tried' = tried \cup {c}
    /\ UNCHANGED <<process, mem, volume, acked>>

Proceed(from, to) ==
    /\ process # "down"
    /\ at = from /\ at' = to
    /\ UNCHANGED <<process, change, next, tried>>

(* os.CreateTemp and Write: nothing reads the file yet. *)
CreateTemp == Proceed("create", "write") /\ UNCHANGED <<mem, volume, tmpSafe, acked>>
Write == Proceed("write", "sync") /\ UNCHANGED <<mem, volume, tmpSafe, acked>>

(* Slip: the temporary file is closed without a sync. *)
CloseUnsynced == Proceed("sync", "rename") /\ UNCHANGED <<mem, volume, tmpSafe, acked>>

Sync ==
    /\ Proceed("sync", "rename")
    /\ tmpSafe' = TRUE
    /\ UNCHANGED <<mem, volume, acked>>

Rename ==
    LET new == Sealed(Key, next)
    IN  /\ Proceed("rename", "flush")
        /\ file' = new
        /\ onDisk' = onDisk \cup {IF tmpSafe THEN new ELSE Torn}
        /\ UNCHANGED <<mem, tmpSafe, acked>>

(* syncDir is best effort: it may not be possible at all. *)
SyncDir ==
    /\ Proceed("flush", "swap")
    /\ onDisk' \in {onDisk, {IF tmpSafe THEN file ELSE Torn}}
    /\ UNCHANGED <<mem, file, tmpSafe, acked>>

(* The new state becomes visible and update returns nil. *)
Swap ==
    /\ Proceed("swap", "idle")
    /\ mem' = next
    /\ acked' = acked \cup {change}
    /\ UNCHANGED <<volume, tmpSafe>>

(* Slip: the error is not returned to the caller. *)
FailQuietly ==
    /\ at \in {"create", "write", "sync", "rename"}
    /\ Proceed(at, "idle")
    /\ acked' = acked \cup {change}
    /\ UNCHANGED <<mem, volume, tmpSafe>>

(* Any step up to the rename may fail: the temporary file is removed and    *)
(* the error returned.                                                      *)
Fail ==
    /\ at \in {"create", "write", "sync", "rename"}
    /\ Proceed(at, "idle")
    /\ UNCHANGED <<mem, volume, tmpSafe, acked>>

(* Store.Close waits for the lock. *)
Close ==
    /\ process = "up" /\ at = "idle"
    /\ process' = "closed"
    /\ UNCHANGED <<mem, at, change, next, volume, tmpSafe, tried, acked>>

(* The process exits or is killed; what it renamed is still in the cache of *)
(* the operating system.                                                    *)
Die ==
    /\ process # "down"
    /\ process' = "down" /\ at' = "idle"
    /\ UNCHANGED <<mem, change, next, volume, tmpSafe, tried, acked>>

PowerLoss ==
    /\ process' = "down" /\ at' = "idle"
    /\ \E f \in onDisk : file' = f /\ onDisk' = {f}
    /\ UNCHANGED <<mem, change, next, tmpSafe, tried, acked>>

FileNext ==
    \/ Open \/ Close \/ Die \/ PowerLoss
    \/ \E c \in Changes : Update(c)
    \/ CreateTemp \/ Write \/ Sync \/ Rename \/ SyncDir \/ Swap \/ Fail

FileSpec == FileInit /\ [][FileNext]_fileVars

-----------------------------------------------------------------------------
Entry == [seq : Nat, of : Changes]
Value == [done : SUBSET Changes, seq : Nat, audit : Seq(Entry)]
Content == [key : {"server", "none", "torn", "zeroed"}, value : Value]

FileTypeOK ==
    /\ process \in {"up", "closed", "down"}
    /\ mem \in Value /\ next \in Value
    /\ at \in Steps /\ change \in Changes
    /\ file \in Content
    /\ \A f \in onDisk : f \in Content
    /\ tmpSafe \in BOOLEAN
    /\ tried \subseteq Changes /\ acked \subseteq Changes

(* "A crash mid-write cannot leave a truncated state on the volume": what    *)
(* the file holds now, and what it may hold after a power loss at this       *)
(* moment, is a whole state that the server key opens.                       *)
AlwaysReadable == Readable(file) /\ \A f \in onDisk : Readable(f)

(* "Every mutation is written to disk before it becomes visible", and a      *)
(* failed write leaves neither in memory nor on the volume anything of the   *)
(* change: between updates a running store has exactly what the file has.    *)
MemoryIsFile ==
    process # "down" /\ at = "idle" => mem = file.value

(* The audit log beside the changes it describes: one record per change      *)
(* applied, numbered without a gap, the newest last, the oldest dropped.      *)
AuditMatches(v) ==
    /\ v.seq = Cardinality(v.done)
    /\ Len(v.audit) = IF v.seq < MaxAuditEntries THEN v.seq ELSE MaxAuditEntries
    /\ \A i \in 1 .. Len(v.audit) :
           /\ v.audit[i].seq = v.seq - Len(v.audit) + i
           /\ v.audit[i].of \in v.done
    /\ \A i, j \in 1 .. Len(v.audit) :
           v.audit[i].of = v.audit[j].of => i = j

AuditInStep == AuditMatches(mem) /\ AuditMatches(file.value)

(* The store keeps the promise of DurableState. *)
Durable == INSTANCE DurableState WITH
               value <- file.value, past <- {f.value : f \in onDisk}

KeepsPromise == Durable!Spec

(* Close: "the state on disk stays where it is": no update that comes after  *)
(* it replaces the state.                                                    *)
CloseKeepsState == [][process = "closed" /\ process' = "closed" => file' = file]_fileVars
=============================================================================
