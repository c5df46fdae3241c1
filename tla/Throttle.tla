------------------------------- MODULE Throttle -------------------------------
(***************************************************************************)
(* The limiter of internal/ratelimit and the handlers that use it: the login  *)
(* form counts the client's address and the submitted login (login.go), a      *)
(* recovery the administrator's address (escrow.go).  The limiter locks one    *)
(* call for one key at a time, so attempts overlap between the question        *)
(* (Allow), the check of the secret, and the report (Fail, Reset).             *)
(*                                                                         *)
(* One attempt is one process; it may be followed by another.  Times are       *)
(* natural numbers up to MaxTime.  born and tries are only kept for the         *)
(* property: when a key was first counted and the failures since.             *)
(***************************************************************************)
EXTENDS Naturals, Sequences, FiniteSets, Functions

CONSTANTS
    Attempts,      \* requests that may be under way together
    KeysOf,        \* [Attempts -> sequence of keys]: loginKeys, "escrow:" + IP
    RateKeys,      \* every key
    FreeTries, BaseDelay, MaxDelay, Forget,   \* ratelimit.Options
    MaxTime,
    None

(* The defaults have Forget far above MaxDelay: a key is not forgotten while it     *)
(* must wait.                                                               *)

VARIABLES
    now,
    entries,   \* [RateKeys -> None or [failures, retryAt, seen]]
    attempt,   \* [Attempts -> [at, key, refused]]
    born, tries

vars == <<now, entries, attempt, born, tries>>

Nobody == [at |-> "none", key |-> 1, refused |-> FALSE]

Init ==
    /\ now = 0
    /\ entries = [k \in RateKeys |-> None]
    /\ attempt = [r \in Attempts |-> Nobody]
    /\ born = [k \in RateKeys |-> 0] /\ tries = [k \in RateKeys |-> 0]

Counted(k) == entries[k] # None
Quiet(k) == Counted(k) /\ now - entries[k].seen >= Forget

Lower(a, b) == IF a < b THEN a ELSE b

(* The loop of delayFor: what the delay is after so many rounds. *)
Delay[rounds \in Nat] ==
    IF rounds = 0 THEN BaseDelay
    ELSE IF Delay[rounds - 1] * 2 >= MaxDelay THEN MaxDelay ELSE Delay[rounds - 1] * 2

(* delayFor: doubled from BaseDelay once the free failures are used up. *)
DelayFor(failures) ==
    IF failures <= FreeTries THEN 0 ELSE Lower(MaxDelay, Delay[failures - FreeTries - 1])

-----------------------------------------------------------------------------
(* Allow, for the next key of an attempt: AllowAll goes on to the last one. *)

(* Slip: only a key that has nothing left to wait is looked up. *)
RefusesLate(k) == Counted(k) /\ ~Quiet(k) /\ now + 1 < entries[k].retryAt

Refuses(k) == Counted(k) /\ ~Quiet(k) /\ now < entries[k].retryAt

Ask(r) ==
    LET k == KeysOf[r][attempt[r].key]
        refused == attempt[r].refused \/ Refuses(k)
        last == attempt[r].key = Len(KeysOf[r])
    IN /\ attempt[r].at \in {"none", "ask"}
       /\ entries' = IF Quiet(k) THEN [entries EXCEPT ![k] = None] ELSE entries
       /\ attempt' = [attempt EXCEPT ![r] =
             IF ~last THEN [at |-> "ask", key |-> @.key + 1, refused |-> refused]
             ELSE IF refused THEN Nobody
             ELSE [at |-> "check", key |-> 1, refused |-> FALSE]]
       /\ UNCHANGED <<now, born, tries>>

(* Authenticate, or the master password. *)
Check(r) ==
    /\ attempt[r].at = "check"
    /\ \E result \in {"fail", "reset"} : attempt' = [attempt EXCEPT ![r].at = result]
    /\ UNCHANGED <<now, entries, born, tries>>

(* Fail, one key after the other. *)
Failed(k) ==
    LET fresh == ~Counted(k) \/ Quiet(k)
        failures == 1 + IF fresh THEN 0 ELSE entries[k].failures
    IN [failures |-> failures, seen |-> now, retryAt |-> now + DelayFor(failures)]

Fail(r) ==
    LET k == KeysOf[r][attempt[r].key]
        fresh == ~Counted(k) \/ Quiet(k)
    IN /\ attempt[r].at = "fail"
       /\ entries' = [entries EXCEPT ![k] = Failed(k)]
       /\ born' = IF fresh THEN [born EXCEPT ![k] = now] ELSE born
       /\ tries' = [tries EXCEPT ![k] = IF fresh THEN 1 ELSE @ + 1]
       /\ attempt' = IF attempt[r].key < Len(KeysOf[r]) THEN [attempt EXCEPT ![r].key = @ + 1]
                     ELSE [attempt EXCEPT ![r] = Nobody]
       /\ UNCHANGED now

(* Reset holds the lock for all its keys. *)
Reset(r) ==
    /\ attempt[r].at = "reset"
    /\ entries' = [k \in RateKeys |-> IF k \in Range(KeysOf[r]) THEN None ELSE entries[k]]
    /\ attempt' = [attempt EXCEPT ![r] = Nobody]
    /\ UNCHANGED <<now, born, tries>>

(* sweepLimiter *)
Sweep ==
    /\ \E k \in RateKeys : Quiet(k)
    /\ entries' = [k \in RateKeys |-> IF Quiet(k) THEN None ELSE entries[k]]
    /\ UNCHANGED <<now, attempt, born, tries>>

Tick == now < MaxTime /\ now' = now + 1 /\ UNCHANGED <<entries, attempt, born, tries>>

Next == Sweep \/ Tick \/ \E r \in Attempts : Ask(r) \/ Check(r) \/ Fail(r) \/ Reset(r)

Spec == Init /\ [][Next]_vars

-----------------------------------------------------------------------------
(* The pauses a key has to sit out before failures come n times more after    *)
(* the free ones: BaseDelay, twice BaseDelay, and so on, none above MaxDelay.   *)
Doubled[n \in Nat] == IF n = 0 THEN BaseDelay ELSE Doubled[n - 1] * 2
Pauses[n \in Nat] ==
    IF n = 0 THEN 0 ELSE Pauses[n - 1] + Lower(MaxDelay, Doubled[n - 1])

Users(k) == {r \in Attempts : k \in Range(KeysOf[r])}

(* Guesses at one key cannot outrun the pauses however requests overlap: past   *)
(* the free failures, each pause lets through at most one failure of every     *)
(* request under way, and the pauses double up to MaxDelay (Allow, Fail, delayFor:   *)
(* "two requests arriving together may both pass.  What matters is that         *)
(* sustained guessing slows down.", ratelimit.go:66).                        *)
GuessingSlowsDown ==
    \A k \in RateKeys : Counted(k) =>
        \E n \in 0 .. MaxTime + 1 :
            /\ Pauses[n] <= now - born[k]
            /\ tries[k] <= FreeTries + Cardinality(Users(k)) * (n + 1)

(* Why it holds.  In every round that begins with a pause, a request that has failed in   *)
(* the round already can only fail again after the pause has been sat out: it had to    *)
(* be let through again.                                                        *)
Pause(n) == Lower(MaxDelay, Doubled[n])

(* Let through for the key, with the failure not reported yet. *)
Armed(r, k) ==
    \E i \in DOMAIN KeysOf[r] :
        /\ KeysOf[r][i] = k
        /\ \/ attempt[r].at = "ask" /\ ~attempt[r].refused /\ i < attempt[r].key
           \/ attempt[r].at = "check"
           \/ attempt[r].at = "fail" /\ attempt[r].key <= i

Entry == [failures : Nat, retryAt : Nat, seen : Nat]

TypeOK ==
    /\ now \in 0 .. MaxTime
    /\ entries \in [RateKeys -> {None} \cup Entry]
    /\ attempt \in [Attempts -> [at : {"none", "ask", "check", "fail", "reset"}, key : Nat,
                                 refused : BOOLEAN]]
    /\ \A r \in Attempts : /\ attempt[r].key \in DOMAIN KeysOf[r]
                           /\ attempt[r].at = "none" => attempt[r].key = 1
    /\ born \in [RateKeys -> Nat] /\ tries \in [RateKeys -> Nat]

(* The n pauses before the round have passed by since; late have failed in it. *)
InRound(k, n, since, late) ==
    /\ born[k] + Pauses[n] <= since
    /\ since + Pause(n) <= entries[k].retryAt
    /\ FreeTries + n < tries[k]
    /\ tries[k] <= FreeTries + Cardinality(Users(k)) * n + Cardinality(late)
    /\ \A r \in late : Armed(r, k) => since + Pause(n) <= now

SlowedDown(k) ==
    /\ entries[k].failures = tries[k] /\ born[k] <= entries[k].seen /\ entries[k].seen <= now
    /\ \/ tries[k] <= FreeTries
       \/ \E n \in 0 .. MaxTime, since \in 0 .. now, late \in SUBSET Users(k) :
              InRound(k, n, since, late)

IInv == TypeOK /\ \A k \in RateKeys : Counted(k) => SlowedDown(k)
===============================================================================
