------------------------------- MODULE Exercise -------------------------------
(***************************************************************************)
(* The full test of a DAV server (dav/exercise/exercise.go, and               *)
(* adminExerciseDAV in web/handler/accounts.go): after a discovery it creates  *)
(* one object in the first writable collection of each kind, repeats the      *)
(* operations Carrel uses on it, and deletes it again.                        *)
(*                                                                         *)
(* The server may disregard what it should check or answer too little         *)
(* (server), an answer may be lost with or without the request               *)
(* (Outcomes), and the two minutes of the whole test may be over (Expire).     *)
(* Names of objects are random, so no other client meets them.               *)
(***************************************************************************)
EXTENDS Naturals, Sequences, FiniteSets

CONSTANTS
    Found,        \* what discovery may find: sequences of [kind, readOnly]
    MaxLost       \* answers the network loses

(* What a server may do wrong: store over an object in spite of              *)
(* If-None-Match, or of an If-Match that names another version; leave an       *)
(* object out of what a query or a multiget returns; return other bytes.      *)
Flaws == {"if_none_match", "if_match", "query", "multiget", "get"}

VARIABLES
    collections,  \* result.Collections
    server,       \* the flaws of the server
    object,       \* [1 .. Len(collections) -> version, 0 when there is none]
    next,         \* the collection the loop of Run is at
    tested,       \* testedCalendar, testedAddressBook, testedFiles
    step,         \* the step of the current script, 0 between scripts
    etag,         \* what the create answered
    failed,       \* firstErr # nil
    verdict,      \* what the administrator is told
    expired, lost, kept  \* kept: collections whose object could not be removed

vars == <<collections, server, object, next, tested, step, etag, failed, verdict,
          expired, lost, kept>>

(* The steps of one exercise; what fails ends it. *)
Script(kind) ==
    IF kind = "files" THEN <<"create", "create_guard", "get", "delete">>
    ELSE <<"create", "create_guard", "conflict", "query", "multiget", "get", "delete">>

Running == verdict = "running"
InScript == Running /\ step > 0
Current == collections[next]
Step == Script(Current.kind)[step]

Init ==
    /\ collections \in Found
    /\ server \in SUBSET Flaws
    /\ object = [i \in 1 .. Len(collections) |-> 0]
    /\ next = 1 /\ tested = {} /\ step = 0 /\ etag = 0
    /\ failed = FALSE /\ verdict = "running"
    /\ expired = FALSE /\ lost = 0 /\ kept = {}

-----------------------------------------------------------------------------
(* The server. *)

(* Put stores v unless a condition holds it back: none that nothing is there *)
(* yet, match that the stored version is the named one.                     *)
Refuses(none, match, held) ==
    \/ none /\ held # 0 /\ "if_none_match" \notin server
    \/ match # 0 /\ match # held /\ "if_match" \notin server

(* What a step does to the object when it reaches the server, and whether    *)
(* the answer is the one the script expects.  The etag no object has is 9.   *)
Stored(held) == CASE Step = "create" -> IF Refuses(TRUE, 0, held) THEN held ELSE 1
                  [] Step = "create_guard" -> IF Refuses(TRUE, 0, held) THEN held ELSE 2
                  [] Step = "conflict" -> IF Refuses(FALSE, 9, held) THEN held ELSE 2
                  [] Step = "delete" -> IF Refuses(FALSE, etag, held) THEN held ELSE 0
                  [] OTHER -> held

(* expectPreconditionFailed: an upload that should be held back is a failure   *)
(* when it succeeds.                                                        *)
Expected(held) ==
    CASE Step = "create" -> ~Refuses(TRUE, 0, held)
      [] Step = "create_guard" -> Refuses(TRUE, 0, held)
      [] Step = "conflict" -> Refuses(FALSE, 9, held)
      [] Step = "delete" -> held # 0 /\ ~Refuses(FALSE, etag, held)
      [] OTHER -> Step \notin server

(* Slip: whatever the upload answers will do. *)
ExpectedAny(held) ==
    CASE Step = "create" -> ~Refuses(TRUE, 0, held)
      [] Step \in {"create_guard", "conflict"} -> TRUE
      [] Step = "delete" -> held # 0 /\ ~Refuses(FALSE, etag, held)
      [] OTHER -> Step \notin server

-----------------------------------------------------------------------------
(* Run: the loop over the collections. *)

Skip ==
    /\ Running /\ step = 0 /\ next <= Len(collections)
    /\ Current.readOnly \/ Current.kind \in tested
    /\ next' = next + 1
    /\ UNCHANGED <<collections, server, object, tested, step, etag, failed, verdict,
                   expired, lost, kept>>

Begin ==
    /\ Running /\ step = 0 /\ next <= Len(collections)
    /\ ~Current.readOnly /\ Current.kind \notin tested
    /\ step' = 1 /\ etag' = 0
    /\ UNCHANGED <<collections, server, object, next, tested, failed, verdict,
                   expired, lost, kept>>

(* Outcomes of one request: it is not sent, not received, received but its    *)
(* answer is lost, or answered.  A request after the deadline is not sent.    *)
Outcomes ==
    IF expired THEN {"none"}
    ELSE {"answered"} \cup (IF lost < MaxLost THEN {"none", "unheard"} ELSE {})

Loses(outcome) == lost' = IF outcome = "answered" \/ expired THEN lost ELSE lost + 1

(* defer cleanup(): the function is taken when defer runs, before the create,  *)
(* so the delete that ends a good exercise is followed by another.  It has no   *)
(* condition, and the same context as everything else.                      *)
CleanedUp(outcome, held) == IF outcome = "none" THEN held ELSE 0
Registered == TRUE
Leave(outcome, held, bad) ==
    /\ object' = [object EXCEPT ![next] = IF Registered THEN CleanedUp(outcome, held) ELSE held]
    /\ kept' = IF Registered /\ outcome = "none" THEN kept \cup {next} ELSE kept
    /\ failed' = (failed \/ bad)
    /\ tested' = tested \cup {Current.kind}
    /\ next' = next + 1 /\ step' = 0

(* Slip: the removal is registered once the create has succeeded. *)
RegisteredLate == step > 1

(* Slip: the error returned is that of the last exercise. *)
LeaveLast(outcome, held, bad) ==
    /\ object' = [object EXCEPT ![next] = IF Registered THEN CleanedUp(outcome, held) ELSE held]
    /\ kept' = IF Registered /\ outcome = "none" THEN kept \cup {next} ELSE kept
    /\ failed' = bad
    /\ tested' = tested \cup {Current.kind}
    /\ next' = next + 1 /\ step' = 0

(* One step of the script: the answer of a create may name no version. *)
Proceed ==
    /\ InScript
    /\ ~expired /\ Expected(object[next]) /\ step < Len(Script(Current.kind))
    /\ object' = [object EXCEPT ![next] = Stored(object[next])]
    /\ step' = step + 1
    /\ etag' \in IF Step = "create" THEN {0, 1} ELSE {etag}
    /\ UNCHANGED <<collections, server, next, tested, failed, verdict, expired, lost, kept>>

(* The step fails, or its answer does not come; then the removal.  Both may   *)
(* meet a fault of the network.                                             *)
Fail(sent, removal) ==
    /\ InScript
    /\ sent \in Outcomes
    /\ sent = "answered" => ~Expected(object[next])
    /\ LET held == IF sent = "none" THEN object[next] ELSE Stored(object[next])
           left == lost + IF sent = "answered" \/ expired THEN 0 ELSE 1
       IN /\ removal = "none" \/ ~expired
          /\ removal # "answered" /\ ~expired => left < MaxLost
          /\ removal = "answered" => ~expired
          /\ lost' = left + IF removal = "answered" \/ expired THEN 0 ELSE 1
          /\ Leave(removal, held, TRUE)
    /\ UNCHANGED <<collections, server, etag, verdict, expired>>

(* The last step succeeds: the object is gone, and removed again. *)
Finish(removal) ==
    /\ InScript /\ ~expired
    /\ step = Len(Script(Current.kind)) /\ Expected(object[next])
    /\ removal \in Outcomes
    /\ Loses(removal)
    /\ Leave(removal, Stored(object[next]), FALSE)
    /\ UNCHANGED <<collections, server, etag, verdict, expired>>

(* The result goes to the page and to the audit log. *)
Tell ==
    /\ Running /\ step = 0 /\ next > Len(collections)
    /\ verdict' = IF failed THEN "failed" ELSE "ok"
    /\ UNCHANGED <<collections, server, object, next, tested, step, etag, failed,
                   expired, lost, kept>>

(* The deadline of the handler, or a closed browser. *)
Expire ==
    /\ Running /\ ~expired
    /\ expired' = TRUE
    /\ UNCHANGED <<collections, server, object, next, tested, step, etag, failed,
                   verdict, lost, kept>>

Next ==
    \/ Skip \/ Begin \/ Proceed \/ Tell \/ Expire
    \/ \E removal \in {"none", "unheard", "answered"} :
          Finish(removal) \/ \E sent \in {"none", "unheard", "answered"} : Fail(sent, removal)

Spec == Init /\ [][Next]_vars

-----------------------------------------------------------------------------
(* What a script would notice of a server. *)
Notices(kind) == Flaws \cap (IF kind = "files" THEN {"if_none_match", "get"} ELSE Flaws)

Writable == {collections[i].kind : i \in {j \in 1 .. Len(collections) : ~collections[j].readOnly}}

(* Whatever step fails, or is never answered, an object of the test stays on   *)
(* the server only when its removal did not reach the server either, and a     *)
(* test that is told to be good was good: every writable kind was tried, the   *)
(* server has no flaw its script would notice, and nothing was lost on the      *)
(* way (defer cleanup, firstErr and expectPreconditionFailed).               *)
TestsCleanly ==
    /\ \A i \in DOMAIN object : object[i] # 0 => i \in kept \/ i = next
    /\ verdict = "ok" => /\ tested = Writable
                         /\ \A kind \in tested : server \cap Notices(kind) = {}

(* Does not hold: the removal runs under the deadline of the test, so a test   *)
(* that takes its whole time leaves an object behind on a server that would     *)
(* have removed it ("short-lived objects ... deletes them", exercise.go:5).     *)
NothingIsLeft == verdict # "running" /\ lost = 0 => \A i \in DOMAIN object : object[i] = 0
===============================================================================
