------------------------------ MODULE Transport ------------------------------
(***************************************************************************)
(* One call of the DAV client (dav/transport.go) through the guard            *)
(* (dav/ssrf.go): a target is checked before each request, resolved again      *)
(* where it is dialled, and the redirects of servers are followed by the      *)
(* HTTP library (Redirect, external).  The names of hosts change their        *)
(* addresses at any time, and idle connections are used again.               *)
(*                                                                         *)
(* A body is its length; what a server does with a request is whether it      *)
(* did what the caller asked for.                                            *)
(***************************************************************************)
EXTENDS Naturals, FiniteSets

CONSTANTS
    Hosts, Addrs,
    Allowlist,       \* hosts an administrator allows whatever their addresses
    Blocked,         \* addresses no call may reach
    MaxRedirects, MaxResponseBytes,
    MaxDns,          \* changes of names
    MaxCalls,
    None

Methods == {"PROPFIND", "REPORT", "GET", "PUT", "DELETE", "MKCOL", "MOVE", "PROPPATCH", "HEAD"}

(* What each call reads of an answer: a Multi-Status document, a body with a  *)
(* ceiling, or nothing.                                                    *)
Listing == {"PROPFIND", "REPORT"}

(* What a server answers member by member, with 207 although some members or   *)
(* properties were refused.                                                 *)
InParts == {"DELETE", "MOVE", "PROPPATCH"}

(* A body that can be sent again: NewRequest knows how for the documents the  *)
(* client builds and not for the stream of an upload.                       *)
Rewindable == Methods \ {"PUT"}

VARIABLES
    dns,     \* [Hosts -> SUBSET Addrs]
    idle,    \* [Hosts -> Addrs \cup {None}]: connections kept
    call,    \* the request under way
    dnsChanges, calls

vars == <<dns, idle, call, dnsChanges, calls>>

(* asked: the method of the call; method: that of the request under way;      *)
(* via: the requests made for it; done: a server did what was asked.         *)
NoCall == [at |-> "none", asked |-> "GET", method |-> "GET", host |-> CHOOSE h \in Hosts : TRUE,
           conn |-> None, via |-> 0, done |-> FALSE, size |-> 0]

Init ==
    /\ dns \in [Hosts -> SUBSET Addrs]
    /\ idle = [h \in Hosts |-> None]
    /\ call = NoCall /\ dnsChanges = 0 /\ calls = 0

-----------------------------------------------------------------------------
(* The guard. *)

(* checkIP: an allowed name may have any address. *)
CheckIP(h, a) == h \in Allowlist \/ a \notin Blocked

(* ValidateURL is content with one address of several. *)
ValidateURL(h) == \E a \in dns[h] : CheckIP(h, a)

(* Slip: what ValidateURL found good is dialled by name. *)
DialableByName(h) == dns[h]

(* dialContext: the addresses of its own lookup, in the order of the answer. *)
Dialable(h) == {a \in dns[h] : CheckIP(h, a)}

(* checkRedirect: via holds the requests already made. *)
MayFollow(via, h) == via < MaxRedirects /\ ValidateURL(h)

Fails == call' = [call EXCEPT !.at = "error"]
Still == UNCHANGED <<dns, dnsChanges, calls>>

-----------------------------------------------------------------------------
(* One call. *)

(* resolve, newRequest *)
Request(m, h) ==
    /\ call.at \in {"none", "ok", "error"} /\ calls < MaxCalls
    /\ calls' = calls + 1
    /\ call' = [NoCall EXCEPT !.at = IF ValidateURL(h) THEN "dial" ELSE "error",
                              !.asked = m, !.method = m, !.host = h]
    /\ UNCHANGED <<dns, dnsChanges, idle>>

Reuse ==
    /\ call.at = "dial" /\ idle[call.host] # None
    /\ call' = [call EXCEPT !.at = "sent", !.conn = idle[call.host], !.via = @ + 1]
    /\ idle' = [idle EXCEPT ![call.host] = None]
    /\ Still

Dial ==
    /\ call.at = "dial" /\ idle[call.host] = None
    /\ IF Dialable(call.host) = {} THEN Fails
       ELSE \E a \in Dialable(call.host) :
                call' = [call EXCEPT !.at = "sent", !.conn = a, !.via = @ + 1]
    /\ Still /\ UNCHANGED idle

(* What a call makes of an answer that says 2xx: 207 only where a document     *)
(* of many answers was asked for, and no more bytes than the ceiling: too      *)
(* many are an error, or cut off one byte after it.                         *)
Accepts(code, length) ==
    call.asked \in Listing => code = 207 /\ length <= MaxResponseBytes
AcceptsAny2xx(code, length) == call.asked \in Listing => length <= MaxResponseBytes

Kept(length) == IF call.asked \in Listing \cup {"GET"} /\ length > MaxResponseBytes
                THEN MaxResponseBytes + 1 ELSE length

Answer(code, length, done) ==
    /\ call.at = "sent"
    /\ call.method \in Listing => code = 207
    /\ code = 207 => call.method \in Listing \cup InParts
    /\ code = 200 \/ call.method \in Listing => done
    /\ call' = [call EXCEPT !.at = IF Accepts(code, length) THEN "ok" ELSE "error",
                            !.done = @ \/ (done /\ call.method = call.asked),
                            !.size = Kept(length)]
    /\ idle' \in {idle, [idle EXCEPT ![call.host] = call.conn]}
    /\ Still

(* A status that is neither a success nor a redirect; Head does not mind. *)
Refusal ==
    /\ call.at = "sent"
    /\ call' = [call EXCEPT !.at = IF call.asked = "HEAD" THEN "ok" ELSE "error"]
    /\ idle' \in {idle, [idle EXCEPT ![call.host] = call.conn]}
    /\ Still

(* net/http: 301, 302 and 303 are followed with GET, whatever was asked, and   *)
(* without a body; 307 and 308 are followed as they are when the body can be    *)
(* sent again, and are answers otherwise.                                   *)
Redirected(kind) ==
    IF kind = "found" /\ call.method # "HEAD" THEN "GET" ELSE call.method

Redirect(kind, h) ==
    /\ call.at = "sent"
    /\ call' = IF (kind = "temporary" /\ call.method \notin Rewindable) \/ ~MayFollow(call.via, h)
               THEN [call EXCEPT !.at = "error"]
               ELSE [call EXCEPT !.at = "dial", !.host = h, !.method = Redirected(kind)]
    /\ idle' \in {idle, [idle EXCEPT ![call.host] = call.conn]}
    /\ Still

(* RequestTimeout, ConnectTimeout, the caller's context, a broken connection. *)
GiveUp ==
    /\ call.at \in {"dial", "sent"}
    /\ Fails
    /\ Still /\ UNCHANGED idle

IdleTimeout(h) ==
    /\ idle[h] # None
    /\ idle' = [idle EXCEPT ![h] = None]
    /\ Still /\ UNCHANGED call

DnsChanges(h, as) ==
    /\ dnsChanges < MaxDns /\ dns[h] # as
    /\ dns' = [dns EXCEPT ![h] = as]
    /\ dnsChanges' = dnsChanges + 1
    /\ UNCHANGED <<idle, call, calls>>

Next ==
    \/ Reuse \/ Dial \/ Refusal \/ GiveUp
    \/ \E m \in Methods, h \in Hosts : Request(m, h)
    \/ \E code \in {200, 207}, length \in 0 .. MaxResponseBytes + 2, done \in BOOLEAN :
          Answer(code, length, done)
    \/ \E kind \in {"found", "temporary"}, h \in Hosts : Redirect(kind, h)
    \/ \E h \in Hosts : IdleTimeout(h) \/ \E as \in SUBSET Addrs : DnsChanges(h, as)

Spec == Init /\ [][Next]_vars

-----------------------------------------------------------------------------
(* However names change between the check and the connection and however      *)
(* servers redirect, a request goes over a connection to an address that was   *)
(* good for its host, the chain of requests is bounded, and a listing that      *)
(* succeeds is what a server answered to the listing itself, whole              *)
(* (ValidateURL, dialContext, checkRedirect, and the test for 207).           *)
CallsAreSound ==
    /\ call.at = "sent" => CheckIP(call.host, call.conn)
    /\ call.via <= MaxRedirects
    /\ call.at = "ok" /\ call.asked \in Listing => call.done /\ call.size <= MaxResponseBytes

(* Does not hold: the answer 207 of a DELETE, MOVE or PROPPATCH is a success     *)
(* without a look at the parts it reports refused; and a change that a server   *)
(* answers with 301 is followed by a GET, whose page is taken for the success   *)
(* of the change ("Delete removes a resource.", transport.go:305).             *)
SuccessMeansDone == call.at = "ok" /\ call.asked # "HEAD" => call.done
===============================================================================
