---------------------------- MODULE ScreensProofs ----------------------------
(***************************************************************************)
(* What Carrel finds on other servers and what a page shows of it, for every      *)
(* tree of collections, set of hosts, number of tabs, records and ceiling: the     *)
(* inductive invariants of Transport, Exercise, Connections, FindPanel and          *)
(* Duplicates, kept by each step, and the three properties of MCScreens that        *)
(* follow.                                                                 *)
(*                                                                         *)
(* Transport rests on what is known of a connection while it is kept, Exercise    *)
(* on what each step of a script shows once it has been answered as expected;      *)
(* Connections on three facts: a tree never gets a folder of files out of a        *)
(* calendar or an address book, every discovery names the same principal, and      *)
(* what a request carries to its next step was fit to be offered when it was read,  *)
(* which later changes of the tree do not alter.  FindPanel rests on what the last  *)
(* fragment under way tells of, and Duplicates on a page showing only what was      *)
(* decided, or joined by pairs that score, when it was drawn.                   *)
(***************************************************************************)
EXTENDS MCScreens, FiniteSetTheorems, SequenceTheorems, WellFoundedInduction, TLAPS

-----------------------------------------------------------------------------
(* Transport: one call, its redirects and the connections that are kept. *)
CallFields == {"at", "asked", "method", "host", "conn", "via", "done", "size"}
Stages == {"none", "dial", "sent", "ok", "error"}

CallTyped(call) ==
    /\ DOMAIN call = CallFields /\ call = [f \in CallFields |-> call[f]]
    /\ call.at \in Stages /\ call.asked \in Calls!Methods /\ call.via \in Nat
    /\ call.at \in {"dial", "sent"} => call.host \in Hosts

(* A chain of requests is bounded, and is of what was asked or of the GET a redirect makes
   of it. *)
Chained(call) ==
    /\ call.via <= MaxRedirects /\ call.method \in {call.asked, "GET"}
    /\ call.at = "dial" => call.via < MaxRedirects
    /\ call.at = "ok" /\ call.asked \in Calls!Listing => call.done /\ call.size <= MaxResponseBytes

CallsHold ==
    /\ s1 \in [Hosts -> SUBSET Addrs] /\ s2 \in [Hosts -> Addrs \cup {None}]
    /\ CallTyped(s3) /\ Chained(s3)
    /\ \A h \in Hosts : s2[h] # None => Calls!CheckIP(h, s2[h])
    /\ s3.at = "sent" => s3.conn \in Addrs /\ Calls!CheckIP(s3.host, s3.conn)

LEMMA CallsStart == Calls!Init => CallsHold
  <1> SUFFICES ASSUME Calls!Init PROVE CallsHold
    OBVIOUS
  <1>1. /\ s1 \in [Hosts -> SUBSET Addrs] /\ s2 = [h \in Hosts |-> None]
        /\ s3 = Calls!NoCall
    BY DEF Calls!Init
  <1>2. /\ DOMAIN s3 = CallFields /\ s3 = [f \in CallFields |-> s3[f]]
        /\ s3.at = "none" /\ s3.asked = "GET" /\ s3.method = "GET" /\ s3.via = 0
    BY <1>1 DEF Calls!NoCall, CallFields
  <1>3. CallTyped(s3) /\ Chained(s3)
    BY <1>2, CallsAssumption DEF CallTyped, Chained, Stages, Calls!Methods
  <1> QED
    BY <1>1, <1>2, <1>3 DEF CallsHold

(* A call that ends without success keeps the rest of what it is. *)
LEMMA CallEnds ==
    ASSUME CallsHold, s3' = [s3 EXCEPT !.at = "error"]
    PROVE  CallTyped(s3') /\ Chained(s3') /\ s3'.at = "error"
  <1>1. /\ DOMAIN s3' = CallFields /\ s3'.at = "error"
        /\ s3' = [f \in CallFields |-> s3'[f]]
        /\ \A f \in CallFields \ {"at"} : s3'[f] = s3[f]
    BY DEF CallsHold, CallTyped, CallFields
  <1>2. s3'.asked = s3.asked /\ s3'.via = s3.via /\ s3'.method = s3.method
    BY <1>1 DEF CallFields
  <1> QED
    BY <1>1, <1>2 DEF CallsHold, CallTyped, Chained, Stages

(* A connection that is kept is the one the request went over. *)
LEMMA ConnectionKept ==
    ASSUME CallsHold, s3.at = "sent", s2' \in {s2, [s2 EXCEPT ![s3.host] = s3.conn]}
    PROVE  /\ s2' \in [Hosts -> Addrs \cup {None}]
           /\ \A h \in Hosts : s2'[h] # None => Calls!CheckIP(h, s2'[h])
  <1>1. /\ s2 \in [Hosts -> Addrs \cup {None}] /\ s3.host \in Hosts /\ s3.conn \in Addrs
        /\ Calls!CheckIP(s3.host, s3.conn)
        /\ \A h \in Hosts : s2[h] # None => Calls!CheckIP(h, s2[h])
    BY DEF CallsHold, CallTyped
  <1>2. ASSUME NEW h \in Hosts, s2'[h] # None PROVE Calls!CheckIP(h, s2'[h])
    <2>1. CASE s2' = s2
      BY <1>1, <1>2, <2>1
    <2>2. CASE s2' = [s2 EXCEPT ![s3.host] = s3.conn]
      <3>1. CASE h = s3.host
        BY <1>1, <2>2, <3>1
      <3>2. CASE h # s3.host
        BY <1>1, <1>2, <2>2, <3>2
      <3> QED
        BY <3>1, <3>2
    <2> QED
      BY <2>1, <2>2
  <1> QED
    BY <1>1, <1>2

LEMMA CallsStep == ASSUME CallsHold, [Calls!Next]_(Calls!vars) PROVE CallsHold'
  <1> USE DEF Calls!Still
  <1>1. CASE Calls!Reuse
    <2>1. /\ s3.at = "dial" /\ s2[s3.host] # None
          /\ s3' = [s3 EXCEPT !.at = "sent", !.conn = s2[s3.host], !.via = @ + 1]
          /\ s2' = [s2 EXCEPT ![s3.host] = None] /\ s1' = s1
      BY <1>1 DEF Calls!Reuse
    <2>2. s3.host \in Hosts
      BY <2>1 DEF CallsHold, CallTyped
    <2>a. PICK kept : /\ kept = s2[s3.host]
                      /\ s3' = [s3 EXCEPT !.at = "sent", !.conn = kept, !.via = @ + 1]
      BY <2>1
    <2>3. /\ DOMAIN s3' = CallFields /\ s3' = [f \in CallFields |-> s3'[f]]
          /\ s3'.at = "sent" /\ s3'.asked = s3.asked /\ s3'.method = s3.method
          /\ s3'.host = s3.host /\ s3'.conn = kept /\ s3'.via = s3.via + 1
      BY <2>a DEF CallsHold, CallTyped, CallFields
    <2>b. s3.at = "dial" /\ MaxRedirects \in Nat
      BY <2>1, CallsAssumption
    <2>4. CallTyped(s3') /\ Chained(s3')
      BY <2>b, <2>2, <2>3 DEF CallsHold, CallTyped, Chained, Stages
    <2>5. s2' \in [Hosts -> Addrs \cup {None}] /\ \A h \in Hosts : s2'[h] # None => s2'[h] = s2[h]
      BY <2>1 DEF CallsHold
    <2>6. s2[s3.host] \in Addrs /\ Calls!CheckIP(s3.host, s2[s3.host])
      BY <2>1, <2>2 DEF CallsHold
    <2> HIDE DEF Calls!CheckIP
    <2>7. s3'.conn \in Addrs /\ Calls!CheckIP(s3'.host, s3'.conn)
      BY <2>a, <2>3, <2>6
    <2>8. \A h \in Hosts : s2'[h] # None => Calls!CheckIP(h, s2'[h])
      BY <2>5 DEF CallsHold
    <2> QED
      BY <2>1, <2>4, <2>5, <2>7, <2>8 DEF CallsHold, Calls!CheckIP
  <1>2. CASE Calls!Dial
    <2>1. s3.at = "dial" /\ s1' = s1 /\ s2' = s2 /\ s3.host \in Hosts
      BY <1>2 DEF Calls!Dial, CallsHold, CallTyped
    <2>2. CASE Calls!Fails
      <3>1. CallTyped(s3') /\ Chained(s3') /\ s3'.at = "error"
        BY <2>2, CallEnds DEF Calls!Fails
      <3> QED
        BY <2>1, <3>1 DEF CallsHold, Calls!CheckIP
    <2>3. CASE \E x \in Calls!Dialable(s3.host) :
                  s3' = [s3 EXCEPT !.at = "sent", !.conn = x, !.via = @ + 1]
      <3>1. PICK x \in Calls!Dialable(s3.host) :
                    s3' = [s3 EXCEPT !.at = "sent", !.conn = x, !.via = @ + 1]
        BY <2>3
      <3>2. x \in Addrs /\ Calls!CheckIP(s3.host, x)
        BY <2>1 DEF Calls!Dialable, CallsHold
      <3>3. /\ DOMAIN s3' = CallFields /\ s3' = [f \in CallFields |-> s3'[f]]
            /\ s3'.at = "sent" /\ s3'.asked = s3.asked /\ s3'.method = s3.method
            /\ s3'.host = s3.host /\ s3'.conn = x /\ s3'.via = s3.via + 1
        BY <3>1 DEF CallsHold, CallTyped, CallFields
      <3>4. CallTyped(s3') /\ Chained(s3')
        BY <2>1, <3>3, CallsAssumption DEF CallsHold, CallTyped, Chained, Stages
      <3> QED
        BY <2>1, <3>2, <3>3, <3>4 DEF CallsHold, Calls!CheckIP
    <2> QED
      BY <1>2, <2>2, <2>3 DEF Calls!Dial
  <1>3. CASE Calls!Refusal
    <2>1. /\ s3.at = "sent" /\ s1' = s1 /\ s2' \in {s2, [s2 EXCEPT ![s3.host] = s3.conn]}
          /\ s3' = [s3 EXCEPT !.at = IF s3.asked = "HEAD" THEN "ok" ELSE "error"]
      BY <1>3 DEF Calls!Refusal
    <2>2. /\ DOMAIN s3' = CallFields /\ s3' = [f \in CallFields |-> s3'[f]]
          /\ s3'.at \in {"ok", "error"} /\ (s3'.at = "ok" => s3.asked = "HEAD")
          /\ s3'.asked = s3.asked /\ s3'.method = s3.method /\ s3'.via = s3.via
      BY <2>1 DEF CallsHold, CallTyped, CallFields
    <2>3. CallTyped(s3') /\ Chained(s3')
      BY <2>2 DEF CallsHold, CallTyped, Chained, Stages, Calls!Listing
    <2>4. /\ s2' \in [Hosts -> Addrs \cup {None}]
          /\ \A h \in Hosts : s2'[h] # None => Calls!CheckIP(h, s2'[h])
      BY <2>1, ConnectionKept
    <2> QED
      BY <2>1, <2>2, <2>3, <2>4 DEF CallsHold, Calls!CheckIP
  <1>4. CASE Calls!GiveUp
    <2>1. s1' = s1 /\ s2' = s2 /\ s3' = [s3 EXCEPT !.at = "error"]
      BY <1>4 DEF Calls!GiveUp, Calls!Fails
    <2>2. CallTyped(s3') /\ Chained(s3') /\ s3'.at = "error"
      BY <2>1, CallEnds
    <2> QED
      BY <2>1, <2>2 DEF CallsHold, Calls!CheckIP
  <1>5. ASSUME NEW m \in Calls!Methods, NEW h \in Hosts, Calls!Request(m, h) PROVE CallsHold'
    <2>1. /\ s1' = s1 /\ s2' = s2
          /\ s3' = [Calls!NoCall EXCEPT !.at = IF Calls!ValidateURL(h) THEN "dial" ELSE "error",
                                        !.asked = m, !.method = m, !.host = h]
      BY <1>5 DEF Calls!Request
    <2>2. /\ DOMAIN s3' = CallFields /\ s3' = [f \in CallFields |-> s3'[f]]
          /\ s3'.at \in {"dial", "error"} /\ s3'.asked = m /\ s3'.method = m
          /\ s3'.host = h /\ s3'.via = 0
      BY <2>1 DEF CallFields, Calls!NoCall
    <2>3. CallTyped(s3') /\ Chained(s3')
      BY <2>2, CallsAssumption DEF CallTyped, Chained, Stages
    <2> QED
      BY <2>1, <2>2, <2>3 DEF CallsHold, Calls!CheckIP
  <1>6. ASSUME NEW code \in {200, 207}, NEW length \in 0 .. MaxResponseBytes + 2,
               NEW done \in BOOLEAN, Calls!Answer(code, length, done)
        PROVE  CallsHold'
    <2>1. /\ s3.at = "sent" /\ s1' = s1 /\ s2' \in {s2, [s2 EXCEPT ![s3.host] = s3.conn]}
          /\ s3' = [s3 EXCEPT !.at = IF Calls!Accepts(code, length) THEN "ok" ELSE "error",
                              !.done = @ \/ (done /\ s3.method = s3.asked),
                              !.size = Calls!Kept(length)]
      BY <1>6 DEF Calls!Answer
    <2> DEFINE at == IF Calls!Accepts(code, length) THEN "ok" ELSE "error"
               did == s3.done \/ (done /\ s3.method = s3.asked)
               size == Calls!Kept(length)
    <2>a. s3' = [s3 EXCEPT !.at = at, !.done = did, !.size = size]
      BY <2>1
    <2>b. at \in {"ok", "error"} /\ (at = "ok" => Calls!Accepts(code, length))
      OBVIOUS
    <2> HIDE DEF at, did, size
    <2>c. /\ DOMAIN s3' = CallFields /\ s3' = [f \in CallFields |-> s3'[f]]
          /\ s3'.at = at /\ s3'.done = did /\ s3'.size = size
          /\ s3'.asked = s3.asked /\ s3'.method = s3.method /\ s3'.via = s3.via
      BY <2>a DEF CallsHold, CallTyped, CallFields
    <2>2. /\ DOMAIN s3' = CallFields /\ s3' = [f \in CallFields |-> s3'[f]]
          /\ s3'.at \in {"ok", "error"} /\ (s3'.at = "ok" => Calls!Accepts(code, length))
          /\ s3'.asked = s3.asked /\ s3'.method = s3.method /\ s3'.via = s3.via
          /\ s3'.size = Calls!Kept(length)
      BY <2>b, <2>c DEF size
    <2>3. s3'.done = (s3.done \/ (done /\ s3.method = s3.asked))
      BY <2>c DEF did
    <2>4. ASSUME s3'.at = "ok", s3.asked \in Calls!Listing
          PROVE  s3'.done /\ s3'.size <= MaxResponseBytes
      <3>1. code = 207 /\ length <= MaxResponseBytes
        BY <2>2, <2>4 DEF Calls!Accepts
      <3>2. s3.method \in Calls!Listing \cup Calls!InParts /\ s3.method \in {s3.asked, "GET"}
        BY <1>6, <3>1 DEF Calls!Answer, CallsHold, Chained
      <3>3. s3.method = s3.asked
        BY <3>2 DEF Calls!Listing, Calls!InParts
      <3>4. done
        BY <1>6, <2>4, <3>3 DEF Calls!Answer
      <3>5. length \in Nat /\ MaxResponseBytes \in Nat
        BY CallsAssumption
      <3>6. s3'.size = length
        BY <2>2, <3>1, <3>5 DEF Calls!Kept
      <3> QED
        BY <2>3, <3>1, <3>3, <3>4, <3>6
    <2>5. CallTyped(s3') /\ Chained(s3')
      BY <2>2, <2>4 DEF CallsHold, CallTyped, Chained, Stages
    <2>6. /\ s2' \in [Hosts -> Addrs \cup {None}]
          /\ \A h \in Hosts : s2'[h] # None => Calls!CheckIP(h, s2'[h])
      BY <2>1, ConnectionKept
    <2> QED
      BY <2>1, <2>2, <2>5, <2>6 DEF CallsHold, Calls!CheckIP
  <1>7. ASSUME NEW kind \in {"found", "temporary"}, NEW h \in Hosts, Calls!Redirect(kind, h)
        PROVE  CallsHold'
    <2>1. s3.at = "sent" /\ s1' = s1 /\ s2' \in {s2, [s2 EXCEPT ![s3.host] = s3.conn]}
      BY <1>7 DEF Calls!Redirect
    <2>2. /\ s2' \in [Hosts -> Addrs \cup {None}]
          /\ \A g \in Hosts : s2'[g] # None => Calls!CheckIP(g, s2'[g])
      BY <2>1, ConnectionKept
    <2>3. CASE s3' = [s3 EXCEPT !.at = "error"]
      BY <2>1, <2>2, <2>3, CallEnds DEF CallsHold, Calls!CheckIP
    <2>4. CASE /\ Calls!MayFollow(s3.via, h)
               /\ s3' = [s3 EXCEPT !.at = "dial", !.host = h, !.method = Calls!Redirected(kind)]
      <3>1. /\ DOMAIN s3' = CallFields /\ s3' = [f \in CallFields |-> s3'[f]]
            /\ s3'.at = "dial" /\ s3'.asked = s3.asked /\ s3'.via = s3.via
            /\ s3'.method = Calls!Redirected(kind) /\ s3'.host = h
        BY <2>4 DEF CallsHold, CallTyped, CallFields
      <3>2. Calls!Redirected(kind) \in {s3.method, "GET"}
        BY DEF Calls!Redirected
      <3>3. s3.via < MaxRedirects
        BY <2>4 DEF Calls!MayFollow
      <3>4. CallTyped(s3') /\ Chained(s3')
        BY <3>1, <3>2, <3>3 DEF CallsHold, CallTyped, Chained, Stages
      <3> QED
        BY <2>1, <2>2, <3>1, <3>4 DEF CallsHold, Calls!CheckIP
    <2> QED
      BY <1>7, <2>3, <2>4 DEF Calls!Redirect
  <1>8. ASSUME NEW h \in Hosts, Calls!IdleTimeout(h) PROVE CallsHold'
    <2>1. s1' = s1 /\ s3' = s3 /\ s2' = [s2 EXCEPT ![h] = None]
      BY <1>8 DEF Calls!IdleTimeout
    <2>2. s2' \in [Hosts -> Addrs \cup {None}] /\ \A g \in Hosts : s2'[g] # None => s2'[g] = s2[g]
      BY <2>1 DEF CallsHold
    <2>3. \A g \in Hosts : s2'[g] # None => Calls!CheckIP(g, s2'[g])
      BY <2>2 DEF CallsHold
    <2> QED
      BY <2>1, <2>2, <2>3 DEF CallsHold, Calls!CheckIP
  <1>9. ASSUME NEW h \in Hosts, NEW as \in SUBSET Addrs, Calls!DnsChanges(h, as) PROVE CallsHold'
    <2>1. s2' = s2 /\ s3' = s3 /\ s1' = [s1 EXCEPT ![h] = as]
      BY <1>9 DEF Calls!DnsChanges
    <2> QED
      BY <2>1 DEF CallsHold, Calls!CheckIP
  <1>10. CASE UNCHANGED Calls!vars
    BY <1>10 DEF Calls!vars, CallsHold, Calls!CheckIP
  <1> QED
    BY <1>1, <1>2, <1>3, <1>4, <1>5, <1>6, <1>7, <1>8, <1>9, <1>10 DEF Calls!Next

LEMMA CallsShow == CallsHold => Calls!CallsAreSound
  BY DEF CallsHold, Chained, Calls!CallsAreSound
-----------------------------------------------------------------------------
(* Exercise: the script of a kind, step by step. *)
Listed == [kind : {"calendar", "addressbook", "files"}, readOnly : BOOLEAN]
TriedBefore(n) == {s1[i].kind : i \in {j \in 1 .. n - 1 : ~s1[j].readOnly}}

(* What the server has not, once a step of a script has been answered as expected. *)
Passed(name) ==
    /\ name = "create_guard" => "if_none_match" \notin s2
    /\ name = "conflict" => "if_match" \notin s2
    /\ name \in {"query", "multiget", "get"} => name \notin s2

Trying ==
    /\ s1 \in Seq(Listed) /\ s2 \subseteq Exercises!Flaws
    /\ s3 \in [1 .. Len(s1) -> Nat] /\ s4 \in 1 .. Len(s1) + 1 /\ s6 \in Nat /\ s7 \in Nat
    /\ s5 = TriedBefore(s4)
    /\ s6 > 0 => /\ s4 <= Len(s1) /\ ~s1[s4].readOnly
                 /\ s6 <= Len(Exercises!Script(s1[s4].kind))
                 /\ \A j \in 1 .. s6 - 1 : Passed(Exercises!Script(s1[s4].kind)[j])

(* An object that is there is that of the script under way, or could not be removed. *)
ObjectsAccounted == \A i \in 1 .. Len(s1) : s3[i] # 0 => i \in s12 \/ (i = s4 /\ s6 > 0)
NoFlawSeen == \A kind \in s5 : s2 \cap Exercises!Notices(kind) = {}
ExerciseHolds ==
    /\ Trying /\ ObjectsAccounted
    /\ ~s8 => NoFlawSeen
    /\ s9 = "ok" => s5 = Exercises!Writable /\ NoFlawSeen

LEMMA Scripts ==
    ASSUME NEW kind
    PROVE  /\ Len(Exercises!Script(kind)) \in {4, 7}
           /\ (\A j \in 1 .. Len(Exercises!Script(kind)) - 1 : Passed(Exercises!Script(kind)[j]))
              => s2 \cap Exercises!Notices(kind) = {}
  <1>1. CASE kind = "files"
    <2>1. Exercises!Script(kind) = <<"create", "create_guard", "get", "delete">>
      BY <1>1 DEF Exercises!Script
    <2>2. Exercises!Notices(kind) \subseteq {"if_none_match", "get"}
      BY <1>1 DEF Exercises!Notices
    <2>3. Len(Exercises!Script(kind)) = 4
      BY <2>1
    <2>4. ASSUME \A j \in 1 .. 3 : Passed(Exercises!Script(kind)[j])
          PROVE  s2 \cap Exercises!Notices(kind) = {}
      <3>1. Passed("create_guard") /\ Passed("get")
        BY <2>1, <2>4
      <3> QED
        BY <2>2, <3>1 DEF Passed
    <2> QED
      BY <2>3, <2>4
  <1>2. CASE kind # "files"
    <2>1. Exercises!Script(kind) = <<"create", "create_guard", "conflict", "query", "multiget", "get",
                                     "delete">>
      BY <1>2 DEF Exercises!Script
    <2>2. Exercises!Notices(kind) \subseteq {"if_none_match", "if_match", "query", "multiget", "get"}
      BY <1>2 DEF Exercises!Notices, Exercises!Flaws
    <2>3. Len(Exercises!Script(kind)) = 7
      BY <2>1
    <2>4. ASSUME \A j \in 1 .. 6 : Passed(Exercises!Script(kind)[j])
          PROVE  s2 \cap Exercises!Notices(kind) = {}
      <3>1. /\ Passed("create_guard") /\ Passed("conflict") /\ Passed("query")
            /\ Passed("multiget") /\ Passed("get")
        BY <2>1, <2>4
      <3> QED
        BY <2>2, <3>1 DEF Passed
    <2> QED
      BY <2>3, <2>4
  <1> QED
    BY <1>1, <1>2

LEMMA TriedNext ==
    ASSUME s1 \in Seq(Listed), NEW n \in 1 .. Len(s1)
    PROVE  TriedBefore(n + 1) = TriedBefore(n) \cup (IF s1[n].readOnly THEN {} ELSE {s1[n].kind})
  <1>1. n + 1 - 1 = n /\ 1 .. n = (1 .. n - 1) \cup {n}
    OBVIOUS
  <1>2. CASE s1[n].readOnly
    BY <1>1, <1>2 DEF TriedBefore
  <1>3. CASE ~s1[n].readOnly
    BY <1>1, <1>3 DEF TriedBefore
  <1> QED
    BY <1>2, <1>3

LEMMA ExerciseStarts == Exercises!Init => ExerciseHolds
  <1> SUFFICES ASSUME Exercises!Init PROVE ExerciseHolds
    OBVIOUS
  <1>1. /\ s1 \in Seq(Listed) /\ s2 \subseteq Exercises!Flaws
        /\ s3 = [i \in 1 .. Len(s1) |-> 0] /\ s4 = 1 /\ s5 = {} /\ s6 = 0 /\ s7 = 0
        /\ s9 = "running"
    BY FindingsAssumption DEF Exercises!Init, Listed
  <1>2. TriedBefore(1) = {}
    BY DEF TriedBefore
  <1>3. Trying
    BY <1>1, <1>2 DEF Trying
  <1>4. ObjectsAccounted
    BY <1>1 DEF ObjectsAccounted
  <1>5. NoFlawSeen
    BY <1>1 DEF NoFlawSeen
  <1> QED
    BY <1>1, <1>3, <1>4, <1>5 DEF ExerciseHolds

(* An exercise ends: its object is removed, or counts as one that could not be. *)
LEMMA ExerciseEnds ==
    ASSUME ExerciseHolds, Exercises!InScript, s1' = s1, s2' = s2, s7' = s7, s9' = s9,
           NEW outcome, NEW held \in Nat, NEW bad \in BOOLEAN, Exercises!Leave(outcome, held, bad),
           ~bad => s2 \cap Exercises!Notices(s1[s4].kind) = {}
    PROVE  ExerciseHolds'
  <1>1. /\ s9 = "running" /\ s6 > 0 /\ s4 \in 1 .. Len(s1) /\ ~s1[s4].readOnly /\ Len(s1) \in Nat
        /\ s1 \in Seq(Listed) /\ s3 \in [1 .. Len(s1) -> Nat]
    BY DEF Exercises!InScript, Exercises!Running, ExerciseHolds, Trying
  <1> DEFINE left == IF outcome = "none" THEN held ELSE 0
  <1>2. /\ s3' = [s3 EXCEPT ![s4] = left]
        /\ s12' = (IF outcome = "none" THEN s12 \cup {s4} ELSE s12)
        /\ s8' = (s8 \/ bad) /\ s5' = s5 \cup {s1[s4].kind} /\ s4' = s4 + 1 /\ s6' = 0
    BY DEF Exercises!Leave, Exercises!Registered, Exercises!CleanedUp, Exercises!Current
  <1>3. left \in Nat /\ (left # 0 => outcome = "none")
    OBVIOUS
  <1> HIDE DEF left
  <1>4. TriedBefore(s4 + 1) = TriedBefore(s4) \cup {s1[s4].kind}
    BY <1>1, TriedNext
  <1>5. TriedBefore(s4)' = TriedBefore(s4 + 1)
    BY <1>2 DEF TriedBefore
  <1>6. s5' = TriedBefore(s4)'
    BY <1>2, <1>4, <1>5 DEF ExerciseHolds, Trying
  <1>7. Trying'
    <2>1. s3' \in [1 .. Len(s1) -> Nat]
      BY <1>1, <1>2, <1>3
    <2>2. s4' \in 1 .. Len(s1) + 1
      BY <1>1, <1>2
    <2> QED
      BY <1>2, <1>6, <2>1, <2>2 DEF ExerciseHolds, Trying
  <1>8. ObjectsAccounted'
    <2> SUFFICES ASSUME NEW i \in 1 .. Len(s1), s3'[i] # 0 PROVE i \in s12'
      BY DEF ObjectsAccounted
    <2>1. CASE i = s4
      BY <1>1, <1>2, <1>3, <2>1
    <2>2. CASE i # s4
      BY <1>1, <1>2, <2>2 DEF ExerciseHolds, ObjectsAccounted
    <2> QED
      BY <2>1, <2>2
  <1>9. \A kind : Exercises!Notices(kind)' = Exercises!Notices(kind)
    BY DEF Exercises!Notices, Exercises!Flaws
  <1>10. ASSUME ~s8' PROVE NoFlawSeen'
    <2>1. ~s8 /\ ~bad
      BY <1>2, <1>10
    <2>2. NoFlawSeen /\ s2 \cap Exercises!Notices(s1[s4].kind) = {}
      BY <2>1 DEF ExerciseHolds
    <2> QED
      BY <1>2, <1>9, <2>2 DEF NoFlawSeen
  <1> QED
    BY <1>1, <1>7, <1>8, <1>10 DEF ExerciseHolds

(* A step that is answered as expected shows that the server has not the flaw it looks for. *)
LEMMA ExpectedIsPassed ==
    ASSUME NEW held \in Nat, Exercises!Expected(held)
    PROVE  Passed(Exercises!Step)
  <1>1. CASE Exercises!Step = "create_guard"
    BY <1>1 DEF Exercises!Expected, Exercises!Refuses, Passed
  <1>2. CASE Exercises!Step = "conflict"
    BY <1>2 DEF Exercises!Expected, Exercises!Refuses, Passed
  <1>3. CASE Exercises!Step \in {"query", "multiget", "get"}
    BY <1>3 DEF Exercises!Expected, Passed
  <1>4. CASE Exercises!Step \notin {"create_guard", "conflict", "query", "multiget", "get"}
    BY <1>4 DEF Passed
  <1> QED
    BY <1>1, <1>2, <1>3, <1>4

LEMMA StoredIsVersion ==
    ASSUME NEW held \in Nat PROVE Exercises!Stored(held) \in Nat
  <1>1. CASE Exercises!Step = "create"
    BY <1>1 DEF Exercises!Stored
  <1>2. CASE Exercises!Step = "create_guard"
    BY <1>2 DEF Exercises!Stored
  <1>3. CASE Exercises!Step = "conflict"
    BY <1>3 DEF Exercises!Stored
  <1>4. CASE Exercises!Step = "delete"
    BY <1>4 DEF Exercises!Stored
  <1>5. CASE Exercises!Step \notin {"create", "create_guard", "conflict", "delete"}
    BY <1>5 DEF Exercises!Stored
  <1> QED
    BY <1>1, <1>2, <1>3, <1>4, <1>5

LEMMA ExerciseStep == ASSUME ExerciseHolds, [Exercises!Next]_(Exercises!vars) PROVE ExerciseHolds'
  <1>1. /\ s1 \in Seq(Listed) /\ Len(s1) \in Nat /\ s4 \in 1 .. Len(s1) + 1 /\ s6 \in Nat
        /\ s3 \in [1 .. Len(s1) -> Nat] /\ s7 \in Nat
    BY DEF ExerciseHolds, Trying
  <1>2. CASE Exercises!Skip
    <2>1. /\ s9 = "running" /\ s6 = 0 /\ s4 \in 1 .. Len(s1) /\ s4' = s4 + 1
          /\ s1[s4].readOnly \/ s1[s4].kind \in s5
          /\ UNCHANGED <<s1, s2, s3, s5, s6, s7, s8, s9, s12>>
      BY <1>1, <1>2 DEF Exercises!Skip, Exercises!Running, Exercises!Current
    <2>2. TriedBefore(s4 + 1) = s5
      BY <1>1, <2>1, TriedNext DEF ExerciseHolds, Trying
    <2>3. TriedBefore(s4)' = TriedBefore(s4 + 1)
      BY <2>1 DEF TriedBefore
    <2>4. Trying'
      BY <1>1, <2>1, <2>2, <2>3 DEF ExerciseHolds, Trying
    <2>5. ObjectsAccounted'
      BY <2>1 DEF ExerciseHolds, ObjectsAccounted
    <2>6. NoFlawSeen' = NoFlawSeen
      BY <2>1 DEF NoFlawSeen, Exercises!Notices, Exercises!Flaws
    <2> QED
      BY <2>1, <2>4, <2>5, <2>6 DEF ExerciseHolds
  <1>3. CASE Exercises!Begin
    <2>1. /\ s9 = "running" /\ s6 = 0 /\ s4 <= Len(s1) /\ s6' = 1 /\ s7' = 0 /\ ~s1[s4].readOnly
          /\ UNCHANGED <<s1, s2, s3, s4, s5, s8, s9, s12>>
      BY <1>3 DEF Exercises!Begin, Exercises!Running, Exercises!Current
    <2>2. Len(Exercises!Script(s1[s4].kind)) \in {4, 7}
      BY Scripts
    <2>3. TriedBefore(s4)' = TriedBefore(s4) /\ Exercises!Script(s1[s4].kind)' = Exercises!Script(s1[s4].kind)
      BY <2>1 DEF TriedBefore, Exercises!Script
    <2>a. 1 <= Len(Exercises!Script(s1[s4].kind)) /\ 1 .. s6' - 1 = {}
      <3>1. 1 .. s6' - 1 = {}
        BY <2>1
      <3>2. \A n \in {4, 7} : 1 <= n
        OBVIOUS
      <3> QED
        BY <2>2, <3>1, <3>2
    <2>4. Trying'
      BY <1>1, <2>1, <2>3, <2>a DEF ExerciseHolds, Trying
    <2>5. ObjectsAccounted'
      BY <2>1 DEF ExerciseHolds, ObjectsAccounted
    <2>6. NoFlawSeen' = NoFlawSeen
      BY <2>1 DEF NoFlawSeen, Exercises!Notices, Exercises!Flaws
    <2> QED
      BY <2>1, <2>4, <2>5, <2>6 DEF ExerciseHolds
  <1>4. CASE Exercises!Proceed
    <2> DEFINE script == Exercises!Script(s1[s4].kind)
    <2>1. /\ s9 = "running" /\ s6 > 0 /\ s4 \in 1 .. Len(s1) /\ ~s1[s4].readOnly
          /\ s6 < Len(script) /\ Exercises!Expected(s3[s4]) /\ s6' = s6 + 1
          /\ s3' = [s3 EXCEPT ![s4] = Exercises!Stored(s3[s4])]
          /\ s7' \in {0, 1, s7}
          /\ UNCHANGED <<s1, s2, s4, s5, s8, s9, s12>>
      BY <1>1, <1>4 DEF Exercises!Proceed, Exercises!InScript, Exercises!Running, Exercises!Current,
                        ExerciseHolds, Trying
    <2>2. Passed(script[s6])
      BY <1>1, <2>1, ExpectedIsPassed DEF Exercises!Step, Exercises!Current
    <2>3. Exercises!Stored(s3[s4]) \in Nat
      BY <1>1, <2>1, StoredIsVersion
    <2>4. \A name : Passed(name)' = Passed(name)
      BY <2>1 DEF Passed
    <2>5. TriedBefore(s4)' = TriedBefore(s4) /\ script' = script
      BY <2>1 DEF TriedBefore, Exercises!Script
    <2>6. \A j \in 1 .. s6 - 1 : Passed(script[j])
      BY <2>1 DEF ExerciseHolds, Trying
    <2> HIDE DEF script
    <2>7. \A j \in 1 .. s6' - 1 : Passed(script[j])'
      <3> SUFFICES ASSUME NEW j \in 1 .. s6 PROVE Passed(script[j])'
        BY <1>1, <2>1
      <3>1. Passed(script[j])
        BY <1>1, <2>2, <2>6
      <3> QED
        BY <2>4, <2>5, <3>1
    <2>8. s3' \in [1 .. Len(s1) -> Nat] /\ s7' \in Nat /\ Len(script) \in Nat
      <3>1. Len(script) \in {4, 7}
        BY Scripts DEF script
      <3> QED
        BY <1>1, <2>1, <2>3, <3>1
    <2>9. Trying'
      BY <1>1, <2>1, <2>5, <2>7, <2>8 DEF ExerciseHolds, Trying, script
    <2>10. ObjectsAccounted'
      BY <1>1, <2>1 DEF ExerciseHolds, ObjectsAccounted
    <2>11. NoFlawSeen' = NoFlawSeen
      BY <2>1 DEF NoFlawSeen, Exercises!Notices, Exercises!Flaws
    <2> QED
      BY <2>1, <2>9, <2>10, <2>11 DEF ExerciseHolds
  <1>5. ASSUME NEW removal, NEW sent, Exercises!Fail(sent, removal) PROVE ExerciseHolds'
    <2>1. Exercises!InScript /\ s1' = s1 /\ s2' = s2 /\ s7' = s7 /\ s9' = s9
      BY <1>5 DEF Exercises!Fail
    <2>2. PICK held : /\ held = (IF sent = "none" THEN s3[s4] ELSE Exercises!Stored(s3[s4]))
                      /\ Exercises!Leave(removal, held, TRUE)
      BY <1>5 DEF Exercises!Fail
    <2>3. s4 \in 1 .. Len(s1)
      BY <1>1, <2>1 DEF Exercises!InScript, ExerciseHolds, Trying
    <2>4. held \in Nat
      BY <1>1, <2>2, <2>3, StoredIsVersion
    <2> QED
      BY <2>1, <2>2, <2>4, ExerciseEnds
  <1>6. ASSUME NEW removal, Exercises!Finish(removal) PROVE ExerciseHolds'
    <2>1. Exercises!InScript /\ s1' = s1 /\ s2' = s2 /\ s7' = s7 /\ s9' = s9
      BY <1>6 DEF Exercises!Finish
    <2>2. PICK held : /\ held = Exercises!Stored(s3[s4])
                      /\ Exercises!Leave(removal, held, FALSE)
      BY <1>6 DEF Exercises!Finish
    <2>3. s4 \in 1 .. Len(s1) /\ s6 > 0
      BY <1>1, <2>1 DEF Exercises!InScript, ExerciseHolds, Trying
    <2>4. held \in Nat
      BY <1>1, <2>2, <2>3, StoredIsVersion
    <2>5. s6 = Len(Exercises!Script(s1[s4].kind))
      BY <1>6 DEF Exercises!Finish, Exercises!Current
    <2>6. \A j \in 1 .. Len(Exercises!Script(s1[s4].kind)) - 1 : Passed(Exercises!Script(s1[s4].kind)[j])
      BY <2>3, <2>5 DEF ExerciseHolds, Trying
    <2>7. s2 \cap Exercises!Notices(s1[s4].kind) = {}
      BY <2>6, Scripts
    <2> QED
      BY <2>1, <2>2, <2>4, <2>7, ExerciseEnds
  <1>7. CASE Exercises!Tell
    <2>1. /\ s9 = "running" /\ s6 = 0 /\ s4 > Len(s1) /\ s9' = IF s8 THEN "failed" ELSE "ok"
          /\ UNCHANGED <<s1, s2, s3, s4, s5, s6, s7, s8, s12>>
      BY <1>7 DEF Exercises!Tell, Exercises!Running
    <2>2. s4 = Len(s1) + 1
      BY <1>1, <2>1
    <2>3. s5 = Exercises!Writable
      BY <1>1, <2>2 DEF ExerciseHolds, Trying, TriedBefore, Exercises!Writable
    <2>4. Exercises!Writable' = Exercises!Writable /\ TriedBefore(s4)' = TriedBefore(s4)
      BY <2>1 DEF Exercises!Writable, TriedBefore
    <2>5. Trying' /\ ObjectsAccounted'
      BY <2>1, <2>4 DEF ExerciseHolds, Trying, ObjectsAccounted
    <2>6. NoFlawSeen' = NoFlawSeen
      BY <2>1 DEF NoFlawSeen, Exercises!Notices, Exercises!Flaws
    <2> QED
      BY <2>1, <2>3, <2>4, <2>5, <2>6 DEF ExerciseHolds
  <1>8. ASSUME UNCHANGED <<s1, s2, s3, s4, s5, s6, s7, s8, s9, s12>> PROVE ExerciseHolds'
    <2>1. /\ Exercises!Writable' = Exercises!Writable /\ TriedBefore(s4)' = TriedBefore(s4)
          /\ \A kind : Exercises!Script(kind)' = Exercises!Script(kind)
      BY <1>8 DEF Exercises!Writable, TriedBefore, Exercises!Script
    <2>2. \A name : Passed(name)' = Passed(name)
      BY <1>8 DEF Passed
    <2>3. Trying' /\ ObjectsAccounted'
      BY <1>8, <2>1, <2>2 DEF ExerciseHolds, Trying, ObjectsAccounted
    <2>4. NoFlawSeen' = NoFlawSeen
      BY <1>8 DEF NoFlawSeen, Exercises!Notices, Exercises!Flaws
    <2> QED
      BY <1>8, <2>1, <2>3, <2>4 DEF ExerciseHolds
  <1>9. CASE Exercises!Expire
    BY <1>8, <1>9 DEF Exercises!Expire
  <1>10. CASE UNCHANGED Exercises!vars
    BY <1>8, <1>10 DEF Exercises!vars
  <1> QED
    BY <1>2, <1>3, <1>4, <1>5, <1>6, <1>7, <1>9, <1>10 DEF Exercises!Next

LEMMA ExerciseShows == ExerciseHolds => Exercises!TestsCleanly
  BY DEF ExerciseHolds, Trying, ObjectsAccounted, NoFlawSeen, Exercises!TestsCleanly

-----------------------------------------------------------------------------
(* Induction over the natural numbers. *)
LessThan == {ss \in Nat \X Nat : ss[1] < ss[2]}

LEMMA NatInductive ==
    ASSUME NEW P, 0 \in P, \A i \in Nat : i \in P => i + 1 \in P
    PROVE  Nat \subseteq P
  <1> SUFFICES ASSUME Nat \ P # {} PROVE FALSE
    OBVIOUS
  <1>1. IsWellFoundedOn(LessThan, Nat)
    BY NatLessThanWellFounded DEF OpToRel, LessThan
  <1>2. PICK x \in Nat \ P : \A y \in Nat \ P : ~ (<<y, x>> \in LessThan)
    <2>1. Nat \ P \subseteq Nat
      OBVIOUS
    <2> QED
      BY <1>1, <2>1, WFMin
  <1>3. x # 0 /\ x - 1 \in Nat
    OBVIOUS
  <1>4. <<x - 1, x>> \in Nat \X Nat /\ <<x - 1, x>>[1] < <<x - 1, x>>[2]
    BY <1>3
  <1>5. x - 1 \in P
    BY <1>2, <1>3, <1>4 DEF LessThan
  <1> QED
    BY <1>3, <1>5

-----------------------------------------------------------------------------
(* Lists: the entries of one, and rows of which each has a path of its own. *)
In(list) == {list[i] : i \in DOMAIN list}
IsList(list) == list \in Seq(In(list))
Unique(cols) == \A m, n \in DOMAIN cols : cols[m].path = cols[n].path => m = n
InOrder(list, R) == \A m, n \in DOMAIN list : m < n => <<list[m], list[n]>> \in R

LEMMA Lists ==
    ASSUME NEW list, IsList(list)
    PROVE  /\ Len(list) \in Nat /\ DOMAIN list = 1 .. Len(list)
           /\ list = [i \in 1 .. Len(list) |-> list[i]]
  BY DEF IsList

LEMMA ListOfAny ==
    ASSUME NEW T, NEW list \in Seq(T)
    PROVE  IsList(list) /\ In(list) \subseteq T
  <1>1. /\ Len(list) \in Nat /\ DOMAIN list = 1 .. Len(list)
        /\ list = [i \in 1 .. Len(list) |-> list[i]] /\ \A i \in 1 .. Len(list) : list[i] \in T
    OBVIOUS
  <1>2. \A i \in 1 .. Len(list) : list[i] \in In(list)
    BY <1>1 DEF In
  <1>3. list \in [1 .. Len(list) -> In(list)]
    BY <1>1, <1>2
  <1> QED
    BY <1>1, <1>3 DEF IsList, In

LEMMA ListAppended ==
    ASSUME NEW list, IsList(list), NEW x
    PROVE  /\ IsList(Append(list, x)) /\ In(Append(list, x)) = In(list) \cup {x}
           /\ (Unique(list) /\ \A y \in In(list) : y.path # x.path) => Unique(Append(list, x))
  <1> DEFINE T == In(list) \cup {x}
             u == Append(list, x)
  <1>1. list \in Seq(T) /\ x \in T
    BY DEF IsList
  <1>2. u \in Seq(T) /\ Len(u) = Len(list) + 1 /\ u[Len(list) + 1] = x
        /\ \A i \in 1 .. Len(list) : u[i] = list[i]
    BY <1>1, AppendProperties
  <1>3. IsList(u) /\ In(u) \subseteq T
    BY <1>2, ListOfAny
  <1>4. /\ Len(list) \in Nat /\ DOMAIN list = 1 .. Len(list) /\ DOMAIN u = 1 .. Len(list) + 1
    BY <1>1, <1>2
  <1> HIDE DEF u
  <1>5. T \subseteq In(u)
    <2>1. \A i \in 1 .. Len(list) : i \in DOMAIN u /\ u[i] = list[i]
      BY <1>2, <1>4
    <2>2. Len(list) + 1 \in DOMAIN u
      BY <1>4
    <2> QED
      BY <1>2, <1>4, <2>1, <2>2 DEF In
  <1>6. ASSUME Unique(list), \A y \in In(list) : y.path # x.path PROVE Unique(u)
    <2> SUFFICES ASSUME NEW m \in DOMAIN u, NEW n \in DOMAIN u, u[m].path = u[n].path
                 PROVE  m = n
      BY DEF Unique
    <2>1. \A i \in 1 .. Len(list) : list[i] \in In(list) /\ u[i].path # x.path
      BY <1>2, <1>4, <1>6 DEF In
    <2>2. CASE m \in 1 .. Len(list) /\ n \in 1 .. Len(list)
      BY <1>2, <1>4, <1>6, <2>2 DEF Unique
    <2>3. CASE m = Len(list) + 1 \/ n = Len(list) + 1
      BY <1>2, <1>4, <2>1, <2>3
    <2> QED
      BY <1>4, <2>2, <2>3
  <1> QED
    BY <1>3, <1>5, <1>6 DEF u

LEMMA OrderAppended ==
    ASSUME NEW list, IsList(list), NEW x, NEW R, InOrder(list, R), \A y \in In(list) : <<y, x>> \in R
    PROVE  InOrder(Append(list, x), R)
  <1> DEFINE T == In(list) \cup {x}
             u == Append(list, x)
  <1>1. list \in Seq(T) /\ x \in T
    BY DEF IsList
  <1>2. u \in Seq(T) /\ Len(u) = Len(list) + 1 /\ u[Len(list) + 1] = x
        /\ \A i \in 1 .. Len(list) : u[i] = list[i]
    BY <1>1, AppendProperties
  <1>3. /\ Len(list) \in Nat /\ DOMAIN list = 1 .. Len(list) /\ DOMAIN u = 1 .. Len(list) + 1
    BY <1>1, <1>2
  <1> HIDE DEF u
  <1> SUFFICES ASSUME NEW m \in DOMAIN u, NEW n \in DOMAIN u, m < n PROVE <<u[m], u[n]>> \in R
    BY DEF InOrder, u
  <1>4. m \in DOMAIN list /\ u[m] = list[m] /\ list[m] \in In(list)
    BY <1>2, <1>3 DEF In
  <1>5. CASE n = Len(list) + 1
    BY <1>2, <1>4, <1>5
  <1>6. CASE n \in DOMAIN list
    <2>1. u[n] = list[n]
      BY <1>2, <1>3, <1>6
    <2> QED
      BY <1>4, <1>6, <2>1 DEF InOrder
  <1> QED
    BY <1>3, <1>5, <1>6

LEMMA EmptyList == IsList(<<>>) /\ In(<<>>) = {} /\ Unique(<<>>)
  <1>1. <<>> \in Seq({}) /\ DOMAIN <<>> = {}
    OBVIOUS
  <1> QED
    BY <1>1, ListOfAny DEF In, Unique

(* What is kept of a list: Within. *)
LEMMA KeptInOrder ==
    ASSUME NEW seq, IsList(seq), NEW S, NEW R
    PROVE  /\ IsList(Accounts!Within(seq, S)) /\ In(Accounts!Within(seq, S)) = In(seq) \cap S
           /\ InOrder(seq, R) => InOrder(Accounts!Within(seq, S), R)
  <1> DEFINE n == Len(seq)
             Step(w, i) == IF seq[i] \in S THEN Append(w, seq[i]) ELSE w
             Keeping(h, m) == h = [i \in 0 .. m |-> IF i = 0 THEN <<>> ELSE Step(h[i - 1], i)]
             kept == CHOOSE h : Keeping(h, n)
  <1>1. n \in Nat /\ DOMAIN seq = 1 .. n
    BY Lists
  <1>2. \E h : Keeping(h, n)
    <2> DEFINE P == {m \in Nat : \E h : Keeping(h, m)}
    <2>1. 0 \in P
      <3>1. Keeping([i \in 0 .. 0 |-> <<>>], 0)
        OBVIOUS
      <3> QED
        BY <3>1
    <2>2. ASSUME NEW m \in Nat, m \in P PROVE m + 1 \in P
      <3>1. PICK h : Keeping(h, m)
        BY <2>2
      <3> DEFINE g == [i \in 0 .. m + 1 |-> IF i = m + 1 THEN Step(h[m], m + 1) ELSE h[i]]
      <3>2. \A i \in 0 .. m + 1 : g[i] = IF i = m + 1 THEN Step(h[m], m + 1) ELSE h[i]
        OBVIOUS
      <3>3. DOMAIN g = 0 .. m + 1 /\ g = [i \in 0 .. m + 1 |-> g[i]]
        OBVIOUS
      <3> HIDE DEF Step, g
      <3>4. \A i \in 0 .. m : h[i] = IF i = 0 THEN <<>> ELSE Step(h[i - 1], i)
        BY <3>1
      <3>5. ASSUME NEW i \in 0 .. m + 1
            PROVE  g[i] = IF i = 0 THEN <<>> ELSE Step(g[i - 1], i)
        <4>1. CASE i = m + 1
          <5>1. i # 0 /\ i - 1 = m /\ i - 1 # m + 1 /\ i - 1 \in 0 .. m + 1
            BY <4>1
          <5> QED
            BY <3>2, <4>1, <5>1
        <4>2. CASE i \in 0 .. m
          <5>1. i # m + 1 /\ (i # 0 => i - 1 \in 0 .. m + 1 /\ i - 1 # m + 1)
            BY <4>2
          <5> QED
            BY <3>2, <3>4, <4>2, <5>1
        <4> QED
          BY <4>1, <4>2
      <3>6. Keeping(g, m + 1)
        BY <3>3, <3>5
      <3> QED
        BY <3>6
    <2> HIDE DEF P
    <2>3. n \in P
      BY <2>1, <2>2, <1>1, NatInductive
    <2> QED
      BY <2>3 DEF P
  <1>3. Keeping(kept, n)
    BY <1>2
  <1>4. Accounts!Within(seq, S) = kept[n]
    BY DEF Accounts!Within
  <1> HIDE DEF kept
  <1>5. kept[0] = <<>> /\ \A i \in 0 .. n - 1 : kept[i + 1] = Step(kept[i], i + 1)
    <2> HIDE DEF Step
    <2> QED
      BY <1>1, <1>3
  <1> DEFINE Sound(i) == /\ IsList(kept[i]) /\ In(kept[i]) = {seq[j] : j \in 1 .. i} \cap S
                         /\ InOrder(seq, R) => InOrder(kept[i], R)
             Q == {i \in Nat : i <= n => Sound(i)}
  <1>6. 0 \in Q
    <2>3. {seq[j] : j \in 1 .. 0} = {}
      OBVIOUS
    <2>4. kept[0] = <<>>
      BY <1>5
    <2>5. IsList(kept[0]) /\ In(kept[0]) = {} /\ InOrder(kept[0], R)
      BY <2>4, EmptyList DEF InOrder
    <2>6. Sound(0)
      BY <2>3, <2>5
    <2> HIDE DEF Sound
    <2> QED
      BY <2>6
  <1>7. ASSUME NEW i \in Nat, i \in Q PROVE i + 1 \in Q
    <2> SUFFICES ASSUME i + 1 <= n PROVE Sound(i + 1)
      OBVIOUS
    <2>1. Sound(i) /\ kept[i + 1] = Step(kept[i], i + 1)
      BY <1>1, <1>5, <1>7
    <2>2. {seq[j] : j \in 1 .. i + 1} = {seq[j] : j \in 1 .. i} \cup {seq[i + 1]}
      OBVIOUS
    <2>3. CASE seq[i + 1] \notin S
      BY <2>1, <2>2, <2>3
    <2>4. CASE seq[i + 1] \in S
      <3>1. ASSUME InOrder(seq, R), NEW y \in In(kept[i]) PROVE <<y, seq[i + 1]>> \in R
        <4>a. In(kept[i]) = {seq[j] : j \in 1 .. i} \cap S
          BY <2>1
        <4>b. y \in {seq[j] : j \in 1 .. i}
          BY <3>1, <4>a
        <4>1. PICK j \in 1 .. i : y = seq[j]
          BY <4>b
        <4>2. j \in DOMAIN seq /\ i + 1 \in DOMAIN seq /\ j < i + 1
          BY <1>1
        <4> QED
          BY <3>1, <4>1, <4>2 DEF InOrder
      <3>2. kept[i + 1] = Append(kept[i], seq[i + 1])
        BY <2>1, <2>4
      <3>3. IsList(kept[i]) /\ In(kept[i]) = {seq[j] : j \in 1 .. i} \cap S
        BY <2>1
      <3>4. IsList(kept[i + 1]) /\ In(kept[i + 1]) = In(kept[i]) \cup {seq[i + 1]}
        BY <3>2, <3>3, ListAppended
      <3>5. ASSUME InOrder(seq, R) PROVE InOrder(kept[i + 1], R)
        <4>1. InOrder(kept[i], R) /\ \A y \in In(kept[i]) : <<y, seq[i + 1]>> \in R
          BY <2>1, <3>1, <3>5
        <4>2. InOrder(Append(kept[i], seq[i + 1]), R)
          BY <3>3, <4>1, OrderAppended
        <4> QED
          BY <3>2, <4>2
      <3>6. In(kept[i + 1]) = {seq[j] : j \in 1 .. i + 1} \cap S
        BY <2>2, <2>4, <3>3, <3>4
      <3> QED
        BY <3>4, <3>5, <3>6
    <2> QED
      BY <2>3, <2>4
  <1> HIDE DEF Q
  <1>8. n \in Q
    BY <1>1, <1>6, <1>7, NatInductive
  <1>9. Sound(n)
    BY <1>1, <1>8 DEF Q
  <1>10. In(seq) = {seq[j] : j \in 1 .. n}
    BY <1>1 DEF In
  <1>11. /\ IsList(kept[n]) /\ In(kept[n]) = {seq[j] : j \in 1 .. n} \cap S
         /\ InOrder(seq, R) => InOrder(kept[n], R)
    BY <1>9
  <1> HIDE DEF n
  <1> QED
    BY <1>4, <1>10, <1>11

LEMMA Kept ==
    ASSUME NEW seq, IsList(seq), NEW S
    PROVE  /\ IsList(Accounts!Within(seq, S)) /\ In(Accounts!Within(seq, S)) = In(seq) \cap S
           /\ Unique(seq) => Unique(Accounts!Within(seq, S))
  <1> DEFINE R == {p \in In(seq) \X In(seq) : p[1].path # p[2].path}
             r == Accounts!Within(seq, S)
  <1>1. /\ IsList(r) /\ In(r) = In(seq) \cap S
        /\ InOrder(seq, R) => InOrder(r, R)
    BY KeptInOrder
  <1> HIDE DEF r
  <1>2. ASSUME Unique(seq) PROVE InOrder(seq, R)
    <2> SUFFICES ASSUME NEW m \in DOMAIN seq, NEW n \in DOMAIN seq, m < n
                 PROVE  <<seq[m], seq[n]>> \in R
      BY DEF InOrder
    <2>1. m # n /\ seq[m] \in In(seq) /\ seq[n] \in In(seq)
      BY Lists DEF In
    <2> QED
      BY <1>2, <2>1 DEF Unique
  <1>3. ASSUME InOrder(r, R) PROVE Unique(r)
    <2> SUFFICES ASSUME NEW m \in DOMAIN r, NEW n \in DOMAIN r, r[m].path = r[n].path PROVE m = n
      BY DEF Unique
    <2>1. \A k, l \in DOMAIN r : k < l => r[k].path # r[l].path
      BY <1>3 DEF InOrder
    <2>2. m \in Nat /\ n \in Nat
      BY <1>1, Lists
    <2>3. ~(m < n) /\ ~(n < m)
      BY <2>1
    <2> QED
      BY <2>2, <2>3
  <1> QED
    BY <1>1, <1>2, <1>3 DEF r

(* The head of what is kept is an entry of both. *)
LEMMA KeptHead ==
    ASSUME NEW seq, IsList(seq), NEW S
    PROVE  /\ Accounts!Within(seq, S) # <<>> => Head(Accounts!Within(seq, S)) \in In(seq) \cap S
           /\ Accounts!Within(seq, S) = <<>> <=> In(seq) \cap S = {}
  <1> DEFINE r == Accounts!Within(seq, S)
  <1>1. IsList(r) /\ In(r) = In(seq) \cap S
    BY Kept
  <1> HIDE DEF r
  <1>2. r \in Seq(In(r)) /\ Len(r) \in Nat /\ DOMAIN r = 1 .. Len(r)
    BY <1>1, Lists DEF IsList
  <1>3. r # <<>> => Head(r) = r[1] /\ 1 \in DOMAIN r
    BY <1>2
  <1>4. r = <<>> => DOMAIN r = {}
    OBVIOUS
  <1> QED
    BY <1>1, <1>3, <1>4 DEF r, In

(* Lists one after the other. *)
LEMMA ListsJoined ==
    ASSUME NEW u, NEW v, IsList(u), IsList(v), Unique(u), Unique(v),
           \A x \in In(u), y \in In(v) : x.path # y.path
    PROVE  IsList(u \o v) /\ In(u \o v) = In(u) \cup In(v) /\ Unique(u \o v)
  <1> DEFINE w == u \o v
             T == In(u) \cup In(v)
             p == Len(u)
             q == Len(v)
  <1>1. /\ p \in Nat /\ q \in Nat /\ DOMAIN u = 1 .. p /\ DOMAIN v = 1 .. q
        /\ u \in Seq(T) /\ v \in Seq(T)
    BY Lists DEF IsList
  <1>2. /\ w \in Seq(T) /\ Len(w) = p + q /\ DOMAIN w = 1 .. p + q
        /\ \A i \in 1 .. p + q : w[i] = IF i <= p THEN u[i] ELSE v[i - p]
    BY <1>1, ConcatProperties
  <1>3. IsList(w) /\ In(w) \subseteq T
    BY <1>2, ListOfAny
  <1> HIDE DEF w
  <1>4. \A i \in 1 .. p : i \in 1 .. p + q /\ w[i] = u[i]
    BY <1>1, <1>2
  <1>5. \A i \in 1 .. q : p + i \in 1 .. p + q /\ w[p + i] = v[i]
    <2> SUFFICES ASSUME NEW i \in 1 .. q PROVE p + i \in 1 .. p + q /\ w[p + i] = v[i]
      OBVIOUS
    <2>1. p + i \in 1 .. p + q /\ ~(p + i <= p) /\ p + i - p = i
      BY <1>1
    <2> QED
      BY <1>2, <2>1
  <1>6. T \subseteq In(w)
    <2>1. \A i \in 1 .. p : u[i] \in In(w)
      BY <1>2, <1>4 DEF In
    <2>2. \A i \in 1 .. q : v[i] \in In(w)
      <3> SUFFICES ASSUME NEW i \in 1 .. q PROVE v[i] \in In(w)
        OBVIOUS
      <3>1. p + i \in DOMAIN w /\ w[p + i] = v[i]
        BY <1>2, <1>5
      <3> QED
        BY <3>1 DEF In
    <2>3. In(u) \subseteq In(w)
      BY <1>1, <2>1 DEF In
    <2>4. In(v) \subseteq In(w)
      BY <1>1, <2>2 DEF In
    <2> QED
      BY <2>3, <2>4
  <1>7. ASSUME NEW m \in 1 .. p + q, NEW n \in 1 .. p + q, w[m].path = w[n].path PROVE m = n
    <2>1. \A i \in 1 .. p + q : i <= p \/ (i > p /\ i - p \in 1 .. q)
      BY <1>1
    <2>2. CASE m <= p /\ n <= p
      BY <1>1, <1>4, <1>7, <2>2 DEF Unique
    <2>3. CASE m > p /\ n > p
      <3>1. m - p \in 1 .. q /\ n - p \in 1 .. q /\ w[m] = v[m - p] /\ w[n] = v[n - p]
        BY <1>1, <1>2, <2>1, <2>3
      <3>2. m - p = n - p
        BY <1>1, <1>7, <3>1 DEF Unique
      <3> QED
        BY <1>1, <3>2
    <2>4. CASE m <= p /\ n > p
      <3>1. w[m] \in In(u)
        BY <1>1, <1>4, <2>4 DEF In
      <3>2. n - p \in DOMAIN v /\ w[n] = v[n - p]
        BY <1>1, <1>2, <2>4
      <3>3. w[n] \in In(v)
        BY <3>2 DEF In
      <3> QED
        BY <1>7, <3>1, <3>3
    <2>5. CASE m > p /\ n <= p
      <3>1. w[n] \in In(u)
        BY <1>1, <1>4, <2>5 DEF In
      <3>2. m - p \in DOMAIN v /\ w[m] = v[m - p]
        BY <1>1, <1>2, <2>5
      <3>3. w[m] \in In(v)
        BY <3>2 DEF In
      <3> QED
        BY <1>7, <3>1, <3>3
    <2> QED
      BY <1>1, <2>2, <2>3, <2>4, <2>5
  <1>8. Unique(w)
    BY <1>2, <1>7 DEF Unique
  <1> QED
    BY <1>3, <1>6, <1>8 DEF w
-----------------------------------------------------------------------------
(* Connections.  The principal every discovery names. *)
Who == IF Entered = {} THEN Accounts!NoPath ELSE Principal(CHOOSE e \in Entered : TRUE, {})

(* A folder of files that may be offered. *)
Good(path) ==
    Who # Accounts!NoPath =>
        /\ ~Accounts!HoldsService(path, SiteMC.calHome, SiteMC.abHome, Who)
        /\ path \in DOMAIN TreeMC => TreeMC[path].types \cap {"calendar", "addressbook"} = {}

GoodRow(row) == row.kind = "files" => Good(row.path)
GoodRows(cols) == IsList(cols) /\ Unique(cols) /\ \A row \in In(cols) : GoodRow(row)

AccountFields == {"id", "base", "principal", "cols"}
GoodAccount(acc) == DOMAIN acc = AccountFields /\ acc.principal = Who /\ GoodRows(acc.cols)
GoodAccounts(list) == IsList(list) /\ \A acc \in In(list) : GoodAccount(acc)
GoodFinding(found) == found.principal = Who /\ GoodRows(found.collections)

(* What a request carries from one of its steps to the next. *)
GoodTab(tab) ==
    /\ tab.op \in {"connect", "edit"} => GoodFinding(tab.found)
    /\ tab.op = "create" => tab.kind \in {"calendar", "addressbook"}
    /\ tab.op \in {"rename", "refresh"} => (tab.kind = "files" => Good(tab.path))
    /\ tab.op = "upsert" => GoodRow(tab.col)
GoodTabs(tabs) == DOMAIN tabs = OpenTabs /\ \A t \in OpenTabs : GoodTab(tabs[t])

(* No collection becomes a folder of files. *)
EntryFields == {"types", "name", "privileges", "comps"}
Trees == {"calendar", "addressbook"}
GoodEntry(path, entry) ==
    /\ DOMAIN entry = EntryFields /\ ~(Trees \subseteq entry.types)
    /\ entry.types \cap Trees = {} /\ path \in DOMAIN TreeMC => TreeMC[path].types \cap Trees = {}
GoodTree(tree) == IsFiniteSet(DOMAIN tree) /\ \A p \in DOMAIN tree : GoodEntry(p, tree[p])

Choice == "no choice"
AccountsHold ==
    /\ GoodTree(s1) /\ GoodAccounts(s2) /\ GoodTabs(s7)
    /\ s3 = Accounts!NoChoice \/ <<Choice>> \notin s3

-----------------------------------------------------------------------------
(* Discovery. *)
LEMMA CountsAgree == \A S : Accounts!Cardinality(S) = Cardinality(S)
  BY DEF Accounts!Cardinality, Cardinality

LEMMA SetAsList ==
    ASSUME NEW S, IsFiniteSet(S)
    PROVE  /\ IsList(Accounts!SetToSeq(S)) /\ In(Accounts!SetToSeq(S)) \subseteq S
           /\ (\A x, y \in S : x.path = y.path => x = y) => Unique(Accounts!SetToSeq(S))
  <1> DEFINE n == Cardinality(S)
             list == Accounts!SetToSeq(S)
  <1>1. n \in Nat /\ ExistsBijection(1 .. n, S)
    BY FS_CardinalityType
  <1>2. PICK f : f \in Bijection(1 .. n, S)
    BY <1>1 DEF ExistsBijection
  <1>3. f \in [1 .. n -> S] /\ \A i, j \in 1 .. n : f[i] = f[j] => i = j
    BY <1>2 DEF Bijection, Injection, IsInjective
  <1>4. Accounts!IsInjective(f)
    BY <1>3 DEF Accounts!IsInjective
  <1>5. list \in [1 .. n -> S] /\ Accounts!IsInjective(list)
    BY <1>3, <1>4, CountsAgree DEF Accounts!SetToSeq
  <1> HIDE DEF list
  <1>6. list \in Seq(S) /\ DOMAIN list = 1 .. n
    BY <1>1, <1>5
  <1>7. ASSUME \A x, y \in S : x.path = y.path => x = y,
               NEW i \in 1 .. n, NEW j \in 1 .. n, list[i].path = list[j].path
        PROVE  i = j
    <2>1. list[i] \in S /\ list[j] \in S
      BY <1>5
    <2>2. list[i] = list[j]
      BY <1>7, <2>1
    <2> QED
      BY <1>5, <1>6, <2>2 DEF Accounts!IsInjective
  <1>8. (\A x, y \in S : x.path = y.path => x = y) => Unique(list)
    BY <1>6, <1>7 DEF Unique
  <1>9. IsList(list) /\ In(list) \subseteq S
    BY <1>6, ListOfAny
  <1> QED
    BY <1>8, <1>9 DEF list

(* One listing: rows of one kind, each of a path of the tree that is of that kind. *)
LEMMA ListingGood ==
    ASSUME NEW tree, IsFiniteSet(DOMAIN tree), NEW home, NEW kind
    PROVE  LET list == Accounts!ListCollections(tree, home, kind)
           IN  /\ IsList(list) /\ Unique(list)
               /\ \A row \in In(list) : /\ row.kind = kind /\ row.path \in DOMAIN tree
                                        /\ Accounts!OfKind(tree[row.path].types, kind)
  <1> DEFINE P == {p \in Accounts!Children(tree, home) : Accounts!OfKind(tree[p].types, kind)}
             S == {Accounts!DecodeCollection(tree, p, kind) : p \in P}
  <1>1. P \subseteq DOMAIN tree
    BY DEF Accounts!Children
  <1>2. IsFiniteSet(P)
    BY <1>1, FS_Subset
  <1>3. IsFiniteSet(S)
    <2> HIDE DEF P
    <2> DEFINE f == [p \in P |-> Accounts!DecodeCollection(tree, p, kind)]
    <2>1. f \in Surjection(P, S)
      BY DEF Surjection
    <2> QED
      BY <1>2, <2>1, FS_Surjection
  <1>4. \A p : /\ Accounts!DecodeCollection(tree, p, kind).path = p
               /\ Accounts!DecodeCollection(tree, p, kind).kind = kind
    BY DEF Accounts!DecodeCollection
  <1>5. \A x \in S : /\ x.kind = kind /\ x.path \in P
                     /\ x = Accounts!DecodeCollection(tree, x.path, kind)
    <2> SUFFICES ASSUME NEW x \in S
                 PROVE  /\ x.kind = kind /\ x.path \in P
                        /\ x = Accounts!DecodeCollection(tree, x.path, kind)
      OBVIOUS
    <2>1. PICK p \in P : x = Accounts!DecodeCollection(tree, p, kind)
      OBVIOUS
    <2> HIDE DEF S, P
    <2> QED
      BY <1>4, <2>1
  <1> HIDE DEF S
  <1>6. \A x, y \in S : x.path = y.path => x = y
    BY <1>5
  <1>7. Accounts!ListCollections(tree, home, kind) = Accounts!SetToSeq(S)
    BY DEF Accounts!ListCollections, S
  <1>8. /\ IsList(Accounts!SetToSeq(S)) /\ In(Accounts!SetToSeq(S)) \subseteq S
        /\ Unique(Accounts!SetToSeq(S))
    BY <1>3, <1>6, SetAsList
  <1> QED
    BY <1>1, <1>5, <1>7, <1>8

(* A path is of one kind. *)
LEMMA OneKind ==
    ASSUME NEW types, ~(Trees \subseteq types)
    PROVE  /\ ~(Accounts!OfKind(types, "calendar") /\ Accounts!OfKind(types, "addressbook"))
           /\ ~(Accounts!OfKind(types, "calendar") /\ Accounts!OfKind(types, "files"))
           /\ ~(Accounts!OfKind(types, "addressbook") /\ Accounts!OfKind(types, "files"))
           /\ Accounts!OfKind(types, "files") => types \cap Trees = {}
  BY DEF Trees, Accounts!OfKind

(* Every discovery names the same principal. *)
LEMMA SamePrincipal ==
    ASSUME NEW tree, NEW site,
           site = [wellKnown |-> SiteMC.wellKnown, principals |-> SiteMC.principals,
                   calHome |-> SiteMC.calHome, abHome |-> SiteMC.abHome, tree |-> tree],
           NEW entered \in Entered, NEW fails \in Faults \cup {{}}
    PROVE  Accounts!FindPrincipal(site, Accounts!ResolveBaseURL(site, entered, fails), fails).path = Who
  <1>1. site.wellKnown = SiteMC.wellKnown /\ site.principals = SiteMC.principals
    OBVIOUS
  <1>2. Accounts!ResolveBaseURL(site, entered, fails) = Accounts!ResolveBaseURL(SiteMC, entered, fails)
    BY <1>1 DEF Accounts!ResolveBaseURL
  <1>3. \A target, request : Accounts!PrincipalAt(site, target, request, fails)
                             = Accounts!PrincipalAt(SiteMC, target, request, fails)
    BY <1>1 DEF Accounts!PrincipalAt
  <1>4. \A base : Accounts!FindPrincipal(site, base, fails) = Accounts!FindPrincipal(SiteMC, base, fails)
    BY <1>3 DEF Accounts!FindPrincipal
  <1> DEFINE first == CHOOSE e \in Entered : TRUE
  <1>5. first \in Entered /\ {} \in Faults \cup {{}}
    OBVIOUS
  <1> HIDE DEF first
  <1>6. Principal(entered, fails) = Principal(first, {})
    BY <1>5, PrincipalAssumption
  <1>7. Who = Principal(first, {})
    BY DEF Who, first
  <1> QED
    BY <1>2, <1>4, <1>6, <1>7 DEF Principal

LEMMA DiscoveryGood ==
    ASSUME NEW tree, GoodTree(tree), NEW site,
           site = [wellKnown |-> SiteMC.wellKnown, principals |-> SiteMC.principals,
                   calHome |-> SiteMC.calHome, abHome |-> SiteMC.abHome, tree |-> tree],
           NEW entered \in Entered, NEW fails \in Faults \cup {{}}
    PROVE  GoodFinding(Accounts!Discover(site, entered, fails))
  <1> DEFINE base == Accounts!ResolveBaseURL(site, entered, fails)
             principal == Accounts!FindPrincipal(site, base, fails)
             calHome == Accounts!FindHome(site, "calHome", fails)
             abHome == Accounts!FindHome(site, "abHome", fails)
             Of(home, kind) == IF home = Accounts!NoPath \/ kind \in fails THEN <<>>
                               ELSE Accounts!ListCollections(tree, home, kind)
             files == IF "files" \in fails THEN <<>>
                      ELSE Accounts!ListFileCollections(tree, base, principal.path, calHome, abHome)
             found == Accounts!Discover(site, entered, fails)
             Both == Of(calHome, "calendar") \o Of(abHome, "addressbook")
  <1>1. site.tree = tree /\ site["calHome"] = SiteMC.calHome /\ site["abHome"] = SiteMC.abHome
    OBVIOUS
  <1>2. /\ found.principal = principal.path
        /\ found.collections = IF principal.path = Accounts!NoPath
                               THEN Accounts!TakeFileRoot(tree, base, fails)
                               ELSE Both \o files
    BY <1>1 DEF Accounts!Discover
  <1>3. principal.path = Who
    BY SamePrincipal
  <1>4. calHome = SiteMC.calHome /\ abHome = SiteMC.abHome
    <2>1. "calHome" \notin fails /\ "abHome" \notin fails
      BY PrincipalAssumption
    <2> QED
      BY <1>1, <2>1 DEF Accounts!FindHome
  <1> HIDE DEF base, principal, calHome, abHome, found
  <1>5. CASE Who = Accounts!NoPath
    <2>1. \E row : found.collections = <<row>>
      BY <1>2, <1>3, <1>5 DEF Accounts!TakeFileRoot
    <2>2. PICK row : found.collections = <<row>>
      BY <2>1
    <2>3. \A path : Good(path)
      BY <1>5 DEF Good
    <2>4. <<row>> \in Seq({row}) /\ DOMAIN <<row>> = {1}
      OBVIOUS
    <2>5. GoodRows(<<row>>)
      BY <2>3, <2>4, ListOfAny DEF GoodRows, Unique, GoodRow
    <2> QED
      BY <1>2, <1>3, <2>2, <2>5 DEF GoodFinding, found
  <1>6. CASE Who # Accounts!NoPath
    <2> DEFINE OfOne(list, kind) ==
                  /\ IsList(list) /\ Unique(list)
                  /\ \A row \in In(list) : /\ row.kind = kind /\ row.path \in DOMAIN tree
                                           /\ Accounts!OfKind(tree[row.path].types, kind)
    <2>1. \A kind : OfOne(<<>>, kind)
      BY EmptyList
    <2>2. \A home, kind : OfOne(Of(home, kind), kind)
      <3> SUFFICES ASSUME NEW home, NEW kind PROVE OfOne(Of(home, kind), kind)
        OBVIOUS
      <3>1. OfOne(Accounts!ListCollections(tree, home, kind), kind)
        BY ListingGood DEF GoodTree
      <3> HIDE DEF OfOne
      <3> QED
        BY <2>1, <3>1
    <2>3. OfOne(files, "files") /\ \A row \in In(files) : Good(row.path)
      <3> DEFINE all == Accounts!ListCollections(tree, base, "files")
                 S == {row \in Accounts!ToSet(all) :
                          ~Accounts!HoldsService(row.path, principal.path, calHome, abHome)}
      <3>1. OfOne(all, "files")
        BY ListingGood DEF GoodTree
      <3>2. CASE files = <<>>
        <4>1. In(<<>>) = {}
          BY DEF In
        <4> HIDE DEF OfOne, files
        <4> QED
          BY <2>1, <3>2, <4>1
      <3>3. CASE files = Accounts!Within(all, S)
        <4> HIDE DEF files, all
        <4>1. /\ IsList(files) /\ In(files) = In(all) \cap S
              /\ Unique(files)
          BY <3>1, <3>3, Kept
        <4>2. OfOne(files, "files")
          BY <3>1, <4>1
        <4>3. ASSUME NEW row \in In(files) PROVE Good(row.path)
          <5>1. ~Accounts!HoldsService(row.path, principal.path, calHome, abHome)
            BY <4>1
          <5>2. ~Accounts!HoldsService(row.path, SiteMC.calHome, SiteMC.abHome, Who)
            BY <1>3, <1>4, <5>1 DEF Accounts!HoldsService
          <5>3. row.path \in DOMAIN tree /\ Accounts!OfKind(tree[row.path].types, "files")
            BY <4>2
          <5>4. GoodEntry(row.path, tree[row.path])
            BY <5>3 DEF GoodTree
          <5>5. tree[row.path].types \cap Trees = {}
            BY <5>3, <5>4, OneKind DEF GoodEntry
          <5> QED
            BY <5>2, <5>4, <5>5 DEF Good, GoodEntry, Trees
        <4> QED
          BY <4>2, <4>3
      <3> HIDE DEF OfOne
      <3> QED
        BY <3>2, <3>3 DEF Accounts!ListFileCollections
    <2> HIDE DEF files, Of
    <2>4. ASSUME NEW k1, NEW k2, NEW u, NEW v, OfOne(u, k1), OfOne(v, k2),
                 <<k1, k2>> \in {<<"calendar", "addressbook">>, <<"calendar", "files">>,
                                <<"addressbook", "files">>}
          PROVE  \A x \in In(u), y \in In(v) : x.path # y.path
      <3> SUFFICES ASSUME NEW x \in In(u), NEW y \in In(v), x.path = y.path PROVE FALSE
        OBVIOUS
      <3>1. /\ x.path \in DOMAIN tree /\ Accounts!OfKind(tree[x.path].types, k1)
            /\ Accounts!OfKind(tree[x.path].types, k2)
        BY <2>4
      <3>2. ~(Trees \subseteq tree[x.path].types)
        BY <3>1 DEF GoodTree, GoodEntry
      <3> QED
        BY <2>4, <3>1, <3>2, OneKind
    <2> DEFINE cals == Of(calHome, "calendar")
               books == Of(abHome, "addressbook")
    <2>5. OfOne(cals, "calendar") /\ OfOne(books, "addressbook") /\ OfOne(files, "files")
      BY <2>2, <2>3
    <2> HIDE DEF cals, books
    <2>6. \A x \in In(cals), y \in In(books) : x.path # y.path
      <3> HIDE DEF OfOne
      <3> QED
        BY <2>4, <2>5
    <2>7. \A x \in In(cals), y \in In(files) : x.path # y.path
      <3> HIDE DEF OfOne
      <3> QED
        BY <2>4, <2>5
    <2>8. \A x \in In(books), y \in In(files) : x.path # y.path
      <3> HIDE DEF OfOne
      <3> QED
        BY <2>4, <2>5
    <2>9. IsList(cals \o books) /\ In(cals \o books) = In(cals) \cup In(books) /\ Unique(cals \o books)
      BY <2>5, <2>6, ListsJoined
    <2>10. /\ IsList(cals \o books \o files) /\ Unique(cals \o books \o files)
           /\ In(cals \o books \o files) = In(cals) \cup In(books) \cup In(files)
      <3>1. \A x \in In(cals \o books), y \in In(files) : x.path # y.path
        BY <2>7, <2>8, <2>9
      <3>2. IsList(files) /\ Unique(files)
        BY <2>5
      <3> HIDE DEF OfOne
      <3> QED
        BY <2>9, <3>1, <3>2, ListsJoined
    <2>11. found.collections = cals \o books \o files
      BY <1>2, <1>3, <1>6 DEF cals, books
    <2>12. \A row \in In(cals) \cup In(books) \cup In(files) : GoodRow(row)
      BY <2>3, <2>5 DEF GoodRow
    <2>13. GoodRows(found.collections)
      <3> HIDE DEF OfOne
      <3> QED
        BY <2>10, <2>11, <2>12 DEF GoodRows
    <2> QED
      BY <1>2, <1>3, <2>13 DEF GoodFinding, found
  <1> QED
    BY <1>5, <1>6
-----------------------------------------------------------------------------
(* The steps of Connections. *)
LEMMA SitesTree ==
    Accounts!Site = [wellKnown |-> SiteMC.wellKnown, principals |-> SiteMC.principals,
                     calHome |-> SiteMC.calHome, abHome |-> SiteMC.abHome, tree |-> s1]
  BY DEF Accounts!Site

LEMMA InToSet == \A list : Accounts!ToSet(list) = In(list)
  BY DEF Accounts!ToSet, In

LEMMA StoredGood ==
    ASSUME NEW id, NEW found, GoodFinding(found)
    PROVE  GoodAccount(Accounts!Stored(id, found)) /\ Accounts!Stored(id, found).id = id
  BY DEF GoodFinding, GoodAccount, AccountFields, Accounts!Stored

(* An account that is found is one of the list, with that identifier. *)
LEMMA HeldGood ==
    ASSUME GoodAccounts(s2), NEW id, Accounts!Known(id)
    PROVE  /\ GoodAccount(Head(Accounts!Held(id))) /\ Head(Accounts!Held(id)).id = id
           /\ Head(Accounts!Held(id)) \in In(s2)
  <1> DEFINE S == {acc \in In(s2) : acc.id = id}
  <1>1. Accounts!Held(id) = Accounts!Within(s2, S)
    BY InToSet DEF Accounts!Held
  <1>2. Head(Accounts!Within(s2, S)) \in In(s2) \cap S
    BY <1>1, KeptHead DEF Accounts!Known, GoodAccounts
  <1> QED
    BY <1>1, <1>2 DEF GoodAccounts

LEMMA RowFound ==
    ASSUME NEW cols, GoodRows(cols), NEW path
    PROVE  /\ Accounts!FindCollection(cols, path) # <<>>
              => /\ Head(Accounts!FindCollection(cols, path)).path = path
                 /\ Head(Accounts!FindCollection(cols, path)) \in In(cols)
           /\ Accounts!FindCollection(cols, path) = <<>> => \A row \in In(cols) : row.path # path
  <1> DEFINE S == {row \in In(cols) : row.path = path}
  <1>1. Accounts!FindCollection(cols, path) = Accounts!Within(cols, S)
    BY InToSet DEF Accounts!FindCollection
  <1>2. /\ Accounts!Within(cols, S) # <<>> => Head(Accounts!Within(cols, S)) \in In(cols) \cap S
        /\ Accounts!Within(cols, S) = <<>> <=> In(cols) \cap S = {}
    BY KeptHead DEF GoodRows
  <1> HIDE DEF S
  <1>3. \A row \in In(cols) : row \in S <=> row.path = path
    BY DEF S
  <1> QED
    BY <1>1, <1>2, <1>3

LEMMA UpsertGood ==
    ASSUME GoodAccounts(s2), NEW acc, GoodAccount(acc)
    PROVE  GoodAccounts(Accounts!Upsert(acc))
  <1>1. s2 \in Seq(In(s2)) /\ Len(s2) \in Nat /\ DOMAIN s2 = 1 .. Len(s2)
        /\ \A i \in DOMAIN s2 : s2[i] \in In(s2)
    BY Lists DEF GoodAccounts, IsList, In
  <1>2. CASE Accounts!Known(acc.id)
    <2> DEFINE new == [i \in DOMAIN s2 |-> IF s2[i].id = acc.id THEN acc ELSE s2[i]]
    <2>1. new \in Seq(In(s2) \cup {acc})
      BY <1>1
    <2>2. IsList(new) /\ In(new) \subseteq In(s2) \cup {acc}
      BY <2>1, ListOfAny
    <2>3. GoodAccounts(new)
      BY <2>2 DEF GoodAccounts
    <2> QED
      BY <1>2, <2>3 DEF Accounts!Upsert
  <1>3. CASE ~Accounts!Known(acc.id)
    <2>1. IsList(Append(s2, acc)) /\ In(Append(s2, acc)) = In(s2) \cup {acc}
      BY ListAppended DEF GoodAccounts
    <2> QED
      BY <1>3, <2>1 DEF Accounts!Upsert, GoodAccounts
  <1> QED
    BY <1>2, <1>3

(* A row of an account is replaced, or one is added. *)
LEMMA PlacedGood ==
    ASSUME NEW cols, GoodRows(cols), NEW col, GoodRow(col)
    PROVE  GoodRows(Accounts!Placed(cols, col))
  <1>1. CASE Accounts!FindCollection(cols, col.path) = <<>>
    <2>1. \A row \in In(cols) : row.path # col.path
      BY <1>1, RowFound
    <2>2. /\ IsList(Append(cols, col)) /\ In(Append(cols, col)) = In(cols) \cup {col}
          /\ Unique(Append(cols, col))
      BY <2>1, ListAppended DEF GoodRows
    <2> QED
      BY <1>1, <2>2 DEF GoodRows, Accounts!Placed
  <1>2. CASE Accounts!FindCollection(cols, col.path) # <<>>
    <2> DEFINE new == [i \in DOMAIN cols |-> IF cols[i].path = col.path THEN col ELSE cols[i]]
    <2>1. /\ cols \in Seq(In(cols)) /\ DOMAIN cols = 1 .. Len(cols)
          /\ \A i \in DOMAIN cols : cols[i] \in In(cols)
      BY Lists DEF GoodRows, IsList, In
    <2>2. new \in Seq(In(cols) \cup {col}) /\ DOMAIN new = DOMAIN cols
      BY <2>1
    <2>3. IsList(new) /\ In(new) \subseteq In(cols) \cup {col}
      BY <2>2, ListOfAny
    <2>4. \A i \in DOMAIN cols : new[i].path = cols[i].path
      OBVIOUS
    <2>5. Unique(new)
      BY <2>2, <2>4 DEF Unique, GoodRows
    <2>6. GoodRows(new)
      BY <2>3, <2>5 DEF GoodRows
    <2> QED
      BY <1>2, <2>6 DEF Accounts!Placed
  <1> QED
    BY <1>1, <1>2

LEMMA ColsChanged ==
    ASSUME NEW acc, GoodAccount(acc), NEW cols, GoodRows(cols)
    PROVE  /\ GoodAccount([acc EXCEPT !.cols = cols])
           /\ [acc EXCEPT !.cols = cols].id = acc.id
           /\ [acc EXCEPT !.cols = cols].cols = cols
  BY DEF GoodAccount, AccountFields

LEMMA TabSet ==
    ASSUME GoodTabs(s7), NEW t \in OpenTabs, NEW tab, GoodTab(tab), s7' = [s7 EXCEPT ![t] = tab]
    PROVE  GoodTabs(s7')
  BY DEF GoodTabs

LEMMA TabEnds ==
    ASSUME GoodTabs(s7), NEW t \in OpenTabs, s7' = [s7 EXCEPT ![t] = Accounts!Idle]
    PROVE  GoodTabs(s7')
  <1>1. Accounts!Idle.op = "idle"
    BY DEF Accounts!Idle
  <1>2. GoodTab(Accounts!Idle)
    BY <1>1 DEF GoodTab
  <1> QED
    BY <1>2, TabSet

LEMMA TreeLess ==
    ASSUME NEW tree, GoodTree(tree), NEW P, P \subseteq DOMAIN tree
    PROVE  GoodTree([p \in P |-> tree[p]])
  <1>1. IsFiniteSet(P)
    BY FS_Subset DEF GoodTree
  <1> QED
    BY <1>1 DEF GoodTree

LEMMA NoTick == \A x, y : <<x, y>> # <<Choice>>
  <1> SUFFICES ASSUME NEW x, NEW y PROVE <<x, y>> # <<Choice>>
    OBVIOUS
  <1>1. Len(<<x, y>>) = 2 /\ Len(<<Choice>>) = 1
    OBVIOUS
  <1> QED
    BY <1>1

LEMMA AccountsStart == Accounts!Init => AccountsHold
  <1> SUFFICES ASSUME Accounts!Init PROVE AccountsHold
    OBVIOUS
  <1>1. s1 = TreeMC /\ s3 = Accounts!NoChoice /\ s7 = [t \in OpenTabs |-> Accounts!Idle]
    BY DEF Accounts!Init
  <1>2. GoodTree(s1)
    <2>1. \A p \in DOMAIN TreeMC : GoodEntry(p, TreeMC[p])
      BY TreeAssumption DEF GoodEntry, EntryFields, Trees
    <2> QED
      BY <1>1, <2>1, TreeAssumption DEF GoodTree
  <1>3. GoodAccounts(s2)
    <2>1. CASE s2 = <<>>
      BY <2>1, EmptyList DEF GoodAccounts
    <2>2. ASSUME NEW entered \in Entered,
                 s2 = <<Accounts!Stored(1, Accounts!Discover(Accounts!Site, entered, {}))>>
          PROVE  GoodAccounts(s2)
      <3> DEFINE acc == Accounts!Stored(1, Accounts!Discover(Accounts!Site, entered, {}))
      <3>1. GoodAccount(acc)
        BY <1>2, SitesTree, DiscoveryGood, StoredGood
      <3> HIDE DEF acc
      <3>2. <<acc>> \in Seq({acc})
        OBVIOUS
      <3>3. IsList(<<acc>>) /\ In(<<acc>>) \subseteq {acc}
        BY <3>2, ListOfAny
      <3>4. s2 = <<acc>>
        BY <2>2 DEF acc
      <3> QED
        BY <3>1, <3>3, <3>4 DEF GoodAccounts
    <2> QED
      BY <2>1, <2>2 DEF Accounts!Init
  <1>4. GoodTabs(s7)
    <2>1. Accounts!Idle.op = "idle"
      BY DEF Accounts!Idle
    <2> QED
      BY <1>1, <2>1 DEF GoodTabs, GoodTab
  <1> QED
    BY <1>1, <1>2, <1>3, <1>4 DEF AccountsHold

(* What a request starts with. *)
LEMMA RequestGood ==
    ASSUME AccountsHold, NEW t \in OpenTabs, Accounts!Request(t)
    PROVE  AccountsHold'
  <1>1. GoodTree(s1) /\ GoodAccounts(s2) /\ GoodTabs(s7)
    BY DEF AccountsHold
  <1>2. ASSUME NEW entered \in Entered, NEW fails \in Faults, Accounts!Connect(t, entered, fails)
        PROVE  AccountsHold'
    <2> DEFINE found == Accounts!Discover(Accounts!Site, entered, fails)
               tab == [op |-> "connect", found |-> found]
    <2>1. GoodFinding(found)
      BY <1>1, SitesTree, DiscoveryGood
    <2>2. s7' = [s7 EXCEPT ![t] = tab] /\ UNCHANGED <<s1, s2, s3>>
      BY <1>2 DEF Accounts!Connect, Accounts!Start
    <2> HIDE DEF found
    <2>3. GoodTab(tab)
      BY <2>1 DEF GoodTab
    <2> QED
      BY <1>1, <2>2, <2>3, TabSet DEF AccountsHold
  <1>3. ASSUME NEW id, NEW entered \in Entered, NEW fails \in Faults,
               Accounts!Edit(t, id, entered, fails)
        PROVE  AccountsHold'
    <2> DEFINE found == Accounts!Discover(Accounts!Site, entered, fails)
               tab == [op |-> "edit", id |-> id, found |-> found, seen |-> s1]
    <2>1. GoodFinding(found)
      BY <1>1, SitesTree, DiscoveryGood
    <2>2. s7' = [s7 EXCEPT ![t] = tab] /\ UNCHANGED <<s1, s2, s3>>
      BY <1>3 DEF Accounts!Edit, Accounts!Start
    <2> HIDE DEF found
    <2>3. GoodTab(tab)
      BY <2>1 DEF GoodTab
    <2> QED
      BY <1>1, <2>2, <2>3, TabSet DEF AccountsHold
  <1>4. ASSUME NEW id, NEW kind \in {"calendar", "addressbook"}, NEW name, NEW fails,
               Accounts!Create(t, id, kind, name, fails)
        PROVE  AccountsHold'
    <2>1. PICK path : /\ s7' = [s7 EXCEPT ![t] = [op |-> "create", id |-> id, kind |-> kind,
                                                  name |-> name, path |-> path]]
                      /\ UNCHANGED <<s1, s2, s3>>
      BY <1>4 DEF Accounts!Create, Accounts!Start
    <2>2. GoodTab([op |-> "create", id |-> id, kind |-> kind, name |-> name, path |-> path])
      BY DEF GoodTab
    <2> QED
      BY <1>1, <2>1, <2>2, TabSet DEF AccountsHold
  <1>5. ASSUME NEW id, NEW op \in {"rename", "delete"}, NEW name, NEW path,
               Accounts!Target(t, id, path, op, name)
        PROVE  AccountsHold'
    <2> DEFINE acc == Head(Accounts!Held(id))
               row == Head(Accounts!FindCollection(acc.cols, path))
               tab == [op |-> op, id |-> id, kind |-> row.kind, path |-> path, name |-> name]
    <2>1. /\ Accounts!Known(id) /\ Accounts!FindCollection(acc.cols, path) # <<>>
          /\ s7' = [s7 EXCEPT ![t] = tab] /\ UNCHANGED <<s1, s2, s3>>
      BY <1>5 DEF Accounts!Target, Accounts!Start
    <2>2. GoodRows(acc.cols)
      BY <1>1, <2>1, HeldGood DEF GoodAccount
    <2>3. row.path = path /\ row \in In(acc.cols)
      BY <2>1, <2>2, RowFound
    <2>4. GoodRow(row)
      BY <2>2, <2>3 DEF GoodRows
    <2> HIDE DEF row
    <2>5. GoodTab(tab)
      BY <2>3, <2>4 DEF GoodTab, GoodRow
    <2> QED
      BY <1>1, <2>1, <2>5, TabSet DEF AccountsHold
  <1>6. CASE Accounts!ShowSources(t)
    BY <1>6 DEF Accounts!ShowSources, AccountsHold
  <1>7. ASSUME NEW keys, Accounts!SaveSelection(t, keys) PROVE AccountsHold'
    <2>1. /\ s7' = [s7 EXCEPT ![t] = Accounts!Idle] /\ UNCHANGED <<s1, s2>>
          /\ s3' = keys \cap Accounts!Offered
      BY <1>7 DEF Accounts!SaveSelection, Accounts!Start
    <2>2. <<Choice>> \notin Accounts!Offered
      BY NoTick DEF Accounts!Offered
    <2>3. GoodTabs(s7')
      BY <1>1, <2>1, TabEnds
    <2> QED
      BY <1>1, <2>1, <2>2, <2>3 DEF AccountsHold
  <1>8. ASSUME NEW key, Accounts!FileRecord(t, key) PROVE AccountsHold'
    <2>1. s7' = [s7 EXCEPT ![t] = [op |-> "file", key |-> key]] /\ UNCHANGED <<s1, s2, s3>>
      BY <1>8 DEF Accounts!FileRecord, Accounts!Start
    <2>2. GoodTab([op |-> "file", key |-> key])
      BY DEF GoodTab
    <2> QED
      BY <1>1, <2>1, <2>2, TabSet DEF AccountsHold
  <1> QED
    BY <1>2, <1>3, <1>4, <1>5, <1>6, <1>7, <1>8 DEF Accounts!Request

(* The step that follows. *)
LEMMA StepGood ==
    ASSUME AccountsHold, NEW t \in OpenTabs, Accounts!Step(t)
    PROVE  AccountsHold'
  <1>1. GoodTree(s1) /\ GoodAccounts(s2) /\ GoodTabs(s7) /\ GoodTab(s7[t])
    BY DEF AccountsHold, GoodTabs
  <1> USE DEF Accounts!End, Accounts!Goes
  <1>2. CASE Accounts!PutNew(t) \/ Accounts!PutEdited(t)
    <2>1. /\ s7[t].op \in {"connect", "edit"}
          /\ \E id : s2' = Accounts!Upsert(Accounts!Stored(id, s7[t].found))
          /\ s7' = [s7 EXCEPT ![t] = Accounts!Idle] /\ UNCHANGED <<s1, s3>>
      BY <1>2 DEF Accounts!PutNew, Accounts!PutEdited
    <2>2. GoodFinding(s7[t].found)
      BY <1>1, <2>1 DEF GoodTab
    <2>3. GoodAccounts(s2')
      BY <1>1, <2>1, <2>2, StoredGood, UpsertGood
    <2> QED
      BY <1>1, <2>1, <2>3, TabEnds DEF AccountsHold
  <1>3. CASE Accounts!Make(t)
    <2>1. CASE s7[t].path \in DOMAIN s1
      BY <1>1, <1>3, <2>1, TabEnds DEF Accounts!Make, AccountsHold
    <2>2. CASE s7[t].path \notin DOMAIN s1
      <3> DEFINE path == s7[t].path
                 kind == s7[t].kind
                 new == [types |-> {"collection", kind}, name |-> s7[t].name,
                         privileges |-> Accounts!Unsaid, comps |-> {"VEVENT"}]
                 tab == [op |-> "refresh", id |-> s7[t].id, kind |-> kind, path |-> path]
      <3>1. /\ s1' = [p \in DOMAIN s1 \cup {path} |-> IF p = path THEN new ELSE s1[p]]
            /\ s7' = [s7 EXCEPT ![t] = tab] /\ UNCHANGED <<s2, s3>>
        BY <1>3, <2>2 DEF Accounts!Make
      <3>2. kind \in {"calendar", "addressbook"}
        BY <1>1, <1>3 DEF Accounts!Make, GoodTab
      <3>3. GoodEntry(path, new)
        <4> HIDE DEF kind, path
        <4>1. DOMAIN new = EntryFields /\ new.types = {"collection", kind}
          BY DEF EntryFields
        <4>2. ~(Trees \subseteq {"collection", kind}) /\ {"collection", kind} \cap Trees # {}
          BY <3>2 DEF Trees
        <4> HIDE DEF new
        <4> QED
          BY <4>1, <4>2 DEF GoodEntry
      <3> HIDE DEF new, kind, path
      <3>4. IsFiniteSet(DOMAIN s1 \cup {path})
        BY <1>1, FS_AddElement, FS_Union, FS_Singleton DEF GoodTree
      <3>5. GoodTree(s1')
        BY <1>1, <3>1, <3>3, <3>4 DEF GoodTree
      <3>6. GoodTab(tab)
        BY <3>2 DEF GoodTab
      <3> QED
        BY <1>1, <3>1, <3>5, <3>6, TabSet DEF AccountsHold
    <2> QED
      BY <2>1, <2>2
  <1>4. CASE Accounts!Rename(t)
    <2>1. CASE s7[t].path \notin DOMAIN s1
      BY <1>1, <1>4, <2>1, TabEnds DEF Accounts!Rename, AccountsHold
    <2>2. CASE s7[t].path \in DOMAIN s1
      <3> DEFINE path == s7[t].path
                 tab == [op |-> "refresh", id |-> s7[t].id, kind |-> s7[t].kind, path |-> path]
      <3>1. /\ s1' = [s1 EXCEPT ![path].name = s7[t].name]
            /\ s7' = [s7 EXCEPT ![t] = tab] /\ UNCHANGED <<s2, s3>>
        BY <1>4, <2>2 DEF Accounts!Rename
      <3>2. PICK name : s1' = [s1 EXCEPT ![path] = [s1[path] EXCEPT !.name = name]]
        BY <3>1
      <3>3. s7[t].kind = "files" => Good(path)
        BY <1>1, <1>4 DEF Accounts!Rename, GoodTab
      <3> HIDE DEF path
      <3>4. path \in DOMAIN s1
        BY <2>2 DEF path
      <3>5. /\ DOMAIN [s1[path] EXCEPT !.name = name] = EntryFields
            /\ [s1[path] EXCEPT !.name = name].types = s1[path].types
        BY <1>1, <3>4 DEF GoodTree, GoodEntry, EntryFields
      <3>6. GoodEntry(path, [s1[path] EXCEPT !.name = name])
        BY <1>1, <3>4, <3>5 DEF GoodTree, GoodEntry
      <3>7. GoodTree(s1')
        BY <1>1, <3>2, <3>4, <3>6 DEF GoodTree
      <3>8. GoodTab(tab)
        BY <3>3 DEF GoodTab
      <3> QED
        BY <1>1, <3>1, <3>7, <3>8, TabSet DEF AccountsHold
    <2> QED
      BY <2>1, <2>2
  <1>5. CASE Accounts!Refresh(t)
    <2>1. CASE s7' = [s7 EXCEPT ![t] = Accounts!Idle]
      BY <1>1, <1>5, <2>1, TabEnds DEF Accounts!Refresh, AccountsHold
    <2>2. CASE s7' # [s7 EXCEPT ![t] = Accounts!Idle]
      <3> DEFINE col == Accounts!RefreshCollection(s1, s7[t].path, s7[t].kind)
                 tab == [op |-> "upsert", id |-> s7[t].id, col |-> col]
      <3>1. s7' = [s7 EXCEPT ![t] = tab] /\ UNCHANGED <<s1, s2, s3>> /\ s7[t].op = "refresh"
        BY <1>5, <2>2 DEF Accounts!Refresh
      <3>2. col.path = s7[t].path /\ col.kind = s7[t].kind
        BY DEF Accounts!RefreshCollection, Accounts!DecodeCollection
      <3>3. GoodRow(col)
        BY <1>1, <3>1, <3>2 DEF GoodTab, GoodRow
      <3> HIDE DEF col
      <3>4. GoodTab(tab)
        BY <3>3 DEF GoodTab
      <3> QED
        BY <1>1, <3>1, <3>4, TabSet DEF AccountsHold
    <2> QED
      BY <2>1, <2>2
  <1>6. CASE Accounts!UpsertCollection(t)
    <2>1. s7[t].op = "upsert" /\ s7' = [s7 EXCEPT ![t] = Accounts!Idle] /\ UNCHANGED <<s1, s3>>
      BY <1>6 DEF Accounts!UpsertCollection
    <2>2. CASE Accounts!Known(s7[t].id)
      <3> DEFINE acc == Head(Accounts!Held(s7[t].id))
                 cols == Accounts!Placed(acc.cols, s7[t].col)
      <3>1. GoodAccount(acc)
        BY <1>1, <2>2, HeldGood
      <3>2. GoodRows(cols)
        BY <1>1, <2>1, <3>1, PlacedGood DEF GoodTab, GoodAccount
      <3>3. s2' = Accounts!Upsert([acc EXCEPT !.cols = cols])
        BY <1>6, <2>2 DEF Accounts!UpsertCollection
      <3> HIDE DEF acc, cols
      <3>4. GoodAccounts(s2')
        BY <1>1, <3>1, <3>2, <3>3, ColsChanged, UpsertGood
      <3> QED
        BY <1>1, <2>1, <3>4, TabEnds DEF AccountsHold
    <2>3. CASE ~Accounts!Known(s7[t].id)
      BY <1>1, <1>6, <2>1, <2>3, TabEnds DEF Accounts!UpsertCollection, AccountsHold
    <2> QED
      BY <2>2, <2>3
  <1>7. CASE Accounts!DeleteOnServer(t)
    <2>1. CASE s7[t].path \notin DOMAIN s1
      BY <1>1, <1>7, <2>1, TabEnds DEF Accounts!DeleteOnServer, AccountsHold
    <2>2. CASE s7[t].path \in DOMAIN s1
      <3> DEFINE P == {q \in DOMAIN s1 : ~Accounts!IsPrefix(s7[t].path, q)}
                 tab == [op |-> "remove", id |-> s7[t].id, path |-> s7[t].path]
      <3>1. /\ s1' = [p \in P |-> s1[p]] /\ s7' = [s7 EXCEPT ![t] = tab] /\ UNCHANGED <<s2, s3>>
        BY <1>7, <2>2 DEF Accounts!DeleteOnServer
      <3>2. P \subseteq DOMAIN s1
        OBVIOUS
      <3> HIDE DEF P
      <3>3. GoodTree(s1')
        BY <1>1, <3>1, <3>2, TreeLess
      <3>4. GoodTab(tab)
        BY DEF GoodTab
      <3> QED
        BY <1>1, <3>1, <3>3, <3>4, TabSet DEF AccountsHold
    <2> QED
      BY <2>1, <2>2
  <1>8. CASE Accounts!RemoveCollection(t)
    <2> DEFINE key == <<s7[t].id, s7[t].path>>
               acc == Head(Accounts!Held(s7[t].id))
               kept == Accounts!Within(acc.cols, {row \in Accounts!ToSet(acc.cols) : row.path # s7[t].path})
    <2>1. s7' = [s7 EXCEPT ![t] = Accounts!Idle] /\ UNCHANGED s1
      BY <1>8 DEF Accounts!RemoveCollection
    <2>2. CASE Accounts!Known(s7[t].id) /\ kept # acc.cols
      <3>1. /\ s2' = Accounts!Upsert([acc EXCEPT !.cols = kept])
            /\ s3' = IF s3 = Accounts!NoChoice THEN Accounts!NoChoice ELSE Accounts!Purged(s3, key)
        BY <1>8, <2>2 DEF Accounts!RemoveCollection
      <3>2. GoodAccount(acc)
        BY <1>1, <2>2, HeldGood
      <3>3. GoodRows(kept)
        BY <3>2, Kept DEF GoodAccount, GoodRows
      <3> HIDE DEF acc, kept
      <3>4. GoodAccounts(s2')
        BY <1>1, <3>1, <3>2, <3>3, ColsChanged, UpsertGood
      <3>5. s3' = Accounts!NoChoice \/ <<Choice>> \notin s3'
        BY <3>1 DEF AccountsHold, Accounts!Purged
      <3> QED
        BY <1>1, <2>1, <3>4, <3>5, TabEnds DEF AccountsHold
    <2>3. CASE ~(Accounts!Known(s7[t].id) /\ kept # acc.cols)
      <3>1. s2' = s2 /\ s3' = s3
        BY <1>8, <2>3 DEF Accounts!RemoveCollection
      <3> QED
        BY <1>1, <2>1, <3>1, TabEnds DEF AccountsHold
    <2> QED
      BY <2>2, <2>3
  <1>9. CASE Accounts!RememberDefault(t)
    BY <1>1, <1>9, TabEnds DEF Accounts!RememberDefault, AccountsHold
  <1> QED
    BY <1>2, <1>3, <1>4, <1>5, <1>6, <1>7, <1>8, <1>9 DEF Accounts!Step

LEMMA AccountsStep == ASSUME AccountsHold, [Accounts!Next]_(Accounts!vars) PROVE AccountsHold'
  <1>1. GoodTree(s1) /\ GoodAccounts(s2) /\ GoodTabs(s7)
    BY DEF AccountsHold
  <1>2. ASSUME NEW id, Accounts!DeleteAccount(id) PROVE AccountsHold'
    <2>1. /\ s2' = Accounts!Within(s2, {acc \in Accounts!ToSet(s2) : acc.id # id})
          /\ UNCHANGED <<s1, s3, s7>>
      BY <1>2 DEF Accounts!DeleteAccount
    <2>2. IsList(s2') /\ In(s2') \subseteq In(s2)
      BY <1>1, <2>1, Kept DEF GoodAccounts
    <2> QED
      BY <1>1, <2>1, <2>2 DEF GoodAccounts, AccountsHold
  <1>3. CASE Accounts!ResetPassword
    <2>1. /\ s2' = <<>> /\ s3' = Accounts!NoChoice /\ s1' = s1
          /\ s7' = [t \in OpenTabs |-> Accounts!Idle]
      BY <1>3 DEF Accounts!ResetPassword
    <2>4. GoodAccounts(s2')
      BY <2>1, EmptyList DEF GoodAccounts
    <2>5. Accounts!Idle.op = "idle"
      BY DEF Accounts!Idle
    <2>6. GoodTabs(s7')
      BY <2>1, <2>5 DEF GoodTabs, GoodTab
    <2> QED
      BY <1>1, <2>1, <2>4, <2>6 DEF AccountsHold
  <1>4. ASSUME NEW path \in DOMAIN s1, Accounts!OtherClient(path) PROVE AccountsHold'
    <2>1. s1' = [p \in DOMAIN s1 \ {path} |-> s1[p]] /\ UNCHANGED <<s2, s3, s7>>
      BY <1>4 DEF Accounts!OtherClient
    <2>2. GoodTree(s1')
      <3>1. DOMAIN s1 \ {path} \subseteq DOMAIN s1
        OBVIOUS
      <3> QED
        BY <1>1, <2>1, <3>1, TreeLess
    <2> QED
      BY <1>1, <2>1, <2>2 DEF AccountsHold
  <1>5. CASE UNCHANGED Accounts!vars
    BY <1>5 DEF Accounts!vars, AccountsHold
  <1> QED
    BY <1>2, <1>3, <1>4, <1>5, RequestGood, StepGood DEF Accounts!Next

LEMMA AccountsShow == AccountsHold => Accounts!RowsAreRight
  <1> SUFFICES ASSUME AccountsHold, NEW i \in DOMAIN s2
               PROVE  LET cols == s2[i].cols
                      IN  /\ \A m, n \in DOMAIN cols : cols[m].path = cols[n].path => m = n
                          /\ s2[i].principal # Accounts!NoPath =>
                                \A m \in DOMAIN cols : cols[m].kind = "files" =>
                                    /\ ~Accounts!HoldsService(cols[m].path, SiteMC.calHome, SiteMC.abHome,
                                                              s2[i].principal)
                                    /\ cols[m].path \in DOMAIN TreeMC =>
                                          TreeMC[cols[m].path].types \cap {"calendar", "addressbook"} = {}
    BY DEF Accounts!RowsAreRight
  <1> DEFINE cols == s2[i].cols
  <1>1. s2[i].principal = Who /\ GoodRows(cols)
    BY DEF AccountsHold, GoodAccounts, GoodAccount, In
  <1> HIDE DEF cols
  <1>2. \A m, n \in DOMAIN cols : cols[m].path = cols[n].path => m = n
    BY <1>1 DEF GoodRows, Unique
  <1>3. \A m \in DOMAIN cols : cols[m].kind = "files" => Good(cols[m].path)
    BY <1>1 DEF GoodRows, GoodRow, In
  <1> QED
    BY <1>1, <1>2, <1>3 DEF Good, cols

(* Only a person changes a tick: the actions that change the selection. *)
LEMMA TicksAreKept ==
    ASSUME AccountsHold, [Accounts!Next]_(Accounts!vars)
    PROVE  Accounts!TicksKept
  <1>1. GoodAccounts(s2)
    BY DEF AccountsHold
  <1>2. ASSUME s3' = s3 PROVE Accounts!TicksKept
    <2>1. \A key : Accounts!Ticked(key)' = Accounts!Ticked(key)
      BY <1>2 DEF Accounts!Ticked
    <2> QED
      BY <2>1 DEF Accounts!TicksKept
  <1>3. ASSUME NEW t \in OpenTabs, Accounts!RemoveCollection(t) PROVE Accounts!TicksKept
    <2> DEFINE id == s7[t].id
               path == s7[t].path
               acc == Head(Accounts!Held(id))
               kept == Accounts!Within(acc.cols, {row \in Accounts!ToSet(acc.cols) : row.path # path})
               new == [acc EXCEPT !.cols = kept]
    <2>1. CASE ~(Accounts!Known(id) /\ kept # acc.cols)
      <3>1. s3' = s3
        BY <1>3, <2>1 DEF Accounts!RemoveCollection
      <3> QED
        BY <1>2, <3>1
    <2>2. CASE s3 = Accounts!NoChoice
      <3>1. s3' = s3
        BY <1>3, <2>2 DEF Accounts!RemoveCollection
      <3> QED
        BY <1>2, <3>1
    <2>3. CASE Accounts!Known(id) /\ kept # acc.cols /\ s3 # Accounts!NoChoice
      <3>1. s2' = Accounts!Upsert(new) /\ s3' = s3 \ {<<id, path>>}
        BY <1>3, <2>3 DEF Accounts!RemoveCollection, Accounts!Purged
      <3>2. GoodAccount(acc) /\ acc.id = id
        BY <1>1, <2>3, HeldGood
      <3>3. IsList(kept) /\ \A row \in In(kept) : row.path # path
        <4> DEFINE S == {row \in In(acc.cols) : row.path # path}
        <4>1. kept = Accounts!Within(acc.cols, S)
          BY InToSet
        <4>2. IsList(acc.cols)
          BY <3>2 DEF GoodAccount, GoodRows
        <4> HIDE DEF acc, kept, path
        <4>3. IsList(kept) /\ In(kept) = In(acc.cols) \cap S
          BY <4>1, <4>2, Kept
        <4> QED
          BY <4>3
      <3>4. new.id = id /\ new.cols = kept
        <4> HIDE DEF acc, kept
        <4> QED
          BY <3>2 DEF GoodAccount, AccountFields
      <3> HIDE DEF acc, kept, new
      <3>5. s2' = [i \in DOMAIN s2 |-> IF s2[i].id = id THEN new ELSE s2[i]]
        BY <2>3, <3>1, <3>4 DEF Accounts!Upsert
      <3>6. <<id, path>> \notin Accounts!Offered'
        <4> SUFFICES ASSUME <<id, path>> \in Accounts!Offered' PROVE FALSE
          OBVIOUS
        <4>a. PICK n \in DOMAIN s2' : \E i \in DOMAIN s2'[n].cols :
                      <<id, path>> = <<s2'[n].id, s2'[n].cols[i].path>>
          BY DEF Accounts!Offered
        <4>1. PICK i \in DOMAIN s2'[n].cols : <<id, path>> = <<s2'[n].id, s2'[n].cols[i].path>>
          BY <4>a
        <4>2. s2'[n].id = id /\ s2'[n].cols[i].path = path
          BY <4>1
        <4>3. s2'[n] = new
          BY <3>5, <4>2
        <4>4. i \in DOMAIN kept /\ kept[i].path = path
          BY <3>4, <4>2, <4>3
        <4> QED
          BY <3>3, <4>4 DEF In
      <3>7. s3' # Accounts!NoChoice
        BY <2>3, <3>1 DEF AccountsHold, Accounts!NoChoice, Choice
      <3>8. ASSUME NEW key, key \in Accounts!Offered' PROVE Accounts!Ticked(key)' = Accounts!Ticked(key)
        <4>1. key # <<id, path>>
          BY <3>6, <3>8
        <4>2. key \in s3' <=> key \in s3
          BY <3>1, <4>1
        <4> QED
          BY <2>3, <3>7, <4>2 DEF Accounts!Ticked
      <3> QED
        BY <3>8 DEF Accounts!TicksKept
    <2> QED
      BY <2>1, <2>2, <2>3
  <1>4. ASSUME NEW t \in OpenTabs, Accounts!Request(t) PROVE Accounts!TicksKept
    <2>1. CASE \E keys \in SUBSET s8[t] : Accounts!SaveSelection(t, keys)
      BY <2>1 DEF Accounts!TicksKept
    <2>2. CASE ~(\E keys \in SUBSET s8[t] : Accounts!SaveSelection(t, keys))
      <3>1. s3' = s3
        BY <1>4, <2>2 DEF Accounts!Request, Accounts!Connect, Accounts!Edit, Accounts!Create,
                          Accounts!Target, Accounts!ShowSources, Accounts!FileRecord
      <3> QED
        BY <1>2, <3>1
    <2> QED
      BY <2>1, <2>2
  <1>5. ASSUME NEW t \in OpenTabs, Accounts!Step(t) PROVE Accounts!TicksKept
    <2>1. CASE Accounts!RemoveCollection(t)
      BY <1>3, <2>1
    <2>2. CASE ~Accounts!RemoveCollection(t)
      <3>1. s3' = s3
        BY <1>5, <2>2 DEF Accounts!Step, Accounts!PutNew, Accounts!PutEdited, Accounts!Make,
                          Accounts!Rename, Accounts!Refresh, Accounts!UpsertCollection,
                          Accounts!DeleteOnServer, Accounts!RememberDefault
      <3> QED
        BY <1>2, <3>1
    <2> QED
      BY <2>1, <2>2
  <1>6. CASE Accounts!ResetPassword
    <2>1. s2' = <<>>
      BY <1>6 DEF Accounts!ResetPassword
    <2>2. DOMAIN s2' = {}
      BY <2>1
    <2>3. Accounts!Offered' = {}
      BY <2>2 DEF Accounts!Offered
    <2> QED
      BY <2>3 DEF Accounts!TicksKept
  <1>7. ASSUME NEW id, Accounts!DeleteAccount(id) PROVE Accounts!TicksKept
    BY <1>2, <1>7 DEF Accounts!DeleteAccount
  <1>8. ASSUME NEW path, Accounts!OtherClient(path) PROVE Accounts!TicksKept
    BY <1>2, <1>8 DEF Accounts!OtherClient
  <1>9. CASE UNCHANGED Accounts!vars
    BY <1>2, <1>9 DEF Accounts!vars
  <1> QED
    BY <1>4, <1>5, <1>6, <1>7, <1>8, <1>9 DEF Accounts!Next

-----------------------------------------------------------------------------
(* FindPanel.  A page is told by what is on its way, by what it has asked for, or shows    *)
(* the poll as it ended.                                                              *)
Asking == {"poll", "post"}
AskFields == {"at", "src", "shows", "poll"}

Coming == s6 = "connecting" \/ (s6 = "open" /\ (s8 # "none" \/ \E i \in DOMAIN s7 : ~s7[i].end))
Asked == s4 \/ \E c \in Asking : s5[c] # Panel!NoCall
Right == s3.shows = s1 /\ ~Panel!Running(s1)

(* The last fragment that is under way is that of a poll that has ended. *)
LastTells ==
    \A i \in DOMAIN s7 :
        ~s7[i].end /\ (\A j \in DOMAIN s7 : j > i => s7[j].end) => ~Panel!Running(s7[i].shows)

PanelTyped ==
    /\ s5 = [c \in Asking |-> s5[c]]
    /\ \A c \in Asking : DOMAIN s5[c] = AskFields /\ s5[c] = [f \in AskFields |-> s5[c][f]]
    /\ IsList(s7) /\ \A i \in DOMAIN s7 : s7[i].end \in BOOLEAN

(* A stream that is served is open and has not ended, and the fallback asks for fragments   *)
(* that poll.                                                                       *)
StreamInStep ==
    /\ s8 # "none" => s6 = "open" /\ \A i \in DOMAIN s7 : ~s7[i].end
    /\ s6 = "connecting" => s7 = <<>>
    /\ \A i \in DOMAIN s7 : s7[i].end => i = Len(s7)
    /\ s5["poll"].at # "none" => s5["poll"].poll

PanelHolds ==
    /\ PanelTyped /\ StreamInStep
    /\ s15 = {} /\ s8 = "none" /\ s6 = "open" => LastTells
    /\ s15 = {} => Coming \/ Asked \/ Right

LEMMA PanelStarts == Panel!Init => PanelHolds
  <1> SUFFICES ASSUME Panel!Init PROVE PanelHolds
    OBVIOUS
  <1>1. /\ s5 = [c \in Asking |-> Panel!NoCall] /\ s7 = <<>> /\ s8 = "none"
        /\ s6 = (IF s2 = "sse" THEN "connecting" ELSE "none") /\ s4 = (s2 = "poll")
        /\ s2 \in {"sse", "poll"}
    BY DEF Panel!Init, Asking
  <1>2. \A c \in Asking : s5[c] = Panel!NoCall
    BY <1>1
  <1>3. PanelTyped
    BY <1>1, <1>2, EmptyList DEF PanelTyped, Panel!NoCall, AskFields
  <1>4. StreamInStep
    <2>1. DOMAIN s7 = {}
      BY <1>1
    <2> QED
      BY <1>1, <1>2, <2>1 DEF StreamInStep, Panel!NoCall, Asking
  <1>5. Coming \/ Asked
    BY <1>1 DEF Coming, Asked
  <1>6. s6 # "open"
    BY <1>1
  <1> QED
    BY <1>3, <1>4, <1>5, <1>6 DEF PanelHolds

(* A fragment that is swapped in polls, or is the poll as it ended, or relies on the stream. *)
LEMMA Swapped ==
    ASSUME NEW shows, NEW poll, Panel!Swap(shows, poll), s1' = s1,
           Panel!Overtaken(shows) = {}
    PROVE  s4' \/ Right' \/ (Panel!Running(shows) /\ Panel!Streams(poll))
  <1>1. s3'.shows = shows /\ (s4' <=> Panel!Running(shows) /\ ~Panel!Streams(poll))
    BY DEF Panel!Swap
  <1>2. CASE Panel!Running(shows)
    BY <1>1, <1>2
  <1>3. CASE ~Panel!Running(shows)
    <2>1. shows = s1
      BY <1>3 DEF Panel!Overtaken
    <2>2. s3'.shows = s1' /\ ~Panel!Running(s1')
      BY <1>1, <1>3, <2>1
    <2> QED
      BY <2>2 DEF Right, Panel!Running
  <1> QED
    BY <1>2, <1>3

(* What a request leaves of the calls. *)
LEMMA AsksOne ==
    ASSUME PanelTyped, NEW c \in Asking, NEW src, Panel!Ask(c, src)
    PROVE  /\ s5' = [d \in Asking |-> s5'[d]]
           /\ \A d \in Asking : DOMAIN s5'[d] = AskFields /\ s5'[d] = [f \in AskFields |-> s5'[d][f]]
           /\ s5'[c] # Panel!NoCall /\ (c = "poll" => s5'["poll"].poll)
           /\ \A d \in Asking \ {c} : s5'[d] = s5[d]
  <1> DEFINE new == [Panel!NoCall EXCEPT !.at = "asked", !.src = src,
                                          !.poll = (c = "poll") \/ s3.poll]
  <1>1. s5' = [s5 EXCEPT ![c] = new]
    BY DEF Panel!Ask
  <1>2. /\ DOMAIN new = AskFields /\ new = [f \in AskFields |-> new[f]]
        /\ new.at = "asked" /\ new.poll = ((c = "poll") \/ s3.poll)
    BY DEF Panel!NoCall, AskFields
  <1>3. new # Panel!NoCall
    BY <1>2 DEF Panel!NoCall
  <1> HIDE DEF new
  <1>4. s5' = [d \in Asking |-> IF d = c THEN new ELSE s5[d]]
    BY <1>1 DEF PanelTyped
  <1>5. \A d \in Asking : s5'[d] = IF d = c THEN new ELSE s5[d]
    BY <1>4
  <1> QED
    BY <1>2, <1>3, <1>4, <1>5 DEF PanelTyped

(* A step that leaves the calls, or the stream, as they are. *)
LEMMA CallsLeft == ASSUME PanelTyped, s5' = s5, s7' = s7 PROVE PanelTyped'
  BY DEF PanelTyped, IsList, In

(* What is on its way stays when the stream does, and so does a call. *)
LEMMA StillComing ==
    ASSUME Coming, s6' = s6, s7' = s7, s8' = s8 PROVE Coming'
  BY DEF Coming

LEMMA StillAsked ==
    ASSUME Asked, s4' = s4, s5' = s5 PROVE Asked'
  BY DEF Asked

LEMMA StreamLeft ==
    ASSUME s6' = s6, s7' = s7, s8' = s8, s5'["poll"].at # "none" => s5'["poll"].poll, StreamInStep
    PROVE  StreamInStep' /\ (LastTells => LastTells')
  BY DEF StreamInStep, LastTells, Panel!Running

(* Every oddity stays one. *)
LEMMA Settles ==
    ASSUME PanelHolds, NEW s \in Polled, Panel!Settle(s) PROVE PanelHolds'
  <1>1. /\ s1[s] = "waiting" /\ s4' = s4 /\ s5' = s5 /\ s6' = s6 /\ s7' = s7 /\ s8' = s8
        /\ s15' = s15
    BY DEF Panel!Settle, Panel!delivery, Panel!counts
  <1>2. PanelTyped' /\ StreamInStep' /\ (LastTells => LastTells')
    BY <1>1, CallsLeft, StreamLeft DEF PanelHolds, StreamInStep
  <1>3. ~Right
    BY <1>1 DEF Right, Panel!Running
  <1>4. s15' = {} => Coming' \/ Asked'
    BY <1>1, <1>3, StillComing, StillAsked DEF PanelHolds
  <1> QED
    BY <1>1, <1>2, <1>4 DEF PanelHolds

LEMMA Subscribes == ASSUME PanelHolds, Panel!Subscribe PROVE PanelHolds'
  <1>1. /\ s6 = "connecting" /\ s6' = "open" /\ s8' = "view" /\ s5' = s5 /\ s7' = s7 /\ s15' = s15
    BY DEF Panel!Subscribe
  <1>2. s7 = <<>> /\ DOMAIN s7' = {}
    BY <1>1 DEF PanelHolds, StreamInStep
  <1>3. PanelTyped'
    BY <1>1, CallsLeft DEF PanelHolds
  <1>4. StreamInStep' /\ Coming'
    BY <1>1, <1>2 DEF PanelHolds, StreamInStep, Coming
  <1> QED
    BY <1>1, <1>3, <1>4 DEF PanelHolds

LEMMA Views == ASSUME PanelHolds, Panel!View PROVE PanelHolds'
  <1>1. /\ s8 = "view" /\ s1' = s1 /\ s5' = s5 /\ s6' = s6 /\ s15' = s15 /\ s4' = s4
    BY DEF Panel!View
  <1>2. s6 = "open" /\ (\A i \in DOMAIN s7 : ~s7[i].end) /\ IsList(s7)
    BY <1>1 DEF PanelHolds, StreamInStep, PanelTyped
  <1>a. Panel!Results.end = FALSE /\ Panel!Results.shows = s1 /\ Panel!End.end = TRUE
    BY DEF Panel!Results, Panel!End
  <1>b. Len(s7) \in Nat /\ DOMAIN s7 = 1 .. Len(s7)
    BY <1>2, Lists
  <1>3. CASE Panel!Running(s1)
    <2>1. s7' = Append(s7, Panel!Results) /\ s8' = "select"
      BY <1>3 DEF Panel!View
    <2>2. IsList(s7') /\ In(s7') = In(s7) \cup {Panel!Results}
      BY <1>2, <2>1, ListAppended
    <2>3. \A x \in In(s7') : ~x.end /\ x.end \in BOOLEAN
      BY <1>2, <1>a, <2>2 DEF In, PanelHolds, PanelTyped
    <2>4. \A i \in DOMAIN s7' : ~s7'[i].end /\ s7'[i].end \in BOOLEAN
      BY <2>3 DEF In
    <2>5. PanelTyped' /\ StreamInStep' /\ Coming'
      BY <1>1, <1>2, <2>1, <2>2, <2>4 DEF PanelHolds, PanelTyped, StreamInStep, Coming
    <2> QED
      BY <1>1, <2>1, <2>5 DEF PanelHolds
  <1>4. CASE ~Panel!Running(s1)
    <2> DEFINE n == Len(s7)
               all == Append(Append(s7, Panel!Results), Panel!End)
    <2>1. s7' = s7 \o <<Panel!Results, Panel!End>> /\ s8' = "none"
      BY <1>4 DEF Panel!View
    <2> DEFINE T == In(s7) \cup {Panel!Results, Panel!End}
    <2>2. s7 \in Seq(T) /\ <<Panel!Results, Panel!End>> \in Seq(T)
      BY <1>2 DEF IsList
    <2>3. /\ s7' \in Seq(T) /\ Len(s7') = n + 2
          /\ \A i \in 1 .. n : s7'[i] = s7[i]
          /\ s7'[n + 1] = Panel!Results /\ s7'[n + 2] = Panel!End
      <3>1. Len(<<Panel!Results, Panel!End>>) = 2
        OBVIOUS
      <3>2. s7' \in Seq(T) /\ Len(s7') = n + 2
        BY <2>1, <2>2, <3>1, ConcatProperties
      <3>3. \A i \in 1 .. n + 2 :
               s7'[i] = IF i <= n THEN s7[i] ELSE <<Panel!Results, Panel!End>>[i - n]
        BY <2>1, <2>2, <3>1, ConcatProperties
      <3>4. n + 1 \in 1 .. n + 2 /\ n + 2 \in 1 .. n + 2 /\ ~(n + 1 <= n) /\ ~(n + 2 <= n)
            /\ n + 1 - n = 1 /\ n + 2 - n = 2 /\ \A i \in 1 .. n : i \in 1 .. n + 2 /\ i <= n
        BY <1>b
      <3> QED
        BY <3>2, <3>3, <3>4
    <2>4. DOMAIN s7' = 1 .. n + 2 /\ IsList(s7')
      BY <2>3, ListOfAny
    <2>5. \A i \in DOMAIN s7' : i \in 1 .. n \/ i = n + 1 \/ i = n + 2
      BY <1>b, <2>4
    <2>6. \A i \in DOMAIN s7' : s7'[i].end \in BOOLEAN
      BY <1>a, <1>b, <2>3, <2>5 DEF PanelHolds, PanelTyped
    <2>7. n + 1 \in DOMAIN s7' /\ ~s7'[n + 1].end
      BY <1>a, <1>b, <2>3, <2>4
    <2>8. ASSUME NEW i \in DOMAIN s7', ~s7'[i].end, \A j \in DOMAIN s7' : j > i => s7'[j].end
          PROVE  s7'[i].shows = s1
      <3>1. i # n + 2
        BY <1>a, <2>3, <2>8
      <3>2. ~(n + 1 > i)
        BY <2>7, <2>8
      <3>3. i = n + 1
        BY <1>b, <2>5, <3>1, <3>2
      <3> QED
        BY <1>a, <2>3, <3>3
    <2>9. LastTells'
      BY <1>1, <1>4, <2>8 DEF LastTells, Panel!Running
    <2>10. Coming'
      BY <1>1, <1>2, <2>7 DEF Coming
    <2>11. PanelTyped'
      BY <1>1, <2>4, <2>6 DEF PanelHolds, PanelTyped
    <2>12. StreamInStep'
      <3>1. \A i \in DOMAIN s7' : s7'[i].end => i = Len(s7')
        BY <1>2, <1>a, <1>b, <2>3, <2>5
      <3> QED
        BY <1>1, <1>2, <2>1, <3>1 DEF PanelHolds, StreamInStep
    <2> QED
      BY <2>9, <2>10, <2>11, <2>12 DEF PanelHolds
  <1> QED
    BY <1>3, <1>4

LEMMA WakesOrEnds == ASSUME PanelHolds, Panel!Wake \/ Panel!Deadline PROVE PanelHolds'
  <1>1. CASE Panel!Wake
    <2>1. /\ s8 = "select" /\ s8' = "view" /\ s5' = s5 /\ s6' = s6 /\ s7' = s7
      BY <1>1 DEF Panel!Wake
    <2>2. PanelTyped' /\ StreamInStep' /\ Coming'
      BY <2>1, CallsLeft DEF PanelHolds, StreamInStep, Coming
    <2> QED
      BY <2>1, <2>2 DEF PanelHolds
  <1>2. CASE Panel!Deadline
    <2>1. /\ s8 = "select" /\ s7' = Append(s7, Panel!End) /\ s8' = "none" /\ s5' = s5 /\ s6' = s6
          /\ s15' # {}
      BY <1>2 DEF Panel!Deadline
    <2>2. IsList(s7) /\ IsList(s7') /\ In(s7') = In(s7) \cup {Panel!End}
      BY <2>1, ListAppended DEF PanelHolds, PanelTyped
    <2>3. \A x \in In(s7') : x.end \in BOOLEAN
      <3>1. \A x \in In(s7) : x.end \in BOOLEAN
        BY DEF In, PanelHolds, PanelTyped
      <3>2. Panel!End.end \in BOOLEAN
        BY DEF Panel!End
      <3> QED
        BY <2>2, <3>1, <3>2
    <2>4. \A i \in DOMAIN s7' : s7'[i].end \in BOOLEAN
      BY <2>3 DEF In
    <2>5. PanelTyped'
      BY <2>1, <2>2, <2>4 DEF PanelHolds, PanelTyped
    <2>6. s6 = "open"
      BY <2>1 DEF PanelHolds, StreamInStep
    <2>7. StreamInStep'
      <3>1. \A i \in DOMAIN s7 : ~s7[i].end
        BY <2>1 DEF PanelHolds, StreamInStep
      <3>2. Len(s7) \in Nat /\ DOMAIN s7 = 1 .. Len(s7) /\ s7 \in Seq(In(s7))
        BY <2>2, Lists DEF IsList
      <3>3. /\ Len(s7') = Len(s7) + 1 /\ DOMAIN s7' = 1 .. Len(s7) + 1
            /\ \A i \in 1 .. Len(s7) : s7'[i] = s7[i]
        <4>1. s7 \in Seq(In(s7) \cup {Panel!End})
          BY <3>2
        <4> QED
          BY <2>1, <4>1, AppendProperties
      <3>4. \A i \in DOMAIN s7' : s7'[i].end => i = Len(s7')
        BY <3>1, <3>2, <3>3
      <3> QED
        BY <2>1, <2>6, <3>4 DEF PanelHolds, StreamInStep
    <2> QED
      BY <2>1, <2>5, <2>7 DEF PanelHolds
  <1> QED
    BY <1>1, <1>2

(* The page takes an event from the stream. *)
LEMMA Receives == ASSUME PanelHolds, Panel!Receive PROVE PanelHolds'
  <1> DEFINE e == Head(s7)
  <1>1. /\ s6 = "open" /\ s7 # <<>> /\ s7' = Tail(s7) /\ s1' = s1 /\ s5' = s5 /\ s8' = s8
        /\ (s15' = {} => s15 = {})
    BY DEF Panel!Receive
  <1>2. IsList(s7) /\ Len(s7) \in Nat /\ DOMAIN s7 = 1 .. Len(s7) /\ s7 \in Seq(In(s7))
    BY Lists DEF PanelHolds, PanelTyped, IsList
  <1>3. /\ e = s7[1] /\ Len(s7) # 0 /\ 1 \in DOMAIN s7
        /\ Tail(s7) \in Seq(In(s7)) /\ Len(Tail(s7)) = Len(s7) - 1
        /\ \A i \in 1 .. Len(s7) - 1 : Tail(s7)[i] = s7[i + 1]
    BY <1>1, <1>2
  <1>4. /\ IsList(s7') /\ DOMAIN s7' = 1 .. Len(s7) - 1
        /\ \A i \in DOMAIN s7' : s7'[i] = s7[i + 1] /\ i + 1 \in DOMAIN s7
    <2>1. IsList(s7')
      BY <1>1, <1>3, ListOfAny
    <2>2. DOMAIN s7' = 1 .. Len(s7) - 1
      BY <1>1, <1>3
    <2> QED
      BY <1>1, <1>2, <1>3, <2>1, <2>2
  <1>5. PanelTyped'
    BY <1>1, <1>4 DEF PanelHolds, PanelTyped
  <1>6. ASSUME NEW i \in DOMAIN s7', \A j \in DOMAIN s7' : j > i => s7'[j].end
        PROVE  \A j \in DOMAIN s7 : j > i + 1 => s7[j].end
    <2> SUFFICES ASSUME NEW j \in DOMAIN s7, j > i + 1 PROVE s7[j].end
      OBVIOUS
    <2>1. j - 1 \in DOMAIN s7' /\ j - 1 > i /\ j - 1 + 1 = j
      BY <1>2, <1>4
    <2> QED
      BY <1>4, <1>6, <2>1
  <1>7. LastTells => LastTells'
    <2> SUFFICES ASSUME LastTells, NEW i \in DOMAIN s7', ~s7'[i].end,
                        \A j \in DOMAIN s7' : j > i => s7'[j].end
                 PROVE  ~Panel!Running(s7'[i].shows)
      BY DEF LastTells, Panel!Running
    <2>1. i + 1 \in DOMAIN s7 /\ s7'[i] = s7[i + 1] /\ \A j \in DOMAIN s7 : j > i + 1 => s7[j].end
      BY <1>4, <1>6
    <2> QED
      BY <2>1 DEF LastTells
  <1>b. \A i \in DOMAIN s7' : s7'[i].end => i = Len(s7')
    <2>1. Len(s7') = Len(s7) - 1
      BY <1>1, <1>3
    <2>2. \A i \in DOMAIN s7 : s7[i].end => i = Len(s7)
      BY DEF PanelHolds, StreamInStep
    <2> QED
      BY <1>2, <1>4, <2>1, <2>2
  <1> HIDE DEF e
  <1>8. CASE e.end
    <2>1. s6' = "closed" /\ s3' = s3 /\ s4' = s4
      BY <1>8 DEF Panel!Receive, e
    <2>2. s8 = "none" /\ 1 = Len(s7)
      BY <1>3, <1>8 DEF PanelHolds, StreamInStep
    <2>3. StreamInStep'
      BY <1>1, <1>b, <2>1, <2>2 DEF PanelHolds, StreamInStep
    <2>4. ~Coming
      BY <1>1, <1>2, <1>3, <1>8, <2>2 DEF Coming
    <2>5. ASSUME s15' = {} PROVE Asked' \/ Right'
      <3>1. CASE Asked
        BY <1>1, <2>1, <3>1 DEF Asked
      <3>2. CASE Right
        BY <1>1, <2>1, <3>2 DEF Right, Panel!Running
      <3> QED
        BY <1>1, <2>4, <2>5, <3>1, <3>2 DEF PanelHolds
    <2> QED
      BY <1>5, <2>1, <2>3, <2>5 DEF PanelHolds
  <1>9. CASE ~e.end
    <2>1. s6' = s6 /\ Panel!Swap(e.shows, FALSE) /\ s15' = s15 \cup Panel!Overtaken(e.shows)
      BY <1>9 DEF Panel!Receive, e
    <2>2. StreamInStep'
      BY <1>1, <1>4, <1>b, <2>1 DEF PanelHolds, StreamInStep
    <2>3. ASSUME s15' = {} PROVE Coming' \/ Asked' \/ Right'
      <3>1. Panel!Overtaken(e.shows) = {} /\ s15 = {}
        BY <2>1, <2>3
      <3>2. PICK shows : shows = e.shows
        OBVIOUS
      <3>3. s4' \/ Right' \/ Panel!Running(e.shows)
        BY <1>1, <2>1, <3>1, <3>2, Swapped
      <3>4. CASE Panel!Running(e.shows)
        <4>1. CASE s8 # "none"
          BY <1>1, <2>1, <4>1 DEF Coming
        <4>2. CASE s8 = "none" /\ \E i \in DOMAIN s7' : ~s7'[i].end
          BY <1>1, <2>1, <4>2 DEF Coming
        <4>3. CASE s8 = "none" /\ \A i \in DOMAIN s7' : s7'[i].end
          <5>1. \A j \in DOMAIN s7 : j > 1 => s7[j].end
            <6> SUFFICES ASSUME NEW j \in DOMAIN s7, j > 1 PROVE s7[j].end
              OBVIOUS
            <6>1. j - 1 \in DOMAIN s7' /\ j - 1 + 1 = j
              BY <1>2, <1>4
            <6> QED
              BY <1>4, <4>3, <6>1
          <5>2. LastTells
            BY <1>1, <3>1, <4>3 DEF PanelHolds
          <5>3. ~Panel!Running(s7[1].shows)
            BY <1>3, <1>9, <5>1, <5>2 DEF LastTells
          <5> QED
            BY <1>3, <3>4, <5>3
        <4> QED
          BY <4>1, <4>2, <4>3
      <3> QED
        BY <3>3, <3>4 DEF Asked
    <2>4. s15' = {} /\ s8' = "none" => LastTells'
      BY <1>1, <1>7 DEF PanelHolds
    <2> QED
      BY <1>5, <2>2, <2>3, <2>4 DEF PanelHolds
  <1> QED
    BY <1>8, <1>9

(* The connection breaks, or nothing was heard from it: the page asks for itself, once. *)
LEMMA FallsBack ==
    ASSUME PanelTyped, Panel!Fallback
    PROVE  /\ s5' = [c \in Asking |-> s5'[c]]
           /\ \A c \in Asking : DOMAIN s5'[c] = AskFields /\ s5'[c] = [f \in AskFields |-> s5'[c][f]]
           /\ ~s11 => s5'["poll"] # Panel!NoCall /\ s5'["poll"].poll
           /\ s11 => s5' = s5
           /\ \A c \in Asking : s5[c] # Panel!NoCall => s5'[c] # Panel!NoCall
           /\ (s5["poll"].at # "none" => s5["poll"].poll)
              => (s5'["poll"].at # "none" => s5'["poll"].poll)
  <1>1. CASE s11
    BY <1>1 DEF Panel!Fallback, PanelTyped
  <1>2. CASE ~s11
    <2>1. Panel!Ask("poll", "none")
      BY <1>2 DEF Panel!Fallback
    <2>2. PICK c, src : c = "poll" /\ src = "none"
      OBVIOUS
    <2>3. Panel!Ask(c, src) /\ c \in Asking
      BY <2>1, <2>2 DEF Asking
    <2>4. /\ s5' = [d \in Asking |-> s5'[d]]
          /\ \A d \in Asking : DOMAIN s5'[d] = AskFields /\ s5'[d] = [f \in AskFields |-> s5'[d][f]]
          /\ s5'[c] # Panel!NoCall /\ (c = "poll" => s5'["poll"].poll)
          /\ \A d \in Asking \ {c} : s5'[d] = s5[d]
      BY <2>3, AsksOne
    <2> QED
      BY <1>2, <2>2, <2>4
  <1> QED
    BY <1>1, <1>2

LEMMA Breaks == ASSUME PanelHolds, Panel!Break PROVE PanelHolds'
  <1>1. /\ s6' \in {"connecting", "refused"} /\ s7' = <<>> /\ s8' = "none" /\ Panel!Fallback
        /\ s15' = (IF s11 /\ s6' = "refused" THEN s15 \cup {"refused"} ELSE s15)
    BY DEF Panel!Break
  <1>2. PanelTyped
    BY DEF PanelHolds
  <1>3. PanelTyped'
    <2>1. IsList(s7') /\ DOMAIN s7' = {}
      BY <1>1, EmptyList
    <2> QED
      BY <1>1, <1>2, <2>1, FallsBack DEF PanelTyped
  <1>4. StreamInStep'
    <2>1. DOMAIN s7' = {}
      BY <1>1
    <2>2. s5'["poll"].at # "none" => s5'["poll"].poll
      BY <1>1, <1>2, FallsBack DEF PanelHolds, StreamInStep
    <2> QED
      BY <1>1, <2>1, <2>2 DEF StreamInStep
  <1>5. s15' = {} => Coming' \/ Asked'
    <2>1. CASE s6' = "connecting"
      BY <2>1 DEF Coming
    <2>2. CASE s6' = "refused" /\ ~s11
      <3>1. s5'["poll"] # Panel!NoCall
        BY <1>1, <1>2, <2>2, FallsBack
      <3> QED
        BY <3>1 DEF Asked, Asking
    <2>3. CASE s6' = "refused" /\ s11
      BY <1>1, <2>3
    <2> QED
      BY <1>1, <2>1, <2>2, <2>3
  <1> QED
    BY <1>1, <1>3, <1>4, <1>5 DEF PanelHolds

LEMMA GraceEnds == ASSUME PanelHolds, Panel!Grace PROVE PanelHolds'
  <1>1. /\ Panel!Fallback /\ s1' = s1 /\ s3' = s3 /\ s4' = s4 /\ s6' = s6 /\ s7' = s7 /\ s8' = s8
        /\ s15' = s15
    BY DEF Panel!Grace, Panel!counts
  <1>2. PanelTyped
    BY DEF PanelHolds
  <1>3. PanelTyped'
    <2>1. IsList(s7') /\ \A i \in DOMAIN s7' : s7'[i].end \in BOOLEAN
      BY <1>1, <1>2 DEF PanelTyped, IsList, In
    <2> QED
      BY <1>1, <1>2, <2>1, FallsBack DEF PanelTyped
  <1>4. StreamInStep' /\ (LastTells => LastTells')
    <2>1. s5'["poll"].at # "none" => s5'["poll"].poll
      BY <1>1, <1>2, FallsBack DEF PanelHolds, StreamInStep
    <2> QED
      BY <1>1, <2>1, StreamLeft DEF PanelHolds
  <1>5. /\ Coming => Coming'
        /\ Right => Right'
    BY <1>1 DEF Coming, Right, Panel!Running
  <1>6. Asked => Asked'
    BY <1>1, <1>2, FallsBack DEF Asked
  <1> QED
    BY <1>1, <1>3, <1>4, <1>5, <1>6 DEF PanelHolds

LEMMA PageAsks ==
    ASSUME PanelHolds, NEW c \in Asking, NEW src, Panel!Ask(c, src),
           UNCHANGED <<s1, s3, s6, s7, s8, s15>>
    PROVE  PanelHolds'
  <1>1. PanelTyped
    BY DEF PanelHolds
  <1>2. PanelTyped'
    <2>1. IsList(s7') /\ \A i \in DOMAIN s7' : s7'[i].end \in BOOLEAN
      BY <1>1 DEF PanelTyped, IsList, In
    <2> QED
      BY <1>1, <2>1, AsksOne DEF PanelTyped
  <1>3. s5'["poll"].at # "none" => s5'["poll"].poll
    <2>1. "poll" \in Asking
      BY DEF Asking
    <2> QED
      BY <1>1, <2>1, AsksOne DEF PanelHolds, StreamInStep
  <1>4. StreamInStep' /\ (LastTells => LastTells')
    BY <1>3, StreamLeft DEF PanelHolds
  <1>5. Asked'
    BY <1>1, AsksOne DEF Asked
  <1> QED
    BY <1>2, <1>4, <1>5 DEF PanelHolds

LEMMA PollerAsks == ASSUME PanelHolds, Panel!PollerFires PROVE PanelHolds'
  <1>1. /\ Panel!Ask("poll", "none") /\ UNCHANGED <<s1, s3, s6, s7, s8, s15>>
    BY DEF Panel!PollerFires, Panel!delivery, Panel!counts
  <1>2. PICK c, src : c = "poll" /\ src = "none"
    OBVIOUS
  <1>3. Panel!Ask(c, src) /\ c \in Asking
    BY <1>1, <1>2 DEF Asking
  <1> QED
    BY <1>1, <1>3, PageAsks

LEMMA PersonClicks ==
    ASSUME PanelHolds, NEW s, Panel!Click(s) PROVE PanelHolds'
  <1>1. /\ Panel!Ask("post", s) /\ UNCHANGED <<s1, s3, s6, s7, s8, s15>>
    BY DEF Panel!Click, Panel!delivery, Panel!counts
  <1>2. PICK c : c = "post"
    OBVIOUS
  <1>3. Panel!Ask(c, s) /\ c \in Asking
    BY <1>1, <1>2 DEF Asking
  <1> QED
    BY <1>1, <1>3, PageAsks

(* The answers to what the page asked. *)
LEMMA Answers == ASSUME PanelHolds, NEW c \in Asking, Panel!Answer(c) PROVE PanelHolds'
  <1> DEFINE call == s5[c]
             after == IF call.src \in Polled
                      THEN IF Panel!CanRetry(call.src) THEN Panel!Retried(call.src) ELSE s1
                      ELSE IF call.src = "cancel" THEN Panel!Cancelled ELSE s1
  <1>1. /\ call.at = "asked" /\ s5' = [s5 EXCEPT ![c].at = "answered", ![c].shows = after]
        /\ s6' = s6 /\ s7' = s7 /\ s8' = s8 /\ s15' = s15
    BY DEF Panel!Answer, Panel!delivery
  <1>2. PanelTyped
    BY DEF PanelHolds
  <1> DEFINE new == [call EXCEPT !.at = "answered", !.shows = after]
  <1>3. /\ DOMAIN new = AskFields /\ new = [f \in AskFields |-> new[f]]
        /\ new.at = "answered" /\ new.poll = call.poll
    BY <1>2 DEF PanelTyped, AskFields
  <1>4. s5' = [d \in Asking |-> IF d = c THEN new ELSE s5[d]]
    BY <1>1, <1>2 DEF PanelTyped
  <1> HIDE DEF new
  <1>5. \A d \in Asking : s5'[d] = IF d = c THEN new ELSE s5[d]
    BY <1>4
  <1>6. PanelTyped'
    <2>1. IsList(s7') /\ \A i \in DOMAIN s7' : s7'[i].end \in BOOLEAN
      BY <1>1, <1>2 DEF PanelTyped, IsList, In
    <2> QED
      BY <1>2, <1>3, <1>4, <1>5, <2>1 DEF PanelTyped
  <1>7. s5'["poll"].at # "none" => s5'["poll"].poll
    <2>1. "poll" \in Asking
      BY DEF Asking
    <2> QED
      BY <1>1, <1>3, <1>5, <2>1 DEF PanelHolds, StreamInStep
  <1>8. StreamInStep' /\ (LastTells => LastTells')
    BY <1>1, <1>7, StreamLeft DEF PanelHolds
  <1>9. Asked'
    <2>1. s5'[c].at = "answered"
      BY <1>3, <1>5
    <2> QED
      BY <2>1 DEF Asked, Panel!NoCall
  <1> QED
    BY <1>1, <1>6, <1>8, <1>9 DEF PanelHolds

(* A call ends: its answer has come, or is lost. *)
LEMMA CallOver ==
    ASSUME PanelHolds, NEW c \in Asking, s5' = [s5 EXCEPT ![c] = Panel!NoCall],
           UNCHANGED <<s6, s7, s8>>
    PROVE  PanelTyped' /\ StreamInStep' /\ (LastTells => LastTells')
  <1>1. PanelTyped
    BY DEF PanelHolds
  <1>2. s5' = [d \in Asking |-> IF d = c THEN Panel!NoCall ELSE s5[d]]
    BY <1>1 DEF PanelTyped
  <1>3. \A d \in Asking : s5'[d] = IF d = c THEN Panel!NoCall ELSE s5[d]
    BY <1>2
  <1>4. /\ DOMAIN Panel!NoCall = AskFields /\ Panel!NoCall.at = "none"
        /\ Panel!NoCall = [f \in AskFields |-> Panel!NoCall[f]]
    BY DEF Panel!NoCall, AskFields
  <1>5. PanelTyped'
    <2>1. IsList(s7') /\ \A i \in DOMAIN s7' : s7'[i].end \in BOOLEAN
      BY <1>1 DEF PanelTyped, IsList, In
    <2> QED
      BY <1>1, <1>2, <1>3, <1>4, <2>1 DEF PanelTyped
  <1>6. s5'["poll"].at # "none" => s5'["poll"].poll
    <2>1. "poll" \in Asking
      BY DEF Asking
    <2> QED
      BY <1>3, <1>4, <2>1 DEF PanelHolds, StreamInStep
  <1> QED
    BY <1>5, <1>6, StreamLeft DEF PanelHolds

LEMMA Arrives == ASSUME PanelHolds, NEW c \in Asking, Panel!Arrive(c) PROVE PanelHolds'
  <1>1. /\ s5[c].at = "answered" /\ Panel!Swap(s5[c].shows, s5[c].poll)
        /\ s5' = [s5 EXCEPT ![c] = Panel!NoCall]
        /\ s15' = s15 \cup Panel!Overtaken(s5[c].shows) \cup Panel!Unheard(c)
        /\ s1' = s1 /\ UNCHANGED <<s6, s7, s8>>
    BY DEF Panel!Arrive
  <1>2. PanelTyped' /\ StreamInStep' /\ (LastTells => LastTells')
    BY <1>1, CallOver
  <1>3. ASSUME s15' = {} PROVE Coming' \/ Asked' \/ Right'
    <2>1. Panel!Overtaken(s5[c].shows) = {} /\ Panel!Unheard(c) = {}
      BY <1>1, <1>3
    <2>2. PICK shows, poll : shows = s5[c].shows /\ poll = s5[c].poll
      OBVIOUS
    <2>3. s4' \/ Right' \/ (Panel!Running(shows) /\ Panel!Streams(poll))
      BY <1>1, <2>1, <2>2, Swapped
    <2>4. CASE Panel!Running(shows) /\ Panel!Streams(poll)
      <3>1. c = "post"
        <4>1. ~s5[c].poll
          BY <2>2, <2>4 DEF Panel!Streams
        <4> QED
          BY <1>1, <4>1 DEF PanelHolds, StreamInStep, Asking
      <3>2. s8 # "none" \/ s6 = "connecting"
        BY <2>1, <2>2, <2>4, <3>1 DEF Panel!Unheard
      <3>3. s6 = "open" \/ s6 = "connecting"
        BY <3>2 DEF PanelHolds, StreamInStep
      <3> QED
        BY <1>1, <3>2, <3>3 DEF Coming
    <2> QED
      BY <2>3, <2>4 DEF Asked
  <1> QED
    BY <1>1, <1>2, <1>3 DEF PanelHolds

LEMMA Loses == ASSUME PanelHolds, NEW c \in Asking, Panel!Lose(c) PROVE PanelHolds'
  <1>1. /\ s5' = [s5 EXCEPT ![c] = Panel!NoCall] /\ UNCHANGED <<s6, s7, s8>> /\ s15' # {}
    BY DEF Panel!Lose, Panel!delivery
  <1> QED
    BY <1>1, CallOver DEF PanelHolds

LEMMA PanelStep == ASSUME PanelHolds, [Panel!Next]_(Panel!vars) PROVE PanelHolds'
  <1>1. CASE UNCHANGED Panel!vars
    <2>1. UNCHANGED <<s1, s3, s4, s5, s6, s7, s8, s15>>
      BY <1>1 DEF Panel!vars, Panel!delivery
    <2>2. s5'["poll"].at # "none" => s5'["poll"].poll
      BY <2>1 DEF PanelHolds, StreamInStep
    <2>3. PanelTyped' /\ StreamInStep' /\ (LastTells => LastTells')
      BY <2>1, <2>2, CallsLeft, StreamLeft DEF PanelHolds
    <2>4. /\ Coming => Coming'
          /\ Asked => Asked'
          /\ Right => Right'
      BY <2>1 DEF Coming, Asked, Right, Panel!Running
    <2> QED
      BY <2>1, <2>3, <2>4 DEF PanelHolds
  <1>2. CASE Panel!Subscribe
    BY <1>2, Subscribes
  <1>3. CASE Panel!View
    BY <1>3, Views
  <1>4. CASE Panel!Wake \/ Panel!Deadline
    BY <1>4, WakesOrEnds
  <1>5. CASE Panel!Receive
    BY <1>5, Receives
  <1>6. CASE Panel!Break
    BY <1>6, Breaks
  <1>7. CASE Panel!Grace
    BY <1>7, GraceEnds
  <1>8. CASE Panel!PollerFires
    BY <1>8, PollerAsks
  <1>9. ASSUME NEW s \in Polled, Panel!Settle(s) PROVE PanelHolds'
    BY <1>9, Settles
  <1>10. ASSUME NEW s, Panel!Click(s) PROVE PanelHolds'
    BY <1>10, PersonClicks
  <1>11. ASSUME NEW c \in Asking, Panel!Answer(c) \/ Panel!Arrive(c) \/ Panel!Lose(c)
         PROVE  PanelHolds'
    BY <1>11, Answers, Arrives, Loses
  <1> QED
    BY <1>1, <1>2, <1>3, <1>4, <1>5, <1>6, <1>7, <1>8, <1>9, <1>10, <1>11 DEF Panel!Next, Asking

LEMMA PanelShows == PanelHolds => Panel!PanelEndsRight
  <1> SUFFICES ASSUME PanelHolds, ~Panel!Followed, s15 = {} PROVE s3.shows = s1
    BY DEF Panel!PanelEndsRight
  <1>1. ~Coming /\ ~Asked
    BY DEF Panel!Followed, Coming, Asked, Asking
  <1> QED
    BY <1>1 DEF PanelHolds, Right

-----------------------------------------------------------------------------
(* Duplicates.  A group has two records or more, no two share one, and what a page shows   *)
(* was a group when it was drawn.                                                     *)
Verdicts == {"linked", "ignored"}
Group == [id : 1 .. MaxDecisions, verdict : Verdicts, members : SUBSET HeldRecords]
Shown == [id : 0 .. MaxDecisions, verdict : Verdicts \cup {"candidate"}, members : SUBSET HeldRecords]
Poll == [answered : SUBSET Decisions!Sources, loaded : SUBSET HeldRecords, seen : SUBSET HeldRecords]

Plural(g) == Cardinality(g.members) >= 2
Apart == {p \in Group \X Group : p[1].members \cap p[2].members = {}}

Groups(gs) == IsList(gs) /\ In(gs) \subseteq Group /\ InOrder(gs, Apart)
GoodGroups(gs) == Groups(gs) /\ \A g \in In(gs) : Plural(g)
GoodPages(pages) ==
    /\ pages = [t \in OpenTabs |-> pages[t]]
    /\ \A t \in OpenTabs : \A g \in pages[t] : g \in Shown /\ Plural(g)

DecisionsHold ==
    /\ s1 \subseteq Decisions!PairsOf(HeldRecords) /\ s2 \subseteq HeldRecords
    /\ GoodGroups(s3) /\ s4 \in [OpenTabs -> Poll] /\ GoodPages(s5)
    /\ s6 \in 0 .. MaxDecisions

LEMMA CountsTheSame == \A S : Decisions!Cardinality(S) = Cardinality(S)
  BY DEF Decisions!Cardinality, Cardinality

LEMMA SameWithin == \A seq, S : Decisions!Within(seq, S) = Accounts!Within(seq, S)
  BY DEF Decisions!Within, Accounts!Within

(* What is left of the groups when members go. *)
LEMMA WithoutGood ==
    ASSUME NEW gs, Groups(gs), NEW gone
    PROVE  /\ GoodGroups(Decisions!Without(gs, gone))
           /\ \A g \in In(Decisions!Without(gs, gone)) : g.members \cap gone = {}
  <1> DEFINE left == [i \in DOMAIN gs |-> [gs[i] EXCEPT !.members = @ \ gone]]
             S == {g \in Decisions!ToSet(left) : Decisions!Cardinality(g.members) >= 2}
             kept == Accounts!Within(left, S)
  <1>1. Decisions!Without(gs, gone) = kept
    BY SameWithin DEF Decisions!Without
  <1>2. Len(gs) \in Nat /\ DOMAIN gs = 1 .. Len(gs) /\ \A i \in DOMAIN gs : gs[i] \in Group
    BY Lists DEF Groups, In
  <1>3. /\ DOMAIN left = 1 .. Len(gs)
        /\ \A i \in DOMAIN gs : left[i] = [gs[i] EXCEPT !.members = @ \ gone]
    BY <1>2
  <1>4. \A i \in DOMAIN gs : left[i] \in Group /\ left[i].members = gs[i].members \ gone
    BY <1>2, <1>3 DEF Group
  <1>5. left \in [1 .. Len(gs) -> Group]
    BY <1>2, <1>3, <1>4
  <1>6. left \in Seq(Group)
    BY <1>2, <1>5
  <1>7. IsList(left) /\ In(left) \subseteq Group
    BY <1>6, ListOfAny
  <1> HIDE DEF left
  <1>8. InOrder(left, Apart)
    <2> SUFFICES ASSUME NEW m \in DOMAIN left, NEW n \in DOMAIN left, m < n
                 PROVE  <<left[m], left[n]>> \in Apart
      BY DEF InOrder
    <2>1. <<gs[m], gs[n]>> \in Apart
      BY <1>2, <1>3 DEF Groups, InOrder
    <2>2. gs[m].members \cap gs[n].members = {}
      BY <2>1 DEF Apart
    <2>3. left[m].members \cap left[n].members = {}
      BY <1>2, <1>3, <1>4, <2>2
    <2> QED
      BY <1>2, <1>3, <1>4, <2>3 DEF Apart
  <1>9. IsList(kept) /\ In(kept) = In(left) \cap S /\ InOrder(kept, Apart)
    BY <1>7, <1>8, KeptInOrder
  <1>10. \A g \in In(kept) : Plural(g)
    BY <1>9, CountsTheSame DEF Plural
  <1>11. \A g \in In(left) : g.members \cap gone = {}
    BY <1>2, <1>3, <1>4 DEF In
  <1> HIDE DEF kept
  <1>12. GoodGroups(kept)
    BY <1>7, <1>9, <1>10 DEF GoodGroups, Groups
  <1> QED
    BY <1>1, <1>9, <1>11, <1>12

LEMMA DecidedGood ==
    ASSUME NEW gs, Groups(gs), NEW id \in 1 .. MaxDecisions, NEW verdict \in Verdicts,
           NEW members \in SUBSET HeldRecords, Cardinality(members) >= 2
    PROVE  GoodGroups(Decisions!Decided(gs, id, verdict, members))
  <1> DEFINE left == Decisions!Without(gs, members)
             new == [id |-> id, verdict |-> verdict, members |-> members]
  <1>1. Decisions!Decided(gs, id, verdict, members) = Append(left, new)
    BY DEF Decisions!Decided, Decisions!Release
  <1>2. GoodGroups(left) /\ \A g \in In(left) : g.members \cap members = {}
    BY WithoutGood
  <1>3. new \in Group /\ new.members = members /\ Plural(new)
    BY DEF Group, Plural
  <1> HIDE DEF left, new
  <1>4. \A g \in In(left) : <<g, new>> \in Apart
    BY <1>2, <1>3 DEF GoodGroups, Groups, Apart
  <1>5. IsList(Append(left, new)) /\ In(Append(left, new)) = In(left) \cup {new}
    BY <1>2, ListAppended DEF GoodGroups, Groups
  <1>6. InOrder(Append(left, new), Apart)
    BY <1>2, <1>4, OrderAppended DEF GoodGroups, Groups
  <1>7. GoodGroups(Append(left, new))
    BY <1>2, <1>3, <1>5, <1>6 DEF GoodGroups, Groups
  <1> QED
    BY <1>1, <1>7

(* The least number of a set. *)
LEMMA LeastIn ==
    ASSUME NEW S \in SUBSET Nat, S # {}
    PROVE  Decisions!Min(S) \in S
  <1>1. \E x \in S : \A y \in S : x <= y
    <2>1. SUFFICES ASSUME \A x \in S : \E y \in S : y < x PROVE FALSE
      OBVIOUS
    <2> DEFINE P == {n \in Nat : \A m \in 0 .. n : m \notin S}
    <2>2. 0 \in P
      BY <2>1
    <2>3. ASSUME NEW n \in Nat, n \in P PROVE n + 1 \in P
      BY <2>1, <2>3
    <2> HIDE DEF P
    <2>4. Nat \subseteq P
      BY <2>2, <2>3, NatInductive
    <2>5. PICK x \in S : x \in Nat
      OBVIOUS
    <2>6. x \in P /\ x \in 0 .. x
      BY <2>4, <2>5
    <2> QED
      BY <2>6 DEF P
  <1> QED
    BY <1>1 DEF Decisions!Min

LEMMA RemovedGood ==
    ASSUME NEW gs, GoodGroups(gs), NEW id PROVE GoodGroups(Decisions!RemoveID(gs, id))
  <1> DEFINE S == {i \in DOMAIN gs : gs[i].id = id}
             k == Decisions!Min(S)
             less == Decisions!RemoveAt(gs, k)
  <1>1. gs \in Seq(In(gs)) /\ Len(gs) \in Nat /\ DOMAIN gs = 1 .. Len(gs)
    BY Lists DEF GoodGroups, Groups, IsList
  <1>2. CASE S = {}
    BY <1>2 DEF Decisions!RemoveID
  <1>3. CASE S # {}
    <2>2. Decisions!RemoveID(gs, id) = less
      BY <1>3 DEF Decisions!RemoveID
    <2>a. S \subseteq DOMAIN gs /\ S \in SUBSET Nat
      BY <1>1
    <2> HIDE DEF S
    <2>1. k \in DOMAIN gs
      BY <1>3, <2>a, LeastIn
    <2> HIDE DEF k
    <2>3. less = SubSeq(gs, 1, k - 1) \o SubSeq(gs, k + 1, Len(gs))
      BY DEF Decisions!RemoveAt
    <2>4. /\ SubSeq(gs, 1, k - 1) \in Seq(In(gs)) /\ Len(SubSeq(gs, 1, k - 1)) = k - 1
          /\ \A i \in 1 .. k - 1 : SubSeq(gs, 1, k - 1)[i] = gs[i]
      BY <1>1, <2>1, SubSeqProperties
    <2>5. /\ SubSeq(gs, k + 1, Len(gs)) \in Seq(In(gs))
          /\ Len(SubSeq(gs, k + 1, Len(gs))) = Len(gs) - k
          /\ \A i \in 1 .. Len(gs) - k : SubSeq(gs, k + 1, Len(gs))[i] = gs[k + i]
      BY <1>1, <2>1, SubSeqProperties
    <2>6. /\ less \in Seq(In(gs)) /\ Len(less) = Len(gs) - 1
          /\ \A i \in 1 .. Len(gs) - 1 : less[i] = gs[IF i < k THEN i ELSE i + 1]
      <3> DEFINE u == SubSeq(gs, 1, k - 1)
                 v == SubSeq(gs, k + 1, Len(gs))
      <3>1. /\ u \in Seq(In(gs)) /\ Len(u) = k - 1 /\ \A i \in 1 .. k - 1 : u[i] = gs[i]
            /\ v \in Seq(In(gs)) /\ Len(v) = Len(gs) - k
            /\ \A i \in 1 .. Len(gs) - k : v[i] = gs[k + i]
        BY <2>4, <2>5
      <3>2. less = u \o v
        BY <2>3
      <3> HIDE DEF u, v
      <3>3. k \in 1 .. Len(gs) /\ k - 1 + (Len(gs) - k) = Len(gs) - 1
        BY <1>1, <2>1
      <3>4. /\ less \in Seq(In(gs)) /\ Len(less) = k - 1 + (Len(gs) - k)
            /\ \A i \in 1 .. k - 1 + (Len(gs) - k) :
                  less[i] = IF i <= k - 1 THEN u[i] ELSE v[i - (k - 1)]
        <4>1. /\ u \o v \in Seq(In(gs)) /\ Len(u \o v) = Len(u) + Len(v)
              /\ \A i \in 1 .. Len(u) + Len(v) :
                    (u \o v)[i] = IF i <= Len(u) THEN u[i] ELSE v[i - Len(u)]
          BY <3>1, ConcatProperties
        <4> QED
          BY <3>1, <3>2, <4>1
      <3>5. ASSUME NEW i \in 1 .. Len(gs) - 1
            PROVE  less[i] = gs[IF i < k THEN i ELSE i + 1]
        <4>1. CASE i < k
          <5>1. i \in 1 .. k - 1 /\ i <= k - 1 /\ i \in 1 .. k - 1 + (Len(gs) - k)
            BY <1>1, <3>3, <4>1
          <5>2. less[i] = u[i] /\ u[i] = gs[i]
            BY <3>1, <3>4, <5>1
          <5> QED
            BY <4>1, <5>2
        <4>2. CASE ~(i < k)
          <5>1. i - (k - 1) \in 1 .. Len(gs) - k /\ k + (i - (k - 1)) = i + 1 /\ ~(i <= k - 1)
            BY <1>1, <3>3, <4>2
          <5> QED
            BY <1>1, <3>1, <3>3, <3>4, <4>2, <5>1
        <4> QED
          BY <4>1, <4>2
      <3> QED
        BY <3>3, <3>4, <3>5
    <2> HIDE DEF less
    <2>7. IsList(less) /\ In(less) \subseteq In(gs) /\ DOMAIN less = 1 .. Len(gs) - 1
      BY <1>1, <2>6, ListOfAny
    <2>8. InOrder(less, Apart)
      <3> SUFFICES ASSUME NEW m \in DOMAIN less, NEW n \in DOMAIN less, m < n
                   PROVE  <<less[m], less[n]>> \in Apart
        BY DEF InOrder
      <3> DEFINE from(i) == IF i < k THEN i ELSE i + 1
      <3>1. from(m) \in DOMAIN gs /\ from(n) \in DOMAIN gs /\ from(m) < from(n)
        BY <1>1, <2>1, <2>7
      <3>2. less[m] = gs[from(m)] /\ less[n] = gs[from(n)]
        BY <2>6, <2>7
      <3> HIDE DEF from
      <3> QED
        BY <3>1, <3>2 DEF GoodGroups, Groups, InOrder
    <2> QED
      BY <2>2, <2>7, <2>8 DEF GoodGroups, Groups
  <1> QED
    BY <1>2, <1>3

-----------------------------------------------------------------------------
(* Two records or more are in a group that detection joins. *)
LEMMA Finite == \A S \in SUBSET HeldRecords : IsFiniteSet(S) /\ Cardinality(S) \in Nat
  BY RecordsAssumption, FS_Subset, FS_CardinalityType

LEMMA PairsPlural ==
    ASSUME NEW p \in Decisions!PairsOf(HeldRecords)
    PROVE  p \in SUBSET HeldRecords /\ Cardinality(p) = 2
  BY CountsTheSame DEF Decisions!PairsOf

LEMMA Reached ==
    ASSUME NEW pairs \in SUBSET Decisions!PairsOf(HeldRecords), NEW r \in HeldRecords,
           NEW p \in pairs, r \in p
    PROVE  p \subseteq Decisions!Component(pairs, r) /\ Decisions!Component(pairs, r) \subseteq HeldRecords
  <1> DEFINE Grow(S) == S \cup UNION {q \in pairs : q \cap S # {}}
             n == Cardinality(HeldRecords)
             dn == Decisions!Cardinality(HeldRecords)
             Growing(h, m) == h = [i \in 0 .. m |-> IF i = 0 THEN {r} ELSE Grow(h[i - 1])]
             reached == CHOOSE h : Growing(h, dn)
  <1>1. dn \in Nat /\ dn >= 1
    <2>1. IsFiniteSet(HeldRecords) /\ Cardinality(HeldRecords) \in Nat
      BY RecordsAssumption, FS_CardinalityType
    <2>2. Cardinality(HeldRecords) # 0
      BY <2>1, FS_EmptySet
    <2> QED
      BY <2>1, <2>2, CountsTheSame
  <1>a. \A q \in pairs : q \subseteq HeldRecords
    BY PairsPlural
  <1>2. \E h : Growing(h, dn)
    <2> DEFINE P == {m \in Nat : \E h : Growing(h, m)}
    <2>1. 0 \in P
      <3>1. Growing([i \in 0 .. 0 |-> {r}], 0)
        OBVIOUS
      <3> QED
        BY <3>1
    <2>2. ASSUME NEW m \in Nat, m \in P PROVE m + 1 \in P
      <3>1. PICK h : Growing(h, m)
        BY <2>2
      <3> DEFINE g == [i \in 0 .. m + 1 |-> IF i = m + 1 THEN Grow(h[m]) ELSE h[i]]
      <3>2. \A i \in 0 .. m + 1 : g[i] = IF i = m + 1 THEN Grow(h[m]) ELSE h[i]
        OBVIOUS
      <3>3. DOMAIN g = 0 .. m + 1 /\ g = [i \in 0 .. m + 1 |-> g[i]]
        OBVIOUS
      <3> HIDE DEF Grow, g
      <3>4. \A i \in 0 .. m : h[i] = IF i = 0 THEN {r} ELSE Grow(h[i - 1])
        BY <3>1
      <3>5. ASSUME NEW i \in 0 .. m + 1
            PROVE  g[i] = IF i = 0 THEN {r} ELSE Grow(g[i - 1])
        <4>1. CASE i = m + 1
          <5>1. i # 0 /\ i - 1 = m /\ i - 1 # m + 1 /\ i - 1 \in 0 .. m + 1
            BY <4>1
          <5> QED
            BY <3>2, <4>1, <5>1
        <4>2. CASE i \in 0 .. m
          <5>1. i # m + 1 /\ (i # 0 => i - 1 \in 0 .. m + 1 /\ i - 1 # m + 1)
            BY <4>2
          <5> QED
            BY <3>2, <3>4, <4>2, <5>1
        <4> QED
          BY <4>1, <4>2
      <3>6. Growing(g, m + 1)
        BY <3>3, <3>5
      <3> QED
        BY <3>6
    <2> HIDE DEF P
    <2>3. dn \in P
      BY <2>1, <2>2, <1>1, NatInductive
    <2> QED
      BY <2>3 DEF P
  <1>3. Growing(reached, dn)
    BY <1>2
  <1>4. Decisions!Component(pairs, r) = reached[dn]
    BY DEF Decisions!Component
  <1> HIDE DEF reached, dn
  <1>5. reached[0] = {r} /\ \A i \in 0 .. dn - 1 : reached[i + 1] = Grow(reached[i])
    <2> HIDE DEF Grow
    <2>1. \A i \in 0 .. dn : reached[i] = IF i = 0 THEN {r} ELSE Grow(reached[i - 1])
      BY <1>3
    <2>2. reached[0] = {r}
      BY <1>1, <2>1
    <2>3. ASSUME NEW i \in 0 .. dn - 1 PROVE reached[i + 1] = Grow(reached[i])
      <3>1. i + 1 \in 0 .. dn /\ i + 1 # 0 /\ i + 1 - 1 = i
        BY <1>1
      <3> QED
        BY <2>1, <3>1
    <2> QED
      BY <2>2, <2>3
  <1>6. \A S : S \subseteq HeldRecords => Grow(S) \subseteq HeldRecords
    BY <1>a
  <1>7. \A S : r \in S => r \in Grow(S) /\ p \subseteq Grow(S)
    OBVIOUS
  <1> HIDE DEF Grow
  <1> DEFINE Sound(i) == /\ reached[i] \subseteq HeldRecords /\ r \in reached[i]
                         /\ i >= 1 => p \subseteq reached[i]
             Q == {i \in Nat : i <= dn => Sound(i)}
  <1>8. 0 \in Q
    BY <1>5
  <1>9. ASSUME NEW i \in Nat, i \in Q PROVE i + 1 \in Q
    <2> SUFFICES ASSUME i + 1 <= dn PROVE Sound(i + 1)
      OBVIOUS
    <2>1. Sound(i) /\ reached[i + 1] = Grow(reached[i])
      BY <1>1, <1>5, <1>9
    <2> QED
      BY <2>1, <1>6, <1>7
  <1> HIDE DEF Q
  <1>10. dn \in Q
    BY <1>1, <1>8, <1>9, NatInductive
  <1> QED
    BY <1>1, <1>4, <1>10 DEF Q

LEMMA CandidatesShown ==
    ASSUME s1 \subseteq Decisions!PairsOf(HeldRecords), NEW loaded, NEW gs,
           NEW g \in Decisions!Candidates(loaded, gs), MaxDecisions \in Nat
    PROVE  g \in Shown /\ Plural(g)
  <1> DEFINE pairs == Decisions!Joined(loaded, gs)
  <1>1. pairs \in SUBSET Decisions!PairsOf(HeldRecords)
    BY DEF Decisions!Joined
  <1>2. PICK c \in Decisions!Clusters(loaded, gs) : g = [id |-> 0, verdict |-> "candidate", members |-> c]
    BY DEF Decisions!Candidates
  <1>3. \E r \in UNION pairs : c = Decisions!Component(pairs, r)
    BY DEF Decisions!Clusters
  <1> HIDE DEF pairs
  <1>4. PICK r \in UNION pairs : c = Decisions!Component(pairs, r)
    BY <1>3
  <1>5. PICK p \in pairs : r \in p
    BY <1>4
  <1>6. p \in SUBSET HeldRecords /\ Cardinality(p) = 2 /\ r \in HeldRecords
    BY <1>1, <1>5, PairsPlural
  <1>7. p \subseteq c /\ c \subseteq HeldRecords
    BY <1>1, <1>4, <1>5, <1>6, Reached
  <1>8. Cardinality(c) >= 2
    <2>1. IsFiniteSet(c) /\ Cardinality(c) \in Nat
      BY <1>7, Finite
    <2>2. Cardinality(p) <= Cardinality(c)
      BY <1>7, <2>1, FS_Subset
    <2> QED
      BY <1>6, <2>1, <2>2
  <1>9. 0 \in 0 .. MaxDecisions
    OBVIOUS
  <1> QED
    BY <1>2, <1>7, <1>8, <1>9 DEF Shown, Plural

-----------------------------------------------------------------------------
LEMMA DecisionsStart == Decisions!Init => DecisionsHold
  <1> SUFFICES ASSUME Decisions!Init PROVE DecisionsHold
    OBVIOUS
  <1>1. GoodGroups(<<>>)
    <2>1. IsList(<<>>) /\ In(<<>>) = {} /\ InOrder(<<>>, Apart)
      BY EmptyList DEF InOrder
    <2> QED
      BY <2>1 DEF GoodGroups, Groups
  <1>2. Decisions!NoPoll \in Poll
    BY DEF Decisions!NoPoll, Poll
  <1>3. s4 \in [OpenTabs -> Poll]
    BY <1>2 DEF Decisions!Init
  <1>4. GoodPages(s5)
    BY DEF Decisions!Init, GoodPages
  <1>5. s6 \in 0 .. MaxDecisions
    BY RecordsAssumption DEF Decisions!Init
  <1> QED
    BY <1>1, <1>3, <1>4, <1>5 DEF Decisions!Init, DecisionsHold

LEMMA PollStep ==
    ASSUME DecisionsHold, NEW t \in OpenTabs, Decisions!Poll(t) PROVE DecisionsHold'
  <1>1. PICK answered \in SUBSET Decisions!Sources, quiet \in SUBSET Decisions!Sources :
           s4' = [s4 EXCEPT ![t] =
             [answered |-> answered,
              loaded |-> {r \in s2 : /\ RecordPlace[r] \in answered
                                     /\ r \in Secondary => RecordPlace[r] \notin quiet},
              seen |-> s2]]
    BY DEF Decisions!Poll
  <1> DEFINE loaded == {r \in s2 : /\ RecordPlace[r] \in answered
                                   /\ r \in Secondary => RecordPlace[r] \notin quiet}
  <1>2. loaded \subseteq HeldRecords /\ s2 \subseteq HeldRecords
    BY DEF DecisionsHold
  <1>3. [answered |-> answered, loaded |-> loaded, seen |-> s2] \in Poll
    BY <1>2 DEF Poll
  <1>4. s4' = [s4 EXCEPT ![t] = [answered |-> answered, loaded |-> loaded, seen |-> s2]]
    BY <1>1
  <1> HIDE DEF loaded
  <1>5. s4' \in [OpenTabs -> Poll]
    BY <1>3, <1>4 DEF DecisionsHold
  <1>6. UNCHANGED <<s1, s2, s3, s5, s6>>
    BY DEF Decisions!Poll
  <1> QED
    BY <1>5, <1>6 DEF DecisionsHold, GoodPages

LEMMA PageSet ==
    ASSUME GoodPages(s5), NEW t \in OpenTabs, NEW page, s5' = [s5 EXCEPT ![t] = page],
           \A g \in page : g \in Shown /\ Plural(g)
    PROVE  GoodPages(s5')
  <1>1. s5' = [u \in OpenTabs |-> IF u = t THEN page ELSE s5[u]]
    BY DEF GoodPages
  <1> QED
    BY <1>1 DEF GoodPages

LEMMA RenderStep ==
    ASSUME DecisionsHold, NEW t \in OpenTabs, Decisions!Render(t) PROVE DecisionsHold'
  <1> DEFINE kept == Decisions!Without(s3, Decisions!Gone(s4[t]))
             page == {kept[i] : i \in DOMAIN kept} \cup Decisions!Candidates(s4[t].loaded, kept)
  <1>1. s3' = kept /\ s5' = [s5 EXCEPT ![t] = page] /\ UNCHANGED <<s1, s2, s4, s6>>
    BY DEF Decisions!Render
  <1>2. GoodGroups(kept)
    BY WithoutGood DEF DecisionsHold, GoodGroups
  <1> HIDE DEF kept
  <1>3. \A g \in page : g \in Shown /\ Plural(g)
    <2>1. ASSUME NEW g \in Decisions!Candidates(s4[t].loaded, kept)
          PROVE  g \in Shown /\ Plural(g)
      BY RecordsAssumption, CandidatesShown DEF DecisionsHold
    <2>2. ASSUME NEW g \in In(kept) PROVE g \in Shown /\ Plural(g)
      <3>1. g \in Group /\ Plural(g)
        BY <1>2 DEF GoodGroups, Groups
      <3> QED
        BY <3>1, RecordsAssumption DEF Group, Shown
    <2> QED
      BY <2>1, <2>2 DEF In
  <1> HIDE DEF page
  <1>4. GoodPages(s5')
    BY <1>1, <1>3, PageSet DEF DecisionsHold
  <1> QED
    BY <1>1, <1>2, <1>4 DEF DecisionsHold

LEMMA DecideStep ==
    ASSUME DecisionsHold, NEW t \in OpenTabs, Decisions!Decide(t) PROVE DecisionsHold'
  <1>1. PICK g \in s5[t], verdict \in Verdicts :
           /\ g.verdict = "candidate" \/ (g.verdict = "linked" /\ verdict = "linked")
           /\ s6 < MaxDecisions
           /\ s3' = Decisions!Decided(s3, IF g.id = 0 THEN s6 + 1 ELSE g.id, verdict, g.members)
           /\ s6' = s6 + 1
    BY DEF Decisions!Decide, Verdicts
  <1>2. s5' = [s5 EXCEPT ![t] = {}] /\ UNCHANGED <<s1, s2, s4>>
    BY DEF Decisions!Decide
  <1>3. g \in Shown /\ Plural(g)
    BY DEF DecisionsHold, GoodPages
  <1> DEFINE id == IF g.id = 0 THEN s6 + 1 ELSE g.id
  <1>4. id \in 1 .. MaxDecisions /\ s6' \in 0 .. MaxDecisions
    BY <1>1, <1>3, RecordsAssumption DEF DecisionsHold, Shown
  <1>5. s3' = Decisions!Decided(s3, id, verdict, g.members)
    BY <1>1
  <1> HIDE DEF id
  <1>6. g.members \in SUBSET HeldRecords /\ Cardinality(g.members) >= 2
    BY <1>3 DEF Shown, Plural
  <1>7. GoodGroups(s3')
    BY <1>4, <1>5, <1>6, DecidedGood DEF DecisionsHold, GoodGroups
  <1>8. GoodPages(s5')
    BY <1>2, PageSet DEF DecisionsHold
  <1> QED
    BY <1>2, <1>4, <1>7, <1>8 DEF DecisionsHold

LEMMA ForgetStep ==
    ASSUME DecisionsHold, NEW t \in OpenTabs, Decisions!Forget(t) PROVE DecisionsHold'
  <1>1. PICK g \in s5[t] : s3' = Decisions!RemoveID(s3, g.id)
    BY DEF Decisions!Forget
  <1>2. s5' = [s5 EXCEPT ![t] = {}] /\ UNCHANGED <<s1, s2, s4, s6>>
    BY DEF Decisions!Forget
  <1>3. GoodGroups(s3')
    BY <1>1, RemovedGood DEF DecisionsHold
  <1>4. GoodPages(s5')
    BY <1>2, PageSet DEF DecisionsHold
  <1> QED
    BY <1>2, <1>3, <1>4 DEF DecisionsHold

LEMMA PurgedStep ==
    ASSUME DecisionsHold, NEW s, Decisions!PurgeCollection(s) PROVE DecisionsHold'
  <1>1. PICK gone : s3' = Decisions!Without(s3, gone)
    BY DEF Decisions!PurgeCollection
  <1>2. UNCHANGED <<s1, s2, s4, s5, s6>>
    BY DEF Decisions!PurgeCollection
  <1>3. GoodGroups(s3')
    BY <1>1, WithoutGood DEF DecisionsHold, GoodGroups
  <1> QED
    BY <1>2, <1>3 DEF DecisionsHold, GoodPages

LEMMA OthersStep ==
    ASSUME DecisionsHold, NEW r \in HeldRecords, Decisions!OthersChange(r) PROVE DecisionsHold'
  <1>1. s2' \subseteq HeldRecords /\ UNCHANGED <<s1, s3, s4, s5, s6>>
    BY DEF Decisions!OthersChange, DecisionsHold
  <1> QED
    BY <1>1 DEF DecisionsHold, GoodPages

LEMMA DecisionsStep == DecisionsHold /\ [Decisions!Next]_(Decisions!vars) => DecisionsHold'
  <1> SUFFICES ASSUME DecisionsHold, [Decisions!Next]_(Decisions!vars) PROVE DecisionsHold'
    OBVIOUS
  <1>1. CASE UNCHANGED Decisions!vars
    BY <1>1 DEF Decisions!vars, DecisionsHold, GoodPages
  <1>2. ASSUME NEW t \in OpenTabs,
               \/ Decisions!Poll(t) \/ Decisions!Render(t)
               \/ Decisions!Decide(t) \/ Decisions!Forget(t)
        PROVE  DecisionsHold'
    BY <1>2, PollStep, RenderStep, DecideStep, ForgetStep
  <1>3. ASSUME NEW s \in Decisions!Sources, Decisions!PurgeCollection(s) PROVE DecisionsHold'
    BY <1>3, PurgedStep
  <1>4. ASSUME NEW r \in HeldRecords, Decisions!OthersChange(r) PROVE DecisionsHold'
    BY <1>4, OthersStep
  <1> QED
    BY <1>1, <1>2, <1>3, <1>4 DEF Decisions!Next

LEMMA DecisionsShow == DecisionsHold => Decisions!OneDecisionEach
  <1> SUFFICES ASSUME DecisionsHold PROVE Decisions!OneDecisionEach
    OBVIOUS
  <1>1. DOMAIN s3 = 1 .. Len(s3) /\ Len(s3) \in Nat
    BY Lists DEF DecisionsHold, GoodGroups, Groups
  <1>2. \A i \in DOMAIN s3 : s3[i] \in Group /\ Plural(s3[i])
    BY DEF DecisionsHold, GoodGroups, Groups, In
  <1>3. \A i, j \in DOMAIN s3 : i < j => s3[i].members \cap s3[j].members = {}
    <2> SUFFICES ASSUME NEW i \in DOMAIN s3, NEW j \in DOMAIN s3, i < j
                 PROVE  s3[i].members \cap s3[j].members = {}
      OBVIOUS
    <2>1. <<s3[i], s3[j]>> \in Apart
      BY DEF DecisionsHold, GoodGroups, Groups, InOrder
    <2> QED
      BY <2>1 DEF Apart
  <1>4. \A i, j \in DOMAIN s3 : i # j => s3[i].members \cap s3[j].members = {}
    <2> SUFFICES ASSUME NEW i \in DOMAIN s3, NEW j \in DOMAIN s3, i # j
                 PROVE  s3[i].members \cap s3[j].members = {}
      OBVIOUS
    <2>1. i < j \/ j < i
      BY <1>1
    <2>2. s3[i].members \cap s3[j].members = s3[j].members \cap s3[i].members
      OBVIOUS
    <2> QED
      BY <1>3, <2>1, <2>2
  <1>5. Decisions!TypeOK
    BY <1>2 DEF DecisionsHold, Decisions!TypeOK, Group, Verdicts, Poll
  <1> QED
    BY <1>2, <1>4, <1>5, CountsTheSame DEF Decisions!OneDecisionEach, Plural

-----------------------------------------------------------------------------
(* All five together: the run is of one component at a time. *)
ScreensHold ==
    /\ part = "decisions" => DecisionsHold
    /\ part = "panel" => PanelHolds
    /\ part = "accounts" => AccountsHold
    /\ part = "calls" => CallsHold
    /\ part = "exercise" => ExerciseHolds

LEMMA ScreensStart == Init => ScreensHold
  <1> SUFFICES ASSUME Init PROVE ScreensHold
    OBVIOUS
  <1>1. part = "accounts" => AccountsHold
    BY AccountsStart DEF Init
  <1>2. part = "calls" => CallsHold
    BY CallsStart DEF Init
  <1>3. part = "exercise" => ExerciseHolds
    BY ExerciseStarts DEF Init
  <1>4. part = "decisions" => DecisionsHold
    BY DecisionsStart DEF Init
  <1>5. part = "panel" => PanelHolds
    BY PanelStarts DEF Init
  <1> QED
    BY <1>1, <1>2, <1>3, <1>4, <1>5 DEF ScreensHold

LEMMA StepOfOne ==
    ASSUME [Next]_vars
    PROVE  /\ part' = part
           /\ part = "decisions" => [Decisions!Next]_(Decisions!vars)
           /\ part = "panel" => [Panel!Next]_(Panel!vars)
           /\ part = "accounts" => [Accounts!Next]_(Accounts!vars)
           /\ part = "calls" => [Calls!Next]_(Calls!vars)
           /\ part = "exercise" => [Exercises!Next]_(Exercises!vars)
  <1>1. CASE Next
    <2>1. part' = part
      BY <1>1 DEF Next
    <2>2. part = "accounts" => Accounts!Next
      BY <1>1 DEF Next
    <2>3. part = "calls" => Calls!Next
      BY <1>1 DEF Next
    <2>4. part = "exercise" => Exercises!Next
      BY <1>1 DEF Next
    <2>5. part = "decisions" => Decisions!Next
      BY <1>1 DEF Next
    <2>6. part = "panel" => Panel!Next
      BY <1>1 DEF Next
    <2> QED
      BY <2>1, <2>2, <2>3, <2>4, <2>5, <2>6
  <1>2. CASE UNCHANGED vars
    <2>1. /\ UNCHANGED part /\ UNCHANGED <<s1, s2, s3, s4, s5, s6, s7, s8, s9, s10, s11, s12>>
          /\ UNCHANGED <<s13, s14, s15>>
      BY <1>2 DEF vars
    <2>2. UNCHANGED Accounts!vars
      BY <2>1 DEF Accounts!vars
    <2>3. UNCHANGED Calls!vars
      BY <2>1 DEF Calls!vars
    <2>4. UNCHANGED Exercises!vars
      BY <2>1 DEF Exercises!vars
    <2>5. UNCHANGED Decisions!vars
      BY <2>1 DEF Decisions!vars
    <2>6. UNCHANGED Panel!vars
      BY <2>1 DEF Panel!vars, Panel!delivery, Panel!counts
    <2> QED
      BY <2>1, <2>2, <2>3, <2>4, <2>5, <2>6
  <1> QED
    BY <1>1, <1>2

LEMMA ScreensStep == ASSUME ScreensHold, [Next]_vars PROVE ScreensHold'
  <1>1. part = "accounts" => AccountsHold'
    BY StepOfOne, AccountsStep DEF ScreensHold
  <1>2. part = "calls" => CallsHold'
    BY StepOfOne, CallsStep DEF ScreensHold
  <1>3. part = "exercise" => ExerciseHolds'
    BY StepOfOne, ExerciseStep DEF ScreensHold
  <1>4. part = "decisions" => DecisionsHold'
    BY StepOfOne, DecisionsStep DEF ScreensHold
  <1>5. part = "panel" => PanelHolds'
    BY StepOfOne, PanelStep DEF ScreensHold
  <1> QED
    BY <1>1, <1>2, <1>3, <1>4, <1>5, StepOfOne DEF ScreensHold

LEMMA ScreensInvariance == Spec => []ScreensHold
  BY ScreensStart, ScreensStep, PTL DEF Spec

(* Whatever tabs decide, save again, prune and forget, from polls and pages however old, a *)
(* record is under one decision at most, of two records or more; and a page of which nothing *)
(* is on its way, and which asks for nothing more, shows its search as it ended, however      *)
(* streams break, fall back to polling and race with the answers to retries: for any         *)
(* records, collections, tabs, sources and ceilings.                                      *)
THEOREM PagesComeOutRight == Spec => []PagesEndRight
  <1>1. ScreensHold => PagesEndRight
    BY DecisionsShow, PanelShows DEF ScreensHold, PagesEndRight
  <1> QED
    BY <1>1, ScreensInvariance, PTL

(* What Carrel takes from a server is what the server said: an account offers a path once *)
(* and no folder of files that is or holds one of the protocol's own trees, however          *)
(* discoveries, creations and renames of tabs meet; a request goes to an address that was     *)
(* good for its host, through at most so many redirects, and a listing that succeeds is the   *)
(* whole answer to that listing; and a test that is told to be good was: for any tabs,        *)
(* server, addresses, hosts and ceilings.                                                *)
THEOREM WhatServersSayIsReadRight == Spec => []ServersAreReadRight
  <1>1. ScreensHold => ServersAreReadRight
    BY AccountsShow, CallsShow, ExerciseShows DEF ScreensHold, ServersAreReadRight
  <1> QED
    BY <1>1, ScreensInvariance, PTL

(* No discovery, removal or purge changes whether a row that is still offered is selected;   *)
(* only a person who saves a selection does: for any tabs, accounts and trees.             *)
THEOREM TicksArePersonal == Spec => TicksStay
  <1>1. ScreensHold /\ [Next]_vars => [part = "accounts" => Accounts!TicksKept]_vars
    BY StepOfOne, TicksAreKept DEF ScreensHold
  <1> QED
    BY <1>1, ScreensInvariance, PTL DEF Spec, TicksStay
=============================================================================
