----------------------------- MODULE Duplicates -----------------------------
(***************************************************************************)
(* What a person decides about duplicates (§15): the decisions in their      *)
(* secrets (internal/account/duplicates.go), the screen that offers groups   *)
(* from the records a poll has loaded, and the pruning of members the poll    *)
(* says are gone (internal/web/handler/duplicates.go, internal/merge).      *)
(*                                                                         *)
(* Records come and go on their servers; several tabs each hold a poll and a  *)
(* page drawn from it, either of which may be old.                          *)
(***************************************************************************)
EXTENDS Integers, Sequences, FiniteSets, SequencesExt, FiniteSetsExt

CONSTANTS
    Records,
    SourceOf,       \* [Records -> the collection they are in]
    Secondary,      \* tasks and notes: asked for after the events of a calendar
    Tabs,
    MaxDecisions,   \* bound: decisions made
    MaxChanges      \* bound: records that come or go

Sources == {SourceOf[r] : r \in Records}
PairsOf(S) == {p \in SUBSET S : Cardinality(p) = 2}

VARIABLES
    similar,    \* the pairs that score at or above the threshold
    there,      \* the records on their servers
    groups,     \* Duplicates.Groups: [id, verdict, members]
    poll,       \* [Tabs -> [answered, loaded, seen]], a finished poll
    shown,      \* [Tabs -> groups on the page; an id of 0 is a candidate]
    decisions, changes,   \* counts, bounded
    rejected    \* history: pairs last called "not duplicates"

vars == <<similar, there, groups, poll, shown, decisions, changes, rejected>>

NoPoll == [answered |-> {}, loaded |-> {}, seen |-> {}]

TypeOK ==
    /\ similar \subseteq PairsOf(Records)
    /\ there \subseteq Records
    /\ \A i \in DOMAIN groups :
          /\ groups[i].id \in 1 .. MaxDecisions
          /\ groups[i].verdict \in {"linked", "ignored"}
          /\ groups[i].members \subseteq Records
    /\ poll \in [Tabs -> [answered : SUBSET Sources, loaded : SUBSET Records,
                          seen : SUBSET Records]]

Init ==
    /\ similar \in SUBSET PairsOf(Records)
    /\ there = Records
    /\ groups = <<>>
    /\ poll = [t \in Tabs |-> NoPoll]
    /\ shown = [t \in Tabs |-> {}]
    /\ decisions = 0 /\ changes = 0
    /\ rejected = {}

-----------------------------------------------------------------------------
(* The decisions. *)
Has(g, r) == r \in g.members

(* The entries of a list that are in a set, in the order they had. *)
Within(seq, S) ==
    LET kept[i \in 0..Len(seq)] ==
            IF i = 0 THEN <<>> ELSE IF seq[i] \in S THEN Append(kept[i - 1], seq[i]) ELSE kept[i - 1]
    IN  kept[Len(seq)]

(* The group a record is found in: the first. *)
Find(gs, r) == Within(gs, {g \in ToSet(gs) : Has(g, r)})
SameGroup(gs, a, b) ==
    Find(gs, a) # <<>> /\ Find(gs, b) # <<>> /\ Head(Find(gs, a)).id = Head(Find(gs, b)).id

Ignored(gs, a, b) ==
    \E i \in DOMAIN gs : gs[i].verdict = "ignored" /\ Has(gs[i], a) /\ Has(gs[i], b)

(* Members leave the groups they are in; a group of one is no group. *)
Without(gs, gone) ==
    LET left == [i \in DOMAIN gs |-> [gs[i] EXCEPT !.members = @ \ gone]]
    IN Within(left, {g \in ToSet(left) : Cardinality(g.members) >= 2})

Release(gs, members) == Without(gs, members)

Decided(gs, id, verdict, members) ==
    Append(Release(gs, members), [id |-> id, verdict |-> verdict, members |-> members])

(* Remove drops the first group of that id. *)
RemoveID(gs, id) ==
    LET at == {i \in DOMAIN gs : gs[i].id = id}
    IN IF at = {} THEN gs ELSE RemoveAt(gs, Min(at))

-----------------------------------------------------------------------------
(* Detection on what is loaded: groups joined by the pairs that score, leaving
   out the pairs a decision covers. *)
Skip(gs, pair) == \E a, b \in pair : a # b /\ (Ignored(gs, a, b) \/ SameGroup(gs, a, b))

Joined(loaded, gs) == {p \in similar : p \subseteq loaded /\ ~Skip(gs, p)}

Component(pairs, r) ==
    LET Grow(S) == S \cup UNION {p \in pairs : p \cap S # {}}
        reached[k \in 0 .. Cardinality(Records)] == IF k = 0 THEN {r} ELSE Grow(reached[k - 1])
    IN reached[Cardinality(Records)]

Clusters(loaded, gs) ==
    LET pairs == Joined(loaded, gs)
    IN {Component(pairs, r) : r \in UNION pairs}

(* A candidate that is exactly a decided group is not shown twice. *)
Candidates(loaded, gs) ==
    {[id |-> 0, verdict |-> "candidate", members |-> c] :
        c \in Clusters(loaded, gs) \ {gs[i].members : i \in DOMAIN gs}}

-----------------------------------------------------------------------------
(* A poll asks every source; one may fail, and then it has not answered.  The
   events of a calendar come first, and when only its tasks or notes fail the
   calendar is done all the same. *)
Poll(t) ==
    \E answered, quiet \in SUBSET Sources :
       /\ quiet \subseteq {SourceOf[r] : r \in Secondary}
       /\ poll' = [poll EXCEPT ![t] =
             [answered |-> answered,
              loaded |-> {r \in there : /\ SourceOf[r] \in answered
                                        /\ r \in Secondary => SourceOf[r] \notin quiet},
              seen |-> there]]
       /\ UNCHANGED <<similar, there, groups, shown, decisions, changes, rejected>>

(* A member whose source answered, and which is not in the answer, has gone. *)
Gone(p) == {r \in Records : SourceOf[r] \in p.answered /\ r \notin p.loaded}

(* The page is drawn, or drawn again, from the poll: first the decisions are
   pruned by it. *)
Render(t) ==
    LET kept == Without(groups, Gone(poll[t]))
    IN /\ poll[t] # NoPoll
       /\ groups' = kept
       /\ shown' = [shown EXCEPT ![t] =
             {kept[i] : i \in DOMAIN kept} \cup Candidates(poll[t].loaded, kept)]
       /\ UNCHANGED <<similar, there, poll, decisions, changes, rejected>>

(* A form of the page: its group's id, or a new one, and all its members. *)
Decide(t) ==
    \E g \in shown[t], verdict \in {"linked", "ignored"} :
       /\ g.verdict = "candidate" \/ (g.verdict = "linked" /\ verdict = "linked")
       /\ decisions < MaxDecisions
       /\ groups' = Decided(groups, IF g.id = 0 THEN decisions + 1 ELSE g.id, verdict, g.members)
       /\ decisions' = decisions + 1
       /\ rejected' = IF verdict = "ignored" THEN rejected \cup PairsOf(g.members)
                      ELSE rejected \ PairsOf(g.members)
       /\ shown' = [shown EXCEPT ![t] = {}]
       /\ UNCHANGED <<similar, there, poll, changes>>

(* "Unlink" and "Offer again"; a group no longer there is an error. *)
Forget(t) ==
    \E g \in shown[t] :
       /\ g.verdict # "candidate"
       /\ groups' = RemoveID(groups, g.id)
       /\ rejected' = rejected \ PairsOf(g.members)
       /\ shown' = [shown EXCEPT ![t] = {}]
       /\ UNCHANGED <<similar, there, poll, decisions, changes>>

(* A collection is taken out of Carrel: its members go from every group. *)
PurgeCollection(s) ==
    /\ changes < MaxChanges
    /\ groups' = Without(groups, {r \in Records : SourceOf[r] = s})
    /\ changes' = changes + 1
    /\ UNCHANGED <<similar, there, poll, shown, decisions, rejected>>

(* Another client deletes a record or moves it, or it comes back. *)
OthersChange(r) ==
    /\ changes < MaxChanges
    /\ there' = IF r \in there THEN there \ {r} ELSE there \cup {r}
    /\ changes' = changes + 1
    /\ UNCHANGED <<similar, groups, poll, shown, decisions, rejected>>

Next ==
    \/ \E t \in Tabs : Poll(t) \/ Render(t) \/ Decide(t) \/ Forget(t)
    \/ \E s \in Sources : PurgeCollection(s)
    \/ \E r \in Records : OthersChange(r)

Spec == Init /\ [][Next]_vars

-----------------------------------------------------------------------------
(* Whatever pages decide, save again, prune and forget, a record is under one
   decision at most, every decision is about two records or more, and none is
   offered as a candidate in the group it is decided in. *)
OneDecisionEach ==
    /\ TypeOK
    /\ \A i \in DOMAIN groups : Cardinality(groups[i].members) >= 2
    /\ \A i, j \in DOMAIN groups : i # j => groups[i].members \cap groups[j].members = {}

(* Silence is no deletion: drawing a page dissolves a decision only when some
   record of it was not on its server as the poll ran.  It holds of address books
   and of events; where tasks and notes are polled (Secondary) it does not. *)
SilenceIsNotDeletion ==
    [][\A t \in Tabs : Render(t) =>
          \A g \in {groups[i] : i \in DOMAIN groups} :
             g.members \subseteq poll[t].seen => \E i \in DOMAIN groups' : groups'[i] = g]_vars

(* Records called "not duplicates", and neither linked nor offered again since,
   are in no group that is offered.  It does not hold. *)
NeverOfferedAgain ==
    \A t \in Tabs : \A g \in shown[t] : g.verdict = "candidate" => PairsOf(g.members) \cap rejected = {}

-----------------------------------------------------------------------------
(* Slips of these operations. *)
ReleaseDecided(gs, members) == SelectSeq(gs, LAMBDA g : g.members # members)

GoneUnasked(p) == Records \ p.loaded
=============================================================================
