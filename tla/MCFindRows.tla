----------------------------- MODULE MCFindRows -----------------------------
(* FindRows on every small set of answers: two calendars that are searched, seen in a
   timeline or over a range, and two address books under every set of decisions. *)
EXTENDS FindRows, TLC

VARIABLES asked, list

Failure == [ok |-> FALSE, found |-> <<>>]
Found(ids) == [ok |-> TRUE, found |-> ids]
Of(kind, ids) == SelectSeq(ids, LAMBDA id : Objects[id].kind = kind)
NoMarks == [linked |-> [c \in DOMAIN Objects |-> NoGroup], alike |-> {}, ignored |-> {}]

(* What is asked: the polls, and what they find (a set of [src, id]). *)
Searches ==
    LET First == {Failure, Found(<<>>), Found(<<"e1", "t2">>), Found(<<"n1", "bad", "e1">>)}
        Second == {Failure, Found(<<"e2">>), Found(<<"t1", "e2">>)}
        One(r) == {[src |-> "a", id |-> x] : x \in ToSet(r[1].found) \cup ToSet(r[2].found)}
        Two(r) == {[src |-> "b", id |-> x] : x \in ToSet(r[1].found) \cup ToSet(r[2].found)}
    IN {[mode |-> mode, marks |-> NoMarks, found |-> One(ra) \cup Two(rb),
         polls |-> "a" :> PollSearch("a", ra) @@ "b" :> PollSearch("b", rb)] :
           mode \in {"search", "timeline"}, ra \in First \X First, rb \in Second \X Second}

Ranges ==
    LET held == "a" :> <<"e1", "t1", "t2", "n1", "bad">> @@ "b" :> <<"e2">>
        Reports(src, bad) == [k \in {"event", "task", "note"} |->
                                 IF <<src, k>> \in bad THEN Failure ELSE Found(Of(k, held[src]))]
        Within(x, range) == Objects[x].kind = "event" \/ Objects[x].at \in range[1] .. range[2] - 1
    IN {[mode |-> "time", marks |-> NoMarks,
         found |-> {f \in [src : {"a", "b"}, id : DOMAIN Objects] :
                       /\ f.id \in ToSet(held[f.src])
                       /\ Objects[f.id].kind \in wants
                       /\ <<f.src, Objects[f.id].kind>> \notin bad
                       /\ Within(f.id, range)},
         polls |-> [s \in {"a", "b"} |-> PollCalendarRange(s, Reports(s, bad), wants, range)]] :
           bad \in SUBSET ({"a", "b"} \X {"event", "note"}),
           wants \in (SUBSET {"event", "task", "note"}) \ {{}},
           range \in {<<10, 20>>, <<14, 26>>}}

Contacts == {"c1", "c2", "c3", "c4"}
Directories ==
    LET Pairs == {p \in SUBSET Contacts : Cardinality(p) = 2}
        Decisions == {[linked |-> [c \in DOMAIN Objects |->
                                     IF c \in g1 THEN "g1" ELSE IF c \in g2 THEN "g2" ELSE NoGroup],
                       alike |-> alike, ignored |-> ignored] :
                          g1 \in {{}, {"c1", "c2"}, {"c2", "c3", "c4"}}, g2 \in {{}, {"c3", "c4"}},
                          alike \in SUBSET Pairs, ignored \in {{}, {{"c1", "c3"}, {"c2", "c4"}}}}
    IN {[mode |-> "people", marks |-> marks,
         found |-> [src : {"a"}, id : {"c1", "c2"}]
                   \cup (IF rb.ok THEN [src : {"b"}, id : {"c3", "c4"}] ELSE {}),
         polls |-> "a" :> PollList("a", Found(<<"c2", "c1">>), marks)
                   @@ "b" :> PollList("b", rb, marks)] :
           marks \in Decisions, rb \in {Failure, Found(<<"c3", "c4">>)}}

Lists ==
    LET held == "tasks" :> <<"t2", "t3", "t1">> @@ "notes" :> <<"bad", "n1", "n2">>
        Report(mode, ok) == IF ok THEN Found(held[mode]) ELSE Failure
    IN {[mode |-> mode, marks |-> NoMarks,
         found |-> {[src |-> "a", id |-> x] : x \in ToSet(held[mode]) \ {"t3"}},
         polls |-> "a" :> PollList("a", Report(mode, TRUE), NoMarks)
                   @@ "b" :> PollList("b", Report(mode, FALSE), NoMarks)] :
           mode \in {"tasks", "notes"}}

Init ==
    /\ asked \in Searches \cup Ranges \cup Directories \cup Lists
    /\ list = <<>>

Tabs == {"all", "contact", "event", "task", "note", "file"}

Next ==
    /\ list = <<>>
    /\ \E tab \in IF asked.mode \in {"search", "timeline"} THEN Tabs ELSE {"all"} :
          list' = <<tab, GroupRows(asked.mode, tab,
                                   Snapshot(<<"a", "b">>, asked.polls), asked.marks)>>
    /\ UNCHANGED asked

(* Across one's accounts every record that was found is listed exactly once, whichever
   terms and sources found it, under its kind's tab, with its attachments in a timeline,
   and whichever links and detected pairs overlap; rows follow one order through
   the headings; links are honoured; a source is shown as failed only if nothing of it is
   listed.  handler/find.go pollSearch, pollCalendarRange, groupRows; find_rows.go
   collapseDuplicates. *)
EveryRecordOnce ==
    list # <<>> =>
        LET tab == list[1]
            groups == list[2]
            Rec(f, kind, file) == [src |-> f.src, id |-> f.id, kind |-> kind, file |-> file]
            readable == {f \in asked.found : Objects[f.id].readable}
            wanted ==
                {Rec(f, Objects[f.id].kind, 0) : f \in readable}
                \cup IF asked.mode = "timeline"
                     THEN UNION {{Rec(f, "file", n) : n \in ToSet(Objects[f.id].files)} :
                                    f \in readable}
                     ELSE {}
        IN /\ ShowsExactly(groups, {w \in wanted : tab = "all" \/ w.kind = tab})
           /\ InOrder(asked.mode, groups)
           /\ asked.mode = "people" => LinksHold(groups)
           /\ \A s \in {"a", "b"} :
                 SourceFailed(asked.polls[s]) => \A f \in readable : f.src # s

(* Does not hold: a tab is looked up by its plural. *)
TabsCountRows ==
    list # <<>> => TabCount(list[1], list[2]) = Len(RowsOf(list[2]))
=============================================================================
