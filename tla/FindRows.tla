------------------------------ MODULE FindRows ------------------------------
(***************************************************************************)
(* The merged list of a cross-source screen (handler/find.go, find_rows.go,   *)
(* find_match.go): what each source is asked and what of a partial answer is    *)
(* kept, the rows of one list, the tabs, the attachments of a timeline, the     *)
(* order and the headings, and the groups the directory shows as one row.      *)
(*                                                                         *)
(* An object is an identifier; Objects gives what a row is made of.  An instant  *)
(* is a number whose day is its quotient by Day, a title one whose initial is   *)
(* its quotient by Initial; 0 is no date.  No title begins another.            *)
(***************************************************************************)
EXTENDS Integers, Sequences, SequencesExt, FiniteSetsExt

CONSTANTS
    Objects,   \* [id -> [kind, at, title, files, readable, done]]
    Day, Initial

NoGroup == ""

(* Rows. *)
SortKey(o) ==
    IF o.kind = "contact" THEN <<2, o.title, 0, 0>>
    ELSE IF o.at = 0 THEN <<1, 0, o.title, 0>> ELSE <<0, o.at, o.title, 0>>

Heading(o) ==
    IF o.kind = "contact" THEN <<"initial", o.title \div Initial>>
    ELSE IF o.at = 0 THEN <<"no date", 0>> ELSE <<"day", o.at \div Day>>

Row(src, id) ==
    LET o == Objects[id]
    IN [src |-> src, id |-> id, kind |-> o.kind, sort |-> SortKey(o), heading |-> Heading(o),
        files |-> <<>>, group |-> NoGroup, linked |-> FALSE, members |-> <<>>]

(* Sort strings compare from the left; all have as many parts. *)
Less(a, b) ==
    LET at == {i \in DOMAIN a : a[i] # b[i]} IN at # {} /\ a[Min(at)] < b[Min(at)]

StableSort(rows, Before(_, _)) ==
    LET numbered == [i \in DOMAIN rows |-> <<rows[i], i>>]
        Sooner(p, q) == Before(p[1], q[1]) \/ (~Before(q[1], p[1]) /\ p[2] < q[2])
        sorted == SortSeq(numbered, Sooner)
    IN [i \in DOMAIN sorted |-> sorted[i][1]]

-----------------------------------------------------------------------------
(* What a source is asked.  A report is [ok, found], found a sequence of objects. *)
Nothing == [seen |-> {}, items |-> <<>>, failed |-> FALSE]

(* What a search found carries the names of its attachments. *)
FoundRow(src, id) == [Row(src, id) EXCEPT !.files = Objects[id].files]

(* One search per term; an object two terms find is one row. *)
PollSearch(src, reports) ==
    LET ByTerm(poll, report) ==
            IF ~report.ok THEN [poll EXCEPT !.failed = TRUE]
            ELSE LET new == SelectSeq(report.found, LAMBDA id : id \notin poll.seen)
                     readable == SelectSeq(new, LAMBDA id : Objects[id].readable)
                 IN [poll EXCEPT
                       !.seen = @ \cup ToSet(new),
                       !.items = @ \o [i \in DOMAIN readable |-> FoundRow(src, readable[i])]]
    IN FoldLeft(ByTerm, Nothing, reports)

WithinRange(at, range) == at # 0 /\ range[1] <= at /\ at < range[2]

(* One report per component, in this order. *)
Components == <<"event", "task", "note">>

PollCalendarRange(src, reports, wants, range) ==
    LET Shows(id) == /\ Objects[id].readable
                     /\ Objects[id].kind = "event" \/ WithinRange(Objects[id].at, range)
        ByComponent(poll, kind) ==
            IF kind \notin wants THEN poll
            ELSE IF ~reports[kind].ok THEN [poll EXCEPT !.failed = TRUE]
            ELSE LET shown == SelectSeq(reports[kind].found, Shows)
                 IN [poll EXCEPT !.items = @ \o [i \in DOMAIN shown |-> Row(src, shown[i])]]
    IN FoldLeft(ByComponent, Nothing, Components)

(* The one report of a task list, a notebook or an address book; marks are the
   decisions read before the poll. *)
PollList(src, report, marks) ==
    LET shown == SelectSeq(report.found,
                           LAMBDA id : Objects[id].readable /\ ~Objects[id].done)
    IN [Nothing EXCEPT
          !.failed = ~report.ok,
          !.items = IF report.ok
                    THEN [i \in DOMAIN shown |->
                            [Row(src, shown[i]) EXCEPT !.group = marks.linked[shown[i]]]]
                    ELSE <<>>]

(* A source that gave nothing and failed is failed; a partial answer is an answer. *)
SourceFailed(poll) == poll.failed /\ poll.items = <<>>

(* Task.Snapshot: the answers in the order of the sources, then by key; the key of
   a contact ends with its source. *)
Snapshot(sources, polls) ==
    LET rows == FlattenSeq([i \in DOMAIN sources |-> polls[sources[i]].items])
    IN StableSort(rows, LAMBDA a, b : Less(a.sort, b.sort))

-----------------------------------------------------------------------------
(* The list. *)
AppendAttachmentRows(rows) ==
    LET FileRow(row, name) == [row EXCEPT !.kind = "file", !.files = <<>>, !.sort[4] = name]
    IN FlattenSeq([i \in DOMAIN rows |->
          <<rows[i]>> \o [n \in DOMAIN rows[i].files |-> FileRow(rows[i], rows[i].files[n])]])

FilterRowsByTab(tab, rows) ==
    IF tab = "all" THEN rows ELSE SelectSeq(rows, LAMBDA row : row.kind = tab)

(* merge.Sets over the links and the detected groups: marks.ignored is the set of
   pairs that share a rejected group, alike the pairs that score enough. *)
Paired(rows, marks) ==
    {p \in (DOMAIN rows) \X (DOMAIN rows) :
        \/ rows[p[1]].group # NoGroup /\ rows[p[1]].group = rows[p[2]].group
        \/ {rows[p[1]].id, rows[p[2]].id} \in marks.alike \ marks.ignored}

SetOf(pairs, i, n) ==
    LET Grow(S, k) == S \cup {j \in 1 .. n : \E x \in S : <<x, j>> \in pairs}
    IN FoldLeft(Grow, {i}, [k \in 1 .. n |-> k])

MergeRows(rows, set) ==
    LET members == SetToSortSeq(set, <)
        first == rows[members[1]]
    IN [first EXCEPT
          !.members = [k \in DOMAIN members |-> rows[members[k]]],
          !.linked = first.group # NoGroup /\ \A k \in set : rows[k].group = first.group]

CollapseDuplicates(rows, marks) ==
    LET pairs == Paired(rows, marks)
        Emit(out, i) ==
            LET set == SetOf(pairs, i, Len(rows))
            IN IF set = {i} THEN Append(out, rows[i])
               ELSE IF Min(set) < i THEN out
               ELSE Append(out, MergeRows(rows, set))
    IN FoldLeft(Emit, <<>>, [i \in DOMAIN rows |-> i])

Descends(mode) == mode \in {"timeline", "notes"}

(* [label, rows], the headings in the order of their first rows. *)
GroupRows(mode, tab, snapshot, marks) ==
    LET all == IF mode = "timeline" THEN AppendAttachmentRows(snapshot) ELSE snapshot
        Before(a, b) == IF Descends(mode) THEN Less(b.sort, a.sort) ELSE Less(a.sort, b.sort)
        sorted == StableSort(FilterRowsByTab(tab, all), Before)
        rows == IF mode = "people" THEN CollapseDuplicates(sorted, marks) ELSE sorted
        NewLabel(labels, row) ==
            IF row.heading \in ToSet(labels) THEN labels ELSE Append(labels, row.heading)
        labels == FoldLeft(NewLabel, <<>>, rows)
    IN [i \in DOMAIN labels |->
          [label |-> labels[i],
           rows |-> SelectSeq(rows, LAMBDA row : row.heading = labels[i])]]

(* The number on a tab: counted by the kind of the row, looked up by the name of the
   tab, which is a plural. *)
TabCount(tab, groups) ==
    LET rows == FlattenSeq([i \in DOMAIN groups |-> groups[i].rows])
        Of(kind) == Len(SelectSeq(rows, LAMBDA row : row.kind = kind))
    IN CASE tab = "all" -> Len(rows)
         [] tab \in {"contact", "file"} -> Of(tab)
         [] OTHER -> 0

-----------------------------------------------------------------------------
(* What the list promises. *)

(* Every row, with the records a collapsed one stands for. *)
Records(row) == IF row.members = <<>> THEN <<row>> ELSE row.members
RowsOf(groups) == FlattenSeq([i \in DOMAIN groups |-> groups[i].rows])
ShownOf(groups) ==
    LET rows == RowsOf(groups) IN FlattenSeq([i \in DOMAIN rows |-> Records(rows[i])])

(* Every record of wanted, a set of [src, id, kind, file], is there once. *)
ShowsExactly(groups, wanted) ==
    LET shown == ShownOf(groups)
        Identity(row) == [src |-> row.src, id |-> row.id, kind |-> row.kind, file |-> row.sort[4]]
        all == [i \in DOMAIN shown |-> Identity(shown[i])]
    IN ToSet(all) = wanted /\ IsInjective(all)

(* From the first heading to the last, rows follow one order, a collapsed row by the
   first of its records. *)
InOrder(mode, groups) ==
    LET rows == RowsOf(groups)
    IN \A i \in 1 .. Len(rows) - 1 :
          IF Descends(mode) THEN ~Less(rows[i].sort, rows[i + 1].sort)
          ELSE ~Less(rows[i + 1].sort, rows[i].sort)

(* A person's links are honoured: the records of a group are in one row, and a row is
   marked as linked only if it is all of that group. *)
LinksHold(groups) ==
    LET rows == ToSet(RowsOf(groups))
    IN \A row \in rows :
          /\ \A other \in rows \ {row} : \A a \in ToSet(Records(row)), b \in ToSet(Records(other)) :
                a.group = NoGroup \/ a.group # b.group
          /\ row.linked => \A a \in ToSet(row.members) : a.group = row.group

-----------------------------------------------------------------------------
(* Slips of these operations. *)

(* Every group is a row of its own. *)
CollapseWithoutSets(rows, marks) ==
    LET pairs == Paired(rows, marks)
        Emit(out, i) ==
            LET set == {i} \cup {j \in DOMAIN rows : <<i, j>> \in pairs}
            IN IF set = {i} THEN Append(out, rows[i])
               ELSE IF Min(set) < i THEN out
               ELSE Append(out, MergeRows(rows, set))
    IN FoldLeft(Emit, <<>>, [i \in DOMAIN rows |-> i])

(* The first failure ends the poll. *)
PollUntilFailure(src, reports) ==
    LET ByTerm(poll, report) ==
            IF ~report.ok \/ poll.failed THEN [poll EXCEPT !.failed = TRUE]
            ELSE LET new == SelectSeq(report.found, LAMBDA id : id \notin poll.seen)
                     readable == SelectSeq(new, LAMBDA id : Objects[id].readable)
                 IN [poll EXCEPT
                       !.seen = @ \cup ToSet(new),
                       !.items = @ \o [i \in DOMAIN readable |-> FoundRow(src, readable[i])]]
    IN FoldLeft(ByTerm, Nothing, reports)
=============================================================================
