------------------------------ MODULE Documents ------------------------------
(***************************************************************************)
(* The cards, events, tasks and notes as Carrel holds them between reading *)
(* and writing (internal/model): an object is a function from the names of *)
(* its properties to the instances of each, in their order.  The one way   *)
(* to change an object is a patch; what a server made of a write is found  *)
(* by comparing what was sent with what reads back, and added up per       *)
(* connection.                                                             *)
(*                                                                         *)
(* An instance is [text, params, group]; what a text and its parameters    *)
(* are depends on the property and is left to the module of the forms.     *)
(***************************************************************************)
EXTENDS Naturals, FiniteSets, SequencesExt

volatileProperties == {"REV", "PRODID", "DTSTAMP", "LAST-MODIFIED", "SEQUENCE"}
protectedProperties == {"VERSION", "UID"}

Plain == <<>>

Text(t) == [text |-> t, params |-> Plain, group |-> ""]

Property(obj, name) == IF name \in DOMAIN obj THEN obj[name] ELSE <<>>

FirstText(obj, name, none) == IF name \in DOMAIN obj THEN Head(obj[name]).text ELSE none

(***************************************************************************)
(* Patches.                                                                *)
(***************************************************************************)
Put(name, values) == [name |-> name, remove |-> FALSE, values |-> values]

Erase(name) == [name |-> name, remove |-> TRUE, values |-> <<>>]

SetOrRemove(name, text, blank) ==
    IF text = blank THEN Erase(name) ELSE Put(name, <<Text(text)>>)

SetValuesOrRemove(name, values) ==
    IF values = <<>> THEN Erase(name) ELSE Put(name, values)

Allowed(op) == /\ op.name \notin protectedProperties
               /\ op.remove \/ op.values # <<>>

Without(obj, names) == [n \in DOMAIN obj \ names |-> obj[n]]

Carry(obj, op) == IF op.remove
                  THEN Without(obj, {op.name})
                  ELSE (op.name :> op.values) @@ obj

\* Every operation is looked at before the first is carried out.
Apply(obj, patch) == IF \A i \in DOMAIN patch : Allowed(patch[i])
                     THEN FoldLeft(Carry, obj, patch)
                     ELSE obj

Named(patch) == {patch[i].name : i \in DOMAIN patch}

(***************************************************************************)
(* What the server made of it.                                             *)
(***************************************************************************)
Times(values, v) == Cardinality({i \in DOMAIN values : values[i] = v})

SameSignatures(want, got) ==
    /\ Len(want) = Len(got)
    /\ \A i \in DOMAIN want : Times(want, want[i]) = Times(got, want[i])

Compared(sent) == DOMAIN sent \ volatileProperties

\* A slip: a property that is still there is taken to be whole.
ComparePresence(sent, stored) ==
    [missing |-> {n \in Compared(sent) : Property(stored, n) = <<>>}, reduced |-> {}, changed |-> {}]

Compare(sent, stored) ==
    LET Got(n) == Property(stored, n) IN
    [missing |-> {n \in Compared(sent) : Got(n) = <<>>},
     reduced |-> {n \in Compared(sent) : Len(Got(n)) \in 1 .. Len(sent[n]) - 1},
     changed |-> {n \in Compared(sent) : /\ Len(Got(n)) >= Len(sent[n])
                                         /\ ~SameSignatures(sent[n], Got(n))}]

LossNames(loss) == loss.missing \union loss.reduced \union loss.changed

\* The lines of the conflict screen.
Diff(local, remote) ==
    {n \in Compared(local) \union Compared(remote) :
        ~SameSignatures(Property(local, n), Property(remote, n))}

(***************************************************************************)
(* What is known of a connection.                                          *)
(***************************************************************************)
systematicThreshold == 2

NoLosses == [writes |-> 0, lossyWrites |-> 0, names |-> <<>>]

Known(registry, name) == IF name \in DOMAIN registry.names THEN registry.names[name] ELSE 0

Record(registry, loss) ==
    IF LossNames(loss) = {}
    THEN [registry EXCEPT !.writes = @ + 1]
    ELSE [writes |-> registry.writes + 1,
          lossyWrites |-> registry.lossyWrites + 1,
          names |-> [n \in DOMAIN registry.names \union LossNames(loss) |->
                        Known(registry, n) + (IF n \in LossNames(loss) THEN 1 ELSE 0)]]

Novel(registry, loss) == \E n \in LossNames(loss) : Known(registry, n) = 0

Systematic(registry) == {n \in DOMAIN registry.names :
                            registry.names[n] >= systematicThreshold}

(***************************************************************************)
(* Attachments: an edit of the set puts the others back as they came.      *)
(***************************************************************************)
AttachmentValues(list) == SelectSeq(list, LAMBDA v : v.text # "")

AttachPatch(list) == SetValuesOrRemove("ATTACH", AttachmentValues(list))

AttachmentValue(uri) == [text |-> uri, params |-> [size |-> 1], group |-> ""]

=============================================================================
