------------------------------ MODULE ServerKey ------------------------------
(***************************************************************************)
(* The server key of internal/crypto/serverkey.go: processes that start on    *)
(* the same data directory load server.key, or create it with O_EXCL, write   *)
(* it and sync it.  A system call is one step.  A process makes a key of its  *)
(* own each time it finds none, so a key is named by its maker.               *)
(***************************************************************************)
EXTENDS Naturals

CONSTANTS
    Processes,
    NoFile,     \* there is no server.key
    Short       \* server.key has less than a whole key in it

VARIABLES
    file,       \* what server.key holds: NoFile, Short or a key
    at,         \* [Processes -> Step]
    key,        \* [Processes -> the key it was given, NoFile before]
    damaged     \* history: a write was cut short by an error or a crash

vars == <<file, at, key, damaged>>

Step == {"off", "load", "create", "write", "sync", "reload", "open",
         "corrupt", "failed"}

Init ==
    /\ file = NoFile
    /\ at = [p \in Processes |-> "off"]
    /\ key = [p \in Processes |-> NoFile]
    /\ damaged = FALSE

Move(p, from, to) == at[p] = from /\ at' = [at EXCEPT ![p] = to]

Start(p) == Move(p, "off", "load") /\ UNCHANGED <<file, key, damaged>>

(* Slip: whatever the file holds is taken for a key. *)
LoadAnything(p, from) ==
    /\ file # NoFile
    /\ Move(p, from, "open")
    /\ key' = [key EXCEPT ![p] = file]
    /\ UNCHANGED <<file, damaged>>

(* loadServerKey *)
Load(p, from) ==
    \/ /\ file \in Processes
       /\ Move(p, from, "open")
       /\ key' = [key EXCEPT ![p] = file]
       /\ UNCHANGED <<file, damaged>>
    \/ /\ file = Short
       /\ Move(p, from, "corrupt")
       /\ UNCHANGED <<file, key, damaged>>

NoKeyYet(p) ==
    /\ file = NoFile
    /\ Move(p, "load", "create")
    /\ UNCHANGED <<file, key, damaged>>

(* Slips: no O_EXCL; the loser of the race keeps the key it made. *)
CreateOver(p) ==
    /\ Move(p, "create", "write")
    /\ file' = Short
    /\ UNCHANGED <<key, damaged>>

CreateOrKeep(p) ==
    /\ Move(p, "create", IF file = NoFile THEN "write" ELSE "open")
    /\ key' = [key EXCEPT ![p] = IF file = NoFile THEN @ ELSE p]
    /\ file' = IF file = NoFile THEN Short ELSE file
    /\ UNCHANGED damaged

(* os.OpenFile with O_CREATE and O_EXCL *)
Create(p) ==
    /\ Move(p, "create", IF file = NoFile THEN "write" ELSE "reload")
    /\ file' = IF file = NoFile THEN Short ELSE file
    /\ UNCHANGED <<key, damaged>>

Write(p) ==
    \/ /\ Move(p, "write", "sync")
       /\ file' = p
       /\ UNCHANGED <<key, damaged>>
    \/ /\ Move(p, "write", "failed")
       /\ damaged' = TRUE
       /\ UNCHANGED <<file, key>>

(* Sync and Close, either of which may fail. *)
Sync(p) ==
    \/ /\ Move(p, "sync", "open")
       /\ key' = [key EXCEPT ![p] = p]
       /\ UNCHANGED <<file, damaged>>
    \/ Move(p, "sync", "failed") /\ UNCHANGED <<file, key, damaged>>

(* The process ends, as it does after an error, or is killed. *)
Exit(p) ==
    /\ at[p] # "off"
    /\ at' = [at EXCEPT ![p] = "off"]
    /\ key' = [key EXCEPT ![p] = NoFile]
    /\ damaged' = (damaged \/ at[p] = "write")
    /\ UNCHANGED file

Next == \E p \in Processes :
    \/ Start(p) \/ Load(p, "load") \/ NoKeyYet(p) \/ Create(p)
    \/ Load(p, "reload") \/ Write(p) \/ Sync(p) \/ Exit(p)

Spec == Init /\ [][Next]_vars

-----------------------------------------------------------------------------
TypeOK ==
    /\ file \in Processes \cup {NoFile, Short}
    /\ at \in [Processes -> Step]
    /\ key \in [Processes -> Processes \cup {NoFile}]
    /\ damaged \in BOOLEAN

(* "An existing key is never overwritten": once a key is in the file it      *)
(* stays, whoever starts, crashes or fails; the state file sealed under it    *)
(* would be lost with it.                                                   *)
KeyKept == (file \in Processes) => (file' = file)
KeyStays == [][KeyKept]_vars

(* Processes that run at the same time all use the key that is in the file.  *)
OneKey ==
    /\ TypeOK
    /\ \A p \in Processes : at[p] = "open" => key[p] = file

(* "Another process won the race; use what it wrote": the loser is not told   *)
(* that the key is corrupt unless something really cut it short. It does not  *)
(* hold: the winner's file is empty until it is written.                     *)
LoserUsesWinnersKey == (\E p \in Processes : at[p] = "corrupt") => damaged

-----------------------------------------------------------------------------
(* Why both hold for any number of processes: O_EXCL lets one process write   *)
(* at a time, into a file that holds no key yet, and nobody else can put a     *)
(* key into it before that process has.                                      *)
OneWriter ==
    /\ \A p \in Processes : at[p] = "write" => file = Short
    /\ \A p, q \in Processes : at[p] = "write" /\ at[q] = "write" => p = q
    /\ \A p \in Processes : at[p] = "sync" => file = p
IInv == OneKey /\ OneWriter /\ \A p \in Processes : at[p] = "open" => file \in Processes
=============================================================================
