------------------------------ MODULE ConfigFile ------------------------------
(***************************************************************************)
(* config.json and the environment (internal/config), and the one place that    *)
(* writes the file while the server runs: the installation check, which saves    *)
(* the public address (SetPublicURL).  Nothing keeps two administrators from     *)
(* saving at once, and they share the temporary file.                          *)
(*                                                                         *)
(* A setting is a small number: 0 is what a missing member of a section of the  *)
(* file decodes to, and Default what the program starts from.  A writer goes on   *)
(* writing to a file that was renamed meanwhile: at says where its file is.       *)
(* A crash is one of the process, not of the machine; config.json is edited by    *)
(* hand while the server is down.                                            *)
(***************************************************************************)
EXTENDS Naturals, FiniteSets, Functions

CONSTANTS
    Admins,        \* requests that save an address
    Addresses,     \* public addresses an administrator types; Bad is refused
    Bad, None, Torn,
    Files,         \* what the operator may have written: partial functions
    Environments   \* the variables the process may be started with, likewise

(* The settings told apart: plain ones, two of the section "dav", two of           *)
(* "cache", of which the body ceiling is younger than the section.                 *)
Dav == {"connect", "redirects"}
Cache == {"ttl", "bodies"}
Plain == {"port", "public"}
Fields == Plain \cup Dav \cup Cache
Default == [x \in Fields |-> IF x = "public" THEN None ELSE 1]

VARIABLES
    config,    \* config.json: settings, or Torn, or None
    tmp,       \* config.json.tmp
    env,
    process,   \* [up, cfg, public]: the configuration read at the start, Server.PublicURL
    req,       \* [Admins -> [at, cfg, file]]
    overlapped,   \* history: two saves were under way together
    saved      \* history: a save has been reported done since the file was edited

vars == <<config, tmp, env, process, req, overlapped, saved>>

NoRequest == [at |-> "none", cfg |-> Default, file |-> None]
Down == [up |-> FALSE, cfg |-> Default, public |-> None]
Quiet == \A r \in Admins : req[r].at = "none"

Init ==
    /\ config \in Files \cup {None} /\ tmp = None
    /\ env \in Environments
    /\ process = Down /\ req = [r \in Admins |-> NoRequest]
    /\ overlapped = FALSE /\ saved = FALSE

-----------------------------------------------------------------------------
(* applyFile: a plain member replaces the default, a section replaces all of its   *)
(* members; only the cache's ceilings fall back to their defaults (fillUnsetCeilings). *)
Given(f, x) == IF x \in DOMAIN f THEN f[x] ELSE 0
FilledIn(f, x) == IF x = "bodies" /\ Given(f, x) = 0 THEN Default[x] ELSE Given(f, x)

ApplyFile(f) ==
    [x \in Fields |->
        IF x \in Plain THEN IF x \in DOMAIN f THEN f[x] ELSE Default[x]
        ELSE LET section == IF x \in Dav THEN Dav ELSE Cache
             IN IF DOMAIN f \cap section = {} THEN Default[x] ELSE FilledIn(f, x)]

(* applyEnv: the environment wins. *)
ApplyEnv(cfg, e) == [x \in Fields |-> IF x \in DOMAIN e THEN e[x] ELSE cfg[x]]

(* Validate: no redirects is a choice, an absent address too. *)
Valid(cfg) ==
    /\ cfg["public"] # Bad
    /\ \A x \in Fields \ {"public", "redirects"} : cfg[x] > 0

Effective(f, e) == ApplyEnv(IF f = None THEN Default ELSE ApplyFile(f), e)
Loads(f, e) == f # Torn /\ Valid(Effective(f, e))

(* Load, in run: the server serves with what it read, or does not start. *)
Start ==
    LET cfg == Effective(config, env)
    IN /\ ~process.up /\ Loads(config, env)
       /\ process' = [up |-> TRUE, cfg |-> cfg, public |-> cfg["public"]]
       /\ UNCHANGED <<config, tmp, env, req, overlapped, saved>>

Stop ==
    /\ process.up
    /\ process' = Down /\ req' = [r \in Admins |-> NoRequest]
    /\ UNCHANGED <<config, tmp, env, overlapped, saved>>

(* The operator, while the server is down.  A damaged file is written anew. *)
SetEnvironment ==
    /\ ~process.up
    /\ env' \in Environments
    /\ UNCHANGED <<config, tmp, process, req, overlapped, saved>>

EditFile ==
    /\ ~process.up
    /\ config' \in Files
    /\ overlapped' = FALSE /\ saved' = FALSE
    /\ UNCHANGED <<tmp, env, process, req>>

-----------------------------------------------------------------------------
(* SetPublicURL: the address is checked, the configuration is loaded again as at    *)
(* the start, file and environment, and written out whole by writeConfig.           *)

Fail(r) ==
    /\ req' = [req EXCEPT ![r] = NoRequest]
    /\ UNCHANGED <<config, tmp, env, process, overlapped, saved>>

Prepared(address, e) == [Effective(config, e) EXCEPT !["public"] = address]

LoadAgain(r) ==
    /\ process.up /\ req[r].at = "none"
    /\ \E address \in Addresses :
           /\ address # Bad /\ Loads(config, env)
           /\ Valid(Prepared(address, env))
           /\ req' = [req EXCEPT ![r] = [at |-> "create", cfg |-> Prepared(address, env),
                                         file |-> None]]
    /\ overlapped' = (overlapped \/ ~Quiet)
    /\ UNCHANGED <<config, tmp, env, process, saved>>

(* WriteFile: created or truncated under its name, *)
Create(r) ==
    /\ req[r].at = "create"
    /\ tmp' = Torn
    /\ req' = [req EXCEPT ![r].at = "write", ![r].file = "tmp"]
    /\ UNCHANGED <<config, env, process, overlapped, saved>>

(* Slip: the file itself is truncated and written, and the rename does no harm. *)
CreateInPlace(r) ==
    /\ req[r].at = "create"
    /\ config' = Torn /\ tmp' = req[r].cfg
    /\ req' = [req EXCEPT ![r].at = "write", ![r].file = "config"]
    /\ UNCHANGED <<env, process, overlapped, saved>>

(* and filled.  Over another writer's text, a shorter one leaves its end.            *)
Texts(cfg, over) == IF over = Torn THEN {cfg} ELSE {cfg, Torn}

Write(r) ==
    /\ req[r].at = "write"
    /\ IF req[r].file = "tmp" THEN tmp' \in Texts(req[r].cfg, tmp) /\ UNCHANGED config
       ELSE IF req[r].file = "config"
       THEN config' \in Texts(req[r].cfg, config) /\ UNCHANGED tmp
       ELSE UNCHANGED <<config, tmp>>
    /\ req' = [req EXCEPT ![r].at = "rename"]
    /\ UNCHANGED <<env, process, overlapped, saved>>

(* Files that were open under either name go where the name goes. *)
Moved(file) == IF file = "tmp" THEN "config" ELSE None

Rename(r) ==
    /\ req[r].at = "rename" /\ tmp # None
    /\ config' = tmp /\ tmp' = None
    /\ req' = [q \in Admins |-> IF q = r THEN [req[q] EXCEPT !.at = "report", !.file = None]
                                ELSE [req[q] EXCEPT !.file = Moved(@)]]
    /\ UNCHANGED <<env, process, overlapped, saved>>

(* The other save took the temporary file away. *)
RenameFails(r) == req[r].at = "rename" /\ tmp = None /\ Fail(r)

(* Server.PublicURL, which requests read without a lock. *)
Report(r) ==
    /\ req[r].at = "report"
    /\ process' = [process EXCEPT !.public = req[r].cfg["public"]]
    /\ req' = [req EXCEPT ![r] = NoRequest]
    /\ saved' = TRUE
    /\ UNCHANGED <<config, tmp, env, overlapped>>

Next ==
    \/ Start \/ Stop \/ SetEnvironment \/ EditFile
    \/ \E r \in Admins : LoadAgain(r) \/ Create(r) \/ Write(r) \/ Rename(r)
                         \/ RenameFails(r) \/ Report(r)

Spec == Init /\ [][Next]_vars

-----------------------------------------------------------------------------
(* While saves do not overlap, a stop at any step leaves a configuration the      *)
(* server starts from again, and a saved address is the one it starts with        *)
(* unless a variable sets another (writeConfig: validate, temporary file,          *)
(* rename; main.run: "parse config file" ends the program).                      *)
SavedAddressServes ==
    ~overlapped =>
        /\ config # Torn
        /\ process.up => Loads(config, env)
        /\ process.up /\ saved /\ Quiet =>
               Effective(config, <<>>)["public"] = process.public
                   \/ "public" \in DOMAIN env

(* Why it holds: a save that is alone goes through the file's steps undisturbed,   *)
(* and what it writes loads again under the variables it was loaded with.          *)
Settings == Nat \cup Addresses \cup {None}
            \cup {f["public"] : f \in {g \in Files \cup Environments : "public" \in DOMAIN g}}
Configurations == [Fields -> Settings]

OneSave ==
    \A r \in Admins :
        /\ \A q \in Admins : req[r].at # "none" /\ req[q].at # "none" => r = q
        /\ req[r].at # "none" => /\ req[r].cfg \in Configurations
                                 /\ Loads(req[r].cfg, env)
        /\ req[r].at = "write" => req[r].file = "tmp" /\ tmp = Torn
        /\ req[r].at = "rename" => tmp = req[r].cfg
        /\ req[r].at = "report" => config = req[r].cfg

AddressInForce ==
    process.up /\ (\A r \in Admins : req[r].at # "report") =>
        Effective(config, <<>>)["public"] = process.public \/ "public" \in DOMAIN env

IInv ==
    /\ req \in [Admins -> [at : {"none", "create", "write", "rename", "report"},
                           cfg : Configurations, file : {None, "tmp", "config"}]]
    /\ env \in Environments
    /\ config \in Files \cup Configurations \cup {None, Torn}
    /\ tmp \in Configurations \cup {None, Torn}
    /\ process \in [up : BOOLEAN, cfg : Configurations, public : Settings]
    /\ ~process.up => Quiet
    /\ ~overlapped => /\ OneSave /\ AddressInForce
                      /\ config # Torn
                      /\ process.up => Loads(config, env)

(* Does not hold.  docs/carrel-spec.md:502 of the installation check: apart from    *)
(* saving public_url in config.json, nothing is changed.  The file is written with   *)
(* what the environment said, which outlives the variable.                        *)
OnlyTheAddressChanges ==
    [][(\E r \in Admins : req[r].at = "rename" /\ req'[r].at = "report" /\ ~overlapped)
       => \A x \in Fields \ {"public"} :
              Effective(config', <<>>)[x]
                  = Effective(config, <<>>)[x]]_vars
===============================================================================
