\* Four changes through every failure, crash and power loss; the log keeps two
\* records. Nothing is left to do when every change was tried.
SPECIFICATION FileSpec
CONSTANTS
    Changes = {c1, c2, c3, c4}
    MaxAuditEntries = 2
    LateUpdates = FALSE
INVARIANTS
    AlwaysReadable
    MemoryIsFile
    AuditInStep
PROPERTIES
    KeepsPromise
