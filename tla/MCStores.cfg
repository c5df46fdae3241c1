\* Every component in turn.
SPECIFICATION Spec
CONSTANTS
    Parts = {"listing", "cache", "files", "edits", "imports", "merge"}
    Goroutines = {t1, t2}  MaxVersion = 1
    Caches = {c1, c2}  Collections = {k1, k2}  Objects = {p1}  Pictures = {v1}
    Sizes = {1, 2}  Lengths = {1, 2}
    MaxBodyBytes = 2  MaxThumbBytes = 1  MaxThumbEntries = 1  MaxCollections = 1
    MaxETagEntries = 1  MaxProcessBytes = 2
    Tabs = {t1, t2}  Files = {k1, k2}  Sharing <- Sessions  MaxETag <- Changes
    Roots <- TwoRoots  PathSet <- FourMembers
    Payloads <- TwoFiles  MaxCards = 2
    Sources <- TwoSources  Cards <- ThreeCards
    None = None
SYMMETRY Symmetry
INVARIANTS
    CountsAreKept
    ListingsStayTrue
    NothingHalfDone

    
CHECK_DEADLOCK FALSE
