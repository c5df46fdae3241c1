\* Every component in turn.
SPECIFICATION Spec
CONSTANTS
    Parts = {"decisions", "detection", "saving", "panel", "rows", "accounts", "calls", "exercise"}
    OpenTabs = {t1, t2}
    None = None
    HeldRecords = {a, b, c}  Elsewhere = {b}  RecordPlace <- TwoCollections  Secondary = {}
    MaxDecisions = 2  MaxChanges = 1
    Polled = {a, c}
    MaxPipe = 2
    MaxRetries = 2
    MaxBreaks = 2
    MaxLost = 1
    SlowRetries = TRUE
    SiteMC <- Baikal  TreeMC <- BaikalTree  Entered <- DavOnly  Faults <- CalendarsFail
    Names = {"work"}  MaxOps = 3
    Hosts = {nas, web}  Addrs = {in, out}  Allowlist = {nas}  Blocked = {in}
    MaxRedirects = 2  MaxResponseBytes = 1  MaxDns = 2  MaxCalls = 2
    Findings <- ThreeServers  LostAnswers = 2
SYMMETRY Symmetry
CONSTRAINT Even
INVARIANTS
    PagesEndRight
    
    
PROPERTIES
    TicksStay
CHECK_DEADLOCK FALSE
