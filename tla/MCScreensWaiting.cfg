\* Find's progress panel alone, without breaks of its stream: one retry is enough.
SPECIFICATION Spec
CONSTANTS
    Parts = {"panel"}
    OpenTabs = {t1, t2}
    None = None
    HeldRecords = {a, b, c}  Elsewhere = {b}  RecordPlace <- TwoCollections  Secondary = {}
    MaxDecisions = 2  MaxChanges = 1
    Polled = {a, c}
    MaxPipe = 2
    MaxRetries = 2
    MaxBreaks = 0
    MaxLost = 0
    SlowRetries = FALSE
    SiteMC <- Baikal  TreeMC <- BaikalTree  Entered <- DavOnly  Faults <- CalendarsFail
    Names = {"work"}  MaxOps = 3
    Hosts = {nas, web}  Addrs = {in, out}  Allowlist = {nas}  Blocked = {in}
    MaxRedirects = 2  MaxResponseBytes = 1  MaxDns = 2  MaxCalls = 2
    Findings <- ThreeServers  LostAnswers = 2
INVARIANT NeverLeftWaiting
CHECK_DEADLOCK FALSE
