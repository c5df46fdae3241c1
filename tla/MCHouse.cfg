\* Every component in turn: the administrator and one more account; three processes that
\* start on one data directory; three launches of two versions, two sidecar processes.
SPECIFICATION Spec
CONSTANTS
    Parts = {"panel", "guessing", "key", "configuration", "checking", "application"}
    People = {root, ada}  Root = root  HasAddress = {ada}
    Ids = {i1, i2}  Requests = {q1, q2}  MaxRecoveries = 1
    Attempts = {"a", "b"}  KeysOf <- LoginForms  RateKeys = {"ip", "ada"}
    FreeTries = 1  BaseDelay = 1  MaxDelay = 3  Forget = 5  MaxTime = 6
    Processes = {q1, q2, p1}  NoFile = NoFile  Short = Short
    Admins = {q1, q2}  Addresses = {"a", Bad}  Bad = Bad  Torn = Torn
    Files <- Written  Environments <- Given
    Runs = {q1, q2}  Worlds <- SetUps
    Client = Client  Proxy = Proxy  Elsewhere = Elsewhere
    Versions = {1, 2}  MaxServers = 2  MaxLaunches = 3
    None = None
SYMMETRY Symmetry
CONSTRAINT RootStays

    
    
PROPERTIES
    StopsAndKeysStay
CHECK_DEADLOCK FALSE
