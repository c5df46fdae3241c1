\* Two sessions of two users and two requests that upload photos, while time
\* passes and the process is told to stop. An exited process does nothing.
SPECIFICATION FairSpec
CONSTANTS
    None = None
    Users = {u1, u2}
    Ids = {1, 2}
    Requests = {r1, r2}
    Files = {f1, f2}
    Idle = 1
    Absolute = 2
CHECK_DEADLOCK FALSE
INVARIANTS
    IndexesAgree
    
    
PROPERTIES
    AbsoluteCap
    KeysAreWiped
