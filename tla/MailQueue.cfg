\* One invitation sent three times through a channel of one, one retry each.
SPECIFICATION FairSpec
CONSTANTS
    Invitations = {i1}
    MaxTokens = 3
    Capacity = 1
    MaxRetries = 1
INVARIANTS
    
    SentWasSent
PROPERTIES
    TakenIsSettled
