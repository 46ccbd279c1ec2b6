SPECIFICATION Spec
CONSTANTS
    a = a
    b = b
    c = c
    x = x
    y = y
    MaxScopes = 2
    RunOf <- MCRunOf
    Supplementary = {}
    Ids = {a, b, c}
    Contents = {x, y}
    Missing = Missing
    Unlisted = Unlisted
    Described <- MCDescribed
    Offered <- MCOffered
    MaxCursor = 1
    MaxPages <- MCMaxPages
    MaxFailures = 0
    MaxTime = 1
    MaxResults = 2
    MaxDeaths = 1
CHECK_DEADLOCK FALSE
INVARIANTS
    AcceptedPagesAudit
