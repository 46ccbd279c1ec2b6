SPECIFICATION FairSpec
CONSTANTS
    a = a
    b = b
    c = c
    x = x
    y = y
    MaxScopes = 2
    RunOf <- MCRunOf
    Supplementary = {}
    Ids = {a, b, c}
    Contents = {x, y}
    Missing = Missing
    Unlisted = Unlisted
    Described <- MCDescribed
    Offered <- MCOffered
    MaxCursor = 1
    MaxPages <- MCMaxPages
    MaxFailures = 1
    MaxTime = 2
    MaxResults = 2
    MaxDeaths = 1
CHECK_DEADLOCK FALSE
INVARIANTS
    LedgerIsSound
    CompleteAccountsForAll
    QueueShowsNewestCapture
PROPERTIES
    CheckpointNeverBackwards
    CapturedIsSettled
