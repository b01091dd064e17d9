\* Two clients under fairness
CONSTANTS
    SectorSize = 3
    Sectors = 4
    Junk = Junk
    None = None
    c1 = c1
    c2 = c2
    good = good
    badheader = badheader
    badbody = badbody
    Clients <- MCClients
    Images <- MCOneImage
    BadHeader <- MCEmpty
    BadBody <- MCEmpty
    HeaderLen = 2
    BodyLen = 1
    SignatureLen = 0
    MsgQueueSize = 4
    MaxPiece = 1
    MaxSessions = 2
    Base = 3
SPECIFICATION FairSpec
CHECK_DEADLOCK FALSE
PROPERTY
    SyncReturns
