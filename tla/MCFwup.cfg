\* Two clients, good and bad images of four units in sectors of three
CONSTANTS
    SectorSize = 3
    Sectors = 4
    Junk = Junk
    None = None
    c1 = c1
    c2 = c2
    good = good
    badheader = badheader
    badbody = badbody
    Clients <- MCClients
    Images <- MCImages
    BadHeader <- MCBadHeader
    BadBody <- MCBadBody
    HeaderLen = 2
    BodyLen = 1
    SignatureLen = 1
    MsgQueueSize = 4
    MaxPiece = 3
    MaxSessions = 2
    Base = 3
SPECIFICATION Spec
CHECK_DEADLOCK FALSE
INVARIANTS
    TypeOK
    NoDanglingRequest
    FlagMeansImage
