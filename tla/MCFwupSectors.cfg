\* An image that ends on a sector boundary
CONSTANTS
    SectorSize = 3
    Sectors = 4
    Junk = Junk
    None = None
    c1 = c1
    c2 = c2
    good = good
    badheader = badheader
    badbody = badbody
    Clients <- MCClients
    Images <- MCOneImage
    BadHeader <- MCEmpty
    BadBody <- MCEmpty
    HeaderLen = 2
    BodyLen = 1
    SignatureLen = 0
    MsgQueueSize = 4
    MaxPiece = 1
    MaxSessions = 1
    Base = 3
SPECIFICATION Spec
CHECK_DEADLOCK FALSE
INVARIANT
    OtherSectorsKept
