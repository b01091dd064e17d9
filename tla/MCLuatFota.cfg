\* Two downloads of good and bad packages, with up to three restarts
CONSTANTS
    full = full
    other = other
    badhead = badhead
    badbody = badbody
    scripts = scripts
    noapp = noapp
    None = None
    Erased = Erased
    Packages <- MCPackages
    BadHead <- MCBadHead
    BadBody <- MCBadBody
    ScriptOnly <- MCScriptOnly
    NoApp <- MCNoApp
    HeadLen = 2
    BodyLen = 3
    SegHeadLen = 2
    AppLen = 2
    ScriptLen = 2
    BufferSize = 3
    ZoneSize = 6
    Cells = 9
    SectorSize = 3
    MaxPiece = 4
    MaxWrite = 4
    Extra = 3
    MaxCuts = 3
    MaxInits = 2
SPECIFICATION Spec
CHECK_DEADLOCK FALSE
INVARIANTS
    TypeOK
    StreamStored
    DoneMeansVerified
    
    ScriptsFollowApp
