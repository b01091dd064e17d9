SPECIFICATION Spec
CONSTANTS
    Writers = {w1, w2}
    Controller = ctl
    Isr = isr
    Nobody = nobody
    TxFifoSize = 2
    Burst = 2
    Lengths = {2}
    MaxMsgs = 2
    FlowCtrl = TRUE
    Ports = {"port0", "port0 fc", "other"}
    RingSize = 8
    CacheLimit = 2
    RxFifoSize = 2
    ReadSizes = {1, 3}
    MaxRx = 8
INVARIANTS
    TypeOK
    StreamIntact
    FreedOnce
    
PROPERTIES
    AllSent
CHECK_DEADLOCK FALSE
