\* Station and soft AP, and a device without configuration
CONSTANTS
    driver = driver
    user = user
    Driver = driver
    NoMsg = NoMsg
    Senders <- DriverOnly
    Messages <- SysMessages
    Configs <- StationAndAp
    OffModes <- OffOrTemporarily
    QueueSize = 1
SPECIFICATION NetSpec
INVARIANTS
    NetTypeOK
    

    
