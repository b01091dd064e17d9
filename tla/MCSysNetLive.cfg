\* A station, with the driver and another task as senders, under fairness
CONSTANTS
    driver = driver
    user = user
    Driver = driver
    NoMsg = NoMsg
    Senders <- DriverAndUser
    Messages <- SysMessages
    Configs <- Station
    OffModes <- OffForGood
    QueueSize = 1
SPECIFICATION NetFairSpec
INVARIANTS
    SemaphoreHandedOver
    StackOwned
    NoStrandedMessage
PROPERTIES
    ServesMailbox
    SendReturns
    Reconnects
