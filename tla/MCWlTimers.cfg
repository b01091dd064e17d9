\* The timers: up to three, of times that are not all whole ticks
CONSTANTS
    app = app
    self = self
    isr = isr
    mlme = mlme
    uart_rx = uart_rx
    f = f
    g = g
    h1 = h1
    h2 = h2
    NoMsg = NoMsg
    Callers = {app}
    Self = self
    Isrs = {}
    Ids = {}
    Owner <- NoOwner
    Requests <- TimerRequests
    Functions = {f}
    Handlers = {h1, h2}
    Durations = {3, 6}
    TickMs = 2
    MboxSize = 1
    MaxTimers = 3
    MaxTries = 1
    Wraps = FALSE
    MaxLate = 1
SPECIFICATION FairSpec
PROPERTIES ImplementsTimers  TimersExpire
