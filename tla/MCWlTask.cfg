\* The messages: a task, an interrupt handler and the task itself post
CONSTANTS
    app = app
    self = self
    isr = isr
    mlme = mlme
    uart_rx = uart_rx
    f = f
    g = g
    h1 = h1
    h2 = h2
    NoMsg = NoMsg
    Callers = {app}
    Self = self
    Isrs = {isr}
    Ids = {mlme, uart_rx}
    Owner <- IdOwner
    Requests <- MixedRequests
    Functions = {f, g}
    Handlers = {h1}
    Durations = {2}
    TickMs = 2
    MboxSize = 2
    MaxTimers = 1
    MaxTries = 2
    Wraps = TRUE
    MaxLate = 0
SPECIFICATION FairSpec
INVARIANTS TypeOK CountsOnTheirWay
PROPERTIES RunsWhatWasPosted ServesMailbox
