\* Two tasks that use the store concurrently, one of which also resets it while the
\* other makes no call, up to two power losses, under fairness
CONSTANTS
    Main = Main
    NoTask = NoTask
    t1 = t1
    t2 = t2
    factory = factory
    zero = zero
    a = a
    Factory = factory
    Zero = zero
    Erased = Erased
    NoCrc = NoCrc
    Tasks <- TwoTasks
    Resetters <- OneTask
    Params <- TwoValues
    MaxCuts = 2
SPECIFICATION ExclusiveSpec
INVARIANTS
    TypeOK
    BothCopies
    CurrentIsSaved
    GetReadsARecord
PROPERTIES
    KeepsACopy
    CallsReturn
    BootCompletes
