\* Does a boot load the latest parameters?
CONSTANTS
    Main = Main
    NoTask = NoTask
    t1 = t1
    t2 = t2
    factory = factory
    zero = zero
    a = a
    Factory = factory
    Zero = zero
    Erased = Erased
    NoCrc = NoCrc
    Tasks <- OneTask
    Resetters <- NoTasks
    Params <- ThreeValues
    MaxCuts = 2
SPECIFICATION Spec
INVARIANT
    LoadsLatest
