\* A task that uses all of the store, and one that saves user defaults
CONSTANTS
    Main = Main
    NoTask = NoTask
    t1 = t1
    t2 = t2
    factory = factory
    zero = zero
    Factory = factory
    Zero = zero
    Erased = Erased
    NoCrc = NoCrc
    Tasks <- OneTask
    Resetters <- OneTask
    Users <- OneUser
    Params <- TwoValues
    MaxCuts = 1
SPECIFICATION SystemSpec
INVARIANTS
    SystemTypeOK
    ResetIsDurable
PROPERTIES
    ImplementsStore
    SaveIsLoadable
