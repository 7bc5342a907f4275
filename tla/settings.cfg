SPECIFICATION Spec
CONSTANTS
    p1 = p1
    p2 = p2
    i1 = i1
    d1 = d1
    d2 = d2
    letter = letter
    marked = marked
    print = print
    None = None
    NoId = NoId
    Procs = {p1, p2}
    Pages <- SomePages
    Launches <- TimeoutLaunches
    Calls <- ServerCalls
    Documents <- SomeDocuments
    Prints <- SomePrints
    Paths <- SomePaths
    FreshDisk <- SomeDisks
    ProofIds = {i1}
    DocIds = {d1, d2}
    PerDoc <- CopiesOf
    ProofFile <- PrintOf
INVARIANT
    SettingsFollowPrecedence
