SPECIFICATION Spec
CONSTANTS
    t1 = t1
    t2 = t2
    ph = ph
    pw = pw
    a1 = a1
    a2 = a2
    p1 = p1
    p2 = p2
    n1 = n1
    n2 = n2
    k1 = k1
    c1 = c1
    c2 = c2
    None = None
    Missing = Missing
    Threads = {t1, t2}
    ProcOf <- TwoProcesses
    Requests <- DerivedKey
    Contents = {c1}
    Authcodes = {a1, a2}
    ProofIds = {p1, p2}
    Prices = {1}
    Acks = {}
    Ceiling = 2
    CrossProcessLocking = TRUE
    LateDelivery = FALSE
    UniqueJobNames = FALSE
    LedgerFailures = TRUE
    QuotesReadable = TRUE
    ErrorsHide = FALSE
SYMMETRY SymmetryOfProcesses
INVARIANTS
    RefusalSentNothing
