SPECIFICATION FairSpec
CONSTANTS
    t1 = t1
    t2 = t2
    t3 = t3
    ph = ph
    pw = pw
    None = None
    Torn = Torn
    Threads = {t1, t2, t3}
    ProcOf <- SharedProcess
    Entries = {e1, e2}
    Values = {v1}
    ReadFaults = FALSE
INVARIANTS
    TypeOK
    NeverTorn
    AnswersAreCurrent
PROPERTIES
    OperationsEnd
    ImplementsLedgerMap
