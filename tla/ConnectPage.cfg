SPECIFICATION Spec
CONSTANTS
    Urls = {u1, u2, u3}
    NoUrl = NoUrl
    MaxAccepts = 4
INVARIANTS
    TypeOK
    HistoryAsUsed
    QualityAsChosen
CHECK_DEADLOCK FALSE
