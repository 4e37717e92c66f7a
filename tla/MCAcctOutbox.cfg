CONSTANTS
    Orders = {o1}
    Units = 2
    Net = 2
    Vat = 1
    Cost = 1
    MaxRefunds = 1
    LastMonth = 2
    MaxReprocess = 1
    maxDeadLetterAttempts = 1
    maxOrphanRefundAttempts = 1
SPECIFICATION Spec
INVARIANTS
    AcctTypeOK
    DeliveredDrains
    ReversesOnlyWhatIsBooked
    BooksTellTheOrder
CHECK_DEADLOCK FALSE
PROPERTIES
    RefundsEnd
