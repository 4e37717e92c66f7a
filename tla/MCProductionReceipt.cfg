CONSTANTS
    MaxReceipts = 3
    Deliveries <- MCDeliveries
    Planned = 2
    IssueValue = 25
    MaxIssues = 1
    Costs = {0, 10}
    Counts <- MCCounts
    LossNum = 1
    LossDen = 4
    receiptDeadLetterAttempts = 1
    MaxDisturbances = 1
SPECIFICATION MCSpec
INVARIANTS
    ReceiptTypeOK
    UnitsTellReceipts
    ClaimsMatchLedger
    CapitalisedOnce
    FinalClosesRun
    NothingStrandsInWip
    CostPriceCovered
CHECK_DEADLOCK FALSE
PROPERTIES
    ReceiptsOwnCounters
    CostPriceEarned
