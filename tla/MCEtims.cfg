SPECIFICATION MCSpec
CONSTANTS
    Txn = {1, 2}
    Task = {k1, k2}
    NoTxn = NoTxn
    BatchSize = 1
    MaxAttempts = 3
    MaxReceipts = 2
    MaxRequests = 3
    MaxFaults = 1
    Amounts <- Cents
    Discounts <- Reductions
    Tenders <- Handed
CHECK_DEADLOCK FALSE
INVARIANTS FilingsAreSound QueuedIsInHand MoneyBalances TaxAgrees
PROPERTIES LostByLaterBatchOnly RetryEnds
