SPECIFICATION FairSpec
CONSTANTS
    Requests = {r1, r2}
    MaxAttempts = 2
INVARIANTS AnswerIsKept LedgerMatchesEvents ShutdownSparesWaiting
PROPERTIES ImplementsPayment EveryRequestIsAnswered ChargeIsAnnounced
