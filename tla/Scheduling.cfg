CONSTANTS
    ana = ana
    ben = ben
    Never = Never
    MaxSlots = 8
    MaxOccurrences = 45
    Members = {ana, ben}
    Windows <- MCWindows
    FeedsOf <- MCFeedsOf
SPECIFICATION SSpec
INVARIANTS
    STypeOK
    FeedIsCovered
    ProposalIsEarliest
