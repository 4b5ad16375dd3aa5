SPECIFICATION FairSpec
CONSTANTS
    a1 = a1
    a2 = a2
    Attempts = {a1, a2}
    Plans <- ThreePlans
    Nil = Nil
INVARIANT BannerKept
PROPERTIES RetryAsksAnew AttemptEnds
