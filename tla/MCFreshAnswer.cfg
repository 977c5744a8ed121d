SPECIFICATION Spec
INVARIANTS
    NeverGivesUp
    ChainConnected
    FollowUpsAgree
    DeniedByNearestZone
    NxdomainEveryType
    ReferralKept
    HonestTruncation
CHECK_DEADLOCK FALSE
