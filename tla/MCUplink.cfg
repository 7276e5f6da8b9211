SPECIFICATION FairSpec
CONSTANTS
    n1 = n1
    n2 = n2
    Net = {n1, n2}
    None = None
    HomeChannel = HomeChannel
    MaxMoves = 6
INVARIANTS
    UplinkInv
    NeverStranded
    OffersWhatWasStarted
    FollowsLink
PROPERTY
    UplinkRecovers
CHECK_DEADLOCK FALSE
