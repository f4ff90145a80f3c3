SPECIFICATION FairSpec
CONSTANTS
    c1 = c1  c2 = c2  c3 = c3
    k1 = k1  k2 = k2
    site = site  admin = admin
    Calls = {c1, c2, c3}
    Tokens <- SessionTokens
    Claims <- SessionClaims
    Audiences = {site, admin}
    Kids = {k1}
    InitialKids = {k1}
    VerifiedTtl = 2
    VerifiedCapacity = 1
    JwksTtl = 3
    Leeway = 1
    Epoch <- MCEpoch
    MaxTime = 5
    MaxRotations = 0
    NetworkFaults = TRUE
INVARIANT SingleFlight
PROPERTY EveryCallEnds
