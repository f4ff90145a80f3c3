SPECIFICATION Spec
CONSTANTS
    c1 = c1  c2 = c2  c3 = c3
    k1 = k1  k2 = k2
    site = site  admin = admin
    Calls = {c1, c2}
    Tokens <- MixedTokens
    Claims <- MixedClaims
    Audiences = {site, admin}
    Kids = {k1, k2}
    InitialKids = {k1}
    VerifiedTtl = 2
    VerifiedCapacity = 1
    JwksTtl = 3
    Leeway = 1
    Epoch <- MCEpoch
    MaxTime = 9
    MaxRotations = 2
    NetworkFaults = TRUE
SYMMETRY CallSymmetry
INVARIANTS TypeOK SingleFlight CachesSound
PROPERTIES NoRedundantFill GoodTokenAccepted ContractKept
