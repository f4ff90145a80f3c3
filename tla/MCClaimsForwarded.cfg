SPECIFICATION FairSpec
CONSTANTS
    r1 = r1  k1 = k1  robot = robot  stranger = stranger
    Requests = {r1}
    Hosts <- MCHosts
    Contents <- MCContents
    Config <- ExampleConfig
    AllMethods <- MCMethods
    None = None  NoClaim = NoClaim
    Tokens <- MCTokens
    Claims <- MCClaims
    Issued <- MCIssued
    HeaderNames <- MCHeaderNames
    Unprintable <- MCUnprintable
    Kids = {k1}  InitialKids = {k1}
    TrustWindow = 1
    MaxTime = 2
INVARIANT ClaimsAreForwarded
