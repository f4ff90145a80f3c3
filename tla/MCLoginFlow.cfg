SPECIFICATION FairSpec
CONSTANTS
    t1 = t1  t2 = t2
    Tabs = {t1, t2}
    Hosts <- ExampleHosts
    Domains <- ExampleDomains
    Covers <- ExampleCovers
    AllMethods <- MCMethods
    Config <- ExampleConfig
    Targets <- AllTargets
    Grants <- AllGrants
    Nonces <- MCNonces
    None = None  NoClaim = NoClaim
    ProviderFails = TRUE
    MaxEvents = 1
INVARIANTS TypeOK GrantsAreEarned SignedOutMeansOut CodesAreSpentOnce
PROPERTIES ContractKept GetsInAlone
