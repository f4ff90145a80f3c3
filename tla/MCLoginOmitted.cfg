SPECIFICATION FairSpec
CONSTANTS
    t1 = t1  t2 = t2
    Tabs = {t1, t2}
    Hosts <- SiteHosts
    Domains <- SiteDomains
    Covers <- SiteCovers
    AllMethods <- MCMethods
    Config <- OmittingConfig
    Targets <- PageTargets
    Grants <- AllGrants
    Nonces <- MCNonces
    None = None  NoClaim = NoClaim
    ProviderFails = FALSE
    MaxEvents = 0
INVARIANT OmittedIsInherited
