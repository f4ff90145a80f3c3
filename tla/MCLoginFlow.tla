----------------------------- MODULE MCLoginFlow -----------------------------
(***************************************************************************)
(* Instances of LoginFlow for TLC: a site and an admin application under   *)
(* one cookie domain, configured like example/application.yaml, and a shop *)
(* under another one beside them.                                          *)
(***************************************************************************)
EXTENDS LoginFlow

CONSTANTS t1, t2

ExampleHosts == {"www", "admin", "shop"}
SiteHosts == {"www", "admin"}
ExampleDomains == {"example.com", "example.org"}
ExampleCovers == [d \in ExampleDomains |-> IF d = "example.com" THEN SiteHosts ELSE {"shop"}]
SiteDomains == {"example.com"}
SiteCovers == [d \in SiteDomains |-> SiteHosts]
MCMethods == {"GET", "POST"}

Default == [client_id |-> "site-client", audience |-> "site-api", redirect_uri |-> "www",
            token_cookie_domain |-> "example.com", restricted_methods |-> MCMethods,
            required_permissions |-> {}]

\* example/application.yaml: admin has its own audience, permissions and methods.
\* The shop has a domain, a client and a callback of its own.
ExampleConfig ==
    [default |-> Default,
     apps |-> <<[name |-> "admin",
                 entry |-> [audience |-> "admin-api", required_permissions |-> {"admin"},
                            restricted_methods |-> {"GET"}]],
                [name |-> "shop",
                 entry |-> [client_id |-> "shop-client", audience |-> "shop-api",
                            redirect_uri |-> "shop", token_cookie_domain |-> "example.org"]]>>]

\* default restricts POST only, and the admin entry does not mention methods.
OmittingConfig ==
    [default |-> [Default EXCEPT !.restricted_methods = {"POST"}],
     apps |-> <<[name |-> "admin", entry |-> [audience |-> "admin-api"]]>>]

Page(h, method, api) == [host |-> h, path |-> "page", method |-> method, api |-> api]
AllTargets ==
    {Page("www", "GET", FALSE), Page("admin", "GET", FALSE), Page("admin", "POST", FALSE),
     Page("shop", "GET", FALSE), Page("www", "GET", TRUE),
     [Page("www", "GET", FALSE) EXCEPT !.path = "callback"]}
PageTargets == {Page("www", "GET", FALSE), Page("admin", "GET", FALSE)}
SitePage == {Page("www", "GET", FALSE)}

\* Only the admin API has permissions to give.
AllGrants == [a \in {"site-api", "admin-api", "shop-api"} |->
                 IF a = "admin-api" THEN {NoClaim, {"admin"}} ELSE {NoClaim}]
MCNonces == 1 .. 7   \* more than two per tab and one per domain
=============================================================================
