------------------------------ MODULE MCGateway ------------------------------
(***************************************************************************)
(* Instances of Gateway for TLC: one request, since requests share nothing *)
(* but the clock and the provider's keys, and every content that the two   *)
(* applications, the tokens and the credentials below make.                *)
(***************************************************************************)
EXTENDS Gateway

CONSTANTS r1, k1, robot, stranger

MCHosts == {"www", "admin", ""}
MCMethods == {"GET", "POST"}
Default == [client_id |-> "site-client", audience |-> "site-api", redirect_uri |-> "www",
            restricted_methods |-> {"GET"}, claims |-> {"name", "https://example.com/roles"}]
Admin == [audience |-> "admin-api", required_permissions |-> {"admin"}, claims |-> {"sub", "roles"}]
ExampleConfig == [default |-> Default, apps |-> <<[name |-> "admin", entry |-> Admin]>>]

\* Auth0 names a custom claim by a URL: no header's name.
MCHeaderNames == {"sub", "name", "roles"}
\* A name with a line break in it.
MCUnprintable == {<<"anne", "name">>}

Jwt(sub, aud, exp, permissions, tells) ==
    [form |-> "jwt", genuine |-> TRUE, kid |-> k1, sub |-> sub, aud |-> {aud}, exp |-> exp,
     permissions |-> permissions, tells |-> tells \cup {"sub"}]

MCClaims == [
    session |-> Jwt("ann", "site-api", 1, NoClaim, {}),
    admin   |-> Jwt("ann", "admin-api", 9, {"admin"}, {}),
    machine |-> Jwt("robot", "admin-api", 9, {"admin"}, {}),
    forged  |-> [Jwt("ann", "admin-api", 9, {"admin"}, {}) EXCEPT !.genuine = FALSE],
    opaque  |-> [Jwt("", "", 0, NoClaim, {}) EXCEPT !.form = "opaque", !.genuine = FALSE],
    ann     |-> Jwt("ann", "site-client", 9, NoClaim, {"name", "roles", "https://example.com/roles"}),
    anne    |-> Jwt("ann", "site-client", 9, NoClaim, {"name", "roles"}),
    bob     |-> Jwt("bob", "site-client", 9, NoClaim, {"name", "roles"})]
MCTokens == DOMAIN MCClaims
MCIssued == {[creds |-> robot, audience |-> "admin-api", token |-> "machine"]}

Page(h, path, method, api) == [host |-> h, path |-> path, method |-> method, api |-> api]
Pages(h) ==
    {Page(h, "page", "GET", FALSE), Page(h, "page", "GET", TRUE), Page(h, "page", "POST", FALSE),
     Page(h, "callback", "GET", FALSE)}
Presented ==
    [basic: {None, robot, stranger}, access: {None, "session", "admin", "forged", "opaque"},
     id: {None, "ann", "bob"}]
    \cup [basic: {None}, access: {"session", "admin"}, id: {"anne"}]
With(path, host, complete, page, p) ==
    [path |-> path, host |-> host, complete |-> complete, page |-> page,
     basic |-> p.basic, access |-> p.access, id |-> p.id]

\* Every page and every endpoint, and a request that Traefik did not forward.
MCContents ==
    {With("/authorize", page.host, TRUE, page, p) :
        page \in Pages("www") \cup Pages("admin"), p \in Presented}
    \cup {With(path, "admin", FALSE, None, p) : path \in Paths, p \in Presented}
    \cup {With(path, "", FALSE, None, p) : path \in Paths,
            p \in {q \in Presented : q.basic # None /\ q.access = "admin"}}
=============================================================================
