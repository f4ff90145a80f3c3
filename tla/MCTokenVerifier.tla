--------------------------- MODULE MCTokenVerifier ---------------------------
(***************************************************************************)
(* Instances of TokenVerifier for TLC.  The TTLs keep the order of the     *)
(* real ones (JWKS 3600 s > verified tokens 900 s > leeway 60 s).          *)
(***************************************************************************)
EXTENDS TokenVerifier, TLC

CONSTANTS c1, c2, c3, k1, k2, site, admin

MCEpoch == 3

Jwt(kid, genuine, aud, exp) ==
    [form |-> "jwt", header |-> TRUE, kid |-> kid, genuine |-> genuine, aud |-> aud, exp |-> exp]
NotJwt(form) ==
    [form |-> form, header |-> FALSE, kid |-> k1, genuine |-> FALSE, aud |-> {}, exp |-> 0]

AllClaims == [
    session |-> Jwt(k1, TRUE, {site}, 99),               \* a valid session
    shared  |-> Jwt(k1, TRUE, {site, admin}, MCEpoch+3), \* for two applications, expires
    newkey  |-> Jwt(k2, TRUE, {site}, 99),               \* signed with the key published later
    forged  |-> Jwt(k1, FALSE, {site}, 99),
    nokid   |-> [Jwt(k1, TRUE, {site}, 99) EXCEPT !.header = FALSE],
    opaque  |-> NotJwt("opaque"),
    empty   |-> NotJwt("empty")]

ClaimsOf(tokens) == [t \in tokens |-> AllClaims[t]]

MixedTokens == DOMAIN AllClaims
MixedClaims == ClaimsOf(MixedTokens)
SessionTokens == {"session", "shared"}
SessionClaims == ClaimsOf(SessionTokens)
OneToken == {"session"}
OneClaims == ClaimsOf(OneToken)

CallSymmetry == Permutations(Calls)
=============================================================================
