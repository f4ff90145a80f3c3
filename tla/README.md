# forwardauth-rs in TLA+

TLA+ modules, TLC configurations and TLAPS proofs for
[forwardauth-rs](../src/README.md), a ForwardAuth gateway: Traefik asks it, for
every request of a browser or a machine, whether the request may pass, and it
answers from the OIDC session cookies or the Basic credentials that the request
carries. Paths below are relative to `src/src/` unless they say otherwise.

## 1. The system

| Component | State | Operations | Interacts with |
|---|---|---|---|
| Token verification (`auth0.rs:296-451`) | `verified_token_cache` (raw token, 15 min), `jwks_cache` (JWKS URI, 1 h), the flights of both | `verify_token` | called by the middleware, once per token of a request; OIDC discovery and JWKS over HTTP |
| Client credentials (`auth0.rs:145-230`) | `cc_token_cache` (client, secret, audience; 24 h and the token's `expires_in`), its flights | `client_credentials_exchange` | called by the middleware for Basic requests; the token endpoint |
| Configuration (`config.rs`) | read-only after start | deserialization, `find_application_or_default` | every handler resolves its application by `x-forwarded-host` |
| Middleware (`middleware.rs`) | none | the user of a request, from Basic credentials, then from cookies | verification and exchange above; hands `User` to the handlers |
| `/authorize` (`endpoints/authorize.rs`) | none; sets `AUTH_NONCE` | grant, redirect to login, 401, 403 | called by Traefik; starts a login at the provider |
| `/signin` (`endpoints/signin.rs`) | none; sets `ACCESS_TOKEN`, `JWT_TOKEN`, clears `AUTH_NONCE` | nonce check, code exchange | called by the browser coming from the provider |
| `/signout` (`endpoints/signout.rs`) | none; clears the session cookies | provider logout | |
| `/userinfo` (`endpoints/userinfo.rs`) | none | what the provider tells about the bearer | the provider's userinfo endpoint |
| Router and start-up (`main.rs`) | none | routes; `/health` stays outside the middleware | |

All the state the gateway has is in three caches; all the state of a login is in
the browser's cookie jar and in the `state` parameter. Nothing is persisted: a
restart empties the caches, which the models start from.

Where it is hard:

* **Single flights.** moka's `try_get_with` lets one caller compute and the
  others wait; the computation belongs to the leader's future, which is dropped
  when the leader's client disconnects, and its *error* is shared.
* **Time of check, time of use.** Key sets and claims are read on one side of an
  await and used on the other, while TTLs run out and the provider rotates keys.
* **One cache key, several questions.** Claims are cached by token alone, and
  asked for by applications with different audiences; the tokens of every client
  and audience are in one other cache.
* **A browser's tabs share one jar.** Requests carry the cookies of when they
  are sent; `Set-Cookie` applies when the response arrives; logins, sign-outs
  and the applications under one cookie domain interleave.
* **Resolution by host.** A login starts on one host and ends on another, and
  each resolves its application separately.
* **Several credentials, several tokens.** A request may bring Basic
  credentials, an access token and an ID token; each is checked in an await of
  its own, each check may fail for the network's sake, and they may be of
  different users.

What makes each component correct:

* *verification*: `Token::Jwt` only for a good token of the audience asked for,
  whatever the caches hold; good tokens accepted; one verification and one JWKS
  fetch at a time; every call ends;
* *client credentials*: no stale token, none that was asked for by somebody else
  or for another audience, one request per key, every call ends;
* *configuration*: an application is what its entry and `default` say;
* *login*: a restricted page is shown only on a session for that application
  with its permissions; a session comes from a login that this browser began at
  that application, once; sign-out is final; a login ends at the page;
* *middleware and endpoints*: a request speaks for, and forwards, what good
  tokens of one user say; a good session counts whatever else is presented;
  every request is answered.

`PROJECT.json` lists the hazards at their lines with the properties that cover
them.

## 2. Modules

| Module | Models |
|---|---|
| `Provider` | the provider's signing keys over time, and when a token is good (`Sound`); shared by the contracts and `Gateway` |
| `VerifyContract` | what `verify_token` promises: no caches, no HTTP |
| `TokenVerifier`, `MCTokenVerifier`, `TokenVerifierProofs` | `verify_token`, `verify_jwt_uncached`, `get_jwks_keys`; implements `VerifyContract` |
| `ExchangeContract` | what `client_credentials_exchange` promises: no cache, no flight, no HTTP |
| `ClientCredentials`, `MCClientCredentials`, `ClientCredentialsProofs` | `client_credentials_exchange`; implements `ExchangeContract` |
| `AppConfig` | defaults and inheritance, as operators |
| `Authorization` | `perform_authorization` and what a response carries, as operators; extends `AppConfig` |
| `LoginContract` | what logging in promises a browser: no nonce, no `state`, no callback to repeat |
| `LoginFlow`, `MCLoginFlow`, `LoginFlowProofs`, `LoginContractProofs` | browser tabs, `/authorize`, `/signin`, `/signout`, the provider; extends `Authorization`, implements `LoginContract` |
| `GatewayContract` | what the gateway promises the services behind it: who may speak, what is told, what is answered |
| `Gateway`, `MCGateway`, `GatewayProofs` | router, middleware and endpoints for a request; extends `Provider` and `Authorization`, calls `verify_token` at `VerifyContract`, implements `GatewayContract` |

`TokenVerifier` implements `VerifyContract`, `Gateway` calls `VerifyContract` and
implements `GatewayContract`: together they say what the gateway promises with
its caches underneath.

### TokenVerifier

A call is one handler's await of `verify_token`; `phase[c]` is the await it is
suspended in or the code between two of them. The phases follow the code:

    idle -Begin-> lookup -LookupHit----------------------> recheck -> Jwt | Invalid
                    |-LookupWait-> waiting ...(leader's result)...      (RecheckAudience,
                    |-LookupLead-> discovery -> keyset                   RecheckExpiry, Admit)
                                     keyset -KeysHit/KeysWait/KeysFetch-> decode
                                     decode -Accept-> recheck, -Reject-> failed -> Invalid

`verified` and `jwks` hold times of insertion; `keyset[c]` is what
`get_jwks_keys` returned to the call, kept across the await as in the code. A
token is what its bytes decode to (`Claims`): its form, its header, the key, the
audiences, the expiry, and `genuine` for RSA components, algorithm, signature
and issuer together. The seven tokens of `MixedTokens` are one per branch.

`LookupHit/Wait/Lead` are one step each because moka decides hit, wait or lead
under the key's lock. Handlers run on several threads, so no action touches a
cache twice. `Cancel` drops a suspended call (hyper drops the handler with the
connection); waiters of a dropped leader look again, as moka does. `Evict`
drops any entry over capacity. `Publish` and `Withdraw` are the provider's.

Two abstractions of time. `Tick` waits until no call is between two awaits: a
unit of time is longer than such a computation (microseconds against seconds).
The JWKS a reply brings is the provider's at the time the reply arrives: the
transit of an answer is shorter than a unit; a request may be outstanding for
any number of units. So "the withdrawn key is trusted for less than
JwksTtl + VerifiedTtl - 1" is in whole units, and exact in them.

### ClientCredentials

`Check` is the first `get`, `Invalidate` the eviction of an expired token, and
`LookupHit/Wait/Lead` the `try_get_with`: three steps, because others act
between them. `req[c]` is what the call was asked, one of `Questions`: a client, its
secret and an audience. `CacheKey` is the key of its entry and of its flight: the
three joined by colons, where the secret and the audience may hold colons
themselves (`Joined`). The code takes the joined string for the question, and so
does the model under `KeysAssumption`. A cached token carries the
question that it answers (`to`), and `got[c]` keeps the token behind an answer. A
JSON without `access_token` is cached like any other (`usable = FALSE`).

`Tick` waits until no call is between two of its steps, here as in `TokenVerifier`;
between the `get` (155) and the `try_get_with` (184) there is no await, but a second
may begin there all the same. A token that another call caches in between and that
lives for about a second could then be answered just after its expiry: the one
case of a stale answer that the model leaves out.

`ExchangeContract` has the calls, the answer each was given and the token behind
it (`got`), and the kept tokens, without phases, keys or flights. Who is told of a
token is told of this one (`Give`): it is one that is kept or has been issued just
now, it was issued for the very question that was asked, less than `MaxAge` ago,
and it has not expired since. The refinement maps `got` to itself and the kept
tokens to the cache, so an entry that is too old, expired or of another question
is no answer in the contract, from the cache or from a flight.

### LoginFlow

`phase[t]` is what tab `t` does; `carried[t]` is the `ACCESS_TOKEN` its request
was sent with; `flow[t]` the parameters of its authorize URL; `past[t]` the login
in the tab's history and whether it has been completed; `nonces` and `sessions` the
jar, by cookie domain. `Sent` and `SetCookie` are the browser's rules for sending
and accepting cookies by domain. A URL is a host and whether its path is the
callback path. `ACCESS_TOKEN` and `JWT_TOKEN` are set and cleared together, so one
value stands for both. The nonce of `Uuid::new_v4` is one that nobody knows who
could still use it. `signedOut` is the hosts where no login has ended since the last
sign-out; a login or a sign-out concerns the hosts that the cookies of its
application `Reach`.

`verify_token` is taken at its contract, in which it may reject. `Users(t)` is whom
the middleware may find: the session's user if the token is for the application's
audience and the gateway knows its key (`Acceptable`, with `trusted`), and nobody in
any case, since discovery or the JWKS may be out of reach (`auth0.rs:436`, `443`) and
the error of another caller's verification is shared (`314`). `/authorize` and
`/signout` are actions for each such user. So an accepted session may be sent to log
in, turned away, or not signed out. `Rotate` is the provider signing with a new key,
`Learn` the JWKS fetched again after its hour, `Forget` the last cached claims of an
old key gone. `Expire` is a cookie's `Max-Age`.

`/signin` answers 400 when the exchange fails and leaves `AUTH_NONCE` where it is
(`SigninFail`), so the login is not over: the tab keeps it in `past`, not done. It may
ask for the callback again while the first request is still awaited (`Reload`), and
after the login has failed or been completed, from its history or when it is restored
(`Replay`); the nonce is then compared once more, and the code presented once more if
it matches. `ReturnTo` is the page that `/signin` redirects back to: the URL of before,
by GET. `/signout` answers 401 and clears nothing (`SignoutRefused`), or clears the
session with each of the provider's three outcomes (`Signout`): 307 and 204 end the
visit, after 500 the tab shows the error and may go on.

`LoginContract` keeps the jar of sessions, what each tab asks for or is shown
(`view`), and the set of logins that have begun and may end yet (`open`): a session
is put into the jar only by ending an open login (`Complete`), for its own
audience and for the domain of a host where it may end, and then that login is
gone. A login of `LoginFlow` is open from its redirect on, while a tab is in it or
has it in its history, until it is completed or the tab starts another; neither a
nonce that does not match, nor an error of the provider, nor a failed exchange
closes it. A callback that is asked for again after the login was completed is of
no open login, and must therefore change nothing. So the contract says what the
nonce is for, without one.

### Gateway

`stage[r]` is the await that request `r` is suspended in, or how it ended:

    begin -Begin-> exchange -Exchange-> basic -VerifyBasic-> handler
      |               `--(refused)--.     `--(not verified)--.
      |-(no Basic)----------------> access -VerifyAccess-> id -VerifyId-> handler
      `-(/health, no host, no cookie)---------------------------------> handler
    handler -Public/Authorize/Unauthorized-> answered
    handler -AskProvider-> provider -ProviderAnswers-> answered
    handler -Panic-> panicked;  any -Drop-> dropped

`user[r]` is the middleware's `User`: the raw token it was let in on, and
`userinfo` as a map from a claim's name to the token its value is from, which is
what can be wrong with a forwarded header. A header can only be built for some names
(`HeaderNames`) and for values without a control character (`Unprintable` has the
claims with one): `Fits` is that all the headers of a granted answer can be, and
`Panic` what happens otherwise. `Verify` is
`VerifyContract!Answer` for the call `<<r, "basic" | "access" | "id">>`, whose
arguments `args` gives. `IssuedTo` is the token that the exchange answers for
the credentials and the application's audience. `GatewayContract` has the same
requests and answers without stages, calls or an order of the checks: it says
that someone is let in on a good token (`LetMachineIn`, `LetUserIn`), that more is
told only from a good ID token of the same subject (`Introduce`), and how a
request may be answered then (`Answer`).

## 3. Runs

| Run | Expect | Shows |
|---|---|---|
| `verifier_safety` | pass | `TypeOK`, `SingleFlight`, `CachesSound`, `NoRedundantFill`, `GoodTokenAccepted`, `ContractKept`: two calls, seven tokens, two audiences, two rotations, failures, cancellations, capacity one |
| `verifier_liveness` | pass | `EveryCallEnds`, and `SingleFlight` for three calls: failures, cancellations |
| `verifier_audiences` | violation | a waiter gets the audience error of a leader from another application |
| `verifier_skew` | violation | the 60 s leeway is undone by the re-check |
| `verifier_rotation` | violation | a withdrawn key is honoured for JWKS TTL + claims TTL, not 15 min |
| `credentials` | pass | `TypeOK`, `OneRequestPerKey`, `NeverStale`, `ContractKept`, `EveryExchangeEnds`: three calls, two audiences; the token behind each answer is the asker's, recent and unexpired |
| `credentials_eviction` | violation | the eviction of an expired token can hit a fresh one |
| `login` | pass | `TypeOK`, `GrantsAreEarned`, `SignedOutMeansOut`, `CodesAreSpentOnce`, `ContractKept`, `GetsInAlone`: two tabs, two applications under one cookie domain and a shop with a domain, a client and a callback of its own, callbacks asked for again before and after they fail or complete, verifications that fail, an expiring cookie or a new signing key |
| `login_stuck` | violation | two tabs restart each other's login for ever |
| `login_omitted` | violation | an omitted `restricted-methods` is not inherited |
| `gateway` | pass | `TypeOK`, `NobodyLockedOut`, `ContractKept`, `EveryRequestEnds`: every request that 5 endpoints, 8 pages, 3 credentials, 5 access and 3 ID cookies make, and those of a user whose name has a line break |
| `claims_forwarded` | violation | a claim whose name is a URL, or whose value has a line break, makes the handler panic on a granted request |

`PROJECT.json` "findings" quotes the lines that the violated properties come
from. Bounds, all named constants:

* *Calls*: two already give leader and follower, a fresh and a late evictor; the
  three of `verifier_liveness` and `credentials` give a
  leader that is cancelled with two waiters, one of which leads next. Calls are
  made once; more calls in sequence find only caches, which are in every state
  by eviction and time.
* *Time*: `Epoch` 3, `JwksTtl` 3 > `VerifiedTtl` 2 > `Leeway` 1, in the order of
  the real 3600 > 900 > 60; `MaxTime` 8 or 9 leaves both TTLs to run out after a
  rotation. `verifier_liveness` stops at 5: the caches still expire.
* *Capacity* 1 with two cacheable tokens or keys makes `Evict` fire. The
  `max_capacity` 10 of `jwks_cache` is not reached by its one key.
* *Lifetimes* {0, 1, 3}: expired when issued, and on both sides of `CacheTtl` 2.
  `credentials` stops at 3, when an entry of the start has been gone for a unit and
  its token expires at last; `credentials_eviction` at 4.
* *MaxEvents* 1 in `login`: one cookie that expires or one new signing key;
  `login_stuck` and `login_omitted` need neither. *Nonces* 7: more than the flows
  and past logins of two tabs and two cookies can hold. `past` is one login deep:
  an older callback has a nonce that a later redirect has overwritten in the jar.
  `Reload` is taken once in a login: a third request for the callback finds nothing
  that the second one could not.
* One request in `gateway`: requests share nothing but the clock and the
  provider's keys, which act without them (requests meet in the caches below
  `verify_token`, where `TokenVerifier` has them meet; the theorems are for any
  number). *MaxTime* 2 lets the session expire, which ends at 1, at every stage,
  and the withdrawn key outlive its `TrustWindow` of 1.
* `verifier_rotation` has one token and one audience, so that its behaviour is
  about a token cached before the withdrawal.
* Calls are symmetric in the safety runs and not in the liveness runs.

Fairness is weak, with one exception: per call (`Run(c)`: a runnable task is polled, an HTTP request
is answered or hits the 30 s client timeout, `auth0.rs:83`), per request
(`Step(r)`: its awaits end for that reason, and for `EveryCallEnds` and
`EveryExchangeEnds`), per tab (`Step(t)`: the browser follows redirects, the
gateway answers, a user who is shown the login page logs in) and for `Learn`
(the cached JWKS runs out after an hour). The exception is strong fairness of
`IsKnown(t)`, that `/authorize` recognises the session of tab `t`: an outage of
discovery or the JWKS ends, and `verify_token` does not reject a good session every
time that it is asked. Without it the browser would go from `/authorize` to the login
and to `/signin` and back for as long as the outage lasts, with the login page and the
token endpoint still up, as the code does. Nobody has to start a call, disconnect, open a tab,
reload or sign out, and the clock need not advance. `GetsInAlone` only speaks of a tab
that the others eventually leave alone, and `login_stuck` shows why it must.

`GoodTokenAccepted` is conditional on purpose: calls in flight
agree on the audience (otherwise `verifier_audiences`), the key has been published
for `JwksTtl` (a younger one may be missing from the cached JWKS), the token is
unexpired without leeway (otherwise `verifier_skew`), and no request of the call
or of the flight it waited for has failed for the network's sake (phase
`unreachable`).

### Seeded faults

An operator `Faulty...` is the operator after it with a plausible bug; putting it
in its place makes the property fail under the run's own configuration.

| Fault | Breaks |
|---|---|
| `FaultyAccept` stores an expiry instead of the insertion time | `TypeOK` |
| `FaultyLookupLead` leads although someone does | `SingleFlight`, `OneRequestPerKey` |
| `FaultyCancel` forgets the waiters of a dropped leader | `SingleFlight` |
| `FaultyKeysHit` ignores the JWKS TTL | `CachesSound` |
| `FaultyKeysFetch` fetches the JWKS without looking in the cache | `NoRedundantFill` |
| `FaultyAudienceMatches` does not re-check the audience | `ContractKept` |
| `FaultyAcceptable` rejects in the second of the expiry | `GoodTokenAccepted` |
| `FaultySettle`, `FaultyReplyError` answer the leader only | `EveryCallEnds`, `EveryExchangeEnds` |
| `FaultyReplyToken` takes the lifetime off the time of issue | `TypeOK` of `ClientCredentials` |
| `FaultyCheck` does not evict the expired token | `NeverStale` |
| `FaultyCacheKey` leaves the audience out of the key | `ContractKept` of `ClientCredentials` |
| `FaultyAuthorizeRedirect` swaps the client and the audience of the authorize URL | `TypeOK` of `LoginFlow` |
| `FaultyPermitted` takes a missing permissions claim for no requirement | `GrantsAreEarned` |
| `FaultySigninComplete` leaves `AUTH_NONCE` in the jar | `CodesAreSpentOnce` |
| `UncheckedCallback` does not compare the nonces | `ContractKept` of `LoginFlow` |
| `FaultySignout` does not clear the cookies when the provider's logout fails | `SignedOutMeansOut` |
| `FaultyCallback` retries on a nonce mismatch instead of restarting | `GetsInAlone` |
| `FaultyExchange` does not handle refused credentials | `EveryRequestEnds` |
| `FaultyVerifyBasic` does not fall back to the cookies | `NobodyLockedOut` |
| `FaultyClaimNames` takes every claim of the ID token | `TypeOK` of `Gateway` |
| `FaultyVerifyId` does not compare the subjects | `ContractKept` of `Gateway` |

## 4. Theorems

For all values of the constants, from the named assumptions of the modules:

| Theorem | Statement | Argument |
|---|---|---|
| `TypeCorrect` (three modules), `CredentialsTypeCorrect` | `Spec => []TypeOK` | inductive; in `LoginFlow` and `Gateway` with what a phase says about the other variables |
| `FlightsAreSingle`, `RequestsAreSingle` | `[]SingleFlight`, `[]OneRequestPerKey` | inductive with `TypeOK`: a flight starts only if there is none, and ends together with everybody who waits |
| `CachesStaySound` | `[]CachesSound` | inductive with `TypeOK`: an age bound on each hand a key set or claims pass through |
| `FillsOnce` | `NoRedundantFill` | by `FlightsStayNeeded`: while a flight is on, its entry is not live |
| `GoodAreAccepted` | `GoodTokenAccepted` | a key set in hand is at most `JwksTtl` old, so a key published for that long is in it; who is told of a failure waits for the same token and, uncontended, the same audience |
| `TokenVerifierProofs!KeepsContract` | `ContractKept` | refinement of `VerifyContract`: `CachesSound` at the re-check gives the contract's `Sound`; every other step is a stutter or the environment's |
| `ExchangeKeepsContract` | `ContractKept` | refinement of `ExchangeContract`, in which an answer is bound to its token: by `OwnEntries`, an entry answers the question whose key it is under, and by `NothingStaleAhead`; whoever shares a flight has asked the same, by `KeysAssumption`; nobody has a token before an answer (`NothingGotYet`) |
| `NoStaleAnswers` | `NeverStale` | by `NothingStaleStaysAhead`: past the first look no live entry ahead of a caller has expired since it was issued |
| `GrantsEarned` | `[]GrantsAreEarned` | by `EarnedKept`: what a granted tab was asked with has not changed since the decision |
| `NamedMethodsAreKept` | `[]OmittedIsInherited`, if every entry names its methods | by `SentForRestricted`, and `FirstMatches`: the entry that a host resolves to is one of its name |
| `SignedOut` | `[]SignedOutMeansOut`, under `OwnDomains` | by `JarIsOut`: the cookie that a sign-out clears is the only one that requests to those hosts carry |
| `CodesSpentOnce` | `[]CodesAreSpentOnce`, under `OwnDomains` | by `OwnNonces`: a nonce belongs to one tab's login, is in one cookie only, and no completed login's is in the jar; that a fresh one exists is by cardinality |
| `LoginKeepsContract` | `ContractKept`, under `OwnDomains` | refinement of `LoginContract`, one lemma per handler (`StartIsStep`, `CompleteIsStep`, `AnswerIsStep`, `LoginStaysOpen`, `SignoutIsSignOut`, ...), for each user that `verify_token` may find; `OwnNonces` gives that a callback which passes the nonce check is of an open login, and that a fresh login is new among the open ones |
| `NamedClaimsAreForwarded` | `[]ClaimsAreForwarded`, if every configured claim's name can be a header's, and no token has a value that cannot | by `ToldKept`: what a request is told is under configured names, so `Granted` fits, is answered, and `Panic` is not taken |
| `NotLockedOut` | `[]NobodyLockedOut` | by `Tried`: past the cookies as nobody means that the session was refused |
| `GatewayProofs!KeepsContract` | `ContractKept` | refinement of `GatewayContract` by `GInv`, which says what a request waits for and what it was let in on; `VerifyAnswers` turns an answer `Jwt` into the contract's `Sound` |

Assumptions worth knowing: `ClockAssumption` (wall-clock time is further from
1970 than any TTL, in `TokenVerifier`), `RedirectUriAssumption` (every application has a redirect URI; `validate()`
does not require one, and without it `/authorize` whitelists every URL),
`SubjectAssumption` (an ID token has a subject; the middleware takes one without
for anybody's), `KeysAssumption` (no two questions in use have one joined string: an
audience that is the end of another one after a colon could make two of them equal, and
nothing in the code rules it out) and `NoncesAssumption` (nonces enough never to run
out). TLC
evaluates all of them on the runs.

Some theorems have a hypothesis on the configuration. `OwnDomains` says that
every application sets its cookies for a domain of its own hosts and that no host
is under two of the domains: SKILL.md:247 asks for one domain, and this allows
several that do not overlap. Where one domain lies within another
(`example.com`, `admin.example.com`), a request to the inner one carries the
cookies of both and `extract_cookie` takes the first; a sign-out clears one, and
the other is still a session. `MethodsAreNamed` and `ClaimsFitHeaders` are the
converse of two findings: `login_omitted` and `claims_forwarded` show violations,
and the theorems that it takes an entry without methods, or a claim with a name or a
value that no header can have.

Only model-checked: the liveness properties (`EveryCallEnds`, `EveryExchangeEnds`,
`GetsInAlone`, `EveryRequestEnds`), which need fairness and ENABLED, which the
prover does not handle. Every other property of the passing runs is proved. That a
contract is kept is proved for its safety: the contracts state no fairness, and
that answers come is what the liveness properties say.

## 5. Not modelled

Loading and validating the configuration and the rest of start-up: pure checks
of URLs that happen once, before there is any state. A callback without code or
state, or with an undecodable state: 400 at once, with no cookie touched. The
client secret of an entry, inherited apart from its client id (`config.rs:187-192`).
Wording and logs, and headers' values but for whether they can be one; the encoding of
the `state` parameter. A tab that the browser duplicates with its history: each login
is in one tab. Going back to a page of the provider: a login that is finished there again
has a new code under the same nonce, which meets the check that `Replay` meets. That
`/signin` returns to the *lower-cased* URL (`domain.rs:248`) is a matter of data
that no model here tells apart. The code exchange may answer no `access_token`,
which sets an empty cookie (`signin.rs:188`): the browser is sent to log in again,
as after an `Expire`.

## 6. Plan

Done: the contract and the verifier (the gateway's core), the client-credentials
cache with its contract, the configuration, the login with repeated and failed
callbacks, failing verifications, new keys, several cookie domains and its contract, the middleware and the
endpoints with their contract, and the theorems of section 4.

Left:

1. `LoginFlow` with nested cookie domains: which of the promises are left.
2. `Gateway` calling the exchange at `ExchangeContract`, as it calls `verify_token`
   at `VerifyContract`; it takes the token that is issued for the credentials.
3. `GetsInAlone` with a clock for `Max-Age`: how long a user may take to log in.
4. `Gateway` over `TokenVerifier` itself for two requests, as a check of the
   composition that the two refinements give.
