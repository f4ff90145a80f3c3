------------------------------ MODULE LoginFlow ------------------------------
(***************************************************************************)
(* A browser, the gateway's handlers and the OIDC provider: the            *)
(* authorization-code login that GET /authorize starts and GET /signin     *)
(* finishes, the session cookies it leaves, and GET /signout.              *)
(*                                                                         *)
(* The gateway keeps no session: all the state of a login is in the        *)
(* browser's cookie jar, which its tabs share, and in the `state'          *)
(* parameter that goes through the provider and back.  Requests carry the  *)
(* cookies of the moment they are sent; a response's Set-Cookie takes      *)
(* effect when it arrives, and other tabs may act in between.              *)
(*                                                                         *)
(* verify_token is taken at its contract.  It accepts a token of the       *)
(* provider's for its audience only, and only with a key that the gateway  *)
(* knows; it may reject any, whenever it has to ask the provider and gets  *)
(* no answer.  A key that the provider has published becomes known at the  *)
(* latest when the cached JWKS has run out.                                *)
(***************************************************************************)
EXTENDS Authorization, FiniteSets

CONSTANTS
    Tabs,           \* the browser's tabs
    Hosts,          \* hosts served through the gateway
    Domains,        \* cookie domains
    Covers,         \* domain |-> the hosts its cookies are sent to
    Config,         \* the gateway's configuration
    Targets,        \* what a tab may ask for: [host, path, method, api]
    Grants,         \* audience |-> values of the permissions claim of its tokens
    Nonces,         \* enough of them never to run out
    MaxEvents,      \* bound: cookies that expire and signing keys that are replaced
    ProviderFails   \* the provider may refuse the user, or fail to redeem a code or to sign out

\* The application that a host resolves to.
Apps == [h \in Hosts |-> FindApplicationOrDefault(Config, h)]
App(h) == Apps[h]

Keys == 0 .. MaxEvents      \* the provider's signing keys, in their order
\* An access token, by what the middleware and /authorize look at.
Sessions ==
    UNION {[aud: {a}, permissions: Grants[a], key: Keys] :
               a \in {App(h).audience : h \in Hosts}}
\* A login under way, as the parameters of the authorize URL give it.
Flows == [nonce: Nonces, callback: Hosts,
          client: {App(h).client_id : h \in Hosts},
          aud: {App(h).audience : h \in Hosts}]
\* A login that a tab may come back to, and whether it has been completed.
Visits == [login: Flows, done: BOOLEAN]

ASSUME NoncesAssumption ==
    /\ IsFiniteSet(Tabs) /\ IsFiniteSet(Domains) /\ IsFiniteSet(Nonces)
    /\ Cardinality(Nonces) > 2 * Cardinality(Tabs) + Cardinality(Domains)
ASSUME CoversAssumption == Covers \in [Domains -> SUBSET Hosts]
ASSUME TargetsAssumption ==
    \A page \in Targets : page.host \in Hosts /\ [page EXCEPT !.method = "GET"] \in Targets
ASSUME BoundAssumption == MaxEvents \in Nat
\* validate() lets a configuration without any redirect-uri through, and then
\* every URL is whitelisted; the configurations modelled have one.
ASSUME RedirectUriAssumption ==
    \A h \in Hosts : App(h).redirect_uri \in Hosts
ASSUME NoneAssumption ==
    /\ "" \notin Hosts
    /\ None \notin Targets /\ None \notin Nonces /\ None \notin Sessions
    /\ None \notin Flows /\ None \notin Visits

VARIABLES
    phase,      \* tab |-> what it is doing
    target,     \* tab |-> the page it is after, None in a closed tab
    carried,    \* tab |-> the ACCESS_TOKEN cookie its request was sent with, while
                \*         the request lasts or the page it was granted is shown
    flow,       \* tab |-> the login it is in, or None
    past,       \* tab |-> the login in its history, until it starts another, or None
    nonces,     \* domain |-> the AUTH_NONCE cookie, or None
    sessions,   \* domain |-> the ACCESS_TOKEN cookie, or None
    key,        \* the key that the provider signs with
    trusted,    \* the keys in the gateway's JWKS, and of the claims it has cached
    signedOut,  \* hosts where no login has finished since the last sign-out
    events      \* cookies that have expired and keys that were replaced so far

jar == <<nonces, sessions>>
keys == <<key, trusted>>
vars == <<phase, target, carried, flow, past, jar, keys, signedOut, events>>

Resting == {"closed", "granted", "denied", "unauthorized", "failed"}
Active == {"visit", "authorizing", "login", "callback", "signin", "signout"}

Here(t) == App(target[t].host)
CallbackApp(t) == App(flow[t].callback)

\* The cookies that a request to h may be read as having: the header lists the
\* cookies of every covering domain and extract_cookie takes the first.
Sent(cookies, h) ==
    LET covering == {d \in Domains : h \in Covers[d] /\ cookies[d] # None}
    IN  IF covering = {} THEN {None} ELSE {cookies[d] : d \in covering}

\* Set-Cookie with Domain=d in a response from h: a browser ignores a domain
\* that does not cover the host.
SetCookie(cookies, d, h, value) ==
    IF d \in Domains /\ h \in Covers[d] THEN [cookies EXCEPT ![d] = value] ELSE cookies

\* The hosts that the cookies of an application are sent to.
Reach(app) == UNION {Covers[d] : d \in Domains \cap {app.token_cookie_domain}}

\* Uuid::new_v4: unlike every nonce that is still around when the tab has given
\* up the login in its history and the new AUTH_NONCE has replaced the old one.
NonceInUse(t) ==
    LET left == SetCookie(nonces, Here(t).token_cookie_domain, target[t].host, None)
    IN  {left[d] : d \in Domains}
            \cup {flow[u].nonce : u \in {v \in Tabs : flow[v] # None}}
            \cup {past[u].login.nonce : u \in {v \in Tabs \ {t} : past[v] # None}}
FreshNonce(t) == CHOOSE n \in Nonces : n \notin NonceInUse(t)

-----------------------------------------------------------------------------
(* The middleware and /authorize *)

\* The middleware's user.  A session that verify_token may accept here and now
\* may as well be rejected, for an error on the way to the provider (auth0.rs:436
\* and 443) or in another caller's verification (314): then nobody is there.
Acceptable(app, session) ==
    session # None /\ session.aud = app.audience /\ session.key \in trusted
Users(t) == {None} \cup {session \in {carried[t]} : Acceptable(Here(t), session)}

Decision(t, user) == PerformAuthorization(Here(t), target[t], user)

-----------------------------------------------------------------------------
(* The browser, the handlers and the provider *)

Init ==
    /\ phase = [t \in Tabs |-> "closed"]
    /\ target = [t \in Tabs |-> None]
    /\ carried = [t \in Tabs |-> None]
    /\ flow = [t \in Tabs |-> None]
    /\ past = [t \in Tabs |-> None]
    /\ key = 0
    /\ trusted = {0}
    /\ nonces = [d \in Domains |-> None]
    /\ sessions = [d \in Domains |-> None]
    /\ signedOut = Hosts
    /\ events = 0

Open(t) ==
    /\ phase[t] = "closed"
    /\ \E page \in Targets : target' = [target EXCEPT ![t] = page]
    /\ phase' = [phase EXCEPT ![t] = "visit"]
    /\ UNCHANGED <<carried, flow, past, jar, keys, signedOut, events>>

\* The browser asks for the page; Traefik forwards the request to /authorize.
Visit(t) ==
    /\ phase[t] = "visit"
    /\ \E session \in Sent(sessions, target[t].host) : carried' = [carried EXCEPT ![t] = session]
    /\ phase' = [phase EXCEPT ![t] = "authorizing"]
    /\ UNCHANGED <<target, flow, past, jar, keys, signedOut, events>>

\* GET /authorize answers 204, 403 or 401.
AuthorizeAnswer(t, user) ==
    /\ phase[t] = "authorizing" /\ Decision(t, user) # "login"
    /\ phase' = [phase EXCEPT ![t] = Decision(t, user)]
    /\ carried' = [carried EXCEPT ![t] = IF Decision(t, user) = "granted" THEN @ ELSE None]
    /\ UNCHANGED <<target, flow, past, jar, keys, signedOut, events>>

\* GET /authorize answers 307 to the provider and sets AUTH_NONCE.
FaultyAuthorizeRedirect(t, user) ==
    /\ phase[t] = "authorizing" /\ Decision(t, user) = "login"
    /\ LET app == Here(t)
       IN  /\ nonces' = SetCookie(nonces, app.token_cookie_domain, target[t].host, FreshNonce(t))
           /\ flow' = [flow EXCEPT ![t] = [nonce |-> FreshNonce(t), client |-> app.audience,
                           aud |-> app.client_id, callback |-> app.redirect_uri]]
    /\ phase' = [phase EXCEPT ![t] = "login"]
    /\ carried' = [carried EXCEPT ![t] = None]
    /\ past' = [past EXCEPT ![t] = None]
    /\ UNCHANGED <<target, sessions, keys, signedOut, events>>
AuthorizeRedirect(t, user) ==
    /\ phase[t] = "authorizing" /\ Decision(t, user) = "login"
    /\ LET app == Here(t)
       IN  /\ nonces' = SetCookie(nonces, app.token_cookie_domain, target[t].host, FreshNonce(t))
           /\ flow' = [flow EXCEPT ![t] = [nonce |-> FreshNonce(t), client |-> app.client_id,
                           aud |-> app.audience, callback |-> app.redirect_uri]]
    /\ phase' = [phase EXCEPT ![t] = "login"]
    /\ carried' = [carried EXCEPT ![t] = None]
    /\ past' = [past EXCEPT ![t] = None]
    /\ UNCHANGED <<target, sessions, keys, signedOut, events>>

\* The tab leaves its login, which stays in its history.
LeaveLogin(t, done) ==
    /\ flow' = [flow EXCEPT ![t] = None]
    /\ past' = [past EXCEPT ![t] = [login |-> flow[t], done |-> done]]

\* The user logs in and the provider redirects to the callback with a code.
LogIn(t) ==
    /\ phase[t] = "login"
    /\ phase' = [phase EXCEPT ![t] = "callback"]
    /\ UNCHANGED <<target, carried, flow, past, jar, keys, signedOut, events>>

\* The provider redirects with an error instead: 401, whatever the nonce is.
CallbackError(t) ==
    /\ phase[t] = "login" /\ ProviderFails
    /\ phase' = [phase EXCEPT ![t] = "failed"]
    /\ LeaveLogin(t, FALSE)
    /\ UNCHANGED <<target, carried, jar, keys, signedOut, events>>

\* GET /signin before the code exchange: the nonce of the state against the
\* cookie; without a match the browser goes back to the page (signin.rs:158-179),
\* by a redirect of this GET: whatever the method of the page was.
ReturnTo(page) == [page EXCEPT !.method = "GET"]

FaultyCallback(t) ==
    /\ phase[t] = "callback"
    /\ \E nonce \in Sent(nonces, flow[t].callback) :
        phase' = [phase EXCEPT ![t] = IF nonce = flow[t].nonce THEN "signin" ELSE "callback"]
    /\ UNCHANGED <<target, carried, flow, past, jar, keys, signedOut, events>>
UncheckedCallback(t) ==
    /\ phase[t] = "callback"
    /\ phase' = [phase EXCEPT ![t] = "signin"]
    /\ UNCHANGED <<target, carried, flow, past, jar, keys, signedOut, events>>
Callback(t) ==
    /\ phase[t] = "callback"
    /\ \E nonce \in Sent(nonces, flow[t].callback) :
        IF nonce = flow[t].nonce
        THEN phase' = [phase EXCEPT ![t] = "signin"] /\ UNCHANGED <<target, flow, past>>
        ELSE /\ phase' = [phase EXCEPT ![t] = "visit"]
             /\ target' = [target EXCEPT ![t] = ReturnTo(@)]
             /\ LeaveLogin(t, past[t] # None /\ past[t].done)
    /\ UNCHANGED <<carried, jar, keys, signedOut, events>>

\* The provider redeems the code for the client it was issued to: the session
\* cookies are set, AUTH_NONCE is cleared and the browser returns to the page.
Redeemable(t) == CallbackApp(t).client_id = flow[t].client

FaultySigninComplete(t) ==
    /\ phase[t] = "signin" /\ Redeemable(t)
    /\ \E permissions \in Grants[flow[t].aud] :
        sessions' = SetCookie(sessions, CallbackApp(t).token_cookie_domain, flow[t].callback,
                        [aud |-> flow[t].aud, permissions |-> permissions, key |-> key])
    /\ phase' = [phase EXCEPT ![t] = "visit"]
    /\ target' = [target EXCEPT ![t] = ReturnTo(@)]
    /\ LeaveLogin(t, TRUE)
    /\ signedOut' = signedOut \ Reach(CallbackApp(t))
    /\ UNCHANGED <<carried, nonces, keys, events>>
SigninComplete(t) ==
    /\ phase[t] = "signin" /\ Redeemable(t)
    /\ LET domain == CallbackApp(t).token_cookie_domain
           host == flow[t].callback
       IN  /\ \E permissions \in Grants[flow[t].aud] :
                sessions' = SetCookie(sessions, domain, host,
                                [aud |-> flow[t].aud, permissions |-> permissions, key |-> key])
           /\ nonces' = SetCookie(nonces, domain, host, None)
    /\ phase' = [phase EXCEPT ![t] = "visit"]
    /\ target' = [target EXCEPT ![t] = ReturnTo(@)]
    /\ LeaveLogin(t, TRUE)
    /\ signedOut' = signedOut \ Reach(CallbackApp(t))
    /\ UNCHANGED <<carried, keys, events>>

\* The exchange fails: 400, the tab shows an error and AUTH_NONCE stays
\* (signin.rs:200-206).  A code that was presented before may be spent.
SigninFail(t) ==
    /\ phase[t] = "signin"
    /\ ProviderFails \/ ~Redeemable(t) \/ past[t] # None
    /\ phase' = [phase EXCEPT ![t] = "failed"]
    /\ LeaveLogin(t, FALSE)
    /\ UNCHANGED <<target, carried, jar, keys, signedOut, events>>

\* The browser asks for the callback again while its first request is awaited,
\* whose answer it never sees.  Bound: once in a login.
Reload(t) ==
    /\ phase[t] = "signin" /\ past[t] = None
    /\ phase' = [phase EXCEPT ![t] = "callback"]
    /\ past' = [past EXCEPT ![t] = [login |-> flow[t], done |-> FALSE]]
    /\ UNCHANGED <<target, carried, flow, jar, keys, signedOut, events>>

\* It asks for the callback of the login in its history again, completed or not:
\* by a reload, by going back, or when it restores the tab.
Replay(t) ==
    /\ phase[t] \in Resting \ {"closed"} /\ past[t] # None
    /\ phase' = [phase EXCEPT ![t] = "callback"]
    /\ carried' = [carried EXCEPT ![t] = None]
    /\ flow' = [flow EXCEPT ![t] = past[t].login]
    /\ UNCHANGED <<target, past, jar, keys, signedOut, events>>

\* A tab that got its page asks for /signout there.
AskSignout(t) ==
    /\ phase[t] = "granted"
    /\ \E session \in Sent(sessions, target[t].host) : carried' = [carried EXCEPT ![t] = session]
    /\ phase' = [phase EXCEPT ![t] = "signout"]
    /\ UNCHANGED <<target, flow, past, jar, keys, signedOut, events>>

\* GET /signout answers nobody 401, and clears nothing (signout.rs:20-25).
SignoutRefused(t) ==
    /\ phase[t] = "signout" /\ None \in Users(t)
    /\ phase' = [phase EXCEPT ![t] = "unauthorized"]
    /\ carried' = [carried EXCEPT ![t] = None]
    /\ UNCHANGED <<target, flow, past, jar, keys, signedOut, events>>

\* It signs a user out at the provider, and clears the session cookies with each
\* of its answers: 307 and 204, after which the tab is done, and 500.
FaultySignout(t) ==
    /\ phase[t] = "signout" /\ Users(t) # {None}
    /\ signedOut' = signedOut \cup Reach(Here(t))
    /\ carried' = [carried EXCEPT ![t] = None]
    /\ \/ /\ sessions' = SetCookie(sessions, Here(t).token_cookie_domain, target[t].host, None)
          /\ phase' = [phase EXCEPT ![t] = "closed"]
          /\ target' = [target EXCEPT ![t] = None]
          /\ past' = [past EXCEPT ![t] = None]
       \/ /\ ProviderFails
          /\ phase' = [phase EXCEPT ![t] = "failed"]
          /\ UNCHANGED <<sessions, target, past>>
    /\ UNCHANGED <<flow, nonces, keys, events>>
Signout(t) ==
    /\ phase[t] = "signout" /\ Users(t) # {None}
    /\ sessions' = SetCookie(sessions, Here(t).token_cookie_domain, target[t].host, None)
    /\ signedOut' = signedOut \cup Reach(Here(t))
    /\ carried' = [carried EXCEPT ![t] = None]
    /\ \/ /\ phase' = [phase EXCEPT ![t] = "closed"]
          /\ target' = [target EXCEPT ![t] = None]
          /\ past' = [past EXCEPT ![t] = None]
       \/ /\ ProviderFails
          /\ phase' = [phase EXCEPT ![t] = "failed"]
          /\ UNCHANGED <<target, past>>
    /\ UNCHANGED <<flow, nonces, keys, events>>

\* A cookie reaches its Max-Age (nonce-max-age, or the token's expires_in).
Expire(d) ==
    /\ events < MaxEvents
    /\ \/ nonces[d] # None /\ nonces' = [nonces EXCEPT ![d] = None] /\ UNCHANGED sessions
       \/ sessions[d] # None /\ sessions' = [sessions EXCEPT ![d] = None] /\ UNCHANGED nonces
    /\ events' = events + 1
    /\ UNCHANGED <<phase, target, carried, flow, past, keys, signedOut>>

\* The provider signs with a new key from now on.
Rotate ==
    /\ events < MaxEvents
    /\ key' = key + 1
    /\ events' = events + 1
    /\ UNCHANGED <<phase, target, carried, flow, past, jar, trusted, signedOut>>

\* The cached JWKS has run out and is fetched again.
Learn ==
    /\ key \notin trusted
    /\ trusted' = trusted \cup {key}
    /\ UNCHANGED <<phase, target, carried, flow, past, jar, key, signedOut, events>>

\* The last claims that were verified with a withdrawn key leave the cache.
Forget(k) ==
    /\ k \in trusted \ {key} /\ key \in trusted
    /\ trusted' = trusted \ {k}
    /\ UNCHANGED <<phase, target, carried, flow, past, jar, key, signedOut, events>>

\* Every tab rests, on its page or on an error.
Finished ==
    /\ \A t \in Tabs : phase[t] \in Resting \ {"closed"}
    /\ UNCHANGED vars

Step(t) ==
    \/ Visit(t)
    \/ \E user \in Users(t) : AuthorizeAnswer(t, user) \/ AuthorizeRedirect(t, user)
    \/ LogIn(t) \/ CallbackError(t) \/ Callback(t) \/ SigninComplete(t) \/ SigninFail(t)
    \/ SignoutRefused(t) \/ Signout(t)

Next ==
    \/ \E t \in Tabs : Open(t) \/ Step(t) \/ Reload(t) \/ Replay(t) \/ AskSignout(t)
    \/ \E d \in Domains : Expire(d)
    \/ Rotate \/ Learn \/ \E k \in Keys : Forget(k)
    \/ Finished

Spec == Init /\ [][Next]_vars

\* The browser follows redirects, the gateway answers, and a user who is shown
\* the login page logs in; nobody has to open a tab, to reload or to sign out.
\* The cached JWKS runs out after an hour.  And an outage ends: verify_token does
\* not reject a good session every time that it is asked.
IsKnown(t) == \E user \in Users(t) \ {None} : AuthorizeAnswer(t, user)
Fairness == WF_vars(Learn) /\ \A t \in Tabs : WF_vars(Step(t)) /\ SF_vars(IsKnown(t))
FairSpec == Spec /\ Fairness

-----------------------------------------------------------------------------
(* Properties *)

TabsOK ==
    /\ phase \in [Tabs -> Resting \cup Active]
    /\ target \in [Tabs -> Targets \cup {None}]
    /\ \A t \in Tabs : target[t] = None <=> phase[t] = "closed"
    /\ carried \in [Tabs -> Sessions \cup {None}]
    /\ \A t \in Tabs : carried[t] # None => phase[t] \in {"authorizing", "granted", "signout"}
    /\ flow \in [Tabs -> Flows \cup {None}]
    /\ \A t \in Tabs : flow[t] # None <=> phase[t] \in {"login", "callback", "signin"}
    /\ past \in [Tabs -> Visits \cup {None}]
    /\ \A t \in Tabs : flow[t] # None /\ past[t] # None => past[t].login = flow[t]
JarOK ==
    /\ nonces \in [Domains -> Nonces \cup {None}]
    /\ sessions \in [Domains -> Sessions \cup {None}]
KeysOK == events \in 0 .. MaxEvents /\ key \in 0 .. events /\ trusted \subseteq 0 .. key

\* Every variable has its type: the authorize URL names a client and an audience;
\* a tab keeps the login it is in, and no other one, for as long as it is in it.
TypeOK == TabsOK /\ JarOK /\ KeysOK /\ signedOut \subseteq Hosts

\* A page whose method its application restricts is only shown on a session for
\* that application's own audience and with all the permissions it requires,
\* whichever application's callback obtained the session, and although all of
\* them share one cookie.
GrantsAreEarned ==
    \A t \in Tabs :
        LET app == Here(t)
        IN  phase[t] = "granted" /\ target[t].method \in app.restricted_methods
                /\ target[t].path # "callback" =>
            /\ carried[t] # None
            /\ carried[t].aud = app.audience
            /\ \A p \in app.required_permissions :
                carried[t].permissions # NoClaim /\ p \in carried[t].permissions

\* From a sign-out to the next completed login, no request to a host that the
\* cookies of the signed-out application are sent to carries a session.
SignedOutMeansOut == \A h \in signedOut : Sent(sessions, h) = {None}

\* The code of a login that has been completed is never presented to the
\* provider again, whichever tab asks for its callback: AUTH_NONCE went with the
\* response that completed it.
CodesAreSpentOnce ==
    \A t, u \in Tabs :
        phase[t] = "signin" /\ past[u] # None /\ past[u].done =>
            flow[t].nonce # past[u].login.nonce

\* To a browser, logging in is what LoginContract says, for all that a login
\* leaves with it and that any of its tabs may repeat: a login is open from its
\* redirect to its completion, through failed and repeated callbacks, for as long
\* as a tab is in it or may come back to it.
Contract == INSTANCE LoginContract WITH
    view <- [t \in Tabs |->
                IF phase[t] \in {"authorizing", "granted", "signout"}
                THEN [page |-> target[t], session |-> carried[t], stage |-> phase[t]]
                ELSE [page |-> None, session |-> None, stage |-> "away"]],
    open <- {flow[t] : t \in {u \in Tabs : flow[u] # None /\ past[u] = None}}
            \cup {past[t].login : t \in {u \in Tabs : past[u] # None /\ ~past[u].done}}
ContractKept == Contract!Spec

\* A tab gets an answer once the other tabs leave it alone: from then on nobody
\* overwrites or clears its nonce, and a session signed with a key that the
\* gateway does not know yet, or that it cannot verify for an outage, sends it
\* back to log in only until the JWKS is fetched again and the outage ends.
Undisturbed(t) == \A u \in Tabs \ {t} : phase[u] \in Resting
GetsInAlone ==
    \A t \in Tabs : (<>[]Undisturbed(t)) => []<>(phase[t] \in Resting)

-----------------------------------------------------------------------------
(* What the repository says and the code does not do *)

\* "Nonce mismatch ... user stuck | Fixed: redirects to origin URL to restart
\* login" (SKILL.md:234, #142): of the tabs that are after a page, one gets
\* there or to an error.  Two tabs can restart each other for ever, each
\* overwriting the nonce that the other is about to be checked against.
NobodyStuck == []<>(\E t \in Tabs : phase[t] \in Resting)

\* "Any omitted field in an apps entry is inherited from default" (SKILL.md:138):
\* a browser is sent to log in only for a method that the application, or
\* default in its place, restricts.
Restricted(h) ==
    LET matching == {i \in DOMAIN Config.apps : Config.apps[i].name = h}
        given == {i \in matching : "restricted_methods" \in DOMAIN Config.apps[i].entry}
    IN  IF given = {} THEN Config.default.restricted_methods
        ELSE UNION {Config.apps[i].entry.restricted_methods : i \in given}
OmittedIsInherited ==
    \A t \in Tabs : phase[t] = "login" => target[t].method \in Restricted(target[t].host)
=============================================================================
