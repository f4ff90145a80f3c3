------------------------------- MODULE Gateway -------------------------------
(***************************************************************************)
(* A request on its way through the gateway: the router (main.rs), the     *)
(* middleware that finds out who is asking (middleware.rs), and the        *)
(* handlers of /authorize, /signout and /userinfo.                         *)
(*                                                                         *)
(* Every request is a task of its own; it is suspended in calls of         *)
(* Auth0Client, between which time passes and the provider changes its     *)
(* keys.  What requests share is in the client's caches, so verify_token   *)
(* is taken at its contract, which TokenVerifier implements, and           *)
(* client_credentials_exchange answers a token of that client for that     *)
(* audience or an error, as ExchangeContract has it, which                 *)
(* ClientCredentials implements.                                           *)
(***************************************************************************)
EXTENDS Provider, Authorization

CONSTANTS
    Requests,       \* requests to the gateway
    Contents,       \* what a request may be: [path, host, complete, page, basic, access, id]
    Hosts,          \* hosts that requests are for, "" for none
    Config,         \* the gateway's configuration
    Tokens,         \* tokens that are about: DOMAIN Claims
    Issued,         \* client credentials: [creds, audience, token] that the provider issues
    HeaderNames,    \* claim names that the name of an HTTP header may be made of
    Unprintable,    \* <<token, name>> of claims with a control character in the value
    InitialKids,    \* keys that the provider publishes from the start
    MaxTime         \* bound: the clock never passes it

Paths == {"/health", "/authorize", "/signin", "/signout", "/userinfo"}
\* host: x-forwarded-host, "" without one; complete: the four x-forwarded-*
\* headers of /authorize are there; basic: what the Basic header decodes to, and
\* access and id: the cookies, None for each that is not there.
ASSUME ContentsAssumption ==
    \A q \in Contents :
        /\ q.path \in Paths /\ q.host \in Hosts /\ q.complete \in BOOLEAN
        /\ q.complete => q.host # "" /\ q.page.host = q.host
        /\ q.access \in Tokens \cup {None} /\ q.id \in Tokens \cup {None}
ASSUME TokensAssumption ==
    /\ None \notin Tokens
    /\ Tokens = DOMAIN Claims
    /\ \A t \in Tokens : Claims[t] # None
    /\ \A i \in Issued : i.token \in Tokens
\* OpenID Connect requires a subject in an ID token.
ASSUME SubjectAssumption ==
    \A q \in Contents : q.id # None => Claims[q.id].sub # ""
ASSUME ClockAssumption == MaxTime \in Nat /\ InitialKids \subseteq Kids

VARIABLES
    asked,      \* request |-> its content
    stage,      \* request |-> the await it is suspended in, or how it ended
    issued,     \* request |-> the token that client_credentials_exchange answered
    outcome,    \* call of verify_token |-> its answer, or "pending"
    user,       \* request |-> the user: [token, info], Anonymous without a token
    answer      \* request |-> the response, or None

vars == <<asked, stage, issued, outcome, user, answer, world>>

Ended == {"answered", "dropped", "panicked"}
Stages == {"begin", "exchange", "basic", "access", "id", "handler", "provider"} \cup Ended

\* The application of each host, and of a request.
Apps == [h \in Hosts |-> FindApplicationOrDefault(Config, h)]
Here(r) == Apps[asked[r].host]

Anonymous == [token |-> None, info |-> NoInfo]
Authenticated(r) == user[r].token # None

\* The middleware's calls of verify_token, and their arguments.
Calls == Requests \X {"basic", "access", "id"}
args == [c \in Calls |->
    LET r == c[1]
    IN  CASE c[2] = "basic"  -> [tok |-> issued[r], aud |-> Here(r).audience]
          [] c[2] = "access" -> [tok |-> asked[r].access, aud |-> Here(r).audience]
          [] c[2] = "id"     -> [tok |-> asked[r].id, aud |-> Here(r).client_id]]

Verifier == INSTANCE VerifyContract WITH req <- args

-----------------------------------------------------------------------------
(* The middleware *)

Init ==
    /\ asked \in [Requests -> Contents]
    /\ stage = [r \in Requests |-> "begin"]
    /\ issued = [r \in Requests |-> None]
    /\ outcome = [c \in Calls |-> "pending"]
    /\ user = [r \in Requests |-> Anonymous]
    /\ answer = [r \in Requests |-> None]
    /\ now = 0
    /\ since = [k \in Kids |-> IF k \in InitialKids THEN 0 ELSE Absent]
    /\ retired = [k \in Kids |-> Absent]

Move(r, s) == stage' = [stage EXCEPT ![r] = s]

\* Where a request goes on that is not authenticated yet.
CookieStage(r) == IF asked[r].access = None THEN "handler" ELSE "access"

\* The router keeps the middleware away from /health; the middleware does
\* nothing without a host.
Begin(r) ==
    /\ stage[r] = "begin"
    /\ Move(r, CASE asked[r].path = "/health" \/ asked[r].host = "" -> "handler"
                 [] OTHER -> IF asked[r].basic # None THEN "exchange" ELSE CookieStage(r))
    /\ UNCHANGED <<asked, issued, outcome, user, answer, world>>

\* client_credentials_exchange: a token, or an error for the wrong credentials
\* and whenever the provider cannot be asked.
IssuedTo(r) ==
    {i.token : i \in {j \in Issued : j.creds = asked[r].basic /\ j.audience = Here(r).audience}}

FaultyExchange(r) ==
    /\ stage[r] = "exchange"
    /\ \E token \in IssuedTo(r) : issued' = [issued EXCEPT ![r] = token] /\ Move(r, "basic")
    /\ UNCHANGED <<asked, outcome, user, answer, world>>
Exchange(r) ==
    /\ stage[r] = "exchange"
    /\ \/ \E token \in IssuedTo(r) : issued' = [issued EXCEPT ![r] = token] /\ Move(r, "basic")
       \/ Move(r, CookieStage(r)) /\ UNCHANGED issued
    /\ UNCHANGED <<asked, outcome, user, answer, world>>

\* The answer of verify_token; a caller that goes away is Drop.
Verify(r, which) ==
    /\ stage[r] = which
    /\ UNCHANGED <<asked, issued, answer>>
    /\ Verifier!Answer(<<r, which>>)
    /\ outcome'[<<r, which>>] # "cancelled"

\* Credentials that do not help leave the cookies.
FaultyVerifyBasic(r) ==
    /\ Verify(r, "basic")
    /\ Move(r, "handler")
    /\ user' = IF outcome'[<<r, "basic">>] = "Jwt"
               THEN [user EXCEPT ![r] = [token |-> issued[r], info |-> NoInfo]] ELSE user
VerifyBasic(r) ==
    /\ Verify(r, "basic")
    /\ IF outcome'[<<r, "basic">>] = "Jwt"
       THEN /\ user' = [user EXCEPT ![r] = [token |-> issued[r], info |-> NoInfo]]
            /\ Move(r, "handler")
       ELSE Move(r, CookieStage(r)) /\ UNCHANGED user

VerifyAccess(r) ==
    /\ Verify(r, "access")
    /\ user' = IF outcome'[<<r, "access">>] = "Jwt"
               THEN [user EXCEPT ![r] = [token |-> asked[r].access,
                                         info |-> Add(NoInfo, {"sub"}, asked[r].access)]]
               ELSE user
    /\ Move(r, IF asked[r].id = None THEN "handler" ELSE "id")

\* The claims of an ID token are those of the user if it names the same subject
\* or none; get_claim knows the names that it tells.
SameSubject(r) == Claims[asked[r].id].sub \in {"", Claims[asked[r].access].sub}
FaultyClaimNames(r) == Claims[asked[r].id].tells
ClaimNames(r) == Here(r).claims \cap Claims[asked[r].id].tells

FaultyVerifyId(r) ==
    /\ Verify(r, "id")
    /\ user' = IF outcome'[<<r, "id">>] = "Jwt" /\ Authenticated(r)
               THEN [user EXCEPT ![r].info = Add(@, ClaimNames(r), asked[r].id)] ELSE user
    /\ Move(r, "handler")
VerifyId(r) ==
    /\ Verify(r, "id")
    /\ user' = IF outcome'[<<r, "id">>] = "Jwt" /\ Authenticated(r) /\ SameSubject(r)
               THEN [user EXCEPT ![r].info = Add(@, ClaimNames(r), asked[r].id)] ELSE user
    /\ Move(r, "handler")

-----------------------------------------------------------------------------
(* The handlers *)

Respond(r, response) ==
    /\ stage[r] = "handler"
    /\ answer' = [answer EXCEPT ![r] = response]
    /\ Move(r, "answered")
    /\ UNCHANGED <<asked, issued, outcome, user, world>>

\* "OK", and the callback, which LoginFlow models: neither looks at the user.
Public(r) == asked[r].path \in {"/health", "/signin"} /\ Respond(r, Reply("public"))

Speaker(r) == IF Authenticated(r) THEN Claims[user[r].token] ELSE None
Decision(r) == PerformAuthorization(Here(r), asked[r].page, Speaker(r))

\* The response that the user's token and information make, if there are any.
Granted(r) == Grant(user[r].token, user[r].info)

\* The builder takes a header for each of the claims: its name has the claim's
\* name in it, and a header's value has no control character.
Fits(r) ==
    \A name \in DOMAIN Granted(r).info :
        name \in HeaderNames /\ <<Granted(r).info[name], name>> \notin Unprintable

\* 400 for a missing x-forwarded-* header, then the decision.
Authorize(r) ==
    /\ asked[r].path = "/authorize"
    /\ IF ~asked[r].complete THEN Respond(r, Reply("bad_request"))
       ELSE IF Decision(r) # "granted" THEN Respond(r, Reply(Decision(r)))
       ELSE Fits(r) /\ Respond(r, Granted(r))

\* body(..).unwrap() of a builder that was given a name or a value that is none:
\* the task panics and the connection is closed without an answer.
Panic(r) ==
    /\ stage[r] = "handler" /\ asked[r].path = "/authorize"
    /\ asked[r].complete /\ Decision(r) = "granted"
    /\ ~Fits(r)
    /\ Move(r, "panicked")
    /\ UNCHANGED <<asked, issued, outcome, user, answer, world>>

\* /signout and /userinfo: 401 for nobody, the provider is asked for a user.
Unauthorized(r) ==
    /\ asked[r].path \in {"/signout", "/userinfo"} /\ ~Authenticated(r)
    /\ Respond(r, Reply("unauthorized"))

AskProvider(r) ==
    /\ stage[r] = "handler"
    /\ asked[r].path \in {"/signout", "/userinfo"} /\ Authenticated(r)
    /\ Move(r, "provider")
    /\ UNCHANGED <<asked, issued, outcome, user, answer, world>>

\* 307, 204 or 500 for a sign-out, all of which clear the cookies; what the
\* provider tells the bearer of the token, or 500.
ProviderAnswers(r) ==
    /\ stage[r] = "provider"
    /\ \E response \in
            IF asked[r].path = "/signout"
            THEN {Reply("redirected"), Reply("signed_out"), Reply("signout_failed")}
            ELSE {[Reply("userinfo") EXCEPT !.token = user[r].token], Reply("userinfo_failed")} :
        answer' = [answer EXCEPT ![r] = response]
    /\ Move(r, "answered")
    /\ UNCHANGED <<asked, issued, outcome, user, world>>

\* Traefik gives up: hyper drops the request's future.
Drop(r) ==
    /\ stage[r] \notin Ended
    /\ Move(r, "dropped")
    /\ UNCHANGED <<asked, issued, outcome, user, answer, world>>

\* Time passes and the provider changes its keys.
World ==
    /\ WorldNext /\ now' <= MaxTime
    /\ UNCHANGED <<asked, stage, issued, outcome, user, answer>>

Step(r) ==
    \/ Begin(r) \/ Exchange(r) \/ VerifyBasic(r) \/ VerifyAccess(r) \/ VerifyId(r)
    \/ Public(r) \/ Authorize(r) \/ Panic(r) \/ Unauthorized(r)
    \/ AskProvider(r) \/ ProviderAnswers(r)

Next == (\E r \in Requests : Step(r) \/ Drop(r)) \/ World

Spec == Init /\ [][Next]_vars

\* Every call of the client ends: verify_token and the exchange by the liveness
\* of their own modules, the others by reqwest's timeout of 30 seconds.
Fairness == \A r \in Requests : WF_vars(Step(r))
FairSpec == Spec /\ Fairness

-----------------------------------------------------------------------------
(* Properties *)

\* A user's token and what is told about the user.
UserOK(r) ==
    /\ user[r] = [token |-> user[r].token, info |-> user[r].info]
    /\ user[r].token \in Tokens \cup {None}
    /\ \E names \in SUBSET ({"sub"} \cup Here(r).claims) : user[r].info \in [names -> Tokens]

\* Every variable has its type; nothing is told of a user that the application
\* has not asked for, and a request is answered when it has gone all the way.
TypeOK ==
    /\ asked \in [Requests -> Contents]
    /\ stage \in [Requests -> Stages]
    /\ issued \in [Requests -> Tokens \cup {None}]
    /\ outcome \in [Calls -> Verifier!Outcomes \cup {"pending"}]
    /\ \A r \in Requests : UserOK(r) /\ (stage[r] # "answered" => answer[r] = None)

\* What a request is answered with and what is forwarded is as the contract has it.
Contract == INSTANCE GatewayContract WITH
    speaks <- [r \in Requests |-> user[r].token],
    told <- [r \in Requests |-> user[r].info]
ContractKept == Contract!Spec

\* Nobody is turned away or sent to log in whose session is good: an anonymous
\* answer to a request with a session means that verify_token has refused the
\* session, whatever came of the credentials in front of it.
NobodyLockedOut ==
    \A r \in Requests :
        stage[r] = "answered" /\ answer[r] \in {Reply("login"), Reply("unauthorized")}
                /\ asked[r].host # "" /\ asked[r].access # None =>
            outcome[<<r, "access">>] \in {"Empty", "Opaque", "Invalid"}

\* A request comes to an end, whatever credentials it presents and whatever the
\* provider answers.
EveryRequestEnds == \A r \in Requests : <>(stage[r] \in Ended)

-----------------------------------------------------------------------------
(* What the repository says and the code does not do *)

\* "Claims are forwarded as `x-forwardauth-<claim>' with `_' replaced by `-'"
\* (SKILL.md:249): a granted request is answered, with the user's claims.
ClaimsAreForwarded ==
    \A r \in Requests :
        stage[r] \in Ended \ {"dropped"} /\ asked[r].path = "/authorize" /\ asked[r].complete
                /\ Decision(r) = "granted" =>
            answer[r] = Granted(r)
=============================================================================
