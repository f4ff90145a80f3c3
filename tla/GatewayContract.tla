--------------------------- MODULE GatewayContract ---------------------------
(***************************************************************************)
(* What the gateway promises the services behind it about a request: whom  *)
(* the request speaks for and what is told about that user follow from     *)
(* tokens that were good when they were looked at, and from nothing else.  *)
(* It says nothing about the order of the checks, about which token is     *)
(* tried first, or about the caches under them.                            *)
(***************************************************************************)
EXTENDS Provider, Authorization

CONSTANTS
    Requests,   \* requests to the gateway
    Hosts,      \* hosts that they are for, "" for none
    Config,     \* its configuration
    Issued      \* client credentials: [creds, audience, token] that the provider issues

VARIABLES
    asked,      \* request |-> what it asks for and the tokens it presents
    speaks,     \* request |-> the access token it is let in on, or None
    told,       \* request |-> the user information to forward: name |-> token it is from
    answer      \* request |-> its answer, or None

vars == <<asked, speaks, told, answer, world>>

\* The application of each host, and of a request.
Apps == [h \in Hosts |-> FindApplicationOrDefault(Config, h)]
Here(r) == Apps[asked[r].host]
Speaker(r) == IF speaks[r] = None THEN None ELSE Claims[speaks[r]]

-----------------------------------------------------------------------------

Init ==
    /\ speaks = [r \in Requests |-> None]
    /\ told = [r \in Requests |-> NoInfo]
    /\ answer = [r \in Requests |-> None]
    /\ \A k \in Kids : retired[k] = Absent

\* A machine that knows its client's secret is let in on the token that the
\* provider issues to that client for the application's audience,
LetMachineIn(r) ==
    /\ answer[r] = None /\ speaks[r] = None
    /\ \E i \in Issued :
        /\ i.creds = asked[r].basic /\ i.audience = Here(r).audience
        /\ Sound(Claims[i.token], Here(r).audience)
        /\ speaks' = [speaks EXCEPT ![r] = i.token]
    /\ UNCHANGED <<asked, told, answer, world>>

\* and a browser on its session, which says who the user is.
LetUserIn(r) ==
    /\ answer[r] = None /\ speaks[r] = None
    /\ asked[r].access # None
    /\ Sound(Claims[asked[r].access], Here(r).audience)
    /\ speaks' = [speaks EXCEPT ![r] = asked[r].access]
    /\ told' = [told EXCEPT ![r] = Add(NoInfo, {"sub"}, asked[r].access)]
    /\ UNCHANGED <<asked, answer, world>>

\* More is told about a user of whom an ID token for the application's client
\* speaks, and only what the application has asked for.
Introduce(r) ==
    /\ answer[r] = None /\ speaks[r] # None /\ "sub" \in DOMAIN told[r]
    /\ asked[r].id # None
    /\ Sound(Claims[asked[r].id], Here(r).client_id)
    /\ Claims[asked[r].id].sub = Claims[speaks[r]].sub
    /\ \E names \in SUBSET Here(r).claims : told' = [told EXCEPT ![r] = Add(@, names, asked[r].id)]
    /\ UNCHANGED <<asked, speaks, answer, world>>

\* A page is decided on for the user that the request speaks for; a granted one
\* goes to the service with the user's token and information.
Authorize(r) ==
    LET decision == PerformAuthorization(Here(r), asked[r].page, Speaker(r))
    IN  answer' = [answer EXCEPT ![r] =
            IF decision = "granted"
            THEN Grant(speaks[r], told[r])
            ELSE Reply(decision)]

\* Only a user signs out, or is told what the provider says of the user.
Signout(r) ==
    /\ speaks[r] # None
    /\ \E kind \in {"redirected", "signed_out", "signout_failed"} :
        answer' = [answer EXCEPT ![r] = Reply(kind)]

Userinfo(r) ==
    /\ speaks[r] # None
    /\ \E response \in {[Reply("userinfo") EXCEPT !.token = speaks[r]], Reply("userinfo_failed")} :
        answer' = [answer EXCEPT ![r] = response]

Refuse(r, kind) == answer' = [answer EXCEPT ![r] = Reply(kind)]

Answer(r) ==
    /\ answer[r] = None
    /\ CASE asked[r].path = "/authorize" ->
               IF asked[r].complete THEN Authorize(r) ELSE Refuse(r, "bad_request")
         [] asked[r].path = "/signout"   -> Signout(r) \/ Refuse(r, "unauthorized")
         [] asked[r].path = "/userinfo"  -> Userinfo(r) \/ Refuse(r, "unauthorized")
         [] OTHER -> answer' = [answer EXCEPT ![r] = Reply("public")]
    /\ UNCHANGED <<asked, speaks, told, world>>

Next ==
    \/ \E r \in Requests : LetMachineIn(r) \/ LetUserIn(r) \/ Introduce(r) \/ Answer(r)
    \/ WorldNext /\ UNCHANGED <<asked, speaks, told, answer>>

Spec == Init /\ [][Next]_vars
=============================================================================
