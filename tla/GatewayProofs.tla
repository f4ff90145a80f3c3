---------------------------- MODULE GatewayProofs ----------------------------
(***************************************************************************)
(* What the gateway answers and forwards, for every configuration, every   *)
(* set of tokens and credentials, every number of requests and any clock.  *)
(***************************************************************************)
EXTENDS Gateway, TLAPS

-----------------------------------------------------------------------------
(* The contract's operators are the gateway's *)

\* The same application answers for a host.
LEMMA SameHere == \A r : Contract!Here(r) = Here(r)
<1>1. \A h : Contract!FindApplicationOrDefault(Config, h) = FindApplicationOrDefault(Config, h)
  BY DEF Contract!FindApplicationOrDefault, FindApplicationOrDefault, Contract!Inherit, Inherit,
    Contract!Deserialize, Deserialize, Contract!SerdeDefault, SerdeDefault, Contract!Nothing,
    Nothing, Contract!Fields, Fields, Contract!ListFields, ListFields
<1> QED
  BY <1>1 DEF Contract!Here, Here, Contract!Apps, Apps

\* The same tokens are good.
LEMMA SameSound ==
    ASSUME NEW token, NEW aud
    PROVE  /\ Verifier!Sound(token, aud) <=> Sound(token, aud)
           /\ Contract!Sound(token, aud) <=> Sound(token, aud)
BY DEF Verifier!Sound, Contract!Sound, Sound, Verifier!Trusted, Contract!Trusted, Trusted,
  Verifier!Absent, Contract!Absent, Absent

-----------------------------------------------------------------------------
(* How far a request has come *)

\* A request is not authenticated before a token of its own is verified, it
\* waits for what it presents, and it is let in on it.
Progress(r) ==
    /\ stage[r] \in {"begin", "exchange", "basic", "access"} => user[r] = Anonymous
    /\ stage[r] = "basic" => issued[r] \in IssuedTo(r)
    /\ stage[r] = "access" => asked[r].access \in Tokens
    /\ stage[r] = "id" =>
        /\ asked[r].id \in Tokens /\ asked[r].access \in Tokens
        /\ Authenticated(r) => user[r].token = asked[r].access /\ "sub" \in DOMAIN user[r].info
    /\ stage[r] = "provider" => Authenticated(r) /\ asked[r].path \in {"/signout", "/userinfo"}
    /\ stage[r] # "answered" => answer[r] = None

GInv ==
    /\ asked \in [Requests -> Contents]
    /\ stage \in [Requests -> Stages]
    /\ issued \in [Requests -> Tokens \cup {None}]
    /\ outcome \in [Calls -> Verifier!Outcomes \cup {"pending"}]
    /\ user = [r \in Requests |-> user[r]]
    /\ answer = [r \in Requests |-> answer[r]]
    /\ \A r \in Requests : UserOK(r) /\ Progress(r)

\* A page is decided on alike.
LEMMA SameDecision ==
    ASSUME GInv, NEW r \in Requests
    PROVE  Contract!PerformAuthorization(Contract!Here(r), asked[r].page, Contract!Speaker(r))
             = Decision(r)
<1>1. Contract!Speaker(r) = Speaker(r)
  BY TokensAssumption DEF Contract!Speaker, Speaker, Authenticated
<1> QED
  BY <1>1, SameHere DEF Decision, Contract!PerformAuthorization, PerformAuthorization,
    Contract!IsCallback, IsCallback, Contract!Permitted, Permitted

\* A user as the invariant has it.
LEMMA UserType ==
    ASSUME NEW r \in Requests, NEW t \in Tokens \cup {None},
           NEW names \in SUBSET ({"sub"} \cup Here(r)'.claims), NEW info \in [names -> Tokens],
           user'[r] = [token |-> t, info |-> info]
    PROVE  UserOK(r)'
BY DEF UserOK

\* What verify_token answers, and that nothing else happens meanwhile.
LEMMA VerifyAnswers ==
    ASSUME GInv, NEW r \in Requests, NEW which \in {"basic", "access", "id"}, Verify(r, which)
    PROVE  /\ stage[r] = which
           /\ UNCHANGED <<asked, issued, answer, now, since, retired>>
           /\ outcome' \in [Calls -> Verifier!Outcomes \cup {"pending"}]
           /\ outcome'[<<r, which>>] \in {"Empty", "Opaque", "Invalid", "Jwt"}
           /\ \A c \in Calls : c # <<r, which>> => outcome'[c] = outcome[c]
           /\ outcome'[<<r, which>>] = "Jwt" =>
                Sound(Claims[args[<<r, which>>].tok], args[<<r, which>>].aud)
<1>1. <<r, which>> \in Calls
  BY DEF Calls
<1>2. PICK o \in Verifier!Outcomes :
        /\ Verifier!Permitted(<<r, which>>, o)
        /\ outcome' = [outcome EXCEPT ![<<r, which>>] = o]
  BY DEF Verify, Verifier!Answer
<1>3. UNCHANGED <<asked, issued, answer, now, since, retired>> /\ stage[r] = which
  BY DEF Verify, Verifier!Answer, Verifier!world
<1>4. outcome'[<<r, which>>] = o /\ o # "cancelled"
  BY <1>1, <1>2 DEF GInv, Verify
<1>5. o = "Jwt" => Sound(Claims[args[<<r, which>>].tok], args[<<r, which>>].aud)
  <2>1. ASSUME o = "Jwt"
        PROVE  Verifier!Sound(Claims[args[<<r, which>>].tok], args[<<r, which>>].aud)
    <3>1. Verifier!Permitted(<<r, which>>, "Jwt")
      BY <1>2, <2>1
    <3> QED
      BY <3>1, Zenon DEF Verifier!Permitted, Verifier!Token
  <2> QED
    BY <2>1, SameSound, Zenon
<1> QED
  BY <1>1, <1>2, <1>3, <1>4, <1>5 DEF GInv, Verifier!Outcomes

\* A step of one request keeps the invariant if it does so for that request.
LEMMA OwnSteps ==
    ASSUME GInv, NEW r \in Requests, UNCHANGED asked,
           NEW s \in Stages, stage' = [stage EXCEPT ![r] = s],
           NEW t \in Tokens \cup {None}, issued' = [issued EXCEPT ![r] = t],
           outcome' \in [Calls -> Verifier!Outcomes \cup {"pending"}],
           NEW u, user' = [user EXCEPT ![r] = u],
           NEW a, answer' = [answer EXCEPT ![r] = a],
           UserOK(r)', Progress(r)'
    PROVE  GInv'
<1>1. ASSUME NEW q \in Requests, q # r PROVE UserOK(q)' /\ Progress(q)'
  <2>1. /\ stage'[q] = stage[q] /\ issued'[q] = issued[q] /\ user'[q] = user[q]
        /\ answer'[q] = answer[q] /\ Here(q)' = Here(q) /\ IssuedTo(q)' = IssuedTo(q)
    BY <1>1 DEF GInv, Here, IssuedTo
  <2>2. UserOK(q) /\ Progress(q)
    BY DEF GInv
  <2>3. UserOK(q)'
    BY <2>1, <2>2 DEF UserOK
  <2>4. Progress(q)'
    BY <2>1, <2>2 DEF Progress, Authenticated
  <2> QED
    BY <2>3, <2>4
<1>2. \A q \in Requests : UserOK(q)' /\ Progress(q)'
  BY <1>1
<1>3. /\ (asked \in [Requests -> Contents])' /\ (stage \in [Requests -> Stages])'
      /\ (issued \in [Requests -> Tokens \cup {None}])'
      /\ (user = [q \in Requests |-> user[q]])' /\ (answer = [q \in Requests |-> answer[q]])'
  BY DEF GInv
<1> QED
  BY <1>2, <1>3 DEF GInv

\* The middleware brings a request to its handler as the invariant has it.
LEMMA MiddlewareKept ==
    ASSUME GInv, NEW r \in Requests,
           Begin(r) \/ Exchange(r) \/ VerifyBasic(r) \/ VerifyAccess(r) \/ VerifyId(r)
    PROVE  GInv'
<1> USE DEF Stages, Ended
<1>0. /\ UserOK(r) /\ Progress(r) /\ asked[r] \in Contents
      /\ asked[r].access \in Tokens \cup {None} /\ asked[r].id \in Tokens \cup {None}
      /\ issued[r] \in Tokens \cup {None}
  BY ContentsAssumption DEF GInv
<1>1. CASE Begin(r)
  <2>1. PICK s \in {"handler", "exchange", "access"} :
          /\ stage' = [stage EXCEPT ![r] = s]
          /\ s = "access" => asked[r].access # None
    BY <1>1 DEF Begin, Move, CookieStage
  <2>2. /\ UNCHANGED <<asked, issued, outcome, user, answer>> /\ stage[r] = "begin"
        /\ stage'[r] = s
    BY <1>1, <2>1 DEF Begin, GInv
  <2>3. UserOK(r)' /\ Progress(r)'
    BY <1>0, <2>1, <2>2 DEF UserOK, Progress, Authenticated, Here
  <2> QED
    BY <2>1, <2>2, <2>3, <1>0, OwnSteps DEF GInv
<1>2. CASE Exchange(r)
  <2>1. /\ UNCHANGED <<asked, outcome, user, answer>> /\ stage[r] = "exchange"
        /\ Here(r)' = Here(r) /\ IssuedTo(r)' = IssuedTo(r)
    BY <1>2 DEF Exchange, Here, IssuedTo
  <2>2. ASSUME NEW token \in IssuedTo(r), issued' = [issued EXCEPT ![r] = token],
               stage' = [stage EXCEPT ![r] = "basic"]
        PROVE  GInv'
    <3>1. token \in Tokens
      BY TokensAssumption DEF IssuedTo
    <3>2. issued'[r] = token /\ stage'[r] = "basic"
      BY <2>2 DEF GInv
    <3>3. UserOK(r)' /\ Progress(r)'
      BY <1>0, <2>1, <3>2 DEF UserOK, Progress, Authenticated
    <3> QED
      BY <2>1, <2>2, <3>1, <3>3, OwnSteps DEF GInv
  <2>3. ASSUME UNCHANGED issued, stage' = [stage EXCEPT ![r] = CookieStage(r)]
        PROVE  GInv'
    <3>1. stage'[r] = CookieStage(r) /\ CookieStage(r) \in {"handler", "access"}
          /\ (CookieStage(r) = "access" => asked[r].access # None)
      BY <2>3 DEF GInv, CookieStage
    <3>2. UserOK(r)' /\ Progress(r)'
      BY <1>0, <2>1, <2>3, <3>1 DEF UserOK, Progress, Authenticated
    <3> QED
      BY <1>0, <2>1, <2>3, <3>1, <3>2, OwnSteps DEF GInv
  <2> QED
    BY <1>2, <2>2, <2>3 DEF Exchange, Move
<1>3. CASE VerifyBasic(r)
  <2>1. /\ Verify(r, "basic") /\ stage[r] = "basic" /\ UNCHANGED <<asked, issued, answer>>
        /\ outcome' \in [Calls -> Verifier!Outcomes \cup {"pending"}]
        /\ Here(r)' = Here(r)
    BY <1>3, VerifyAnswers DEF VerifyBasic, Here
  <2>2. issued[r] \in Tokens
    BY <1>0, <2>1, TokensAssumption DEF Progress, IssuedTo
  <2>3. ASSUME user' = [user EXCEPT ![r] = [token |-> issued[r], info |-> NoInfo]],
               stage' = [stage EXCEPT ![r] = "handler"]
        PROVE  GInv'
    <3>1. user'[r] = [token |-> issued[r], info |-> NoInfo] /\ stage'[r] = "handler"
      BY <2>3 DEF GInv
    <3>2. NoInfo \in [{} -> Tokens]
      BY DEF NoInfo
    <3>3. UserOK(r)'
      BY <2>2, <3>1, <3>2, UserType
    <3>4. Progress(r)'
      BY <1>0, <2>1, <3>1 DEF Progress, Authenticated
    <3> QED
      BY <1>0, <2>1, <2>3, <3>3, <3>4, OwnSteps DEF GInv
  <2>4. ASSUME UNCHANGED user, stage' = [stage EXCEPT ![r] = CookieStage(r)]
        PROVE  GInv'
    <3>1. stage'[r] = CookieStage(r) /\ CookieStage(r) \in {"handler", "access"}
          /\ (CookieStage(r) = "access" => asked[r].access # None)
      BY <2>4 DEF GInv, CookieStage
    <3>2. UserOK(r)' /\ Progress(r)'
      BY <1>0, <2>1, <2>4, <3>1 DEF UserOK, Progress, Authenticated
    <3> QED
      BY <1>0, <2>1, <2>4, <3>1, <3>2, OwnSteps DEF GInv
  <2> QED
    BY <1>3, <2>3, <2>4 DEF VerifyBasic, Move
<1>4. CASE VerifyAccess(r)
  <2> DEFINE u == [token |-> asked[r].access, info |-> Add(NoInfo, {"sub"}, asked[r].access)]
             s == IF asked[r].id = None THEN "handler" ELSE "id"
  <2>1. /\ Verify(r, "access") /\ stage[r] = "access" /\ UNCHANGED <<asked, issued, answer>>
        /\ outcome' \in [Calls -> Verifier!Outcomes \cup {"pending"}]
        /\ Here(r)' = Here(r)
    BY <1>4, VerifyAnswers DEF VerifyAccess, Here
  <2>2. asked[r].access \in Tokens /\ user[r] = Anonymous /\ answer[r] = None
    BY <1>0, <2>1 DEF Progress, Authenticated
  <2>3. stage' = [stage EXCEPT ![r] = s] /\ stage'[r] = s
    BY <1>4 DEF VerifyAccess, Move, GInv
  <2>4. ASSUME NEW v \in {u, Anonymous}, user' = [user EXCEPT ![r] = v] PROVE GInv'
    <3>1. user'[r] = v
      BY <2>4 DEF GInv
    <3>2. u.info \in [{"sub"} -> Tokens] /\ NoInfo \in [{} -> Tokens]
      BY <2>2 DEF Add, NoInfo
    <3>3. UserOK(r)'
      <4>1. CASE v = u
        BY <2>2, <3>1, <3>2, <4>1, UserType
      <4>2. CASE v = Anonymous
        BY <3>1, <3>2, <4>2, UserType DEF Anonymous
      <4> QED
        BY <4>1, <4>2
    <3>4. Authenticated(r)' => user'[r].token = asked[r].access /\ "sub" \in DOMAIN user'[r].info
      <4>1. CASE v = u
        BY <3>1, <3>2, <4>1
      <4>2. CASE v = Anonymous
        BY <3>1, <4>2 DEF Anonymous, Authenticated
      <4> QED
        BY <4>1, <4>2
    <3>5. Progress(r)'
      BY <1>0, <2>1, <2>2, <2>3, <3>4 DEF Progress
    <3> QED
      BY <1>0, <2>1, <2>3, <2>4, <3>3, <3>5, OwnSteps DEF GInv
  <2>5. user' = [user EXCEPT ![r] = u] \/ user' = [user EXCEPT ![r] = Anonymous]
    BY <1>4, <2>2 DEF VerifyAccess, GInv
  <2> QED
    BY <2>4, <2>5
<1>5. CASE VerifyId(r)
  <2> DEFINE info == Add(user[r].info, ClaimNames(r), asked[r].id)
  <2>1. /\ Verify(r, "id") /\ stage[r] = "id" /\ UNCHANGED <<asked, issued, answer>>
        /\ outcome' \in [Calls -> Verifier!Outcomes \cup {"pending"}]
        /\ Here(r)' = Here(r)
    BY <1>5, VerifyAnswers DEF VerifyId, Here
  <2>2. asked[r].id \in Tokens /\ answer[r] = None
    BY <1>0, <2>1 DEF Progress, Authenticated
  <2>3. stage' = [stage EXCEPT ![r] = "handler"] /\ stage'[r] = "handler"
    BY <1>5 DEF VerifyId, Move, GInv
  <2>4. Progress(r)'
    BY <2>1, <2>2, <2>3 DEF Progress, Authenticated
  <2>5. ASSUME user' = [user EXCEPT ![r].info = info] PROVE GInv'
    <3>0. [user[r] EXCEPT !.info = info] = [token |-> user[r].token, info |-> info]
      BY <1>0, <2>5 DEF UserOK
    <3>1. user'[r] = [token |-> user[r].token, info |-> info]
      BY <2>5, <3>0 DEF GInv
    <3>2. PICK names \in SUBSET ({"sub"} \cup Here(r).claims) : user[r].info \in [names -> Tokens]
      BY <1>0, <2>5 DEF UserOK
    <3>3. ClaimNames(r) \in SUBSET ({"sub"} \cup Here(r).claims)
      BY DEF ClaimNames
    <3>4. /\ info \in [names \cup ClaimNames(r) -> Tokens]
          /\ names \cup ClaimNames(r) \in SUBSET ({"sub"} \cup Here(r).claims)
      BY <2>2, <3>2, <3>3 DEF Add
    <3> HIDE DEF info
    <3>5. UserOK(r)'
      BY <1>0, <2>1, <2>5, <3>1, <3>4 DEF UserOK
    <3>6. user' = [user EXCEPT ![r] = [token |-> user[r].token, info |-> info]]
      BY <2>5, <3>0
    <3> QED
      BY <1>0, <2>1, <2>3, <2>4, <3>5, <3>6, OwnSteps DEF GInv
  <2>6. ASSUME UNCHANGED user PROVE GInv'
    <3>1. UserOK(r)'
      BY <1>0, <2>1, <2>6 DEF UserOK
    <3> QED
      BY <1>0, <2>1, <2>3, <2>4, <2>6, <3>1, OwnSteps DEF GInv
  <2> QED
    BY <1>5, <2>5, <2>6 DEF VerifyId
<1> QED
  BY <1>1, <1>2, <1>3, <1>4, <1>5

\* A handler answers what it is asked once, and changes nothing else.
LEMMA HandlersKept ==
    ASSUME GInv, NEW r \in Requests,
           Public(r) \/ Authorize(r) \/ Panic(r) \/ Unauthorized(r) \/ AskProvider(r)
             \/ ProviderAnswers(r) \/ Drop(r)
    PROVE  GInv'
<1>1. /\ UNCHANGED <<asked, issued, outcome, user>> /\ Here(r)' = Here(r)
      /\ issued[r] \in Tokens \cup {None} /\ UserOK(r) /\ Progress(r)
  BY DEF GInv, Public, Authorize, Respond, Panic, Unauthorized, AskProvider, ProviderAnswers, Drop,
    Here
<1>2. UserOK(r)'
  BY <1>1 DEF UserOK
<1>0. /\ issued' = [issued EXCEPT ![r] = issued[r]] /\ user' = [user EXCEPT ![r] = user[r]]
      /\ outcome' \in [Calls -> Verifier!Outcomes \cup {"pending"}]
      /\ (UNCHANGED answer => answer' = [answer EXCEPT ![r] = answer[r]])
  BY <1>1 DEF GInv
<1>3. CASE AskProvider(r)
  <2>1. /\ stage' = [stage EXCEPT ![r] = "provider"] /\ stage'[r] = "provider"
        /\ UNCHANGED answer /\ stage[r] = "handler"
        /\ Authenticated(r) /\ asked[r].path \in {"/signout", "/userinfo"}
    BY <1>3 DEF AskProvider, Move, GInv
  <2>2. Progress(r)'
    BY <1>1, <2>1 DEF Progress, Authenticated
  <2> QED
    BY <1>0, <1>1, <1>2, <2>1, <2>2, OwnSteps DEF Stages
<1>4. CASE Panic(r) \/ Drop(r)
  <2>1. PICK s \in {"panicked", "dropped"} : stage' = [stage EXCEPT ![r] = s]
    BY <1>4 DEF Panic, Drop, Move
  <2>2. UNCHANGED answer /\ stage[r] # "answered" /\ stage'[r] = s /\ s \in Stages
    BY <1>4, <2>1 DEF Panic, Drop, GInv, Stages, Ended
  <2>3. Progress(r)'
    BY <1>1, <2>1, <2>2 DEF Progress
  <2> QED
    BY <1>0, <1>1, <1>2, <2>1, <2>2, <2>3, OwnSteps
<1>5. CASE Public(r) \/ Authorize(r) \/ Unauthorized(r) \/ ProviderAnswers(r)
  <2>1. /\ stage' = [stage EXCEPT ![r] = "answered"] /\ stage'[r] = "answered"
        /\ \E a : answer' = [answer EXCEPT ![r] = a]
    BY <1>5 DEF Public, Authorize, Unauthorized, ProviderAnswers, Respond, Move, GInv
  <2>2. PICK a : answer' = [answer EXCEPT ![r] = a]
    BY <2>1
  <2>3. Progress(r)'
    BY <2>1 DEF Progress
  <2>4. "answered" \in Stages
    BY DEF Stages, Ended
  <2> QED
    BY <1>0, <1>1, <1>2, <2>1, <2>2, <2>3, <2>4, OwnSteps
<1> QED
  BY <1>3, <1>4, <1>5

\* The invariant is inductive.
LEMMA GInvHolds == Spec => []GInv
<1>1. Init => GInv
  <2> SUFFICES ASSUME Init PROVE GInv
    OBVIOUS
  <2>1. \A r \in Requests : UserOK(r)
    <3> SUFFICES ASSUME NEW r \in Requests PROVE UserOK(r)
      OBVIOUS
    <3>1. user[r] = Anonymous /\ NoInfo \in [{} -> Tokens]
      BY DEF Init, NoInfo
    <3> QED
      BY <3>1 DEF UserOK, Anonymous
  <2>2. \A r \in Requests : Progress(r)
    BY DEF Init, Progress
  <2> QED
    BY <2>1, <2>2 DEF Init, GInv, Stages
<1>2. GInv /\ [Next]_vars => GInv'
  <2> SUFFICES ASSUME GInv, [Next]_vars PROVE GInv'
    OBVIOUS
  <2>1. CASE \E r \in Requests : Step(r) \/ Drop(r)
    BY <2>1, MiddlewareKept, HandlersKept DEF Step
  <2>2. CASE World \/ UNCHANGED vars
    <3>1. UNCHANGED <<asked, stage, issued, outcome, user, answer>>
      BY <2>2 DEF World, vars
    <3>2. \A r : Here(r)' = Here(r) /\ IssuedTo(r)' = IssuedTo(r)
      BY <3>1 DEF Here, IssuedTo
    <3>3. \A r \in Requests : UserOK(r)' /\ Progress(r)'
      BY <3>1, <3>2 DEF GInv, UserOK, Progress, Authenticated
    <3> QED
      BY <3>1, <3>3 DEF GInv
  <2> QED
    BY <2>1, <2>2 DEF Next
<1> QED
  BY <1>1, <1>2, PTL DEF Spec

\* Every variable of the gateway keeps its type; nothing is told of a user but
\* under the names that the application asks for.
THEOREM TypeCorrect == Spec => []TypeOK
<1>1. GInv => TypeOK
  BY DEF GInv, TypeOK, Progress, Stages, Ended
<1> QED
  BY <1>1, GInvHolds, PTL

-----------------------------------------------------------------------------
(* Nobody is locked out *)

\* Who has gone past the cookies as nobody has had the session refused.
Tried(r) ==
    /\ /\ stage[r] \in {"id", "handler", "provider", "answered"}
       /\ ~Authenticated(r)
       /\ asked[r].path # "/health" /\ asked[r].host # "" /\ asked[r].access # None
       => outcome[<<r, "access">>] \in {"Empty", "Opaque", "Invalid"}
    /\ stage[r] = "answered" /\ answer[r] \in {Reply("login"), Reply("unauthorized")} =>
        ~Authenticated(r) /\ asked[r].path # "/health"

\* The page is asked about, or the user's own endpoint, for an anonymous user.
LEMMA AnonymousAnswers ==
    ASSUME GInv, NEW r \in Requests, stage'[r] = "answered",
           Public(r) \/ Authorize(r) \/ Unauthorized(r) \/ ProviderAnswers(r),
           answer'[r] \in {Reply("login"), Reply("unauthorized")}
    PROVE  ~Authenticated(r) /\ asked[r].path # "/health"
<1>1. CASE Public(r)
  <2>1. answer'[r] = Reply("public")
    BY <1>1 DEF Public, Respond, GInv
  <2> QED
    BY <2>1 DEF Reply
<1>2. CASE Unauthorized(r)
  BY <1>2 DEF Unauthorized
<1>3. CASE ProviderAnswers(r)
  <2>1. answer'[r].kind \in {"redirected", "signed_out", "signout_failed", "userinfo",
                            "userinfo_failed"}
    BY <1>3 DEF ProviderAnswers, GInv, Reply
  <2> QED
    BY <2>1 DEF Reply
<1>4. CASE Authorize(r)
  <2>1. answer'[r] \in {Reply("bad_request"), Reply(Decision(r)), Granted(r)}
        /\ (answer'[r] = Reply(Decision(r)) => asked[r].complete)
    BY <1>4 DEF Authorize, Respond, GInv, Reply
  <2>2. Decision(r) \in {"login", "unauthorized"}
    BY <2>1 DEF Reply, Granted, Grant
  <2>3. Speaker(r) = None
    BY <2>2 DEF Decision, PerformAuthorization
  <2>4. Authenticated(r) => user[r].token \in Tokens
    BY DEF GInv, UserOK, Authenticated
  <2> QED
    BY <1>4, <2>3, <2>4, TokensAssumption DEF Speaker, Authorize
<1> QED
  BY <1>1, <1>2, <1>3, <1>4

\* A step of another request, or of the world, leaves a request alone.
LEMMA OthersSteps ==
    ASSUME GInv, NEW r \in Requests, [Next]_vars, ~Step(r), ~Drop(r)
    PROVE  /\ UNCHANGED asked /\ stage'[r] = stage[r] /\ user'[r] = user[r] /\ answer'[r] = answer[r]
           /\ outcome'[<<r, "access">>] = outcome[<<r, "access">>]
<1>1. ASSUME NEW q \in Requests, q # r, Step(q) \/ Drop(q)
      PROVE  /\ UNCHANGED asked /\ stage'[r] = stage[r] /\ user'[r] = user[r]
             /\ answer'[r] = answer[r]
             /\ outcome'[<<r, "access">>] = outcome[<<r, "access">>]
  <2>1. CASE Begin(q) \/ Exchange(q)
    BY <1>1, <2>1 DEF Begin, Exchange, Move, GInv
  <2>2. CASE VerifyBasic(q) \/ VerifyAccess(q) \/ VerifyId(q)
    <3>1. PICK which \in {"basic", "access", "id"} : Verify(q, which)
      BY <2>2 DEF VerifyBasic, VerifyAccess, VerifyId
    <3>2. UNCHANGED <<asked, answer>> /\ \A c \in Calls : c # <<q, which>> => outcome'[c] = outcome[c]
      BY <3>1, VerifyAnswers
    <3>3. <<r, "access">> \in Calls /\ <<r, "access">> # <<q, which>>
      BY <1>1 DEF Calls
    <3>4. stage'[r] = stage[r] /\ user'[r] = user[r]
      BY <1>1, <2>2 DEF VerifyBasic, VerifyAccess, VerifyId, Move, GInv
    <3> QED
      BY <3>2, <3>3, <3>4
  <2>3. CASE Public(q) \/ Authorize(q) \/ Panic(q) \/ Unauthorized(q) \/ AskProvider(q)
             \/ ProviderAnswers(q) \/ Drop(q)
    BY <1>1, <2>3 DEF Public, Authorize, Respond, Panic, Unauthorized, AskProvider, ProviderAnswers,
      Drop, Move, GInv
  <2> QED
    BY <1>1, <2>1, <2>2, <2>3 DEF Step
<1>2. CASE World \/ UNCHANGED vars
  BY <1>2 DEF World, vars
<1> QED
  BY <1>1, <1>2 DEF Next

\* Every step of a request keeps that it has tried its session.
LEMMA TriedKept ==
    ASSUME GInv, NEW r \in Requests, Tried(r), [Next]_vars
    PROVE  Tried(r)'
<1>0. asked[r].access \in Tokens \cup {None} /\ UserOK(r) /\ Progress(r)
  BY ContentsAssumption DEF GInv
<1>1. CASE Begin(r) \/ Exchange(r)
  <2>1. UNCHANGED <<asked, outcome, user, answer>>
    BY <1>1 DEF Begin, Exchange
  <2>2. \/ stage'[r] \in {"exchange", "basic", "access"}
        \/ stage'[r] = "handler" /\ (asked[r].path = "/health" \/ asked[r].host = "" \/ asked[r].access = None)
    BY <1>1 DEF Begin, Exchange, Move, CookieStage, GInv
  <2> QED
    BY <2>1, <2>2 DEF Tried, Authenticated
<1>2. CASE VerifyBasic(r)
  <2>1. stage[r] = "basic" /\ UNCHANGED <<asked, answer>>
    BY <1>2, VerifyAnswers DEF VerifyBasic
  <2>2. issued[r] \in Tokens
    BY <1>0, <2>1, TokensAssumption DEF Progress, IssuedTo
  <2>3. stage'[r] = "handler" => user'[r].token = issued[r] \/ asked[r].access = None
    BY <1>2 DEF VerifyBasic, Move, CookieStage, GInv
  <2>4. stage'[r] \in {"handler", "access"}
    BY <1>2 DEF VerifyBasic, Move, CookieStage, GInv
  <2> QED
    BY <2>1, <2>2, <2>3, <2>4, TokensAssumption DEF Tried, Authenticated
<1>3. CASE VerifyAccess(r)
  <2>1. /\ stage[r] = "access" /\ UNCHANGED <<asked, answer>>
        /\ outcome'[<<r, "access">>] \in {"Empty", "Opaque", "Invalid", "Jwt"}
    BY <1>3, VerifyAnswers DEF VerifyAccess
  <2>2. asked[r].access \in Tokens
    BY <1>0, <2>1 DEF Progress
  <2>3. outcome'[<<r, "access">>] = "Jwt" => user'[r].token = asked[r].access
    BY <1>3 DEF VerifyAccess, GInv
  <2>4. stage'[r] \in {"handler", "id"}
    BY <1>3 DEF VerifyAccess, Move, GInv
  <2> QED
    BY <2>1, <2>2, <2>3, <2>4, TokensAssumption DEF Tried, Authenticated
<1>4. CASE VerifyId(r)
  <2>1. /\ stage[r] = "id" /\ UNCHANGED <<asked, answer>>
        /\ outcome'[<<r, "access">>] = outcome[<<r, "access">>]
    BY <1>4, VerifyAnswers DEF VerifyId, Calls
  <2>2. user'[r].token = user[r].token
    BY <1>0, <1>4 DEF VerifyId, UserOK, GInv
  <2>3. stage'[r] = "handler"
    BY <1>4 DEF VerifyId, Move, GInv
  <2> QED
    BY <2>1, <2>2, <2>3 DEF Tried, Authenticated
<1>5. CASE Public(r) \/ Authorize(r) \/ Unauthorized(r) \/ ProviderAnswers(r)
  <2>1. /\ UNCHANGED <<asked, outcome, user>> /\ stage'[r] = "answered"
        /\ stage[r] \in {"handler", "provider"}
    BY <1>5 DEF Public, Authorize, Unauthorized, ProviderAnswers, Respond, Move, GInv
  <2> QED
    BY <1>5, <2>1, AnonymousAnswers DEF Tried, Authenticated
<1>6. CASE AskProvider(r) \/ Panic(r) \/ Drop(r)
  <2>1. /\ UNCHANGED <<asked, outcome, user>>
        /\ \/ stage'[r] \in {"panicked", "dropped"}
           \/ stage'[r] = "provider" /\ stage[r] = "handler"
    BY <1>6 DEF AskProvider, Panic, Drop, Move, GInv
  <2> QED
    BY <2>1 DEF Tried, Authenticated
<1>7. CASE ~Step(r) /\ ~Drop(r)
  BY <1>7, OthersSteps DEF Tried, Authenticated
<1> QED
  BY <1>1, <1>2, <1>3, <1>4, <1>5, <1>6, <1>7 DEF Step

\* A request with a session is answered as anonymous only once verify_token has
\* refused the session, whatever credentials came before it.
THEOREM NotLockedOut == Spec => []NobodyLockedOut
<1>1. Init => \A r \in Requests : Tried(r)
  BY DEF Init, Tried
<1>2. GInv /\ (\A r \in Requests : Tried(r)) /\ [Next]_vars => (\A r \in Requests : Tried(r))'
  BY TriedKept
<1>3. (\A r \in Requests : Tried(r)) => NobodyLockedOut
  BY DEF Tried, NobodyLockedOut
<1> QED
  BY <1>1, <1>2, <1>3, GInvHolds, PTL DEF Spec

-----------------------------------------------------------------------------
(* What is told of a user, where it can be told *)

\* Every claim that an application asks for can be in the name of a header, as
\* `email' can and `https://example.com/roles' cannot, and what the tokens say
\* under that name can be its value: there is no control character in it.
ClaimsFitHeaders ==
    \A h \in Hosts : \A name \in {"sub"} \cup Apps[h].claims :
        name \in HeaderNames /\ \A t \in Tokens : <<t, name>> \notin Unprintable

\* Then no handler panics, and a granted request is answered with the claims.
ToldInFull(r) ==
    stage[r] \in {"answered", "panicked"} /\ asked[r].path = "/authorize" /\ asked[r].complete
            /\ Decision(r) = "granted" =>
        answer[r] = Granted(r)

LEMMA ToldKept ==
    ASSUME ClaimsFitHeaders, GInv, NEW r \in Requests, ToldInFull(r), [Next]_vars
    PROVE  ToldInFull(r)'
<1>1. CASE Begin(r) \/ Exchange(r) \/ VerifyBasic(r) \/ VerifyAccess(r) \/ VerifyId(r)
           \/ AskProvider(r) \/ Drop(r)
  <2>1. stage'[r] \notin {"answered", "panicked"}
    BY <1>1 DEF Begin, Exchange, VerifyBasic, VerifyAccess, VerifyId, AskProvider, Drop, Move,
      CookieStage, GInv
  <2> QED
    BY <2>1 DEF ToldInFull
<1>2. CASE Panic(r)
  <2>1. PICK names \in SUBSET ({"sub"} \cup Here(r).claims) : user[r].info \in [names -> Tokens]
    BY DEF GInv, UserOK
  <2>2. asked[r].host \in Hosts
    BY ContentsAssumption DEF GInv
  <2>3. \A name \in {"sub"} \cup Here(r).claims :
            name \in HeaderNames /\ \A t \in Tokens : <<t, name>> \notin Unprintable
    BY <2>2 DEF ClaimsFitHeaders, Here
  <2>4. Granted(r).info = user[r].info \/ Granted(r).info = NoInfo
    BY DEF Granted, Grant, Reply
  <2>5. Fits(r)
    BY <2>1, <2>3, <2>4 DEF Fits, NoInfo
  <2> QED
    BY <1>2, <2>5 DEF Panic
<1>3. CASE Public(r) \/ Unauthorized(r) \/ ProviderAnswers(r)
  <2>1. asked' = asked /\ asked[r].path # "/authorize"
    BY <1>3 DEF Public, Unauthorized, ProviderAnswers, Respond, GInv, Progress
  <2> QED
    BY <2>1 DEF ToldInFull
<1>4. CASE Authorize(r)
  <2>1. /\ UNCHANGED <<asked, user>>
        /\ asked[r].complete /\ Decision(r) = "granted" => answer'[r] = Granted(r)
    BY <1>4 DEF Authorize, Respond, GInv
  <2>2. Decision(r)' = Decision(r) /\ Granted(r)' = Granted(r)
    BY <2>1 DEF Decision, Speaker, Authenticated, Here, Granted
  <2> QED
    BY <2>1, <2>2 DEF ToldInFull
<1>5. CASE ~Step(r) /\ ~Drop(r)
  <2>1. UNCHANGED asked /\ stage'[r] = stage[r] /\ user'[r] = user[r] /\ answer'[r] = answer[r]
    BY <1>5, OthersSteps
  <2>2. Decision(r)' = Decision(r) /\ Granted(r)' = Granted(r)
    BY <2>1 DEF Decision, Speaker, Authenticated, Here, Granted
  <2> QED
    BY <2>1, <2>2 DEF ToldInFull
<1> QED
  BY <1>1, <1>2, <1>3, <1>4, <1>5 DEF Step

\* The panic that loses a granted answer has no other cause than a claim that no
\* header holds: where all of their names and values can be a header's, every
\* granted request is answered, with all that is to be told of its user.
THEOREM NamedClaimsAreForwarded ==
    ASSUME ClaimsFitHeaders
    PROVE  Spec => []ClaimsAreForwarded
<1>1. Init => \A r \in Requests : ToldInFull(r)
  BY DEF Init, ToldInFull
<1>2. GInv /\ (\A r \in Requests : ToldInFull(r)) /\ [Next]_vars
        => (\A r \in Requests : ToldInFull(r))'
  BY ToldKept
<1>3. (\A r \in Requests : ToldInFull(r)) => ClaimsAreForwarded
  BY DEF ToldInFull, ClaimsAreForwarded, Ended
<1> QED
  BY <1>1, <1>2, <1>3, GInvHolds, PTL DEF Spec

-----------------------------------------------------------------------------
(* The gateway implements its contract *)

\* The contract's users, as the gateway has them.
Speaks == [q \in Requests |-> user[q].token]
Told == [q \in Requests |-> user[q].info]

\* Answers are written alike.
LEMMA SameAnswers ==
    /\ Contract!NoInfo = NoInfo
    /\ \A kind : Contract!Reply(kind) = Reply(kind)
    /\ \A token, info : Contract!Grant(token, info) = Grant(token, info)
    /\ \A info, names, token : Contract!Add(info, names, token) = Add(info, names, token)
BY DEF Contract!NoInfo, NoInfo, Contract!Reply, Reply, Contract!Grant, Grant, Contract!Add, Add

\* A step of a request's user is one of what the contract knows of the user.
LEMMA UserSteps ==
    ASSUME NEW r \in Requests, user = [q \in Requests |-> user[q]],
           NEW u, user' = [user EXCEPT ![r] = u]
    PROVE  Speaks' = [Speaks EXCEPT ![r] = u.token] /\ Told' = [Told EXCEPT ![r] = u.info]
<1>1. user'[r] = u /\ \A q \in Requests : q # r => user'[q] = user[q]
  OBVIOUS
<1> QED
  BY <1>1 DEF Speaks, Told

\* What the middleware finds out, the contract has a step for.
LEMMA MiddlewareImplements ==
    ASSUME GInv, NEW r \in Requests,
           Begin(r) \/ Exchange(r) \/ VerifyBasic(r) \/ VerifyAccess(r) \/ VerifyId(r)
    PROVE  [Contract!Next]_Contract!vars
<1> USE DEF Contract!vars, Contract!world
<1>0. /\ UserOK(r) /\ Progress(r) /\ asked[r] \in Contents /\ <<r, "basic">> \in Calls
      /\ <<r, "access">> \in Calls /\ <<r, "id">> \in Calls
      /\ Contract!Here(r) = Here(r)
  BY SameHere DEF GInv, Calls
<1>1. CASE Begin(r) \/ Exchange(r)
  BY <1>1 DEF Begin, Exchange, world
<1>2. CASE VerifyBasic(r)
  <2>1. /\ Verify(r, "basic") /\ stage[r] = "basic"
        /\ UNCHANGED <<asked, issued, answer, now, since, retired>>
    BY <1>2, VerifyAnswers DEF VerifyBasic
  <2>2. CASE outcome'[<<r, "basic">>] = "Jwt"
    <3>1. user' = [user EXCEPT ![r] = [token |-> issued[r], info |-> NoInfo]]
      BY <1>2, <2>2 DEF VerifyBasic
    <3>2. Sound(Claims[issued[r]], Here(r).audience)
      BY <1>0, <2>1, <2>2, VerifyAnswers DEF args
    <3>3. Contract!Sound(Claims[issued[r]], Here(r).audience)
      BY <3>2, SameSound
    <3>4. issued[r] \in IssuedTo(r) /\ answer[r] = None /\ user[r] = Anonymous
      BY <1>0, <2>1 DEF Progress
    <3>5. PICK i \in Issued : i.creds = asked[r].basic /\ i.audience = Here(r).audience
                              /\ i.token = issued[r]
      BY <3>4 DEF IssuedTo
    <3>6. Speaks' = [Speaks EXCEPT ![r] = issued[r]] /\ Told' = [Told EXCEPT ![r] = NoInfo]
      BY <3>1, UserSteps DEF GInv
    <3>7. UNCHANGED Told /\ Speaks[r] = None
      <4>1. Told[r] = NoInfo /\ Speaks[r] = None
        BY <3>4 DEF Told, Speaks, Anonymous
      <4>2. Told = [q \in Requests |-> Told[q]]
        BY DEF Told
      <4> QED
        BY <3>6, <4>1, <4>2
    <3>8. Contract!LetMachineIn(r)
      BY <1>0, <2>1, <3>3, <3>4, <3>5, <3>6, <3>7 DEF Contract!LetMachineIn, Speaks, Told
    <3> QED
      BY <3>8 DEF Contract!Next
  <2>3. CASE outcome'[<<r, "basic">>] # "Jwt"
    BY <1>2, <2>1, <2>3 DEF VerifyBasic
  <2> QED
    BY <2>2, <2>3
<1>3. CASE VerifyAccess(r)
  <2>1. /\ Verify(r, "access") /\ stage[r] = "access"
        /\ UNCHANGED <<asked, issued, answer, now, since, retired>>
    BY <1>3, VerifyAnswers DEF VerifyAccess
  <2>2. CASE outcome'[<<r, "access">>] = "Jwt"
    <3> DEFINE info == Add(NoInfo, {"sub"}, asked[r].access)
    <3>1. user' = [user EXCEPT ![r] = [token |-> asked[r].access, info |-> info]]
      BY <1>3, <2>2 DEF VerifyAccess
    <3>2. Contract!Sound(Claims[asked[r].access], Here(r).audience)
      BY <1>0, <2>1, <2>2, VerifyAnswers, SameSound DEF args
    <3>3. asked[r].access # None /\ answer[r] = None /\ user[r] = Anonymous
      BY <1>0, <2>1, TokensAssumption DEF Progress
    <3>4. info = Contract!Add(Contract!NoInfo, {"sub"}, asked[r].access)
      BY SameAnswers
    <3> HIDE DEF info
    <3>5. Speaks' = [Speaks EXCEPT ![r] = asked[r].access] /\ Told' = [Told EXCEPT ![r] = info]
      BY <3>1, UserSteps DEF GInv
    <3>6. Speaks[r] = None
      BY <3>3 DEF Speaks, Anonymous
    <3>7. Contract!LetUserIn(r)
      BY <1>0, <2>1, <3>2, <3>3, <3>4, <3>5, <3>6 DEF Contract!LetUserIn, Speaks, Told
    <3> QED
      BY <3>7 DEF Contract!Next
  <2>3. CASE outcome'[<<r, "access">>] # "Jwt"
    BY <1>3, <2>1, <2>3 DEF VerifyAccess
  <2> QED
    BY <2>2, <2>3
<1>4. CASE VerifyId(r)
  <2>1. /\ Verify(r, "id") /\ stage[r] = "id"
        /\ UNCHANGED <<asked, issued, answer, now, since, retired>>
    BY <1>4, VerifyAnswers DEF VerifyId
  <2>2. CASE outcome'[<<r, "id">>] = "Jwt" /\ Authenticated(r) /\ SameSubject(r)
    <3> DEFINE info == Add(user[r].info, ClaimNames(r), asked[r].id)
    <3>1. /\ user' = [user EXCEPT ![r].info = info]
          /\ [user[r] EXCEPT !.info = info] = [token |-> user[r].token, info |-> info]
      BY <1>0, <1>4, <2>2 DEF VerifyId, UserOK
    <3>2. Contract!Sound(Claims[asked[r].id], Here(r).client_id)
      BY <1>0, <2>1, <2>2, VerifyAnswers, SameSound DEF args
    <3>3. /\ asked[r].id # None /\ answer[r] = None
          /\ user[r].token = asked[r].access /\ "sub" \in DOMAIN user[r].info
      BY <1>0, <2>1, <2>2, TokensAssumption DEF Progress
    <3>4. Claims[asked[r].id].sub = Claims[user[r].token].sub
      BY <1>0, <2>2, <3>3, SubjectAssumption DEF SameSubject
    <3>5. info = Contract!Add(Told[r], ClaimNames(r), asked[r].id)
      BY SameAnswers DEF Told
    <3>6. ClaimNames(r) \in SUBSET Here(r).claims
      BY DEF ClaimNames
    <3> HIDE DEF info
    <3>7. user' = [user EXCEPT ![r] = [token |-> user[r].token, info |-> info]]
      BY <3>1
    <3>8. Speaks' = [Speaks EXCEPT ![r] = user[r].token] /\ Told' = [Told EXCEPT ![r] = info]
      BY <3>7, UserSteps DEF GInv
    <3>9. UNCHANGED Speaks /\ Speaks[r] = user[r].token /\ Speaks[r] # None
          /\ "sub" \in DOMAIN Told[r]
      BY <2>2, <3>3, <3>8 DEF Speaks, Told, Authenticated
    <3>10. \E names \in SUBSET Here(r).claims :
              Told' = [Told EXCEPT ![r] = Contract!Add(@, names, asked[r].id)]
      BY <3>5, <3>6, <3>8
    <3>11. Contract!Introduce(r)
      BY <1>0, <2>1, <3>2, <3>3, <3>4, <3>9, <3>10 DEF Contract!Introduce, Speaks, Told
    <3> QED
      BY <3>11 DEF Contract!Next
  <2>3. CASE ~(outcome'[<<r, "id">>] = "Jwt" /\ Authenticated(r) /\ SameSubject(r))
    BY <1>4, <2>1, <2>3 DEF VerifyId
  <2> QED
    BY <2>2, <2>3
<1> QED
  BY <1>1, <1>2, <1>3, <1>4

\* What the handlers answer, the contract permits.
LEMMA HandlersImplement ==
    ASSUME GInv, NEW r \in Requests,
           Public(r) \/ Authorize(r) \/ Panic(r) \/ Unauthorized(r) \/ AskProvider(r)
             \/ ProviderAnswers(r) \/ Drop(r)
    PROVE  [Contract!Next]_Contract!vars
<1>1. CASE Panic(r) \/ AskProvider(r) \/ Drop(r)
  BY <1>1 DEF Panic, AskProvider, Drop, Contract!vars, Contract!world, world
<1>2. CASE Public(r) \/ Authorize(r) \/ Unauthorized(r) \/ ProviderAnswers(r)
  <2> SUFFICES Contract!Answer(r)
    BY DEF Contract!Next
  <2>1. /\ UNCHANGED <<asked, user, now, since, retired>> /\ answer[r] = None
        /\ stage[r] \in {"handler", "provider"}
    BY <1>2 DEF Public, Authorize, Unauthorized, ProviderAnswers, Respond, GInv, Progress, world
  <2>2. Speaks[r] = user[r].token /\ Told[r] = user[r].info
    BY DEF Speaks, Told
  <2>3. CASE Public(r)
    <3>1. /\ asked[r].path \notin {"/authorize", "/signout", "/userinfo"}
          /\ answer' = [answer EXCEPT ![r] = Contract!Reply("public")]
      BY <2>3, SameAnswers DEF Public, Respond
    <3> QED
      BY <2>1, <3>1 DEF Contract!Answer, Contract!world
  <2>4. CASE Authorize(r)
    <3>1. /\ asked[r].path = "/authorize"
          /\ answer' = [answer EXCEPT ![r] =
                IF ~asked[r].complete THEN Contract!Reply("bad_request")
                ELSE IF Decision(r) # "granted" THEN Contract!Reply(Decision(r))
                ELSE Contract!Grant(Speaks[r], Told[r])]
      BY <2>2, <2>4, SameAnswers DEF Authorize, Respond, Granted
    <3>2. CASE ~asked[r].complete
      BY <2>1, <3>1, <3>2 DEF Contract!Answer, Contract!Refuse, Contract!world
    <3>3. CASE asked[r].complete
      <4>1. Contract!Authorize(r)
        BY <3>1, <3>3, SameDecision DEF Contract!Authorize, Speaks, Told
      <4> QED
        BY <2>1, <3>1, <3>3, <4>1 DEF Contract!Answer, Contract!world
    <3> QED
      BY <3>2, <3>3
  <2>5. CASE Unauthorized(r)
    <3>1. /\ asked[r].path \in {"/signout", "/userinfo"}
          /\ answer' = [answer EXCEPT ![r] = Contract!Reply("unauthorized")]
      BY <2>5, SameAnswers DEF Unauthorized, Respond
    <3> QED
      BY <2>1, <3>1 DEF Contract!Answer, Contract!Refuse, Contract!world
  <2>6. CASE ProviderAnswers(r)
    <3>1. /\ asked[r].path \in {"/signout", "/userinfo"} /\ Speaks[r] # None
      BY <2>2, <2>6 DEF ProviderAnswers, GInv, Progress, Authenticated
    <3>2. CASE asked[r].path = "/signout"
      <4>1. \E kind \in {"redirected", "signed_out", "signout_failed"} :
              answer' = [answer EXCEPT ![r] = Contract!Reply(kind)]
        BY <2>6, <3>2, SameAnswers DEF ProviderAnswers
      <4>2. Contract!Signout(r)
        BY <3>1, <4>1 DEF Contract!Signout, Speaks
      <4> QED
        BY <2>1, <3>2, <4>2 DEF Contract!Answer, Contract!world
    <3>3. CASE asked[r].path = "/userinfo"
      <4>1. \E response \in {[Contract!Reply("userinfo") EXCEPT !.token = Speaks[r]],
                              Contract!Reply("userinfo_failed")} :
              answer' = [answer EXCEPT ![r] = response]
        BY <2>2, <2>6, <3>3, SameAnswers DEF ProviderAnswers
      <4>2. Contract!Userinfo(r)
        BY <3>1, <4>1 DEF Contract!Userinfo, Speaks
      <4> QED
        BY <2>1, <3>3, <4>2 DEF Contract!Answer, Contract!world
    <3> QED
      BY <3>1, <3>2, <3>3
  <2> QED
    BY <1>2, <2>3, <2>4, <2>5, <2>6
<1> QED
  BY <1>1, <1>2

\* Whom a request speaks for and what is told about that user come from tokens
\* that were good when they were looked at; nothing else is forwarded, and every
\* page is decided on as perform_authorization decides.
THEOREM KeepsContract == Spec => ContractKept
<1>1. Init => Contract!Init
  <2> SUFFICES ASSUME Init PROVE Contract!Init
    OBVIOUS
  <2>1. /\ [q \in Requests |-> user[q].token] = [q \in Requests |-> None]
        /\ [q \in Requests |-> user[q].info] = [q \in Requests |-> Contract!NoInfo]
    BY SameAnswers DEF Init, Anonymous
  <2> QED
    BY <2>1 DEF Init, Contract!Init, Contract!Absent, Absent
<1>2. GInv /\ [Next]_vars => [Contract!Next]_Contract!vars
  <2> SUFFICES ASSUME GInv, [Next]_vars PROVE [Contract!Next]_Contract!vars
    OBVIOUS
  <2>1. CASE \E r \in Requests : Step(r) \/ Drop(r)
    BY <2>1, MiddlewareImplements, HandlersImplement DEF Step
  <2>2. CASE World
    <3>1. Contract!WorldNext
      BY <2>2 DEF World, WorldNext, Contract!WorldNext, Advance, Contract!Advance, Publish,
        Contract!Publish, Withdraw, Contract!Withdraw, Absent, Contract!Absent
    <3> QED
      BY <2>2, <3>1 DEF World, Contract!Next
  <2>3. CASE UNCHANGED vars
    BY <2>3 DEF vars, world, Contract!vars, Contract!world
  <2> QED
    BY <2>1, <2>2, <2>3 DEF Next
<1> QED
  BY <1>1, <1>2, GInvHolds, PTL DEF Spec, ContractKept, Contract!Spec
=============================================================================
