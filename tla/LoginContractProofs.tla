------------------------- MODULE LoginContractProofs -------------------------
(***************************************************************************)
(* The login flow implements LoginContract, where every application has a  *)
(* cookie domain of its own (OwnDomains): a step of a tab or of the        *)
(* browser is a step of the contract, or is none of its business.          *)
(***************************************************************************)
EXTENDS LoginFlowProofs

-----------------------------------------------------------------------------
(* The contract's state *)

\* What the contract sees of the tabs,
View ==
    [t \in Tabs |->
        IF phase[t] \in {"authorizing", "granted", "signout"}
        THEN [page |-> target[t], session |-> carried[t], stage |-> phase[t]]
        ELSE [page |-> None, session |-> None, stage |-> "away"]]
\* and of the logins.
OpenLogins ==
    {flow[t] : t \in {u \in Tabs : flow[u] # None /\ past[u] = None}}
        \cup {past[t].login : t \in {u \in Tabs : past[u] # None /\ ~past[u].done}}

\* A tab's step leaves the others' pages and logins as they are.
OthersKept(t) ==
    \A u \in Tabs \ {t} :
        /\ phase'[u] = phase[u] /\ target'[u] = target[u] /\ carried'[u] = carried[u]
        /\ flow'[u] = flow[u] /\ past'[u] = past[u]
LEMMA OthersAreKept ==
    ASSUME TypeOK, NEW t \in Tabs, ByTab(t)
    PROVE  OthersKept(t)
BY DEF OthersKept, TypeOK, TabsOK, ByTab, Open, Step, Visit, AuthorizeAnswer, AuthorizeRedirect,
  LogIn, CallbackError, Callback, LeaveLogin, SigninComplete, SigninFail, SignoutRefused, Signout,
  Reload, Replay, AskSignout

\* A step of one tab changes the contract's view of that tab only.
LEMMA OneView ==
    ASSUME NEW t \in Tabs, OthersKept(t), NEW w, View'[t] = w
    PROVE  View' = [View EXCEPT ![t] = w]
<1>1. \A u \in Tabs \ {t} : View'[u] = View[u]
  BY DEF View, OthersKept
<1> QED
  BY <1>1 DEF View

\* A tab that goes away from the contract's view, or was away, changes nothing else.
LEMMA AwayView ==
    ASSUME NEW t \in Tabs, OthersKept(t),
           phase'[t] \notin {"authorizing", "granted", "signout"}
    PROVE  View' = [View EXCEPT ![t] = Contract!Away]
BY DEF View, OthersKept, Contract!Away
LEMMA NoView ==
    ASSUME NEW t \in Tabs, OthersKept(t),
           {phase[t], phase'[t]} \cap {"authorizing", "granted", "signout"} = {}
    PROVE  View' = View
BY DEF View, OthersKept

\* A tab that the contract sees.
LEMMA Seen ==
    ASSUME NEW t \in Tabs
    PROVE  /\ phase[t] \in {"authorizing", "granted", "signout"} =>
                View[t] = [page |-> target[t], session |-> carried[t], stage |-> phase[t]]
           /\ phase[t] \notin {"authorizing", "granted", "signout"} => View[t] = Contract!Away
BY DEF View, Contract!Away

\* The login that a tab may end yet, if there is one.
Pending(t) ==
    IF past[t] = None THEN {flow[t]} \ {None}
    ELSE IF past[t].done THEN {} ELSE {past[t].login}
LEMMA OpenByTab ==
    /\ \A login : login \in OpenLogins <=> \E t \in Tabs : login \in Pending(t)
    /\ \A login : login \in OpenLogins' <=> \E t \in Tabs : login \in Pending(t)'
<1>1. \A login : login \in OpenLogins <=> \E t \in Tabs : login \in Pending(t)
  BY DEF OpenLogins, Pending
<1>2. \A login : login \in OpenLogins' <=> \E t \in Tabs : login \in Pending(t)'
  BY DEF OpenLogins, Pending
<1> QED
  BY <1>1, <1>2

\* The logins are open that were open, where no tab's login changes.
LEMMA SameLogins ==
    ASSUME NEW t \in Tabs, OthersKept(t), Pending(t)' = Pending(t)
    PROVE  OpenLogins' = OpenLogins
<1>1. \A u \in Tabs : Pending(u)' = Pending(u)
  BY DEF OthersKept, Pending
<1>2. \A login : login \in OpenLogins' <=> login \in OpenLogins
  BY <1>1, OpenByTab
<1> QED
  BY <1>2 DEF OpenLogins

\* A login that its tab leaves is closed, and no other one.
LEMMA ClosedLogin ==
    ASSUME OwnNonces, NEW t \in Tabs, OthersKept(t), flow[t] # None,
           Pending(t) = {flow[t]}, Pending(t)' = {}
    PROVE  flow[t] \in OpenLogins /\ OpenLogins' = OpenLogins \ {flow[t]}
<1>1. \A u \in Tabs \ {t} : Pending(u)' = Pending(u) /\ flow[t] \notin Pending(u)
  <2> SUFFICES ASSUME NEW u \in Tabs \ {t}
               PROVE  Pending(u)' = Pending(u) /\ flow[t] \notin Pending(u)
    OBVIOUS
  <2>1. Pending(u)' = Pending(u)
    BY DEF OthersKept, Pending
  <2>2. /\ flow[u] # None => flow[u].nonce # flow[t].nonce
        /\ past[u] # None => past[u].login.nonce # flow[t].nonce
    BY DEF OwnNonces, KnownByOne
  <2>3. flow[t] \notin Pending(u)
    BY <2>2 DEF Pending
  <2> QED
    BY <2>1, <2>3
<1>2. \A login : login \in OpenLogins' <=> login \in OpenLogins /\ login # flow[t]
  BY <1>1, OpenByTab
<1>3. OpenLogins' = OpenLogins \ {flow[t]}
  BY <1>2 DEF OpenLogins
<1> QED
  BY <1>3, OpenByTab

\* A host gets the cookie of its own domain.
LEMMA SentIsHeld ==
    ASSUME OwnDomains, NEW h \in Hosts
    PROVE  Sent(sessions, h) = Contract!Held(h)
<1> DEFINE own == App(h).token_cookie_domain
<1>1. own \in Domains /\ h \in Covers[own] /\ \A d \in Domains : h \in Covers[d] => d = own
  BY OwnDomain
<1> HIDE DEF own
<1>2. Contract!Held(h) = {sessions[own]}
  BY <1>1 DEF Contract!Held
<1>3. Sent(sessions, h) = {sessions[own]}
  BY <1>1 DEF Sent
<1> QED
  BY <1>2, <1>3

-----------------------------------------------------------------------------
(* /authorize *)

\* /authorize decides for a user that the contract accepts, or for nobody.
LEMMA SameJudgement ==
    ASSUME TypeOK, NEW t \in Tabs, phase[t] = "authorizing", NEW user \in Users(t)
    PROVE  LET v == View[t]
           IN  /\ Decision(t, user) = "granted"
                    => Contract!Public(v) \/ (Contract!Accepted(v) /\ Contract!Sufficient(v))
               /\ Decision(t, user) \in {"denied", "unauthorized"}
                    => /\ ~Contract!Public(v)
                       /\ v.page.api \/ (Contract!Accepted(v) /\ ~Contract!Sufficient(v))
               /\ Decision(t, user) = "login" => ~Contract!Public(v) /\ ~v.page.api
<1> DEFINE v == View[t]
           app == Here(t)
<1>0. View[t] = [page |-> target[t], session |-> carried[t], stage |-> phase[t]]
  BY DEF View
<1>1. v.page = target[t] /\ v.session = carried[t]
  BY <1>0
<1>2. app = App(target[t].host)
  BY DEF Here
<1>3. app.redirect_uri # ""
  BY HereType, NoneAssumption
<1> HIDE DEF v
<1>4. Contract!Public(v) <=> IsCallback(app, target[t]) \/ target[t].method \notin app.restricted_methods
  BY <1>1, <1>2, <1>3 DEF Contract!Public, IsCallback
<1>5. user # None => Contract!Accepted(v) /\ user = carried[t]
  BY <1>1, <1>2 DEF Contract!Accepted, Users, Acceptable
<1>6. user # None => (Contract!Sufficient(v) <=> Permitted(app, user))
  BY <1>1, <1>2, <1>5 DEF Contract!Sufficient, Permitted
<1>7. Decision(t, user) = PerformAuthorization(app, target[t], user)
  BY DEF Decision
<1>8. target[t].api = v.page.api
  BY <1>1
<1> HIDE DEF app
<1>9. Contract!Public(v) => Decision(t, user) = "granted"
  BY <1>4, <1>7 DEF PerformAuthorization
<1>10. ~Contract!Public(v) /\ user = None
         => Decision(t, user) = IF v.page.api THEN "unauthorized" ELSE "login"
  BY <1>4, <1>7, <1>8 DEF PerformAuthorization
<1>11. ~Contract!Public(v) /\ user # None
         => Decision(t, user) = IF Contract!Sufficient(v) THEN "granted" ELSE "denied"
  BY <1>4, <1>6, <1>7 DEF PerformAuthorization
<1>12. /\ Decision(t, user) = "granted"
            => Contract!Public(v) \/ (Contract!Accepted(v) /\ Contract!Sufficient(v))
       /\ Decision(t, user) \in {"denied", "unauthorized"}
            => /\ ~Contract!Public(v)
               /\ v.page.api \/ (Contract!Accepted(v) /\ ~Contract!Sufficient(v))
       /\ Decision(t, user) = "login" => ~Contract!Public(v) /\ ~v.page.api
  <2>1. CASE Contract!Public(v)
    BY <1>9, <2>1
  <2>2. CASE ~Contract!Public(v) /\ user = None
    BY <1>10, <2>2
  <2>3. CASE ~Contract!Public(v) /\ user # None
    BY <1>5, <1>11, <2>3
  <2> QED
    BY <2>1, <2>2, <2>3
<1> QED
  BY <1>12 DEF v

\* An answer of /authorize shows the page or turns the tab away.
LEMMA AnswerIsStep ==
    ASSUME TypeOK, NEW t \in Tabs, NEW user \in Users(t),
           AuthorizeAnswer(t, user), OthersKept(t)
    PROVE  Contract!Show(t) \/ Contract!TurnAway(t)
<1>1. OpenLogins' = OpenLogins /\ UNCHANGED <<sessions, signedOut, trusted>>
  BY SameLogins DEF AuthorizeAnswer, Pending, jar, keys
<1>2. phase[t] = "authorizing" /\ Decision(t, user) # "login" /\ phase'[t] = Decision(t, user)
      /\ target'[t] = target[t]
  BY DEF AuthorizeAnswer, TypeOK, TabsOK
<1>3. View[t] = [page |-> target[t], session |-> carried[t], stage |-> "authorizing"]
  BY <1>2, Seen
<1>4. CASE Decision(t, user) = "granted"
  <2>1. carried'[t] = carried[t]
    BY <1>4 DEF AuthorizeAnswer, TypeOK, TabsOK
  <2> DEFINE w == [View[t] EXCEPT !.stage = "granted"]
  <2>2. w = [page |-> target[t], session |-> carried[t], stage |-> "granted"]
    BY <1>3
  <2>3. View' = [View EXCEPT ![t] = w]
    <3>1. View'[t] = w
      BY <1>2, <1>4, <2>1, <2>2 DEF View
    <3> HIDE DEF w
    <3> QED
      BY <3>1, OneView
  <2>4. View[t].stage = "authorizing"
        /\ (Contract!Public(View[t]) \/ (Contract!Accepted(View[t]) /\ Contract!Sufficient(View[t])))
    BY <1>2, <1>3, <1>4, SameJudgement
  <2> QED
    BY <1>1, <2>3, <2>4 DEF Contract!Show, Contract!See, View, OpenLogins
<1>5. CASE Decision(t, user) # "granted"
  <2>1. Decision(t, user) \in {"denied", "unauthorized"}
    BY <1>2, <1>5 DEF Decision, PerformAuthorization
  <2>2. View' = [View EXCEPT ![t] = Contract!Away]
    BY <1>2, <2>1, AwayView
  <2>3. View[t].stage = "authorizing" /\ ~Contract!Public(View[t])
        /\ (View[t].page.api \/ (Contract!Accepted(View[t]) /\ ~Contract!Sufficient(View[t])))
    BY <1>2, <1>3, <2>1, SameJudgement
  <2> QED
    BY <1>1, <2>2, <2>3 DEF Contract!TurnAway, Contract!See, View, OpenLogins
<1> QED
  BY <1>4, <1>5

\* The login that /authorize starts is another than all that are open.
LEMMA StartIsStep ==
    ASSUME TypeOK, NEW t \in Tabs, NEW user \in Users(t),
           AuthorizeRedirect(t, user), OthersKept(t)
    PROVE  Contract!Start(t)
<1> DEFINE app == App(target[t].host)
           login == [nonce |-> FreshNonce(t), client |-> app.client_id,
                     aud |-> app.audience, callback |-> app.redirect_uri]
<1>1. /\ phase[t] = "authorizing" /\ Decision(t, user) = "login" /\ phase'[t] = "login"
      /\ flow'[t] = login /\ past'[t] = None /\ flow[t] = None
      /\ UNCHANGED <<sessions, signedOut, trusted>>
  BY DEF AuthorizeRedirect, TypeOK, TabsOK, Here, keys
<1>2. View[t] = [page |-> target[t], session |-> carried[t], stage |-> "authorizing"]
  BY <1>1, Seen
<1>3. View' = [View EXCEPT ![t] = Contract!Away]
  BY <1>1, AwayView
<1>4. View[t].stage = "authorizing"
      /\ ~Contract!Public(View[t]) /\ ~View[t].page.api
  BY <1>1, <1>2, SameJudgement
<1>5. login \in Flows
  <2>1. FreshNonce(t) \in Nonces
    BY FreshNonces
  <2>2. target[t].host \in Hosts /\ app.redirect_uri \in Hosts
    BY <1>1, HereType DEF Here
  <2> QED
    BY <2>1, <2>2 DEF Flows, App
<1>6. login # None
  BY <1>5, NoneAssumption
<1>7. \A u \in Tabs \ {t} : \A other \in Pending(u) : other.nonce # login.nonce
  BY FreshNonces, InUse DEF Pending
<1>8. login.client = app.client_id /\ login.aud = app.audience /\ login.callback = app.redirect_uri
  OBVIOUS
<1> HIDE DEF login
<1>9. /\ login \in OpenLogins' /\ OpenLogins' \subseteq OpenLogins \cup {login}
      /\ \A other \in OpenLogins' \ {login} : other.nonce # login.nonce
  <2>1. Pending(t)' = {login} /\ \A u \in Tabs \ {t} : Pending(u)' = Pending(u)
    BY <1>1, <1>6 DEF Pending, OthersKept
  <2> QED
    BY <1>7, <2>1, OpenByTab
<1>10. app = App(View[t].page.host)
  BY <1>2
<1> HIDE DEF app
<1> QED
  BY <1>1, <1>3, <1>4, <1>5, <1>8, <1>9, <1>10
  DEF Contract!Start, Contract!See, View, OpenLogins

-----------------------------------------------------------------------------
(* The callback *)

\* A code that is redeemed ends a login that is open: not one that was completed
\* before, whose nonce no cookie has (PastIsOver).  Its tab may have failed to
\* redeem it before.
LEMMA CompleteIsStep ==
    ASSUME OwnDomains, TypeOK, OwnNonces, NEW t \in Tabs, SigninComplete(t), OthersKept(t)
    PROVE  \E login \in OpenLogins : Contract!Complete(login)
<1> DEFINE login == flow[t]
           host == login.callback
           own == App(host).token_cookie_domain
<1>1. /\ phase[t] = "signin" /\ phase'[t] = "visit" /\ login # None /\ login \in Flows
      /\ login.client = App(host).client_id
      /\ UNCHANGED trusted
  BY DEF SigninComplete, Redeemable, CallbackApp, TypeOK, TabsOK, keys
<1>2. PICK permissions \in Grants[login.aud] :
        sessions' = SetCookie(sessions, own, host,
                        [aud |-> login.aud, permissions |-> permissions, key |-> key])
  BY DEF SigninComplete, CallbackApp
<1>3. signedOut' = signedOut \ Reach(App(host))
  BY DEF SigninComplete, CallbackApp
<1> DEFINE session == [aud |-> login.aud, permissions |-> permissions, key |-> key]
<1>4. session \in Sessions /\ session.aud = login.aud
  <2>1. login.aud \in {App(h).audience : h \in Hosts}
    BY <1>1 DEF Flows
  <2>2. key \in Keys
    BY KeysType DEF TypeOK
  <2>3. session \in [aud: {login.aud}, permissions: Grants[login.aud], key: Keys]
    BY <2>2
  <2>4. session \in Sessions
    BY <2>1, <2>3, Zenon DEF Sessions
  <2> QED
    BY <2>4
<1>5. login \in OpenLogins /\ OpenLogins' = OpenLogins \ {login}
  <2>1. past'[t] = [login |-> flow[t], done |-> TRUE]
    BY DEF SigninComplete, LeaveLogin, TypeOK, TabsOK
  <2>2. past[t] # None => past[t].login = flow[t] /\ ~past[t].done
    BY <1>1 DEF TypeOK, TabsOK, OwnNonces, PastIsOver
  <2>3. Pending(t) = {flow[t]}
    BY <1>1, <2>2 DEF Pending
  <2>4. past'[t] # None
    <3>1. past'[t] \in Visits
      BY <1>1, <2>1 DEF Visits
    <3> QED
      BY <3>1, NoneAssumption
  <2>5. Pending(t)' = {}
    BY <2>1, <2>4 DEF Pending
  <2> QED
    BY <1>1, <2>3, <2>5, ClosedLogin
<1>6. View' = View
  BY <1>1, NoView
<1>7. host \in Hosts
  BY <1>1 DEF Flows
<1> HIDE DEF session
<1>8. own \in Domains /\ host \in Covers[own] /\ Reach(App(host)) = Covers[own]
  BY <1>7, OwnDomain
<1>9. sessions' = [sessions EXCEPT ![own] = session] /\ signedOut' = signedOut \ Covers[own]
  BY <1>2, <1>3, <1>8 DEF SetCookie, session
<1> HIDE DEF own
<1>10. PICK ended \in OpenLogins : ended = login
  BY <1>5
<1>11. Contract!Complete(ended)
  BY <1>1, <1>4, <1>5, <1>6, <1>8, <1>9, <1>10 DEF Contract!Complete, View, OpenLogins
<1> QED
  BY <1>11

\* A login stays open that fails, whose callback does not match or is asked for
\* again: its tab may come back to it.
LEMMA LoginStaysOpen ==
    ASSUME TypeOK, OwnNonces, NEW t \in Tabs, OthersKept(t),
           CallbackError(t) \/ Callback(t) \/ SigninFail(t) \/ Reload(t)
    PROVE  UNCHANGED Contract!vars
<1>1. /\ phase[t] \in {"login", "callback", "signin"}
      /\ phase'[t] \in {"visit", "callback", "signin", "failed"}
      /\ flow[t] # None /\ UNCHANGED <<sessions, signedOut, trusted>>
  BY DEF CallbackError, Callback, SigninFail, Reload, TypeOK, TabsOK, jar, keys
<1>2. View' = View
  BY <1>1, NoView
<1>3. /\ past[t] # None => past[t].login = flow[t]
      /\ phase[t] = "login" => past[t] = None
      /\ phase[t] = "signin" /\ past[t] # None => ~past[t].done
  BY <1>1 DEF TypeOK, TabsOK, OwnNonces, PastIsOver
<1>4. Pending(t)' = Pending(t)
  <2>0. /\ [login |-> flow[t], done |-> FALSE] # None
        /\ [login |-> flow[t], done |-> TRUE] # None
    <3>1. /\ [login |-> flow[t], done |-> FALSE] \in Visits
          /\ [login |-> flow[t], done |-> TRUE] \in Visits
      BY <1>1 DEF TypeOK, TabsOK, Visits
    <3> QED
      BY <3>1, NoneAssumption
  <2>1. CASE UNCHANGED <<flow, past>>
    BY <2>1 DEF Pending
  <2>2. CASE past'[t] = [login |-> flow[t], done |-> FALSE]
             /\ (past[t] # None => ~past[t].done)
    <3>1. past'[t] # None /\ past'[t].login = flow[t] /\ ~past'[t].done
      BY <2>0, <2>2
    <3>2. Pending(t)' = {flow[t]}
      BY <3>1 DEF Pending
    <3> QED
      BY <1>1, <1>3, <2>2, <3>2 DEF Pending
  <2>3. CASE past'[t] = [login |-> flow[t], done |-> TRUE] /\ past[t] # None /\ past[t].done
    <3>1. past'[t] # None /\ past'[t].done
      BY <2>0, <2>3
    <3> QED
      BY <2>3, <3>1 DEF Pending
  <2>4. CASE CallbackError(t) \/ SigninFail(t)
    BY <1>3, <2>2, <2>4 DEF CallbackError, SigninFail, LeaveLogin, TypeOK, TabsOK
  <2>5. CASE Reload(t)
    BY <1>3, <2>2, <2>5 DEF Reload, TypeOK, TabsOK
  <2>6. CASE Callback(t)
    <3>1. CASE LeaveLogin(t, TRUE) /\ past[t] # None /\ past[t].done
      BY <2>3, <3>1 DEF LeaveLogin, TypeOK, TabsOK
    <3>2. CASE LeaveLogin(t, FALSE) /\ ~(past[t] # None /\ past[t].done)
      BY <2>2, <3>2 DEF LeaveLogin, TypeOK, TabsOK
    <3>3. CASE LeaveLogin(t, past[t] # None /\ past[t].done)
      <4> DEFINE done == past[t] # None /\ past[t].done
      <4>1. done \in BOOLEAN
        BY DEF TypeOK, TabsOK, Visits
      <4>2. LeaveLogin(t, done)
        BY <3>3
      <4> HIDE DEF done
      <4>3. (done = TRUE /\ LeaveLogin(t, TRUE)) \/ (done = FALSE /\ LeaveLogin(t, FALSE))
        BY <4>1, <4>2
      <4> QED
        BY <3>1, <3>2, <4>3 DEF done
    <3> QED
      BY <2>1, <2>6, <3>3 DEF Callback
  <2> QED
    BY <2>4, <2>5, <2>6
<1>5. OpenLogins' = OpenLogins
  BY <1>4, SameLogins
<1> QED
  BY <1>1, <1>2, <1>5 DEF Contract!vars, View, OpenLogins

-----------------------------------------------------------------------------
(* Asking, and signing out *)

\* A request carries the session that its host gets.
LEMMA VisitIsAsk ==
    ASSUME OwnDomains, TypeOK, NEW t \in Tabs, Visit(t), OthersKept(t)
    PROVE  Contract!Ask(t)
<1>1. /\ phase[t] = "visit" /\ phase'[t] = "authorizing" /\ target'[t] = target[t]
      /\ past'[t] = past[t] /\ flow'[t] = flow[t] /\ UNCHANGED <<sessions, signedOut, trusted>>
  BY DEF Visit, TypeOK, TabsOK, jar, keys
<1>2. target[t] \in Targets /\ target[t].host \in Hosts
  BY <1>1, HereType
<1>3. PICK page \in Targets : page = target[t]
  BY <1>2
<1>4. PICK session \in Contract!Held(page.host) : carried'[t] = session
  BY <1>2, <1>3, SentIsHeld DEF Visit, TypeOK, TabsOK
<1> DEFINE w == [page |-> page, session |-> session, stage |-> "authorizing"]
<1>5. View'[t] = w
  BY <1>1, <1>3, <1>4 DEF View
<1>6. View[t].stage = "away"
  <2>1. View[t] = Contract!Away
    BY <1>1, Seen
  <2> QED
    BY <2>1 DEF Contract!Away
<1>7. OpenLogins' = OpenLogins
  BY <1>1, SameLogins DEF Pending
<1> HIDE DEF w
<1>8. View' = [View EXCEPT ![t] = w]
  BY <1>5, OneView
<1> QED
  BY <1>1, <1>4, <1>6, <1>7, <1>8 DEF Contract!Ask, Contract!See, View, OpenLogins, w

LEMMA AskSignoutIsAskOut ==
    ASSUME OwnDomains, TypeOK, NEW t \in Tabs, AskSignout(t), OthersKept(t)
    PROVE  Contract!AskOut(t)
<1>1. /\ phase[t] = "granted" /\ phase'[t] = "signout" /\ target'[t] = target[t]
      /\ past'[t] = past[t] /\ flow'[t] = flow[t] /\ UNCHANGED <<sessions, signedOut, trusted>>
  BY DEF AskSignout, TypeOK, TabsOK, jar, keys
<1>2. View[t] = [page |-> target[t], session |-> carried[t], stage |-> "granted"]
  BY <1>1, Seen
<1>3. target[t].host \in Hosts /\ View[t].page.host = target[t].host
  BY <1>1, <1>2, HereType
<1>4. PICK session \in Contract!Held(View[t].page.host) : carried'[t] = session
  BY <1>3, SentIsHeld DEF AskSignout, TypeOK, TabsOK
<1> DEFINE w == [page |-> View[t].page, session |-> session, stage |-> "signout"]
<1>5. w = [page |-> target[t], session |-> session, stage |-> "signout"]
  BY <1>2
<1>6. View'[t] = w
  BY <1>1, <1>4, <1>5 DEF View
<1>7. View[t].stage = "granted"
  BY <1>2
<1>8. OpenLogins' = OpenLogins
  BY <1>1, SameLogins DEF Pending
<1>9. View' = [View EXCEPT ![t] = w]
  <2> HIDE DEF w
  <2> QED
    BY <1>6, OneView
<1> QED
  BY <1>1, <1>4, <1>7, <1>8, <1>9 DEF Contract!AskOut, Contract!See, View, OpenLogins

\* A sign-out clears the session of the host's own domain, with every answer.
LEMMA SignoutIsSignOut ==
    ASSUME OwnDomains, TypeOK, NEW t \in Tabs, Signout(t), OthersKept(t)
    PROVE  Contract!SignOut(t)
<1> DEFINE host == target[t].host
           own == App(host).token_cookie_domain
<1>1. /\ phase[t] = "signout" /\ phase'[t] \in {"closed", "failed"}
      /\ flow'[t] = flow[t] /\ flow[t] = None /\ past'[t] \in {past[t], None}
      /\ UNCHANGED trusted
  BY DEF Signout, TypeOK, TabsOK, keys
<1>2. View[t] = [page |-> target[t], session |-> carried[t], stage |-> "signout"]
  BY <1>1, Seen
<1>3. View[t].stage = "signout" /\ View[t].page.host = host /\ View[t].session = carried[t]
  BY <1>2
<1>4. View' = [View EXCEPT ![t] = Contract!Away]
  BY <1>1, AwayView
<1>5. OpenLogins' \subseteq OpenLogins
  <2>1. Pending(t)' \subseteq Pending(t) /\ \A u \in Tabs \ {t} : Pending(u)' = Pending(u)
    BY <1>1 DEF Pending, OthersKept
  <2> QED
    BY <2>1, OpenByTab
<1>6. Contract!Accepted(View[t])
  <2>1. Users(t) # {None}
    BY DEF Signout
  <2>2. Acceptable(Here(t), carried[t])
    BY <2>1 DEF Users
  <2> QED
    BY <1>3, <2>2 DEF Contract!Accepted, Acceptable, Here
<1>7. sessions' = SetCookie(sessions, own, host, None)
      /\ signedOut' = signedOut \cup Reach(App(host))
  BY DEF Signout, Here
<1>8. own \in Domains /\ host \in Covers[own] /\ Reach(App(host)) = Covers[own]
  BY <1>1, HereType, OwnDomain
<1> HIDE DEF host, own
<1>9. sessions' = [sessions EXCEPT ![own] = None] /\ signedOut' = signedOut \cup Covers[own]
  BY <1>7, <1>8 DEF SetCookie
<1> QED
  BY <1>1, <1>3, <1>4, <1>5, <1>6, <1>8, <1>9
  DEF Contract!SignOut, Contract!See, View, OpenLogins

\* Who is not recognised stays signed in.
LEMMA SignoutRefusedIsStayIn ==
    ASSUME TypeOK, NEW t \in Tabs, SignoutRefused(t), OthersKept(t)
    PROVE  Contract!StayIn(t)
<1>1. /\ phase[t] = "signout" /\ phase'[t] = "unauthorized"
      /\ flow' = flow /\ past' = past /\ UNCHANGED <<sessions, signedOut, trusted>>
  BY DEF SignoutRefused, TypeOK, TabsOK, jar, keys
<1>2. View[t].stage = "signout"
  <2>1. View[t] = [page |-> target[t], session |-> carried[t], stage |-> "signout"]
    BY <1>1, Seen
  <2> QED
    BY <2>1
<1>3. View' = [View EXCEPT ![t] = Contract!Away]
  BY <1>1, AwayView
<1>4. OpenLogins' = OpenLogins
  BY <1>1, SameLogins DEF Pending
<1> QED
  BY <1>1, <1>2, <1>3, <1>4 DEF Contract!StayIn, Contract!See, View, OpenLogins

\* Who repeats a callback leaves the page.
LEMMA ReplayIsDismiss ==
    ASSUME TypeOK, NEW t \in Tabs, Replay(t), OthersKept(t)
    PROVE  Contract!Dismiss(t) \/ UNCHANGED Contract!vars
<1>1. /\ phase[t] \in Resting /\ phase'[t] = "callback" /\ past[t] # None /\ past'[t] = past[t]
      /\ UNCHANGED <<sessions, signedOut, trusted>>
  BY DEF Replay, TypeOK, TabsOK, jar, keys
<1>2. OpenLogins' = OpenLogins
  BY <1>1, SameLogins DEF Pending
<1>3. CASE phase[t] = "granted"
  <2>1. View[t].stage = "granted"
    <3>1. View[t] = [page |-> target[t], session |-> carried[t], stage |-> "granted"]
      BY <1>3, Seen
    <3> QED
      BY <3>1
  <2>2. View' = [View EXCEPT ![t] = Contract!Away]
    BY <1>1, AwayView
  <2> QED
    BY <1>1, <1>2, <2>1, <2>2 DEF Contract!Dismiss, Contract!See, View, OpenLogins
<1>4. CASE phase[t] # "granted"
  <2>1. View' = View
    BY <1>1, <1>4, NoView DEF Resting
  <2> QED
    BY <1>1, <1>2, <2>1 DEF Contract!vars, View, OpenLogins
<1> QED
  BY <1>3, <1>4

-----------------------------------------------------------------------------
(* The refinement *)

\* Every step of a tab is the contract's, or none of its business.
LEMMA TabStep ==
    ASSUME OwnDomains, TypeOK, OwnNonces,
           NEW t \in Tabs, ByTab(t)
    PROVE  Contract!Next \/ UNCHANGED Contract!vars
<1>0. OthersKept(t)
  BY OthersAreKept
<1>1. CASE Open(t) \/ LogIn(t)
  <2>1. /\ phase[t] \in {"closed", "login"} /\ phase'[t] \in {"visit", "callback"}
        /\ flow'[t] = flow[t] /\ past'[t] = past[t] /\ UNCHANGED <<sessions, signedOut, trusted>>
    BY <1>1 DEF Open, LogIn, TypeOK, TabsOK, jar, keys
  <2>2. View' = View /\ OpenLogins' = OpenLogins
    BY <1>0, <2>1, NoView, SameLogins DEF Pending
  <2> QED
    BY <2>1, <2>2 DEF Contract!vars, View, OpenLogins
<1>2. CASE Visit(t)
  BY <1>0, <1>2, VisitIsAsk DEF Contract!Next
<1>3. ASSUME NEW user \in Users(t), AuthorizeAnswer(t, user) PROVE Contract!Next
  BY <1>0, <1>3, AnswerIsStep DEF Contract!Next
<1>4. ASSUME NEW user \in Users(t), AuthorizeRedirect(t, user) PROVE Contract!Next
  BY <1>0, <1>4, StartIsStep DEF Contract!Next
<1>5. CASE CallbackError(t) \/ Callback(t) \/ SigninFail(t) \/ Reload(t)
  BY <1>0, <1>5, LoginStaysOpen
<1>6. CASE SigninComplete(t)
  BY <1>0, <1>6, CompleteIsStep DEF Contract!Next, OpenLogins
<1>7. CASE Signout(t)
  BY <1>0, <1>7, SignoutIsSignOut DEF Contract!Next
<1>8. CASE SignoutRefused(t)
  BY <1>0, <1>8, SignoutRefusedIsStayIn DEF Contract!Next
<1>9. CASE AskSignout(t)
  BY <1>0, <1>9, AskSignoutIsAskOut DEF Contract!Next
<1>10. CASE Replay(t)
  BY <1>0, <1>10, ReplayIsDismiss DEF Contract!Next
<1> QED
  BY <1>1, <1>2, <1>3, <1>4, <1>5, <1>6, <1>7, <1>8, <1>9, <1>10 DEF ByTab, Step

\* The login flow keeps its contract, whatever its tabs do in whichever order:
\* a session comes from a login that this browser began and has not completed
\* before, pages and sign-outs are answered for the session that was sent, and
\* nothing else changes what the browser holds, but that cookies run out.
THEOREM LoginKeepsContract ==
    ASSUME OwnDomains
    PROVE  Spec => ContractKept
<1>1. Init => Contract!Init
  <2> SUFFICES ASSUME Init PROVE Contract!Init
    OBVIOUS
  <2>1. View = [t \in Tabs |-> Contract!Away]
    BY DEF Init, View, Contract!Away
  <2>2. OpenLogins = {}
    BY DEF Init, OpenLogins
  <2> QED
    BY <2>1, <2>2 DEF Init, Contract!Init, View, OpenLogins
<1>2. TypeOK /\ OwnNonces /\ [Next]_vars => [Contract!Next]_(Contract!vars)
  <2> SUFFICES ASSUME TypeOK, OwnNonces, [Next]_vars
               PROVE  Contract!Next \/ UNCHANGED Contract!vars
    OBVIOUS
  <2>1. CASE \E t \in Tabs : ByTab(t)
    BY <2>1, TabStep
  <2>2. ASSUME UNCHANGED <<phase, target, carried, flow, past>>
        PROVE  View' = View /\ OpenLogins' = OpenLogins
    BY <2>2 DEF View, OpenLogins
  <2>3. ASSUME NEW d \in Domains, Expire(d)
        PROVE  Contract!Lose(d) \/ UNCHANGED Contract!vars
    <3>1. UNCHANGED <<View, OpenLogins, signedOut, trusted>>
          /\ (sessions' = [sessions EXCEPT ![d] = None] \/ sessions' = sessions)
      BY <2>2, <2>3 DEF Expire, keys
    <3> QED
      BY <3>1 DEF Contract!Lose, Contract!vars, View, OpenLogins
  <2>4. CASE Learn \/ \E k \in Keys : Forget(k)
    <3>1. UNCHANGED <<View, OpenLogins, sessions, signedOut>>
      BY <2>2, <2>4 DEF Learn, Forget, jar
    <3>2. trusted' \in SUBSET Keys
      <4>1. key \in Keys /\ key <= MaxEvents /\ \A k \in trusted : k \in Nat /\ k <= key /\ key \in Nat
        BY KeysType, BoundAssumption DEF TypeOK, Keys
      <4>2. trusted \subseteq Keys
        BY <4>1, BoundAssumption DEF Keys
      <4> QED
        BY <2>4, <4>1, <4>2 DEF Learn, Forget
    <3> QED
      BY <3>1, <3>2 DEF Contract!Next, Contract!ChangeKeys, View, OpenLogins
  <2>5. CASE Rotate \/ Finished \/ UNCHANGED vars
    <3>1. UNCHANGED <<View, OpenLogins, sessions, signedOut, trusted>>
      BY <2>2, <2>5 DEF Rotate, Finished, vars, jar, keys
    <3> QED
      BY <3>1 DEF Contract!vars, View, OpenLogins
  <2> QED
    BY <2>1, <2>3, <2>4, <2>5 DEF Next, ByTab, Contract!Next
<1> QED
  BY <1>1, <1>2, NoncesStartOwn, NoncesStayOwn, TypeCorrect, PTL
  DEF Spec, ContractKept, Contract!Spec
=============================================================================
