--------------------------- MODULE LoginFlowProofs ---------------------------
(***************************************************************************)
(* The safety of the login flow, for every number of tabs, every set of    *)
(* hosts, every configuration with a redirect URI, every set of            *)
(* permissions and any number of key rotations and expiring cookies.       *)
(***************************************************************************)
EXTENDS LoginFlow, FiniteSetTheorems, WellFoundedInduction, TLAPS

-----------------------------------------------------------------------------
(* A fresh nonce is there to be taken *)

\* A function takes at most as many values as it has arguments.
LEMMA FewValues ==
    ASSUME NEW S, IsFiniteSet(S), NEW T, NEW f \in [S -> T]
    PROVE  IsFiniteSet({f[x] : x \in S}) /\ Cardinality({f[x] : x \in S}) <= Cardinality(S)
<1>1. f \in Surjection(S, {f[x] : x \in S})
  BY DEF Surjection
<1> QED
  BY <1>1, FS_Surjection

\* The records of a function from tabs take at most as many nonces as there are tabs.
LEMMA FewNonces ==
    ASSUME NEW S \in SUBSET Tabs, NEW f \in [Tabs -> Flows \cup {None}]
    PROVE  LET used == {f[t].nonce : t \in {u \in S : f[u] # None}}
           IN  IsFiniteSet(used) /\ Cardinality(used) <= Cardinality(Tabs)
<1> DEFINE busy == {u \in S : f[u] # None}
           g == [t \in busy |-> f[t].nonce]
           values == {g[t] : t \in busy}
           used == {f[t].nonce : t \in busy}
<1>1. IsFiniteSet(busy) /\ Cardinality(busy) <= Cardinality(Tabs)
  BY NoncesAssumption, FS_Subset
<1>2. g \in [busy -> Nonces]
  BY DEF Flows
<1>3. IsFiniteSet(values) /\ Cardinality(values) <= Cardinality(busy)
  <2> HIDE DEF g, busy
  <2> QED
    BY <1>1, <1>2, FewValues
<1>4. values = used
  OBVIOUS
<1>5. IsFiniteSet(used) /\ Cardinality(used) <= Cardinality(Tabs)
  <2> HIDE DEF busy, g, values, used
  <2>1. Cardinality(busy) \in Nat /\ Cardinality(Tabs) \in Nat /\ Cardinality(used) \in Nat
    BY <1>1, <1>3, <1>4, NoncesAssumption, FS_CardinalityType
  <2> QED
    BY <1>1, <1>3, <1>4, <2>1
<1> QED
  BY <1>5

\* There are more nonces than cookies and tabs can hold.
LEMMA FreshNonces ==
    ASSUME TypeOK, NEW t \in Tabs
    PROVE  FreshNonce(t) \in Nonces \ NonceInUse(t)
<1> DEFINE left == SetCookie(nonces, Here(t).token_cookie_domain, target[t].host, None)
           visited == [u \in Tabs |-> IF past[u] = None THEN None ELSE past[u].login]
           N1 == {left[d] : d \in Domains}
           N2 == {flow[u].nonce : u \in {v \in Tabs : flow[v] # None}}
           N3 == {past[u].login.nonce : u \in {v \in Tabs \ {t} : past[v] # None}}
<1>1. IsFiniteSet(N1) /\ Cardinality(N1) <= Cardinality(Domains)
  <2>1. left \in [Domains -> Nonces \cup {None}] /\ IsFiniteSet(Domains)
    BY NoncesAssumption DEF TypeOK, JarOK, SetCookie
  <2> HIDE DEF left
  <2> QED
    BY <2>1, FewValues
<1>2. IsFiniteSet(N2) /\ Cardinality(N2) <= Cardinality(Tabs)
  BY FewNonces DEF TypeOK, TabsOK
<1>3. IsFiniteSet(N3) /\ Cardinality(N3) <= Cardinality(Tabs)
  <2>1. \A u \in Tabs : past[u] # None => past[u].login \in Flows /\ past[u].login # None
    BY NoneAssumption DEF TypeOK, TabsOK, Visits
  <2>2. visited \in [Tabs -> Flows \cup {None}]
    BY <2>1
  <2>3. N3 = {visited[u].nonce : u \in {v \in Tabs \ {t} : visited[v] # None}}
    BY <2>1
  <2> HIDE DEF visited, N3
  <2> QED
    BY <2>2, <2>3, FewNonces
<1> HIDE DEF N1, N2, N3
<1>4. /\ IsFiniteSet(N1 \cup N2 \cup N3)
      /\ Cardinality(N1 \cup N2 \cup N3) <= 2 * Cardinality(Tabs) + Cardinality(Domains)
  <2>1. /\ IsFiniteSet(N1 \cup N2)
        /\ Cardinality(N1 \cup N2) = Cardinality(N1) + Cardinality(N2) - Cardinality(N1 \cap N2)
    BY <1>1, <1>2, FS_Union
  <2>2. /\ IsFiniteSet((N1 \cup N2) \cup N3)
        /\ Cardinality((N1 \cup N2) \cup N3) =
             Cardinality(N1 \cup N2) + Cardinality(N3) - Cardinality((N1 \cup N2) \cap N3)
    BY <2>1, <1>3, FS_Union
  <2>3. IsFiniteSet(N1 \cap N2) /\ IsFiniteSet((N1 \cup N2) \cap N3)
    BY <1>1, <1>3, FS_Subset
  <2>4. \A S \in {N1, N2, N3, N1 \cap N2, N1 \cup N2, (N1 \cup N2) \cap N3, Tabs, Domains} :
            Cardinality(S) \in Nat
    BY <1>1, <1>2, <1>3, <2>1, <2>3, NoncesAssumption, FS_CardinalityType
  <2> QED
    BY <1>1, <1>2, <1>3, <2>1, <2>2, <2>4
<1>5. \E n \in Nonces : n \notin N1 \cup N2 \cup N3
  <2> SUFFICES ASSUME Nonces \subseteq N1 \cup N2 \cup N3 PROVE FALSE
    OBVIOUS
  <2>1. Cardinality(Nonces) <= Cardinality(N1 \cup N2 \cup N3)
    BY <1>4, FS_Subset
  <2>2. /\ Cardinality(Nonces) \in Nat /\ Cardinality(N1 \cup N2 \cup N3) \in Nat
        /\ Cardinality(Tabs) \in Nat /\ Cardinality(Domains) \in Nat
    BY <1>4, NoncesAssumption, FS_CardinalityType
  <2> QED
    BY <1>4, <2>1, <2>2, NoncesAssumption
<1> QED
  BY <1>5 DEF FreshNonce, NonceInUse, N1, N2, N3

-----------------------------------------------------------------------------
(* Types *)

\* A response leaves a jar a jar.
LEMMA SetCookieType ==
    ASSUME NEW S, NEW cookies \in [Domains -> S], NEW d, NEW h, NEW value \in S
    PROVE  SetCookie(cookies, d, h, value) \in [Domains -> S]
BY DEF SetCookie

\* A request is read as having one of the jar's cookies, or none.
LEMMA SentType ==
    ASSUME NEW S, None \in S, NEW cookies \in [Domains -> S], NEW h
    PROVE  Sent(cookies, h) \subseteq S
BY DEF Sent

\* A tab that is after a page asks an application that is configured.
LEMMA HereType ==
    ASSUME TypeOK, NEW t \in Tabs, phase[t] # "closed"
    PROVE  /\ target[t] \in Targets /\ ReturnTo(target[t]) \in Targets
           /\ target[t].host \in Hosts
           /\ Here(t).redirect_uri \in Hosts
BY TargetsAssumption, RedirectUriAssumption, NoneAssumption DEF TypeOK, TabsOK, Here, App, ReturnTo

\* The provider's key is one of its keys, and stays one.
LEMMA KeysType ==
    ASSUME KeysOK
    PROVE  /\ events \in Nat /\ key \in Nat /\ key \in Keys
           /\ \A k \in trusted : k \in Nat /\ k <= key
<1>1. events \in Nat /\ events <= MaxEvents /\ key \in Nat /\ key <= events
  BY BoundAssumption DEF KeysOK
<1>2. key <= MaxEvents
  BY <1>1, BoundAssumption
<1> QED
  BY <1>1, <1>2, BoundAssumption DEF KeysOK, Keys

\* Cookies go to hosts.
LEMMA ReachType == ASSUME NEW app PROVE Reach(app) \subseteq Hosts
BY CoversAssumption DEF Reach

\* What a tab does.
ByTab(t) == Open(t) \/ Step(t) \/ Reload(t) \/ Replay(t) \/ AskSignout(t)

\* A login that a tab leaves is one it may come back to.
LEMMA LeaveType ==
    ASSUME TypeOK, NEW t \in Tabs, NEW done \in BOOLEAN, LeaveLogin(t, done), flow[t] # None
    PROVE  /\ flow' \in [Tabs -> Flows \cup {None}] /\ past' \in [Tabs -> Visits \cup {None}]
           /\ flow' = [flow EXCEPT ![t] = None]
           /\ \A u \in Tabs : flow'[u] # None /\ past'[u] # None => past'[u].login = flow'[u]
<1>1. [login |-> flow[t], done |-> done] \in Visits
  BY DEF TypeOK, TabsOK, Visits
<1> QED
  BY <1>1 DEF LeaveLogin, TypeOK, TabsOK

\* The types are kept: by the tabs' own steps,
LEMMA TabsKept ==
    ASSUME TypeOK, NEW t \in Tabs, ByTab(t)
    PROVE  TypeOK'
<1> USE NoneAssumption DEF TypeOK
<1>1. CASE Open(t)
  <2>1. TabsOK'
    BY <1>1 DEF TabsOK, Open, Resting, Active
  <2> QED
    BY <1>1, <2>1 DEF JarOK, KeysOK, Open, jar, keys
<1>2. CASE Visit(t)
  <2>1. Sent(sessions, target[t].host) \subseteq Sessions \cup {None}
    BY SentType DEF JarOK
  <2>2. TabsOK'
    BY <1>2, <2>1 DEF TabsOK, Visit, Resting, Active
  <2> QED
    BY <1>2, <2>2 DEF JarOK, KeysOK, Visit, jar, keys
<1>3. ASSUME NEW user \in Users(t), AuthorizeAnswer(t, user) PROVE TypeOK'
  <2>1. Decision(t, user) \in {"granted", "denied", "unauthorized"}
    BY <1>3 DEF AuthorizeAnswer, Decision, PerformAuthorization
  <2>2. TabsOK'
    BY <1>3, <2>1 DEF TabsOK, AuthorizeAnswer, Resting, Active
  <2> QED
    BY <1>3, <2>2 DEF JarOK, KeysOK, AuthorizeAnswer, jar, keys
<1>4. ASSUME NEW user \in Users(t), AuthorizeRedirect(t, user) PROVE TypeOK'
  <2> DEFINE login == [nonce |-> FreshNonce(t), client |-> Here(t).client_id,
                       aud |-> Here(t).audience, callback |-> Here(t).redirect_uri]
  <2>1. FreshNonce(t) \in Nonces
    BY FreshNonces
  <2>2. login \in Flows
    <3>1. target[t].host \in Hosts /\ Here(t).redirect_uri \in Hosts
      BY <1>4, HereType DEF AuthorizeRedirect
    <3> QED
      BY <2>1, <3>1 DEF Flows, Here, App
  <2>3. nonces' \in [Domains -> Nonces \cup {None}]
    BY <1>4, <2>1, SetCookieType DEF AuthorizeRedirect, JarOK
  <2>4. /\ flow' = [flow EXCEPT ![t] = login]
        /\ phase[t] = "authorizing" /\ phase' = [phase EXCEPT ![t] = "login"]
        /\ carried' = [carried EXCEPT ![t] = None]
        /\ past' = [past EXCEPT ![t] = None]
        /\ UNCHANGED <<target, sessions, key, trusted, signedOut, events>>
    BY <1>4 DEF AuthorizeRedirect, keys
  <2> HIDE DEF login
  <2>5. TabsOK'
    BY <2>2, <2>4 DEF TabsOK, Resting, Active
  <2> QED
    BY <2>3, <2>4, <2>5 DEF JarOK, KeysOK
<1>5. CASE LogIn(t)
  <2>1. TabsOK'
    BY <1>5 DEF TabsOK, LogIn, Resting, Active
  <2> QED
    BY <1>5, <2>1 DEF JarOK, KeysOK, LogIn, jar, keys
<1>6. CASE CallbackError(t) \/ SigninFail(t)
  <2>1. phase[t] \in {"login", "signin"} /\ flow[t] # None /\ LeaveLogin(t, FALSE)
        /\ phase' = [phase EXCEPT ![t] = "failed"] /\ UNCHANGED <<target, carried, nonces, sessions>>
    BY <1>6 DEF TabsOK, CallbackError, SigninFail, jar
  <2>2. TabsOK'
    BY <2>1, LeaveType DEF TabsOK, Resting, Active
  <2> QED
    BY <1>6, <2>1, <2>2 DEF JarOK, KeysOK, CallbackError, SigninFail, keys
<1>7. CASE Callback(t)
  <2>1. phase[t] = "callback" /\ flow[t] # None
        /\ target[t] \in Targets /\ ReturnTo(target[t]) \in Targets
    BY <1>7, HereType DEF Callback, TabsOK
  <2>2. TabsOK'
    <3>1. CASE phase' = [phase EXCEPT ![t] = "signin"] /\ UNCHANGED <<target, flow, past>>
      BY <1>7, <3>1 DEF TabsOK, Callback, Resting, Active
    <3>2. CASE /\ phase' = [phase EXCEPT ![t] = "visit"]
               /\ target' = [target EXCEPT ![t] = ReturnTo(@)]
               /\ LeaveLogin(t, past[t] # None /\ past[t].done)
      <4>1. (past[t] # None /\ past[t].done) \in BOOLEAN
        BY DEF TabsOK, Visits
      <4>2. UNCHANGED carried
        BY <1>7 DEF Callback
      <4> QED
        BY <2>1, <3>2, <4>1, <4>2, LeaveType DEF TabsOK, Resting, Active
    <3> QED
      BY <1>7, <3>1, <3>2 DEF Callback
  <2> QED
    BY <1>7, <2>2 DEF JarOK, KeysOK, Callback, jar, keys
<1>8. CASE SigninComplete(t)
  <2>1. target[t] \in Targets /\ ReturnTo(target[t]) \in Targets
    BY <1>8, HereType DEF SigninComplete
  <2>2. flow[t] \in Flows
    BY <1>8 DEF TabsOK, SigninComplete
  <2>3. PICK permissions \in Grants[flow[t].aud] :
          sessions' = SetCookie(sessions, CallbackApp(t).token_cookie_domain, flow[t].callback,
                        [aud |-> flow[t].aud, permissions |-> permissions, key |-> key])
    BY <1>8 DEF SigninComplete
  <2>4. [aud |-> flow[t].aud, permissions |-> permissions, key |-> key] \in Sessions
    <3>1. flow[t].aud \in {App(h).audience : h \in Hosts}
      BY <2>2 DEF Flows
    <3>2. key \in Keys
      BY KeysType
    <3>3. [aud |-> flow[t].aud, permissions |-> permissions, key |-> key]
             \in [aud: {flow[t].aud}, permissions: Grants[flow[t].aud], key: Keys]
      BY <3>2
    <3> QED
      BY <3>1, <3>3, Zenon DEF Sessions
  <2>5. sessions' \in [Domains -> Sessions \cup {None}]
    BY <2>3, <2>4, SetCookieType DEF JarOK
  <2>6. nonces' \in [Domains -> Nonces \cup {None}]
    BY <1>8, SetCookieType DEF JarOK, SigninComplete
  <2>7. TabsOK'
    <3>1. LeaveLogin(t, TRUE) /\ phase' = [phase EXCEPT ![t] = "visit"] /\ phase[t] = "signin"
          /\ target' = [target EXCEPT ![t] = ReturnTo(@)] /\ UNCHANGED carried
      BY <1>8 DEF SigninComplete
    <3>2. flow[t] # None
      BY <3>1 DEF TabsOK
    <3> QED
      BY <2>1, <3>1, <3>2, LeaveType DEF TabsOK, Resting, Active
  <2> QED
    BY <1>8, <2>5, <2>6, <2>7 DEF JarOK, KeysOK, SigninComplete, keys
<1>9. CASE SignoutRefused(t)
  <2>1. TabsOK'
    BY <1>9 DEF TabsOK, SignoutRefused, Resting, Active
  <2> QED
    BY <1>9, <2>1 DEF JarOK, KeysOK, SignoutRefused, jar, keys
<1>10. CASE Signout(t)
  <2>1. sessions' \in [Domains -> Sessions \cup {None}]
    BY <1>10 DEF JarOK, Signout, SetCookie
  <2>2. TabsOK'
    <3>1. phase[t] = "signout" /\ carried' = [carried EXCEPT ![t] = None] /\ UNCHANGED flow
      BY <1>10 DEF Signout
    <3>2. CASE /\ phase' = [phase EXCEPT ![t] = "closed"]
               /\ target' = [target EXCEPT ![t] = None]
               /\ past' = [past EXCEPT ![t] = None]
      BY <3>1, <3>2 DEF TabsOK, Resting, Active
    <3>3. CASE phase' = [phase EXCEPT ![t] = "failed"] /\ UNCHANGED <<target, past>>
      BY <3>1, <3>3 DEF TabsOK, Resting, Active
    <3> QED
      BY <1>10, <3>2, <3>3 DEF Signout
  <2> QED
    BY <1>10, <2>1, <2>2, ReachType DEF JarOK, KeysOK, Signout, keys
<1>11. CASE Replay(t)
  <2>1. past[t].login \in Flows
    BY <1>11 DEF TabsOK, Visits, Replay
  <2>2. TabsOK'
    BY <1>11, <2>1 DEF TabsOK, Replay, Resting, Active
  <2> QED
    BY <1>11, <2>2 DEF JarOK, KeysOK, Replay, jar, keys
<1>12. CASE AskSignout(t)
  <2>1. Sent(sessions, target[t].host) \subseteq Sessions \cup {None}
    BY SentType DEF JarOK
  <2>2. TabsOK'
    BY <1>12, <2>1 DEF TabsOK, AskSignout, Resting, Active
  <2> QED
    BY <1>12, <2>2 DEF JarOK, KeysOK, AskSignout, jar, keys
<1>13. CASE Reload(t)
  <2>1. [login |-> flow[t], done |-> FALSE] \in Visits
    BY <1>13 DEF TabsOK, Visits, Reload
  <2>2. TabsOK'
    BY <1>13, <2>1 DEF TabsOK, Reload, Resting, Active
  <2> QED
    BY <1>13, <2>2 DEF JarOK, KeysOK, Reload, jar, keys
<1> QED
  BY <1>1, <1>2, <1>3, <1>4, <1>5, <1>6, <1>7, <1>8, <1>9, <1>10, <1>11, <1>12, <1>13
  DEF ByTab, Step

\* and by everything else that happens.
LEMMA TypesKept == TypeOK /\ [Next]_vars => TypeOK'
<1> SUFFICES ASSUME TypeOK, [Next]_vars PROVE TypeOK'
  OBVIOUS
<1>1. CASE \E t \in Tabs : ByTab(t)
  BY <1>1, TabsKept
<1>2. CASE \E d \in Domains : Expire(d)
  BY <1>2, BoundAssumption DEF TypeOK, TabsOK, JarOK, KeysOK, Expire, keys
<1>3. CASE Rotate \/ Learn \/ \E k \in Keys : Forget(k)
  <2>1. TabsOK' /\ JarOK' /\ signedOut' = signedOut
    BY <1>3 DEF TypeOK, TabsOK, JarOK, Rotate, Learn, Forget, jar
  <2>2. KeysOK'
    <3> USE KeysType, BoundAssumption DEF TypeOK, KeysOK
    <3>1. CASE Rotate
      BY <3>1 DEF Rotate
    <3>2. CASE Learn
      BY <3>2 DEF Learn
    <3>3. CASE \E k \in Keys : Forget(k)
      BY <3>3 DEF Forget
    <3> QED
      BY <1>3, <3>1, <3>2, <3>3
  <2> QED
    BY <2>1, <2>2 DEF TypeOK
<1>4. CASE Finished \/ UNCHANGED vars
  BY <1>4 DEF TypeOK, TabsOK, JarOK, KeysOK, Finished, vars, jar, keys
<1> QED
  BY <1>1, <1>2, <1>3, <1>4 DEF Next, ByTab

\* The types hold at the start.
LEMMA TypesStart == Init => TypeOK
<1> SUFFICES ASSUME Init PROVE TypeOK
  OBVIOUS
<1>1. TabsOK
  BY DEF Init, TabsOK, Resting, Active
<1>2. JarOK /\ signedOut \subseteq Hosts
  BY DEF Init, JarOK
<1>3. KeysOK
  BY BoundAssumption DEF Init, KeysOK
<1> QED
  BY <1>1, <1>2, <1>3 DEF TypeOK

\* Every variable of the login flow keeps its type.
THEOREM TypeCorrect == Spec => []TypeOK
BY TypesStart, TypesKept, PTL DEF Spec

-----------------------------------------------------------------------------
(* Pages *)

\* A tab that is not shown a page by a step, and one that the step leaves
\* alone, makes no new claim.
Earned(t) ==
    phase[t] = "granted" /\ target[t].method \in Here(t).restricted_methods
            /\ target[t].path # "callback" =>
        /\ carried[t] # None
        /\ carried[t].aud = Here(t).audience
        /\ \A p \in Here(t).required_permissions :
            carried[t].permissions # NoClaim /\ p \in carried[t].permissions

\* What /authorize grants, the session has earned.
LEMMA AnswersAreEarned ==
    ASSUME TypeOK, NEW t \in Tabs, NEW user \in Users(t),
           AuthorizeAnswer(t, user), Decision(t, user) = "granted",
           target[t].method \in Here(t).restricted_methods, target[t].path # "callback"
    PROVE  /\ carried[t] # None
           /\ carried[t].aud = Here(t).audience
           /\ \A p \in Here(t).required_permissions :
                carried[t].permissions # NoClaim /\ p \in carried[t].permissions
<1>1. Here(t).redirect_uri # ""
  BY HereType, NoneAssumption DEF AuthorizeAnswer
<1>2. ~IsCallback(Here(t), target[t])
  BY <1>1 DEF IsCallback
<1>3. user # None /\ Permitted(Here(t), user)
  BY <1>2 DEF Decision, PerformAuthorization
<1>4. carried[t] # None /\ carried[t].aud = Here(t).audience /\ user = carried[t]
  BY <1>3 DEF Users, Acceptable
<1> QED
  BY <1>3, <1>4 DEF Permitted

\* A page that is shown stays earned until the tab leaves it: the session that
\* it was granted on is the one that the request carried.
LEMMA EarnedKept == TypeOK /\ GrantsAreEarned /\ [Next]_vars => GrantsAreEarned'
<1> SUFFICES ASSUME TypeOK, \A u \in Tabs : Earned(u), [Next]_vars, NEW u \in Tabs
             PROVE  Earned(u)'
  BY DEF GrantsAreEarned, Earned
<1>1. ASSUME phase'[u] = phase[u], target'[u] = target[u], carried'[u] = carried[u]
      PROVE  Earned(u)'
  BY <1>1 DEF Earned, Here
<1>2. ASSUME NEW t \in Tabs, ByTab(t) PROVE Earned(u)'
  <2>1. CASE u # t
    <3>1. phase'[u] = phase[u] /\ target'[u] = target[u] /\ carried'[u] = carried[u]
      BY <1>2, <2>1 DEF TypeOK, TabsOK, ByTab, Open, Step, Visit, AuthorizeAnswer,
        AuthorizeRedirect, LogIn, CallbackError, Callback, SigninComplete, SigninFail,
        SignoutRefused, Signout, Reload, Replay, AskSignout
    <3> QED
      BY <3>1, <1>1
  <2>2. ASSUME u = t, NEW user \in Users(t), AuthorizeAnswer(t, user) PROVE Earned(u)'
    <3>1. phase'[t] = Decision(t, user) /\ target' = target
          /\ (Decision(t, user) = "granted" => carried'[t] = carried[t])
      BY <2>2 DEF AuthorizeAnswer, TypeOK, TabsOK
    <3> QED
      BY <2>2, <3>1, AnswersAreEarned DEF Earned, Here
  <2>3. CASE u = t /\ ~(\E user \in Users(t) : AuthorizeAnswer(t, user))
    <3>1. phase'[t] # "granted"
      BY <1>2, <2>3 DEF TypeOK, TabsOK, ByTab, Open, Step, Visit, AuthorizeRedirect,
        LogIn, CallbackError, Callback, SigninComplete, SigninFail, SignoutRefused, Signout,
        Reload, Replay, AskSignout
    <3> QED
      BY <2>3, <3>1 DEF Earned
  <2> QED
    BY <1>2, <2>1, <2>2, <2>3
<1>3. CASE (\E d \in Domains : Expire(d)) \/ Rotate \/ Learn \/ (\E k \in Keys : Forget(k))
           \/ Finished \/ UNCHANGED vars
  <2>1. UNCHANGED <<phase, target, carried>>
    BY <1>3 DEF Expire, Rotate, Learn, Forget, Finished, vars
  <2> QED
    BY <2>1, <1>1
<1> QED
  BY <1>2, <1>3 DEF Next, ByTab

\* No page of a restricted method is shown but on a session for that very
\* application's audience with every permission it requires: apps share one
\* cookie, and any app's callback may have filled it.
THEOREM GrantsEarned == Spec => []GrantsAreEarned
<1>1. Init => GrantsAreEarned
  BY DEF Init, GrantsAreEarned
<1> QED
  BY <1>1, EarnedKept, TypeCorrect, PTL DEF Spec

-----------------------------------------------------------------------------
(* Cookies, where every application has one domain *)

\* Every application sets its cookies for a domain of its own hosts, and no
\* host is under two of them: the "TLD shared by all apps" of SKILL.md:247, or
\* several of those.  Where one domain lies within another, a request carries
\* the cookies of both, and an application clears only one.
OwnDomains ==
    /\ \A h \in Hosts :
        App(h).token_cookie_domain \in Domains /\ h \in Covers[App(h).token_cookie_domain]
    /\ \A d, e \in Domains : Covers[d] \cap Covers[e] # {} => d = e

\* A response sets cookies of one domain, which is the only one that its host is under.
LEMMA OwnDomain ==
    ASSUME OwnDomains, NEW h \in Hosts
    PROVE  LET own == App(h).token_cookie_domain
           IN  /\ own \in Domains /\ h \in Covers[own] /\ Reach(App(h)) = Covers[own]
               /\ \A d \in Domains : h \in Covers[d] => d = own
BY DEF OwnDomains, Reach

\* The jar has no session for a host that is signed out.
JarIsOut == \A d \in Domains : Covers[d] \cap signedOut # {} => sessions[d] = None

\* Only a completed login puts a session back.
LEMMA JarStaysOut ==
    ASSUME OwnDomains
    PROVE  TypeOK /\ JarIsOut /\ [Next]_vars => JarIsOut'
<1> SUFFICES ASSUME TypeOK, JarIsOut, [Next]_vars PROVE JarIsOut'
  OBVIOUS
<1>0. sessions \in [Domains -> Sessions \cup {None}]
  BY DEF TypeOK, JarOK
<1>1. ASSUME NEW t \in Tabs, SigninComplete(t) PROVE JarIsOut'
  <2> DEFINE host == flow[t].callback
             own == App(host).token_cookie_domain
  <2>1. host \in Hosts
    BY <1>1, NoneAssumption DEF SigninComplete, TypeOK, TabsOK, Flows
  <2>2. PICK session : sessions' = SetCookie(sessions, own, host, session)
    BY <1>1 DEF SigninComplete, CallbackApp
  <2>3. signedOut' = signedOut \ Reach(App(host))
    BY <1>1 DEF SigninComplete, CallbackApp
  <2>4. Reach(App(host)) = Covers[own]
    BY <2>1, OwnDomain
  <2> HIDE DEF host, own
  <2>5. \A d \in Domains \ {own} : sessions'[d] = sessions[d]
    BY <1>0, <2>2 DEF SetCookie
  <2>6. signedOut' = signedOut \ Covers[own]
    BY <2>3, <2>4
  <2> QED
    BY <2>5, <2>6 DEF JarIsOut
<1>2. ASSUME NEW t \in Tabs, Signout(t) PROVE JarIsOut'
  <2> DEFINE host == target[t].host
             own == App(host).token_cookie_domain
  <2>1. host \in Hosts
    BY <1>2, HereType DEF Signout
  <2>2. sessions' = SetCookie(sessions, own, host, None)
        /\ signedOut' = signedOut \cup Reach(App(host))
    BY <1>2 DEF Signout, Here
  <2>3. own \in Domains /\ host \in Covers[own] /\ Reach(App(host)) = Covers[own]
    BY <2>1, OwnDomain
  <2>4. \A d \in Domains \ {own} : Covers[d] \cap Covers[own] = {}
    BY <2>3 DEF OwnDomains
  <2> HIDE DEF host, own
  <2>5. /\ sessions'[own] = None
        /\ \A d \in Domains \ {own} : sessions'[d] = sessions[d]
        /\ signedOut' = signedOut \cup Covers[own]
    BY <1>0, <2>2, <2>3 DEF SetCookie
  <2> QED
    BY <2>4, <2>5 DEF JarIsOut
<1>3. ASSUME NEW d \in Domains, Expire(d) PROVE JarIsOut'
  BY <1>0, <1>3 DEF Expire, JarIsOut
<1>4. ASSUME UNCHANGED <<sessions, signedOut>> PROVE JarIsOut'
  BY <1>4 DEF JarIsOut
<1> QED
  BY <1>1, <1>2, <1>3, <1>4 DEF Next, Step, Open, Visit, AuthorizeAnswer, AuthorizeRedirect, LogIn,
    CallbackError, Callback, SigninFail, SignoutRefused, Reload, Replay, AskSignout, Rotate, Learn,
    Forget, Finished, vars, jar

\* A sign-out that the gateway accepted leaves no session behind, whatever the
\* other tabs were doing: none of their requests under way brings one back
\* short of completing a login.
THEOREM SignedOut ==
    ASSUME OwnDomains
    PROVE  Spec => []SignedOutMeansOut
<1>1. Init => JarIsOut
  BY DEF Init, JarIsOut
<1>2. TypeOK /\ JarIsOut => SignedOutMeansOut
  BY DEF JarIsOut, SignedOutMeansOut, Sent, TypeOK
<1> QED
  BY <1>1, <1>2, JarStaysOut, TypeCorrect, PTL DEF Spec

\* Who may still present a code, and which codes are spent.  The nonces that two
\* tabs know are different,
KnownByOne ==
    \A t, u \in Tabs : t # u =>
        /\ flow[t] # None /\ flow[u] # None => flow[t].nonce # flow[u].nonce
        /\ flow[t] # None /\ past[u] # None => flow[t].nonce # past[u].login.nonce
        /\ past[t] # None /\ past[u] # None => past[t].login.nonce # past[u].login.nonce
\* a tab at the provider's login page has no other login to come back to, and one
\* that redeems a code has not completed that login before,
PastIsOver ==
    \A t \in Tabs :
        /\ phase[t] = "login" => past[t] = None
        /\ phase[t] = "signin" /\ past[t] # None => ~past[t].done
\* no cookie holds the nonce of a completed login,
SpentIsGone ==
    \A d \in Domains, u \in Tabs :
        nonces[d] # None /\ past[u] # None /\ past[u].done => nonces[d] # past[u].login.nonce
\* a nonce is in one cookie, and while its code is redeemed in one that goes to
\* the host of the callback, which can clear it.
NonceInOnePlace ==
    /\ \A d, e \in Domains : nonces[d] # None /\ nonces[d] = nonces[e] => d = e
    /\ \A t \in Tabs, d \in Domains :
        phase[t] = "signin" /\ nonces[d] = flow[t].nonce => flow[t].callback \in Covers[d]
OwnNonces == KnownByOne /\ PastIsOver /\ SpentIsGone /\ NonceInOnePlace

\* A nonce that other tabs know is in use, and one that the new AUTH_NONCE leaves
\* in a cookie.
LEMMA InUse ==
    ASSUME TypeOK, NEW t \in Tabs
    PROVE  /\ \A u \in Tabs : flow[u] # None => flow[u].nonce \in NonceInUse(t)
           /\ \A u \in Tabs \ {t} : past[u] # None => past[u].login.nonce \in NonceInUse(t)
           /\ \A n : \A d \in Domains :
                LET own == Here(t).token_cookie_domain
                IN  SetCookie(nonces, own, target[t].host, n)[d]
                        \in NonceInUse(t) \cup (IF d = own THEN {n} ELSE {})
<1> DEFINE own == Here(t).token_cookie_domain
           left == SetCookie(nonces, own, target[t].host, None)
<1>1. \A d \in Domains : left[d] \in NonceInUse(t)
  BY DEF NonceInUse
<1>2. \A n : \A d \in Domains :
        SetCookie(nonces, own, target[t].host, n)[d] \in {left[d]} \cup (IF d = own THEN {n} ELSE {})
  BY DEF SetCookie, TypeOK, JarOK
<1>3. \A u \in Tabs : flow[u] # None => flow[u].nonce \in NonceInUse(t)
  BY DEF NonceInUse
<1>4. \A u \in Tabs \ {t} : past[u] # None => past[u].login.nonce \in NonceInUse(t)
  BY DEF NonceInUse
<1> HIDE DEF own, left
<1>5. \A n : \A d \in Domains :
        SetCookie(nonces, own, target[t].host, n)[d]
            \in NonceInUse(t) \cup (IF d = own THEN {n} ELSE {})
  BY <1>1, <1>2
<1> QED
  BY <1>3, <1>4, <1>5 DEF own

\* A login has a nonce.
LEMMA NonceOfFlow ==
    ASSUME TypeOK, NEW t \in Tabs, flow[t] # None
    PROVE  flow[t].nonce \in Nonces /\ flow[t].nonce # None /\ flow[t].callback \in Hosts
BY NoneAssumption DEF TypeOK, TabsOK, Flows

\* A login that starts takes a nonce that nobody knows, and its tab forgets the
\* login before.
LEMMA StartsFresh ==
    ASSUME TypeOK, OwnNonces, NEW t \in Tabs, NEW user \in Users(t), AuthorizeRedirect(t, user)
    PROVE  OwnNonces'
<1> DEFINE n == FreshNonce(t)
           own == Here(t).token_cookie_domain
           used == NonceInUse(t)
<1>1. n \notin used
  BY FreshNonces
<1>2. /\ flow'[t] # None => flow'[t].nonce = n
      /\ past'[t] = None /\ phase'[t] = "login"
      /\ \A u \in Tabs \ {t} :
           flow'[u] = flow[u] /\ past'[u] = past[u] /\ phase'[u] = phase[u]
  BY DEF AuthorizeRedirect, TypeOK, TabsOK
<1>3. /\ \A d \in Domains : nonces'[d] \in used \/ (d = own /\ nonces'[d] = n)
      /\ \A d \in Domains : nonces'[d] = nonces[d] \/ (d = own /\ nonces'[d] = n)
  <2>1. nonces' = SetCookie(nonces, own, target[t].host, n)
    BY DEF AuthorizeRedirect
  <2>2. \A d \in Domains : nonces'[d] = nonces[d] \/ (d = own /\ nonces'[d] = n)
    BY <2>1 DEF SetCookie, TypeOK, JarOK
  <2>3. \A d \in Domains : nonces'[d] \in used \cup (IF d = own THEN {n} ELSE {})
    BY <2>1, InUse
  <2> QED
    BY <2>2, <2>3
<1>4. \A u \in Tabs : phase[u] = "signin" => flow[u] # None
  BY DEF TypeOK, TabsOK
<1>5. /\ \A u \in Tabs : flow[u] # None => flow[u].nonce \in used
      /\ \A u \in Tabs \ {t} : past[u] # None => past[u].login.nonce \in used
  BY InUse
<1> HIDE DEF n, own, used
<1>6. KnownByOne'
  BY <1>1, <1>2, <1>5 DEF OwnNonces, KnownByOne
<1>7. PastIsOver'
  BY <1>2 DEF OwnNonces, PastIsOver
<1>8. SpentIsGone'
  BY <1>1, <1>2, <1>3, <1>5 DEF OwnNonces, SpentIsGone
<1>9. NonceInOnePlace'
  <2>1. \A d, e \in Domains : nonces'[d] # None /\ nonces'[d] = nonces'[e] => d = e
    BY <1>1, <1>3 DEF OwnNonces, NonceInOnePlace
  <2>2. \A u \in Tabs, d \in Domains :
          phase'[u] = "signin" /\ nonces'[d] = flow'[u].nonce => flow'[u].callback \in Covers[d]
    BY <1>1, <1>2, <1>3, <1>4, <1>5 DEF OwnNonces, NonceInOnePlace
  <2> QED
    BY <2>1, <2>2 DEF NonceInOnePlace
<1> QED
  BY <1>6, <1>7, <1>8, <1>9 DEF OwnNonces

\* A login is checked against a cookie that no completed login has, and that the
\* host of the callback was sent.
LEMMA ChecksTheNonce ==
    ASSUME TypeOK, OwnNonces, NEW t \in Tabs, Callback(t)
    PROVE  OwnNonces'
<1>1. /\ phase[t] = "callback" /\ flow[t] # None /\ nonces' = nonces
      /\ \A u \in Tabs \ {t} :
           flow'[u] = flow[u] /\ past'[u] = past[u] /\ phase'[u] = phase[u]
  BY DEF Callback, LeaveLogin, TypeOK, TabsOK, jar
<1>2. past[t] # None => past[t].login = flow[t]
  BY <1>1 DEF TypeOK, TabsOK
<1>3. CASE phase' = [phase EXCEPT ![t] = "signin"] /\ UNCHANGED <<target, flow, past>>
  <2>1. phase'[t] = "signin"
    BY <1>3 DEF TypeOK, TabsOK
  <2>2. PICK d \in Domains :
            flow[t].callback \in Covers[d] /\ nonces[d] # None /\ nonces[d] = flow[t].nonce
    <3>1. PICK nonce \in Sent(nonces, flow[t].callback) : nonce = flow[t].nonce
      BY <2>1 DEF Callback, TypeOK, TabsOK
    <3>2. flow[t].nonce # None
      BY <1>1, NonceOfFlow
    <3> QED
      BY <3>1, <3>2 DEF Sent
  <2>3. past[t] # None => ~past[t].done
    BY <1>2, <2>2 DEF OwnNonces, SpentIsGone
  <2>4. KnownByOne' /\ SpentIsGone'
    BY <1>1, <1>3 DEF OwnNonces, KnownByOne, SpentIsGone
  <2>5. PastIsOver'
    BY <1>1, <1>3, <2>1, <2>3 DEF OwnNonces, PastIsOver
  <2>6. NonceInOnePlace'
    <3>1. ASSUME NEW e \in Domains, nonces[e] = flow[t].nonce PROVE flow[t].callback \in Covers[e]
      BY <2>2, <3>1 DEF OwnNonces, NonceInOnePlace
    <3> QED
      BY <1>1, <1>3, <3>1 DEF OwnNonces, NonceInOnePlace
  <2> QED
    BY <2>4, <2>5, <2>6 DEF OwnNonces
<1>4. CASE phase' = [phase EXCEPT ![t] = "visit"]
           /\ LeaveLogin(t, past[t] # None /\ past[t].done)
  <2> DEFINE done == past[t] # None /\ past[t].done
  <2>1. /\ phase'[t] = "visit" /\ flow'[t] = None
        /\ past'[t].login = flow[t]
        /\ past'[t].done => past[t] # None /\ past[t].done
    <3>1. phase'[t] = "visit" /\ flow'[t] = None /\ past'[t] = [login |-> flow[t], done |-> done]
      <4> HIDE DEF done
      <4>1. phase' = [phase EXCEPT ![t] = "visit"] /\ LeaveLogin(t, done)
        BY <1>4 DEF done
      <4> QED
        BY <4>1 DEF LeaveLogin, TypeOK, TabsOK
    <3>2. past'[t].done = done /\ past'[t].login = flow[t]
      <4> HIDE DEF done
      <4> QED
        BY <3>1
    <3> QED
      BY <3>1, <3>2, Zenon
  <2>2. KnownByOne'
    BY <1>1, <2>1 DEF OwnNonces, KnownByOne
  <2>3. PastIsOver'
    BY <1>1, <2>1 DEF OwnNonces, PastIsOver
  <2>4. SpentIsGone'
    BY <1>1, <1>2, <2>1 DEF OwnNonces, SpentIsGone
  <2>5. NonceInOnePlace'
    BY <1>1, <2>1 DEF OwnNonces, NonceInOnePlace
  <2> QED
    BY <2>2, <2>3, <2>4, <2>5 DEF OwnNonces
<1> QED
  BY <1>3, <1>4 DEF Callback

\* A login that completes takes the cookie with it.
LEMMA CompletesAlone ==
    ASSUME OwnDomains, TypeOK, OwnNonces, NEW t \in Tabs, SigninComplete(t)
    PROVE  OwnNonces'
<1>1. /\ flow[t] # None /\ flow[t].nonce # None /\ flow[t].callback \in Hosts
      /\ phase[t] = "signin"
  BY NonceOfFlow DEF SigninComplete, TypeOK, TabsOK
<1>2. \A d \in Domains :
        nonces'[d] = None \/ (nonces'[d] = nonces[d] /\ nonces[d] # flow[t].nonce)
  <2> DEFINE host == flow[t].callback
             own == App(host).token_cookie_domain
  <2>1. nonces' = SetCookie(nonces, own, host, None)
    BY DEF SigninComplete, CallbackApp
  <2>2. \A d \in Domains : nonces[d] = flow[t].nonce => host \in Covers[d]
    BY <1>1 DEF OwnNonces, NonceInOnePlace
  <2>3. nonces \in [Domains -> Nonces \cup {None}] /\ host \in Hosts
    BY <1>1 DEF TypeOK, JarOK
  <2>4. own \in Domains /\ host \in Covers[own] /\ \A d \in Domains : host \in Covers[d] => d = own
    BY <2>3, OwnDomain
  <2> HIDE DEF host, own
  <2>5. nonces'[own] = None /\ \A d \in Domains \ {own} : nonces'[d] = nonces[d]
    BY <2>1, <2>3, <2>4 DEF SetCookie
  <2> QED
    BY <2>2, <2>4, <2>5
<1>3. /\ flow'[t] = None /\ past'[t].login = flow[t] /\ phase'[t] = "visit"
      /\ \A u \in Tabs \ {t} :
           flow'[u] = flow[u] /\ past'[u] = past[u] /\ phase'[u] = phase[u]
  BY DEF SigninComplete, LeaveLogin, TypeOK, TabsOK
<1>4. KnownByOne'
  BY <1>1, <1>3 DEF OwnNonces, KnownByOne
<1>5. PastIsOver'
  BY <1>3 DEF OwnNonces, PastIsOver
<1>6. SpentIsGone'
  BY <1>2, <1>3 DEF OwnNonces, SpentIsGone
<1>7. NonceInOnePlace'
  <2>1. \A d, e \in Domains : nonces'[d] # None /\ nonces'[d] = nonces'[e] => d = e
    BY <1>2 DEF OwnNonces, NonceInOnePlace
  <2>2. \A u \in Tabs \ {t} : phase[u] = "signin" => flow[u].nonce # None
    BY NonceOfFlow DEF TypeOK, TabsOK
  <2>3. \A u \in Tabs, d \in Domains :
          phase'[u] = "signin" /\ nonces'[d] = flow'[u].nonce => flow'[u].callback \in Covers[d]
    BY <1>2, <1>3, <2>2 DEF OwnNonces, NonceInOnePlace
  <2> QED
    BY <2>1, <2>3 DEF NonceInOnePlace
<1> QED
  BY <1>4, <1>5, <1>6, <1>7 DEF OwnNonces

\* Every step keeps the nonces apart.
LEMMA NoncesStayOwn ==
    ASSUME OwnDomains
    PROVE  TypeOK /\ OwnNonces /\ [Next]_vars => OwnNonces'
<1> SUFFICES ASSUME TypeOK, OwnNonces, [Next]_vars PROVE OwnNonces'
  OBVIOUS
<1>1. ASSUME NEW t \in Tabs, Replay(t) \/ Reload(t) PROVE OwnNonces'
  <2>1. /\ phase'[t] = "callback" /\ nonces' = nonces
        /\ \A u \in Tabs \ {t} :
             flow'[u] = flow[u] /\ past'[u] = past[u] /\ phase'[u] = phase[u]
    BY <1>1 DEF Replay, Reload, TypeOK, TabsOK, jar
  <2>2. /\ flow'[t] = past'[t].login
        /\ \/ flow[t] # None /\ flow'[t] = flow[t]
           \/ past[t] # None /\ flow'[t] = past[t].login
    <3>1. CASE Reload(t)
      BY <3>1 DEF Reload, TypeOK, TabsOK
    <3>2. CASE Replay(t)
      BY <3>2 DEF Replay, TypeOK, TabsOK
    <3> QED
      BY <1>1, <3>1, <3>2
  <2>3. past'[t].done => past[t] # None /\ past'[t] = past[t]
    BY <1>1 DEF Replay, Reload, TypeOK, TabsOK
  <2>4. KnownByOne'
    BY <2>1, <2>2 DEF OwnNonces, KnownByOne
  <2>5. PastIsOver'
    BY <2>1 DEF OwnNonces, PastIsOver
  <2>6. SpentIsGone'
    BY <2>1, <2>3 DEF OwnNonces, SpentIsGone
  <2>7. NonceInOnePlace'
    BY <2>1 DEF OwnNonces, NonceInOnePlace
  <2> QED
    BY <2>4, <2>5, <2>6, <2>7 DEF OwnNonces
<1>2. ASSUME NEW t \in Tabs,
             \/ Open(t) \/ Visit(t) \/ LogIn(t) \/ AskSignout(t) \/ SignoutRefused(t) \/ Signout(t)
             \/ \E user \in Users(t) : AuthorizeAnswer(t, user)
      PROVE  OwnNonces'
  <2>1. /\ flow' = flow /\ past'[t] \in {past[t], None}
        /\ \A u \in Tabs \ {t} : past'[u] = past[u] /\ phase'[u] = phase[u]
    BY <1>2 DEF TypeOK, TabsOK, Open, Visit, AuthorizeAnswer, LogIn, AskSignout, SignoutRefused,
      Signout
  <2>2. phase'[t] \notin {"login", "signin"} /\ nonces' = nonces
    BY <1>2 DEF TypeOK, TabsOK, Open, Visit, AuthorizeAnswer, Decision, PerformAuthorization,
      LogIn, AskSignout, SignoutRefused, Signout, jar
  <2>3. KnownByOne'
    BY <2>1 DEF OwnNonces, KnownByOne
  <2>4. PastIsOver' /\ SpentIsGone'
    BY <2>1, <2>2 DEF OwnNonces, PastIsOver, SpentIsGone
  <2>5. NonceInOnePlace'
    BY <2>1, <2>2 DEF OwnNonces, NonceInOnePlace
  <2> QED
    BY <2>3, <2>4, <2>5 DEF OwnNonces
<1>3. ASSUME NEW t \in Tabs, CallbackError(t) \/ SigninFail(t) PROVE OwnNonces'
  <2>1. /\ flow[t] # None /\ flow'[t] = None /\ phase'[t] = "failed" /\ nonces' = nonces
        /\ past'[t].login = flow[t] /\ ~past'[t].done
        /\ \A u \in Tabs \ {t} :
             flow'[u] = flow[u] /\ past'[u] = past[u] /\ phase'[u] = phase[u]
    BY <1>3 DEF CallbackError, SigninFail, LeaveLogin, TypeOK, TabsOK, jar
  <2>2. KnownByOne'
    BY <2>1 DEF OwnNonces, KnownByOne
  <2>3. PastIsOver' /\ SpentIsGone'
    BY <2>1 DEF OwnNonces, PastIsOver, SpentIsGone
  <2>4. NonceInOnePlace'
    BY <2>1 DEF OwnNonces, NonceInOnePlace
  <2> QED
    BY <2>2, <2>3, <2>4 DEF OwnNonces
<1>4. ASSUME NEW d \in Domains, Expire(d) PROVE OwnNonces'
  <2>1. UNCHANGED <<phase, flow, past>> /\ \A e \in Domains : nonces'[e] \in {nonces[e], None}
    BY <1>4 DEF Expire, TypeOK, JarOK
  <2>2. \A u \in Tabs : phase[u] = "signin" => flow[u].nonce # None
    BY NonceOfFlow DEF TypeOK, TabsOK
  <2>3. KnownByOne' /\ PastIsOver'
    BY <2>1 DEF OwnNonces, KnownByOne, PastIsOver
  <2>4. SpentIsGone'
    BY <2>1 DEF OwnNonces, SpentIsGone
  <2>5. NonceInOnePlace'
    BY <2>1, <2>2 DEF OwnNonces, NonceInOnePlace
  <2> QED
    BY <2>3, <2>4, <2>5 DEF OwnNonces
<1>5. ASSUME UNCHANGED <<phase, flow, past, nonces>> PROVE OwnNonces'
  BY <1>5 DEF OwnNonces, KnownByOne, PastIsOver, SpentIsGone, NonceInOnePlace
<1>6. CASE Rotate \/ Learn \/ (\E k \in Keys : Forget(k)) \/ Finished \/ UNCHANGED vars
  BY <1>5, <1>6 DEF Rotate, Learn, Forget, Finished, vars, jar
<1> QED
  BY <1>1, <1>2, <1>3, <1>4, <1>6, StartsFresh, ChecksTheNonce, CompletesAlone DEF Next, Step

\* The nonces are apart at the start.
LEMMA NoncesStartOwn == Init => OwnNonces
BY NoneAssumption DEF Init, OwnNonces, KnownByOne, PastIsOver, SpentIsGone, NonceInOnePlace

\* The code of a completed login is not presented to the provider again: the
\* cookie that its state must match is gone, and no later login gets its nonce.
THEOREM CodesSpentOnce ==
    ASSUME OwnDomains
    PROVE  Spec => []CodesAreSpentOnce
<1>1. TypeOK /\ OwnNonces => CodesAreSpentOnce
  BY DEF TypeOK, TabsOK, OwnNonces, KnownByOne, PastIsOver, CodesAreSpentOnce
<1> QED
  BY <1>1, NoncesStartOwn, NoncesStayOwn, TypeCorrect, PTL DEF Spec

-----------------------------------------------------------------------------
(* Methods that are named *)

\* default and every apps entry say which methods they restrict.
MethodsAreNamed ==
    /\ "restricted_methods" \in DOMAIN Config.default
    /\ DOMAIN Config.apps \subseteq Nat
    /\ \A i \in DOMAIN Config.apps :
        /\ "restricted_methods" \in DOMAIN Config.apps[i].entry
        /\ Config.apps[i].entry.restricted_methods # {}

\* The first entry of a host's name is one of them.
LEMMA FirstMatches ==
    ASSUME NEW matching \in SUBSET Nat, matching # {}
    PROVE  (CHOOSE i \in matching : \A j \in matching : i <= j) \in matching
<1> DEFINE less == {pair \in Nat \X Nat : pair[1] < pair[2]}
<1>1. IsWellFoundedOn(less, Nat)
  BY NatLessThanWellFounded DEF OpToRel
<1>2. PICK i \in matching : \A j \in matching : <<j, i>> \notin less
  <2> HIDE DEF less
  <2> QED
    BY <1>1, WFMin
<1>3. ASSUME NEW j \in matching PROVE i <= j
  <2>1. i \in Nat /\ j \in Nat /\ <<j, i>> \in Nat \X Nat
    OBVIOUS
  <2>2. ~(j < i)
    BY <1>2, <2>1
  <2> QED
    BY <2>1, <2>2
<1> QED
  BY <1>3

\* find_application_or_default then restricts what the configuration says.
LEMMA NamedAreRestricted ==
    ASSUME MethodsAreNamed, NEW h \in Hosts
    PROVE  App(h).restricted_methods \subseteq Restricted(h)
<1> DEFINE matching == {i \in DOMAIN Config.apps : Config.apps[i].name = h}
           first == CHOOSE i \in matching : \A j \in matching : i <= j
           given == {i \in matching : "restricted_methods" \in DOMAIN Config.apps[i].entry}
<1>1. "restricted_methods" \in Fields /\ Nothing("restricted_methods") = {}
  BY DEF Fields, ListFields, Nothing
<1>2. Deserialize(Config.default).restricted_methods = Config.default.restricted_methods
  BY <1>1 DEF Deserialize, MethodsAreNamed
<1>3. CASE matching = {}
  <2>1. App(h) = Deserialize(Config.default)
    BY <1>3 DEF App, Apps, FindApplicationOrDefault
  <2>2. Restricted(h) = Config.default.restricted_methods
    BY <1>3 DEF Restricted
  <2> QED
    BY <1>2, <2>1, <2>2
<1>4. CASE matching # {}
  <2>1. first \in matching
    BY <1>4, FirstMatches DEF MethodsAreNamed
  <2>2. App(h) = Inherit(Deserialize(Config.apps[first].entry), Deserialize(Config.default))
    BY <1>4 DEF App, Apps, FindApplicationOrDefault
  <2>3. given = matching
    BY DEF MethodsAreNamed
  <2>4. Restricted(h) = UNION {Config.apps[i].entry.restricted_methods : i \in matching}
    BY <1>4, <2>3 DEF Restricted
  <2> HIDE DEF first, given
  <2>5. App(h).restricted_methods = Config.apps[first].entry.restricted_methods
    BY <1>1, <2>1, <2>2 DEF Inherit, Deserialize, MethodsAreNamed
  <2> QED
    BY <2>1, <2>4, <2>5
<1> QED
  BY <1>3, <1>4

\* A browser is at the provider for the page that it was sent there for.
SentForRestricted ==
    \A t \in Tabs : phase[t] = "login" => target[t].method \in Here(t).restricted_methods

LEMMA SentForRestrictedKept ==
    TypeOK /\ SentForRestricted /\ [Next]_vars => SentForRestricted'
<1> SUFFICES ASSUME TypeOK, SentForRestricted, [Next]_vars, NEW u \in Tabs, phase'[u] = "login"
             PROVE  target'[u].method \in App(target'[u].host).restricted_methods
  BY DEF SentForRestricted, Here
<1>1. CASE phase[u] = "login" /\ target'[u] = target[u]
  BY <1>1 DEF SentForRestricted, Here
<1>2. ASSUME NEW t \in Tabs, ByTab(t)
      PROVE  \/ phase[u] = "login" /\ target'[u] = target[u]
             \/ u = t /\ \E user \in Users(t) : AuthorizeRedirect(t, user)
  BY <1>2 DEF TypeOK, TabsOK, ByTab, Open, Step, Visit, AuthorizeAnswer, Decision,
    PerformAuthorization, LogIn, CallbackError, Callback, SigninComplete, SigninFail,
    SignoutRefused, Signout, Reload, Replay, AskSignout, AuthorizeRedirect
<1>3. ASSUME NEW user \in Users(u), AuthorizeRedirect(u, user)
      PROVE  target'[u].method \in App(target'[u].host).restricted_methods
  BY <1>3 DEF AuthorizeRedirect, Decision, PerformAuthorization, Here
<1>4. CASE UNCHANGED <<phase, target>>
  BY <1>1, <1>4
<1> QED
  BY <1>1, <1>2, <1>3, <1>4 DEF Next, ByTab, Expire, Rotate, Learn, Forget, Finished, vars

\* That the code does not inherit an omitted restricted-methods is all that
\* there is to the finding OmittedIsInherited: where every entry names its
\* methods, a browser is sent to log in only for one that its application, or
\* default in its place, restricts.
THEOREM NamedMethodsAreKept ==
    ASSUME MethodsAreNamed
    PROVE  Spec => []OmittedIsInherited
<1>1. Init => SentForRestricted
  BY DEF Init, SentForRestricted
<1>2. SentForRestricted /\ TypeOK => OmittedIsInherited
  BY HereType, NamedAreRestricted DEF SentForRestricted, OmittedIsInherited, Here
<1> QED
  BY <1>1, <1>2, SentForRestrictedKept, TypeCorrect, PTL DEF Spec
=============================================================================
