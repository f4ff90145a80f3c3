------------------------- MODULE TokenVerifierProofs -------------------------
(***************************************************************************)
(* Theorems about TokenVerifier, for every set of calls, tokens, audiences *)
(* and keys, every TTL and every bound: type correctness, the single       *)
(* flights, and that verify_token implements VerifyContract.               *)
(***************************************************************************)
EXTENDS TokenVerifier, TLAPS

USE DEF Absent, Move

\* Every variable keeps its type and no insertion time lies in the future.
THEOREM TypeCorrect == Spec => []TypeOK
<1>1. Init => TypeOK
  BY ClockAssumption, KidsAssumption DEF Init, TypeOK, Phases
<1>2. TypeOK /\ [Next]_vars => TypeOK'
  <2> SUFFICES ASSUME TypeOK, [Next]_vars PROVE TypeOK'
    OBVIOUS
  <2> USE DEF TypeOK, caches, provider
  <2>1. ASSUME NEW c \in Calls, Begin(c) PROVE TypeOK'
    BY <2>1 DEF Begin, Phases, Running, Suspended, Computing, Outcomes
  <2>2. ASSUME NEW c \in Calls, Lookup(c) \/ Keys(c) PROVE TypeOK'
    BY <2>2 DEF Lookup, LookupHit, LookupWait, LookupLead, Keys, KeysHit, KeysWait, KeysFetch,
                Phases, Running, Suspended, Computing
  <2>3. ASSUME NEW c \in Calls, Replies(c) PROVE TypeOK'
    BY <2>3 DEF Replies, DiscoveryOk, DiscoveryError, JwksOk, JwksError, Joined, Published,
                Phases, Running, Suspended, Computing
  <2>4. ASSUME NEW c \in Calls, Accept(c) \/ Reject(c) PROVE TypeOK'
    <3>1. \A p \in Phases : Settle(c, p) \in [Calls -> Phases]
      BY DEF Settle
    <3>2. {"recheck", "failed", "unreachable"} \subseteq Phases
      BY DEF Phases, Running, Computing
    <3>3. now \in Absent .. now /\ req[c].tok \in Tokens
      OBVIOUS
    <3>4. CASE Accept(c)
      BY <3>1, <3>2, <3>3, <3>4 DEF Accept
    <3>5. CASE Reject(c)
      BY <3>1, <3>2, <3>5 DEF Reject
    <3> QED
      BY <2>4, <3>4, <3>5
  <2>5. ASSUME NEW c \in Calls, Recheck(c) \/ Fail(c) PROVE TypeOK'
    BY <2>5 DEF Recheck, RecheckAudience, RecheckExpiry, Admit, Fail, Phases, Outcomes
  <2>6. ASSUME NEW c \in Calls, Cancel(c) PROVE TypeOK'
    BY <2>6 DEF Cancel, Followers, SameToken, Joined, Phases, Running, Computing, Outcomes
  <2>7. ASSUME NEW t \in Tokens, Evict(t) PROVE TypeOK'
    BY <2>7 DEF Evict
  <2>8. ASSUME NEW k \in Kids, Publish(k) \/ Withdraw(k) PROVE TypeOK'
    BY <2>8 DEF Publish, Withdraw
  <2>9. CASE Tick
    BY <2>9 DEF Tick
  <2>10. CASE Finished \/ UNCHANGED vars
    BY <2>10 DEF Finished, vars
  <2> QED
    BY <2>1, <2>2, <2>3, <2>4, <2>5, <2>6, <2>7, <2>8, <2>9, <2>10 DEF Next, Run
<1> QED
  BY <1>1, <1>2, PTL DEF Spec

-----------------------------------------------------------------------------

\* One leader per token, one fetcher of the JWKS, and a live flight under
\* everybody who waits: inductive as it stands.
THEOREM FlightsAreSingle == Spec => []SingleFlight
<1>1. Init => SingleFlight
  BY DEF Init, SingleFlight, OneLeader, OneFetcher, NoOrphans, Leading, Fetchers, Joined
<1>2. TypeOK /\ SingleFlight /\ [Next]_vars => SingleFlight'
  <2> SUFFICES ASSUME TypeOK, SingleFlight, [Next]_vars PROVE SingleFlight'
    OBVIOUS
  <2> phase \in [Calls -> Phases]
    BY DEF TypeOK
  <2> USE DEF SingleFlight, OneLeader, OneFetcher, NoOrphans, Leading, Fetchers, Joined,
              Leaders, Followers, SameToken
  <2>1. ASSUME NEW c \in Calls, Begin(c) PROVE SingleFlight'
    BY <2>1 DEF Begin
  <2>2. ASSUME NEW c \in Calls, LookupHit(c) PROVE SingleFlight'
    BY <2>2 DEF LookupHit
  <2>3. ASSUME NEW c \in Calls, LookupWait(c) PROVE SingleFlight'
    BY <2>3 DEF LookupWait
  <2>4. ASSUME NEW c \in Calls, LookupLead(c) PROVE SingleFlight'
    BY <2>4 DEF LookupLead
  <2>5. ASSUME NEW c \in Calls, DiscoveryOk(c) \/ DiscoveryError(c) PROVE SingleFlight'
    BY <2>5 DEF DiscoveryOk, DiscoveryError
  <2>6. ASSUME NEW c \in Calls, KeysHit(c) PROVE SingleFlight'
    BY <2>6 DEF KeysHit
  <2>7. ASSUME NEW c \in Calls, KeysWait(c) PROVE SingleFlight'
    BY <2>7 DEF KeysWait
  <2>8. ASSUME NEW c \in Calls, KeysFetch(c) PROVE SingleFlight'
    BY <2>8 DEF KeysFetch
  <2>9. ASSUME NEW c \in Calls, JwksOk(c) \/ JwksError(c) PROVE SingleFlight'
    BY <2>9 DEF JwksOk, JwksError
  <2>10. ASSUME NEW c \in Calls, Accept(c) \/ Reject(c) PROVE SingleFlight'
    BY <2>10 DEF Accept, Reject, Settle
  <2>11. ASSUME NEW c \in Calls, Recheck(c) \/ Fail(c) PROVE SingleFlight'
    BY <2>11 DEF Recheck, RecheckAudience, RecheckExpiry, Admit, Fail
  <2>12. ASSUME NEW c \in Calls, Cancel(c) PROVE SingleFlight'
    BY <2>12 DEF Cancel, Suspended
  <2>13. CASE \/ \E t \in Tokens : Evict(t)
              \/ \E k \in Kids : Publish(k) \/ Withdraw(k)
              \/ Tick \/ Finished \/ UNCHANGED vars
    <3>1. UNCHANGED <<req, phase>>
      BY <2>13 DEF Evict, Publish, Withdraw, Tick, Finished, vars
    <3> QED
      BY <3>1
  <2>14. ASSUME NEW c \in Calls, Run(c) PROVE SingleFlight'
    BY <2>2, <2>3, <2>4, <2>5, <2>6, <2>7, <2>8, <2>9, <2>10, <2>11, <2>14
    DEF Run, Lookup, Keys, Replies
  <2> HIDE DEF SingleFlight
  <2> QED
    BY <2>1, <2>12, <2>13, <2>14 DEF Next
<1> QED
  BY <1>1, <1>2, TypeCorrect, PTL DEF Spec

-----------------------------------------------------------------------------

\* The caches and what calls carry across their awaits stay trustworthy: with
\* TypeOK, an inductive invariant.  The clock only moves when no call is in
\* "decode" or "recheck", and a withdrawal records a time no entry is newer than.
THEOREM CachesStaySound == Spec => []CachesSound
<1>1. Init => CachesSound
  BY ClockAssumption
  DEF Init, CachesSound, KeysSound, VerifiedSound, ResultsSound, Running, Suspended, Computing
<1>2. TypeOK /\ CachesSound /\ [Next]_vars => CachesSound'
  <2> SUFFICES ASSUME TypeOK, CachesSound, [Next]_vars PROVE CachesSound'
    OBVIOUS
  <2> USE ClaimsAssumption, TtlAssumption, ClockAssumption
  <2> USE DEF CachesSound, KeysSound, VerifiedSound, ResultsSound, HeldAt, HeldBefore,
              TypeOK, ClaimSet, Token, caches, provider, Running, Suspended, Computing
  <2>1. ASSUME NEW c \in Calls, Begin(c) PROVE CachesSound'
    BY <2>1 DEF Begin
  <2>2. ASSUME NEW c \in Calls, LookupHit(c) PROVE CachesSound'
    BY <2>2 DEF LookupHit, Live
  <2>3. ASSUME NEW c \in Calls, LookupWait(c) \/ LookupLead(c) PROVE CachesSound'
    <3>1. CASE LookupWait(c)
      BY <3>1 DEF LookupWait
    <3>2. CASE LookupLead(c)
      BY <3>2 DEF LookupLead
    <3> QED
      BY <2>3, <3>1, <3>2
  <2>4. ASSUME NEW c \in Calls, DiscoveryOk(c) \/ DiscoveryError(c) PROVE CachesSound'
    <3>1. CASE DiscoveryOk(c)
      BY <3>1 DEF DiscoveryOk
    <3>2. CASE DiscoveryError(c)
      BY <3>2 DEF DiscoveryError
    <3> QED
      BY <2>4, <3>1, <3>2
  <2>5. ASSUME NEW c \in Calls, KeysHit(c) PROVE CachesSound'
    BY <2>5 DEF KeysHit, Live
  <2>6. ASSUME NEW c \in Calls, KeysWait(c) \/ KeysFetch(c) PROVE CachesSound'
    <3>1. CASE KeysWait(c)
      BY <3>1 DEF KeysWait
    <3>2. CASE KeysFetch(c)
      BY <3>2 DEF KeysFetch
    <3> QED
      BY <2>6, <3>1, <3>2
  <2>7. ASSUME NEW c \in Calls, JwksOk(c) PROVE CachesSound'
    BY <2>7 DEF JwksOk, Joined, Published
  <2>8. ASSUME NEW c \in Calls, JwksError(c) PROVE CachesSound'
    BY <2>8 DEF JwksError, Joined
  <2>9. ASSUME NEW c \in Calls, Accept(c) PROVE CachesSound'
    <3> USE <2>9 DEF Accept
    <3>1. \A d \in Calls : phase'[d] # phase[d] => phase'[d] = "recheck" /\ Token(d) = Token(c)
      BY DEF Settle, Followers, SameToken
    <3>2. phase'[c] = "recheck" /\ \A d \in Calls : phase'[d] = "decode" => phase[d] = "decode"
      BY <3>1 DEF Settle
    <3>3. KeysSound'
      BY <3>1, <3>2
    <3>4. /\ Token(c).form = "jwt" /\ Token(c).genuine
          /\ Token(c).exp \in Nat /\ now <= Token(c).exp + Leeway
          /\ HeldBefore(Token(c).kid, now, JwksTtl)
      BY DEF Acceptable
    <3>5. VerifiedSound'
      BY <3>4
    <3>6. ResultsSound'
      BY <3>1, <3>4
    <3> QED
      BY <3>3, <3>5, <3>6
  <2>10. ASSUME NEW c \in Calls, Reject(c) PROVE CachesSound'
    <3>1. PICK p \in {"failed", "unreachable"} : phase' = Settle(c, p)
      BY <2>10 DEF Reject
    <3>2. UNCHANGED <<req, verified, jwks, since, retired, now>>
          /\ keyset' = [keyset EXCEPT ![c] = {}] /\ phase[c] \in Running
      BY <2>10 DEF Reject
    <3>3. \A d \in Calls : phase'[d] # phase[d] =>
            phase'[d] \in {"failed", "unreachable"} /\ phase[d] \in Running
      BY <3>1, <3>2 DEF Settle, Followers
    <3>4. KeysSound' /\ VerifiedSound'
      BY <3>2, <3>3
    <3>5. ResultsSound'
      BY <3>2, <3>3
    <3> QED
      BY <3>2, <3>4, <3>5
  <2>11. ASSUME NEW c \in Calls, Recheck(c) \/ Fail(c) PROVE CachesSound'
    <3>1. CASE Recheck(c)
      BY <3>1 DEF Recheck, RecheckAudience, RecheckExpiry, Admit
    <3>2. CASE Fail(c)
      BY <3>2 DEF Fail
    <3> QED
      BY <2>11, <3>1, <3>2
  <2>12. ASSUME NEW c \in Calls, Cancel(c) PROVE CachesSound'
    <3> USE <2>12 DEF Cancel
    <3>1. \A d \in Calls : phase'[d] # phase[d] =>
            phase'[d] = "cancelled" \/ (phase[d] \in Running /\ phase'[d] \in {"lookup", "keyset"})
      BY DEF Followers, SameToken, Joined
    <3>2. KeysSound' /\ VerifiedSound'
      BY <3>1
    <3>3. ResultsSound'
      BY <3>1
    <3> QED
      BY <3>2, <3>3
  <2>13. ASSUME NEW t \in Tokens, Evict(t) PROVE CachesSound'
    BY <2>13 DEF Evict
  <2>14. ASSUME NEW k \in Kids, Publish(k) PROVE CachesSound'
    BY <2>14 DEF Publish
  <2>15. ASSUME NEW k \in Kids, Withdraw(k) PROVE CachesSound'
    BY <2>15 DEF Withdraw
  <2>16. CASE Tick
    BY <2>16 DEF Tick
  <2>17. CASE Finished \/ UNCHANGED vars
    BY <2>17 DEF Finished, vars
  <2>18. ASSUME NEW c \in Calls, Run(c) PROVE CachesSound'
    BY <2>2, <2>3, <2>4, <2>5, <2>6, <2>7, <2>8, <2>9, <2>10, <2>11, <2>18
    DEF Run, Lookup, Keys, Replies
  <2> HIDE DEF CachesSound
  <2> QED
    BY <2>1, <2>12, <2>13, <2>14, <2>15, <2>16, <2>17, <2>18 DEF Next
<1> QED
  BY <1>1, <1>2, TypeCorrect, PTL DEF Spec

-----------------------------------------------------------------------------
(* No cache entry is filled twice in its lifetime *)

\* A flight is only in the air while there is no live entry for its key.
FlightsNeeded ==
    /\ \A c \in Calls : phase[c] \in Leading => ~Live(verified[req[c].tok], VerifiedTtl)
    /\ \A c \in Fetchers : ~Live(jwks.at, JwksTtl)

LEMMA FlightsStayNeeded == Spec => []FlightsNeeded
<1>1. Init => FlightsNeeded
  BY DEF Init, FlightsNeeded, Leading, Fetchers
<1>2. TypeOK /\ SingleFlight /\ FlightsNeeded /\ [Next]_vars => FlightsNeeded'
  <2> SUFFICES ASSUME TypeOK, SingleFlight, FlightsNeeded, [Next]_vars PROVE FlightsNeeded'
    OBVIOUS
  <2> USE TtlAssumption
  <2> USE DEF TypeOK, FlightsNeeded, Live, Leading, Fetchers, caches, provider
  <2>1. ASSUME NEW c \in Calls, Begin(c) PROVE FlightsNeeded'
    BY <2>1 DEF Begin
  <2>2. ASSUME NEW c \in Calls, LookupHit(c) PROVE FlightsNeeded'
    BY <2>2 DEF LookupHit
  <2>3. ASSUME NEW c \in Calls, LookupWait(c) PROVE FlightsNeeded'
    BY <2>3 DEF LookupWait
  <2>4. ASSUME NEW c \in Calls, LookupLead(c) PROVE FlightsNeeded'
    BY <2>4 DEF LookupLead
  <2>5. ASSUME NEW c \in Calls, DiscoveryOk(c) \/ DiscoveryError(c) PROVE FlightsNeeded'
    BY <2>5 DEF DiscoveryOk, DiscoveryError
  <2>6. ASSUME NEW c \in Calls, KeysHit(c) PROVE FlightsNeeded'
    BY <2>6 DEF KeysHit
  <2>7. ASSUME NEW c \in Calls, KeysWait(c) PROVE FlightsNeeded'
    BY <2>7 DEF KeysWait
  <2>8. ASSUME NEW c \in Calls, KeysFetch(c) PROVE FlightsNeeded'
    BY <2>8 DEF KeysFetch
  <2>9. ASSUME NEW c \in Calls, JwksOk(c) \/ JwksError(c) PROVE FlightsNeeded'
    BY <2>9 DEF JwksOk, JwksError, Joined, SingleFlight, OneFetcher
  <2>10. ASSUME NEW c \in Calls, Accept(c) \/ Reject(c) PROVE FlightsNeeded'
    BY <2>10 DEF Accept, Reject, Settle, Followers, SingleFlight, OneLeader
  <2>11. ASSUME NEW c \in Calls, Recheck(c) \/ Fail(c) PROVE FlightsNeeded'
    BY <2>11 DEF Recheck, RecheckAudience, RecheckExpiry, Admit, Fail
  <2>12. ASSUME NEW c \in Calls, Cancel(c) PROVE FlightsNeeded'
    BY <2>12 DEF Cancel, Joined
  <2>13. ASSUME NEW t \in Tokens, Evict(t) PROVE FlightsNeeded'
    BY <2>13 DEF Evict
  <2>14. CASE \/ \E k \in Kids : Publish(k) \/ Withdraw(k)
              \/ Finished \/ UNCHANGED vars
    <3>1. UNCHANGED <<req, phase, verified, jwks, now>>
      BY <2>14 DEF Publish, Withdraw, Finished, vars
    <3> QED
      BY <3>1
  <2>15. CASE Tick
    BY <2>15 DEF Tick
  <2>16. ASSUME NEW c \in Calls, Run(c) PROVE FlightsNeeded'
    BY <2>2, <2>3, <2>4, <2>5, <2>6, <2>7, <2>8, <2>9, <2>10, <2>11, <2>16
    DEF Run, Lookup, Keys, Replies
  <2> HIDE DEF FlightsNeeded
  <2> QED
    BY <2>1, <2>12, <2>13, <2>14, <2>15, <2>16 DEF Next
<1> QED
  BY <1>1, <1>2, TypeCorrect, FlightsAreSingle, PTL DEF Spec

\* Only Accept inserts claims and only JwksOk inserts keys, and each of them
\* ends a flight that FlightsNeeded says was needed.
THEOREM FillsOnce == Spec => NoRedundantFill
<1> DEFINE Fill ==
        /\ \A t \in Tokens :
            verified'[t] \notin {verified[t], Absent} => ~Live(verified[t], VerifiedTtl)
        /\ jwks'.at # jwks.at => ~Live(jwks.at, JwksTtl)
<1>1. TypeOK /\ FlightsNeeded /\ [Next]_vars => [Fill]_vars
  <2> SUFFICES ASSUME TypeOK, FlightsNeeded, Next PROVE Fill
    OBVIOUS
  <2> USE DEF TypeOK, FlightsNeeded, caches, provider
  <2>1. ASSUME NEW c \in Calls, Accept(c) PROVE Fill
    BY <2>1 DEF Accept, Leading
  <2>2. ASSUME NEW c \in Calls, JwksOk(c) PROVE Fill
    BY <2>2 DEF JwksOk, Fetchers
  <2>3. ASSUME NEW c \in Calls, RecheckExpiry(c) PROVE Fill
    BY <2>3 DEF RecheckExpiry
  <2>4. ASSUME NEW t \in Tokens, Evict(t) PROVE Fill
    BY <2>4 DEF Evict
  <2>5. CASE UNCHANGED <<verified, jwks>>
    BY <2>5
  <2>6. ASSUME NEW c \in Calls, Run(c) PROVE Fill
    <3>1. Accept(c) \/ JwksOk(c) \/ RecheckExpiry(c) \/ UNCHANGED <<verified, jwks>>
      BY <2>6 DEF Run, Lookup, LookupHit, LookupWait, LookupLead, Keys, KeysHit, KeysWait,
                  KeysFetch, Replies, DiscoveryOk, DiscoveryError, JwksError, Reject,
                  Recheck, RecheckAudience, Admit, Fail
    <3> QED
      BY <2>1, <2>2, <2>3, <2>5, <3>1
  <2>7. ASSUME NEW c \in Calls, Begin(c) \/ Cancel(c) PROVE Fill
    BY <2>5, <2>7 DEF Begin, Cancel
  <2>8. CASE (\E k \in Kids : Publish(k) \/ Withdraw(k)) \/ Tick \/ Finished
    BY <2>5, <2>8 DEF Publish, Withdraw, Tick, Finished, vars
  <2> QED
    BY <2>4, <2>6, <2>7, <2>8 DEF Next
<1> QED
  BY <1>1, TypeCorrect, FlightsStayNeeded, PTL DEF Spec, NoRedundantFill

-----------------------------------------------------------------------------
(* Good tokens are accepted *)

\* No key set in use lacks a key that has been published for JwksTtl, and no
\* verification has failed for a token that is good.
GoodOnesStand ==
    /\ \A k \in Kids : since[k] # Absent /\ since[k] < jwks.at => k \in jwks.keys
    /\ \A c \in Calls : phase[c] = "decode" =>
        \A k \in Kids : since[k] # Absent /\ since[k] <= now - JwksTtl => k \in keyset[c]
    /\ \A c \in Calls : phase[c] = "failed" /\ Uncontended(c) => ~Good(c)

\* A step of the provider makes no token good: a key it publishes is new.
LEMMA NothingBecomesGood ==
    ASSUME NEW c \in Calls, TypeOK, UNCHANGED <<req, now>>,
           \A k \in Kids : since'[k] \in {since[k], Absent, now},
           ~Good(c)
    PROVE  ~Good(c)'
<1>1. Token(c).kid \in Kids /\ now \in Nat /\ since[Token(c).kid] \in Int
  BY ClaimsAssumption DEF TypeOK, ClaimSet, Token
<1>2. Token(c)' = Token(c) /\ now' = now /\ req' = req
  BY DEF Token
<1>3. now # Absent /\ ~(now <= now - JwksTtl)
  BY <1>1, TtlAssumption
<1> QED
  BY <1>1, <1>2, <1>3 DEF Good, Verifiable

LEMMA GoodOnesStay == Spec => []GoodOnesStand
<1>1. Init => GoodOnesStand
  BY DEF Init, GoodOnesStand
<1>2. TypeOK /\ GoodOnesStand /\ [Next]_vars => GoodOnesStand'
  <2> SUFFICES ASSUME TypeOK, GoodOnesStand, [Next]_vars PROVE GoodOnesStand'
    OBVIOUS
  <2> USE TtlAssumption DEF caches, provider
  <2> phase \in [Calls -> Phases] /\ keyset \in [Calls -> SUBSET Kids]
    BY DEF TypeOK
  <2>0. ASSUME UNCHANGED <<req, since, now, jwks>>,
               \A c \in Calls : phase'[c] = "decode" => phase[c] = "decode" /\ keyset'[c] = keyset[c],
               \A c \in Calls : phase'[c] = "failed" /\ Uncontended(c) => ~Good(c)
        PROVE  GoodOnesStand'
    <3>1. \A c \in Calls : (Uncontended(c)' <=> Uncontended(c)) /\ (Good(c)' <=> Good(c))
      BY <2>0 DEF Uncontended, SameToken, Good, Verifiable, Token
    <3> QED
      BY <2>0, <3>1 DEF GoodOnesStand
  <2>1. ASSUME NEW c \in Calls, Begin(c) PROVE GoodOnesStand'
    BY <2>0, <2>1 DEF Begin, GoodOnesStand
  <2>2. ASSUME NEW c \in Calls, Lookup(c) PROVE GoodOnesStand'
    <3>1. CASE LookupHit(c) \/ LookupWait(c)
      BY <2>0, <3>1 DEF LookupHit, LookupWait, GoodOnesStand
    <3>2. CASE LookupLead(c)
      BY <2>0, <3>2 DEF LookupLead, GoodOnesStand, Good, Verifiable
    <3> QED
      BY <2>2, <3>1, <3>2 DEF Lookup
  <2>3. ASSUME NEW c \in Calls, KeysHit(c) PROVE GoodOnesStand'
    <3>1. \A k \in Kids : since[k] # Absent /\ since[k] <= now - JwksTtl => k \in jwks.keys
      <4>1. jwks.at \in Int /\ now \in Nat /\ \A k \in Kids : since[k] \in Int
        BY DEF TypeOK
      <4> QED
        BY <2>3, <4>1 DEF KeysHit, Live, GoodOnesStand
    <3>2. UNCHANGED <<req, since, now, jwks>>
      BY <2>3 DEF KeysHit
    <3>3. \A d \in Calls : phase'[d] = "decode" /\ d # c =>
            phase[d] = "decode" /\ keyset'[d] = keyset[d]
      BY <2>3 DEF KeysHit
    <3>4. keyset'[c] = jwks.keys
      BY <2>3 DEF KeysHit
    <3>5. \A d \in Calls : phase'[d] = "failed" => phase[d] = "failed"
      BY <2>3 DEF KeysHit
    <3>6. \A d \in Calls : (Uncontended(d)' <=> Uncontended(d)) /\ (Good(d)' <=> Good(d))
      BY <3>2 DEF Uncontended, SameToken, Good, Verifiable, Token
    <3> QED
      BY <3>1, <3>2, <3>3, <3>4, <3>5, <3>6 DEF GoodOnesStand
  <2>4. ASSUME NEW c \in Calls, KeysWait(c) \/ KeysFetch(c) PROVE GoodOnesStand'
    BY <2>0, <2>4 DEF KeysWait, KeysFetch, GoodOnesStand
  <2>5. ASSUME NEW c \in Calls, DiscoveryOk(c) \/ DiscoveryError(c) \/ JwksError(c)
        PROVE  GoodOnesStand'
    BY <2>0, <2>5 DEF DiscoveryOk, DiscoveryError, JwksError, Joined, GoodOnesStand
  <2>6. ASSUME NEW c \in Calls, JwksOk(c) PROVE GoodOnesStand'
    <3>1. \A k \in Kids : since[k] # Absent => k \in Published
      BY DEF Published
    <3>2. UNCHANGED <<req, since, now>> /\ jwks'.keys = Published
      BY <2>6 DEF JwksOk
    <3>3. \A d \in Calls : phase'[d] = "decode" =>
            keyset'[d] = Published \/ (phase[d] = "decode" /\ keyset'[d] = keyset[d])
      BY <2>6 DEF JwksOk
    <3>4. \A d \in Calls : phase'[d] = "failed" => phase[d] = "failed"
      BY <2>6 DEF JwksOk
    <3>5. \A d \in Calls : (Uncontended(d)' <=> Uncontended(d)) /\ (Good(d)' <=> Good(d))
      BY <3>2 DEF Uncontended, SameToken, Good, Verifiable, Token
    <3> QED
      BY <3>1, <3>2, <3>3, <3>4, <3>5 DEF GoodOnesStand
  <2>7. ASSUME NEW c \in Calls, Accept(c) PROVE GoodOnesStand'
    BY <2>0, <2>7 DEF Accept, Settle, GoodOnesStand
  <2>8. ASSUME NEW c \in Calls, Reject(c) PROVE GoodOnesStand'
    <3>1. UNCHANGED <<req, since, now, jwks>> /\ keyset' = [keyset EXCEPT ![c] = {}]
      BY <2>8 DEF Reject
    <3>2. PICK p \in {"failed", "unreachable"} :
            phase' = Settle(c, p) /\ (p = "failed" => phase[c] = "decode" /\ ~Acceptable(c))
      BY <2>8 DEF Reject
    <3>3. ASSUME NEW d \in Calls, phase'[d] = "failed", Uncontended(d) PROVE ~Good(d)
      <4>1. CASE phase[d] = "failed"
        BY <3>3, <4>1 DEF GoodOnesStand
      <4>2. CASE phase[d] # "failed"
        <5>1. p = "failed" /\ req[d].tok = req[c].tok
          BY <3>2, <3>3, <4>2 DEF Settle, Followers, SameToken
        <5>2. req[c].aud = req[d].aud /\ Token(c) = Token(d)
          BY <3>3, <5>1 DEF Uncontended, SameToken, Token
        <5>3. Token(c).kid \in Kids /\ Token(c).exp \in Nat /\ now \in Nat
          BY ClaimsAssumption DEF TypeOK, ClaimSet, Token
        <5>4. phase[c] = "decode" /\ ~Acceptable(c)
          BY <3>2, <5>1
        <5> QED
          BY <5>2, <5>3, <5>4, ClockAssumption DEF Acceptable, Good, Verifiable, GoodOnesStand
      <4> QED
        BY <4>1, <4>2
    <3>4. \A d \in Calls : phase'[d] = "decode" => phase[d] = "decode" /\ keyset'[d] = keyset[d]
      BY <3>1, <3>2 DEF Settle
    <3> QED
      BY <2>0, <3>1, <3>3, <3>4
  <2>9. ASSUME NEW c \in Calls, Recheck(c) \/ Fail(c) PROVE GoodOnesStand'
    BY <2>0, <2>9 DEF Recheck, RecheckAudience, RecheckExpiry, Admit, Fail, GoodOnesStand
  <2>10. ASSUME NEW c \in Calls, Cancel(c) PROVE GoodOnesStand'
    BY <2>0, <2>10 DEF Cancel, Joined, GoodOnesStand
  <2>11. CASE (\E t \in Tokens : Evict(t)) \/ Finished \/ UNCHANGED vars
    BY <2>0, <2>11 DEF Evict, Finished, vars, GoodOnesStand
  <2>12. ASSUME NEW k \in Kids, Publish(k) \/ Withdraw(k) PROVE GoodOnesStand'
    <3>1. UNCHANGED <<req, phase, keyset, jwks, now>>
          /\ \A j \in Kids : since'[j] \in {since[j], Absent, now}
      BY <2>12 DEF Publish, Withdraw, TypeOK
    <3>2. now \in Nat /\ now # Absent /\ ~(now < jwks.at) /\ ~(now <= now - JwksTtl)
      BY DEF TypeOK
    <3>3. \A c \in Calls : Uncontended(c)' <=> Uncontended(c)
      BY <3>1 DEF Uncontended, SameToken
    <3> QED
      BY <3>1, <3>2, <3>3, NothingBecomesGood DEF GoodOnesStand
  <2>13. CASE Tick
    <3>1. UNCHANGED <<req, phase, keyset, jwks, since>>
          /\ \A c \in Calls : phase[c] \notin {"decode", "failed"}
      BY <2>13 DEF Tick, Computing
    <3> QED
      BY <3>1 DEF GoodOnesStand
  <2>14. ASSUME NEW c \in Calls, Run(c) PROVE GoodOnesStand'
    BY <2>2, <2>3, <2>4, <2>5, <2>6, <2>7, <2>8, <2>9, <2>14 DEF Run, Keys, Replies
  <2> HIDE DEF GoodOnesStand
  <2> QED
    BY <2>1, <2>10, <2>11, <2>12, <2>13, <2>14 DEF Next
<1> QED
  BY <1>1, <1>2, TypeCorrect, PTL DEF Spec

\* A good token is rejected for want of an answer from the provider only: the
\* re-checks do not reject one, and by GoodOnesStand no verification has failed
\* for one.
THEOREM GoodAreAccepted == Spec => GoodTokenAccepted
<1>1. TypeOK /\ GoodOnesStand /\ [Next]_vars =>
        [\A c \in Calls : Rejects(c) /\ Uncontended(c) => ~Good(c)]_vars
  <2> SUFFICES ASSUME TypeOK, GoodOnesStand, Next,
                      NEW c \in Calls, Rejects(c), Uncontended(c)
               PROVE  ~Good(c)
    OBVIOUS
  <2> phase \in [Calls -> Phases]
    BY DEF TypeOK
  <2>1. phase[c] = "failed" \/ (phase[c] = "recheck" /\ (~AudienceMatches(c) \/ Expired(c)))
    <3> USE DEF Rejects, caches, provider
    <3>1. ASSUME NEW d \in Calls, Begin(d) \/ Lookup(d) \/ Keys(d) \/ Replies(d)
          PROVE  FALSE
      BY <3>1 DEF Begin, Lookup, LookupHit, LookupWait, LookupLead, Keys, KeysHit, KeysWait,
                  KeysFetch, Replies, DiscoveryOk, DiscoveryError, JwksOk, JwksError
    <3>2. ASSUME NEW d \in Calls, Accept(d) \/ Reject(d) PROVE FALSE
      BY <3>2 DEF Accept, Reject, Settle
    <3>3. ASSUME NEW d \in Calls, Recheck(d) \/ Fail(d)
          PROVE  phase[c] = "failed" \/ (phase[c] = "recheck" /\ (~AudienceMatches(c) \/ Expired(c)))
      BY <3>3 DEF Recheck, RecheckAudience, RecheckExpiry, Admit, Fail
    <3>4. ASSUME NEW d \in Calls, Cancel(d) PROVE FALSE
      BY <3>4 DEF Cancel
    <3>5. CASE \/ \E t \in Tokens : Evict(t)
               \/ \E k \in Kids : Publish(k) \/ Withdraw(k)
               \/ Tick \/ Finished
      BY <3>5 DEF Evict, Publish, Withdraw, Tick, Finished, vars
    <3> QED
      BY <3>1, <3>2, <3>3, <3>4, <3>5 DEF Next, Run
  <2>2. Token(c).exp \in Nat /\ now \in Nat
    BY ClaimsAssumption DEF TypeOK, ClaimSet, Token
  <2> QED
    BY <2>1, <2>2 DEF GoodOnesStand, AudienceMatches, Expired, Good, Verifiable
<1> QED
  BY <1>1, TypeCorrect, GoodOnesStay, PTL DEF Spec, GoodTokenAccepted

-----------------------------------------------------------------------------
(* verify_token implements its contract *)

\* A step that answers no call and leaves the world alone stutters in the contract.
LEMMA Quiet ==
    ASSUME UNCHANGED <<req, now, since, retired>>,
           \A c \in Calls : phase'[c] # phase[c] => {phase[c], phase'[c]} \cap Outcomes = {}
    PROVE  UNCHANGED Contract!vars
<1>1. \A c \in Calls : Answer(c)' = Answer(c)
  BY DEF Answer
<1>2. UNCHANGED [c \in Calls |-> Answer(c)]
  BY <1>1
<1> QED
  BY <1>2 DEF Contract!vars, Contract!world

\* A step that answers one call, as the contract permits, is a step of the contract.
LEMMA Answered ==
    ASSUME NEW c \in Calls, NEW o \in Outcomes,
           UNCHANGED <<req, now, since, retired>>,
           phase \in [Calls -> Phases],
           phase[c] \notin Outcomes,
           phase'[c] = o,
           \A d \in Calls \ {c} :
               phase'[d] # phase[d] => {phase[d], phase'[d]} \cap Outcomes = {},
           Contract!Permitted(c, o)
    PROVE  Contract!Next
<1> DEFINE out == [d \in Calls |-> Answer(d)]
<1>1. out[c] = "pending"
  BY DEF Answer
<1>2. out' = [out EXCEPT ![c] = o]
  BY DEF Answer
<1>3. o \in Contract!Outcomes
  BY DEF Outcomes, Contract!Outcomes
<1>4. Contract!Answer(c)
  BY <1>1, <1>2, <1>3 DEF Contract!Answer, Contract!world
<1> QED
  BY <1>4 DEF Contract!Next

\* The refinement: a good answer rests on CachesSound, every other step is
\* either permitted as it stands or invisible.
THEOREM KeepsContract == Spec => ContractKept
<1>1. Init => Contract!Init
  BY DEF Init, Contract!Init, Answer, Outcomes, Contract!Absent
<1>2. TypeOK /\ CachesSound /\ [Next]_vars => [Contract!Next]_(Contract!vars)
  <2> SUFFICES ASSUME TypeOK, CachesSound, [Next]_vars
               PROVE  Contract!Next \/ UNCHANGED Contract!vars
    OBVIOUS
  <2> phase \in [Calls -> Phases]
    BY DEF TypeOK
  <2> USE DEF caches, provider
  <2>1. ASSUME NEW c \in Calls, Begin(c) PROVE Contract!Next \/ UNCHANGED Contract!vars
    <3> USE <2>1 DEF Begin
    <3>1. CASE Token(c).form = "empty"
      <4>1. phase'[c] = "Empty" /\ Contract!Permitted(c, "Empty")
        BY <3>1 DEF Token, Contract!Permitted, Contract!Token
      <4> QED
        BY <4>1, Answered DEF Outcomes
    <3>2. CASE Token(c).form = "opaque"
      <4>1. phase'[c] = "Opaque" /\ Contract!Permitted(c, "Opaque")
        BY <3>2 DEF Token, Contract!Permitted, Contract!Token
      <4> QED
        BY <4>1, Answered DEF Outcomes
    <3>3. CASE Token(c).form \notin {"empty", "opaque"}
      BY <3>3, Quiet DEF Outcomes
    <3> QED
      BY <3>1, <3>2, <3>3
  <2>2. ASSUME NEW c \in Calls, Lookup(c) PROVE UNCHANGED Contract!vars
    BY <2>2, Quiet DEF Lookup, LookupHit, LookupWait, LookupLead, Outcomes
  <2>3. ASSUME NEW c \in Calls, Keys(c) PROVE UNCHANGED Contract!vars
    BY <2>3, Quiet DEF Keys, KeysHit, KeysWait, KeysFetch, Outcomes
  <2>4. ASSUME NEW c \in Calls, Replies(c) PROVE UNCHANGED Contract!vars
    BY <2>4, Quiet DEF Replies, DiscoveryOk, DiscoveryError, JwksOk, JwksError, Joined, Outcomes
  <2>5. ASSUME NEW c \in Calls, Accept(c) \/ Reject(c) PROVE UNCHANGED Contract!vars
    BY <2>5, Quiet DEF Accept, Reject, Settle, Followers, SameToken, Outcomes
  <2>6. ASSUME NEW c \in Calls, RecheckAudience(c) \/ RecheckExpiry(c) \/ Fail(c)
        PROVE  Contract!Next
    <3>1. phase[c] \in Running /\ phase'[c] = "Invalid"
      BY <2>6 DEF RecheckAudience, RecheckExpiry, Fail, Running, Computing
    <3>2. Contract!Permitted(c, "Invalid")
      BY <3>1 DEF CachesSound, ResultsSound, Token, Contract!Permitted, Contract!Token
    <3> QED
      BY <2>6, <3>1, <3>2, Answered DEF RecheckAudience, RecheckExpiry, Fail, Outcomes
  <2>7. ASSUME NEW c \in Calls, Admit(c) PROVE Contract!Next
    <3>1. phase[c] = "recheck" /\ phase'[c] = "Jwt"
      BY <2>7 DEF Admit
    <3>2. /\ Token(c).form = "jwt" /\ Token(c).genuine /\ req[c].aud \in Token(c).aud
          /\ HeldBefore(Token(c).kid, now, JwksTtl + VerifiedTtl - 1)
      BY <2>7, <3>1
      DEF Admit, AudienceMatches, CachesSound, ResultsSound, Running, Computing
    <3>3. now <= Token(c).exp
      <4>1. Token(c).exp \in Nat /\ now \in Nat /\ Token(c).exp > 0
        BY <3>1, ClaimsAssumption DEF CachesSound, ResultsSound, TypeOK, Token, ClaimSet
      <4> QED
        BY <2>7, <4>1 DEF Admit, Expired
    <3>4. Contract!Permitted(c, "Jwt")
      BY <3>2, <3>3
      DEF HeldBefore, Token, Absent, Contract!Permitted, Contract!Sound, Contract!Trusted,
          Contract!Token, Contract!Absent
    <3> QED
      BY <2>7, <3>1, <3>4, Answered DEF Admit, Outcomes
  <2>8. ASSUME NEW c \in Calls, Cancel(c) PROVE Contract!Next
    <3>1. phase[c] \notin Outcomes /\ phase'[c] = "cancelled"
      <4>1. phase[c] \notin Outcomes
        BY <2>8 DEF Cancel, Suspended, Outcomes
      <4>2. phase'[c] = "cancelled"
        BY <2>8 DEF Cancel, Followers, SameToken, Joined, Leading
      <4> QED
        BY <4>1, <4>2
    <3>2. \A d \in Calls \ {c} :
            phase'[d] # phase[d] => {phase[d], phase'[d]} \cap Outcomes = {}
      BY <2>8 DEF Cancel, Followers, SameToken, Joined, Outcomes
    <3>3. Contract!Permitted(c, "cancelled")
      BY DEF Contract!Permitted
    <3> QED
      BY <2>8, <3>1, <3>2, <3>3, Answered DEF Cancel, Outcomes
  <2>9. CASE (\E t \in Tokens : Evict(t)) \/ Finished \/ UNCHANGED vars
    <3>1. UNCHANGED <<req, phase, now, since, retired>>
      BY <2>9 DEF Evict, Finished, vars
    <3> QED
      BY <3>1, Quiet
  <2>10. ASSUME NEW k \in Kids, Publish(k) \/ Withdraw(k) PROVE Contract!Next
    <3>1. UNCHANGED [c \in Calls |-> Answer(c)]
      BY <2>10 DEF Publish, Withdraw, Answer
    <3>2. (Contract!Publish(k) \/ Contract!Withdraw(k)) /\ UNCHANGED req
      BY <2>10 DEF Publish, Withdraw, Contract!Publish, Contract!Withdraw, Contract!Absent
    <3> QED
      BY <3>1, <3>2 DEF Contract!Next, Contract!WorldNext
  <2>11. CASE Tick
    <3>1. UNCHANGED [c \in Calls |-> Answer(c)]
      BY <2>11 DEF Tick, Answer
    <3>2. Contract!Advance /\ UNCHANGED req
      BY <2>11 DEF Tick, Contract!Advance
    <3> QED
      BY <3>1, <3>2 DEF Contract!Next, Contract!WorldNext
  <2>12. ASSUME NEW c \in Calls, Run(c) PROVE Contract!Next \/ UNCHANGED Contract!vars
    BY <2>2, <2>3, <2>4, <2>5, <2>6, <2>7, <2>12 DEF Run, Recheck
  <2> QED
    BY <2>1, <2>8, <2>9, <2>10, <2>11, <2>12 DEF Next
<1> QED
  BY <1>1, <1>2, TypeCorrect, CachesStaySound, PTL DEF Spec, ContractKept, Contract!Spec
=============================================================================
