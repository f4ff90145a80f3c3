---------------------------- MODULE TokenVerifier ----------------------------
(***************************************************************************)
(* Auth0Client::verify_token (src/src/auth0.rs:296-451): concurrent calls  *)
(* that verify JWTs through two moka caches,                               *)
(*   verified_token_cache   raw token |-> claims      (TTL 15 minutes)     *)
(*   jwks_cache             JWKS URI  |-> signing keys (TTL 1 hour)        *)
(* Both are filled with try_get_with: the first caller that misses leads   *)
(* the "flight" of that key, later ones wait and share its result, its     *)
(* error included; when the leader's future is dropped the waiters start   *)
(* over.                                                                   *)
(*                                                                         *)
(* A call is one request handler's await of verify_token.  Handlers run in *)
(* parallel on tokio's worker threads, so an action touches a shared cache *)
(* at most once.  One unit of time is longer than the code between two     *)
(* awaits (Tick waits for it) and than the transit of one HTTP answer; a   *)
(* request may stay unanswered for any number of units.                    *)
(***************************************************************************)
EXTENDS Integers, FiniteSets

CONSTANTS
    Calls,              \* calls of verify_token, each made once
    Tokens,             \* raw token strings
    Audiences,          \* audiences that applications are configured with
    Kids,               \* ids of the provider's signing keys
    Claims,             \* token |-> what its bytes decode to
    InitialKids,        \* keys the provider publishes from the start
    VerifiedTtl,        \* time_to_live of verified_token_cache
    VerifiedCapacity,   \* max_capacity of verified_token_cache
    JwksTtl,            \* time_to_live of jwks_cache
    Leeway,             \* validation.leeway
    Epoch,              \* the clock when the process starts
    MaxTime,            \* bound: the clock never passes it
    MaxRotations,       \* bound: publications and withdrawals of keys
    NetworkFaults       \* may HTTP requests to the provider fail?

ClaimSet ==
    [form: {"empty", "opaque", "jwt"},  \* three dot-separated parts or not
     header: BOOLEAN,                   \* the header decodes and has a kid
     kid: Kids,
     genuine: BOOLEAN,                  \* RSA key, RS* algorithm, signature and issuer right
     aud: SUBSET Audiences,
     exp: Nat]

ASSUME ClaimsAssumption == Claims \in [Tokens -> ClaimSet]
ASSUME KidsAssumption == InitialKids \subseteq Kids
ASSUME TtlAssumption ==
    /\ VerifiedTtl \in Nat \ {0}
    /\ JwksTtl \in Nat \ {0}
    /\ VerifiedCapacity \in Nat
ASSUME ClockAssumption ==    \* wall-clock seconds: 1970 is further back than any TTL
    /\ Leeway \in Nat
    /\ Epoch \in Nat /\ Epoch > Leeway /\ Epoch >= JwksTtl
    /\ MaxTime \in Nat /\ MaxRotations \in Nat
ASSUME FaultsAssumption == NetworkFaults \in BOOLEAN

VARIABLES
    req,         \* call |-> its arguments, [tok, aud]
    phase,       \* call |-> the await it is suspended in, or its answer
    keyset,      \* call |-> the JWKS keys that get_jwks_keys returned to it
    verified,    \* verified_token_cache: token |-> time of insertion, or Absent
    jwks,        \* jwks_cache: [keys, at], at = Absent when there is no entry
    since,       \* kid |-> when it was last published, Absent if it is not
    retired,     \* kid |-> when it was last withdrawn, Absent if never
    now,         \* SystemTime::now()
    rotations    \* publications and withdrawals so far

caches == <<verified, jwks>>
provider == <<since, retired, rotations>>
vars == <<req, phase, keyset, caches, provider, now>>

Absent == -1

\* Phases of a call that leads the flight of its token, in verify_jwt_uncached.
Leading == {"discovery",    \* awaiting the OIDC discovery document
            "keyset",       \* about to look in jwks_cache
            "fetching",     \* leads the JWKS flight: awaiting the JWKS document
            "joined",       \* waiting for another call's JWKS flight
            "decode",       \* has the keys, about to validate the token
            "rejecting"}    \* get_jwks_keys returned an error
Suspended == {"discovery", "fetching", "waiting", "joined"}
Computing == {"lookup", "keyset", "decode", "rejecting", "recheck",
              "failed",         \* the verification of its token has failed
              "unreachable"}    \* it could not be made: the provider did not answer
Running == Suspended \cup Computing
Outcomes == {"Empty", "Opaque", "Invalid", "Jwt", "cancelled"}
Phases == {"idle"} \cup Running \cup Outcomes

Published == {k \in Kids : since[k] # Absent}

Token(c) == Claims[req[c].tok]
SameToken(c) == {d \in Calls : req[d].tok = req[c].tok}
Leaders(c) == {d \in SameToken(c) : phase[d] \in Leading}
Followers(c) == {d \in SameToken(c) : phase[d] = "waiting"}
Fetchers == {d \in Calls : phase[d] = "fetching"}
Joined == {d \in Calls : phase[d] = "joined"}

-----------------------------------------------------------------------------
(* Helpers.  Here and below, an operator Faulty... is a seeded fault: the   *)
(* operator after it as a plausible bug would have it.  No specification    *)
(* uses one; README.md says which property each of them breaks.             *)

\* moka returns an entry until its time_to_live has passed.
Live(at, ttl) == at # Absent /\ now < at + ttl

\* jsonwebtoken's validation and the final audience check (auth0.rs:377-421).
FaultyAcceptable(c) ==
    /\ Token(c).kid \in keyset[c]
    /\ Token(c).genuine
    /\ now < Token(c).exp
    /\ req[c].aud \in Token(c).aud
Acceptable(c) ==
    /\ Token(c).kid \in keyset[c]
    /\ Token(c).genuine
    /\ now <= Token(c).exp + Leeway
    /\ req[c].aud \in Token(c).aud

\* The re-checks that verify_token makes on what the cache or flight gave it.
FaultyAudienceMatches(c) == TRUE
AudienceMatches(c) == req[c].aud \in Token(c).aud
Expired(c) == Token(c).exp > 0 /\ Token(c).exp < now

\* Call c goes on to p and touches nothing else.
Move(c, p) ==
    /\ phase' = [phase EXCEPT ![c] = p]
    /\ UNCHANGED <<req, keyset, caches, provider, now>>

\* moka hands the result of c's flight to everybody who waits for it.
FaultySettle(c, p) == [phase EXCEPT ![c] = p]
Settle(c, p) == [d \in Calls |-> IF d \in {c} \cup Followers(c) THEN p ELSE phase[d]]

-----------------------------------------------------------------------------
(* verify_token *)

Init ==
    /\ req \in [Calls -> [tok: Tokens, aud: Audiences]]
    /\ phase = [c \in Calls |-> "idle"]
    /\ keyset = [c \in Calls |-> {}]
    /\ verified = [t \in Tokens |-> Absent]
    /\ jwks = [keys |-> {}, at |-> Absent]
    /\ since = [k \in Kids |-> IF k \in InitialKids THEN 0 ELSE Absent]
    /\ retired = [k \in Kids |-> Absent]
    /\ now = Epoch
    /\ rotations = 0

\* Empty and opaque tokens are answered at once; a JWT goes to the cache.
Begin(c) ==
    /\ phase[c] = "idle"
    /\ Move(c, CASE Token(c).form = "empty"  -> "Empty"
                 [] Token(c).form = "opaque" -> "Opaque"
                 [] OTHER                    -> "lookup")

LookupHit(c) ==
    /\ phase[c] = "lookup" /\ Live(verified[req[c].tok], VerifiedTtl)
    /\ Move(c, "recheck")

LookupWait(c) ==
    /\ phase[c] = "lookup" /\ ~Live(verified[req[c].tok], VerifiedTtl)
    /\ Leaders(c) # {}
    /\ Move(c, "waiting")

\* The caller leads: decode_header and the kid, then get_jwks_keys.
FaultyLookupLead(c) ==
    /\ phase[c] = "lookup"
    /\ Move(c, IF Token(c).header THEN "discovery" ELSE "failed")
LookupLead(c) ==
    /\ phase[c] = "lookup" /\ ~Live(verified[req[c].tok], VerifiedTtl)
    /\ Leaders(c) = {}
    /\ Move(c, IF Token(c).header THEN "discovery" ELSE "failed")

\* The discovery document arrives; its jwks_uri is the one key of jwks_cache.
DiscoveryOk(c) ==
    /\ phase[c] = "discovery"
    /\ Move(c, "keyset")

\* No answer within 30 s, no connection, or an answer that does not parse.
DiscoveryError(c) ==
    /\ NetworkFaults
    /\ phase[c] = "discovery"
    /\ Move(c, "rejecting")

FaultyKeysHit(c) ==
    /\ phase[c] = "keyset"
    /\ jwks.at # Absent
    /\ phase' = [phase EXCEPT ![c] = "decode"]
    /\ keyset' = [keyset EXCEPT ![c] = jwks.keys]
    /\ UNCHANGED <<req, caches, provider, now>>
KeysHit(c) ==
    /\ phase[c] = "keyset" /\ Live(jwks.at, JwksTtl)
    /\ phase' = [phase EXCEPT ![c] = "decode"]
    /\ keyset' = [keyset EXCEPT ![c] = jwks.keys]
    /\ UNCHANGED <<req, caches, provider, now>>

KeysWait(c) ==
    /\ phase[c] = "keyset" /\ ~Live(jwks.at, JwksTtl)
    /\ Fetchers # {}
    /\ Move(c, "joined")

FaultyKeysFetch(c) ==
    /\ phase[c] = "keyset"
    /\ Move(c, "fetching")
KeysFetch(c) ==
    /\ phase[c] = "keyset" /\ ~Live(jwks.at, JwksTtl)
    /\ Fetchers = {}
    /\ Move(c, "fetching")

\* The JWKS arrives: moka stores it and hands it to all who joined.
JwksOk(c) ==
    /\ phase[c] = "fetching"
    /\ jwks' = [keys |-> Published, at |-> now]
    /\ phase' = [d \in Calls |-> IF d \in {c} \cup Joined THEN "decode" ELSE phase[d]]
    /\ keyset' = [d \in Calls |-> IF d \in {c} \cup Joined THEN Published ELSE keyset[d]]
    /\ UNCHANGED <<req, verified, provider, now>>

JwksError(c) ==
    /\ NetworkFaults
    /\ phase[c] = "fetching"
    /\ phase' = [d \in Calls |-> IF d \in {c} \cup Joined THEN "rejecting" ELSE phase[d]]
    /\ UNCHANGED <<req, keyset, caches, provider, now>>

\* The token is valid: its claims enter the cache and go to all who wait.
FaultyAccept(c) ==
    /\ phase[c] = "decode"
    /\ Acceptable(c)
    /\ verified' = [verified EXCEPT ![req[c].tok] = now + VerifiedTtl]
    /\ phase' = Settle(c, "recheck")
    /\ keyset' = [keyset EXCEPT ![c] = {}]
    /\ UNCHANGED <<req, jwks, provider, now>>
Accept(c) ==
    /\ phase[c] = "decode"
    /\ Acceptable(c)
    /\ verified' = [verified EXCEPT ![req[c].tok] = now]
    /\ phase' = Settle(c, "recheck")
    /\ keyset' = [keyset EXCEPT ![c] = {}]
    /\ UNCHANGED <<req, jwks, provider, now>>

\* An error is not cached, but everybody who waits gets it.
Reject(c) ==
    /\ phase[c] = "rejecting" \/ (phase[c] = "decode" /\ ~Acceptable(c))
    /\ phase' = Settle(c, IF phase[c] = "rejecting" THEN "unreachable" ELSE "failed")
    /\ keyset' = [keyset EXCEPT ![c] = {}]
    /\ UNCHANGED <<req, caches, provider, now>>

RecheckAudience(c) ==
    /\ phase[c] = "recheck" /\ ~AudienceMatches(c)
    /\ Move(c, "Invalid")

RecheckExpiry(c) ==
    /\ phase[c] = "recheck" /\ AudienceMatches(c)
    /\ Expired(c)
    /\ phase' = [phase EXCEPT ![c] = "Invalid"]
    /\ verified' = [verified EXCEPT ![req[c].tok] = Absent]
    /\ UNCHANGED <<req, keyset, jwks, provider, now>>

Admit(c) ==
    /\ phase[c] = "recheck" /\ AudienceMatches(c)
    /\ ~Expired(c)
    /\ Move(c, "Jwt")

Fail(c) ==
    /\ phase[c] \in {"failed", "unreachable"}
    /\ Move(c, "Invalid")

\* The client disconnects and the server drops the handler's future, with any
\* flight it leads: moka wakes those who wait for it and they look again.
FaultyCancel(c) ==
    /\ phase[c] \in Suspended
    /\ Move(c, "cancelled")
Cancel(c) ==
    /\ phase[c] \in Suspended
    /\ LET freed == IF phase[c] \in Leading THEN Followers(c) ELSE {}
           rejoin == IF phase[c] = "fetching" THEN Joined ELSE {}
       IN  phase' = [d \in Calls |->
                CASE d = c        -> "cancelled"
                  [] d \in freed  -> "lookup"
                  [] d \in rejoin -> "keyset"
                  [] OTHER        -> phase[d]]
    /\ UNCHANGED <<req, keyset, caches, provider, now>>

-----------------------------------------------------------------------------
(* The caches' capacity, the provider's keys and the clock *)

\* Over capacity, moka drops an entry of its choice.
Evict(t) ==
    /\ verified[t] # Absent
    /\ Cardinality({u \in Tokens : verified[u] # Absent}) > VerifiedCapacity
    /\ verified' = [verified EXCEPT ![t] = Absent]
    /\ UNCHANGED <<req, phase, keyset, jwks, provider, now>>

Publish(k) ==
    /\ rotations < MaxRotations
    /\ since[k] = Absent
    /\ since' = [since EXCEPT ![k] = now]
    /\ rotations' = rotations + 1
    /\ UNCHANGED <<req, phase, keyset, caches, retired, now>>

Withdraw(k) ==
    /\ rotations < MaxRotations
    /\ since[k] # Absent
    /\ since' = [since EXCEPT ![k] = Absent]
    /\ retired' = [retired EXCEPT ![k] = now]
    /\ rotations' = rotations + 1
    /\ UNCHANGED <<req, phase, keyset, caches, now>>

\* Time passes while every running handler is suspended in an await.
Tick ==
    /\ now < MaxTime
    /\ \A c \in Calls : phase[c] \notin Computing
    /\ now' = now + 1
    /\ UNCHANGED <<req, phase, keyset, caches, provider>>

\* Every call was answered and the clock is at its bound.
Finished ==
    /\ now = MaxTime
    /\ \A c \in Calls : phase[c] \in Outcomes
    /\ UNCHANGED vars

-----------------------------------------------------------------------------

\* What the executor does for a call that runs: an HTTP request is answered or
\* times out, a computation goes on.
Lookup(c) == LookupHit(c) \/ LookupWait(c) \/ LookupLead(c)
Keys(c) == KeysHit(c) \/ KeysWait(c) \/ KeysFetch(c)
Replies(c) == DiscoveryOk(c) \/ DiscoveryError(c) \/ JwksOk(c) \/ JwksError(c)
Recheck(c) == RecheckAudience(c) \/ RecheckExpiry(c) \/ Admit(c)
Run(c) == Lookup(c) \/ Keys(c) \/ Replies(c) \/ Accept(c) \/ Reject(c) \/ Recheck(c) \/ Fail(c)

Next ==
    \/ \E c \in Calls : Begin(c) \/ Run(c) \/ Cancel(c)
    \/ \E t \in Tokens : Evict(t)
    \/ \E k \in Kids : Publish(k) \/ Withdraw(k)
    \/ Tick
    \/ Finished

Spec == Init /\ [][Next]_vars

\* A runnable task is polled again, and every HTTP request ends within 30 s.
Fairness == \A c \in Calls : WF_vars(Run(c))

FairSpec == Spec /\ Fairness

-----------------------------------------------------------------------------
(* Properties *)

\* Every variable has its type; an insertion time lies in the past.
TypeOK ==
    /\ req \in [Calls -> [tok: Tokens, aud: Audiences]]
    /\ phase \in [Calls -> Phases]
    /\ keyset \in [Calls -> SUBSET Kids]
    /\ verified \in [Tokens -> Absent .. now]
    /\ jwks \in [keys: SUBSET Kids, at: Absent .. now]
    /\ since \in [Kids -> Absent .. now]
    /\ retired \in [Kids -> Absent .. now]
    /\ now \in Nat
    /\ rotations \in Nat

\* "moka ensures only one init future runs per key; others wait and share the
\* result" (auth0.rs:306-307), and nobody waits for a flight that has gone:
\* not after an error, nor after its leader's client has disconnected.
OneLeader ==
    \A c, d \in Calls :
        phase[c] \in Leading /\ phase[d] \in Leading /\ req[c].tok = req[d].tok => c = d
OneFetcher == \A c, d \in Fetchers : c = d
NoOrphans ==
    /\ \A c \in Calls : phase[c] = "waiting" => Leaders(c) # {}
    /\ Joined # {} => Fetchers # {}
SingleFlight == OneLeader /\ OneFetcher /\ NoOrphans

\* An entry of either cache is never filled again while it is live: the TTLs
\* and the flights together deduplicate the verifications and the JWKS fetches
\* (auth0.rs:306, 428-429).
NoRedundantFill ==
    [][/\ \A t \in Tokens :
            verified'[t] \notin {verified[t], Absent} => ~Live(verified[t], VerifiedTtl)
       /\ jwks'.at # jwks.at => ~Live(jwks.at, JwksTtl)]_vars

\* What the caches and the calls in flight hold is never older than the TTLs
\* allow, across every await between reading it and using it: cached keys were
\* published when they were fetched, the key set a call validates with is less
\* than JwksTtl old, and cached claims were valid, under such a key set, when
\* they were inserted.
HeldAt(k, t) == since[k] # Absent \/ (retired[k] # Absent /\ t <= retired[k])
HeldBefore(k, t, age) == since[k] # Absent \/ (retired[k] # Absent /\ t < retired[k] + age)

KeysSound ==
    /\ \A k \in jwks.keys : HeldAt(k, jwks.at)
    /\ \A c \in Calls : phase[c] = "decode" =>
        \A k \in keyset[c] : HeldBefore(k, now, JwksTtl)
VerifiedSound ==
    \A t \in Tokens : verified[t] # Absent =>
        /\ Claims[t].genuine
        /\ Epoch <= verified[t] /\ verified[t] <= Claims[t].exp + Leeway
        /\ HeldBefore(Claims[t].kid, verified[t], JwksTtl)
ResultsSound ==
    \A c \in Calls :
        /\ phase[c] \in Running => Token(c).form = "jwt"
        /\ phase[c] = "recheck" =>
            /\ Token(c).genuine
            /\ Token(c).exp > 0
            /\ HeldBefore(Token(c).kid, now, JwksTtl + VerifiedTtl - 1)
CachesSound == Epoch <= now /\ KeysSound /\ VerifiedSound /\ ResultsSound

\* verify_token keeps its contract: Token::Jwt is answered only for a genuine,
\* unexpired token for the audience asked for, whose key is published or was
\* withdrawn less than both TTLs ago, whoever filled the caches and whoever
\* else was waiting.
Answer(c) == IF phase[c] \in Outcomes THEN phase[c] ELSE "pending"

Contract == INSTANCE VerifyContract WITH
    outcome <- [c \in Calls |-> Answer(c)],
    TrustWindow <- JwksTtl + VerifiedTtl - 1

ContractKept == Contract!Spec

\* A token that every live copy of the JWKS can vouch for.
Verifiable(c) ==
    /\ Token(c).form = "jwt" /\ Token(c).header /\ Token(c).genuine
    /\ req[c].aud \in Token(c).aud
    /\ since[Token(c).kid] # Absent
    /\ since[Token(c).kid] <= now - JwksTtl
Good(c) == Verifiable(c) /\ now <= Token(c).exp

\* No other call asks about the same token for another audience.
Uncontended(c) == \A d \in SameToken(c) : req[d].aud = req[c].aud

\* A rejection that is not for want of an answer from the provider.
Rejects(c) == phase[c] \notin {"Invalid", "unreachable"} /\ phase'[c] = "Invalid"

\* Only the network stands between a good token and its acceptance: whatever was
\* cached, evicted, cancelled, rotated or failed for others, a call for a good
\* token is rejected only if a flight it waited for could not have the discovery
\* document or the JWKS, as long as the calls for it agree on the audience.
GoodTokenAccepted ==
    [][\A c \in Calls : Rejects(c) /\ Uncontended(c) => ~Good(c)]_vars

\* Every call that has started ends: no waiter is forgotten by its flight.
EveryCallEnds == \A c \in Calls : phase[c] # "idle" ~> phase[c] \in Outcomes

-----------------------------------------------------------------------------
(* What the repository says and the code does not do *)

\* "since we have not signed out, the existing cookies grant access": a good
\* token is accepted.  A waiter also gets the audience error of a leader that
\* asked about the same token for another application.
ConcurrentAudiencesServed ==
    [][\A c \in Calls : Rejects(c) => ~Good(c)]_vars

\* "Allow some clock skew" (auth0.rs:405): a token that expired no more than
\* Leeway ago is not rejected for it.
ClockSkewTolerated ==
    [][\A c \in Calls : Rejects(c) /\ Uncontended(c) =>
        ~(Verifiable(c) /\ now <= Token(c).exp + Leeway)]_vars

\* "After rotating keys in Auth0, existing cached tokens remain valid for up to
\* 15 minutes" (SKILL.md:251): no token is accepted later than that.
RotationHonoured ==
    [][\A c \in Calls :
        phase[c] # "Jwt" /\ phase'[c] = "Jwt" =>
            LET k == Token(c).kid
            IN  since[k] # Absent \/ now < retired[k] + VerifiedTtl]_vars
=============================================================================
