-------------------------- MODULE ClientCredentials --------------------------
(***************************************************************************)
(* Auth0Client::client_credentials_exchange (src/src/auth0.rs:145-230):    *)
(* concurrent handlers of Basic-auth requests that exchange the client's   *)
(* credentials for an access token, through cc_token_cache.                *)
(*                                                                         *)
(* The cache is looked at twice.  A first get (155) returns a token that   *)
(* has not expired, and an expired one is invalidated (171); then          *)
(* try_get_with (184) returns what is there, joins the request in flight   *)
(* for the key, or sends one.  Handlers run in parallel, so others may     *)
(* act between the get, the invalidate and the try_get_with.               *)
(***************************************************************************)
EXTENDS Integers, FiniteSets, Sequences

CONSTANTS
    Calls,          \* calls of client_credentials_exchange, each made once
    Questions,      \* what may be asked: [client, secret, audience], see CacheKey
    Lifetimes,      \* values of expires_in the provider answers with
    CacheTtl,       \* time_to_live of cc_token_cache
    CacheCapacity,  \* its max_capacity
    MaxTime         \* bound: the clock never passes it

ASSUME LifetimesAssumption == Lifetimes \subseteq Nat
ASSUME BoundsAssumption == CacheTtl \in Nat \ {0} /\ CacheCapacity \in Nat /\ MaxTime \in Nat

VARIABLES
    req,      \* call |-> its arguments, one of Questions
    phase,    \* call |-> where it is, or its answer
    got,      \* call |-> the CachedToken behind its answer, or NoEntry
    cache,    \* cc_token_cache: key |-> CachedToken and time of insertion, or NoEntry
    now       \* SystemTime::now()

vars == <<req, phase, got, cache, now>>

\* format!("{}:{}:{}"), its arguments joined by colons (152).  A secret and an
\* audience may hold colons themselves and are the sequences of their pieces; a
\* client id from a Basic header has none.
Joined(q) == <<q.client>> \o q.secret \o q.audience

\* The code takes the joined string for the question.  It is one as long as no
\* audience in use is the end of another one after a colon.
ASSUME KeysAssumption == \A p, q \in Questions : Joined(p) = Joined(q) => p = q

\* The key of an entry and of a flight.
FaultyCacheKey(q) == <<q.client>> \o q.secret
CacheKey(q) == Joined(q)
KeyOf == [q \in Questions |-> CacheKey(q)]
CacheKeys == {KeyOf[q] : q \in Questions}
Key(c) == KeyOf[req[c]]

Computing == {"invalidate", "lookup"}
Suspended == {"requesting",   \* leads the key's flight: awaiting the token endpoint
              "waiting"}      \* waits for another call's request
Outcomes == {"Token", "Missing", "Error", "cancelled"}
Phases == {"idle"} \cup Computing \cup Suspended \cup Outcomes

\* to: the parameters of the request that it answers.  usable: the JSON has an
\* access_token.  expires: CachedToken.expires_at.  at: its time of insertion.
CachedToken == [to: Questions, usable: BOOLEAN, expires: Nat, at: Nat]
NoEntry == [at |-> -1]

Entry(c) == cache[Key(c)]
Live(c) == Entry(c) # NoEntry /\ now < Entry(c).at + CacheTtl
Leaders(c) == {d \in Calls : Key(d) = Key(c) /\ phase[d] = "requesting"}
Followers(c) == {d \in Calls : Key(d) = Key(c) /\ phase[d] = "waiting"}

Move(c, p) ==
    /\ phase' = [phase EXCEPT ![c] = p]
    /\ UNCHANGED <<req, got, cache, now>>

\* The answer made from a CachedToken: its access_token, or "Missing".
Answer(token) == IF token.usable THEN "Token" ELSE "Missing"

\* Everybody in `group' gets the outcome p, made from `token'.
Settle(group, p, token) ==
    /\ phase' = [d \in Calls |-> IF d \in group THEN p ELSE phase[d]]
    /\ got' = [d \in Calls |-> IF d \in group THEN token ELSE got[d]]

-----------------------------------------------------------------------------

Init ==
    /\ req \in [Calls -> Questions]
    /\ phase = [c \in Calls |-> "idle"]
    /\ got = [c \in Calls |-> NoEntry]
    /\ cache = [k \in CacheKeys |-> NoEntry]
    /\ now = 0

\* The first look: only an unexpired token is an answer (auth0.rs:155-168).
FaultyCheck(c) ==
    /\ phase[c] = "idle"
    /\ IF Live(c) /\ now < Entry(c).expires
       THEN Settle({c}, Answer(Entry(c)), Entry(c)) /\ UNCHANGED <<req, cache, now>>
       ELSE Move(c, "lookup")
Check(c) ==
    /\ phase[c] = "idle"
    /\ IF Live(c) /\ now < Entry(c).expires
       THEN Settle({c}, Answer(Entry(c)), Entry(c)) /\ UNCHANGED <<req, cache, now>>
       ELSE Move(c, IF Live(c) THEN "invalidate" ELSE "lookup")

\* An expired token was seen: whatever is cached now is dropped (171).
Invalidate(c) ==
    /\ phase[c] = "invalidate"
    /\ phase' = [phase EXCEPT ![c] = "lookup"]
    /\ cache' = [cache EXCEPT ![Key(c)] = NoEntry]
    /\ UNCHANGED <<req, got, now>>

\* try_get_with: take what is there, join the flight, or lead one (182-184).
LookupHit(c) ==
    /\ phase[c] = "lookup" /\ Live(c)
    /\ Settle({c}, Answer(Entry(c)), Entry(c))
    /\ UNCHANGED <<req, cache, now>>

LookupWait(c) ==
    /\ phase[c] = "lookup" /\ ~Live(c) /\ Leaders(c) # {}
    /\ Move(c, "waiting")

FaultyLookupLead(c) ==
    /\ phase[c] = "lookup" /\ ~Live(c)
    /\ Move(c, "requesting")
LookupLead(c) ==
    /\ phase[c] = "lookup" /\ ~Live(c) /\ Leaders(c) = {}
    /\ Move(c, "requesting")

\* JSON without an "error" arrives: it is cached, an access_token in it or not,
\* and goes to all who wait (198-219).
FaultyReplyToken(c) ==
    /\ phase[c] = "requesting"
    /\ \E usable \in BOOLEAN, life \in Lifetimes :
        LET token == [to |-> req[c], usable |-> usable, expires |-> now - life, at |-> now]
        IN  /\ Settle({c} \cup Followers(c), Answer(token), token)
            /\ cache' = [cache EXCEPT ![Key(c)] = token]
    /\ UNCHANGED <<req, now>>
ReplyToken(c) ==
    /\ phase[c] = "requesting"
    /\ \E usable \in BOOLEAN, life \in Lifetimes :
        LET token == [to |-> req[c], usable |-> usable, expires |-> now + life, at |-> now]
        IN  /\ Settle({c} \cup Followers(c), Answer(token), token)
            /\ cache' = [cache EXCEPT ![Key(c)] = token]
    /\ UNCHANGED <<req, now>>

\* An "error", no answer within 30 s, or no JSON: nothing is cached (194-204).
FaultyReplyError(c) ==
    /\ phase[c] = "requesting"
    /\ Settle({c}, "Error", NoEntry)
    /\ UNCHANGED <<req, cache, now>>
ReplyError(c) ==
    /\ phase[c] = "requesting"
    /\ Settle({c} \cup Followers(c), "Error", NoEntry)
    /\ UNCHANGED <<req, cache, now>>

\* The client disconnects and the handler's future is dropped.
Cancel(c) ==
    /\ phase[c] \in Suspended
    /\ phase' = [d \in Calls |->
            IF d = c THEN "cancelled"
            ELSE IF phase[c] = "requesting" /\ d \in Followers(c) THEN "lookup" ELSE phase[d]]
    /\ UNCHANGED <<req, got, cache, now>>

\* Over capacity, moka drops an entry of its choice.
Evict(k) ==
    /\ cache[k] # NoEntry
    /\ Cardinality({j \in CacheKeys : cache[j] # NoEntry}) > CacheCapacity
    /\ cache' = [cache EXCEPT ![k] = NoEntry]
    /\ UNCHANGED <<req, phase, got, now>>

\* Time passes while every running handler is suspended in an await.  A handler
\* between the get (155) and the try_get_with (184) is not: no second begins
\* between the two.  One that did would let it take a token which another call
\* cached in the meantime and which lived no longer than that.
Tick ==
    /\ now < MaxTime
    /\ \A c \in Calls : phase[c] \notin Computing
    /\ now' = now + 1
    /\ UNCHANGED <<req, phase, got, cache>>

Finished ==
    /\ now = MaxTime
    /\ \A c \in Calls : phase[c] \in Outcomes
    /\ UNCHANGED vars

Run(c) == Invalidate(c) \/ LookupHit(c) \/ LookupWait(c) \/ LookupLead(c) \/ ReplyToken(c) \/ ReplyError(c)

Next ==
    \/ \E c \in Calls : Check(c) \/ Run(c) \/ Cancel(c)
    \/ \E k \in CacheKeys : Evict(k)
    \/ Tick
    \/ Finished

Spec == Init /\ [][Next]_vars

\* A runnable task is polled again, and every HTTP request ends within 30 s.
Fairness == \A c \in Calls : WF_vars(Run(c))
FairSpec == Spec /\ Fairness

-----------------------------------------------------------------------------
(* Properties *)

\* Every variable has its type, and a cached token was inserted in the past.
TypeOK ==
    /\ req \in [Calls -> Questions]
    /\ phase \in [Calls -> Phases]
    /\ got \in [Calls -> CachedToken \cup {NoEntry}]
    /\ cache \in [CacheKeys -> CachedToken \cup {NoEntry}]
    /\ \A k \in CacheKeys : cache[k].at <= now
    /\ now \in Nat

\* "try_get_with ensures only one concurrent HTTP request is made" per key
\* (auth0.rs:174-175), and whoever waits has a request to wait for.
OneRequestPerKey ==
    \A c \in Calls :
        /\ phase[c] = "requesting" => Leaders(c) = {c}
        /\ phase[c] = "waiting" => Leaders(c) # {}

\* No caller gets a token past its expiry, from the cache or from a flight,
\* unless the provider has issued it expired just now: an expired entry is
\* evicted "so try_get_with doesn't return the stale entry to other concurrent
\* callers" (auth0.rs:169-170).
Fresh(token) == now < token.expires \/ token.at = now
NeverStale ==
    [][\A c \in Calls : phase[c] # "Token" /\ phase'[c] = "Token" => Fresh(got'[c])]_vars

\* client_credentials_exchange keeps its contract: the token behind an answer,
\* a kept one or a new one, was issued to that very client for that very
\* audience, less than the cache's TTL ago, and has not expired since,
\* whichever call sent the request.
Contract == INSTANCE ExchangeContract WITH
    outcome <- [c \in Calls |-> IF phase[c] \in Outcomes THEN phase[c] ELSE "pending"],
    tokens <- {cache[k] : k \in CacheKeys} \ {NoEntry},
    MaxAge <- CacheTtl
ContractKept == Contract!Spec

\* Every exchange that has started ends, with an error if need be.
EveryExchangeEnds == \A c \in Calls : phase[c] # "idle" ~> phase[c] \in Outcomes

\* "Token has expired; evict before re-fetching" (auth0.rs:169): what is evicted
\* has expired.  A caller that saw the expired token may be overtaken by one
\* that has already replaced it, and then evicts the new token.
EvictsOnlyExpired ==
    [][\A c \in Calls : Invalidate(c) /\ Entry(c) # NoEntry => Entry(c).expires <= now]_vars
=============================================================================
