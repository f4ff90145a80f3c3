----------------------- MODULE ClientCredentialsProofs -----------------------
(***************************************************************************)
(* Theorems about ClientCredentials, for every set of calls and keys,      *)
(* every TTL and every lifetime.                                           *)
(***************************************************************************)
EXTENDS ClientCredentials, TLAPS

USE DEF Move, Settle, Entry, NoEntry, Key

\* Different questions have different keys, and every question has one.
LEMMA KeysAreUnique ==
    /\ \A q \in Questions : KeyOf[q] \in CacheKeys
    /\ \A p, q \in Questions : KeyOf[p] = KeyOf[q] => p = q
BY KeysAssumption DEF KeyOf, CacheKey, CacheKeys

\* Every variable keeps its type.
THEOREM CredentialsTypeCorrect == Spec => []TypeOK
<1>1. Init => TypeOK
  BY DEF Init, TypeOK, Phases
<1>2. TypeOK /\ [Next]_vars => TypeOK'
  <2> SUFFICES ASSUME TypeOK, [Next]_vars PROVE TypeOK'
    OBVIOUS
  <2> USE LifetimesAssumption, KeysAreUnique
  <2> USE DEF TypeOK, CachedToken, Phases, Computing, Suspended, Outcomes
  <2>1. ASSUME NEW c \in Calls, Check(c) PROVE TypeOK'
    BY <2>1 DEF Check, Answer, Live
  <2>2. ASSUME NEW c \in Calls, Invalidate(c) PROVE TypeOK'
    BY <2>2 DEF Invalidate
  <2>3. ASSUME NEW c \in Calls, LookupHit(c) PROVE TypeOK'
    BY <2>3 DEF LookupHit, Answer
  <2>4. ASSUME NEW c \in Calls, LookupWait(c) \/ LookupLead(c) PROVE TypeOK'
    BY <2>4 DEF LookupWait, LookupLead
  <2>5. ASSUME NEW c \in Calls, ReplyToken(c) PROVE TypeOK'
    BY <2>5 DEF ReplyToken, Answer, Followers
  <2>6. ASSUME NEW c \in Calls, ReplyError(c) PROVE TypeOK'
    BY <2>6 DEF ReplyError, Followers
  <2>7. ASSUME NEW c \in Calls, Cancel(c) PROVE TypeOK'
    BY <2>7 DEF Cancel, Followers
  <2>8. ASSUME NEW k \in CacheKeys, Evict(k) PROVE TypeOK'
    BY <2>8 DEF Evict
  <2>9. CASE Tick
    BY <2>9 DEF Tick
  <2>10. CASE Finished \/ UNCHANGED vars
    BY <2>10 DEF Finished, vars
  <2> HIDE DEF TypeOK
  <2> QED
    BY <2>1, <2>2, <2>3, <2>4, <2>5, <2>6, <2>7, <2>8, <2>9, <2>10 DEF Next, Run
<1> QED
  BY <1>1, <1>2, PTL DEF Spec

\* At most one request per key, and one under everybody who waits: inductive
\* as it stands.
THEOREM RequestsAreSingle == Spec => []OneRequestPerKey
<1>1. Init => OneRequestPerKey
  BY DEF Init, OneRequestPerKey
<1>2. TypeOK /\ OneRequestPerKey /\ [Next]_vars => OneRequestPerKey'
  <2> SUFFICES ASSUME TypeOK, OneRequestPerKey, [Next]_vars PROVE OneRequestPerKey'
    OBVIOUS
  <2> phase \in [Calls -> Phases]
    BY DEF TypeOK
  <2> USE DEF OneRequestPerKey, Leaders, Followers
  <2>1. ASSUME NEW c \in Calls, Check(c) PROVE OneRequestPerKey'
    BY <2>1 DEF Check, Answer
  <2>2. ASSUME NEW c \in Calls, Invalidate(c) PROVE OneRequestPerKey'
    BY <2>2 DEF Invalidate
  <2>3. ASSUME NEW c \in Calls, LookupHit(c) PROVE OneRequestPerKey'
    BY <2>3 DEF LookupHit, Answer
  <2>4. ASSUME NEW c \in Calls, LookupWait(c) PROVE OneRequestPerKey'
    BY <2>4 DEF LookupWait
  <2>5. ASSUME NEW c \in Calls, LookupLead(c) PROVE OneRequestPerKey'
    BY <2>5 DEF LookupLead
  <2>6. ASSUME NEW c \in Calls, ReplyToken(c) PROVE OneRequestPerKey'
    BY <2>6 DEF ReplyToken, Answer
  <2>7. ASSUME NEW c \in Calls, ReplyError(c) PROVE OneRequestPerKey'
    BY <2>7 DEF ReplyError
  <2>8. ASSUME NEW c \in Calls, Cancel(c) PROVE OneRequestPerKey'
    BY <2>8 DEF Cancel, Suspended
  <2>9. CASE (\E k \in CacheKeys : Evict(k)) \/ Tick \/ Finished \/ UNCHANGED vars
    <3>1. UNCHANGED <<req, phase>>
      BY <2>9 DEF Evict, Tick, Finished, vars
    <3> QED
      BY <3>1
  <2> HIDE DEF OneRequestPerKey
  <2> QED
    BY <2>1, <2>2, <2>3, <2>4, <2>5, <2>6, <2>7, <2>8, <2>9 DEF Next, Run
<1> QED
  BY <1>1, <1>2, CredentialsTypeCorrect, PTL DEF Spec

\* What stands between the first look and the second: while a request is out
\* there is no live entry to return, and an entry that try_get_with would
\* return has not expired since it was issued.
NothingStaleAhead ==
    \A c \in Calls :
        /\ phase[c] = "requesting" => ~Live(c)
        /\ phase[c] = "lookup" /\ Live(c) => Fresh(Entry(c))

LEMMA NothingStaleStaysAhead == Spec => []NothingStaleAhead
<1>1. Init => NothingStaleAhead
  BY DEF Init, NothingStaleAhead
<1>2. TypeOK /\ OneRequestPerKey /\ NothingStaleAhead /\ [Next]_vars => NothingStaleAhead'
  <2> SUFFICES ASSUME TypeOK, OneRequestPerKey, NothingStaleAhead, [Next]_vars
               PROVE  NothingStaleAhead'
    OBVIOUS
  <2> USE LifetimesAssumption, BoundsAssumption, KeysAreUnique
  <2> USE DEF NothingStaleAhead, TypeOK, CachedToken, Live, Fresh
  <2>1. ASSUME NEW c \in Calls, Check(c) PROVE NothingStaleAhead'
    BY <2>1 DEF Check, Answer
  <2>2. ASSUME NEW c \in Calls, Invalidate(c) PROVE NothingStaleAhead'
    BY <2>2 DEF Invalidate
  <2>3. ASSUME NEW c \in Calls, LookupHit(c) PROVE NothingStaleAhead'
    BY <2>3 DEF LookupHit, Answer
  <2>4. ASSUME NEW c \in Calls, LookupWait(c) PROVE NothingStaleAhead'
    BY <2>4 DEF LookupWait
  <2>5. ASSUME NEW c \in Calls, LookupLead(c) PROVE NothingStaleAhead'
    BY <2>5 DEF LookupLead
  <2>6. ASSUME NEW c \in Calls, ReplyToken(c) PROVE NothingStaleAhead'
    BY <2>6 DEF ReplyToken, Answer, Followers, OneRequestPerKey, Leaders
  <2>7. ASSUME NEW c \in Calls, ReplyError(c) PROVE NothingStaleAhead'
    BY <2>7 DEF ReplyError, Followers
  <2>8. ASSUME NEW c \in Calls, Cancel(c) PROVE NothingStaleAhead'
    BY <2>8 DEF Cancel, Followers
  <2>9. ASSUME NEW k \in CacheKeys, Evict(k) PROVE NothingStaleAhead'
    BY <2>9 DEF Evict
  <2>10. CASE Tick
    BY <2>10 DEF Tick, Computing
  <2>11. CASE Finished \/ UNCHANGED vars
    BY <2>11 DEF Finished, vars
  <2> HIDE DEF NothingStaleAhead
  <2> QED
    BY <2>1, <2>2, <2>3, <2>4, <2>5, <2>6, <2>7, <2>8, <2>9, <2>10, <2>11 DEF Next, Run
<1> QED
  BY <1>1, <1>2, CredentialsTypeCorrect, RequestsAreSingle, PTL DEF Spec

\* No caller gets an expired token.  Only Check, LookupHit and ReplyToken give
\* one; the first looks at its expiry, the second rests on the lemma, and the
\* third gives what the provider has just issued.
THEOREM NoStaleAnswers == Spec => NeverStale
<1> DEFINE Answers ==
        \A c \in Calls : phase[c] # "Token" /\ phase'[c] = "Token" => Fresh(got'[c])
<1>1. TypeOK /\ NothingStaleAhead /\ [Next]_vars => [Answers]_vars
  <2> SUFFICES ASSUME TypeOK, NothingStaleAhead, Next PROVE Answers
    OBVIOUS
  <2> USE LifetimesAssumption, KeysAreUnique
  <2> USE DEF TypeOK, NothingStaleAhead, Fresh
  <2>1. ASSUME NEW c \in Calls, Check(c) PROVE Answers
    BY <2>1 DEF Check
  <2>2. ASSUME NEW c \in Calls, LookupHit(c) PROVE Answers
    BY <2>2 DEF LookupHit
  <2>3. ASSUME NEW c \in Calls, ReplyToken(c) PROVE Answers
    BY <2>3 DEF ReplyToken
  <2>4. ASSUME NEW c \in Calls, Invalidate(c) \/ LookupWait(c) \/ LookupLead(c) PROVE Answers
    BY <2>4 DEF Invalidate, LookupWait, LookupLead
  <2>5. ASSUME NEW c \in Calls, ReplyError(c) PROVE Answers
    BY <2>5 DEF ReplyError
  <2>6. ASSUME NEW c \in Calls, Cancel(c) PROVE Answers
    BY <2>6 DEF Cancel
  <2>7. CASE (\E k \in CacheKeys : Evict(k)) \/ Tick \/ Finished
    BY <2>7 DEF Evict, Tick, Finished, vars
  <2> QED
    BY <2>1, <2>2, <2>3, <2>4, <2>5, <2>6, <2>7 DEF Next, Run
<1> QED
  BY <1>1, CredentialsTypeCorrect, NothingStaleStaysAhead, PTL DEF Spec, NeverStale

-----------------------------------------------------------------------------
(* client_credentials_exchange implements its contract *)

\* An entry is found by those only who asked what it answers.
OwnEntries ==
    \A k \in CacheKeys : cache[k] # NoEntry => KeyOf[cache[k].to] = k

LEMMA EntriesStayOwn == Spec => []OwnEntries
<1>1. Init => OwnEntries
  BY DEF Init, OwnEntries
<1>2. TypeOK /\ OwnEntries /\ [Next]_vars => OwnEntries'
  <2> SUFFICES ASSUME TypeOK, OwnEntries, [Next]_vars PROVE OwnEntries'
    OBVIOUS
  <2> USE DEF OwnEntries
  <2>1. ASSUME NEW c \in Calls, ReplyToken(c) PROVE OwnEntries'
    BY <2>1 DEF ReplyToken, TypeOK
  <2>2. ASSUME NEW c \in Calls, Invalidate(c) PROVE OwnEntries'
    BY <2>2 DEF Invalidate, TypeOK
  <2>3. ASSUME NEW k \in CacheKeys, Evict(k) PROVE OwnEntries'
    BY <2>3 DEF Evict, TypeOK
  <2>4. ASSUME UNCHANGED cache PROVE OwnEntries'
    BY <2>4
  <2> QED
    BY <2>1, <2>2, <2>3, <2>4
    DEF Next, Run, Check, LookupHit, LookupWait, LookupLead, ReplyError, Cancel, Tick, Finished, vars
<1> QED
  BY <1>1, <1>2, CredentialsTypeCorrect, PTL DEF Spec

\* What a caller finds is an answer to its own question.
LEMMA FindsItsOwn ==
    ASSUME TypeOK, OwnEntries, NEW c \in Calls, Entry(c) # NoEntry
    PROVE  /\ Entry(c) \in CachedToken /\ Entry(c).to = req[c]
           /\ Entry(c) \in {cache[k] : k \in CacheKeys} \ {NoEntry}
<1>1. req[c] \in Questions /\ Key(c) \in CacheKeys
  BY KeysAreUnique DEF TypeOK
<1>2. Entry(c) \in CachedToken
  BY <1>1 DEF TypeOK
<1> QED
  BY <1>1, <1>2, KeysAreUnique DEF OwnEntries, CachedToken

\* A step that answers nobody and keeps what is kept stutters in the contract.
LEMMA Quiet ==
    ASSUME UNCHANGED <<req, got, now, cache>>,
           \A c \in Calls : phase'[c] # phase[c] => {phase[c], phase'[c]} \cap Outcomes = {}
    PROVE  UNCHANGED Contract!vars
BY DEF Contract!vars

\* A step that tells some callers of a token, and keeps no other new one, is a
\* step of the contract.
LEMMA Told ==
    ASSUME NEW token, NEW group \in SUBSET Calls, group # {},
           token \in ({cache[k] : k \in CacheKeys} \ {NoEntry}) \cup Contract!Issuable,
           Contract!Current(token),
           {cache'[k] : k \in CacheKeys} \ {NoEntry}
               \subseteq ({cache[k] : k \in CacheKeys} \ {NoEntry}) \cup {token},
           UNCHANGED <<req, now>>,
           \A c \in group : phase[c] \notin Outcomes /\ req[c] = token.to,
           Settle(group, Answer(token), token)
    PROVE  Contract!Next
<1> DEFINE out == [c \in Calls |-> IF phase[c] \in Outcomes THEN phase[c] ELSE "pending"]
           told == IF token.usable THEN "Token" ELSE "Missing"
<1>1. out' = [c \in Calls |-> IF c \in group THEN told ELSE out[c]]
  BY DEF Answer, Outcomes
<1>2. got' = [c \in Calls |-> IF c \in group THEN token ELSE got[c]]
  OBVIOUS
<1>3. group \in SUBSET {c \in Contract!Pending : req[c] = token.to}
  BY DEF Contract!Pending
<1>4. Contract!Give(token)
  BY <1>1, <1>2, <1>3 DEF Contract!Give, Contract!Told
<1> QED
  BY <1>4 DEF Contract!Next

\* A step that refuses some callers is one, too.
LEMMA Refused ==
    ASSUME NEW o \in {"Error", "cancelled"}, NEW group \in SUBSET Calls,
           UNCHANGED <<req, now, cache>>,
           got' = [c \in Calls |-> IF c \in group THEN NoEntry ELSE got[c]],
           \A c \in group : phase[c] \notin Outcomes /\ phase'[c] = o,
           \A c \in Calls \ group :
               phase'[c] # phase[c] => {phase[c], phase'[c]} \cap Outcomes = {}
    PROVE  Contract!Next
<1> DEFINE out == [c \in Calls |-> IF phase[c] \in Outcomes THEN phase[c] ELSE "pending"]
<1>1. out' = [c \in Calls |-> IF c \in group THEN o ELSE out[c]]
  BY DEF Outcomes
<1>2. group \in SUBSET Contract!Pending
  BY DEF Contract!Pending
<1>3. Contract!Refuse(o)
  BY <1>1, <1>2 DEF Contract!Refuse, Contract!Told
<1> QED
  BY <1>3 DEF Contract!Next

\* Nothing stands behind a call that has no answer yet.
NothingGotYet == \A c \in Calls : phase[c] \notin Outcomes => got[c] = NoEntry

LEMMA NothingIsGotEarly == Spec => []NothingGotYet
<1>1. Init => NothingGotYet
  BY DEF Init, NothingGotYet
<1>2. TypeOK /\ NothingGotYet /\ [Next]_vars => NothingGotYet'
  <2> SUFFICES ASSUME TypeOK, NothingGotYet, [Next]_vars PROVE NothingGotYet'
    OBVIOUS
  <2> USE DEF NothingGotYet, TypeOK, Outcomes
  <2>1. ASSUME NEW c \in Calls, Check(c) \/ LookupHit(c) PROVE NothingGotYet'
    BY <2>1 DEF Check, LookupHit, Answer
  <2>2. ASSUME NEW c \in Calls, Invalidate(c) \/ LookupWait(c) \/ LookupLead(c)
        PROVE  NothingGotYet'
    BY <2>2 DEF Invalidate, LookupWait, LookupLead
  <2>3. ASSUME NEW group \in SUBSET Calls, NEW o \in Outcomes, NEW token, Settle(group, o, token)
        PROVE  NothingGotYet'
    BY <2>3
  <2>4. ASSUME NEW c \in Calls, Cancel(c) PROVE NothingGotYet'
    BY <2>4 DEF Cancel, Suspended, Followers
  <2>5. ASSUME UNCHANGED <<phase, got>> PROVE NothingGotYet'
    BY <2>5
  <2>6. ASSUME NEW c \in Calls, ReplyToken(c) PROVE NothingGotYet'
    <3>1. PICK token : Settle({c} \cup Followers(c), Answer(token), token)
      BY <2>6 DEF ReplyToken
    <3> HIDE DEF NothingGotYet, TypeOK, Settle
    <3> QED
      BY <2>3, <3>1 DEF Answer, Followers
  <2>7. ASSUME NEW c \in Calls, ReplyError(c) PROVE NothingGotYet'
    BY <2>3, <2>7 DEF ReplyError, Followers
  <2> HIDE DEF NothingGotYet
  <2> QED
    BY <2>1, <2>2, <2>4, <2>5, <2>6, <2>7 DEF Next, Run, Evict, Tick, Finished, vars
<1> QED
  BY <1>1, <1>2, CredentialsTypeCorrect, PTL DEF Spec

\* The refinement: whoever is told of a token found it where its own question
\* led, while NothingStaleAhead and the entry's life speak for its age; or it
\* has just been answered to the leader of its flight.
THEOREM ExchangeKeepsContract == Spec => ContractKept
<1>1. Init => Contract!Init
  BY DEF Init, Contract!Init, Outcomes
<1>2. TypeOK /\ NothingStaleAhead /\ OwnEntries /\ NothingGotYet /\ [Next]_vars
        => [Contract!Next]_(Contract!vars)
  <2> SUFFICES ASSUME TypeOK, NothingStaleAhead, OwnEntries, NothingGotYet, [Next]_vars
               PROVE  Contract!Next \/ UNCHANGED Contract!vars
    OBVIOUS
  <2> phase \in [Calls -> Phases]
    BY DEF TypeOK
  <2> DEFINE kept == {cache[k] : k \in CacheKeys} \ {NoEntry}
  <2>1. ASSUME NEW c \in Calls, phase[c] \notin Outcomes, Live(c), Fresh(Entry(c)),
               Settle({c}, Answer(Entry(c)), Entry(c)),
               UNCHANGED <<req, now, cache>>
        PROVE  Contract!Next
    <3>1. Entry(c).to = req[c] /\ Entry(c) \in kept
      BY <2>1, FindsItsOwn DEF Live
    <3>2. Contract!Current(Entry(c))
      BY <2>1 DEF Live, Fresh, Contract!Current
    <3> DEFINE token == Entry(c)
               group == {c}
    <3>3. /\ token \in kept /\ Contract!Current(token)
          /\ {cache'[k] : k \in CacheKeys} \ {NoEntry} \subseteq kept \cup {token}
          /\ group \in SUBSET Calls /\ group # {} /\ UNCHANGED <<req, now>>
          /\ \A d \in group : phase[d] \notin Outcomes /\ req[d] = token.to
          /\ Settle(group, Answer(token), token)
      BY <2>1, <3>1, <3>2
    <3> HIDE DEF kept, token, group
    <3> QED
      BY <3>3, Told DEF kept
  <2>2. ASSUME NEW c \in Calls, Check(c) PROVE Contract!Next \/ UNCHANGED Contract!vars
    <3>1. CASE Live(c) /\ now < Entry(c).expires
      BY <2>1, <2>2, <3>1 DEF Check, Fresh, Outcomes
    <3>2. CASE ~(Live(c) /\ now < Entry(c).expires)
      BY <2>2, <3>2, Quiet DEF Check, Outcomes
    <3> QED
      BY <3>1, <3>2
  <2>3. ASSUME NEW c \in Calls, LookupHit(c) PROVE Contract!Next
    BY <2>1, <2>3 DEF LookupHit, NothingStaleAhead, Outcomes
  <2>4. ASSUME NEW c \in Calls, LookupWait(c) \/ LookupLead(c) PROVE UNCHANGED Contract!vars
    BY <2>4, Quiet DEF LookupWait, LookupLead, Outcomes
  <2>5. ASSUME NEW c \in Calls, ReplyToken(c) PROVE Contract!Next
    <3>1. PICK usable \in BOOLEAN, life \in Lifetimes :
            LET token == [to |-> req[c], usable |-> usable, expires |-> now + life, at |-> now]
            IN  /\ Settle({c} \cup Followers(c), Answer(token), token)
                /\ cache' = [cache EXCEPT ![Key(c)] = token]
      BY <2>5 DEF ReplyToken
    <3> DEFINE token == [to |-> req[c], usable |-> usable, expires |-> now + life, at |-> now]
               group == {c} \cup Followers(c)
    <3>2. token \in Contract!Issuable /\ Contract!Current(token)
      BY BoundsAssumption DEF TypeOK, Contract!Issuable, Contract!Current
    <3>3. \A d \in group : phase[d] \notin Outcomes /\ req[d] = req[c]
      BY <2>5, KeysAreUnique DEF ReplyToken, Followers, Outcomes, TypeOK
    <3>4. {cache'[k] : k \in CacheKeys} \ {NoEntry} \subseteq kept \cup {token}
      BY <3>1 DEF TypeOK
    <3>5. group \in SUBSET Calls /\ group # {}
      BY DEF Followers
    <3>6. Settle(group, Answer(token), token) /\ UNCHANGED <<req, now>>
      BY <2>5, <3>1 DEF ReplyToken
    <3>7. token.to = req[c]
      OBVIOUS
    <3> HIDE DEF token, group, kept
    <3> QED
      BY <3>2, <3>3, <3>4, <3>5, <3>6, <3>7, Told DEF kept
  <2>6. ASSUME NEW c \in Calls, ReplyError(c) PROVE Contract!Next
    <3> DEFINE group == {c} \cup Followers(c)
    <3>1. group \in SUBSET Calls
      BY DEF Followers
    <3>2. /\ \A d \in group : phase[d] \notin Outcomes /\ phase'[d] = "Error"
          /\ \A d \in Calls \ group : phase'[d] = phase[d]
          /\ got' = [d \in Calls |-> IF d \in group THEN NoEntry ELSE got[d]]
          /\ UNCHANGED <<req, now, cache>>
      BY <2>6, <3>1 DEF ReplyError, Followers, Outcomes
    <3> HIDE DEF group
    <3> QED
      BY <3>1, <3>2, Refused
  <2>7. ASSUME NEW c \in Calls, Cancel(c) PROVE Contract!Next
    <3>1. /\ phase[c] \notin Outcomes /\ phase'[c] = "cancelled"
          /\ \A d \in Calls \ {c} : phase'[d] # phase[d] => {phase[d], phase'[d]} \cap Outcomes = {}
          /\ got[c] = NoEntry /\ UNCHANGED <<req, got, now, cache>>
      BY <2>7 DEF Cancel, Suspended, Followers, Outcomes, NothingGotYet
    <3> DEFINE group == {c}
    <3>2. /\ group \in SUBSET Calls
          /\ \A d \in group : phase[d] \notin Outcomes /\ phase'[d] = "cancelled"
          /\ \A d \in Calls \ group :
               phase'[d] # phase[d] => {phase[d], phase'[d]} \cap Outcomes = {}
          /\ got' = [d \in Calls |-> IF d \in group THEN NoEntry ELSE got[d]]
      BY <3>1 DEF TypeOK
    <3> HIDE DEF group
    <3> QED
      BY <3>1, <3>2, Refused
  <2>8. ASSUME UNCHANGED <<req, got, now>>,
               \A c \in Calls : phase'[c] # phase[c] => {phase[c], phase'[c]} \cap Outcomes = {},
               {cache'[k] : k \in CacheKeys} \ {NoEntry} \subseteq kept
        PROVE  Contract!Next
    BY <2>8 DEF Contract!Next, Contract!Forget
  <2>9. ASSUME NEW c \in Calls, Invalidate(c) PROVE Contract!Next
    <3>1. {cache'[k] : k \in CacheKeys} \ {NoEntry} \subseteq kept
      BY <2>9 DEF Invalidate, TypeOK
    <3> QED
      BY <2>8, <2>9, <3>1 DEF Invalidate, Outcomes
  <2>10. ASSUME NEW k \in CacheKeys, Evict(k) PROVE Contract!Next
    BY <2>8, <2>10 DEF Evict, TypeOK
  <2>11. CASE Tick
    BY <2>11 DEF Tick, Contract!Next, Contract!Advance
  <2>12. CASE Finished \/ UNCHANGED vars
    BY <2>12 DEF Finished, vars, Contract!vars
  <2> QED
    BY <2>2, <2>3, <2>4, <2>5, <2>6, <2>7, <2>9, <2>10, <2>11, <2>12 DEF Next, Run
<1> QED
  BY <1>1, <1>2, CredentialsTypeCorrect, NothingStaleStaysAhead, EntriesStayOwn,
     NothingIsGotEarly, PTL
  DEF Spec, ContractKept, Contract!Spec
=============================================================================
