--------------------------- MODULE ExchangeContract ---------------------------
(***************************************************************************)
(* What Auth0Client::client_credentials_exchange promises the middleware,  *)
(* with no cache, no flight and no HTTP: each call is answered at most     *)
(* once, and behind each answer that speaks of a token is one that the     *)
(* provider has issued for the same question, now or not long ago.         *)
(***************************************************************************)
EXTENDS Naturals

CONSTANTS
    Calls,      \* calls of client_credentials_exchange, each made once
    Questions,  \* what may be asked: a client's credentials and an audience
    NoEntry,    \* stands for no token
    Lifetimes,  \* values of expires_in the provider answers with
    MaxAge      \* how long an answer of the provider may be repeated

VARIABLES
    req,        \* call |-> its question
    outcome,    \* call |-> its answer, or "pending"
    got,        \* call |-> the token behind its answer, or NoEntry
    tokens,     \* answers of the provider that are kept
    now         \* the clock, in seconds

vars == <<req, outcome, got, tokens, now>>

\* What the provider may answer at this moment, a token in it or not.
Issuable ==
    [to: Questions, usable: BOOLEAN, expires: {now + life : life \in Lifetimes}, at: {now}]

\* It is recent, and has not expired since it was issued.
Current(token) == now < token.at + MaxAge /\ (now < token.expires \/ token.at = now)

Pending == {c \in Calls : outcome[c] = "pending"}

-----------------------------------------------------------------------------

Init ==
    /\ outcome = [c \in Calls |-> "pending"]
    /\ got = [c \in Calls |-> NoEntry]
    /\ tokens = {}

Told(group, o, token) ==
    /\ outcome' = [c \in Calls |-> IF c \in group THEN o ELSE outcome[c]]
    /\ got' = [c \in Calls |-> IF c \in group THEN token ELSE got[c]]

\* Some who asked for it are told of a token, one that is kept or one that has
\* just been issued.  It may be kept, and others forgotten.
Give(token) ==
    /\ Current(token)
    /\ tokens' \subseteq tokens \cup {token}
    /\ UNCHANGED <<req, now>>
    /\ \E group \in SUBSET {c \in Pending : req[c] = token.to} :
        /\ group # {}
        /\ Told(group, IF token.usable THEN "Token" ELSE "Missing", token)

\* Some get an error, or have gone away.
Refuse(o) ==
    /\ \E group \in SUBSET Pending : Told(group, o, NoEntry)
    /\ UNCHANGED <<req, tokens, now>>

Forget == tokens' \subseteq tokens /\ UNCHANGED <<req, outcome, got, now>>

Advance == now' = now + 1 /\ UNCHANGED <<req, outcome, got, tokens>>

Next ==
    \/ Advance
    \/ Forget
    \/ Refuse("Error") \/ Refuse("cancelled")
    \/ \E token \in tokens \cup Issuable : Give(token)

Spec == Init /\ [][Next]_vars
=============================================================================
