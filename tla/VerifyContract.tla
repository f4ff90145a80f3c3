--------------------------- MODULE VerifyContract ---------------------------
(***************************************************************************)
(* What Auth0Client::verify_token promises its caller, the middleware,     *)
(* with no caches, no single flight and no HTTP: each call is answered at  *)
(* most once, and Token::Jwt is answered only for a token that is good at  *)
(* that moment.                                                            *)
(***************************************************************************)
EXTENDS Provider

CONSTANT Calls    \* calls of verify_token, each made once

VARIABLES
    req,        \* call |-> its arguments [tok, aud]
    outcome     \* call |-> its answer, or "pending"

vars == <<req, outcome, world>>

Outcomes == {"Empty", "Opaque", "Invalid", "Jwt", "cancelled"}

Token(c) == Claims[req[c].tok]

Permitted(c, o) ==
    CASE o = "Empty"   -> Token(c).form = "empty"
      [] o = "Opaque"  -> Token(c).form = "opaque"
      [] o = "Invalid" -> Token(c).form = "jwt"
      [] o = "Jwt"     -> Token(c).form = "jwt" /\ Sound(Token(c), req[c].aud)
      [] OTHER         -> TRUE       \* the caller went away

-----------------------------------------------------------------------------

Init ==
    /\ outcome = [c \in Calls |-> "pending"]
    /\ \A k \in Kids : retired[k] = Absent

Answer(c) ==
    /\ outcome[c] = "pending"
    /\ \E o \in Outcomes :
        /\ Permitted(c, o)
        /\ outcome' = [outcome EXCEPT ![c] = o]
    /\ UNCHANGED <<req, world>>

Next ==
    \/ \E c \in Calls : Answer(c)
    \/ WorldNext /\ UNCHANGED <<req, outcome>>

Spec == Init /\ [][Next]_vars
=============================================================================
