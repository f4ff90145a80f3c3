------------------------------- MODULE Provider -------------------------------
(***************************************************************************)
(* The OIDC provider as far as tokens depend on it: when its signing keys  *)
(* were published and withdrawn, on the gateway's clock, and which tokens  *)
(* are good at a moment.                                                   *)
(*                                                                         *)
(* The gateway's caches cost one thing only: a signing key that the        *)
(* provider has withdrawn stays trusted for less than TrustWindow after    *)
(* its withdrawal.                                                         *)
(***************************************************************************)
EXTENDS Integers

CONSTANTS
    Kids,         \* ids of the provider's signing keys
    Claims,       \* what the bytes of each token decode to
    TrustWindow   \* how long a withdrawn key may still be trusted

VARIABLES
    now,        \* the clock, in seconds
    since,      \* kid |-> when it was last published, Absent if it is not in the JWKS
    retired     \* kid |-> when it was last withdrawn, Absent if never

world == <<now, since, retired>>

Absent == -1

\* The key is in the provider's JWKS, or left it not long ago.
Trusted(k) == since[k] # Absent \/ (retired[k] # Absent /\ now < retired[k] + TrustWindow)

\* The token may be accepted for the audience, now.
Sound(token, aud) ==
    /\ token.genuine
    /\ aud \in token.aud
    /\ now <= token.exp
    /\ Trusted(token.kid)

Advance ==
    /\ now' = now + 1
    /\ UNCHANGED <<since, retired>>

Publish(k) ==
    /\ since[k] = Absent
    /\ since' = [since EXCEPT ![k] = now]
    /\ UNCHANGED <<now, retired>>

Withdraw(k) ==
    /\ since[k] # Absent
    /\ since' = [since EXCEPT ![k] = Absent]
    /\ retired' = [retired EXCEPT ![k] = now]
    /\ UNCHANGED now

\* What happens to the world whatever the gateway does.
WorldNext == Advance \/ \E k \in Kids : Publish(k) \/ Withdraw(k)
=============================================================================
