------------------------- MODULE MCClientCredentials -------------------------
(***************************************************************************)
(* Instances of ClientCredentials for TLC.  Lifetimes are none at all,     *)
(* shorter and longer than the cache's TTL; the two questions of a client, *)
(* with a secret that holds a colon, exceed its capacity.                  *)
(***************************************************************************)
EXTENDS ClientCredentials

CONSTANTS c1, c2, c3

RobotQuestions ==
    {[client |-> "robot", secret |-> <<"s3", "cret">>, audience |-> audience] :
        audience \in {<<"https", "//site/api">>, <<"https", "//admin/api">>}}
=============================================================================
