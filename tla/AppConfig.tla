------------------------------ MODULE AppConfig ------------------------------
(***************************************************************************)
(* The configuration of src/src/config.rs: how an `apps' entry is          *)
(* deserialized and which application a request's host resolves to.        *)
(*                                                                         *)
(* A configuration is [default |-> entry, apps |-> sequence of             *)
(* [name, entry]]; an entry is a function from the fields it gives to      *)
(* their values.                                                           *)
(***************************************************************************)
EXTENDS Naturals, Sequences

CONSTANT AllMethods      \* default_restricted_methods(): every HTTP method

ListFields == {"restricted_methods", "required_permissions", "claims"}
Fields == ListFields \cup
    {"client_id", "client_secret", "audience", "scope", "redirect_uri", "token_cookie_domain",
     "return_to"}

\* The value that find_application_or_default takes for "not given".
Nothing(f) == IF f \in ListFields THEN {} ELSE ""

\* #[serde(default)] of an omitted field: two of them are not empty.
SerdeDefault(f) ==
    CASE f = "restricted_methods" -> AllMethods
      [] f = "scope"              -> "profile openid email"
      [] OTHER                    -> Nothing(f)

Deserialize(entry) ==
    [f \in Fields |-> IF f \in DOMAIN entry THEN entry[f] ELSE SerdeDefault(f)]

Inherit(app, default) ==
    [f \in Fields |-> IF app[f] = Nothing(f) THEN default[f] ELSE app[f]]

\* The first app of that name (names are compared without regard to case, so
\* a name here stands for all its spellings), completed from default; any other
\* host, and a request without one, gets default itself.
FindApplicationOrDefault(config, host) ==
    LET matching == {i \in DOMAIN config.apps : config.apps[i].name = host}
        first == CHOOSE i \in matching : \A j \in matching : i <= j
        default == Deserialize(config.default)
    IN  IF matching = {} THEN default
        ELSE Inherit(Deserialize(config.apps[first].entry), default)
=============================================================================
