---------------------------- MODULE Authorization ----------------------------
(***************************************************************************)
(* perform_authorization (src/src/endpoints/authorize.rs:116-199): what    *)
(* /authorize decides about a page for a user.                             *)
(*                                                                         *)
(* A page is what the x-forwarded-* and accept headers say of the          *)
(* request that Traefik asks about: [host, path, method, api].  A URL is   *)
(* its host and whether its path is that of a callback.  A user is None,   *)
(* or a record with the permissions of its access token.  Its userinfo     *)
(* maps a name to the token that the value is from.                        *)
(***************************************************************************)
EXTENDS AppConfig

CONSTANTS None, NoClaim    \* no such thing; a token without a permissions claim

\* RequestedUrl::starts_with, of the application's redirect_uri.
IsCallback(app, page) ==
    app.redirect_uri = "" \/ (page.path = "callback" /\ page.host = app.redirect_uri)

\* A token without the claim is not one without permissions (173-194).
FaultyPermitted(app, user) ==
    user.permissions # NoClaim => app.required_permissions \subseteq user.permissions
Permitted(app, user) ==
    app.required_permissions # {} =>
        user.permissions # NoClaim /\ app.required_permissions \subseteq user.permissions

\* The answers in the order of the code: whitelisted, unrestricted, anonymous,
\* authenticated.
PerformAuthorization(app, page, user) ==
    IF IsCallback(app, page) \/ page.method \notin app.restricted_methods THEN "granted"
    ELSE IF user = None THEN (IF page.api THEN "unauthorized" ELSE "login")
    ELSE IF Permitted(app, user) THEN "granted" ELSE "denied"

-----------------------------------------------------------------------------
(* What an answer carries *)

NoInfo == [n \in {} |-> None]

\* userinfo.insert, for each of the names.
Add(info, names, token) ==
    [n \in DOMAIN info \cup names |-> IF n \in names THEN token ELSE info[n]]

Reply(kind) == [kind |-> kind, token |-> None, info |-> NoInfo]

\* 204 with the bearer token and x-forwardauth-* headers of the user, if there
\* is one.
Grant(token, info) == [kind |-> "granted", token |-> token, info |-> info]
=============================================================================
