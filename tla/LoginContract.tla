---------------------------- MODULE LoginContract ----------------------------
(***************************************************************************)
(* What logging in promises, with no nonce, no state parameter and no      *)
(* callback that a browser could repeat: a session is put into a browser   *)
(* by ending a login that the same browser has begun at that application,  *)
(* each of them once; a page is shown for the session that it was asked    *)
(* for with; and after a sign-out there is none until another login ends.  *)
(* A session that is good may still not be recognised: then its user is    *)
(* sent to log in, turned away or not signed out, as anybody without one.  *)
(***************************************************************************)
CONSTANTS
    Tabs, Hosts, Domains, Targets,
    Covers,         \* domain |-> the hosts its cookies are sent to
    App(_),         \* the application of a host
    Sessions,       \* sessions, [aud, permissions, key]
    Flows,          \* logins, [nonce, callback, client, aud]
    Keys,           \* signing keys of the provider
    None, NoClaim

VARIABLES
    view,       \* tab |-> what it asks for or is shown: [page, session, stage]
    open,       \* logins that have begun and may end yet
    sessions,   \* domain |-> the session in the browser, or None
    signedOut,  \* hosts where no login has ended since the last sign-out
    trusted     \* keys that a session may be signed with

vars == <<view, open, sessions, signedOut, trusted>>

Away == [page |-> None, session |-> None, stage |-> "away"]

Held(h) == {sessions[d] : d \in {e \in Domains : h \in Covers[e]}}

Public(v) ==
    LET app == App(v.page.host)
    IN  \/ v.page.method \notin app.restricted_methods
        \/ (v.page.path = "callback" /\ v.page.host = app.redirect_uri)
Accepted(v) ==
    v.session # None /\ v.session.aud = App(v.page.host).audience /\ v.session.key \in trusted
Sufficient(v) ==
    \A p \in App(v.page.host).required_permissions :
        v.session.permissions # NoClaim /\ p \in v.session.permissions

-----------------------------------------------------------------------------

Init ==
    /\ view = [t \in Tabs |-> Away]
    /\ open = {}
    /\ sessions = [d \in Domains |-> None]
    /\ signedOut = Hosts
    /\ trusted = {0}

See(t, v) == view' = [view EXCEPT ![t] = v]

\* A tab asks for a page with the session that the page's host gets, or to be
\* signed out there.
Ask(t) ==
    /\ view[t].stage = "away"
    /\ \E page \in Targets : \E session \in Held(page.host) :
        See(t, [page |-> page, session |-> session, stage |-> "authorizing"])
    /\ UNCHANGED <<open, sessions, signedOut, trusted>>

AskOut(t) ==
    /\ view[t].stage = "granted"
    /\ \E session \in Held(view[t].page.host) :
        See(t, [page |-> view[t].page, session |-> session, stage |-> "signout"])
    /\ UNCHANGED <<open, sessions, signedOut, trusted>>

Show(t) ==
    /\ view[t].stage = "authorizing"
    /\ Public(view[t]) \/ (Accepted(view[t]) /\ Sufficient(view[t]))
    /\ See(t, [view[t] EXCEPT !.stage = "granted"])
    /\ UNCHANGED <<open, sessions, signedOut, trusted>>

\* It is told that it may not have the page: for what its session lacks, or for
\* lack of a session where nobody could log in.
TurnAway(t) ==
    /\ view[t].stage = "authorizing" /\ ~Public(view[t])
    /\ view[t].page.api \/ (Accepted(view[t]) /\ ~Sufficient(view[t]))
    /\ See(t, Away)
    /\ UNCHANGED <<open, sessions, signedOut, trusted>>

\* It is sent to log in, by a new login; it may give up an old one for it.
Start(t) ==
    /\ view[t].stage = "authorizing" /\ ~Public(view[t]) /\ ~view[t].page.api
    /\ See(t, Away)
    /\ UNCHANGED <<sessions, signedOut, trusted>>
    /\ LET app == App(view[t].page.host)
       IN  \E login \in Flows :
            /\ login.client = app.client_id /\ login.aud = app.audience
            /\ login.callback = app.redirect_uri
            /\ login \in open' /\ open' \subseteq open \cup {login}
            /\ \A other \in open' \ {login} : other.nonce # login.nonce

\* The login ends with a session of its own audience, for the client that it
\* was begun for.
Complete(login) ==
    /\ login.client = App(login.callback).client_id
    /\ open' = open \ {login}
    /\ UNCHANGED <<view, trusted>>
    /\ \E d \in Domains, session \in Sessions :
        /\ login.callback \in Covers[d] /\ session.aud = login.aud
        /\ sessions' = [sessions EXCEPT ![d] = session]
        /\ signedOut' = signedOut \ Covers[d]

\* The tab is done when its user is signed out; one that is not recognised
\* stays as it was.
SignOut(t) ==
    /\ view[t].stage = "signout" /\ Accepted(view[t])
    /\ \E d \in Domains :
        /\ view[t].page.host \in Covers[d]
        /\ sessions' = [sessions EXCEPT ![d] = None]
        /\ signedOut' = signedOut \cup Covers[d]
    /\ See(t, Away)
    /\ open' \subseteq open
    /\ UNCHANGED trusted

StayIn(t) ==
    /\ view[t].stage = "signout"
    /\ See(t, Away)
    /\ UNCHANGED <<open, sessions, signedOut, trusted>>

Dismiss(t) ==
    /\ view[t].stage = "granted"
    /\ See(t, Away)
    /\ UNCHANGED <<open, sessions, signedOut, trusted>>

\* A session runs out; keys come and go.
Lose(d) ==
    /\ sessions' = [sessions EXCEPT ![d] = None]
    /\ UNCHANGED <<view, open, signedOut, trusted>>
ChangeKeys == trusted' \in SUBSET Keys /\ UNCHANGED <<view, open, sessions, signedOut>>

Next ==
    \/ \E t \in Tabs :
        \/ Ask(t) \/ Show(t) \/ TurnAway(t) \/ Start(t)
        \/ AskOut(t) \/ SignOut(t) \/ StayIn(t) \/ Dismiss(t)
    \/ \E login \in open : Complete(login)
    \/ \E d \in Domains : Lose(d)
    \/ ChangeKeys

Spec == Init /\ [][Next]_vars
=============================================================================
