-------------------------------- MODULE Panel --------------------------------
(***************************************************************************)
(* The session of the web panel: panel/src/App.tsx, api.ts, Login.tsx and  *)
(* app-context.tsx, with one page that lists something of the selected     *)
(* organisation and the control server as far as it knows sessions.        *)
(*                                                                         *)
(* A request takes the bearer token along when it is sent.  Its answer     *)
(* finds whatever session, organisation and page there are by then.        *)
(* `useLoad` numbers its loads and applies the answer of the latest one    *)
(* only; here `current` says whether a load is the latest of its kind.     *)
(*                                                                         *)
(* What React does when a state changes (the next render and its effects)  *)
(* is part of the step that changes it.  me() and orgs(), which are loaded *)
(* together, are one load.                                                 *)
(***************************************************************************)
CONSTANTS Session,         \* tokens of full sessions, of one or several users
          Org,
          Slot,            \* bound on the requests in flight
          None

ASSUME PanelConstants == None \notin Session \cup Org

VARIABLES live,            \* sessions the server accepts
          issued,          \* sessions it has ever opened
          session,         \* `session` of App, token of api.ts, sessionStorage
          notice,          \* what the login page says
          account,         \* data of `me` and `orgs`: whose they are
          org,             \* the selected organisation
          page,            \* the list of the page that is open
          flying           \* requests in flight

vars == <<live, issued, session, notice, account, org, page, flying>>

\* A page that has loaded nothing yet, and an empty slot.
Blank == [of |-> None, org |-> None, error |-> FALSE]
Idle == [kind |-> "none", token |-> None, org |-> None, current |-> FALSE,
         status |-> "none", result |-> None]

\* auth of api.ts: all requests but login's carry the token.
Kind == {"login", "account", "page", "logout", "mfa_disable"}

Request == [kind : Kind, token : Session \cup {None}, org : Org \cup {None},
            current : BOOLEAN, status : {"sent", "ok", "401", "error"},
            result : Session \cup {None}]

\* The loads of useLoad.
IsLoad(q) == flying[q].kind \in {"account", "page"}

TypeOK ==
    /\ live \subseteq issued /\ issued \subseteq Session
    /\ session \in Session \cup {None}
    /\ notice \in {"", "sessionEnded"}
    /\ account \in Session \cup {None}
    /\ org \in Org
    /\ page \in [of : Session \cup {None}, org : Org \cup {None}, error : BOOLEAN]
    /\ flying \in [Slot -> Request \cup {Idle}]
    /\ \A p, q \in Slot :
          /\ IsLoad(p) /\ flying[p].kind = flying[q].kind
          /\ flying[p].current /\ flying[q].current
          => p = q

Init ==
    /\ live = {} /\ issued = {}
    /\ session = None /\ notice = ""
    /\ account = None
    /\ org \in Org
    /\ page = Blank
    /\ flying = [q \in Slot |-> Idle]

-----------------------------------------------------------------------------
Sent(kind, token, o) ==
    [kind |-> kind, token |-> token, org |-> o, current |-> TRUE,
     status |-> "sent", result |-> None]

\* The requests F once those of some kinds are no longer the latest.
Outdated(F, kinds) ==
    [q \in Slot |-> IF F[q].kind \in kinds THEN [F[q] EXCEPT !.current = FALSE] ELSE F[q]]

\* `fetch`: request R leaves in a free slot of F.
Fetched(F, R) ==
    LET q == CHOOSE q \in Slot : F[q] = Idle IN [F EXCEPT ![q] = R]

HasRoom(F) == \E q \in Slot : F[q] = Idle

\* useLoad runs again: what it loaded before stays until the answer is there.
Reloaded(F, kind, token, o) == Fetched(Outdated(F, {kind}), Sent(kind, token, o))

\* signOut, with the loads that follow it: `me` and `orgs` become empty and the
\* page is gone, so that no answer for it is current.
SignOut(message, F) ==
    /\ session' = None /\ notice' = message
    /\ account' = None
    /\ page' = Blank
    /\ flying' = Outdated(F, {"account", "page"})
    /\ UNCHANGED org

-----------------------------------------------------------------------------
\* submit of Login.tsx; the button is disabled while it is busy.
SubmitLogin ==
    /\ session = None
    /\ \A q \in Slot : flying[q].kind # "login"
    /\ HasRoom(flying)
    /\ flying' = Fetched(flying, Sent("login", None, None))
    /\ UNCHANGED <<live, issued, session, notice, account, org, page>>

\* The list is refreshed, or another page is opened in its place.
LoadPage ==
    /\ account # None
    /\ HasRoom(flying)
    /\ flying' = Reloaded(flying, "page", session, org)
    /\ page' \in {page, Blank}
    /\ UNCHANGED <<live, issued, session, notice, account, org>>

\* Another organisation is selected: the open page loads again.
SelectOrg(o) ==
    /\ account # None /\ o # org
    /\ HasRoom(flying)
    /\ org' = o
    /\ flying' = Reloaded(flying, "page", session, o)
    /\ UNCHANGED <<live, issued, session, notice, account, page>>

\* The form of Account.tsx.
SubmitMfaDisable ==
    /\ account # None
    /\ HasRoom(flying)
    /\ flying' = Fetched(flying, Sent("mfa_disable", session, None))
    /\ UNCHANGED <<live, issued, session, notice, account, org, page>>

\* The sign-out button: logout is sent with the token, then it is forgotten.
ClickSignOut ==
    /\ session # None
    /\ HasRoom(flying)
    /\ SignOut("", Fetched(flying, Sent("logout", session, None)))
    /\ UNCHANGED <<live, issued>>

\* The browser loads the page anew: the session is taken from sessionStorage,
\* and nobody waits for an answer to the old one.
ReloadBrowser ==
    /\ notice' = ""
    /\ account' = None /\ page' = Blank
    /\ LET none == [q \in Slot |-> Idle]
       IN  flying' = IF session = None THEN none
                                       ELSE Fetched(none, Sent("account", session, None))
    /\ UNCHANGED <<live, issued, session, org>>

-----------------------------------------------------------------------------
\* A session ends at the server: its time is up, it was revoked, or the
\* password was changed elsewhere.
Expire(s) ==
    /\ s \in live
    /\ live' = live \ {s}
    /\ UNCHANGED <<issued, session, notice, account, org, page, flying>>

Answered(q, status, result) ==
    flying' = [flying EXCEPT ![q].status = status, ![q].result = result]

\* The server handles request q.  login opens a session or answers 401, and so
\* does mfa_disable for a live session when the password or the code is wrong.
Serve(q) ==
    /\ flying[q].status = "sent"
    /\ \/ /\ flying[q].kind = "login"
          /\ \E s \in Session \ issued :
                /\ live' = live \cup {s} /\ issued' = issued \cup {s}
                /\ Answered(q, "ok", s)
       \/ /\ flying[q].kind = "login" \/ flying[q].kind = "mfa_disable"
                                      \/ flying[q].token \notin live
          /\ Answered(q, "401", None)
          /\ UNCHANGED <<live, issued>>
       \/ /\ flying[q].kind # "login" /\ flying[q].token \in live
          /\ Answered(q, "ok", None)
          /\ live' = IF flying[q].kind = "logout" THEN live \ {flying[q].token} ELSE live
          /\ UNCHANGED issued
    /\ UNCHANGED <<session, notice, account, org, page>>

\* The request is lost, or answered with another error.
Fail(q) ==
    /\ flying[q].status = "sent"
    /\ Answered(q, "error", None)
    /\ UNCHANGED <<live, issued, session, notice, account, org, page>>

-----------------------------------------------------------------------------
Freed(q) == [flying EXCEPT ![q] = Idle]

\* onToken, and the loads of the new session.
LoginArrives(q) ==
    /\ flying[q].kind = "login" /\ flying[q].status = "ok"
    /\ session' = flying[q].result /\ notice' = ""
    /\ flying' = Reloaded(Freed(q), "account", flying[q].result, None)
    /\ UNCHANGED <<live, issued, account, org, page>>

\* Slip: the answer of any load is applied.
AnyAnswer(q) == TRUE

\* mine === latest.current
Latest(q) == flying[q].current

\* setData of `me` and `orgs`; the first time, the page is mounted and loads.
AccountArrives(q) ==
    /\ flying[q].kind = "account" /\ flying[q].status = "ok"
    /\ IF Latest(q)
         THEN /\ account' = flying[q].token
              /\ flying' = Reloaded(Freed(q), "page", session, org)
         ELSE /\ flying' = Freed(q)
              /\ UNCHANGED account
    /\ UNCHANGED <<live, issued, session, notice, org, page>>

\* setData of the page.
PageArrives(q) ==
    /\ flying[q].kind = "page" /\ flying[q].status = "ok"
    /\ flying' = Freed(q)
    /\ page' = IF Latest(q) THEN [of |-> flying[q].token, org |-> flying[q].org, error |-> FALSE]
                           ELSE page
    /\ UNCHANGED <<live, issued, session, notice, account, org>>

\* The answer of an action has no effect on the session.
ActionArrives(q) ==
    /\ flying[q].kind \in {"logout", "mfa_disable"} /\ flying[q].status = "ok"
    /\ flying' = Freed(q)
    /\ UNCHANGED <<live, issued, session, notice, account, org, page>>

\* Slip: whatever goes wrong ends the session.
AnyError(q) == flying[q].status \in {"401", "error"} /\ session # None

\* response.status === 401 && auth && token, for the token of now.
Unauthorized(q) ==
    flying[q].status = "401" /\ flying[q].kind # "login" /\ session # None

\* onUnauthorized
UnauthorizedArrives(q) ==
    /\ Unauthorized(q)
    /\ SignOut("sessionEnded", Freed(q))
    /\ UNCHANGED <<live, issued>>

\* setError of the load or the form that q belongs to.
ErrorArrives(q) ==
    /\ flying[q].status \in {"401", "error"} /\ ~Unauthorized(q)
    /\ flying' = Freed(q)
    /\ page' = IF flying[q].kind = "page" /\ Latest(q) THEN [page EXCEPT !.error = TRUE] ELSE page
    /\ UNCHANGED <<live, issued, session, notice, account, org>>

Next ==
    \/ SubmitLogin \/ LoadPage \/ SubmitMfaDisable \/ ClickSignOut \/ ReloadBrowser
    \/ \E o \in Org : SelectOrg(o)
    \/ \E s \in Session : Expire(s)
    \/ \E q \in Slot : \/ Serve(q) \/ Fail(q)
                        \/ LoginArrives(q) \/ AccountArrives(q) \/ PageArrives(q)
                        \/ ActionArrives(q) \/ UnauthorizedArrives(q) \/ ErrorArrives(q)

Spec == Init /\ [][Next]_vars

-----------------------------------------------------------------------------
(***************************************************************************)
(* Properties.                                                             *)
(***************************************************************************)

\* "stale answers are dropped" (useLoad): what the panel shows was asked for by
\* the session that is signed in, also when answers of an earlier one are late.
DataIsOfTheSession ==
    /\ account # None => account = session
    /\ page.of # None => page.of = session

\* A list of another organisation than the selected one is shown only while
\* that one's is on its way: no late answer takes its place and no load is lost.
ListIsOfTheOrg ==
    page.of # None /\ ~page.error /\ page.org # org
    => \E q \in Slot : flying[q].kind = "page" /\ flying[q].current /\ flying[q].org = org

\* "Session ended, please sign in again" (sessionEnded): the panel says so when
\* its session has ended at the server.
EndedMeansEnded ==
    [][session # None /\ session' = None /\ notice' = "sessionEnded"
       => session \notin live]_vars

\* The panel gives up a live session on its own in two cases only: mfa_disable
\* refused the password or the code, or a late answer refused an earlier session.
LiveSessionIsKept ==
    [][session' = None /\ notice' = "sessionEnded" /\ session \in live
       => \E q \in Slot :
             /\ flying[q].status = "401" /\ flying'[q] = Idle
             /\ flying[q].kind = "mfa_disable" \/ flying[q].token # session]_vars

-----------------------------------------------------------------------------
(***************************************************************************)
(* Why.                                                                    *)
(***************************************************************************)
\* The latest loads are those of the session and the organisation of now.
LatestLoadsAreOfNow ==
    \A q \in Slot :
        IsLoad(q) /\ flying[q].current
        => /\ session # None /\ flying[q].token = session
           /\ flying[q].kind = "page" => flying[q].org = org

\* One login at a time, and none while a session is there.
LoginsAreAlone ==
    /\ \A q \in Slot :
          flying[q].kind = "login"
          => session = None /\ (flying[q].status = "ok" => flying[q].result \in Session)
    /\ \A p, q \in Slot : flying[p].kind = "login" /\ flying[q].kind = "login" => p = q

\* A session that the server refused once does not come to life again.
RefusedIsOver ==
    /\ session \in issued \cup {None}
    /\ \A q \in Slot :
          /\ flying[q].token \in issued \cup {None}
          /\ flying[q].kind = "login" /\ flying[q].status = "ok" => flying[q].result \in issued
          /\ flying[q].status = "401" /\ flying[q].kind \notin {"login", "mfa_disable"}
             => flying[q].token \notin live

\* What ShownInv says of the screen does not depend on RefusedIsOver.
ShownInv ==
    /\ TypeOK
    /\ DataIsOfTheSession
    /\ ListIsOfTheOrg
    /\ LatestLoadsAreOfNow
    /\ LoginsAreAlone

PanelInv == ShownInv /\ RefusedIsOver

=============================================================================
