---------------------------- MODULE Panel_proofs ----------------------------
(***************************************************************************)
(* What the panel shows belongs to its session and its organisation, for   *)
(* any number of sessions, organisations and requests in flight.           *)
(*                                                                         *)
(* FlightInv is what ShownInv says of the requests F, for a session and an *)
(* organisation.  The first lemmas say how it fares when a request leaves, *)
(* when an answer is used up and when loads become outdated; with them a   *)
(* step of the panel is a few lines.                                       *)
(***************************************************************************)
EXTENDS Panel, TLAPS

Flights == [Slot -> Request \cup {Idle}]

FlightInv(F, ses, o) ==
    /\ F \in Flights
    /\ \A p, q \in Slot :
          /\ F[p].kind \in {"account", "page"} /\ F[p].kind = F[q].kind
          /\ F[p].current /\ F[q].current
          => p = q
    /\ \A q \in Slot :
          F[q].kind \in {"account", "page"} /\ F[q].current
          => /\ ses # None /\ F[q].token = ses
             /\ F[q].kind = "page" => F[q].org = o
    /\ \A q \in Slot :
          F[q].kind = "login"
          => ses = None /\ (F[q].status = "ok" => F[q].result \in Session)
    /\ \A p, q \in Slot : F[p].kind = "login" /\ F[q].kind = "login" => p = q

\* The list that is on its way.
Awaited(F, o) == \E q \in Slot : F[q].kind = "page" /\ F[q].current /\ F[q].org = o

\* ShownInv, apart from the part about requests.
ScreenInv ==
    /\ live \subseteq issued /\ issued \subseteq Session
    /\ session \in Session \cup {None}
    /\ notice \in {"", "sessionEnded"}
    /\ account \in Session \cup {None}
    /\ org \in Org
    /\ page \in [of : Session \cup {None}, org : Org \cup {None}, error : BOOLEAN]
    /\ DataIsOfTheSession
    /\ page.of # None /\ ~page.error /\ page.org # org => Awaited(flying, org)

LEMMA InvSplits == ShownInv <=> ScreenInv /\ FlightInv(flying, session, org)
BY DEF ShownInv, TypeOK, ListIsOfTheOrg, LatestLoadsAreOfNow, LoginsAreAlone, IsLoad,
       ScreenInv, FlightInv, Awaited, Flights

-----------------------------------------------------------------------------
\* A request that leaves is a request.
LEMMA SentType ==
    ASSUME NEW kind \in Kind, NEW token \in Session \cup {None}, NEW o \in Org \cup {None}
    PROVE  /\ Sent(kind, token, o) \in Request
           /\ Sent(kind, token, o).kind = kind /\ Sent(kind, token, o).token = token
           /\ Sent(kind, token, o).org = o /\ Sent(kind, token, o).current
           /\ Sent(kind, token, o).status = "sent"
BY DEF Sent, Request

\* An idle slot is of no kind.
LEMMA IdleFields == /\ Idle.kind = "none" /\ Idle.status = "none" /\ ~Idle.current
                    /\ Idle.token = None
BY DEF Idle

\* A slot in use holds a request.
LEMMA InUse ==
    ASSUME NEW F \in Flights, NEW q \in Slot,
           F[q].kind \in Kind \/ F[q].status \in {"sent", "ok", "401", "error"}
    PROVE  F[q] \in Request
BY IdleFields DEF Flights, Kind

\* Fetched puts its request into an idle slot.
LEMMA FetchedSlot ==
    ASSUME NEW F, HasRoom(F), NEW R
    PROVE  \E q \in Slot : F[q] = Idle /\ Fetched(F, R) = [F EXCEPT ![q] = R]
BY DEF HasRoom, Fetched

\* An answer is used up.
LEMMA FreedInv ==
    ASSUME NEW F, NEW ses, NEW o, FlightInv(F, ses, o), NEW q \in Slot
    PROVE  FlightInv([F EXCEPT ![q] = Idle], ses, o)
BY IdleFields DEF FlightInv, Flights

\* Something else than a load or a login leaves.
LEMMA ActionLeaves ==
    ASSUME NEW F, NEW ses, NEW o, FlightInv(F, ses, o), HasRoom(F),
           NEW R \in Request, R.kind \in {"logout", "mfa_disable"}
    PROVE  FlightInv(Fetched(F, R), ses, o)
<1>1. PICK q \in Slot : F[q] = Idle /\ Fetched(F, R) = [F EXCEPT ![q] = R]
  BY FetchedSlot
<1> QED BY <1>1 DEF FlightInv, Flights

\* What waits for its list still does when another slot is filled or freed.
LEMMA StillAwaited ==
    ASSUME NEW F \in Flights, NEW o, Awaited(F, o), NEW q \in Slot, NEW R,
           ~(F[q].kind = "page" /\ F[q].current)
    PROVE  Awaited([F EXCEPT ![q] = R], o)
BY DEF Awaited, Flights

-----------------------------------------------------------------------------
\* Outdated requests are the same ones, not current any more.
LEMMA OutdatedFields ==
    ASSUME NEW F \in Flights, NEW kinds \in SUBSET Kind
    PROVE  /\ Outdated(F, kinds) \in Flights
           /\ \A q \in Slot :
                /\ Outdated(F, kinds)[q].kind = F[q].kind
                /\ Outdated(F, kinds)[q].token = F[q].token
                /\ Outdated(F, kinds)[q].org = F[q].org
                /\ Outdated(F, kinds)[q].status = F[q].status
                /\ Outdated(F, kinds)[q].result = F[q].result
                /\ Outdated(F, kinds)[q].current <=> F[q].current /\ F[q].kind \notin kinds
                /\ F[q] = Idle => Outdated(F, kinds)[q] = Idle
<1> SUFFICES ASSUME NEW q \in Slot
             PROVE  /\ Outdated(F, kinds)[q] \in Request \cup {Idle}
                    /\ Outdated(F, kinds)[q].kind = F[q].kind
                    /\ Outdated(F, kinds)[q].token = F[q].token
                    /\ Outdated(F, kinds)[q].org = F[q].org
                    /\ Outdated(F, kinds)[q].status = F[q].status
                    /\ Outdated(F, kinds)[q].result = F[q].result
                    /\ Outdated(F, kinds)[q].current <=> F[q].current /\ F[q].kind \notin kinds
                    /\ F[q] = Idle => Outdated(F, kinds)[q] = Idle
  BY DEF Outdated, Flights
<1>1. F[q] \in Request \cup {Idle}
  BY DEF Flights
<1>2. CASE F[q].kind \in kinds
  <2>1. Outdated(F, kinds)[q] = [F[q] EXCEPT !.current = FALSE]
    BY <1>2 DEF Outdated
  <2>2. F[q] # Idle
    BY <1>2, IdleFields DEF Kind
  <2>3. CASE F[q] \in Request
    <3>1. PICK r \in Request : r = F[q]
      BY <2>3
    <3>2. /\ [r EXCEPT !.current = FALSE] \in Request
          /\ [r EXCEPT !.current = FALSE].kind = r.kind
          /\ [r EXCEPT !.current = FALSE].token = r.token
          /\ [r EXCEPT !.current = FALSE].org = r.org
          /\ [r EXCEPT !.current = FALSE].status = r.status
          /\ [r EXCEPT !.current = FALSE].result = r.result
          /\ [r EXCEPT !.current = FALSE].current = FALSE
      BY DEF Request
    <3> QED BY <1>2, <2>1, <2>2, <3>1, <3>2
  <2> QED BY <1>1, <2>2, <2>3
<1>3. CASE F[q].kind \notin kinds
  BY <1>1, <1>3 DEF Outdated
<1> QED BY <1>2, <1>3

\* Only loads of another kind are still current.
LEMMA KindOutdated ==
    ASSUME NEW F, NEW ses, NEW o, FlightInv(F, ses, o),
           NEW kind \in {"account", "page"}, NEW new, kind = "page" \/ new = o
    PROVE  FlightInv(Outdated(F, {kind}), ses, new)
<1> DEFINE G == Outdated(F, {kind})
<1>1. F \in Flights
  BY DEF FlightInv
<1>2. /\ G \in Flights
      /\ \A q \in Slot : /\ G[q].kind = F[q].kind /\ G[q].token = F[q].token
                         /\ G[q].org = F[q].org /\ G[q].status = F[q].status
                         /\ G[q].result = F[q].result
                         /\ G[q].current <=> F[q].current /\ F[q].kind \notin {kind}
  BY <1>1, OutdatedFields DEF Kind
<1> HIDE DEF G
<1>3. FlightInv(G, ses, new)
  BY <1>2 DEF FlightInv
<1> QED BY <1>3 DEF G

\* A load leaves: it becomes the only current one of its kind.
LEMMA LoadLeaves ==
    ASSUME NEW F \in Flights, NEW ses \in Session, NEW o, HasRoom(F),
           NEW kind \in {"account", "page"},
           FlightInv(Outdated(F, {kind}), ses, o),
           NEW at \in Org \cup {None}, kind = "page" => at = o
    PROVE  /\ FlightInv(Reloaded(F, kind, ses, at), ses, o)
           /\ kind = "page" => Awaited(Reloaded(F, kind, ses, at), o)
<1> DEFINE G == Outdated(F, {kind})
           R == Sent(kind, ses, at)
<1>1. FlightInv(G, ses, o)
  OBVIOUS
<1>2. \A q \in Slot : /\ G[q].kind = F[q].kind
                      /\ G[q].current <=> F[q].current /\ F[q].kind \notin {kind}
                      /\ F[q] = Idle => G[q] = Idle
  BY OutdatedFields DEF Kind
<1>3. HasRoom(G)
  BY <1>2 DEF HasRoom
<1>4. PICK p \in Slot : G[p] = Idle /\ Fetched(G, R) = [G EXCEPT ![p] = R]
  BY <1>3, FetchedSlot
<1>5. /\ R \in Request /\ R.kind = kind /\ R.token = ses /\ R.org = at /\ R.current
      /\ R.status = "sent"
  BY SentType DEF Kind
<1>6. ses # None
  BY PanelConstants
<1> HIDE DEF G, R
<1>7. FlightInv([G EXCEPT ![p] = R], ses, o)
  <2> DEFINE H == [G EXCEPT ![p] = R]
  <2>1. /\ H \in Flights /\ H[p] = R
        /\ \A q \in Slot \ {p} : H[q] = G[q]
    BY <1>1, <1>5 DEF Flights, FlightInv
  <2> HIDE DEF H
  <2>2. \A q \in Slot : G[q].kind = kind => ~G[q].current
    BY <1>2
  <2>3. FlightInv(H, ses, o)
    BY <1>1, <1>5, <1>6, <2>1, <2>2 DEF FlightInv
  <2> QED BY <2>3 DEF H
<1>8. kind = "page" => Awaited([G EXCEPT ![p] = R], o)
  BY <1>1, <1>5 DEF Awaited, Flights, FlightInv
<1> QED BY <1>4, <1>7, <1>8 DEF Reloaded, G, R

\* The session is given up: no load is current.
LEMMA LoadsOutdated ==
    ASSUME NEW F, NEW ses, NEW o, FlightInv(F, ses, o)
    PROVE  FlightInv(Outdated(F, {"account", "page"}), None, o)
<1> DEFINE G == Outdated(F, {"account", "page"})
<1>1. F \in Flights
  BY DEF FlightInv
<1>2. /\ G \in Flights
      /\ \A q \in Slot : /\ G[q].kind = F[q].kind
                         /\ G[q].status = F[q].status
                         /\ G[q].result = F[q].result
                         /\ G[q].current <=> F[q].current /\ F[q].kind \notin {"account", "page"}
  BY <1>1, OutdatedFields DEF Kind
<1> HIDE DEF G
<1>3. FlightInv(G, None, o)
  BY <1>2 DEF FlightInv
<1> QED BY <1>3 DEF G

\* The server answers: nothing but the answer changes.
LEMMA AnsweredInv ==
    ASSUME NEW F, NEW ses, NEW o, FlightInv(F, ses, o), NEW q \in Slot,
           F[q].status = "sent",
           NEW status \in {"ok", "401", "error"}, NEW result \in Session \cup {None},
           F[q].kind = "login" /\ status = "ok" => result \in Session
    PROVE  /\ FlightInv([F EXCEPT ![q].status = status, ![q].result = result], ses, o)
           /\ Awaited(F, o) => Awaited([F EXCEPT ![q].status = status, ![q].result = result], o)
<1> DEFINE G == [F EXCEPT ![q].status = status, ![q].result = result]
<1>1. F \in Flights /\ F[q] \in Request
  BY InUse DEF FlightInv
<1>2. PICK r \in Request : r = F[q]
  BY <1>1
<1> DEFINE t == [r EXCEPT !.status = status, !.result = result]
<1>3. /\ t \in Request
      /\ t.kind = r.kind /\ t.token = r.token /\ t.org = r.org /\ t.current = r.current
      /\ t.status = status /\ t.result = result
  BY DEF Request
<1>4. G = [F EXCEPT ![q] = t]
  BY <1>1, <1>2 DEF Flights
<1> HIDE DEF t, G
<1>5. G \in Flights /\ G[q] = t /\ \A p \in Slot \ {q} : G[p] = F[p]
  BY <1>1, <1>3, <1>4 DEF Flights
<1>6. FlightInv(G, ses, o)
  <2>1. \A p \in Slot : /\ G[p].kind = F[p].kind /\ G[p].token = F[p].token
                        /\ G[p].org = F[p].org /\ G[p].current = F[p].current
    BY <1>2, <1>3, <1>5
  <2>2. \A p \in Slot : F[p].kind = "login" /\ G[p].status = "ok" => G[p].result \in Session
    BY <1>2, <1>3, <1>5 DEF FlightInv
  <2>3. \A p, p2 \in Slot :
           /\ G[p].kind \in {"account", "page"} /\ G[p].kind = G[p2].kind
           /\ G[p].current /\ G[p2].current
           => p = p2
    BY <2>1 DEF FlightInv
  <2>4. \A p \in Slot :
           G[p].kind \in {"account", "page"} /\ G[p].current
           => /\ ses # None /\ G[p].token = ses
              /\ G[p].kind = "page" => G[p].org = o
    <3>1. \A p \in Slot :
             F[p].kind \in {"account", "page"} /\ F[p].current
             => /\ ses # None /\ F[p].token = ses
                /\ F[p].kind = "page" => F[p].org = o
      BY DEF FlightInv
    <3> QED BY <2>1, <3>1
  <2>5. \A p \in Slot :
           G[p].kind = "login"
           => ses = None /\ (G[p].status = "ok" => G[p].result \in Session)
    BY <2>1, <2>2 DEF FlightInv
  <2>6. \A p, p2 \in Slot : G[p].kind = "login" /\ G[p2].kind = "login" => p = p2
    BY <2>1 DEF FlightInv
  <2> QED BY <1>5, <2>3, <2>4, <2>5, <2>6 DEF FlightInv
<1>7. Awaited(F, o) => Awaited(G, o)
  BY <1>2, <1>3, <1>5 DEF Awaited
<1> QED BY <1>6, <1>7 DEF G

-----------------------------------------------------------------------------
LEMMA ShownInit ==
    ASSUME Init
    PROVE  ShownInv
<1>1. ScreenInv
  BY DEF Init, ScreenInv, DataIsOfTheSession, Blank
<1>2. FlightInv(flying, session, org)
  BY IdleFields DEF Init, FlightInv, Flights
<1> QED BY <1>1, <1>2, InvSplits

\* What a step starts from, in the terms of the lemmas above.
LEMMA Start ==
    ASSUME ShownInv
    PROVE  /\ FlightInv(flying, session, org) /\ flying \in Flights
           /\ live \subseteq issued /\ issued \subseteq Session
           /\ session \in Session \cup {None} /\ notice \in {"", "sessionEnded"}
           /\ account \in Session \cup {None} /\ org \in Org
           /\ page \in [of : Session \cup {None}, org : Org \cup {None}, error : BOOLEAN]
           /\ account # None => account = session
           /\ page.of # None => page.of = session
           /\ page.of # None /\ ~page.error /\ page.org # org => Awaited(flying, org)
BY InvSplits DEF ScreenInv, FlightInv, DataIsOfTheSession

\* What it has to end in.
LEMMA End ==
    ASSUME FlightInv(flying', session', org'),
           live' \subseteq issued', issued' \subseteq Session,
           session' \in Session \cup {None}, notice' \in {"", "sessionEnded"},
           account' \in Session \cup {None}, org' \in Org,
           page' \in [of : Session \cup {None}, org : Org \cup {None}, error : BOOLEAN],
           account' # None => account' = session',
           page'.of # None => page'.of = session',
           page'.of # None /\ ~page'.error /\ page'.org # org' => Awaited(flying', org')
    PROVE  ShownInv'
BY DEF ShownInv, TypeOK, DataIsOfTheSession, ListIsOfTheOrg, LatestLoadsAreOfNow, LoginsAreAlone,
       IsLoad, FlightInv, Awaited, Flights

-----------------------------------------------------------------------------
\* One lemma per action: requests sent by the panel first.
LEMMA SubmitLoginInv ==
    ASSUME ShownInv, SubmitLogin
    PROVE  ShownInv'
<1> DEFINE R == Sent("login", None, None)
<1>1. R \in Request /\ R.kind = "login" /\ R.status = "sent"
  BY SentType DEF Kind
<1> HIDE DEF R
<1>2. PICK q \in Slot : flying[q] = Idle /\ flying' = [flying EXCEPT ![q] = R]
  BY FetchedSlot DEF SubmitLogin, R
<1>3. FlightInv(flying, session, org) /\ session = None /\ \A p \in Slot : flying[p].kind # "login"
  BY Start DEF SubmitLogin
<1>4. FlightInv(flying', session, org)
  BY <1>1, <1>2, <1>3 DEF FlightInv, Flights
<1> QED BY <1>3, <1>4, Start, End DEF SubmitLogin

LEMMA LoadPageInv ==
    ASSUME ShownInv, LoadPage
    PROVE  ShownInv'
<1>1. session \in Session /\ org \in Org /\ flying \in Flights
  BY Start DEF LoadPage
<1>2. FlightInv(Outdated(flying, {"page"}), session, org)
  BY Start, KindOutdated
<1>3. FlightInv(flying', session, org) /\ Awaited(flying', org)
  BY <1>1, <1>2, LoadLeaves DEF LoadPage
<1>4. CASE page' = page
  BY <1>3, <1>4, Start, End DEF LoadPage
<1>5. CASE page' = Blank
  BY <1>3, <1>5, Start, End DEF LoadPage, Blank
<1> QED BY <1>4, <1>5 DEF LoadPage

LEMMA SelectOrgInv ==
    ASSUME ShownInv, NEW o \in Org, SelectOrg(o)
    PROVE  ShownInv'
<1>1. session \in Session /\ flying \in Flights
  BY Start DEF SelectOrg
<1>2. FlightInv(Outdated(flying, {"page"}), session, o)
  BY Start, KindOutdated
<1>3. FlightInv(flying', session, o) /\ Awaited(flying', o)
  BY <1>1, <1>2, LoadLeaves DEF SelectOrg
<1> QED BY <1>3, Start, End DEF SelectOrg

LEMMA SubmitMfaDisableInv ==
    ASSUME ShownInv, SubmitMfaDisable
    PROVE  ShownInv'
<1> DEFINE R == Sent("mfa_disable", session, None)
<1>1. session \in Session \cup {None}
  BY Start
<1>2. R \in Request /\ R.kind = "mfa_disable"
  BY <1>1, SentType DEF Kind
<1>3. flying' = Fetched(flying, R) /\ HasRoom(flying)
  BY DEF SubmitMfaDisable
<1> HIDE DEF R
<1>4. FlightInv(flying', session, org)
  BY <1>2, <1>3, Start, ActionLeaves
<1>5. PICK q \in Slot : flying[q] = Idle /\ flying' = [flying EXCEPT ![q] = R]
  BY <1>3, FetchedSlot
<1>6. Awaited(flying, org) => Awaited(flying', org)
  BY <1>5, Start, StillAwaited, IdleFields
<1> QED BY <1>4, <1>6, Start, End DEF SubmitMfaDisable

LEMMA ClickSignOutInv ==
    ASSUME ShownInv, ClickSignOut
    PROVE  ShownInv'
<1> DEFINE R == Sent("logout", session, None)
<1>1. session \in Session \cup {None}
  BY Start
<1>2. R \in Request /\ R.kind = "logout"
  BY <1>1, SentType DEF Kind
<1>3. /\ HasRoom(flying) /\ SignOut("", Fetched(flying, R))
      /\ UNCHANGED <<live, issued>>
  BY DEF ClickSignOut
<1> HIDE DEF R
<1>4. FlightInv(Fetched(flying, R), session, org)
  BY <1>2, <1>3, Start, ActionLeaves
<1>5. FlightInv(flying', None, org)
  BY <1>3, <1>4, LoadsOutdated DEF SignOut
<1> QED BY <1>3, <1>5, Start, End DEF SignOut, Blank

LEMMA ReloadBrowserInv ==
    ASSUME ShownInv, ReloadBrowser
    PROVE  ShownInv'
<1> DEFINE none == [q \in Slot |-> Idle]
           R == Sent("account", session, None)
<1>1. FlightInv(none, session, org)
  BY IdleFields DEF FlightInv, Flights
<1>2. FlightInv(flying', session, org)
  <2>1. CASE session = None
    BY <1>1, <2>1 DEF ReloadBrowser
  <2>2. CASE session # None
    <3>1. session \in Session
      BY <2>2, Start
    <3>2. flying' = Fetched(none, R)
      BY <2>2 DEF ReloadBrowser
    <3>3. R \in Request /\ R.kind = "account" /\ R.token = session
      BY <3>1, SentType DEF Kind
    <3> HIDE DEF R
    <3>4. CASE HasRoom(none)
      <4>1. PICK q \in Slot : none[q] = Idle /\ flying' = [none EXCEPT ![q] = R]
        BY <3>2, <3>4, FetchedSlot
      <4>2. flying' \in Flights /\ flying'[q] = R /\ \A p \in Slot \ {q} : flying'[p] = Idle
        BY <3>3, <4>1 DEF Flights
      <4> QED BY <2>2, <3>3, <4>2, IdleFields DEF FlightInv
    <3>5. CASE ~HasRoom(none)
      <4>1. Slot = {}
        BY <3>5 DEF HasRoom
      <4>2. flying' \in Flights
        BY <3>2, <4>1 DEF Fetched, Flights
      <4> QED BY <4>1, <4>2 DEF FlightInv
    <3> QED BY <3>4, <3>5
  <2> QED BY <2>1, <2>2
<1> QED BY <1>2, Start, End DEF ReloadBrowser, Blank

-----------------------------------------------------------------------------
\* The server.
LEMMA ExpireInv ==
    ASSUME ShownInv, NEW s \in Session, Expire(s)
    PROVE  ShownInv'
BY Start, End DEF Expire

LEMMA ServeInv ==
    ASSUME ShownInv, NEW q \in Slot, Serve(q)
    PROVE  ShownInv'
<1>1. /\ flying[q].status = "sent"
      /\ UNCHANGED <<session, notice, account, org, page>>
      /\ live' \subseteq issued' /\ issued' \subseteq Session
  BY Start DEF Serve
<1>2. PICK status \in {"ok", "401", "error"}, result \in Session \cup {None} :
         /\ Answered(q, status, result)
         /\ flying[q].kind = "login" /\ status = "ok" => result \in Session
  BY DEF Serve
<1>3. /\ FlightInv(flying', session, org)
      /\ Awaited(flying, org) => Awaited(flying', org)
  <2>1. FlightInv(flying, session, org)
    BY Start
  <2>2. flying' = [flying EXCEPT ![q].status = status, ![q].result = result]
    BY <1>2 DEF Answered
  <2> QED BY <1>1, <1>2, <2>1, <2>2, AnsweredInv
<1> QED BY <1>1, <1>3, Start, End

LEMMA FailInv ==
    ASSUME ShownInv, NEW q \in Slot, Fail(q)
    PROVE  ShownInv'
<1>1. /\ FlightInv(flying', session, org)
      /\ Awaited(flying, org) => Awaited(flying', org)
  <2>1. FlightInv(flying, session, org)
    BY Start
  <2>2. /\ flying[q].status = "sent"
        /\ flying' = [flying EXCEPT ![q].status = "error", ![q].result = None]
    BY DEF Fail, Answered
  <2> QED BY <2>1, <2>2, AnsweredInv
<1> QED BY <1>1, Start, End DEF Fail

-----------------------------------------------------------------------------
\* Answers.
LEMMA LoginArrivesInv ==
    ASSUME ShownInv, NEW q \in Slot, LoginArrives(q)
    PROVE  ShownInv'
<1> DEFINE F == Freed(q)
           s == flying[q].result
<1>1. FlightInv(flying, session, org) /\ flying[q].kind = "login" /\ flying[q].status = "ok"
  BY Start DEF LoginArrives
<1>2. session = None /\ s \in Session
  BY <1>1 DEF FlightInv
<1>3. FlightInv(F, None, org) /\ F \in Flights
  BY <1>1, <1>2, FreedInv DEF Freed, FlightInv
<1>4. /\ \A p \in Slot : F[p].kind # "login"
      /\ \A p \in Slot : ~(F[p].kind \in {"account", "page"} /\ F[p].current)
  BY <1>1, <1>3, IdleFields DEF Freed, FlightInv, Flights
<1>5. F[q] = Idle
  BY <1>1 DEF Freed, FlightInv, Flights
<1>6. flying' = Reloaded(F, "account", s, None) /\ session' = s
  BY DEF LoginArrives
<1> HIDE DEF F, s
<1>7. FlightInv(F, s, org)
  BY <1>3, <1>4 DEF FlightInv
<1>8. FlightInv(Outdated(F, {"account"}), s, org)
  BY <1>7, KindOutdated
<1>9. FlightInv(flying', s, org)
  BY <1>2, <1>3, <1>5, <1>6, <1>8, LoadLeaves DEF HasRoom
<1> QED BY <1>2, <1>6, <1>9, Start, End DEF LoginArrives

LEMMA AccountArrivesInv ==
    ASSUME ShownInv, NEW q \in Slot, AccountArrives(q)
    PROVE  ShownInv'
<1> DEFINE F == Freed(q)
<1>1. FlightInv(flying, session, org) /\ flying[q].kind = "account"
  BY Start DEF AccountArrives
<1>2. FlightInv(F, session, org) /\ F \in Flights /\ F[q] = Idle
  BY <1>1, FreedInv DEF Freed, FlightInv, Flights
<1>3. CASE Latest(q)
  <2>1. flying[q].token = session /\ session # None
    BY <1>1, <1>3 DEF FlightInv, Latest
  <2>2. session \in Session /\ org \in Org
    BY <2>1, Start
  <2>3. account' = session /\ flying' = Reloaded(F, "page", session, org)
    BY <1>3, <2>1 DEF AccountArrives
  <2> HIDE DEF F
  <2>4. FlightInv(Outdated(F, {"page"}), session, org)
    BY <1>2, KindOutdated
  <2>5. FlightInv(flying', session, org) /\ Awaited(flying', org)
    BY <1>2, <2>2, <2>3, <2>4, LoadLeaves DEF HasRoom
  <2> QED BY <2>2, <2>3, <2>5, Start, End DEF AccountArrives
<1>4. CASE ~Latest(q)
  <2>1. flying' = F /\ account' = account
    BY <1>4 DEF AccountArrives
  <2>2. Awaited(flying, org) => Awaited(flying', org)
    BY <1>1, <2>1, Start, StillAwaited DEF Freed
  <2> QED BY <1>2, <2>1, <2>2, Start, End DEF AccountArrives
<1> QED BY <1>3, <1>4

LEMMA PageArrivesInv ==
    ASSUME ShownInv, NEW q \in Slot, PageArrives(q)
    PROVE  ShownInv'
<1>1. FlightInv(flying, session, org) /\ flying[q].kind = "page" /\ flying' = Freed(q)
  BY Start DEF PageArrives
<1>2. FlightInv(flying', session, org)
  BY <1>1, FreedInv DEF Freed
<1>3. CASE Latest(q)
  <2>1. flying[q].token = session /\ flying[q].org = org
    BY <1>1, <1>3 DEF FlightInv, Latest
  <2>2. page' = [of |-> session, org |-> org, error |-> FALSE]
    BY <1>3, <2>1 DEF PageArrives
  <2>3. /\ page' \in [of : Session \cup {None}, org : Org \cup {None}, error : BOOLEAN]
        /\ page'.of = session /\ page'.org = org
    BY <2>2, Start
  <2> QED BY <1>2, <2>3, Start, End DEF PageArrives
<1>4. CASE ~Latest(q)
  <2>1. page' = page
    BY <1>4 DEF PageArrives
  <2>2. Awaited(flying, org) => Awaited(flying', org)
    BY <1>1, <1>4, Start, StillAwaited DEF Freed, Latest
  <2> QED BY <1>2, <2>1, <2>2, Start, End DEF PageArrives
<1> QED BY <1>3, <1>4

LEMMA ActionArrivesInv ==
    ASSUME ShownInv, NEW q \in Slot, ActionArrives(q)
    PROVE  ShownInv'
<1>1. FlightInv(flying', session, org)
  BY Start, FreedInv DEF ActionArrives, Freed
<1>2. Awaited(flying, org) => Awaited(flying', org)
  BY Start, StillAwaited DEF ActionArrives, Freed
<1> QED BY <1>1, <1>2, Start, End DEF ActionArrives

LEMMA UnauthorizedArrivesInv ==
    ASSUME ShownInv, NEW q \in Slot, UnauthorizedArrives(q)
    PROVE  ShownInv'
<1>1. FlightInv(Freed(q), session, org)
  BY Start, FreedInv DEF Freed
<1>2. FlightInv(flying', None, org)
  BY <1>1, LoadsOutdated DEF UnauthorizedArrives, SignOut
<1> QED BY <1>2, Start, End DEF UnauthorizedArrives, SignOut, Blank

LEMMA ErrorArrivesInv ==
    ASSUME ShownInv, NEW q \in Slot, ErrorArrives(q)
    PROVE  ShownInv'
<1>1. FlightInv(flying', session, org)
  BY Start, FreedInv DEF ErrorArrives, Freed
<1>2. CASE flying[q].kind = "page" /\ Latest(q)
  <2>1. page' = [page EXCEPT !.error = TRUE]
    BY <1>2 DEF ErrorArrives
  <2> QED BY <1>1, <2>1, Start, End DEF ErrorArrives
<1>3. CASE ~(flying[q].kind = "page" /\ Latest(q))
  <2>1. page' = page
    BY <1>3 DEF ErrorArrives
  <2>2. Awaited(flying, org) => Awaited(flying', org)
    BY <1>3, Start, StillAwaited DEF ErrorArrives, Freed, Latest
  <2> QED BY <1>1, <2>1, <2>2, Start, End DEF ErrorArrives
<1> QED BY <1>2, <1>3

-----------------------------------------------------------------------------
LEMMA ShownStep ==
    ASSUME ShownInv, [Next]_vars
    PROVE  ShownInv'
<1>1. CASE UNCHANGED vars
  BY <1>1, Start, End DEF vars
<1>2. ASSUME NEW q \in Slot,
             \/ Serve(q) \/ Fail(q)
             \/ LoginArrives(q) \/ AccountArrives(q) \/ PageArrives(q)
             \/ ActionArrives(q) \/ UnauthorizedArrives(q) \/ ErrorArrives(q)
      PROVE  ShownInv'
  BY <1>2, ServeInv, FailInv, LoginArrivesInv, AccountArrivesInv, PageArrivesInv,
     ActionArrivesInv, UnauthorizedArrivesInv, ErrorArrivesInv
<1> QED BY <1>1, <1>2, SubmitLoginInv, LoadPageInv, SelectOrgInv, SubmitMfaDisableInv,
           ClickSignOutInv, ReloadBrowserInv, ExpireInv DEF Next

-----------------------------------------------------------------------------
(***************************************************************************)
(* RefusedIsOver, in the same way: OverInv is what it says of the requests *)
(* F, for a session and the sessions I that were issued, L of them live.   *)
(***************************************************************************)
OverInv(F, ses, L, I) ==
    /\ ses \in I \cup {None}
    /\ \A q \in Slot :
          /\ F[q].token \in I \cup {None}
          /\ F[q].kind = "login" /\ F[q].status = "ok" => F[q].result \in I
          /\ F[q].status = "401" /\ F[q].kind \notin {"login", "mfa_disable"}
             => F[q].token \notin L

LEMMA OverFreed ==
    ASSUME NEW F \in Flights, NEW ses, NEW L, NEW I, OverInv(F, ses, L, I), NEW q \in Slot
    PROVE  OverInv([F EXCEPT ![q] = Idle], ses, L, I) /\ [F EXCEPT ![q] = Idle] \in Flights
BY IdleFields DEF OverInv, Flights

LEMMA OverOutdated ==
    ASSUME NEW F \in Flights, NEW ses, NEW L, NEW I, OverInv(F, ses, L, I),
           NEW kinds \in SUBSET Kind
    PROVE  OverInv(Outdated(F, kinds), ses, L, I) /\ Outdated(F, kinds) \in Flights
<1> DEFINE G == Outdated(F, kinds)
<1>1. /\ G \in Flights
      /\ \A q \in Slot : /\ G[q].kind = F[q].kind /\ G[q].token = F[q].token
                         /\ G[q].status = F[q].status /\ G[q].result = F[q].result
  BY OutdatedFields
<1> HIDE DEF G
<1>2. OverInv(G, ses, L, I)
  BY <1>1 DEF OverInv
<1> QED BY <1>1, <1>2 DEF G

LEMMA OverFetched ==
    ASSUME NEW F \in Flights, NEW ses, NEW L, NEW I, OverInv(F, ses, L, I),
           HasRoom(F), NEW R \in Request, R.status = "sent", R.token \in I \cup {None}
    PROVE  OverInv(Fetched(F, R), ses, L, I)
<1>1. PICK q \in Slot : F[q] = Idle /\ Fetched(F, R) = [F EXCEPT ![q] = R]
  BY FetchedSlot
<1> QED BY <1>1 DEF OverInv, Flights

LEMMA OverReloaded ==
    ASSUME NEW F \in Flights, NEW ses, NEW L, NEW I, OverInv(F, ses, L, I),
           HasRoom(F), NEW kind \in {"account", "page"},
           NEW token \in Session \cup {None}, token \in I \cup {None}, NEW o \in Org \cup {None}
    PROVE  OverInv(Reloaded(F, kind, token, o), ses, L, I)
<1> DEFINE G == Outdated(F, {kind})
           R == Sent(kind, token, o)
<1>1. OverInv(G, ses, L, I) /\ G \in Flights
  BY OverOutdated DEF Kind
<1>2. HasRoom(G)
  BY OutdatedFields DEF HasRoom, Kind
<1>3. R \in Request /\ R.status = "sent" /\ R.token = token
  BY SentType DEF Kind
<1> HIDE DEF G, R
<1>4. OverInv(Fetched(G, R), ses, L, I)
  BY <1>1, <1>2, <1>3, OverFetched
<1> QED BY <1>4 DEF Reloaded, G, R

LEMMA OverIs == RefusedIsOver <=> OverInv(flying, session, live, issued)
BY DEF RefusedIsOver, OverInv

LEMMA OverEnd ==
    ASSUME OverInv(flying', session', live', issued')
    PROVE  RefusedIsOver'
BY DEF RefusedIsOver, OverInv

LEMMA OverStep ==
    ASSUME ShownInv, RefusedIsOver, [Next]_vars
    PROVE  RefusedIsOver'
<1>1. /\ flying \in Flights /\ OverInv(flying, session, live, issued)
      /\ session \in Session \cup {None} /\ session \in issued \cup {None}
      /\ org \in Org /\ issued \subseteq Session /\ live \subseteq issued
  BY Start, OverIs DEF OverInv
<1> DEFINE Over == OverInv(flying', session', live', issued')
<1>2. CASE UNCHANGED vars
  BY <1>1, <1>2, OverEnd DEF vars
<1>3. CASE SubmitLogin
  <2> DEFINE R == Sent("login", None, None)
  <2>1. R \in Request /\ R.status = "sent" /\ R.token = None
    BY SentType DEF Kind
  <2>2. /\ flying' = Fetched(flying, R) /\ HasRoom(flying)
        /\ UNCHANGED <<live, issued, session>>
    BY <1>3 DEF SubmitLogin
  <2> HIDE DEF R
  <2>3. Over
    BY <1>1, <2>1, <2>2, OverFetched
  <2> QED BY <2>3, OverEnd
<1>4. CASE LoadPage
  BY <1>1, <1>4, OverReloaded, OverEnd DEF LoadPage
<1>5. CASE SubmitMfaDisable
  <2> DEFINE R == Sent("mfa_disable", session, None)
  <2>1. R \in Request /\ R.status = "sent" /\ R.token = session
    BY <1>1, SentType DEF Kind
  <2>2. /\ flying' = Fetched(flying, R) /\ HasRoom(flying)
        /\ UNCHANGED <<live, issued, session>>
    BY <1>5 DEF SubmitMfaDisable
  <2> HIDE DEF R
  <2>3. Over
    BY <1>1, <2>1, <2>2, OverFetched
  <2> QED BY <2>3, OverEnd
<1>6. CASE ClickSignOut
  <2> DEFINE R == Sent("logout", session, None)
  <2>1. R \in Request /\ R.status = "sent" /\ R.token = session /\ R.kind = "logout"
    BY <1>1, SentType DEF Kind
  <2>2. /\ SignOut("", Fetched(flying, R)) /\ HasRoom(flying)
        /\ UNCHANGED <<live, issued>>
    BY <1>6 DEF ClickSignOut
  <2> HIDE DEF R
  <2>3. OverInv(Fetched(flying, R), session, live, issued)
    BY <1>1, <2>1, <2>2, OverFetched
  <2>4. FlightInv(Fetched(flying, R), session, org)
    BY <2>1, <2>2, Start, ActionLeaves
  <2>5. OverInv(Outdated(Fetched(flying, R), {"account", "page"}), session, live, issued)
    BY <2>3, <2>4, OverOutdated DEF FlightInv, Kind
  <2>6. Over
    BY <2>2, <2>5 DEF SignOut, OverInv
  <2> QED BY <2>6, OverEnd
<1>7. CASE ReloadBrowser
  <2> DEFINE none == [q \in Slot |-> Idle]
             R == Sent("account", session, None)
  <2>1. none \in Flights /\ OverInv(none, session, live, issued)
    BY <1>1, IdleFields DEF Flights, OverInv
  <2>2. R \in Request /\ R.status = "sent" /\ R.token = session
    BY <1>1, SentType DEF Kind
  <2>3. /\ flying' = none \/ flying' = Fetched(none, R)
        /\ UNCHANGED <<live, issued, session>>
    BY <1>7 DEF ReloadBrowser
  <2>4. ~HasRoom(none) => Slot = {}
    BY DEF HasRoom
  <2> HIDE DEF R, none
  <2>5. CASE HasRoom(none)
    <3>1. OverInv(Fetched(none, R), session, live, issued)
      BY <1>1, <2>1, <2>2, <2>5, OverFetched
    <3>2. OverInv(flying', session, live, issued)
      BY <2>1, <2>3, <3>1
    <3> QED BY <2>3, <3>2, OverEnd
  <2>6. CASE ~HasRoom(none)
    <3>1. Slot = {}
      BY <2>6, <2>4
    <3> QED BY <1>1, <2>3, <3>1, OverEnd DEF OverInv
  <2> QED BY <2>5, <2>6
<1>8. ASSUME NEW o \in Org, SelectOrg(o)
      PROVE  RefusedIsOver'
  BY <1>1, <1>8, OverReloaded, OverEnd DEF SelectOrg
<1>9. ASSUME NEW s \in Session, Expire(s)
      PROVE  RefusedIsOver'
  <2>1. Over
    BY <1>1, <1>9 DEF Expire, OverInv
  <2> QED BY <2>1, OverEnd
<1>10. ASSUME NEW q \in Slot, Serve(q) \/ Fail(q)
       PROVE  RefusedIsOver'
  <2>1. flying[q].status = "sent" /\ flying[q] \in Request
    BY <1>1, <1>10, InUse DEF Serve, Fail
  <2>2. PICK status \in {"ok", "401", "error"}, result \in Session \cup {None} :
           /\ flying' = [flying EXCEPT ![q].status = status, ![q].result = result]
           /\ flying[q].kind = "login" /\ status = "ok" => result \in issued'
           /\ status = "401" /\ flying[q].kind \notin {"login", "mfa_disable"}
              => flying[q].token \notin live'
    BY <1>10 DEF Serve, Fail, Answered
  <2>3. /\ flying'[q].kind = flying[q].kind /\ flying'[q].token = flying[q].token
        /\ flying'[q].status = status /\ flying'[q].result = result
        /\ \A p \in Slot \ {q} : flying'[p] = flying[p]
    BY <1>1, <2>1, <2>2 DEF Flights, Request
  <2>4. /\ issued \subseteq issued' /\ session' = session
        /\ \A t \in issued \cup {None} : t \notin live => t \notin live'
    BY <1>1, <1>10, PanelConstants DEF Serve, Fail
  <2>5. ASSUME NEW p \in Slot
        PROVE  /\ flying'[p].token \in issued' \cup {None}
               /\ flying'[p].kind = "login" /\ flying'[p].status = "ok"
                  => flying'[p].result \in issued'
               /\ flying'[p].status = "401" /\ flying'[p].kind \notin {"login", "mfa_disable"}
                  => flying'[p].token \notin live'
    <3>1. CASE p = q
      BY <1>1, <2>2, <2>3, <2>4, <3>1 DEF OverInv
    <3>2. CASE p # q
      BY <1>1, <2>3, <2>4, <3>2 DEF OverInv
    <3> QED
      BY <3>1, <3>2
  <2>6. session' \in issued' \cup {None}
    BY <1>1, <2>4 DEF OverInv
  <2>7. Over
    BY <2>5, <2>6 DEF OverInv
  <2> QED BY <2>7, OverEnd
<1>11. ASSUME NEW q \in Slot,
              \/ LoginArrives(q) \/ AccountArrives(q) \/ PageArrives(q)
              \/ ActionArrives(q) \/ UnauthorizedArrives(q) \/ ErrorArrives(q)
       PROVE  RefusedIsOver'
  <2>1. /\ OverInv(Freed(q), session, live, issued) /\ Freed(q) \in Flights
        /\ HasRoom(Freed(q))
        /\ UNCHANGED <<live, issued>>
    BY <1>1, <1>11, OverFreed DEF Freed, HasRoom, Flights, LoginArrives, AccountArrives,
       PageArrives, ActionArrives, UnauthorizedArrives, ErrorArrives
  <2>2. CASE LoginArrives(q)
    <3> DEFINE s == flying[q].result
    <3>1. s \in issued /\ s \in Session
      BY <1>1, <2>2 DEF LoginArrives, OverInv
    <3>2. session' = s /\ flying' = Reloaded(Freed(q), "account", s, None)
      BY <2>2 DEF LoginArrives
    <3> HIDE DEF s
    <3>3. OverInv(flying', session, live, issued)
      BY <2>1, <3>1, <3>2, OverReloaded
    <3>4. Over
      BY <2>1, <3>1, <3>2, <3>3 DEF OverInv
    <3> QED BY <3>4, OverEnd
  <2>3. CASE AccountArrives(q)
    <3>1. /\ session' = session
          /\ flying' = Freed(q) \/ flying' = Reloaded(Freed(q), "page", session, org)
      BY <2>3 DEF AccountArrives
    <3>2. Over
      BY <1>1, <2>1, <3>1, OverReloaded
    <3> QED BY <3>2, OverEnd
  <2>4. CASE UnauthorizedArrives(q)
    <3>1. session' = None /\ flying' = Outdated(Freed(q), {"account", "page"})
      BY <2>4 DEF UnauthorizedArrives, SignOut
    <3>2. OverInv(flying', session, live, issued)
      BY <2>1, <3>1, OverOutdated DEF Kind
    <3>3. Over
      BY <2>1, <3>1, <3>2 DEF OverInv
    <3> QED BY <3>3, OverEnd
  <2>5. CASE PageArrives(q) \/ ActionArrives(q) \/ ErrorArrives(q)
    <3>1. session' = session /\ flying' = Freed(q)
      BY <2>5 DEF PageArrives, ActionArrives, ErrorArrives
    <3> QED BY <2>1, <3>1, OverEnd
  <2> QED BY <1>11, <2>2, <2>3, <2>4, <2>5
<1> QED BY <1>2, <1>3, <1>4, <1>5, <1>6, <1>7, <1>8, <1>9, <1>10, <1>11 DEF Next

-----------------------------------------------------------------------------
\* The inductive invariant of the panel (App.tsx, app-context.tsx): the latest
\* loads are of the session and the organisation of now, a login is alone, and
\* a session that was refused stays refused.
THEOREM PanelInvariant == Spec => []PanelInv
<1>1. Init => PanelInv
  <2>1. ASSUME Init
        PROVE  RefusedIsOver
    BY <2>1, IdleFields DEF Init, RefusedIsOver
  <2> QED BY <2>1, ShownInit DEF PanelInv
<1>2. PanelInv /\ [Next]_vars => PanelInv'
  BY ShownStep, OverStep DEF PanelInv
<1> QED BY <1>1, <1>2, PTL DEF Spec

\* Every variable of the panel keeps its type, and at most one load of a kind
\* is the latest.
THEOREM PanelTypeOK == Spec => []TypeOK
<1>1. PanelInv => TypeOK
  BY DEF PanelInv, ShownInv
<1> QED BY <1>1, PanelInvariant, PTL

\* What the panel shows was asked for by the session that is signed in.
THEOREM PanelDataIsOfTheSession == Spec => []DataIsOfTheSession
<1>1. PanelInv => DataIsOfTheSession
  BY DEF PanelInv, ShownInv
<1> QED BY <1>1, PanelInvariant, PTL

\* A list of another organisation is shown only while the right one is on its way.
THEOREM PanelListIsOfTheOrg == Spec => []ListIsOfTheOrg
<1>1. PanelInv => ListIsOfTheOrg
  BY DEF PanelInv, ShownInv
<1> QED BY <1>1, PanelInvariant, PTL

\* The panel gives up a live session on its own only when mfa_disable refused
\* the password or the code, or when a late answer refused an earlier session.
THEOREM PanelKeepsLiveSession == Spec => LiveSessionIsKept
<1> DEFINE Gone == session' = None /\ notice' = "sessionEnded" /\ session \in live
           Why(q) == /\ flying[q].status = "401" /\ flying'[q] = Idle
                     /\ flying[q].kind = "mfa_disable" \/ flying[q].token # session
<1>1. ASSUME PanelInv, [Next]_vars, Gone
      PROVE  \E q \in Slot : Why(q)
  <2>1. /\ ShownInv /\ flying \in Flights
        /\ session \in Session /\ session # None
    BY <1>1, Start, PanelConstants DEF PanelInv
  <2>2. \A q \in Slot : ~LoginArrives(q)
    BY <2>1, Start DEF LoginArrives, FlightInv
  <2>3. PICK q \in Slot : UnauthorizedArrives(q)
    BY <1>1, <2>1, <2>2
       DEF Next, vars, SubmitLogin, LoadPage, SubmitMfaDisable, ClickSignOut, ReloadBrowser,
           SelectOrg, Expire, Serve, Fail, AccountArrives, PageArrives, ActionArrives,
           ErrorArrives, SignOut
  <2>4. flying[q].status = "401" /\ flying[q].kind # "login"
    BY <2>3 DEF UnauthorizedArrives, Unauthorized
  <2>5. flying'[q] = Idle
    <3>1. Freed(q) \in Flights /\ Freed(q)[q] = Idle
      BY <2>1 DEF Freed, Flights
    <3> QED BY <2>3, <3>1, OutdatedFields DEF UnauthorizedArrives, SignOut, Kind
  <2>6. flying[q].kind = "mfa_disable" \/ flying[q].token # session
    BY <1>1, <2>4 DEF PanelInv, RefusedIsOver
  <2> QED BY <2>4, <2>5, <2>6
<1>2. PanelInv /\ [Next]_vars => [Gone => \E q \in Slot : Why(q)]_vars
  BY <1>1
<1> QED BY <1>2, PanelInvariant, PTL DEF Spec, LiveSessionIsKept
=============================================================================
