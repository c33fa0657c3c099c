-------------------------- MODULE AuditPage_proofs --------------------------
(***************************************************************************)
(* The journal tells what happened, for any number of requests and         *)
(* organisations and whatever the audit page does meanwhile; and the page  *)
(* shows it without a hole as long as its loads do not overlap, for any    *)
(* number of events and any limit.                                         *)
(***************************************************************************)
EXTENDS AuditPage, FiniteSetTheorems, TLAPS

\* No step of the page changes the journal.
LEMMA PageKeepsJournal ==
    ASSUME [Next]_vars
    PROVE  [JournalNext]_journal
BY DEF Next, vars, SelectOrg, Refresh, More, Reopen, Serve, Arrive, LoadFails

-----------------------------------------------------------------------------
\* What AuditInv says of one handler h of request r.
HandlerInv(r, h, last, E, C) ==
    /\ h \in Handler
    /\ h.phase = "idle" => r \notin C
    /\ h.phase # "ok" => \A e \in E : e.by # r
    /\ h.phase = "ok" => r \in C /\ \E e \in E : e.by = r
    /\ h.phase \in {"changed", "recorded"} => (r \in C <=> h.way = "separate")
    /\ h.id \in 0..last
    /\ h.phase \in {"recorded", "ok"} => h.id > 0
    /\ \A e \in E : e.by = r => e.id = h.id /\ e.org = h.org
    /\ r \in C /\ h.way = "tx" => \E e \in E : e.by = r

JournalInv(last, E, C, H) ==
    /\ last \in Nat
    /\ E \subseteq [id : 1..last, org : Org, by : Request]
    /\ C \subseteq Request
    /\ \A e \in E : e.by \in C
    /\ H \in [Request -> Handler]
    /\ \A r \in Request : HandlerInv(r, H[r], last, E, C)
    /\ \A r, q \in Request : r # q /\ H[r].id = H[q].id => H[r].id = 0

LEMMA AuditInvIs == AuditInv <=> JournalInv(lastId, events, changes, reqs)
<1>1. ASSUME AuditInv PROVE JournalInv(lastId, events, changes, reqs)
  <2>1. \A e \in events : e.by \in Request
    BY <1>1 DEF AuditInv, JournalTypeOK
  <2> QED BY <1>1, <2>1 DEF AuditInv, JournalTypeOK, EventsTellWhatHappened, JournalInv, HandlerInv
<1>2. ASSUME JournalInv(lastId, events, changes, reqs) PROVE AuditInv
  <2>1. \A e \in events : e.by \in Request
    BY <1>2 DEF JournalInv
  <2>2. JournalTypeOK /\ EventsTellWhatHappened
    BY <1>2, <2>1 DEF JournalTypeOK, EventsTellWhatHappened, JournalInv, HandlerInv
  <2> QED BY <1>2, <2>2 DEF AuditInv, JournalInv, HandlerInv
<1> QED BY <1>1, <1>2

LEMMA AuditEnd ==
    ASSUME JournalInv(lastId', events', changes', reqs')
    PROVE  AuditInv'
<1>1. \A e \in events' : e.by \in Request
  BY DEF JournalInv
<1>2. JournalTypeOK' /\ EventsTellWhatHappened'
  BY <1>1 DEF JournalTypeOK, EventsTellWhatHappened, JournalInv, HandlerInv
<1> QED BY <1>2 DEF AuditInv, JournalInv, HandlerInv

\* The handler of another request than the one that moves.
LEMMA Others ==
    ASSUME NEW r \in Request, NEW q \in Request \ {r}, NEW h,
           NEW last \in Nat, NEW last2 \in Nat, last <= last2,
           NEW E, NEW E2, E \subseteq E2, \A e \in E2 \ E : e.by = r,
           NEW C, NEW C2, \A p : p # r => (p \in C2 <=> p \in C),
           HandlerInv(q, h, last, E, C)
    PROVE  HandlerInv(q, h, last2, E2, C2)
BY DEF HandlerInv

LEMMA ChangeInv ==
    ASSUME AuditInv, NEW r \in Request, NEW way \in Way, NEW o \in Org, Change(r, way, o)
    PROVE  AuditInv'
<1> DEFINE h == [phase |-> "changed", way |-> way, org |-> o, id |-> 0]
<1>1. JournalInv(lastId, events, changes, reqs) /\ reqs[r].phase = "idle"
  BY AuditInvIs DEF Change
<1>2. h \in Handler /\ h.phase = "changed" /\ h.way = way /\ h.id = 0
  BY DEF Handler, Phase
<1>3. /\ reqs' = [reqs EXCEPT ![r] = h]
      /\ changes' = IF way = "separate" THEN changes \cup {r} ELSE changes
      /\ UNCHANGED <<lastId, events>>
  BY DEF Change, CommitsFirst
<1> HIDE DEF h
<1>4. /\ reqs' \in [Request -> Handler] /\ reqs'[r] = h
      /\ \A q \in Request \ {r} : reqs'[q] = reqs[q]
  BY <1>1, <1>2, <1>3 DEF JournalInv
<1>5. HandlerInv(r, reqs[r], lastId, events, changes)
  BY <1>1 DEF JournalInv
<1>6. r \notin changes /\ \A e \in events : e.by # r
  BY <1>1, <1>5 DEF HandlerInv
<1>7. HandlerInv(r, h, lastId, events, changes')
  BY <1>1, <1>2, <1>3, <1>6 DEF HandlerInv, JournalInv, Way
<1>8. \A q \in Request \ {r} : HandlerInv(q, reqs[q], lastId, events, changes')
  BY <1>1, <1>3, Others DEF JournalInv
<1>9. JournalInv(lastId', events', changes', reqs')
  BY <1>1, <1>2, <1>3, <1>4, <1>7, <1>8 DEF JournalInv
<1> QED BY <1>9, AuditEnd

LEMMA RecordInv ==
    ASSUME AuditInv, NEW r \in Request, Record(r)
    PROVE  AuditInv'
<1> DEFINE h == [reqs[r] EXCEPT !.phase = "recorded", !.id = lastId + 1]
<1>1. JournalInv(lastId, events, changes, reqs) /\ reqs[r].phase = "changed"
  BY AuditInvIs DEF Record
<1>2. PICK g \in Handler : g = reqs[r]
  BY <1>1 DEF JournalInv
<1>3. lastId \in Nat
  BY <1>1 DEF JournalInv
<1>4. h \in Handler /\ h.phase = "recorded" /\ h.way = g.way /\ h.id = lastId + 1 /\ h.org = g.org
  <2>1. PICK n \in Nat : n = lastId + 1
    BY <1>3
  <2>2. h = [g EXCEPT !.phase = "recorded", !.id = n]
    BY <1>2, <2>1
  <2> QED BY <2>1, <2>2 DEF Handler, Phase
<1>5. /\ reqs' = [reqs EXCEPT ![r] = h] /\ lastId' = lastId + 1
      /\ UNCHANGED <<events, changes>>
  BY DEF Record
<1> HIDE DEF h
<1>6. /\ reqs' \in [Request -> Handler] /\ reqs'[r] = h
      /\ \A q \in Request \ {r} : reqs'[q] = reqs[q]
  BY <1>1, <1>4, <1>5 DEF JournalInv
<1>7. HandlerInv(r, reqs[r], lastId, events, changes)
  BY <1>1 DEF JournalInv
<1>8. HandlerInv(r, h, lastId', events, changes)
  BY <1>1, <1>2, <1>3, <1>4, <1>5, <1>7 DEF HandlerInv
<1>9. \A q \in Request \ {r} : HandlerInv(q, reqs[q], lastId', events, changes)
  BY <1>1, <1>3, <1>5, Others DEF JournalInv
<1>10. \A q \in Request \ {r} : reqs'[q].id \in 0..lastId
  BY <1>1, <1>6 DEF JournalInv, HandlerInv
<1>11. \A p, q \in Request : p # q /\ reqs'[p].id = reqs'[q].id => reqs'[p].id = 0
  BY <1>1, <1>3, <1>4, <1>6, <1>10 DEF JournalInv
<1>12. events \subseteq [id : 1..lastId', org : Org, by : Request]
  BY <1>1, <1>3, <1>5 DEF JournalInv
<1>13. JournalInv(lastId', events', changes', reqs')
  BY <1>1, <1>3, <1>5, <1>6, <1>8, <1>9, <1>11, <1>12 DEF JournalInv
<1> QED BY <1>13, AuditEnd

LEMMA CommitInv ==
    ASSUME AuditInv, NEW r \in Request, Commit(r)
    PROVE  AuditInv'
<1> DEFINE h == [reqs[r] EXCEPT !.phase = "ok"]
           x == [id |-> reqs[r].id, org |-> reqs[r].org, by |-> r]
<1>1. JournalInv(lastId, events, changes, reqs) /\ reqs[r].phase = "recorded"
  BY AuditInvIs DEF Commit
<1>2. PICK g \in Handler : g = reqs[r]
  BY <1>1 DEF JournalInv
<1>3. h \in Handler /\ h.phase = "ok" /\ h.way = g.way /\ h.id = g.id /\ h.org = g.org
  BY <1>2 DEF Handler, Phase
<1>4. /\ reqs' = [reqs EXCEPT ![r] = h] /\ lastId' = lastId
      /\ events' = events \cup {x} /\ changes' = changes \cup {r}
  BY DEF Commit
<1>5. HandlerInv(r, reqs[r], lastId, events, changes) /\ lastId \in Nat
  BY <1>1 DEF JournalInv
<1>6. x.by = r /\ x.id = g.id /\ x.org = g.org /\ x \in [id : 1..lastId, org : Org, by : Request]
  BY <1>1, <1>2, <1>5 DEF HandlerInv, Handler
<1> HIDE DEF h, x
<1>7. /\ reqs' \in [Request -> Handler] /\ reqs'[r] = h
      /\ \A q \in Request \ {r} : reqs'[q] = reqs[q]
  BY <1>1, <1>3, <1>4 DEF JournalInv
<1>8. HandlerInv(r, h, lastId, events', changes')
  BY <1>1, <1>2, <1>3, <1>4, <1>5, <1>6 DEF HandlerInv
<1>9. \A q \in Request \ {r} : HandlerInv(q, reqs[q], lastId, events', changes')
  <2>1. \A e \in events' \ events : e.by = r
    BY <1>4, <1>6
  <2> QED BY <1>1, <1>4, <2>1, Others DEF JournalInv
<1>10. \A p, q \in Request : p # q /\ reqs'[p].id = reqs'[q].id => reqs'[p].id = 0
  BY <1>1, <1>2, <1>3, <1>7 DEF JournalInv
<1>12. \A p \in Request : HandlerInv(p, reqs'[p], lastId, events', changes')
  BY <1>7, <1>8, <1>9
<1>13. /\ events' \subseteq [id : 1..lastId, org : Org, by : Request]
       /\ changes' \subseteq Request
       /\ \A e \in events' : e.by \in changes'
  BY <1>1, <1>4, <1>6 DEF JournalInv
<1>11. JournalInv(lastId', events', changes', reqs')
  BY <1>4, <1>5, <1>7, <1>10, <1>12, <1>13 DEF JournalInv
<1> QED BY <1>11, AuditEnd

LEMMA AbortInv ==
    ASSUME AuditInv, NEW r \in Request, Abort(r)
    PROVE  AuditInv'
<1> DEFINE h == [reqs[r] EXCEPT !.phase = "error"]
<1>1. JournalInv(lastId, events, changes, reqs) /\ reqs[r].phase \in {"changed", "recorded"}
  BY AuditInvIs DEF Abort
<1>2. PICK g \in Handler : g = reqs[r]
  BY <1>1 DEF JournalInv
<1>3. h \in Handler /\ h.phase = "error" /\ h.way = g.way /\ h.id = g.id /\ h.org = g.org
  BY <1>2 DEF Handler, Phase
<1>4. reqs' = [reqs EXCEPT ![r] = h] /\ UNCHANGED <<lastId, events, changes>>
  BY DEF Abort
<1> HIDE DEF h
<1>5. /\ reqs' \in [Request -> Handler] /\ reqs'[r] = h
      /\ \A q \in Request \ {r} : reqs'[q] = reqs[q]
  BY <1>1, <1>3, <1>4 DEF JournalInv
<1>6. HandlerInv(r, reqs[r], lastId, events, changes)
  BY <1>1 DEF JournalInv
<1>7. HandlerInv(r, h, lastId, events, changes)
  BY <1>1, <1>2, <1>3, <1>6 DEF HandlerInv
<1>8. \A p, q \in Request : p # q /\ reqs'[p].id = reqs'[q].id => reqs'[p].id = 0
  BY <1>1, <1>2, <1>3, <1>5 DEF JournalInv
<1>9. JournalInv(lastId', events', changes', reqs')
  BY <1>1, <1>4, <1>5, <1>7, <1>8 DEF JournalInv
<1> QED BY <1>9, AuditEnd

\* AuditInv is inductive.
LEMMA AuditStep ==
    ASSUME AuditInv, [JournalNext]_journal
    PROVE  AuditInv'
<1>1. CASE UNCHANGED journal
  BY <1>1, AuditInvIs, AuditEnd DEF journal
<1> QED BY <1>1, ChangeInv, RecordInv, CommitInv, AbortInv DEF JournalNext

\* The inductive invariant of the journal: what a handler has written by now
\* follows from its phase, and an id that was drawn belongs to one handler.
THEOREM JournalInvariant == Spec => []AuditInv
<1>1. Init => AuditInv
  <2> SUFFICES ASSUME Init PROVE AuditInv
    OBVIOUS
  <2>1. PICK o \in Org : reqs = [r \in Request |-> [phase |-> "idle", way |-> "tx", org |-> o, id |-> 0]]
    BY DEF Init, JournalInit
  <2>2. lastId = 0 /\ events = {} /\ changes = {}
    BY DEF Init, JournalInit
  <2>3. [phase |-> "idle", way |-> "tx", org |-> o, id |-> 0] \in Handler
    BY DEF Handler, Phase, Way
  <2>4. JournalInv(lastId, events, changes, reqs)
    BY <2>1, <2>2, <2>3 DEF JournalInv, HandlerInv
  <2> QED BY <2>4, AuditInvIs
<1>2. AuditInv /\ [Next]_vars => AuditInv'
  BY PageKeepsJournal, AuditStep
<1> QED BY <1>1, <1>2, PTL DEF Spec

\* A request answered without an error left its change and its event, no event
\* reports a change that was rolled back, and a transaction leaves both or neither.
THEOREM EventsAreTrue == Spec => []EventsTellWhatHappened
<1>1. AuditInv => EventsTellWhatHappened
  BY DEF AuditInv
<1> QED BY <1>1, JournalInvariant, PTL

-----------------------------------------------------------------------------
(***************************************************************************)
(* Lists of events.  What ORDER BY id DESC and LIMIT do to rows whose ids  *)
(* differ: a rank is a bijection to the places of the list.                *)
(***************************************************************************)
\* What is asked of the rows of a query: they are many, and no id is there twice.
Rows(R) ==
    /\ IsFiniteSet(R)
    /\ \A e \in R : e.id \in Nat
    /\ \A e, f \in R : e.id = f.id => e = f

LEMMA RankOrder ==
    ASSUME NEW R, Rows(R)
    PROVE  /\ Cardinality(R) \in Nat
           /\ \A e \in R : Rank(R, e) \in 0..(Cardinality(R) - 1)
           /\ \A e, f \in R : e.id > f.id => Rank(R, e) < Rank(R, f)
<1> DEFINE Before(e) == {f \in R : f.id > e.id}
<1>1. Cardinality(R) \in Nat
  BY FS_CardinalityType DEF Rows
<1>2. ASSUME NEW e \in R
      PROVE  /\ IsFiniteSet(Before(e)) /\ Rank(R, e) = Cardinality(Before(e))
             /\ Rank(R, e) \in Nat /\ Rank(R, e) < Cardinality(R)
  <2>1. Before(e) \in SUBSET R /\ Before(e) # R
    BY DEF Rows
  <2>2. /\ IsFiniteSet(Before(e)) /\ Cardinality(Before(e)) <= Cardinality(R)
        /\ Cardinality(Before(e)) # Cardinality(R)
    BY <2>1, FS_Subset DEF Rows
  <2>3. Cardinality(Before(e)) \in Nat
    BY <2>2, FS_CardinalityType
  <2> QED BY <1>1, <2>2, <2>3 DEF Rank
<1>3. ASSUME NEW e \in R, NEW f \in R, e.id > f.id
      PROVE  Rank(R, e) < Rank(R, f)
  <2>1. Before(e) \in SUBSET Before(f) /\ Before(e) # Before(f)
    <3>1. e \in Before(f) /\ e \notin Before(e)
      BY <1>3 DEF Rows
    <3>2. Before(e) \subseteq Before(f)
      BY <1>3 DEF Rows
    <3> QED BY <3>1, <3>2
  <2>2. Cardinality(Before(e)) <= Cardinality(Before(f)) /\ Cardinality(Before(e)) # Cardinality(Before(f))
    <3>1. IsFiniteSet(Before(f))
      BY <1>2
    <3> HIDE DEF Before
    <3> QED BY <2>1, <3>1, FS_Subset
  <2>3. /\ Rank(R, e) = Cardinality(Before(e)) /\ Rank(R, e) \in Nat
        /\ Rank(R, f) = Cardinality(Before(f)) /\ Rank(R, f) \in Nat
    BY <1>2
  <2> HIDE DEF Before
  <2> QED BY <2>2, <2>3
<1>4. \A e \in R : Rank(R, e) \in 0..(Cardinality(R) - 1)
  <2> SUFFICES ASSUME NEW e \in R PROVE Rank(R, e) \in 0..(Cardinality(R) - 1)
    OBVIOUS
  <2>1. Rank(R, e) \in Nat /\ Rank(R, e) < Cardinality(R)
    BY <1>2
  <2> QED BY <1>1, <2>1
<1> QED BY <1>1, <1>3, <1>4

\* Every rank is that of exactly one row.
LEMMA RankBijection ==
    ASSUME NEW R, Rows(R)
    PROVE  /\ \A e, f \in R : Rank(R, e) = Rank(R, f) => e = f
           /\ \A k \in 0..(Cardinality(R) - 1) : \E e \in R : Rank(R, e) = k
<1> DEFINE T == 0..(Cardinality(R) - 1)
           rank == [e \in R |-> Rank(R, e)]
<1>1. \A e, f \in R : Rank(R, e) = Rank(R, f) => e = f
  <2> SUFFICES ASSUME NEW e \in R, NEW f \in R, e # f PROVE Rank(R, e) # Rank(R, f)
    OBVIOUS
  <2>1. e.id > f.id \/ f.id > e.id
    BY DEF Rows
  <2>2. Rank(R, e) < Rank(R, f) \/ Rank(R, f) < Rank(R, e)
    BY <2>1, RankOrder
  <2>3. Rank(R, e) \in Int /\ Rank(R, f) \in Int
    BY RankOrder
  <2> QED BY <2>2, <2>3
<1>2. rank \in Injection(R, T)
  BY <1>1, RankOrder DEF Injection, IsInjective
<1>3. IsFiniteSet(T) /\ Cardinality(T) = Cardinality(R)
  <2>1. Cardinality(R) \in Nat
    BY RankOrder
  <2>2. 0 \in Int /\ Cardinality(R) - 1 \in Int
    BY <2>1
  <2>3. IsFiniteSet(T) /\ Cardinality(T) = IF 0 > Cardinality(R) - 1 THEN 0 ELSE Cardinality(R) - 1 - 0 + 1
    BY <2>2, FS_Interval
  <2> HIDE DEF T
  <2> QED BY <2>1, <2>3
<1>4. rank \in Surjection(R, T)
  <2> HIDE DEF T, rank
  <2> QED BY <1>2, <1>3, FS_Injection
<1>5. \A k \in T : \E e \in R : rank[e] = k
  BY <1>4 DEF Surjection
<1> QED BY <1>1, <1>5

\* The list of some rows is all of them, from the newest to the oldest.
LEMMA NewestFirstLists ==
    ASSUME NEW R, Rows(R)
    PROVE  LET s == NewestFirst(R)
           IN  /\ s \in Seq(R) /\ Len(s) = Cardinality(R) /\ Len(s) \in Nat
               /\ \A i, j \in DOMAIN s : i < j => s[i].id > s[j].id
               /\ \A e \in R : e \in ToSet(s)
<1> DEFINE n == Cardinality(R)
           s == NewestFirst(R)
<1>1. n \in Nat
  BY RankOrder
<1>2. \A i \in 1..n : i - 1 \in 0..(n - 1)
  BY <1>1
<1>3. ASSUME NEW i \in 1..n PROVE s[i] \in R /\ Rank(R, s[i]) = i - 1
  <2>1. \E e \in R : Rank(R, e) = i - 1
    BY <1>2, RankBijection
  <2>2. s[i] = CHOOSE e \in R : Rank(R, e) = i - 1
    BY DEF NewestFirst
  <2> QED BY <2>1, <2>2
<1>4. s \in [1..n -> R]
  BY <1>3 DEF NewestFirst
<1> HIDE DEF s, n
<1>5. s \in Seq(R) /\ Len(s) = n /\ DOMAIN s = 1..n
  BY <1>1, <1>4
<1>6. ASSUME NEW i \in 1..n, NEW j \in 1..n, i < j
      PROVE  s[i].id > s[j].id
  <2>1. s[i] \in R /\ s[j] \in R /\ Rank(R, s[i]) < Rank(R, s[j])
    BY <1>1, <1>3, <1>6
  <2>2. ~(s[j].id > s[i].id)
    <3>1. s[j].id > s[i].id => Rank(R, s[j]) < Rank(R, s[i])
      BY <2>1, RankOrder
    <3>2. Rank(R, s[i]) \in Int /\ Rank(R, s[j]) \in Int
      BY <2>1, RankOrder
    <3> QED BY <2>1, <3>1, <3>2
  <2>3. s[i].id # s[j].id
    <3>1. s[i] # s[j]
      <4>1. Rank(R, s[i]) \in Int
        BY <2>1, RankOrder
      <4> QED BY <2>1, <4>1
    <3> QED BY <2>1, <3>1 DEF Rows
  <2> QED BY <2>1, <2>2, <2>3 DEF Rows
<1>7. ASSUME NEW e \in R PROVE e \in ToSet(s)
  <2>1. PICK k \in 0..(n - 1) : k = Rank(R, e)
    BY RankOrder DEF n
  <2>2. k + 1 \in 1..n
    BY <1>1
  <2>3. s[k + 1] \in R /\ Rank(R, s[k + 1]) = k
    BY <1>3, <2>2
  <2>4. s[k + 1] = e
    BY <2>1, <2>3, RankBijection
  <2> QED BY <1>5, <2>2, <2>4 DEF ToSet
<1> QED BY <1>1, <1>5, <1>6, <1>7 DEF s, n

\* Rows that are newest among some others are as many as there may be.
LEMMA NewestRows ==
    ASSUME NEW R, Rows(R), NEW limit \in Nat \ {0}
    PROVE  LET P == {e \in R : Rank(R, e) < limit}
           IN  /\ Rows(P) /\ Cardinality(P) \in Nat /\ Cardinality(P) <= limit
               /\ Cardinality(P) # limit => P = R
               /\ \A e \in P, f \in R : f.id >= e.id => f \in P
<1> DEFINE P == {e \in R : Rank(R, e) < limit}
           T == 0..(limit - 1)
           rank == [e \in P |-> Rank(R, e)]
<1>1. Rows(P)
  BY FS_Subset DEF Rows
<1>2. \A e \in R : Rank(R, e) \in Nat
  BY RankOrder
<1>3. rank \in Injection(P, T)
  <2>1. \A e \in P : rank[e] \in T
    BY <1>2
  <2>2. \A e, f \in P : rank[e] = rank[f] => e = f
    BY RankBijection
  <2> QED BY <2>1, <2>2 DEF Injection, IsInjective
<1>4. IsFiniteSet(T) /\ Cardinality(T) = limit
  <2>1. 0 \in Int /\ limit - 1 \in Int
    OBVIOUS
  <2>2. IsFiniteSet(T) /\ Cardinality(T) = IF 0 > limit - 1 THEN 0 ELSE limit - 1 - 0 + 1
    BY <2>1, FS_Interval
  <2> HIDE DEF T
  <2> QED BY <2>2
<1>5. /\ Cardinality(P) <= limit /\ Cardinality(P) \in Nat
      /\ Cardinality(P) = limit <=> rank \in Surjection(P, T)
  <2> HIDE DEF P, T, rank
  <2> QED BY <1>3, <1>4, FS_Injection, FS_CardinalityType
<1>6. ASSUME NEW e \in R, e \notin P PROVE rank \in Surjection(P, T)
  <2>1. Rank(R, e) >= limit /\ Rank(R, e) \in 0..(Cardinality(R) - 1) /\ Cardinality(R) \in Nat
    BY <1>6, RankOrder
  <2>2. ASSUME NEW k \in T PROVE \E f \in P : rank[f] = k
    <3>1. k \in 0..(Cardinality(R) - 1) /\ k < limit
      BY <2>1
    <3>2. PICK f \in R : Rank(R, f) = k
      BY <3>1, RankBijection
    <3> QED BY <3>1, <3>2
  <2>3. rank \in [P -> T]
    BY <1>3 DEF Injection
  <2> QED BY <2>2, <2>3 DEF Surjection
<1>7. ASSUME NEW e \in P, NEW f \in R, f.id >= e.id PROVE f \in P
  <2>1. e.id = f.id => e = f
    BY DEF Rows
  <2>2. f.id > e.id => Rank(R, f) < Rank(R, e)
    BY RankOrder
  <2>3. f.id > e.id \/ e.id = f.id
    BY <1>7 DEF Rows
  <2> QED BY <1>2, <2>1, <2>2, <2>3
<1> QED BY <1>1, <1>5, <1>6, <1>7

\* The committed events are rows of the table.
LEMMA EventsAreRows ==
    ASSUME AuditInv
    PROVE  Rows(events)
<1>1. JournalInv(lastId, events, changes, reqs)
  BY AuditInvIs
<1>2. /\ lastId \in Nat
      /\ \A e \in events : e.id \in 1..lastId
  BY <1>1 DEF JournalInv
<1>3. ASSUME NEW e \in events, NEW f \in events, e.id = f.id PROVE e = f
  <2>1. e \in [id : 1..lastId, org : Org, by : Request] /\ f \in [id : 1..lastId, org : Org, by : Request]
    BY <1>1 DEF JournalInv
  <2>2. /\ e.id = reqs[e.by].id /\ e.org = reqs[e.by].org
        /\ f.id = reqs[f.by].id /\ f.org = reqs[f.by].org
    BY <1>1, <2>1 DEF JournalInv, HandlerInv
  <2>3. e.by = f.by
    <3>1. e.by \in Request /\ f.by \in Request /\ e.id # 0
      BY <1>2, <2>1
    <3>2. reqs[e.by].id = reqs[f.by].id /\ reqs[e.by].id # 0
      BY <1>3, <2>2, <3>1
    <3>3. \A r, q \in Request : r # q /\ reqs[r].id = reqs[q].id => reqs[r].id = 0
      BY <1>1 DEF JournalInv
    <3> QED BY <3>1, <3>2, <3>3
  <2> QED BY <1>3, <2>1, <2>2, <2>3
<1>4. IsFiniteSet(events)
  <2> DEFINE id == [e \in events |-> e.id]
  <2>1. id \in Injection(events, 1..lastId)
    BY <1>2, <1>3 DEF Injection, IsInjective
  <2>2. IsFiniteSet(1..lastId)
    BY <1>2, FS_Interval
  <2> HIDE DEF id
  <2> QED BY <2>1, <2>2, FS_Injection
<1> QED BY <1>2, <1>3, <1>4 DEF Rows

LEMMA LimitType == ClampLimit(PageLimit) \in 1..MaxLimit
BY AuditConstants, AuditPageConstants DEF ClampLimit

\* What list_events answers: a list without a hole of what is older than the
\* cursor, no longer than the limit.
LEMMA ServedPage ==
    ASSUME AuditInv, NEW o \in Org, NEW before \in 0..lastId
    PROVE  LET limit == ClampLimit(PageLimit)
               list == NewestFirst(PageOf(o, before, limit))
               older == {e \in {f \in events : f.org = o} : IsBefore(e, before)}
           IN  /\ list \in Seq(older) /\ Len(list) <= MaxLimit
               /\ NextBefore(list, limit) \in 0..lastId
               /\ NoHole(list, NextBefore(list, limit), older)
<1> DEFINE limit == ClampLimit(PageLimit)
           older == {e \in {f \in events : f.org = o} : IsBefore(e, before)}
           P == {e \in older : Rank(older, e) < limit}
           list == NewestFirst(P)
           next1 == NextBefore(list, limit)
<1>1. limit \in Nat \ {0} /\ limit <= MaxLimit /\ MaxLimit \in Nat
  BY LimitType, AuditConstants
<1>2. Rows(older)
  <2>1. Rows(events) /\ older \in SUBSET events
    BY EventsAreRows
  <2> QED BY <2>1, FS_Subset DEF Rows
<1>3. P = PageOf(o, before, limit)
  <2>1. older = {e \in events : e.org = o /\ IsBefore(e, before)}
    OBVIOUS
  <2> HIDE DEF older
  <2> QED BY <2>1 DEF PageOf
<1>4. lastId \in Nat /\ \A e \in older : e.id \in 1..lastId
  BY AuditInvIs DEF JournalInv
<1> HIDE DEF limit, older
<1>5. /\ Rows(P) /\ Cardinality(P) \in Nat /\ Cardinality(P) <= limit
      /\ Cardinality(P) # limit => P = older
      /\ \A e \in P, f \in older : f.id >= e.id => f \in P
  BY <1>1, <1>2, NewestRows
<1>6. P \subseteq older
  OBVIOUS
<1> HIDE DEF P
<1>7. /\ list \in Seq(P) /\ Len(list) = Cardinality(P) /\ Len(list) \in Nat
      /\ \A i, j \in DOMAIN list : i < j => list[i].id > list[j].id
      /\ \A e \in P : e \in ToSet(list)
  BY <1>5, NewestFirstLists
<1> HIDE DEF list
<1>8. next1 = IF Len(list) = limit THEN list[Len(list)].id ELSE 0
  BY DEF NextBefore
<1>9. list \in Seq(older)
  BY <1>6, <1>7
<1>10. Len(list) = limit => list # <<>> /\ list[Len(list)] \in P
  BY <1>1, <1>7
<1>11. next1 \in 0..lastId
  BY <1>4, <1>6, <1>8, <1>10
<1>12. next1 # 0 => list # <<>> /\ next1 = list[Len(list)].id
  BY <1>8, <1>10
<1>13. ASSUME NEW e \in older, next1 # 0 => e.id >= next1 PROVE e \in ToSet(list)
  <2>1. CASE Len(list) = limit
    <3>1. list[Len(list)] \in P /\ next1 = list[Len(list)].id /\ next1 # 0
      BY <1>4, <1>6, <1>8, <1>10, <2>1
    <3>2. e \in P
      BY <1>5, <1>13, <3>1
    <3> QED BY <1>7, <3>2
  <2>2. CASE Len(list) # limit
    BY <1>5, <1>7, <2>2
  <2> QED BY <2>1, <2>2
<1> HIDE DEF next1
<1>14. NoHole(list, next1, older)
  BY <1>7, <1>12, <1>13 DEF NoHole
<1>15. Len(list) <= MaxLimit
  BY <1>1, <1>5, <1>7
<1> QED BY <1>3, <1>9, <1>11, <1>14, <1>15 DEF limit, older, P, list, next1

\* The events of a list.
LEMMA ListRange ==
    ASSUME NEW S, NEW list \in Seq(S)
    PROVE  \A e \in ToSet(list) : e \in S
BY DEF ToSet

\* A page behind a list without a hole makes a list without a hole.
LEMMA NoHoleAppend ==
    ASSUME NEW E, \A e \in E : e.id \in Nat,
           NEW list \in Seq(E), NEW cursor \in Nat \ {0}, NEW of, of \subseteq E,
           NoHole(list, cursor, of),
           NEW J \in SUBSET E, of \subseteq J,
           NEW more \in Seq({e \in J : IsBefore(e, cursor)}), NEW further \in Nat,
           NoHole(more, further, {e \in J : IsBefore(e, cursor)})
    PROVE  NoHole(list \o more, further, of)
<1> DEFINE B == {e \in J : IsBefore(e, cursor)}
           s == list \o more
<1>1. /\ list # <<>> /\ cursor = list[Len(list)].id
      /\ \A i, j \in 1..Len(list) : i < j => list[i].id > list[j].id
      /\ \A e \in of : e.id >= cursor => e \in ToSet(list)
  BY DEF NoHole
<1>2. /\ further # 0 => more # <<>> /\ further = more[Len(more)].id
      /\ \A i, j \in 1..Len(more) : i < j => more[i].id > more[j].id
      /\ \A e \in B : (further # 0 => e.id >= further) => e \in ToSet(more)
  BY DEF NoHole
<1>3. more \in Seq(B) /\ \A e \in B : e \in E /\ e.id < cursor
  BY DEF IsBefore
<1>8. \A e \in J : e.id < cursor => e \in B
  BY DEF IsBefore
<1> HIDE DEF B
<1>4. /\ s \in Seq(E) /\ Len(s) = Len(list) + Len(more) /\ Len(list) \in Nat /\ Len(more) \in Nat
      /\ \A i \in 1..Len(list) : s[i] = list[i]
      /\ \A i \in (Len(list) + 1)..Len(s) :
            i - Len(list) \in 1..Len(more) /\ s[i] = more[i - Len(list)]
      /\ DOMAIN s = 1..Len(s)
  <2>1. more \in Seq(E)
    BY <1>3
  <2> QED BY <2>1
<1> HIDE DEF s
<1>5. \A i \in 1..Len(list) : list[i].id \in Nat /\ list[i].id >= cursor
  <2> SUFFICES ASSUME NEW i \in 1..Len(list) PROVE list[i].id \in Nat /\ list[i].id >= cursor
    OBVIOUS
  <2>1. list[i] \in E /\ Len(list) \in 1..Len(list) /\ (i = Len(list) \/ i < Len(list))
    BY <1>1, <1>4
  <2> QED BY <1>1, <2>1
<1>6. \A i \in 1..Len(more) : more[i].id \in Nat /\ more[i].id < cursor
  BY <1>3
<1>7. ASSUME NEW i \in 1..Len(s), NEW j \in 1..Len(s), i < j
      PROVE  s[i].id > s[j].id
  <2>1. CASE j \in 1..Len(list)
    <3>1. i \in 1..Len(list)
      BY <1>4, <1>7, <2>1
    <3> QED BY <1>1, <1>4, <1>7, <2>1, <3>1
  <2>2. CASE i \in 1..Len(list) /\ j \in (Len(list) + 1)..Len(s)
    <3>1. s[i].id >= cursor /\ s[j].id < cursor /\ s[i].id \in Nat /\ s[j].id \in Nat
      BY <1>4, <1>5, <1>6, <2>2
    <3> QED BY <3>1
  <2>3. CASE i \in (Len(list) + 1)..Len(s) /\ j \in (Len(list) + 1)..Len(s)
    <3>1. PICK a \in 1..Len(more), b \in 1..Len(more) :
            a = i - Len(list) /\ b = j - Len(list) /\ s[i] = more[a] /\ s[j] = more[b]
      BY <1>4, <2>3
    <3>2. a < b
      BY <1>4, <1>7, <3>1
    <3> QED BY <1>2, <3>1, <3>2
  <2> QED BY <1>4, <1>7, <2>1, <2>2, <2>3
<1>9. further # 0 => s # <<>> /\ further = s[Len(s)].id
  <2> SUFFICES ASSUME further # 0 PROVE s # <<>> /\ further = s[Len(s)].id
    OBVIOUS
  <2>1. more # <<>> /\ further = more[Len(more)].id
    BY <1>2
  <2>2. Len(more) > 0
    BY <1>3, <2>1
  <2>3. Len(s) \in (Len(list) + 1)..Len(s) /\ Len(s) - Len(list) = Len(more)
    BY <1>4, <2>2
  <2>4. s[Len(s)] = more[Len(more)]
    BY <1>4, <2>3
  <2> QED BY <1>4, <2>1, <2>2, <2>4
<1>10. ASSUME NEW e \in of, further # 0 => e.id >= further
       PROVE  e \in ToSet(s)
  <2>1. CASE e.id >= cursor
    <3>1. PICK i \in 1..Len(list) : list[i] = e
      BY <1>1, <2>1 DEF ToSet
    <3>2. i \in DOMAIN s /\ s[i] = e
      BY <1>4, <3>1
    <3> QED BY <3>2 DEF ToSet
  <2>2. CASE e.id < cursor
    <3>1. e \in B
      BY <1>8, <2>2
    <3>2. PICK i \in 1..Len(more) : more[i] = e
      BY <1>2, <1>10, <3>1 DEF ToSet
    <3>3. /\ i + Len(list) \in (Len(list) + 1)..Len(s) /\ (i + Len(list)) - Len(list) = i
          /\ i + Len(list) \in DOMAIN s
      BY <1>4, <3>2
    <3>4. s[i + Len(list)] = e
      BY <1>4, <3>2, <3>3
    <3> QED BY <3>3, <3>4 DEF ToSet
  <2> QED BY <2>1, <2>2
<1>11. NoHole(s, further, of)
  BY <1>4, <1>7, <1>9, <1>10 DEF NoHole
<1> QED BY <1>11 DEF s

-----------------------------------------------------------------------------
(***************************************************************************)
(* The page.  PageOK is PageInv for a page given by its parts.             *)
(***************************************************************************)
LoadOK(load, E, last) ==
    /\ load.state \in {"sent", "answered"}
    /\ load.org \in Org /\ load.before \in 0..last
    /\ load.state = "answered" =>
         /\ load.journal \subseteq {e \in E : e.org = load.org}
         /\ load.events \in Seq({e \in load.journal : IsBefore(e, load.before)})
         /\ Len(load.events) <= MaxLimit
         /\ load.next \in 0..last
         /\ NoHole(load.events, load.next, {e \in load.journal : IsBefore(e, load.before)})

TableOK(o, list, cursor, first, E) ==
    /\ first \subseteq {e \in E : e.org = o}
    /\ \A i \in DOMAIN list : list[i].org = o
    /\ NoHole(list, cursor, first)

\* The load in slot l is the only one, and for the table.
OnlyLoad(l, L, o, cursor, first) ==
    /\ L[l].org = o /\ L[l].before \in {0, cursor}
    /\ L[l].state = "answered" /\ L[l].before # 0 => first \subseteq L[l].journal
    /\ \A k \in Slot : L[k] # NoLoad => k = l

PageOK(o, list, cursor, b, L, first, over, E, last) ==
    /\ o \in Org /\ cursor \in 0..last /\ b \in BOOLEAN /\ over \in BOOLEAN
    /\ first \subseteq E /\ list \in Seq(E)
    /\ DOMAIN L = Slot
    /\ \A l \in Slot : L[l] # NoLoad => LoadOK(L[l], E, last)
    /\ b => \E l \in Slot : L[l] # NoLoad
    /\ ~over => /\ TableOK(o, list, cursor, first, E)
                /\ \A l \in Slot : L[l] # NoLoad => b /\ OnlyLoad(l, L, o, cursor, first)

LEMMA PageInvIs ==
    ASSUME PageInv
    PROVE  /\ JournalTypeOK
           /\ PageOK(org, shown, next, busy, loads, asOf, overlapped, events, lastId)
<1>1. InFlight = {l \in Slot : loads[l] # NoLoad}
  BY DEF InFlight, Free
<1>2. /\ JournalTypeOK /\ org \in Org /\ next \in 0..lastId /\ busy \in BOOLEAN
      /\ overlapped \in BOOLEAN /\ asOf \subseteq events /\ shown \in Seq(events) /\ DOMAIN loads = Slot
  BY DEF PageInv, TypeOK
<1>3. \A l \in Slot : loads[l] # NoLoad => LoadOK(loads[l], events, lastId)
  BY <1>1 DEF PageInv, LoadInv, LoadOK
<1>4. /\ busy => \E l \in Slot : loads[l] # NoLoad
      /\ ~overlapped => \A l \in Slot : loads[l] # NoLoad => busy
  BY <1>1 DEF PageInv, BusyMeansLoading
<1>5. ~overlapped => /\ TableOK(org, shown, next, asOf, events)
                     /\ \A l \in Slot : loads[l] # NoLoad => OnlyLoad(l, loads, org, next, asOf)
  BY <1>1 DEF PageInv, TableOK, OnlyLoad
<1> QED BY <1>2, <1>3, <1>4, <1>5 DEF PageOK

LEMMA PageEnd ==
    ASSUME JournalTypeOK',
           PageOK(org', shown', next', busy', loads', asOf', overlapped', events', lastId')
    PROVE  PageInv'
<1>1. InFlight' = {l \in Slot : loads'[l] # NoLoad}
  BY DEF InFlight, Free
<1>2. /\ org' \in Org /\ next' \in 0..lastId' /\ busy' \in BOOLEAN
      /\ overlapped' \in BOOLEAN /\ asOf' \subseteq events' /\ shown' \in Seq(events')
      /\ DOMAIN loads' = Slot
  BY DEF PageOK
<1>3. \A l \in Slot : loads'[l] # NoLoad => LoadOK(loads'[l], events', lastId')
  BY DEF PageOK
<1>4. TypeOK'
  <2>1. ToSet(shown') \subseteq events'
    BY <1>2, ListRange
  <2>2. ASSUME NEW l \in Slot
        PROVE  /\ loads'[l].state \in {"none", "sent", "answered"}
               /\ loads'[l].state = "answered" => Len(loads'[l].events) <= MaxLimit
    <3>1. CASE loads'[l] = NoLoad
      BY <3>1 DEF NoLoad
    <3>2. CASE loads'[l] # NoLoad
      BY <1>3, <3>2 DEF LoadOK
    <3> QED BY <3>1, <3>2
  <2> QED BY <1>2, <2>1, <2>2 DEF TypeOK
<1>5. /\ busy' => InFlight' # {}
      /\ ~overlapped' => \A l \in InFlight' : busy'
  BY <1>1 DEF PageOK
<1>6. BusyMeansLoading'
  BY <1>2, <1>5 DEF BusyMeansLoading
<1>7. \A l \in InFlight' : LoadInv(loads[l])'
  BY <1>1, <1>3 DEF LoadInv, LoadOK
<1>8. ~overlapped' =>
         /\ asOf' \subseteq {e \in events' : e.org = org'}
         /\ \A i \in DOMAIN shown' : shown'[i].org = org'
         /\ NoHole(shown', next', asOf')
         /\ \A l \in InFlight' :
               /\ loads'[l].org = org' /\ loads'[l].before \in {0, next'}
               /\ loads'[l].state = "answered" /\ loads'[l].before # 0
                    => asOf' \subseteq loads'[l].journal
               /\ \A k \in InFlight' : k = l
  BY <1>1 DEF PageOK, TableOK, OnlyLoad
<1> QED BY <1>2, <1>4, <1>6, <1>7, <1>8 DEF PageInv

\* What is asked of the page stays true while the journal grows.
LEMMA JournalGrows ==
    ASSUME NEW o, NEW list, NEW cursor, NEW b, NEW L, NEW first, NEW over,
           NEW E, NEW E2, E \subseteq E2, NEW last \in Nat, NEW last2 \in Nat, last <= last2,
           PageOK(o, list, cursor, b, L, first, over, E, last)
    PROVE  PageOK(o, list, cursor, b, L, first, over, E2, last2)
<1>1. \A load : LoadOK(load, E, last) => LoadOK(load, E2, last2)
  BY DEF LoadOK
<1>2. TableOK(o, list, cursor, first, E) => TableOK(o, list, cursor, first, E2)
  BY DEF TableOK
<1>3. list \in Seq(E2) /\ cursor \in 0..last2
  BY DEF PageOK
<1> QED BY <1>1, <1>2, <1>3 DEF PageOK

LEMMA JournalOnlyGrows ==
    ASSUME JournalTypeOK, JournalNext
    PROVE  events \subseteq events' /\ lastId' \in Nat /\ lastId <= lastId'
<1>1. lastId \in Nat
  BY DEF JournalTypeOK
<1> QED BY <1>1 DEF JournalNext, Change, Record, Commit, Abort

\* A load begins: the page is for the table that the step leaves.
LEMMA LoadBegins ==
    ASSUME PageOK(org, shown, next, busy, loads, asOf, overlapped, events, lastId),
           lastId \in Nat,
           NEW o \in Org, NEW list \in Seq(events), NEW cursor \in 0..lastId,
           NEW first \in SUBSET events, NEW before \in {0, cursor},
           ~overlapped => TableOK(o, list, cursor, first, events),
           Load(o, before)
    PROVE  PageOK(o, list, cursor, busy', loads', first, overlapped', events, lastId)
<1> DEFINE s == CHOOSE l \in Free : TRUE
<1>1. s \in Slot /\ loads[s] = NoLoad
  BY DEF Load, Free
<1>2. /\ loads' = [loads EXCEPT ![s] = Sent(o, before)]
      /\ busy' = TRUE /\ overlapped' = (overlapped \/ InFlight # {})
  BY DEF Load
<1> HIDE DEF s
<1>3. /\ DOMAIN loads' = Slot /\ loads'[s] = Sent(o, before)
      /\ \A l \in Slot : l # s => loads'[l] = loads[l]
  BY <1>1, <1>2 DEF PageOK
<1>4. Sent(o, before) # NoLoad /\ LoadOK(Sent(o, before), events, lastId)
  BY DEF Sent, NoLoad, LoadOK
<1>5. \A l \in Slot : loads'[l] # NoLoad => LoadOK(loads'[l], events, lastId)
  BY <1>3, <1>4 DEF PageOK
<1>6. ASSUME ~overlapped', NEW l \in Slot, loads'[l] # NoLoad
      PROVE  OnlyLoad(l, loads', o, cursor, first)
  <2>1. \A k \in Slot : loads[k] = NoLoad
    BY <1>2, <1>6 DEF InFlight, Free
  <2>2. l = s /\ \A k \in Slot : loads'[k] # NoLoad => k = s
    BY <1>3, <1>6, <2>1
  <2>3. /\ loads'[l].org = o /\ loads'[l].before = before /\ loads'[l].state = "sent"
    BY <1>3, <2>2 DEF Sent
  <2> QED BY <2>2, <2>3 DEF OnlyLoad
<1>7. overlapped' \in BOOLEAN /\ (~overlapped' => ~overlapped)
  BY <1>2 DEF PageOK
<1> QED BY <1>1, <1>2, <1>3, <1>4, <1>5, <1>6, <1>7 DEF PageOK

\* A table with nothing in it.
LEMMA EmptyTable ==
    ASSUME NEW o
    PROVE  TableOK(o, <<>>, 0, {}, events)
BY DEF TableOK, NoHole

LEMMA ReopenPage ==
    ASSUME PageOK(org, shown, next, busy, loads, asOf, overlapped, events, lastId), lastId \in Nat,
           shown' = <<>>, next' = 0, busy' = TRUE, asOf' = {}, overlapped' = FALSE,
           loads' = [l \in Slot |-> IF l = 1 THEN Sent(org, 0) ELSE NoLoad]
    PROVE  PageOK(org, shown', next', busy', loads', asOf', overlapped', events, lastId)
<1>1. 1 \in Slot /\ org \in Org
  BY AuditPageConstants DEF Slot, PageOK
<1>2. Sent(org, 0) # NoLoad /\ LoadOK(Sent(org, 0), events, lastId)
  BY <1>1 DEF Sent, NoLoad, LoadOK
<1>3. /\ DOMAIN loads' = Slot /\ loads'[1] = Sent(org, 0)
      /\ \A l \in Slot : l # 1 => loads'[l] = NoLoad
  BY <1>1
<1>4. TableOK(org, shown', next', asOf', events)
  BY EmptyTable
<1>5. \A l \in Slot : loads'[l] # NoLoad => OnlyLoad(l, loads', org, next', asOf')
  BY <1>3 DEF OnlyLoad, Sent
<1>6. shown' \in Seq(events) /\ next' \in 0..lastId
  OBVIOUS
<1>7. \A l \in Slot : loads'[l] # NoLoad => LoadOK(loads'[l], events, lastId)
  BY <1>2, <1>3
<1> QED BY <1>1, <1>2, <1>3, <1>4, <1>5, <1>6, <1>7 DEF PageOK

\* A slot whose load ends: no load is left where there was only one.
LEMMA LoadEnds ==
    ASSUME PageOK(org, shown, next, busy, loads, asOf, overlapped, events, lastId),
           NEW l \in Slot, loads[l] # NoLoad, loads' = [loads EXCEPT ![l] = NoLoad],
           NEW list \in Seq(events), NEW cursor \in 0..lastId, NEW first \in SUBSET events,
           ~overlapped => TableOK(org, list, cursor, first, events)
    PROVE  PageOK(org, list, cursor, FALSE, loads', first, overlapped, events, lastId)
<1>1. /\ DOMAIN loads' = Slot /\ loads'[l] = NoLoad
      /\ \A k \in Slot : k # l => loads'[k] = loads[k]
  BY DEF PageOK
<1>2. \A k \in Slot : loads'[k] # NoLoad => LoadOK(loads'[k], events, lastId)
  BY <1>1 DEF PageOK
<1>3. ~overlapped => \A k \in Slot : loads'[k] = NoLoad
  BY <1>1 DEF PageOK, OnlyLoad
<1> QED BY <1>1, <1>2, <1>3 DEF PageOK

\* A load that is sent or answered is one in flight.
LEMMA Loaded ==
    ASSUME PageOK(org, shown, next, busy, loads, asOf, overlapped, events, lastId),
           NEW l \in Slot, loads[l].state \in {"sent", "answered"}
    PROVE  loads[l] # NoLoad /\ LoadOK(loads[l], events, lastId)
BY DEF PageOK, NoLoad

LEMMA ServeLoad ==
    ASSUME AuditInv, NEW l \in Slot, Serve(l),
           PageOK(org, shown, next, busy, loads, asOf, overlapped, events, lastId)
    PROVE  PageOK(org, shown, next, busy, loads', asOf, overlapped, events, lastId)
<1> DEFINE limit == ClampLimit(PageLimit)
           list == NewestFirst(PageOf(loads[l].org, loads[l].before, limit))
           J == {e \in events : e.org = loads[l].org}
           answer == [state |-> "answered", org |-> loads[l].org, before |-> loads[l].before,
                      events |-> list, next |-> NextBefore(list, limit), journal |-> J]
<1>1. loads[l].state = "sent" /\ loads' = [loads EXCEPT ![l] = answer]
  BY DEF Serve
<1>2. loads[l] # NoLoad /\ loads[l].org \in Org /\ loads[l].before \in 0..lastId
  BY <1>1, Loaded DEF LoadOK
<1>3. /\ list \in Seq({e \in J : IsBefore(e, loads[l].before)}) /\ Len(list) <= MaxLimit
      /\ NextBefore(list, limit) \in 0..lastId
      /\ NoHole(list, NextBefore(list, limit), {e \in J : IsBefore(e, loads[l].before)})
  BY <1>2, ServedPage
<1> HIDE DEF list, limit
<1>4. LoadOK(answer, events, lastId)
  BY <1>2, <1>3 DEF LoadOK
<1>5. answer # NoLoad /\ answer.org = loads[l].org /\ answer.before = loads[l].before /\ answer.journal = J
  BY DEF NoLoad
<1> HIDE DEF answer
<1>6. /\ DOMAIN loads' = Slot /\ loads'[l] = answer
      /\ \A k \in Slot : k # l => loads'[k] = loads[k]
  BY <1>1 DEF PageOK
<1>7. \A k \in Slot : loads'[k] # NoLoad <=> loads[k] # NoLoad
  BY <1>2, <1>5, <1>6
<1>8. \A k \in Slot : loads'[k] # NoLoad => LoadOK(loads'[k], events, lastId)
  BY <1>4, <1>6 DEF PageOK
<1>9. ASSUME ~overlapped, NEW k \in Slot, loads'[k] # NoLoad
      PROVE  busy /\ OnlyLoad(k, loads', org, next, asOf)
  <2>1. k = l
    BY <1>2, <1>7, <1>9 DEF PageOK, OnlyLoad
  <2>2. busy /\ OnlyLoad(l, loads, org, next, asOf) /\ TableOK(org, shown, next, asOf, events)
    BY <1>2, <1>9 DEF PageOK
  <2>3. asOf \subseteq J
    BY <2>2 DEF OnlyLoad, TableOK
  <2> QED BY <1>5, <1>6, <1>7, <2>1, <2>2, <2>3 DEF OnlyLoad
<1> QED BY <1>2, <1>6, <1>7, <1>8, <1>9 DEF PageOK

LEMMA ArriveLoad ==
    ASSUME AuditInv, NEW l \in Slot, Arrive(l),
           PageOK(org, shown, next, busy, loads, asOf, overlapped, events, lastId)
    PROVE  PageOK(org, shown', next', busy', loads', asOf', overlapped', events, lastId)
<1> DEFINE load == loads[l]
<1>1. /\ load.state = "answered"
      /\ shown' = IF load.before = 0 THEN load.events ELSE shown \o load.events
      /\ next' = load.next
      /\ asOf' = IF load.before = 0 THEN load.journal ELSE asOf
      /\ busy' = FALSE /\ overlapped' = overlapped
      /\ loads' = [loads EXCEPT ![l] = NoLoad]
  BY DEF Arrive, Applied
<1>2. /\ load # NoLoad
      /\ load.journal \subseteq {e \in events : e.org = load.org}
      /\ load.events \in Seq({e \in load.journal : IsBefore(e, load.before)})
      /\ load.next \in 0..lastId
      /\ NoHole(load.events, load.next, {e \in load.journal : IsBefore(e, load.before)})
  BY <1>1, Loaded DEF LoadOK
<1>3. shown \in Seq(events) /\ asOf \subseteq events
  BY DEF PageOK
<1>4. load.events \in Seq(events)
  BY <1>2
<1>5. shown' \in Seq(events) /\ asOf' \in SUBSET events /\ next' \in 0..lastId
  BY <1>1, <1>2, <1>3, <1>4
<1>6. ASSUME ~overlapped PROVE TableOK(org, shown', next', asOf', events)
  <2>1. OnlyLoad(l, loads, org, next, asOf) /\ TableOK(org, shown, next, asOf, events)
    BY <1>2, <1>6 DEF PageOK
  <2>2. load.org = org /\ load.before \in {0, next}
    BY <2>1 DEF OnlyLoad
  <2>3. \A i \in DOMAIN load.events : load.events[i].org = org
    BY <1>2, <2>2
  <2>4. CASE load.before = 0
    <3>1. {e \in load.journal : IsBefore(e, load.before)} = load.journal
      BY <2>4 DEF IsBefore
    <3> QED BY <1>1, <1>2, <2>2, <2>3, <2>4, <3>1 DEF TableOK
  <2>5. CASE load.before # 0
    <3>1. load.before = next /\ next # 0 /\ asOf \subseteq load.journal
      BY <1>1, <2>1, <2>2, <2>5 DEF OnlyLoad
    <3>2. shown' = shown \o load.events /\ asOf' = asOf
      BY <1>1, <2>5
    <3>3. NoHole(shown, next, asOf) /\ \A i \in DOMAIN shown : shown[i].org = org
      BY <2>1 DEF TableOK
    <3>4. /\ lastId \in Nat /\ \A e \in events : e.id \in Nat
      BY AuditInvIs DEF JournalInv
    <3>5. next \in Nat \ {0} /\ load.next \in Nat
      BY <1>2, <3>1, <3>4 DEF PageOK
    <3>6. load.events \in Seq({e \in load.journal : IsBefore(e, next)})
      BY <1>2, <3>1
    <3>7. NoHole(load.events, load.next, {e \in load.journal : IsBefore(e, next)})
      BY <1>2, <3>1
    <3>8. load.journal \in SUBSET events
      BY <1>2
    <3> HIDE DEF load
    <3>9. NoHole(shown \o load.events, load.next, asOf)
      BY <1>3, <3>1, <3>3, <3>4, <3>5, <3>6, <3>7, <3>8, NoHoleAppend
    <3>10. \A i \in DOMAIN shown' : shown'[i].org = org
      BY <1>3, <1>4, <2>3, <3>2, <3>3
    <3> QED BY <1>1, <2>1, <3>2, <3>9, <3>10 DEF TableOK
  <2> QED BY <2>4, <2>5
<1> QED BY <1>1, <1>2, <1>5, <1>6, LoadEnds

LEMMA PageStep ==
    ASSUME AuditInv, AuditInv', PageInv, [Next]_vars
    PROVE  PageInv'
<1>1. /\ PageOK(org, shown, next, busy, loads, asOf, overlapped, events, lastId)
      /\ JournalTypeOK /\ JournalTypeOK' /\ lastId \in Nat
  BY PageInvIs DEF AuditInv, JournalTypeOK
<1>2. CASE UNCHANGED vars
  BY <1>1, <1>2, PageEnd DEF vars, journal, page
<1>3. CASE JournalNext /\ UNCHANGED page
  <2>1. events \subseteq events' /\ lastId' \in Nat /\ lastId <= lastId'
    BY <1>1, <1>3, JournalOnlyGrows
  <2>2. PageOK(org, shown, next, busy, loads, asOf, overlapped, events', lastId')
    BY <1>1, <2>1, JournalGrows
  <2> QED BY <1>1, <1>3, <2>2, PageEnd DEF page
<1>4. shown \in Seq(events) /\ next \in 0..lastId /\ asOf \in SUBSET events /\ org \in Org
  BY <1>1 DEF PageOK
<1>5. ~overlapped => TableOK(org, shown, next, asOf, events)
  BY <1>1 DEF PageOK
<1>6. ASSUME NEW o \in Org, SelectOrg(o) PROVE PageInv'
  <2>1. /\ org' = o /\ shown' = <<>> /\ next' = 0 /\ asOf' = {}
        /\ Load(o, 0) /\ UNCHANGED journal
    BY <1>6 DEF SelectOrg
  <2>2. <<>> \in Seq(events) /\ 0 \in 0..lastId /\ {} \in SUBSET events
    BY <1>1
  <2>3. PageOK(o, <<>>, 0, busy', loads', {}, overlapped', events, lastId)
    BY <1>1, <2>1, <2>2, EmptyTable, LoadBegins
  <2> QED BY <1>1, <2>1, <2>3, PageEnd DEF journal
<1>7. ASSUME NEW before \in {0, next}, Load(org, before),
             UNCHANGED <<journal, org, shown, next, asOf>>
      PROVE  PageInv'
  <2>1. PageOK(org, shown, next, busy', loads', asOf, overlapped', events, lastId)
    BY <1>1, <1>4, <1>5, <1>7, LoadBegins
  <2> QED BY <1>1, <1>7, <2>1, PageEnd DEF journal
<1>8. CASE Refresh
  BY <1>7, <1>8 DEF Refresh
<1>9. CASE More
  BY <1>7, <1>9 DEF More
<1>10. CASE Reopen
  <2>1. /\ shown' = <<>> /\ next' = 0 /\ busy' = TRUE /\ asOf' = {} /\ overlapped' = FALSE
        /\ loads' = [l \in Slot |-> IF l = 1 THEN Sent(org, 0) ELSE NoLoad]
        /\ UNCHANGED <<journal, org>>
    BY <1>10 DEF Reopen
  <2>2. PageOK(org, shown', next', busy', loads', asOf', overlapped', events, lastId)
    BY <1>1, <2>1, ReopenPage
  <2> QED BY <1>1, <2>1, <2>2, PageEnd DEF journal
<1>11. ASSUME NEW l \in Slot, Serve(l) PROVE PageInv'
  <2>1. PageOK(org, shown, next, busy, loads', asOf, overlapped, events, lastId)
    BY <1>1, <1>11, ServeLoad
  <2>2. UNCHANGED <<journal, org, shown, next, busy, asOf, overlapped>>
    BY <1>11 DEF Serve
  <2> QED BY <1>1, <2>1, <2>2, PageEnd DEF journal
<1>12. ASSUME NEW l \in Slot, Arrive(l) PROVE PageInv'
  <2>1. PageOK(org, shown', next', busy', loads', asOf', overlapped', events, lastId)
    BY <1>1, <1>12, ArriveLoad
  <2>2. UNCHANGED <<journal, org>>
    BY <1>12 DEF Arrive
  <2> QED BY <1>1, <2>1, <2>2, PageEnd DEF journal
<1>13. ASSUME NEW l \in Slot, LoadFails(l) PROVE PageInv'
  <2>1. /\ loads[l].state \in {"sent", "answered"}
        /\ busy' = FALSE /\ loads' = [loads EXCEPT ![l] = NoLoad]
        /\ UNCHANGED <<journal, org, shown, next, asOf, overlapped>>
    BY <1>13 DEF LoadFails, BusyAfterError
  <2>2. PageOK(org, shown, next, FALSE, loads', asOf, overlapped, events, lastId)
    BY <1>1, <1>4, <1>5, <2>1, Loaded, LoadEnds
  <2> QED BY <1>1, <2>1, <2>2, PageEnd DEF journal
<1> QED BY <1>2, <1>3, <1>6, <1>8, <1>9, <1>10, <1>11, <1>12, <1>13 DEF Next

\* The inductive invariant of the page: what it shows has no hole, what is on its
\* way has none, and while no load overlaps another the two fit together.
THEOREM PageInvariant == Spec => []PageInv
<1>1. Init => PageInv
  <2> SUFFICES ASSUME Init PROVE PageInv
    OBVIOUS
  <2>1. /\ org \in Org /\ shown = <<>> /\ next = 0 /\ busy = TRUE
        /\ loads = [l \in Slot |-> IF l = 1 THEN Sent(org, 0) ELSE NoLoad]
        /\ asOf = {} /\ overlapped = FALSE /\ lastId = 0 /\ events = {}
    BY DEF Init, JournalInit
  <2>2. JournalTypeOK
    <3>1. PICK o \in Org : reqs = [r \in Request |-> [phase |-> "idle", way |-> "tx", org |-> o, id |-> 0]]
      BY DEF Init, JournalInit
    <3>2. [phase |-> "idle", way |-> "tx", org |-> o, id |-> 0] \in Handler
      BY DEF Handler, Phase, Way
    <3>3. changes = {}
      BY DEF Init, JournalInit
    <3> QED BY <2>1, <3>1, <3>2, <3>3 DEF JournalTypeOK
  <2>3. 1 \in Slot
    BY AuditPageConstants DEF Slot
  <2>4. /\ loads[1] = Sent(org, 0) /\ Sent(org, 0) # NoLoad
        /\ \A l \in Slot : l # 1 => loads[l] = NoLoad
        /\ DOMAIN loads = Slot
    BY <2>1, <2>3 DEF Sent, NoLoad
  <2>5. InFlight = {1}
    BY <2>3, <2>4 DEF InFlight, Free
  <2>6. TypeOK
    <3>1. ToSet(shown) \subseteq events
      BY <2>1 DEF ToSet
    <3>2. \A l \in Slot : loads[l].state \in {"none", "sent"}
      BY <2>4 DEF Sent, NoLoad
    <3>3. next \in 0..lastId /\ asOf \subseteq events
      BY <2>1
    <3> QED BY <2>1, <2>2, <3>1, <3>2, <3>3 DEF TypeOK
  <2>7. BusyMeansLoading
    BY <2>1, <2>5 DEF BusyMeansLoading
  <2>8. LoadInv(loads[1])
    BY <2>1, <2>4 DEF LoadInv, Sent
  <2>9. NoHole(shown, next, asOf)
    BY <2>1 DEF NoHole
  <2>10. loads[1].org = org /\ loads[1].before = 0 /\ loads[1].state = "sent"
    BY <2>4 DEF Sent
  <2>11. shown \in Seq(events) /\ DOMAIN shown = {}
    BY <2>1
  <2>12. \A l \in InFlight : LoadInv(loads[l])
    BY <2>5, <2>8
  <2>13. /\ asOf \subseteq {e \in events : e.org = org}
         /\ \A i \in DOMAIN shown : shown[i].org = org
         /\ \A l \in InFlight :
               /\ loads[l].org = org /\ loads[l].before \in {0, next}
               /\ loads[l].state = "answered" /\ loads[l].before # 0
                    => asOf \subseteq loads[l].journal
               /\ \A k \in InFlight : k = l
    BY <2>1, <2>5, <2>10, <2>11
  <2> QED BY <2>4, <2>6, <2>7, <2>9, <2>11, <2>12, <2>13 DEF PageInv
<1>2. AuditInv /\ AuditInv' /\ PageInv /\ [Next]_vars => PageInv'
  BY PageStep
<1> QED BY <1>1, <1>2, JournalInvariant, PTL DEF Spec

\* On the page every variable keeps its type; an answer never has more events
\* than the server's maximum.
THEOREM AuditPageTypeOK == Spec => []TypeOK
<1>1. PageInv => TypeOK
  BY DEF PageInv
<1> QED BY <1>1, PageInvariant, PTL

\* The page is busy exactly while the load it waits for is in flight, unless
\* loads overlap, and then it is still never left busy for good.
THEOREM BusyIsHonest == Spec => []BusyMeansLoading
<1>1. PageInv => BusyMeansLoading
  BY DEF PageInv
<1> QED BY <1>1, PageInvariant, PTL

\* The table of a page whose loads do not overlap has no hole, no repetition and
\* no event of another organisation, for any number of events and any limit.
THEOREM TableHasNoHole == Spec => []TableIsTheJournal
<1>1. PageInv => TableIsTheJournal
  BY DEF PageInv, NoHole, TableIsTheJournal, Last
<1> QED BY <1>1, PageInvariant, PTL
=============================================================================
