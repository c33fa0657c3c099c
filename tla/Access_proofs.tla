---------------------------- MODULE Access_proofs ----------------------------
(***************************************************************************)
(* Proofs about access rules and grants: type correctness, that losing     *)
(* access takes effect within one grant lifetime, and that tenants stay    *)
(* apart.                                                                  *)
(***************************************************************************)
EXTENDS Access, SequenceTheorems, TLAPS

\* What effective_capabilities returns is permitted.
LEMMA EffectiveIsPermitted ==
    ASSUME TypeOK, NEW u \in User, NEW o \in Org, NEW d \in Device
    PROVE  Effective(u, o, d) \subseteq Permitted(u, d)
<1> SUFFICES ASSUME NEW c \in Effective(u, o, d) PROVE c \in Permitted(u, d)
  OBVIOUS
<1>1. d \in active /\ c \in UNION {rules[u][g] : g \in GroupsWith(o, d)}
  BY DEF Effective
<1>2. PICK g \in GroupsWith(o, d) : c \in rules[u][g]
  BY <1>1
<1>3. g \in Group /\ <<g, d>> \in inGroup
  BY DEF GroupsWith
<1>4. c \in Capability
  BY <1>2, <1>3 DEF TypeOK
<1> QED
  BY <1>1, <1>2, <1>3, <1>4 DEF Permitted

\* The request issue_grant's read leaves behind.
LEMMA NewRequestTyped ==
    ASSUME TypeOK, NEW r \in Request, NEW u \in User, NEW o \in Org, NEW d \in Device,
           NEW caps, IssueRead(r, u, o, d, caps)
    PROVE  /\ reqs' \in [Request -> Signing \cup Inserting \cup {Idle}]
           /\ caps \subseteq Effective(u, o, d)
<1>1. caps \in (SUBSET Effective(u, o, d)) \ {{}}
  BY DEF IssueRead, Requests
<1>2. Effective(u, o, d) \subseteq Capability
  BY EffectiveIsPermitted DEF Permitted
<1> QED
  BY <1>1, <1>2, AccessConstants DEF IssueRead, Signing, TypeOK, StartTime

\* What a request in progress holds.
LEMMA InProgressTyped ==
    ASSUME TypeOK, NEW r \in Request, reqs[r].phase # "idle"
    PROVE  /\ reqs[r].operator \in User /\ reqs[r].device \in Device
           /\ reqs[r].caps \in (SUBSET Capability) \ {{}} /\ reqs[r].read \in Nat
           /\ reqs[r].phase = "insert" => reqs[r].nbf \in Nat
<1>1. reqs[r] \in Signing \cup Inserting
  BY DEF TypeOK, Idle
<1>2. CASE reqs[r] \in Signing
  BY <1>2 DEF Signing
<1>3. CASE reqs[r] \in Inserting
  BY <1>3 DEF Inserting
<1> QED
  BY <1>1, <1>2, <1>3

\* Reading the clock changes a request's phase and its nbf only.
LEMMA SignFixesTime ==
    ASSUME TypeOK, NEW r \in Request, IssueSign(r)
    PROVE  /\ reqs[r].phase = "sign"
           /\ reqs' \in [Request -> Signing \cup Inserting \cup {Idle}]
           /\ reqs'[r].phase = "insert"
           /\ reqs'[r].operator = reqs[r].operator /\ reqs'[r].device = reqs[r].device
           /\ reqs'[r].caps = reqs[r].caps /\ reqs'[r].read = reqs[r].read
           /\ reqs'[r].nbf = now
           /\ \A q \in Request \ {r} : reqs'[q] = reqs[q]
<1> DEFINE new == [phase |-> "insert", operator |-> reqs[r].operator,
                   device |-> reqs[r].device, caps |-> reqs[r].caps,
                   read |-> reqs[r].read, nbf |-> now]
<1>1. reqs[r].phase = "sign" /\ reqs' = [reqs EXCEPT ![r] = new]
  BY DEF IssueSign, TypeOK
<1>2. new \in Inserting
  BY <1>1, InProgressTyped, AccessConstants DEF Inserting, TypeOK, StartTime
<1> QED
  BY <1>1, <1>2 DEF TypeOK

\* The row issue_grant inserts, and what it leaves of the others.
LEMMA InsertAppends ==
    ASSUME TypeOK, InFlightWasPermitted, NEW r \in Request, IssueInsert(r)
    PROVE  /\ reqs[r].phase = "insert"
           /\ grants' \in Seq(GrantRow) /\ Len(grants') = Len(grants) + 1
           /\ Len(grants') <= MaxGrants
           /\ \A i \in DOMAIN grants : grants'[i] = grants[i]
           /\ DOMAIN grants' = DOMAIN grants \cup {Len(grants')}
           /\ grants'[Len(grants')] =
                [operator |-> reqs[r].operator, device |-> reqs[r].device,
                 caps |-> reqs[r].caps, nbf |-> reqs[r].nbf,
                 exp |-> reqs[r].nbf + GrantTtl,
                 waited |-> reqs[r].nbf - reqs[r].read, revoked |-> FALSE]
<1> DEFINE new == [operator |-> reqs[r].operator, device |-> reqs[r].device,
                   caps |-> reqs[r].caps, nbf |-> reqs[r].nbf,
                   exp |-> reqs[r].nbf + GrantTtl,
                   waited |-> reqs[r].nbf - reqs[r].read, revoked |-> FALSE]
<1>1. /\ reqs[r].phase = "insert" /\ Len(grants) < MaxGrants
      /\ grants' = Append(grants, new)
  BY DEF IssueInsert, NotBefore
<1>2. reqs[r].read <= reqs[r].nbf
  BY <1>1 DEF InFlightWasPermitted
<1>3. new \in GrantRow
  <2>1. /\ reqs[r].operator \in User /\ reqs[r].device \in Device
        /\ reqs[r].caps \in (SUBSET Capability) \ {{}}
        /\ reqs[r].read \in Nat /\ reqs[r].nbf \in Nat
    BY <1>1, InProgressTyped
  <2>2. reqs[r].nbf + GrantTtl \in Nat /\ reqs[r].nbf - reqs[r].read \in Nat
    BY <1>2, <2>1, AccessConstants
  <2> QED
    BY <2>1, <2>2 DEF GrantRow
<1>4. grants \in Seq(GrantRow) /\ Len(grants) \in Nat
  BY LenProperties DEF TypeOK
<1> HIDE DEF new
<1>5. /\ grants' \in Seq(GrantRow)
      /\ Len(grants') = Len(grants) + 1
      /\ \A i \in 1..Len(grants) : grants'[i] = grants[i]
      /\ grants'[Len(grants) + 1] = new
  BY <1>1, <1>3, <1>4, AppendProperties
<1>6. DOMAIN grants = 1..Len(grants) /\ DOMAIN grants' = 1..Len(grants')
  BY <1>4, <1>5, LenProperties
<1>7. DOMAIN grants' = DOMAIN grants \cup {Len(grants')} /\ Len(grants') <= MaxGrants
  BY <1>1, <1>4, <1>5, <1>6, AccessConstants
<1>8. grants'[Len(grants')] = new /\ \A i \in DOMAIN grants : grants'[i] = grants[i]
  BY <1>5, <1>6
<1>9. reqs[r].phase = "insert"
  BY <1>1
<1> USE DEF new
<1> QED
  BY <1>5, <1>7, <1>8, <1>9

\* revoke_grant marks one row and changes nothing else of any.
LEMMA RevokeMarks ==
    ASSUME TypeOK, NEW who \in User, NEW o \in Org, NEW i \in DOMAIN grants,
           RevokeGrant(who, o, i)
    PROVE  /\ grants' \in Seq(GrantRow) /\ Len(grants') = Len(grants)
           /\ DOMAIN grants' = DOMAIN grants
           /\ \A j \in DOMAIN grants :
                 /\ grants'[j].operator = grants[j].operator
                 /\ grants'[j].device = grants[j].device
                 /\ grants'[j].caps = grants[j].caps
                 /\ grants'[j].exp = grants[j].exp
                 /\ grants'[j].waited = grants[j].waited
<1> DEFINE g == grants[i]
           row == [g EXCEPT !.revoked = TRUE]
<1>1. grants \in Seq(GrantRow) /\ Len(grants) \in Nat /\ DOMAIN grants = 1..Len(grants)
  BY LenProperties DEF TypeOK
<1>2. g \in GrantRow
  BY <1>1, ElementOfSeq
<1>3. /\ row \in GrantRow
      /\ row.operator = g.operator /\ row.device = g.device
      /\ row.caps = g.caps /\ row.exp = g.exp /\ row.waited = g.waited
  BY <1>2 DEF GrantRow
<1>4. grants' = [grants EXCEPT ![i] = row]
  BY DEF RevokeGrant
<1> HIDE DEF row
<1>5. /\ grants' \in Seq(GrantRow) /\ Len(grants') = Len(grants)
      /\ \A j \in 1..Len(grants) : grants'[j] = IF j = i THEN row ELSE grants[j]
  BY <1>1, <1>3, <1>4, ExceptSeq
<1>6. DOMAIN grants' = 1..Len(grants')
  BY <1>5, LenProperties
<1> QED
  BY <1>1, <1>3, <1>5, <1>6

-----------------------------------------------------------------------------
\* Which steps touch the clock, the requests or the grants.
LEMMA StepCases ==
    ASSUME Step
    PROVE  \/ Tick
           \/ UNCHANGED <<now, reqs, grants>>
           \/ \E r \in Request : IssueSign(r) \/ IssueInsert(r) \/ Drop(r)
           \/ \E who \in User, o \in Org, r \in Request, d \in Device,
                 caps \in Requests(Capability) : IssueRead(r, who, o, d, caps)
           \/ \E who \in User, o \in Org, i \in DOMAIN grants : RevokeGrant(who, o, i)
<1>1. ASSUME NEW who \in User, NEW o \in Org, NEW g \in Group, CreateGroup(who, o, g)
      PROVE  UNCHANGED <<now, reqs, grants>>
  BY <1>1 DEF CreateGroup
<1>2. ASSUME NEW who \in User, NEW o \in Org, NEW g \in Group, NEW d \in Device,
             AddGroupDevice(who, o, g, d) \/ RemoveGroupDevice(who, o, g, d)
      PROVE  UNCHANGED <<now, reqs, grants>>
  BY <1>2 DEF AddGroupDevice, RemoveGroupDevice
<1>3. ASSUME NEW who \in User, NEW o \in Org, NEW u \in User, NEW g \in Group,
             \/ DeleteAcl(who, o, u, g)
             \/ \E caps \in Requests(Capability) : PutAcl(who, o, u, g, caps)
      PROVE  UNCHANGED <<now, reqs, grants>>
  BY <1>3 DEF PutAcl, DeleteAcl
<1>4. ASSUME NEW who \in User, NEW o \in Org, NEW d \in Device, RevokeDevice(who, o, d)
      PROVE  UNCHANGED <<now, reqs, grants>>
  BY <1>4 DEF RevokeDevice
<1> QED
  BY <1>1, <1>2, <1>3, <1>4 DEF Step

\* Time does not go back and its bound is not exceeded.
LEMMA TimeGoesOn ==
    ASSUME TypeOK, Step
    PROVE  now' \in StartTime..MaxTime /\ now \in StartTime..MaxTime /\ now <= now'
<1>1. now \in StartTime..MaxTime /\ now \in Nat /\ MaxTime \in Nat
  BY AccessConstants DEF TypeOK, StartTime
<1>2. CASE Tick
  BY <1>1, <1>2 DEF Tick, StartTime
<1>3. CASE now' = now
  BY <1>1, <1>3
<1>4. ASSUME NEW r \in Request, IssueSign(r) \/ IssueInsert(r) \/ Drop(r) PROVE now' = now
  BY <1>4 DEF IssueSign, IssueInsert, Drop
<1>5. ASSUME NEW who \in User, NEW o \in Org, NEW r \in Request, NEW d \in Device,
             NEW caps \in Requests(Capability), IssueRead(r, who, o, d, caps)
      PROVE  now' = now
  BY <1>5 DEF IssueRead
<1>6. ASSUME NEW who \in User, NEW o \in Org, NEW i \in DOMAIN grants, RevokeGrant(who, o, i)
      PROVE  now' = now
  BY <1>6 DEF RevokeGrant
<1> QED
  BY <1>2, <1>3, <1>4, <1>5, <1>6, StepCases

\* What a step does to the history variable: it never decreases, and it names
\* the present wherever something is permitted.
LEMMA HistoryGrows ==
    ASSUME TypeOK, PermittedIsRecent, Step, Remember
    PROVE  /\ permitted' \in [User -> [Device -> [Capability -> Nat]]]
           /\ PermittedIsRecent'
           /\ \A u \in User, d \in Device, c \in Capability :
                 permitted[u][d][c] <= permitted'[u][d][c]
<1>1. now \in Nat /\ now' \in Nat /\ now <= now'
  BY TimeGoesOn, AccessConstants DEF StartTime
<1>2. \A u \in User, d \in Device, c \in Capability :
         /\ permitted[u][d][c] \in Nat
         /\ permitted'[u][d][c] = IF c \in Permitted(u, d)' THEN now' ELSE permitted[u][d][c]
  BY DEF Remember, TypeOK
<1>3. permitted' \in [User -> [Device -> [Capability -> Nat]]]
  BY <1>1, <1>2 DEF Remember
<1>4. \A u \in User, d \in Device, c \in Capability : permitted[u][d][c] <= now
  BY DEF PermittedIsRecent
<1>5. PermittedIsRecent'
  BY <1>1, <1>2, <1>4 DEF PermittedIsRecent
<1> QED
  BY <1>1, <1>2, <1>3, <1>4, <1>5

\* Rules, groups, devices and the bound of the clock stay typed.
LEMMA NextTyped ==
    ASSUME TypeOK, PermittedIsRecent, InFlightWasPermitted, Step, Remember
    PROVE  TypeOK'
<1>1. permitted' \in [User -> [Device -> [Capability -> Nat]]] /\ now' \in StartTime..MaxTime
  BY HistoryGrows, TimeGoesOn
<1>2. CASE Tick
  BY <1>1, <1>2 DEF Tick, TypeOK
<1>3. ASSUME NEW r \in Request, IssueInsert(r) PROVE TypeOK'
  BY <1>1, <1>3, InsertAppends DEF IssueInsert, TypeOK
<1>12. ASSUME NEW r \in Request, IssueSign(r) PROVE TypeOK'
  BY <1>1, <1>12, SignFixesTime DEF IssueSign, TypeOK
<1>4. ASSUME NEW r \in Request, Drop(r) PROVE TypeOK'
  BY <1>1, <1>4 DEF Drop, TypeOK
<1>5. ASSUME NEW who \in User, NEW o \in Org, NEW g \in Group, CreateGroup(who, o, g)
      PROVE  TypeOK'
  BY <1>1, <1>5 DEF CreateGroup, TypeOK
<1>6. ASSUME NEW who \in User, NEW o \in Org, NEW g \in Group, NEW d \in Device,
             AddGroupDevice(who, o, g, d) \/ RemoveGroupDevice(who, o, g, d)
      PROVE  TypeOK'
  BY <1>1, <1>6 DEF AddGroupDevice, RemoveGroupDevice, TypeOK
<1>7. ASSUME NEW who \in User, NEW o \in Org, NEW u \in User, NEW g \in Group,
             NEW caps \in Requests(Capability), PutAcl(who, o, u, g, caps)
      PROVE  TypeOK'
  BY <1>1, <1>7 DEF PutAcl, Requests, TypeOK
<1>8. ASSUME NEW who \in User, NEW o \in Org, NEW u \in User, NEW g \in Group,
             DeleteAcl(who, o, u, g)
      PROVE  TypeOK'
  BY <1>1, <1>8 DEF DeleteAcl, TypeOK
<1>9. ASSUME NEW who \in User, NEW o \in Org, NEW d \in Device, RevokeDevice(who, o, d)
      PROVE  TypeOK'
  BY <1>1, <1>9 DEF RevokeDevice, TypeOK
<1>10. ASSUME NEW who \in User, NEW o \in Org, NEW r \in Request, NEW d \in Device,
              NEW caps \in Requests(Capability), IssueRead(r, who, o, d, caps)
       PROVE  TypeOK'
  BY <1>1, <1>10, NewRequestTyped DEF IssueRead, TypeOK
<1>11. ASSUME NEW who \in User, NEW o \in Org, NEW i \in DOMAIN grants, RevokeGrant(who, o, i)
       PROVE  TypeOK'
  BY <1>1, <1>11, RevokeMarks DEF RevokeGrant, TypeOK
<1> QED
  BY <1>2, <1>3, <1>4, <1>5, <1>6, <1>7, <1>8, <1>9, <1>10, <1>11, <1>12
  DEF Step

\* Only issue_grant's read starts a request, and it takes what is permitted now.
LEMMA InFlightInv ==
    ASSUME IInv, Step, Remember
    PROVE  InFlightWasPermitted'
<1>1. \A u \in User, d \in Device, c \in Capability :
         /\ permitted[u][d][c] \in Nat /\ permitted'[u][d][c] \in Nat
         /\ permitted[u][d][c] <= permitted'[u][d][c]
  BY HistoryGrows DEF IInv, TypeOK
<1>2. now \in Nat /\ now' \in Nat /\ now <= now' /\ now >= 1
  BY TimeGoesOn, AccessConstants DEF IInv, StartTime
<1> DEFINE OK(h, time, history) ==
             /\ h.read <= time
             /\ h.phase = "insert" => h.read <= h.nbf
             /\ \A c \in h.caps : LET last == history[h.operator][h.device][c]
                                  IN  last # Never /\ h.read <= last
<1>3. SUFFICES ASSUME NEW r \in Request, reqs'[r].phase # "idle"
               PROVE  OK(reqs'[r], now', permitted')
  BY DEF InFlightWasPermitted
<1>4. CASE reqs'[r] = reqs[r]
  <2>1. OK(reqs[r], now, permitted)
    BY <1>3, <1>4 DEF IInv, InFlightWasPermitted
  <2>2. /\ reqs[r].operator \in User /\ reqs[r].device \in Device
        /\ reqs[r].caps \subseteq Capability /\ reqs[r].read \in Nat
    BY <1>3, <1>4, InProgressTyped DEF IInv
  <2>3. \A c \in reqs[r].caps :
           LET last == permitted'[reqs[r].operator][reqs[r].device][c]
           IN  last # Never /\ reqs[r].read <= last
    BY <1>1, <2>1, <2>2 DEF Never
  <2> QED
    BY <1>2, <1>4, <2>1, <2>2, <2>3
<1>5. ASSUME NEW q \in Request, NEW who \in User, NEW o \in Org, NEW d \in Device,
             NEW caps \in Requests(Capability), IssueRead(q, who, o, d, caps),
             reqs'[r] # reqs[r]
      PROVE  OK(reqs'[r], now', permitted')
  <2>1. /\ reqs'[r] = [phase |-> "sign", operator |-> who, device |-> d, caps |-> caps,
                       read |-> now]
        /\ now' = now
    BY <1>5 DEF IssueRead, IInv, TypeOK
  <2>2. ASSUME NEW c \in caps
        PROVE  permitted'[who][d][c] # Never /\ now <= permitted'[who][d][c]
    <3>1. c \in Permitted(who, d)
      BY <1>5, NewRequestTyped, EffectiveIsPermitted DEF IInv
    <3>2. c \in Capability /\ permitted[who][d][c] = now
      BY <3>1 DEF IInv, PermittedIsRecent, Permitted
    <3> QED
      BY <1>1, <1>2, <3>2 DEF Never
  <2> QED
    BY <1>2, <2>1, <2>2
<1>6. ASSUME NEW q \in Request, reqs' = [reqs EXCEPT ![q] = Idle] PROVE reqs'[r] = reqs[r]
  BY <1>3, <1>6 DEF Idle, IInv, TypeOK
<1>7. ASSUME NEW q \in Request, IssueInsert(q) \/ Drop(q) PROVE reqs'[r] = reqs[r]
  BY <1>6, <1>7 DEF IssueInsert, Drop
<1>8. ASSUME NEW who \in User, NEW o \in Org, NEW i \in DOMAIN grants, RevokeGrant(who, o, i)
      PROVE  reqs'[r] = reqs[r]
  BY <1>8 DEF RevokeGrant
<1>9. CASE Tick \/ UNCHANGED <<now, reqs, grants>>
  BY <1>4, <1>9 DEF Tick
<1>10. ASSUME NEW q \in Request, IssueSign(q), reqs'[r] # reqs[r]
       PROVE  OK(reqs'[r], now', permitted')
  <2>1. /\ r = q /\ reqs[r].phase = "sign" /\ now' = now
        /\ reqs'[r].operator = reqs[r].operator /\ reqs'[r].device = reqs[r].device
        /\ reqs'[r].caps = reqs[r].caps /\ reqs'[r].read = reqs[r].read
        /\ reqs'[r].nbf = now
    BY <1>10, SignFixesTime DEF IssueSign, IInv
  <2>2. OK(reqs[r], now, permitted)
    BY <2>1 DEF IInv, InFlightWasPermitted
  <2>3. /\ reqs[r].operator \in User /\ reqs[r].device \in Device
        /\ reqs[r].caps \subseteq Capability /\ reqs[r].read \in Nat
    BY <2>1, InProgressTyped DEF IInv
  <2>4. \A c \in reqs[r].caps :
           LET last == permitted'[reqs[r].operator][reqs[r].device][c]
           IN  last # Never /\ reqs[r].read <= last
    BY <1>1, <2>2, <2>3 DEF Never
  <2> QED
    BY <1>2, <2>1, <2>2, <2>3, <2>4
<1> QED
  BY <1>4, <1>5, <1>7, <1>8, <1>9, <1>10, StepCases

\* A grant expires GrantTtl after its request read the clock, which was waited
\* after it read the rules.
LEMMA AccessEndsInv ==
    ASSUME IInv, Step, Remember
    PROVE  AccessEndsInTime'
<1>1. \A u \in User, d \in Device, c \in Capability :
         /\ permitted[u][d][c] \in Nat /\ permitted'[u][d][c] \in Nat
         /\ permitted[u][d][c] <= permitted'[u][d][c]
  BY HistoryGrows DEF IInv, TypeOK
<1>2. \A i \in DOMAIN grants : grants[i] \in GrantRow
  BY LenProperties, ElementOfSeq DEF IInv, TypeOK
<1>3. GrantTtl \in Nat
  BY AccessConstants
<1>4. SUFFICES ASSUME NEW i \in DOMAIN grants', NEW c \in grants'[i].caps
               PROVE  LET last == permitted'[grants'[i].operator][grants'[i].device][c]
                      IN  last # Never /\ grants'[i].exp <= last + GrantTtl + grants'[i].waited
  BY DEF AccessEndsInTime
<1>5. ASSUME i \in DOMAIN grants, grants'[i].operator = grants[i].operator,
             grants'[i].device = grants[i].device, grants'[i].caps = grants[i].caps,
             grants'[i].exp = grants[i].exp, grants'[i].waited = grants[i].waited
      PROVE  LET last == permitted'[grants'[i].operator][grants'[i].device][c]
             IN  last # Never /\ grants'[i].exp <= last + GrantTtl + grants'[i].waited
  <2>1. /\ grants[i].operator \in User /\ grants[i].device \in Device
        /\ c \in Capability /\ grants[i].exp \in Nat /\ grants[i].waited \in Nat
    BY <1>2, <1>4, <1>5 DEF GrantRow
  <2>2. LET last == permitted[grants[i].operator][grants[i].device][c]
        IN  last # Never /\ grants[i].exp <= last + GrantTtl + grants[i].waited
    BY <1>4, <1>5 DEF IInv, AccessEndsInTime
  <2> QED
    BY <1>1, <1>3, <1>5, <2>1, <2>2 DEF Never
<1>6. CASE grants' = grants
  BY <1>4, <1>5, <1>6
<1>7. ASSUME NEW who \in User, NEW o \in Org, NEW j \in DOMAIN grants, RevokeGrant(who, o, j)
      PROVE  LET last == permitted'[grants'[i].operator][grants'[i].device][c]
             IN  last # Never /\ grants'[i].exp <= last + GrantTtl + grants'[i].waited
  BY <1>4, <1>5, <1>7, RevokeMarks DEF IInv
<1>8. ASSUME NEW r \in Request, IssueInsert(r)
      PROVE  LET last == permitted'[grants'[i].operator][grants'[i].device][c]
             IN  last # Never /\ grants'[i].exp <= last + GrantTtl + grants'[i].waited
  <2>1. CASE i \in DOMAIN grants
    BY <1>5, <1>8, <2>1, InsertAppends DEF IInv
  <2>2. CASE i = Len(grants')
    <3>1. /\ reqs[r].phase = "insert"
          /\ grants'[i].operator = reqs[r].operator /\ grants'[i].device = reqs[r].device
          /\ grants'[i].caps = reqs[r].caps /\ grants'[i].exp = reqs[r].nbf + GrantTtl
          /\ grants'[i].waited = reqs[r].nbf - reqs[r].read
      BY <1>8, <2>2, InsertAppends DEF IInv
    <3>2. /\ reqs[r].operator \in User /\ reqs[r].device \in Device
          /\ c \in Capability /\ reqs[r].nbf \in Nat /\ reqs[r].read \in Nat
      BY <1>4, <3>1, InProgressTyped DEF IInv
    <3>3. LET last == permitted[reqs[r].operator][reqs[r].device][c]
          IN  last # Never /\ reqs[r].read <= last
      BY <1>4, <3>1, <3>2 DEF IInv, InFlightWasPermitted
    <3> QED
      BY <1>1, <1>3, <3>1, <3>2, <3>3 DEF Never
  <2> QED
    BY <1>4, <1>8, <2>1, <2>2, InsertAppends DEF IInv
<1>9. CASE Tick \/ UNCHANGED <<now, reqs, grants>>
  BY <1>6, <1>9 DEF Tick
<1>10. ASSUME NEW r \in Request, IssueSign(r) \/ Drop(r) PROVE grants' = grants
  BY <1>10 DEF IssueSign, Drop
<1>11. ASSUME NEW who \in User, NEW o \in Org, NEW r \in Request, NEW d \in Device,
              NEW caps \in Requests(Capability), IssueRead(r, who, o, d, caps)
       PROVE  grants' = grants
  BY <1>11 DEF IssueRead
<1> QED
  BY <1>6, <1>7, <1>8, <1>9, <1>10, <1>11, StepCases

-----------------------------------------------------------------------------
\* A stuttering step changes nothing the invariants read.
LEMMA StutterInv ==
    ASSUME UNCHANGED vars
    PROVE  (IInv => IInv') /\ (TenantInv => TenantInv')
BY DEF vars, IInv, TypeOK, PermittedIsRecent, Permitted, InFlightWasPermitted,
       AccessEndsInTime, TenantInv

\* In an installation with enrolled devices and no group nothing is permitted.
LEMMA InitInv == Init => IInv /\ TenantInv
<1> SUFFICES ASSUME Init PROVE IInv /\ TenantInv
  OBVIOUS
<1>1. grants \in Seq(GrantRow) /\ Len(grants) = 0 /\ DOMAIN grants = {}
  BY EmptySeq DEF Init
<1>2. now \in StartTime..MaxTime
  BY AccessConstants DEF Init, StartTime
<1>3. TypeOK
  BY <1>1, <1>2, AccessConstants DEF Init, TypeOK, Never
<1>4. PermittedIsRecent /\ InFlightWasPermitted /\ AccessEndsInTime
  BY <1>1, <1>2, AccessConstants
  DEF Init, PermittedIsRecent, Permitted, InFlightWasPermitted, AccessEndsInTime,
      Never, Idle, StartTime
<1>5. TenantInv
  BY <1>3 DEF Init, TenantInv
<1> QED
  BY <1>3, <1>4, <1>5 DEF IInv

LEMMA NextInv == IInv /\ [Next]_vars => IInv'
<1>1. ASSUME IInv, Next PROVE IInv'
  BY <1>1, NextTyped, HistoryGrows, InFlightInv, AccessEndsInv DEF IInv, Next
<1> QED
  BY <1>1, StutterInv

\* The inductive invariant of rules and grants holds in every reachable state.
THEOREM AccessInvariant == Spec => []IInv
BY InitInv, NextInv, PTL DEF Spec

\* Losing access takes effect within one grant lifetime (issue_grant and the
\* handlers that remove rules, group members and devices).
THEOREM AccessEnds == Spec => []AccessEndsInTime
<1>1. IInv => AccessEndsInTime
  BY DEF IInv
<1> QED
  BY AccessInvariant, <1>1, PTL

-----------------------------------------------------------------------------
\* put_acl writes a rule for a member of the group's organisation only, and
\* add_group_device adds a device of the group's organisation only; a group
\* keeps its organisation.
LEMMA TenantNext ==
    ASSUME IInv, TenantInv, Step, Remember
    PROVE  TenantInv'
<1> DEFINE RulesForMembers ==
               \A u \in User, g \in Group :
                  rules[u][g] # {} => groups[g] \in Org /\ RoleOf[groups[g]][u] # "none"
           DevicesAtHome ==
               \A g \in Group, d \in Device : <<g, d>> \in inGroup => groups[g] = OrgOf[d]
<1>1. TypeOK /\ RulesForMembers /\ DevicesAtHome
  BY DEF TenantInv
<1>2. TypeOK'
  BY NextTyped DEF IInv
<1>3. SUFFICES RulesForMembers' /\ DevicesAtHome'
  BY <1>2 DEF TenantInv
<1>4. CASE UNCHANGED <<groups, inGroup, rules>>
  BY <1>1, <1>4
<1>5. ASSUME NEW who \in User, NEW o \in Org, NEW g \in Group, CreateGroup(who, o, g)
      PROVE  RulesForMembers' /\ DevicesAtHome'
  <2>1. /\ groups[g] = NoOrg /\ groups' = [groups EXCEPT ![g] = o]
        /\ UNCHANGED <<inGroup, rules>>
    BY <1>5 DEF CreateGroup
  <2>2. \A h \in Group : h # g => groups'[h] = groups[h]
    BY <1>1, <2>1 DEF TypeOK
  <2>3. \A u \in User : rules[u][g] = {}
    BY <1>1, <2>1, AccessConstants
  <2>4. \A d \in Device : <<g, d>> \notin inGroup
    BY <1>1, <2>1, AccessConstants
  <2> QED
    BY <1>1, <2>1, <2>2, <2>3, <2>4
<1>6. ASSUME NEW who \in User, NEW o \in Org, NEW g \in Group, NEW d \in Device,
             AddGroupDevice(who, o, g, d) \/ RemoveGroupDevice(who, o, g, d)
      PROVE  RulesForMembers' /\ DevicesAtHome'
  BY <1>1, <1>6 DEF AddGroupDevice, RemoveGroupDevice
<1>7. ASSUME NEW who \in User, NEW o \in Org, NEW u \in User, NEW g \in Group,
             NEW caps \in Requests(Capability), PutAcl(who, o, u, g, caps)
      PROVE  RulesForMembers' /\ DevicesAtHome'
  <2>1. /\ groups[g] = o /\ RoleOf[o][u] # "none"
        /\ rules' = [rules EXCEPT ![u][g] = caps]
        /\ UNCHANGED <<groups, inGroup>>
    BY <1>7 DEF PutAcl, IsMember
  <2>2. \A v \in User, h \in Group : (v # u \/ h # g) => rules'[v][h] = rules[v][h]
    BY <1>1, <2>1 DEF TypeOK
  <2> QED
    BY <1>1, <2>1, <2>2
<1>8. ASSUME NEW who \in User, NEW o \in Org, NEW u \in User, NEW g \in Group,
             DeleteAcl(who, o, u, g)
      PROVE  RulesForMembers' /\ DevicesAtHome'
  <2>1. rules' = [rules EXCEPT ![u][g] = {}] /\ UNCHANGED <<groups, inGroup>>
    BY <1>8 DEF DeleteAcl
  <2>2. \A v \in User, h \in Group : rules'[v][h] = rules[v][h] \/ rules'[v][h] = {}
    BY <1>1, <2>1 DEF TypeOK
  <2> QED
    BY <1>1, <2>1, <2>2
<1> HIDE DEF RulesForMembers, DevicesAtHome
<1>9. ASSUME NEW who \in User, NEW o \in Org, NEW d \in Device, RevokeDevice(who, o, d)
      PROVE  RulesForMembers' /\ DevicesAtHome'
  BY <1>4, <1>9 DEF RevokeDevice
<1>10. ASSUME NEW who \in User, NEW o \in Org, NEW r \in Request, NEW d \in Device,
              NEW caps \in Requests(Capability), IssueRead(r, who, o, d, caps)
       PROVE  RulesForMembers' /\ DevicesAtHome'
  BY <1>4, <1>10 DEF IssueRead
<1>11. ASSUME NEW who \in User, NEW o \in Org, NEW i \in DOMAIN grants, RevokeGrant(who, o, i)
       PROVE  RulesForMembers' /\ DevicesAtHome'
  BY <1>4, <1>11 DEF RevokeGrant
<1>12. ASSUME NEW r \in Request, IssueSign(r) \/ IssueInsert(r) \/ Drop(r)
       PROVE  RulesForMembers' /\ DevicesAtHome'
  BY <1>4, <1>12 DEF IssueSign, IssueInsert, Drop
<1>13. CASE Tick
  BY <1>4, <1>13 DEF Tick
<1> QED
  BY <1>5, <1>6, <1>7, <1>8, <1>9, <1>10, <1>11, <1>12, <1>13 DEF Step

\* Rules are for members and devices are at home: put_acl and
\* add_group_device keep this relation between three tables, whatever the
\* other handlers do to them.
THEOREM TenantInvariant == Spec => []TenantInv
<1>1. IInv /\ TenantInv /\ [Next]_vars => TenantInv'
  <2>1. ASSUME IInv, TenantInv, Next PROVE TenantInv'
    BY <2>1, TenantNext DEF Next
  <2> QED
    BY <2>1, StutterInv
<1> QED
  BY InitInv, AccessInvariant, <1>1, PTL DEF Spec

\* No sequence of changes to groups, rules and devices gives somebody access to
\* a device of an organisation they are not a member of.
THEOREM TenantsNeverMix == Spec => []TenantsStayApart
<1>1. TenantInv => TenantsStayApart
  <2> SUFFICES ASSUME TenantInv, NEW u \in User, NEW d \in Device,
                      NEW c \in Permitted(u, d)
               PROVE  RoleOf[OrgOf[d]][u] # "none"
    BY DEF TenantsStayApart
  <2>1. PICK g \in Group : <<g, d>> \in inGroup /\ c \in rules[u][g]
    BY DEF Permitted
  <2> QED
    BY <2>1 DEF TenantInv
<1> QED
  BY TenantInvariant, <1>1, PTL

=============================================================================
