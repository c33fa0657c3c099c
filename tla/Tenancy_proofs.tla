--------------------------- MODULE Tenancy_proofs ---------------------------
(***************************************************************************)
(* Proofs about organisations and enrolment: the inductive invariant of    *)
(* Tenancy, the stability of roles, and that the transactions of devices'  *)
(* enrolments implement the atomic enrolment of EnrolOnce.                 *)
(***************************************************************************)
EXTENDS Tenancy, TLAPS

\* The empty database satisfies the invariant.
LEMMA InitInv == Init => IInv
BY TenancyConstants
DEF Init, IInv, TypeOK, TokensExist, SpentMeansEnrolled, HoldersAreApart, Roles,
    TokenRow, Idle, InFlight

\* Membership changes (create_org, add_member) touch nothing enrolment reads.
LEMMA RolesInv ==
    ASSUME IInv, roles' \in [Org -> [User -> Roles]], UNCHANGED <<now, tokens, devices, reqs>>
    PROVE  IInv'
BY DEF IInv, TypeOK, TokensExist, SpentMeansEnrolled, HoldersAreApart, TokenUnlocked,
       KeyUnlocked, Others

\* create_enrollment_token makes a token nobody uses yet.
LEMMA CreateTokenInv ==
    ASSUME IInv, NEW who \in User, NEW o \in Org, NEW t \in Token,
           CreateEnrollmentToken(who, o, t)
    PROVE  IInv'
<1>1. /\ tokens[t].org = NoOrg
      /\ tokens' = [tokens EXCEPT ![t] = [org |-> o, expires |-> now + EnrollmentTtl,
                                          used |-> FALSE]]
      /\ UNCHANGED <<now, roles, devices, reqs>>
  BY DEF CreateEnrollmentToken
<1>2. now \in Nat /\ EnrollmentTtl \in Nat /\ now + EnrollmentTtl \in Nat
  BY TenancyConstants DEF IInv, TypeOK
<1>3. \A d \in devices : d.token # t /\ d.token \in Token
  BY <1>1, TenancyConstants DEF IInv, TypeOK, SpentMeansEnrolled, DeviceRow
<1>4. /\ tokens'[t] = [org |-> o, expires |-> now + EnrollmentTtl, used |-> FALSE]
      /\ \A u \in Token : u # t => tokens'[u] = tokens[u]
  BY <1>1 DEF IInv, TypeOK
<1>5. \A r \in Request : reqs[r] # Idle => reqs[r].token # t /\ reqs[r].token \in Token
  BY <1>1, TenancyConstants DEF IInv, TypeOK, TokensExist, InFlight
<1>6. TypeOK'
  BY <1>1, <1>2 DEF IInv, TypeOK, TokenRow
<1>7. TokensExist'
  BY <1>1, <1>4, <1>5 DEF IInv, TokensExist
<1>8. SpentMeansEnrolled'
  BY <1>1, <1>3, <1>4 DEF IInv, SpentMeansEnrolled
<1>9. HoldersAreApart'
  BY <1>1, <1>4, <1>5 DEF IInv, HoldersAreApart, TokenUnlocked, KeyUnlocked, Others, Idle
<1> QED
  BY <1>6, <1>7, <1>8, <1>9 DEF IInv

\* A request that ends without a commit (401, 409, a broken connection), or
\* has not locked anything yet, leaves the others as far apart as they were.
LEMMA BeginOrEndInv ==
    ASSUME IInv, NEW r \in Request, NEW new \in InFlight \cup {Idle},
           reqs' = [reqs EXCEPT ![r] = new],
           new = Idle \/ (new.phase = "begun" /\ tokens[new.token].org \in Org),
           UNCHANGED <<now, roles, tokens, devices>>
    PROVE  IInv'
<1>1. /\ reqs'[r] = new
      /\ \A q \in Request : q # r => reqs'[q] = reqs[q]
  BY DEF IInv, TypeOK
<1>2. TypeOK'
  BY DEF IInv, TypeOK
<1>3. TokensExist'
  BY <1>1 DEF IInv, TokensExist
<1>4. HoldersAreApart'
  BY <1>1 DEF IInv, HoldersAreApart, TokenUnlocked, KeyUnlocked, Others, Idle
<1> QED
  BY <1>2, <1>3, <1>4 DEF IInv, SpentMeansEnrolled

\* The UPDATE takes the lock only when no other transaction holds it.
LEMMA SpendInv ==
    ASSUME IInv, NEW r \in Request, EnrollSpend(r)
    PROVE  IInv'
<1>1. reqs[r].phase = "begun" /\ TokenUnlocked(r) /\ UNCHANGED <<now, roles, tokens, devices>>
  BY DEF EnrollSpend
<1>2. reqs[r] \in InFlight
  BY <1>1 DEF IInv, TypeOK, Idle
<1>3. CASE ~Usable(r)
  BY <1>1, <1>3, BeginOrEndInv DEF EnrollSpend, End
<1>4. CASE Usable(r)
  <2>1. reqs' = [reqs EXCEPT ![r].phase = "spent"]
    BY <1>4 DEF EnrollSpend, Goto
  <2>2. /\ reqs'[r] = [phase |-> "spent", token |-> reqs[r].token, key |-> reqs[r].key,
                       started |-> reqs[r].started]
        /\ \A q \in Request : q # r => reqs'[q] = reqs[q]
    BY <1>2, <2>1 DEF IInv, TypeOK, InFlight
  <2>3. TypeOK'
    BY <1>1, <1>2, <2>1, <2>2 DEF IInv, TypeOK, InFlight
  <2>4. TokensExist'
    BY <1>1, <1>2, <2>2 DEF IInv, TokensExist, Idle
  <2>5. HoldersAreApart'
    BY <1>1, <1>2, <1>4, <2>2
    DEF IInv, HoldersAreApart, TokenUnlocked, KeyUnlocked, Others, Usable
  <2> QED
    BY <1>1, <2>3, <2>4, <2>5 DEF IInv, SpentMeansEnrolled
<1> QED
  BY <1>3, <1>4

\* The INSERT goes on only when no other transaction and no row has the key.
LEMMA InsertInv ==
    ASSUME IInv, NEW r \in Request, EnrollInsert(r)
    PROVE  IInv'
<1>1. reqs[r].phase = "spent" /\ KeyUnlocked(r) /\ UNCHANGED <<now, roles, tokens, devices>>
  BY DEF EnrollInsert
<1>2. reqs[r] \in InFlight
  BY <1>1 DEF IInv, TypeOK, Idle
<1>3. CASE \E d \in devices : d.key = reqs[r].key
  BY <1>1, <1>3, BeginOrEndInv DEF EnrollInsert, End
<1>4. CASE \A d \in devices : d.key # reqs[r].key
  <2>1. reqs' = [reqs EXCEPT ![r].phase = "inserted"]
    BY <1>4 DEF EnrollInsert, Goto
  <2>2. /\ reqs'[r] = [phase |-> "inserted", token |-> reqs[r].token, key |-> reqs[r].key,
                       started |-> reqs[r].started]
        /\ \A q \in Request : q # r => reqs'[q] = reqs[q]
    BY <1>2, <2>1 DEF IInv, TypeOK, InFlight
  <2>3. TypeOK'
    BY <1>1, <1>2, <2>1, <2>2 DEF IInv, TypeOK, InFlight
  <2>4. TokensExist'
    BY <1>1, <1>2, <2>2 DEF IInv, TokensExist, Idle
  <2>5. HoldersAreApart'
    BY <1>1, <1>2, <1>4, <2>2
    DEF IInv, HoldersAreApart, TokenUnlocked, KeyUnlocked, Others
  <2> QED
    BY <1>1, <2>3, <2>4, <2>5 DEF IInv, SpentMeansEnrolled
<1> QED
  BY <1>3, <1>4

\* The commit spends the token and adds the device together.
LEMMA CommitInv ==
    ASSUME IInv, NEW r \in Request, EnrollCommit(r)
    PROVE  IInv'
<1> DEFINE t == reqs[r].token
           d == [key |-> reqs[r].key, org |-> tokens[t].org, token |-> t]
<1>1. /\ reqs[r].phase = "inserted"
      /\ tokens' = [tokens EXCEPT ![t].used = TRUE]
      /\ devices' = devices \cup {d}
      /\ reqs' = [reqs EXCEPT ![r] = Idle]
      /\ UNCHANGED <<now, roles>>
  BY DEF EnrollCommit, End
<1>2. reqs[r] \in InFlight /\ t \in Token /\ reqs[r].key \in Key /\ tokens[t].org \in Org
  BY <1>1 DEF IInv, TypeOK, TokensExist, Idle, InFlight
<1>3. /\ tokens'[t] = [org |-> tokens[t].org, expires |-> tokens[t].expires, used |-> TRUE]
      /\ \A u \in Token : u # t => tokens'[u] = tokens[u]
  BY <1>1, <1>2 DEF IInv, TypeOK, TokenRow
<1>4. /\ reqs'[r] = Idle
      /\ \A q \in Request : q # r => reqs'[q] = reqs[q]
  BY <1>1 DEF IInv, TypeOK
<1>5. \A e \in devices : e.token \in Token
  BY DEF IInv, TypeOK, DeviceRow
<1>6. TypeOK'
  <2>1. tokens' \in [Token -> TokenRow]
    <3>1. tokens \in [Token -> TokenRow]
      BY DEF IInv, TypeOK
    <3>2. [tokens[t] EXCEPT !.used = TRUE] \in TokenRow
      BY <1>2, <3>1 DEF TokenRow
    <3> QED
      BY <1>1, <1>2, <3>1, <3>2
  <2>2. devices' \subseteq DeviceRow
    BY <1>1, <1>2 DEF IInv, TypeOK, DeviceRow
  <2> QED
    BY <1>1, <2>1, <2>2 DEF IInv, TypeOK
<1>7. TokensExist'
  <2> SUFFICES ASSUME NEW q \in Request, reqs'[q] # Idle
               PROVE  tokens'[reqs'[q].token].org \in Org
    BY DEF TokensExist
  <2>1. q # r /\ reqs'[q] = reqs[q] /\ tokens[reqs[q].token].org \in Org
    BY <1>4 DEF IInv, TokensExist
  <2>2. reqs[q].token \in Token
    BY <1>4, <2>1 DEF IInv, TypeOK, InFlight
  <2> QED
    BY <1>2, <1>3, <2>1, <2>2
<1>8. SpentMeansEnrolled'
  <2>1. \A u \in Token : tokens'[u].used <=> \E e \in devices' : e.token = u
    <3>1. d \in devices' /\ d.token = t /\ tokens'[t].used
      BY <1>1, <1>3
    <3>2. \A u \in Token : u # t =>
             ((\E e \in devices' : e.token = u) <=> (\E e \in devices : e.token = u))
      BY <1>1
    <3> QED
      BY <1>3, <3>1, <3>2 DEF IInv, SpentMeansEnrolled
  <2>2. ASSUME NEW e \in devices' PROVE e.org = tokens'[e.token].org
    <3>1. CASE e = d
      BY <1>2, <1>3, <3>1
    <3>2. CASE e \in devices
      <4>1. e.token \in Token /\ e.org = tokens[e.token].org
        BY <1>5, <3>2 DEF IInv, SpentMeansEnrolled
      <4>2. tokens'[e.token].org = tokens[e.token].org
        BY <1>3, <4>1
      <4> QED
        BY <4>1, <4>2
    <3> QED
      BY <1>1, <2>2, <3>1, <3>2
  <2> QED
    BY <2>1, <2>2 DEF SpentMeansEnrolled
<1>9. \A q \in Request : q # r /\ reqs[q].phase \in {"spent", "inserted"}
         => reqs[q].token \in Token /\ reqs[q].token # t
  BY <1>1 DEF IInv, TypeOK, HoldersAreApart, TokenUnlocked, Others, InFlight, Idle
<1>10. \A q \in Request : q # r /\ reqs[q].phase = "inserted" => reqs[q].key # reqs[r].key
  BY <1>1 DEF IInv, HoldersAreApart, KeyUnlocked, Others
<1>11. HoldersAreApart'
  BY <1>1, <1>3, <1>4, <1>9, <1>10
  DEF IInv, HoldersAreApart, TokenUnlocked, KeyUnlocked, Others, Idle
<1> QED
  BY <1>6, <1>7, <1>8, <1>11 DEF IInv

-----------------------------------------------------------------------------
\* Every step keeps the invariant.
LEMMA NextInv == IInv /\ [Next]_vars => IInv'
<1> SUFFICES ASSUME IInv, [Next]_vars PROVE IInv'
  OBVIOUS
<1>1. CASE UNCHANGED vars
  BY <1>1 DEF vars, IInv, TypeOK, TokensExist, SpentMeansEnrolled, HoldersAreApart,
              TokenUnlocked, KeyUnlocked, Others
<1>2. CASE Tick
  <2>1. now' \in 0..MaxTime /\ UNCHANGED <<roles, tokens, devices, reqs>>
    BY <1>2, TenancyConstants DEF Tick, IInv, TypeOK
  <2> QED
    BY <2>1 DEF IInv, TypeOK, TokensExist, SpentMeansEnrolled, HoldersAreApart,
                TokenUnlocked, KeyUnlocked, Others
<1>3. ASSUME NEW who \in User, NEW o \in Org, CreateOrg(who, o) PROVE IInv'
  <2>1. roles' \in [Org -> [User -> Roles]]
    BY <1>3 DEF CreateOrg, IInv, TypeOK, Roles
  <2> QED
    BY <1>3, <2>1, RolesInv DEF CreateOrg
<1>4. ASSUME NEW who \in User, NEW o \in Org, NEW u \in User, NEW wanted \in Roles,
             AddMember(who, o, u, wanted)
      PROVE  IInv'
  <2>1. roles' \in [Org -> [User -> Roles]]
    BY <1>4 DEF AddMember, IInv, TypeOK, Roles
  <2> QED
    BY <1>4, <2>1, RolesInv DEF AddMember
<1>5. ASSUME NEW r \in Request, NEW t \in Token, NEW k \in Key, EnrollBegin(r, t, k)
      PROVE  IInv'
  <2>1. tokens[t].org \in Org /\ now \in 0..MaxTime
    BY <1>5 DEF EnrollBegin, IInv, TypeOK, TokenRow
  <2>2. [phase |-> "begun", token |-> t, key |-> k, started |-> now] \in InFlight
    BY <2>1 DEF InFlight
  <2> QED
    BY <1>5, <2>1, <2>2, BeginOrEndInv DEF EnrollBegin
<1>6. ASSUME NEW r \in Request, Drop(r) PROVE IInv'
  BY <1>6, BeginOrEndInv DEF Drop, End
<1> QED
  BY <1>1, <1>2, <1>3, <1>4, <1>5, <1>6, CreateTokenInv, SpendInv, InsertInv, CommitInv
  DEF Next

\* The inductive invariant of enrolment holds in every reachable state.
THEOREM TenancyInvariant == Spec => []IInv
BY InitInv, NextInv, PTL DEF Spec

\* A token is spent exactly when a device of the token's own organisation
\* stands for it (enroll in devices.rs), for any number of concurrent requests.
THEOREM TokenSpentMeansEnrolled == Spec => []SpentMeansEnrolled
<1>1. IInv => SpentMeansEnrolled
  BY DEF IInv
<1> QED
  BY TenancyInvariant, <1>1, PTL

\* A role once given never changes (create_org, add_member in orgs.rs).
THEOREM RolesNeverChange == Spec => RolesAreStable
<1> DEFINE Stable == \A o \in Org, u \in User : roles[o][u] # "none" => roles'[o][u] = roles[o][u]
<1>1. IInv /\ [Next]_vars => [Stable]_vars
  <2> SUFFICES ASSUME IInv, Next PROVE Stable
    BY DEF vars
  <2>1. ASSUME NEW who \in User, NEW o \in Org, CreateOrg(who, o) PROVE Stable
    BY <2>1 DEF CreateOrg, IInv, TypeOK
  <2>2. ASSUME NEW who \in User, NEW o \in Org, NEW u \in User, NEW wanted \in Roles,
               AddMember(who, o, u, wanted)
        PROVE  Stable
    BY <2>2 DEF AddMember, MayBeAdded, IInv, TypeOK
  <2> QED
    BY <2>1, <2>2 DEF Next, Tick, CreateEnrollmentToken, EnrollBegin, EnrollSpend,
                      EnrollInsert, EnrollCommit, Drop
<1> QED
  BY TenancyInvariant, <1>1, PTL DEF Spec, RolesAreStable

-----------------------------------------------------------------------------
\* A commit is the atomic enrolment of one new key with one unspent token.
LEMMA CommitImplements ==
    ASSUME IInv, NEW r \in Request, EnrollCommit(r)
    PROVE  /\ reqs[r].token \in Token /\ reqs[r].key \in Key
           /\ Once!Enrol(reqs[r].token, reqs[r].key)
<1> DEFINE t == reqs[r].token
           k == reqs[r].key
<1>1. /\ reqs[r].phase = "inserted"
      /\ tokens' = [tokens EXCEPT ![t].used = TRUE]
      /\ devices' = devices \cup {[key |-> k, org |-> tokens[t].org, token |-> t]}
  BY DEF EnrollCommit
<1>2. t \in Token /\ k \in Key
  BY <1>1 DEF IInv, TypeOK, Idle, InFlight
<1>3. ~tokens[t].used /\ \A d \in devices : d.key # k
  BY <1>1 DEF IInv, HoldersAreApart
<1>4. \A u \in Token : /\ tokens'[u].org = tokens[u].org
                       /\ tokens'[u].used = IF u = t THEN TRUE ELSE tokens[u].used
  BY <1>1, <1>2 DEF IInv, TypeOK, TokenRow
<1>5. {u \in Token : tokens'[u].used} = {u \in Token : tokens[u].used} \cup {t}
  BY <1>2, <1>4
<1>6. [u \in Token |-> tokens'[u].org] = [u \in Token |-> tokens[u].org]
  BY <1>4
<1>7. Once!Enrol(t, k)
  BY <1>1, <1>2, <1>3, <1>5, <1>6 DEF Once!Enrol
<1> QED
  BY <1>2, <1>7

\* A step that leaves the tokens and devices alone is invisible.
LEMMA Invisible ==
    ASSUME UNCHANGED <<tokens, devices>>
    PROVE  UNCHANGED Once!vars
BY DEF Once!vars

\* Enrolment is atomic: a token enrols at most one device, into its own
\* organisation, and a key belongs to at most one device of the installation,
\* however the transactions interleave, wait, fail and are retried.
THEOREM EnrolmentIsAtomic == Spec => Implements
<1>1. Init => Once!Init
  BY DEF Init, Once!Init
<1>2. IInv /\ [Next]_vars => [Once!Next]_Once!vars
  <2> SUFFICES ASSUME IInv, [Next]_vars
               PROVE  Once!Next \/ UNCHANGED Once!vars
    OBVIOUS
  <2>1. ASSUME NEW who \in User, NEW o \in Org, NEW t \in Token,
               CreateEnrollmentToken(who, o, t)
        PROVE  Once!Next
    <3>1. /\ tokens[t].org = NoOrg
          /\ tokens' = [tokens EXCEPT ![t] = [org |-> o, expires |-> now + EnrollmentTtl,
                                              used |-> FALSE]]
          /\ UNCHANGED devices
      BY <2>1 DEF CreateEnrollmentToken
    <3>2. ~tokens[t].used
      BY <3>1, TenancyConstants DEF IInv, TypeOK, SpentMeansEnrolled, DeviceRow
    <3>3. \A u \in Token : /\ u # t => tokens'[u] = tokens[u]
                           /\ tokens'[u].used = tokens[u].used
      BY <3>1, <3>2 DEF IInv, TypeOK, TokenRow
    <3> QED
      BY <3>1, <3>2, <3>3 DEF Once!Next, Once!Issue
  <2>2. ASSUME NEW r \in Request, EnrollCommit(r) PROVE Once!Next
    BY <2>2, CommitImplements DEF Once!Next, Once!Enrol
  <2>3. CASE UNCHANGED <<tokens, devices>>
    BY <2>3, Invisible
  <2> QED
    BY <2>1, <2>2, <2>3 DEF Next, vars, Tick, CreateOrg, AddMember, EnrollBegin,
                            EnrollSpend, EnrollInsert, Drop
<1> QED
  BY <1>1, <1>2, TenancyInvariant, PTL DEF Spec, Implements, Once!Spec

=============================================================================
