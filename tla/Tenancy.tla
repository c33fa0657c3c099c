------------------------------- MODULE Tenancy -------------------------------
(***************************************************************************)
(* crates/control/src/orgs.rs and the enrolment of devices.rs: the         *)
(* organisations, their members, the one-time enrolment tokens and the     *)
(* devices they let in.                                                    *)
(*                                                                         *)
(* Enrolment is one transaction of two statements.  Between them it holds  *)
(* the lock of the token's row, and from its second statement on the entry *)
(* of its key in the unique index: who needs either waits until the        *)
(* transaction ends.  What it wrote is visible only after the commit.      *)
(*                                                                         *)
(* The other handlers change one row after checks nobody can invalidate    *)
(* (RolesAreStable) and are one action each.  The audit rows they add are  *)
(* read by no handler but list_events and are left out.                    *)
(***************************************************************************)
EXTENDS Naturals

CONSTANTS User, Org, Token, Key,
          Request,         \* enrolment requests in progress at the same time
          NoOrg,           \* the token does not exist yet
          EnrollmentTtl,   \* ENROLLMENT_TTL_SECS
          MaxTime          \* bound on the clock

VARIABLES now,
          roles,           \* memberships, "none" for no row
          tokens,          \* enrollment_tokens
          devices,         \* devices; token is history
          reqs             \* enrolment transactions in progress

vars == <<now, roles, tokens, devices, reqs>>

Roles == {"none", "member", "admin", "owner"}

ASSUME TenancyConstants ==
    /\ NoOrg \notin Org
    /\ EnrollmentTtl \in Nat \ {0} /\ MaxTime \in Nat

TokenRow == [org : Org \cup {NoOrg}, expires : Nat, used : BOOLEAN]
DeviceRow == [key : Key, org : Org, token : Token]

Idle == [phase |-> "idle"]
InFlight == [phase : {"begun", "spent", "inserted"},
             token : Token, key : Key, started : 0..MaxTime]

TypeOK ==
    /\ now \in 0..MaxTime
    /\ roles \in [Org -> [User -> Roles]]
    /\ tokens \in [Token -> TokenRow]
    /\ devices \subseteq DeviceRow
    /\ reqs \in [Request -> InFlight \cup {Idle}]

Init ==
    /\ now = 0
    /\ roles = [o \in Org |-> [u \in User |-> "none"]]
    /\ tokens = [t \in Token |-> [org |-> NoOrg, expires |-> 0, used |-> FALSE]]
    /\ devices = {}
    /\ reqs = [r \in Request |-> Idle]

-----------------------------------------------------------------------------
\* require_role: Member < Admin < Owner.
HasRole(u, o, minimum) ==
    LET rank == [none |-> 0, member |-> 1, admin |-> 2, owner |-> 3]
    IN  rank[roles[o][u]] >= rank[minimum]

CreateOrg(who, o) ==
    /\ \A u \in User : roles[o][u] = "none"
    /\ roles' = [roles EXCEPT ![o][who] = "owner"]
    /\ UNCHANGED <<now, tokens, devices, reqs>>

\* Slip: adding somebody again overwrites the role they have.
MayAlwaysBeAdded(o, u) == TRUE

\* The primary key of memberships: a second row is a 409.
MayBeAdded(o, u) == roles[o][u] = "none"

AddMember(who, o, u, wanted) ==
    /\ HasRole(who, o, "admin")
    /\ wanted \in {"member", "admin"}
    /\ wanted = "admin" => roles[o][who] = "owner"
    /\ MayBeAdded(o, u)
    /\ roles' = [roles EXCEPT ![o][u] = wanted]
    /\ UNCHANGED <<now, tokens, devices, reqs>>

CreateEnrollmentToken(who, o, t) ==
    /\ HasRole(who, o, "admin")
    /\ tokens[t].org = NoOrg
    /\ tokens' = [tokens EXCEPT ![t] = [org |-> o, expires |-> now + EnrollmentTtl,
                                        used |-> FALSE]]
    /\ UNCHANGED <<now, roles, devices, reqs>>

-----------------------------------------------------------------------------
(***************************************************************************)
(* POST /v1/devices/enroll                                                 *)
(***************************************************************************)
\* The signature over token, name and key is checked before the transaction
\* begins.  now() in the database is the time the transaction began.
EnrollBegin(r, t, k) ==
    /\ reqs[r] = Idle
    /\ tokens[t].org # NoOrg
    /\ reqs' = [reqs EXCEPT ![r] = [phase |-> "begun", token |-> t, key |-> k,
                                    started |-> now]]
    /\ UNCHANGED <<now, roles, tokens, devices>>

Others(r, phases) == {q \in Request \ {r} : reqs[q].phase \in phases}

\* Slips: no lock is taken; a lock is taken before it is known to be free.
TokenNeverLocked(r) == TRUE
KeyNeverLocked(r) == TRUE
TokenLockedFromBegin(r) ==
    \A q \in Others(r, {"begun", "spent", "inserted"}) : reqs[q].token # reqs[r].token

\* No other transaction holds the row of the token, or the key in the index.
TokenUnlocked(r) == \A q \in Others(r, {"spent", "inserted"}) : reqs[q].token # reqs[r].token
KeyUnlocked(r) == \A q \in Others(r, {"inserted"}) : reqs[q].key # reqs[r].key

Usable(r) == /\ ~tokens[reqs[r].token].used
             /\ tokens[reqs[r].token].expires > reqs[r].started

Goto(r, phase) == reqs' = [reqs EXCEPT ![r].phase = phase]
End(r) == reqs' = [reqs EXCEPT ![r] = Idle]

\* Slip: the token is spent by a statement of its own, outside the transaction.
EnrollSpendAtOnce(r) ==
    /\ reqs[r].phase = "begun" /\ TokenUnlocked(r)
    /\ IF Usable(r)
         THEN Goto(r, "spent") /\ tokens' = [tokens EXCEPT ![reqs[r].token].used = TRUE]
         ELSE End(r) /\ UNCHANGED tokens
    /\ UNCHANGED <<now, roles, devices>>

\* UPDATE enrollment_tokens: waits for the row, then looks at it again.  No
\* row is a 401.
EnrollSpend(r) ==
    /\ reqs[r].phase = "begun" /\ TokenUnlocked(r)
    /\ IF Usable(r) THEN Goto(r, "spent") ELSE End(r)
    /\ UNCHANGED <<now, roles, tokens, devices>>

\* INSERT INTO devices: waits for a transaction that inserts the same key.  A
\* key that is registered is a 409 and the transaction is rolled back.
EnrollInsert(r) ==
    /\ reqs[r].phase = "spent" /\ KeyUnlocked(r)
    /\ IF \E d \in devices : d.key = reqs[r].key THEN End(r) ELSE Goto(r, "inserted")
    /\ UNCHANGED <<now, roles, tokens, devices>>

EnrollCommit(r) ==
    LET t == reqs[r].token
    IN  /\ reqs[r].phase = "inserted"
        /\ tokens' = [tokens EXCEPT ![t].used = TRUE]
        /\ devices' = devices \cup {[key |-> reqs[r].key, org |-> tokens[t].org, token |-> t]}
        /\ End(r)
        /\ UNCHANGED <<now, roles>>

\* The connection closes or the database fails: everything is rolled back.
Drop(r) ==
    /\ reqs[r] # Idle
    /\ End(r)
    /\ UNCHANGED <<now, roles, tokens, devices>>

Tick ==
    /\ now < MaxTime
    /\ now' = now + 1
    /\ UNCHANGED <<roles, tokens, devices, reqs>>

Next ==
    \/ Tick
    \/ \E who \in User, o \in Org :
          \/ CreateOrg(who, o)
          \/ \E u \in User, wanted \in Roles : AddMember(who, o, u, wanted)
          \/ \E t \in Token : CreateEnrollmentToken(who, o, t)
    \/ \E r \in Request :
          \/ \E t \in Token, k \in Key : EnrollBegin(r, t, k)
          \/ EnrollSpend(r) \/ EnrollInsert(r) \/ EnrollCommit(r) \/ Drop(r)

Spec == Init /\ [][Next]_vars

\* The database executes a statement whose locks become free: waiters are
\* served in the order they came, so newcomers cannot overtake for ever.
Fairness == \A r \in Request : /\ SF_vars(EnrollSpend(r))
                               /\ SF_vars(EnrollInsert(r))
                               /\ WF_vars(EnrollCommit(r))

FairSpec == Spec /\ Fairness

-----------------------------------------------------------------------------
\* A token is spent exactly when a device stands for it, in the token's own
\* organisation: neither a refused key nor a broken connection spends a token
\* ("the token stays unspent"), and no device enters without one.
SpentMeansEnrolled ==
    /\ \A t \in Token : tokens[t].used <=> \E d \in devices : d.token = t
    /\ \A d \in devices : d.org = tokens[d.token].org

\* Transactions that could still commit do not compete: they hold different
\* unspent tokens, and those past their second statement different new keys.
HoldersAreApart ==
    /\ \A r \in Request : reqs[r].phase \in {"spent", "inserted"} =>
          /\ ~tokens[reqs[r].token].used
          /\ TokenUnlocked(r)
    /\ \A r \in Request : reqs[r].phase = "inserted" =>
          /\ KeyUnlocked(r)
          /\ \A d \in devices : d.key # reqs[r].key

\* A transaction in progress works on a token that was made.
TokensExist == \A r \in Request : reqs[r] # Idle => tokens[reqs[r].token].org \in Org

\* The inductive invariant.
IInv == /\ TypeOK
        /\ TokensExist
        /\ SpentMeansEnrolled
        /\ HoldersAreApart

\* A role once given never changes: an admin cannot demote the owner or raise
\* a member by adding them again.  The other handlers rely on it, because they
\* check the role in a statement of its own before they write.
RolesAreStable ==
    [][\A o \in Org, u \in User : roles[o][u] # "none" => roles'[o][u] = roles[o][u]]_vars

\* Enrolments that wait for each other's token or key all end: the locks are
\* taken in one order, token before key.
EnrolEnds == \A r \in Request : reqs[r] # Idle ~> reqs[r] = Idle

Once == INSTANCE EnrolOnce WITH
            issued <- [t \in Token |-> tokens[t].org],
            used <- {t \in Token : tokens[t].used}

\* Enrolment is atomic: what the transactions commit is what enrolling one
\* device at a time could have done.
Implements == Once!Spec

=============================================================================
