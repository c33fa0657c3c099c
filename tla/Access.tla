------------------------------- MODULE Access -------------------------------
(***************************************************************************)
(* crates/control/src/groups.rs, grants.rs and revoke_device: who may use  *)
(* which device, and the session grants issued on that ground.             *)
(*                                                                         *)
(* Roles and the organisation of a device never change once they are set   *)
(* (Tenancy checks it), so here they are constants.  The checks of role,   *)
(* group, member and device that precede a handler's one writing statement *)
(* therefore still hold when it runs, and such a handler is one action.    *)
(* issue_grant is not: it reads the rules, which other handlers change,    *)
(* reads the clock when the answer is there, and inserts the grant in a    *)
(* later transaction.                                                      *)
(*                                                                         *)
(* Names, the mode of a grant and the signature are left out; the audit    *)
(* rows these handlers add are read by no other handler.                   *)
(***************************************************************************)
EXTENDS Naturals, Sequences

CONSTANTS
    User, Device, Org, Group, Capability,
    RoleOf,            \* RoleOf[o][u]: the membership row, or "none"
    OrgOf,             \* OrgOf[d]: the organisation d enrolled into
    NoOrg,             \* the group does not exist yet
    Request,           \* issue_grant requests in progress at the same time
    GrantTtl,          \* GRANT_TTL_SECS
    MaxTime,           \* bound on the clock
    MaxGrants          \* bound on the grants ever issued

VARIABLES
    now,
    active,            \* devices whose status is 'active'
    groups,            \* device_groups: the organisation of each
    inGroup,           \* device_group_members
    rules,             \* acl_rules: capabilities by user and group, {} for no rule
    grants,            \* the rows of `grants`, in order of insertion
    reqs,              \* issue_grant requests between their read and their insert
    permitted          \* history: when each user was last permitted each capability

vars == <<now, active, groups, inGroup, rules, grants, reqs, permitted>>

Roles == {"none", "member", "admin", "owner"}
StartTime == 1
Never == 0

ASSUME AccessConstants ==
    /\ RoleOf \in [Org -> [User -> Roles]]
    /\ OrgOf \in [Device -> Org]
    /\ NoOrg \notin Org
    /\ {GrantTtl, MaxTime} \subseteq Nat \ {0} /\ MaxGrants \in Nat

\* waited is history: how long the answer with the rules was on its way.
GrantRow == [operator : User, device : Device, caps : (SUBSET Capability) \ {{}},
             nbf : Nat, exp : Nat, waited : Nat, revoked : BOOLEAN]

Idle == [phase |-> "idle"]

\* A request that has read the rules, and one that has read the clock, too;
\* read is history: when the rules were read.
Signing == [phase : {"sign"}, operator : User, device : Device,
            caps : (SUBSET Capability) \ {{}}, read : Nat]
Inserting == [phase : {"insert"}, operator : User, device : Device,
              caps : (SUBSET Capability) \ {{}}, read : Nat, nbf : Nat]

TypeOK ==
    /\ now \in StartTime..MaxTime
    /\ active \subseteq Device
    /\ groups \in [Group -> Org \cup {NoOrg}]
    /\ inGroup \subseteq Group \X Device
    /\ rules \in [User -> [Group -> SUBSET Capability]]
    /\ grants \in Seq(GrantRow) /\ Len(grants) <= MaxGrants
    /\ reqs \in [Request -> Signing \cup Inserting \cup {Idle}]
    /\ permitted \in [User -> [Device -> [Capability -> Nat]]]

Init ==
    /\ now = StartTime
    /\ active = Device
    /\ groups = [g \in Group |-> NoOrg]
    /\ inGroup = {}
    /\ rules = [u \in User |-> [g \in Group |-> {}]]
    /\ grants = <<>>
    /\ reqs = [r \in Request |-> Idle]
    /\ permitted = [u \in User |-> [d \in Device |-> [c \in Capability |-> Never]]]

-----------------------------------------------------------------------------
\* require_role: roles compare as Member < Admin < Owner.
HasRole(u, o, minimum) ==
    LET rank == [none |-> 0, member |-> 1, admin |-> 2, owner |-> 3]
    IN  rank[RoleOf[o][u]] >= rank[minimum]

GroupsWith(o, d) == {g \in Group : groups[g] = o /\ <<g, d>> \in inGroup}

\* Slip: the join does not look at the status of the device.
EffectiveOfAnyDevice(u, o, d) ==
    IF OrgOf[d] = o THEN UNION {rules[u][g] : g \in GroupsWith(o, d)} ELSE {}

\* effective_capabilities: the union over the rules whose group holds the
\* device; nothing for a revoked device or one of another organisation.
Effective(u, o, d) ==
    IF d \in active /\ OrgOf[d] = o
      THEN UNION {rules[u][g] : g \in GroupsWith(o, d)} ELSE {}

CreateGroup(who, o, g) ==
    /\ HasRole(who, o, "admin")
    /\ groups[g] = NoOrg
    /\ groups' = [groups EXCEPT ![g] = o]
    /\ UNCHANGED <<now, active, inGroup, rules, grants, reqs>>

AddGroupDevice(who, o, g, d) ==
    /\ HasRole(who, o, "admin")
    /\ groups[g] = o /\ OrgOf[d] = o
    /\ inGroup' = inGroup \cup {<<g, d>>}
    /\ UNCHANGED <<now, active, groups, rules, grants, reqs>>

RemoveGroupDevice(who, o, g, d) ==
    /\ HasRole(who, o, "admin")
    /\ groups[g] = o /\ <<g, d>> \in inGroup
    /\ inGroup' = inGroup \ {<<g, d>>}
    /\ UNCHANGED <<now, active, groups, rules, grants, reqs>>

\* What normalize_capabilities accepts of names among those allowed.
Requests(allowed) == (SUBSET allowed) \ {{}}

\* Slip: anybody with an account may be given a rule.
MayHoldRule(u, o) == TRUE

\* put_acl's look-up of the membership.
IsMember(u, o) == RoleOf[o][u] # "none"

PutAcl(who, o, u, g, caps) ==
    /\ HasRole(who, o, "admin")
    /\ caps \in Requests(Capability)
    /\ groups[g] = o /\ IsMember(u, o)
    /\ rules' = [rules EXCEPT ![u][g] = caps]
    /\ UNCHANGED <<now, active, groups, inGroup, grants, reqs>>

DeleteAcl(who, o, u, g) ==
    /\ HasRole(who, o, "admin")
    /\ groups[g] = o /\ rules[u][g] # {}
    /\ rules' = [rules EXCEPT ![u][g] = {}]
    /\ UNCHANGED <<now, active, groups, inGroup, grants, reqs>>

RevokeDevice(who, o, d) ==
    /\ HasRole(who, o, "admin")
    /\ d \in active /\ OrgOf[d] = o
    /\ active' = active \ {d}
    /\ UNCHANGED <<now, groups, inGroup, rules, grants, reqs>>

-----------------------------------------------------------------------------
\* issue_grant reads the rules, and the requested part of them is fixed.
IssueRead(r, u, o, d, caps) ==
    /\ reqs[r] = Idle /\ Len(grants) < MaxGrants
    /\ HasRole(u, o, "member") /\ OrgOf[d] = o
    /\ caps \in Requests(Effective(u, o, d))
    /\ reqs' = [reqs EXCEPT ![r] = [phase |-> "sign", operator |-> u, device |-> d,
                                    caps |-> caps, read |-> now]]
    /\ UNCHANGED <<now, active, groups, inGroup, rules, grants>>

\* The answer is there: the clock is read for not_before, and the claims are
\* signed.
IssueSign(r) ==
    /\ reqs[r].phase = "sign"
    /\ reqs' = [reqs EXCEPT ![r] =
          [phase |-> "insert", operator |-> @.operator, device |-> @.device,
           caps |-> @.caps, read |-> @.read, nbf |-> now]]
    /\ UNCHANGED <<now, active, groups, inGroup, rules, grants>>

\* Slip: the validity starts when the row is written.
NotBeforeAtInsert(r) == now

NotBefore(r) == reqs[r].nbf

\* The transaction that inserts the row; the answer carries the token.
IssueInsert(r) ==
    /\ reqs[r].phase = "insert"
    /\ Len(grants) < MaxGrants
    /\ grants' = Append(grants,
                    [operator |-> reqs[r].operator, device |-> reqs[r].device,
                     caps |-> reqs[r].caps, nbf |-> NotBefore(r),
                     exp |-> NotBefore(r) + GrantTtl,
                     waited |-> reqs[r].nbf - reqs[r].read, revoked |-> FALSE])
    /\ reqs' = [reqs EXCEPT ![r] = Idle]
    /\ UNCHANGED <<now, active, groups, inGroup, rules>>

\* revoke_grant: the operator of the grant or an admin; anyone else gets 404.
RevokeGrant(who, o, i) ==
    /\ OrgOf[grants[i].device] = o
    /\ HasRole(who, o, "member")
    /\ who = grants[i].operator \/ HasRole(who, o, "admin")
    /\ ~grants[i].revoked
    /\ grants' = [grants EXCEPT ![i].revoked = TRUE]
    /\ UNCHANGED <<now, active, groups, inGroup, rules, reqs>>

\* The request ends between two of its steps.
Drop(r) ==
    /\ reqs[r].phase # "idle"
    /\ reqs' = [reqs EXCEPT ![r] = Idle]
    /\ UNCHANGED <<now, active, groups, inGroup, rules, grants>>

Tick ==
    /\ now < MaxTime
    /\ now' = now + 1
    /\ UNCHANGED <<active, groups, inGroup, rules, grants, reqs>>

Step ==
    \/ Tick
    \/ \E r \in Request : IssueSign(r) \/ IssueInsert(r) \/ Drop(r)
    \/ \E who \in User, o \in Org :
          \/ \E g \in Group : CreateGroup(who, o, g)
          \/ \E g \in Group, d \in Device : \/ AddGroupDevice(who, o, g, d)
                                            \/ RemoveGroupDevice(who, o, g, d)
          \/ \E u \in User, g \in Group :
                \/ \E caps \in Requests(Capability) : PutAcl(who, o, u, g, caps)
                \/ DeleteAcl(who, o, u, g)
          \/ \E d \in Device : RevokeDevice(who, o, d)
          \/ \E r \in Request, d \in Device, caps \in Requests(Capability) :
                IssueRead(r, who, o, d, caps)
          \/ \E i \in DOMAIN grants : RevokeGrant(who, o, i)

\* What user u may do on device d, said without effective_capabilities: the
\* device is active and in a group for which the user has a rule.
Permitted(u, d) ==
    {c \in Capability : /\ d \in active
                        /\ \E g \in Group : <<g, d>> \in inGroup /\ c \in rules[u][g]}

\* The history variable follows every step.
Remember ==
    permitted' = [u \in User |-> [d \in Device |-> [c \in Capability |->
                    IF c \in Permitted(u, d)' THEN now' ELSE permitted[u][d][c]]]]

Next == Step /\ Remember

Spec == Init /\ [][Next]_vars

-----------------------------------------------------------------------------
\* Taking access away works in the end: GrantTtl after a rule went, a device
\* left the group or was revoked, no grant for what was lost is valid any more,
\* although issue_grant may sign and insert one after the change.  Only the time
\* that the answer with the rules took to arrive comes on top of it, and not the
\* time the insert takes.  A capability that was never permitted is in no grant.
AccessEndsInTime ==
    \A i \in DOMAIN grants : \A c \in grants[i].caps :
        LET last == permitted[grants[i].operator][grants[i].device][c]
        IN  last # Never /\ grants[i].exp <= last + GrantTtl + grants[i].waited

\* No sequence of group, rule and device changes gives somebody access to a
\* device of an organisation they do not belong to.
TenantsStayApart ==
    \A u \in User, d \in Device :
        Permitted(u, d) # {} => RoleOf[OrgOf[d]][u] # "none"

\* Why: the history is never in the future and names the present while
\* something is permitted, and a request in progress holds what was permitted
\* when it read the rules, which was before it read the clock.
PermittedIsRecent ==
    \A u \in User, d \in Device, c \in Capability :
        /\ permitted[u][d][c] <= now
        /\ c \in Permitted(u, d) => permitted[u][d][c] = now

InFlightWasPermitted ==
    \A r \in Request : reqs[r].phase # "idle" =>
        /\ reqs[r].read <= now
        /\ reqs[r].phase = "insert" => reqs[r].read <= reqs[r].nbf
        /\ \A c \in reqs[r].caps :
              LET last == permitted[reqs[r].operator][reqs[r].device][c]
              IN  last # Never /\ reqs[r].read <= last

IInv == /\ TypeOK
        /\ PermittedIsRecent
        /\ InFlightWasPermitted
        /\ AccessEndsInTime

\* Why tenants stay apart: rules are held by members of the group's
\* organisation, and a group holds devices of its own organisation only.
TenantInv ==
    /\ TypeOK
    /\ \A u \in User, g \in Group :
          rules[u][g] # {} => groups[g] \in Org /\ RoleOf[groups[g]][u] # "none"
    /\ \A g \in Group, d \in Device : <<g, d>> \in inGroup => groups[g] = OrgOf[d]

=============================================================================
