-------------------------------- MODULE Agent --------------------------------
(***************************************************************************)
(* The device side of a connection: several connection requests at a time, *)
(* each taken through the three calls of crates/grant in the order         *)
(* docs/AGENT-INTEGRATION.md prescribes:                                   *)
(*                                                                         *)
(*    verify  ->  ReplayCache::accept  ->  authorize_connection            *)
(*                                                                         *)
(* The three calls and the cache are the repository's; the loop that calls *)
(* them belongs to the remote-desktop client and is external.  A request   *)
(* occupies a slot until it is decided; slots are reused.  Between two     *)
(* calls of one request the clock may advance, the owner may change the    *)
(* device's settings and other requests may run.  The device's clock never *)
(* goes back here: set back far enough after a grant expired and was       *)
(* forgotten, it would make the grant usable once more.                    *)
(***************************************************************************)
EXTENDS Grant

CONSTANTS
    Slot,          \* requests being handled at the same time
    Token,         \* the tokens that may be presented, any number of times
    TrustedKeys,   \* keys the agent stored at enrolment
    Device, Org,   \* the identity of this device
    NoClaims,      \* an idle slot holds no claims
    FreshClock,    \* TRUE: the clock is read for every call;
                   \* FALSE: once, when the request arrives
    MaxTime        \* bound on the clock

VARIABLES
    now,           \* the device's clock
    seen,          \* ReplayCache.seen
    slots,         \* the requests in progress
    outcome,       \* how the request that ended last did end
    revoked,       \* ids on the device's revocation list
    opened         \* history: sessions opened per grant id by this process

vars == <<now, seen, slots, outcome, revoked, opened>>

\* A token a trusted key really signed.
Signed(t) == /\ t.form \notin {"too_long", "malformed", "bad_signature",
                               "bad_payload"}
             /\ t.kid \in TrustedKeys
             /\ t.signer = t.kid

SignedClaims == {t.claims : t \in {u \in Token : Signed(u)}}
Jti == {c.jti : c \in SignedClaims}

(***************************************************************************)
(* issue_grant draws a fresh UUID per grant and signs it once, so two      *)
(* signed claims with one id are the same claims.                          *)
(***************************************************************************)
ASSUME JtiUnique == \A c, d \in SignedClaims : c.jti = d.jti => c = d
ASSUME TokenTimes == \A t \in Token : t.claims.nbf \in Nat /\ t.claims.exp \in Nat
ASSUME AgentConstants == /\ FreshClock \in BOOLEAN
                         /\ MaxTime \in Nat
                         /\ NoClaims \notin SignedClaims

\* How a request that passed verify can end.
Results == {"none", "ok", "Replay", "WrongDevice", "Content"} \cup Denials
Phases == {"idle", "verified", "accepted"}

Idle == [phase |-> "idle", claims |-> NoClaims, at |-> 0]

\* The value of `now` a call receives: a new reading or the request's own.
Reading(s) == IF FreshClock THEN now ELSE slots[s].at

TypeOK ==
    /\ now \in 0..MaxTime
    /\ DOMAIN seen \subseteq Jti
    /\ \A j \in DOMAIN seen : seen[j] \in Nat
    /\ seen = [j \in DOMAIN seen |-> seen[j]]
    /\ slots \in [Slot -> [phase : Phases, claims : SignedClaims \cup {NoClaims},
                           at : 0..MaxTime]]
    /\ outcome \in Results
    /\ revoked \subseteq Jti
    /\ opened \in [Jti -> Nat]

Init == /\ now = 0
        /\ seen = EmptyCache
        /\ slots = [s \in Slot |-> Idle]
        /\ outcome = "none"
        /\ revoked = {}
        /\ opened = [j \in Jti |-> 0]

\* A request arrives with token t and verify accepts it.  A token it refuses
\* leaves no trace, so the refusal is a stuttering step.
Present(s, t) ==
    /\ slots[s].phase = "idle"
    /\ Verify(t, TrustedKeys, now, Device) = "ok"
    /\ slots' = [slots EXCEPT ![s] =
                    [phase |-> "verified", claims |-> t.claims,
                     at |-> IF FreshClock THEN 0 ELSE now]]
    /\ UNCHANGED <<now, seen, outcome, revoked, opened>>

\* ReplayCache::accept on the verified claims: a replay ends the request.
Accept(s) ==
    LET c == slots[s].claims
        replay == IsReplay(seen, c.jti, Reading(s))
    IN  /\ slots[s].phase = "verified"
        /\ seen' = CacheAfter(seen, c.jti, c.exp, Reading(s))
        /\ slots' = [slots EXCEPT ![s] = IF replay THEN Idle
                                        ELSE [@ EXCEPT !.phase = "accepted"]]
        /\ outcome' = IF replay THEN "Replay" ELSE outcome
        /\ UNCHANGED <<now, revoked, opened>>

\* What the device knows and decides at the moment of the call.
LocalStates(jti) ==
    [org_id : {Org}, device_id : {Device}, device_enabled : BOOLEAN,
     unattended_enabled : BOOLEAN, local_capabilities : SUBSET Capability,
     grant_revoked : {jti \in revoked}, session_consent : BOOLEAN]

\* Every way authorize_connection can answer the request in slot s now.
Answers(s) ==
    {AuthorizeConnection(slots[s].claims, local, requested, Reading(s)) :
        local \in LocalStates(slots[s].claims.jti), requested \in SUBSET Capability}

\* authorize_connection decides; an "ok" opens the session.
Decide(s) ==
    /\ slots[s].phase = "accepted"
    /\ outcome' \in Answers(s)
    /\ slots' = [slots EXCEPT ![s] = Idle]
    /\ opened' = [opened EXCEPT ![slots[s].claims.jti] =
                                IF outcome' = "ok" THEN @ + 1 ELSE @]
    /\ UNCHANGED <<now, seen, revoked>>

\* The server's or the owner's revocation reaches the device (external).
Revoke(j) == /\ revoked' = revoked \cup {j}
             /\ UNCHANGED <<now, seen, slots, outcome, opened>>

Tick == /\ now < MaxTime
        /\ now' = now + 1
        /\ UNCHANGED <<seen, slots, outcome, revoked, opened>>

\* The agent process restarts: its requests end and the cache, which lives in
\* memory only, is ReplayCache::new() again.  What the old process opened is
\* forgotten with it; the revocation list is kept.
Restart == /\ seen' = EmptyCache
           /\ slots' = [s \in Slot |-> Idle]
           /\ outcome' = "none"
           /\ opened' = [j \in Jti |-> 0]
           /\ UNCHANGED <<now, revoked>>

Next == \/ Tick \/ Restart
        \/ \E j \in Jti : Revoke(j)
        \/ \E s \in Slot : \/ \E t \in Token : Present(s, t)
                           \/ Accept(s)
                           \/ Decide(s)

Spec == Init /\ [][Next]_vars

-----------------------------------------------------------------------------
(***************************************************************************)
(* Properties.                                                             *)
(***************************************************************************)

\* One grant opens at most one session of an agent process (grant/lib.rs,
\* ReplayCache), whatever the interleaving of the requests that present it and
\* although the cache forgets a grant as soon as it expires.  An agent that
\* reads its clock once per request opens another one only after the expiry,
\* to a request that came before it.
OneSessionPerGrant ==
    \A c \in SignedClaims : opened[c.jti] > 1 => ~FreshClock /\ now >= c.exp

\* Until a grant expires, having opened a session or being about to is
\* remembered by the cache: no purge run on behalf of another request can
\* drop it early.
Remembered ==
    \A c \in SignedClaims :
        now < c.exp =>
            \/ c.jti \in DOMAIN seen /\ seen[c.jti] = c.exp
            \/ /\ opened[c.jti] = 0
               /\ \A s \in Slot : slots[s].phase = "accepted" => slots[s].claims # c

\* Two requests with one grant are never both past the cache while the grant
\* can still open a session.
OneAccepted ==
    \A s, r \in Slot :
        /\ s # r
        /\ slots[s].phase = "accepted" /\ slots[r].phase = "accepted"
        /\ slots[s].claims = slots[r].claims
        => now >= slots[s].claims.exp

\* No request whose grant already opened a session is past the cache while
\* the grant can still open one.
NoneAcceptedAfterSession ==
    \A s \in Slot :
        slots[s].phase = "accepted" /\ opened[slots[s].claims.jti] > 0
        => now >= slots[s].claims.exp

\* A request in progress holds claims a trusted key signed, and the cache
\* holds the expiry that was signed.
HoldsSignedClaims ==
    /\ \A s \in Slot : slots[s].phase # "idle" => slots[s].claims \in SignedClaims
    /\ \A c \in SignedClaims : c.jti \in DOMAIN seen => seen[c.jti] = c.exp

ReadingsAreNotAhead == \A s \in Slot : slots[s].at <= now

\* Why one grant opens one session: the inductive invariant.
IInv == /\ TypeOK
        /\ ReadingsAreNotAhead
        /\ HoldsSignedClaims
        /\ Remembered
        /\ OneAccepted
        /\ NoneAcceptedAfterSession
        /\ OneSessionPerGrant

\* verify has already refused what the last stage would refuse for the
\* identity or the content of the grant: after it, only another organisation,
\* the time, the device's owner or the request itself can be the reason.
VerifiedIsWellFormed ==
    [][\A s \in Slot :
          slots[s].phase = "accepted" /\ slots'[s].phase = "idle"
          => outcome' \notin {"WrongDevice", "Content", "InvalidIdentity",
                               "WrongGrantBinding", "OperatorNotAllowed"}]_vars

\* The cache does not grow for ever: after a request went through accept,
\* everything remembered is unexpired.
CacheIsUnexpired ==
    [][\A s \in Slot :
          slots[s].phase = "verified" /\ slots'[s].phase # "verified"
          => \A j \in DOMAIN seen' : seen'[j] > Reading(s) \/ seen'[j] = slots[s].claims.exp]_vars

\* A grant whose start lies a little in the future is tolerated ("How far into
\* the future a grant's start time may be (clock differences)"): a request
\* that verify accepted is not refused afterwards because the grant has not
\* started.
StartSkewTolerated ==
    [][\A s \in Slot :
          /\ slots[s].phase = "accepted" /\ slots'[s].phase = "idle"
          /\ outcome' = "InvalidGrantTime"
          => Reading(s) >= slots[s].claims.nbf]_vars

-----------------------------------------------------------------------------
\* The abstract promise, with every grant id mapped to its signed window.
ClaimsOf(j) == CHOOSE c \in SignedClaims : c.jti = j

Once == INSTANCE GrantOnce WITH
            NotBefore <- [j \in Jti |-> ClaimsOf(j).nbf],
            ExpiresAt <- [j \in Jti |-> ClaimsOf(j).exp]

Implements == Once!Spec

=============================================================================
