---------------------------- MODULE Agent_proofs ----------------------------
(***************************************************************************)
(* Theorems about the device side for every set of slots, tokens, keys and *)
(* every bound.  Only the refinement is about an agent that reads its      *)
(* clock for every call (FreshClock); with one reading per request a grant *)
(* may open a second session after its expiry.                             *)
(***************************************************************************)
EXTENDS Agent, TLAPS

\* A token verify accepts was signed by a trusted key (grant/lib.rs, verify),
\* for this device.
LEMMA VerifyAcceptsSigned ==
    ASSUME NEW t \in Token, NEW time \in Nat,
           Verify(t, TrustedKeys, time, Device) = "ok"
    PROVE  t.claims \in SignedClaims /\ t.claims.device = Device
<1>1. Signed(t)
  BY DEF Verify, SignatureValid, Signed
<1>2. CheckClaims(t.claims, time, Device) = "ok"
  BY DEF Verify
<1>3. t.claims.device = Device
  BY <1>2 DEF CheckClaims
<1> QED
  BY <1>1, <1>3 DEF SignedClaims

\* Signed claims have natural times, and their id is one of Jti.
LEMMA SignedClaimsTimes ==
    ASSUME NEW c \in SignedClaims
    PROVE  c.nbf \in Nat /\ c.exp \in Nat /\ c.jti \in Jti
BY TokenTimes DEF SignedClaims, Jti

\* The only answer that opens a session is given inside the validity window
\* of the grant and while it is not revoked (authorize_connection).
LEMMA OkIsInWindow ==
    ASSUME NEW s \in Slot, "ok" \in Answers(s)
    PROVE  /\ slots[s].claims.nbf <= Reading(s)
           /\ Reading(s) < slots[s].claims.exp
           /\ slots[s].claims.jti \notin revoked
<1> DEFINE c == slots[s].claims
<1>1. PICK local \in LocalStates(c.jti), requested \in SUBSET Capability :
         AuthorizeConnection(c, local, requested, Reading(s)) = "ok"
  BY DEF Answers
<1>2. Authorize(ConnectionContext(c, local, Reading(s)), requested) = "ok"
  BY <1>1 DEF AuthorizeConnection
<1>3. local.grant_revoked = (c.jti \in revoked)
  BY <1>1 DEF LocalStates
<1> QED
  BY <1>2, <1>3 DEF Authorize, InWindow, ConnectionContext

-----------------------------------------------------------------------------
\* The device starts in a state the inductive invariant describes.
LEMMA InitInv == Init => IInv
BY SignedClaimsTimes, AgentConstants
DEF Init, IInv, TypeOK, HoldsSignedClaims, Remembered, OneAccepted,
    NoneAcceptedAfterSession, OneSessionPerGrant, ReadingsAreNotAhead, Idle, EmptyCache,
    Phases, Results

\* Presenting a token (verify) keeps the invariant: only the request's own
\* slot changes and it is not past the cache yet.
LEMMA PresentInv ==
    ASSUME IInv, NEW s \in Slot, NEW t \in Token, Present(s, t)
    PROVE  IInv'
<1> DEFINE new == [phase |-> "verified", claims |-> t.claims,
                   at |-> IF FreshClock THEN 0 ELSE now]
<1>1. t.claims \in SignedClaims
  BY VerifyAcceptsSigned, AgentConstants DEF Present, IInv, TypeOK
<1>2. /\ slots' = [slots EXCEPT ![s] = new]
      /\ UNCHANGED <<now, seen, outcome, revoked, opened>>
  BY DEF Present
<1>3. TypeOK'
  BY <1>1, <1>2, AgentConstants DEF IInv, TypeOK, Phases
<1>4. \A r \in Slot : slots'[r].phase = "accepted" => r # s /\ slots'[r] = slots[r]
  BY <1>2 DEF IInv, TypeOK
<1>5. HoldsSignedClaims'
  BY <1>1, <1>2 DEF IInv, TypeOK, HoldsSignedClaims
<1>6. Remembered' /\ OneAccepted' /\ NoneAcceptedAfterSession' /\ OneSessionPerGrant'
  BY <1>2, <1>4 DEF IInv, Remembered, OneAccepted, NoneAcceptedAfterSession,
                    OneSessionPerGrant
<1>7. ReadingsAreNotAhead'
  BY <1>2, AgentConstants DEF IInv, TypeOK, ReadingsAreNotAhead
<1> QED
  BY <1>3, <1>5, <1>6, <1>7 DEF IInv

\* accept keeps the invariant: its purge drops only entries that have expired
\* on the clock it was given, and it lets a grant pass only when no session
\* was opened and no other request is past the cache, or too late to matter.
LEMMA AcceptInv ==
    ASSUME IInv, NEW s \in Slot, Accept(s)
    PROVE  IInv'
<1> DEFINE c == slots[s].claims
           time == Reading(s)
           replay == IsReplay(seen, c.jti, time)
<1>1. /\ slots[s].phase = "verified"
      /\ seen' = CacheAfter(seen, c.jti, c.exp, time)
      /\ slots' = [slots EXCEPT ![s] = IF replay THEN Idle ELSE [@ EXCEPT !.phase = "accepted"]]
      /\ outcome' = IF replay THEN "Replay" ELSE outcome
      /\ UNCHANGED <<now, revoked, opened>>
  BY DEF Accept
<1>2. c \in SignedClaims /\ c.nbf \in Nat /\ c.exp \in Nat /\ c.jti \in Jti
  BY <1>1, SignedClaimsTimes DEF IInv, HoldsSignedClaims
<1>3. /\ now \in Nat /\ time \in Nat /\ time <= now
      /\ \A j \in DOMAIN seen : j \in Jti /\ seen[j] \in Nat
  BY AgentConstants DEF IInv, TypeOK, ReadingsAreNotAhead, Reading
\* What accept leaves in the cache: the unexpired entries with the expiry they
\* had, and the presented id when it was not among them.
<1>4. /\ seen' = [j \in DOMAIN seen' |-> seen'[j]]
      /\ DOMAIN seen' = Retained(seen, time) \cup {c.jti}
      /\ \A j \in Retained(seen, time) : seen'[j] = seen[j]
      /\ ~replay => seen'[c.jti] = c.exp
  BY <1>1 DEF CacheAfter, IsReplay
<1>5. \A j \in Retained(seen, time) : j \in DOMAIN seen /\ seen[j] > time
  BY DEF Retained
<1>6. \A r \in Slot : r # s => slots'[r] = slots[r]
  BY <1>1 DEF IInv, TypeOK
<1>7. slots'[s] = IF replay THEN Idle
                  ELSE [phase |-> "accepted", claims |-> c, at |-> slots[s].at]
  BY <1>1 DEF IInv, TypeOK
<1>8. TypeOK'
  <2>1. slots'[s] \in [phase : Phases, claims : SignedClaims \cup {NoClaims}, at : 0..MaxTime]
    BY <1>2, <1>7, AgentConstants DEF IInv, TypeOK, Idle, Phases
  <2>2. slots' \in [Slot -> [phase : Phases, claims : SignedClaims \cup {NoClaims},
                             at : 0..MaxTime]]
    BY <1>1, <2>1 DEF IInv, TypeOK
  <2>3. \A j \in DOMAIN seen' : j \in Jti /\ seen'[j] \in Nat
    BY <1>2, <1>3, <1>4, <1>5 DEF IsReplay
  <2> QED
    BY <1>1, <1>4, <2>2, <2>3 DEF IInv, TypeOK, Results
<1>9. HoldsSignedClaims'
  <2>1. \A r \in Slot : slots'[r].phase # "idle" => slots'[r].claims \in SignedClaims
    BY <1>2, <1>6, <1>7 DEF IInv, HoldsSignedClaims, Idle, TypeOK
  <2>2. ASSUME NEW d \in SignedClaims, d.jti \in DOMAIN seen'
        PROVE  seen'[d.jti] = d.exp
    <3>1. CASE d.jti \in Retained(seen, time)
      BY <1>4, <1>5, <3>1 DEF IInv, HoldsSignedClaims
    <3>2. CASE d.jti \notin Retained(seen, time)
      BY <1>2, <1>4, <2>2, <3>2, JtiUnique DEF IsReplay
    <3> QED
      BY <3>1, <3>2
  <2> QED
    BY <2>1, <2>2 DEF HoldsSignedClaims
\* A grant that passes while it can still open a session was not in the cache,
\* so nothing happened with it before.
<1>10. ASSUME ~replay, now < c.exp
       PROVE  /\ opened[c.jti] = 0
              /\ \A r \in Slot : slots[r].phase = "accepted" => slots[r].claims # c
  <2>1. c.jti \notin DOMAIN seen
    BY <1>2, <1>3, <1>10 DEF IsReplay, Retained, IInv, HoldsSignedClaims
  <2> QED
    BY <1>2, <1>10, <2>1 DEF IInv, Remembered
<1>11. Remembered'
  <2> SUFFICES ASSUME NEW d \in SignedClaims, now < d.exp
               PROVE  \/ d.jti \in DOMAIN seen' /\ seen'[d.jti] = d.exp
                      \/ /\ opened[d.jti] = 0
                         /\ \A r \in Slot : slots'[r].phase = "accepted" => slots'[r].claims # d
    BY <1>1 DEF Remembered
  <2>1. CASE d = c
    BY <1>4, <1>9, <2>1 DEF HoldsSignedClaims
  <2>2. CASE d # c /\ d.jti \in DOMAIN seen /\ seen[d.jti] = d.exp
    <3>1. d.exp \in Nat /\ d.exp > time
      BY <1>3, SignedClaimsTimes
    <3> QED
      BY <1>4, <2>2, <3>1 DEF Retained
  <2>3. CASE d # c /\ ~(d.jti \in DOMAIN seen /\ seen[d.jti] = d.exp)
    <3>1. /\ opened[d.jti] = 0
          /\ \A r \in Slot : slots[r].phase = "accepted" => slots[r].claims # d
      BY <2>3 DEF IInv, Remembered
    <3>2. slots'[s].phase = "accepted" => slots'[s].claims = c
      BY <1>7 DEF Idle, IInv, TypeOK
    <3> QED
      BY <1>6, <2>3, <3>1, <3>2
  <2> QED
    BY <2>1, <2>2, <2>3
<1>12. OneAccepted'
  <2> SUFFICES ASSUME NEW r \in Slot, NEW q \in Slot, r # q,
                      slots'[r].phase = "accepted", slots'[q].phase = "accepted",
                      slots'[r].claims = slots'[q].claims
               PROVE  now >= slots'[r].claims.exp
    BY <1>1 DEF OneAccepted
  <2>1. CASE r # s /\ q # s
    BY <1>6, <2>1 DEF IInv, OneAccepted
  <2>2. CASE r = s \/ q = s
    <3>1. ~replay /\ slots'[s].claims = c
      BY <1>7, <2>2 DEF Idle, IInv, TypeOK
    <3>2. PICK p \in Slot : p # s /\ slots[p].phase = "accepted" /\ slots[p].claims = c
      BY <1>6, <2>2, <3>1
    <3>3. ~(now < c.exp)
      BY <1>10, <3>1, <3>2
    <3> QED
      BY <1>2, <1>3, <2>2, <3>1, <3>3
  <2> QED
    BY <2>1, <2>2
<1>13. NoneAcceptedAfterSession'
  <2> SUFFICES ASSUME NEW r \in Slot, slots'[r].phase = "accepted",
                      opened[slots'[r].claims.jti] > 0
               PROVE  now >= slots'[r].claims.exp
    BY <1>1 DEF NoneAcceptedAfterSession
  <2>1. CASE r # s
    BY <1>6, <2>1 DEF IInv, NoneAcceptedAfterSession
  <2>2. CASE r = s
    <3>1. ~replay /\ slots'[s].claims = c
      BY <1>7, <2>2 DEF Idle, IInv, TypeOK
    <3>2. ~(now < c.exp)
      BY <1>10, <2>2, <3>1
    <3> QED
      BY <1>2, <1>3, <2>2, <3>1, <3>2
  <2> QED
    BY <2>1, <2>2
<1>14. ReadingsAreNotAhead'
  BY <1>1, <1>3, <1>6, <1>7 DEF IInv, ReadingsAreNotAhead, Idle
<1> QED
  BY <1>1, <1>8, <1>9, <1>11, <1>12, <1>13, <1>14 DEF IInv, OneSessionPerGrant

\* A decision keeps the invariant: an "ok" is given before the grant expires,
\* so the cache still remembers it and no other request can follow.
LEMMA DecideInv ==
    ASSUME IInv, NEW s \in Slot, Decide(s)
    PROVE  IInv'
<1> DEFINE c == slots[s].claims
<1>1. /\ slots[s].phase = "accepted"
      /\ outcome' \in Answers(s)
      /\ slots' = [slots EXCEPT ![s] = Idle]
      /\ opened' = [opened EXCEPT ![c.jti] = IF outcome' = "ok" THEN @ + 1 ELSE @]
      /\ UNCHANGED <<now, seen, revoked>>
  BY DEF Decide
<1>2. c \in SignedClaims /\ c.nbf \in Nat /\ c.exp \in Nat /\ c.jti \in Jti
  BY <1>1, SignedClaimsTimes DEF IInv, HoldsSignedClaims
<1>3. now \in Nat /\ opened \in [Jti -> Nat]
  BY AgentConstants DEF IInv, TypeOK
<1>4. /\ slots'[s] = Idle
      /\ \A r \in Slot : r # s => slots'[r] = slots[r]
  BY <1>1 DEF IInv, TypeOK
<1>5. /\ opened' \in [Jti -> Nat]
      /\ \A j \in Jti : j # c.jti => opened'[j] = opened[j]
      /\ opened'[c.jti] = IF outcome' = "ok" THEN opened[c.jti] + 1 ELSE opened[c.jti]
  BY <1>1, <1>2, <1>3
<1>6. outcome' = "ok" /\ FreshClock => now < c.exp
  BY <1>1, <1>2, <1>3, OkIsInWindow DEF Reading
<1>7. outcome' = "ok" /\ ~(~FreshClock /\ now >= c.exp) => opened[c.jti] = 0
  BY <1>1, <1>2, <1>3, <1>6 DEF IInv, NoneAcceptedAfterSession
<1>8. TypeOK'
  <2>1. outcome' \in Results
    BY <1>1 DEF Answers, AuthorizeConnection, Authorize, Results, Denials
  <2>2. slots' \in [Slot -> [phase : Phases, claims : SignedClaims \cup {NoClaims},
                             at : 0..MaxTime]]
    BY <1>1, AgentConstants DEF IInv, TypeOK, Idle, Phases
  <2> QED
    BY <1>1, <1>5, <2>1, <2>2 DEF IInv, TypeOK
<1>9. HoldsSignedClaims'
  BY <1>1, <1>4 DEF IInv, HoldsSignedClaims, Idle
<1>10. Remembered'
  <2> SUFFICES ASSUME NEW d \in SignedClaims, now < d.exp
               PROVE  \/ d.jti \in DOMAIN seen /\ seen[d.jti] = d.exp
                      \/ /\ opened'[d.jti] = 0
                         /\ \A r \in Slot : slots'[r].phase = "accepted" => slots'[r].claims # d
    BY <1>1 DEF Remembered
  <2>1. CASE d.jti \in DOMAIN seen /\ seen[d.jti] = d.exp
    BY <2>1
  <2>2. CASE ~(d.jti \in DOMAIN seen /\ seen[d.jti] = d.exp)
    <3>1. /\ opened[d.jti] = 0
          /\ \A r \in Slot : slots[r].phase = "accepted" => slots[r].claims # d
      BY <2>2 DEF IInv, Remembered
    <3>2. d # c
      BY <1>1, <3>1
    <3>3. d.jti \in Jti /\ d.jti # c.jti
      BY <1>2, <3>2, JtiUnique, SignedClaimsTimes
    <3> QED
      BY <1>4, <1>5, <3>1, <3>3 DEF Idle
  <2> QED
    BY <2>1, <2>2
<1>11. OneAccepted'
  BY <1>1, <1>4 DEF IInv, OneAccepted, Idle
<1>12. NoneAcceptedAfterSession'
  <2> SUFFICES ASSUME NEW r \in Slot, slots'[r].phase = "accepted",
                      opened'[slots'[r].claims.jti] > 0
               PROVE  now >= slots'[r].claims.exp
    BY <1>1 DEF NoneAcceptedAfterSession
  <2>1. r # s /\ slots'[r] = slots[r]
    BY <1>4 DEF Idle
  <2>2. slots[r].claims \in SignedClaims /\ slots[r].claims.jti \in Jti
    BY <2>1, SignedClaimsTimes DEF IInv, HoldsSignedClaims
  <2>3. CASE slots[r].claims = c
    BY <1>1, <2>1, <2>3 DEF IInv, OneAccepted
  <2>4. CASE slots[r].claims # c
    <3>1. slots[r].claims.jti # c.jti
      BY <1>2, <2>2, <2>4, JtiUnique
    <3> QED
      BY <1>5, <2>1, <2>2, <3>1 DEF IInv, NoneAcceptedAfterSession
  <2> QED
    BY <2>3, <2>4
<1>13. OneSessionPerGrant'
  <2> SUFFICES ASSUME NEW d \in SignedClaims, opened'[d.jti] > 1
               PROVE  ~FreshClock /\ now >= d.exp
    BY <1>1 DEF OneSessionPerGrant
  <2>1. CASE opened'[d.jti] = opened[d.jti]
    BY <2>1 DEF IInv, OneSessionPerGrant
  <2>2. CASE opened'[d.jti] # opened[d.jti]
    <3>1. d.jti \in Jti
      BY SignedClaimsTimes
    <3>2. d = c /\ outcome' = "ok"
      BY <1>2, <1>5, <2>2, <3>1, JtiUnique
    <3>3. opened[c.jti] # 0
      BY <1>2, <1>3, <1>5, <3>2
    <3> QED
      BY <1>7, <3>2, <3>3
  <2> QED
    BY <2>1, <2>2
<1>14. ReadingsAreNotAhead'
  BY <1>1, <1>3, <1>4 DEF IInv, ReadingsAreNotAhead, Idle
<1> QED
  BY <1>8, <1>9, <1>10, <1>11, <1>12, <1>13, <1>14 DEF IInv

\* Time only makes the invariant weaker, and revoking does not touch it.
LEMMA TickInv == ASSUME IInv, Tick PROVE IInv'
<1>1. now' = now + 1 /\ now' \in 0..MaxTime /\ now \in Nat
  BY AgentConstants DEF IInv, TypeOK, Tick
<1>2. UNCHANGED <<seen, slots, outcome, revoked, opened>>
  BY DEF Tick
<1>3. \A c \in SignedClaims : now' < c.exp => now < c.exp
  BY <1>1, SignedClaimsTimes
<1>4. \A s \in Slot : slots[s].phase = "accepted"
                      => slots[s].claims \in SignedClaims /\ slots[s].claims.exp \in Nat
  BY SignedClaimsTimes DEF IInv, HoldsSignedClaims
<1>5. OneAccepted'
  BY <1>1, <1>2, <1>4 DEF IInv, OneAccepted
<1>6. NoneAcceptedAfterSession'
  BY <1>1, <1>2, <1>4 DEF IInv, NoneAcceptedAfterSession
<1>7. TypeOK' /\ HoldsSignedClaims' /\ Remembered'
  BY <1>1, <1>2, <1>3 DEF IInv, TypeOK, HoldsSignedClaims, Remembered
<1>8. OneSessionPerGrant'
  BY <1>1, <1>2, SignedClaimsTimes DEF IInv, OneSessionPerGrant
<1>9. ReadingsAreNotAhead'
  <2>1. \A s \in Slot : slots[s].at \in Nat /\ slots[s].at <= now
    BY AgentConstants DEF IInv, TypeOK, ReadingsAreNotAhead
  <2> QED
    BY <1>1, <1>2, <2>1 DEF ReadingsAreNotAhead
<1> QED
  BY <1>5, <1>6, <1>7, <1>8, <1>9 DEF IInv

LEMMA RevokeInv == ASSUME IInv, NEW j \in Jti, Revoke(j) PROVE IInv'
BY DEF Revoke, IInv, TypeOK, HoldsSignedClaims, Remembered, OneAccepted,
       NoneAcceptedAfterSession, OneSessionPerGrant, ReadingsAreNotAhead

\* After a restart nothing is remembered and nothing needs to be.
LEMMA RestartInv == ASSUME IInv, Restart PROVE IInv'
<1>1. /\ \A s \in Slot : slots'[s] = Idle
      /\ DOMAIN seen' = {}
      /\ \A j \in Jti : opened'[j] = 0
      /\ \A c \in SignedClaims : c.jti \in Jti
  BY DEF Restart, EmptyCache, Jti
<1>2. Idle.phase = "idle"
  BY DEF Idle
<1>3. TypeOK'
  BY AgentConstants DEF Restart, EmptyCache, IInv, TypeOK, Idle, Phases, Results
<1>4. HoldsSignedClaims'
  BY <1>1, <1>2 DEF HoldsSignedClaims
<1>5. Remembered'
  BY <1>1, <1>2 DEF Remembered
<1>6. OneAccepted' /\ NoneAcceptedAfterSession'
  BY <1>1, <1>2 DEF OneAccepted, NoneAcceptedAfterSession
<1>7. OneSessionPerGrant'
  BY <1>1 DEF OneSessionPerGrant
<1>8. ReadingsAreNotAhead'
  BY <1>1, AgentConstants DEF Restart, IInv, TypeOK, ReadingsAreNotAhead, Idle
<1> QED
  BY <1>3, <1>4, <1>5, <1>6, <1>7, <1>8 DEF IInv

LEMMA NextInv == ASSUME IInv, [Next]_vars PROVE IInv'
<1>1. CASE UNCHANGED vars
  BY <1>1 DEF vars, IInv, TypeOK, HoldsSignedClaims, Remembered, OneAccepted,
              NoneAcceptedAfterSession, OneSessionPerGrant, ReadingsAreNotAhead
<1>2. CASE Next
  BY <1>2, TickInv, RestartInv, RevokeInv, PresentInv, AcceptInv, DecideInv DEF Next
<1> QED
  BY <1>1, <1>2

\* The inductive invariant holds in every reachable state of the device.
THEOREM AgentInvariant == Spec => []IInv
<1>1. IInv /\ [Next]_vars => IInv'
  BY NextInv
<1> QED
  BY InitInv, <1>1, PTL DEF Spec

\* Type correctness of the device side.
THEOREM AgentTypeOK == Spec => []TypeOK
<1>1. IInv => TypeOK
  BY DEF IInv
<1> QED
  BY AgentInvariant, <1>1, PTL

\* One grant opens at most one session (ReplayCache, grant/lib.rs), however
\* many requests present it and however they interleave with each other, with
\* the purge of the cache and with the clock; an agent that reads the clock once
\* per request opens another one only after the expiry.
THEOREM OneSession == Spec => []OneSessionPerGrant
<1>1. IInv => OneSessionPerGrant
  BY DEF IInv
<1> QED
  BY AgentInvariant, <1>1, PTL

-----------------------------------------------------------------------------
\* What accept leaves in the cache was unexpired on the clock it was given, or
\* is the grant it just let through.
LEMMA AcceptPurges ==
    ASSUME NEW s \in Slot, Accept(s)
    PROVE  \A j \in DOMAIN seen' :
              seen'[j] > Reading(s) \/ seen'[j] = slots[s].claims.exp
<1>1. seen' = CacheAfter(seen, slots[s].claims.jti, slots[s].claims.exp, Reading(s))
  BY DEF Accept
<1>2. \A j \in Retained(seen, Reading(s)) : seen[j] > Reading(s)
  BY DEF Retained
<1> QED
  BY <1>1, <1>2 DEF CacheAfter

\* The cache does not grow for ever (ReplayCache::accept purges before it
\* remembers): whatever other requests do, only their own step takes a request
\* out of the verified phase.
THEOREM CachePurges == Spec => CacheIsUnexpired
<1> DEFINE Purged(s) == \A j \in DOMAIN seen' :
                           seen'[j] > Reading(s) \/ seen'[j] = slots[s].claims.exp
           Leaves(s) == slots[s].phase = "verified" /\ slots'[s].phase # "verified"
<1>1. ASSUME TypeOK, Next, NEW s \in Slot, Leaves(s) PROVE Purged(s)
  <2>1. ASSUME NEW r \in Slot, NEW t \in Token, Present(r, t) PROVE FALSE
    BY <1>1, <2>1 DEF Present, TypeOK
  <2>2. ASSUME NEW r \in Slot, Accept(r) PROVE Purged(s)
    <3>1. r # s => slots'[s] = slots[s]
      BY <2>2 DEF Accept, TypeOK
    <3>2. r = s
      BY <1>1, <3>1
    <3> QED
      BY <2>2, <3>2, AcceptPurges
  <2>3. ASSUME NEW r \in Slot, Decide(r) PROVE FALSE
    BY <1>1, <2>3 DEF Decide, TypeOK
  <2>4. CASE Restart
    BY <2>4 DEF Restart, EmptyCache
  <2>5. CASE Tick \/ \E j \in Jti : Revoke(j)
    BY <1>1, <2>5 DEF Tick, Revoke
  <2> QED
    BY <1>1, <2>1, <2>2, <2>3, <2>4, <2>5 DEF Next
<1>2. TypeOK /\ [Next]_vars => [\A s \in Slot : Leaves(s) => Purged(s)]_vars
  BY <1>1
<1> QED
  BY AgentTypeOK, <1>2, PTL DEF Spec, CacheIsUnexpired

\* Every request in progress holds claims verify found well formed and meant
\* for this device.
HoldsWellFormed ==
    \A s \in Slot : slots[s].phase # "idle"
                    => WellFormed(slots[s].claims) /\ slots[s].claims.device = Device

LEMMA WellFormedNext ==
    ASSUME TypeOK, HoldsWellFormed, [Next]_vars
    PROVE  HoldsWellFormed'
<1>1. ASSUME NEW s \in Slot, NEW t \in Token, Present(s, t) PROVE HoldsWellFormed'
  <2>1. CheckClaims(t.claims, now, Device) = "ok"
    BY <1>1 DEF Present, Verify
  <2>2. WellFormed(t.claims) /\ t.claims.device = Device
    BY <2>1 DEF CheckClaims
  <2>3. /\ slots'[s].claims = t.claims
        /\ \A r \in Slot : r # s => slots'[r] = slots[r]
    BY <1>1 DEF Present, TypeOK
  <2> QED
    BY <2>2, <2>3 DEF HoldsWellFormed
<1>2. ASSUME NEW s \in Slot, Accept(s) PROVE HoldsWellFormed'
  <2>1. slots[s].phase = "verified"
    BY <1>2 DEF Accept
  <2>2. /\ slots'[s].phase = "idle" \/ slots'[s].claims = slots[s].claims
        /\ \A r \in Slot : r # s => slots'[r] = slots[r]
    BY <1>2 DEF Accept, TypeOK, Idle
  <2> QED
    BY <2>1, <2>2 DEF HoldsWellFormed
<1>3. ASSUME NEW s \in Slot, Decide(s) PROVE HoldsWellFormed'
  <2>1. /\ slots'[s].phase = "idle"
        /\ \A r \in Slot : r # s => slots'[r] = slots[r]
    BY <1>3 DEF Decide, TypeOK, Idle
  <2> QED
    BY <2>1 DEF HoldsWellFormed
<1>4. CASE Restart
  BY <1>4 DEF Restart, Idle, HoldsWellFormed
<1>5. CASE UNCHANGED slots
  BY <1>5 DEF HoldsWellFormed
<1> QED
  BY <1>1, <1>2, <1>3, <1>4, <1>5 DEF Next, vars, Tick, Revoke

\* authorize_connection does not refuse well-formed claims of this device for
\* their identity or their content.
LEMMA AnswersToWellFormed ==
    ASSUME Org # Blank, NEW s \in Slot, slots[s].phase # "idle", HoldsWellFormed
    PROVE  Answers(s) \cap {"WrongDevice", "Content", "InvalidIdentity",
                            "WrongGrantBinding", "OperatorNotAllowed"} = {}
<1> DEFINE c == slots[s].claims
<1>1. WellFormed(c) /\ c.device = Device
  BY DEF HoldsWellFormed
<1>2. ASSUME NEW local \in LocalStates(c.jti), NEW requested \in SUBSET Capability
      PROVE  AuthorizeConnection(c, local, requested, Reading(s))
               \notin {"WrongDevice", "Content", "InvalidIdentity",
                       "WrongGrantBinding", "OperatorNotAllowed"}
  <2> DEFINE ctx == ConnectionContext(c, local, Reading(s))
  <2>1. local.org_id = Org /\ local.device_id = Device
    BY DEF LocalStates
  <2>2. AuthorizeConnection(c, local, requested, Reading(s)) = Authorize(ctx, requested)
    BY <1>1, <2>1 DEF AuthorizeConnection, WellFormed
  <2>3. /\ Blank \notin {ctx.operator_id, ctx.device_id, ctx.operator_organization,
                         ctx.device_organization}
        /\ ctx.operator_allowed
        /\ ctx.grant_operator = ctx.operator_id /\ ctx.grant_device = ctx.device_id
    BY <1>1, <2>1 DEF ConnectionContext, WellFormed
  <2> HIDE DEF ctx
  <2> QED
    BY <2>2, <2>3 DEF Authorize
<1> QED
  BY <1>2 DEF Answers

\* The last stage trusts claims it did not check again (authorize_connection
\* takes them from verify): none reaches it that it would refuse for the
\* identity or the content.
THEOREM VerifiedClaimsAreWellFormed ==
    ASSUME Org # Blank PROVE Spec => VerifiedIsWellFormed
<1> DEFINE Bad == {"WrongDevice", "Content", "InvalidIdentity",
                   "WrongGrantBinding", "OperatorNotAllowed"}
           Ends(s) == slots[s].phase = "accepted" /\ slots'[s].phase = "idle"
<1>1. Init => HoldsWellFormed
  BY DEF Init, HoldsWellFormed, Idle
<1>2. TypeOK /\ HoldsWellFormed /\ [Next]_vars => HoldsWellFormed'
  BY WellFormedNext
<1>3. ASSUME TypeOK, HoldsWellFormed, Next, NEW s \in Slot, Ends(s)
      PROVE  outcome' \notin Bad
  <2>1. ASSUME NEW r \in Slot, NEW t \in Token, Present(r, t) PROVE FALSE
    BY <1>3, <2>1 DEF Present, TypeOK
  <2>2. ASSUME NEW r \in Slot, Accept(r) PROVE FALSE
    BY <1>3, <2>2 DEF Accept, TypeOK
  <2>3. ASSUME NEW r \in Slot, Decide(r) PROVE outcome' \notin Bad
    <3>1. slots[r].phase # "idle" /\ outcome' \in Answers(r)
      BY <2>3 DEF Decide
    <3> QED
      BY <1>3, <3>1, AnswersToWellFormed
  <2>4. CASE Restart
    BY <2>4 DEF Restart
  <2>5. CASE Tick \/ \E j \in Jti : Revoke(j)
    BY <1>3, <2>5 DEF Tick, Revoke
  <2> QED
    BY <1>3, <2>1, <2>2, <2>3, <2>4, <2>5 DEF Next
<1>4. TypeOK /\ HoldsWellFormed /\ [Next]_vars
        => [\A s \in Slot : Ends(s) => outcome' \notin Bad]_vars
  BY <1>3
<1> QED
  BY AgentTypeOK, <1>1, <1>2, <1>4, PTL DEF Spec, VerifiedIsWellFormed

-----------------------------------------------------------------------------
\* A grant id determines the claims signed for it.
LEMMA ClaimsOfJti ==
    ASSUME NEW c \in SignedClaims
    PROVE  ClaimsOf(c.jti) = c
<1>1. \E d \in SignedClaims : d.jti = c.jti
  OBVIOUS
<1>2. ClaimsOf(c.jti) \in SignedClaims /\ ClaimsOf(c.jti).jti = c.jti
  BY <1>1 DEF ClaimsOf
<1> QED
  BY <1>2, JtiUnique

\* A decision is one opening of an unused, unexpired, unrevoked grant, or
\* changes nothing of what the abstract specification sees.
LEMMA DecideImplements ==
    ASSUME IInv, FreshClock, NEW s \in Slot, Decide(s)
    PROVE  (\E j \in Jti : Once!Open(j)) \/ UNCHANGED Once!vars
<1> DEFINE c == slots[s].claims
<1>1. /\ slots[s].phase = "accepted"
      /\ outcome' \in Answers(s)
      /\ opened' = [opened EXCEPT ![c.jti] = IF outcome' = "ok" THEN @ + 1 ELSE @]
      /\ UNCHANGED <<now, revoked>>
  BY DEF Decide
<1>2. c \in SignedClaims /\ c.nbf \in Nat /\ c.exp \in Nat /\ c.jti \in Jti
  BY <1>1, SignedClaimsTimes DEF IInv, HoldsSignedClaims
<1>3. now \in Nat /\ opened \in [Jti -> Nat]
  BY AgentConstants DEF IInv, TypeOK
<1>4. CASE outcome' # "ok"
  BY <1>1, <1>3, <1>4 DEF Once!vars
<1>5. CASE outcome' = "ok"
  <2>1. /\ c.nbf <= now /\ now < c.exp /\ c.jti \notin revoked
    BY <1>1, <1>2, <1>3, <1>5, OkIsInWindow DEF Reading
  <2>2. opened[c.jti] = 0
    BY <1>1, <1>2, <1>3, <2>1 DEF IInv, NoneAcceptedAfterSession
  <2>3. opened' = [opened EXCEPT ![c.jti] = 1]
    BY <1>1, <1>2, <1>3, <1>5, <2>2
  <2>4. ClaimsOf(c.jti) = c
    BY <1>2, ClaimsOfJti
  <2>5. /\ [j \in Jti |-> ClaimsOf(j).nbf][c.jti] = c.nbf
        /\ [j \in Jti |-> ClaimsOf(j).exp][c.jti] = c.exp
    BY <1>2, <2>4
  <2>6. Once!Open(c.jti)
    BY <1>1, <2>1, <2>2, <2>3, <2>5 DEF Once!Open
  <2> QED
    BY <1>2, <2>6
<1> QED
  BY <1>4, <1>5

\* The device side implements the promise that a grant opens at most one
\* session, inside its window on the device's clock and unrevoked.
THEOREM AgentImplementsOnce == ASSUME FreshClock PROVE Spec => Implements
<1>1. Init => Once!Init
  BY DEF Init, Once!Init
<1>2. IInv /\ [Next]_vars => [Once!Next]_Once!vars
  <2> SUFFICES ASSUME IInv, [Next]_vars
               PROVE  Once!Next \/ UNCHANGED Once!vars
    OBVIOUS
  <2>1. CASE UNCHANGED vars
    BY <2>1 DEF vars, Once!vars
  <2>2. CASE Tick
    BY <2>2 DEF Tick, Once!Next, Once!Tick
  <2>7. CASE Restart
    BY <2>7 DEF Restart, Once!Next, Once!Restart
  <2>3. ASSUME NEW j \in Jti, Revoke(j) PROVE Once!Next
    BY <2>3 DEF Revoke, Once!Next, Once!Revoke
  <2>4. ASSUME NEW s \in Slot, NEW t \in Token, Present(s, t) PROVE UNCHANGED Once!vars
    BY <2>4 DEF Present, Once!vars
  <2>5. ASSUME NEW s \in Slot, Accept(s) PROVE UNCHANGED Once!vars
    BY <2>5 DEF Accept, Once!vars
  <2>6. ASSUME NEW s \in Slot, Decide(s) PROVE Once!Next \/ UNCHANGED Once!vars
    BY <2>6, DecideImplements DEF Once!Next
  <2> QED
    BY <2>1, <2>2, <2>3, <2>4, <2>5, <2>6, <2>7 DEF Next
<1> QED
  BY <1>1, <1>2, AgentInvariant, PTL DEF Spec, Implements, Once!Spec

-----------------------------------------------------------------------------
\* A context that allows at least what another one does: the same parties, and
\* no consent, switch, capability or second of the window less.
Wider(wide, ctx) ==
    /\ \A f \in {"operator_id", "device_id", "operator_organization",
                 "device_organization", "grant_operator", "grant_device", "mode", "now"} :
          wide[f] = ctx[f]
    /\ \A f \in {"operator_enabled", "device_enabled", "operator_allowed",
                 "session_consent", "unattended_enabled"} : ctx[f] => wide[f]
    /\ wide.grant_revoked => ctx.grant_revoked
    /\ \A f \in {"policy_capabilities", "grant_capabilities", "local_capabilities"} :
          ctx[f] \subseteq wide[f]
    /\ wide.grant_not_before <= ctx.grant_not_before
    /\ ctx.grant_expires_at <= wide.grant_expires_at

\* authorize is monotone: no party can gain by having less.  Whatever is
\* allowed stays allowed when consent, switches, capabilities or the window
\* grow, and every part of an allowed request but the empty one is allowed.
THEOREM AuthorizeIsMonotone ==
    ASSUME NEW ctx, NEW wide, Wider(wide, ctx),
           ctx.now \in Nat, ctx.grant_not_before \in Nat, ctx.grant_expires_at \in Nat,
           wide.grant_not_before \in Nat, wide.grant_expires_at \in Nat,
           NEW requested, NEW less, less \subseteq requested, less # {},
           Authorize(ctx, requested) = "ok"
    PROVE  Authorize(wide, less) = "ok"
<1>1. /\ Blank \notin {ctx.operator_id, ctx.device_id,
                       ctx.operator_organization, ctx.device_organization}
      /\ ctx.operator_organization = ctx.device_organization
      /\ ctx.operator_enabled /\ ctx.device_enabled /\ ctx.operator_allowed
      /\ ctx.grant_operator = ctx.operator_id /\ ctx.grant_device = ctx.device_id
  BY DEF Authorize
<1>2. InWindow(ctx) /\ ~ctx.grant_revoked
  BY DEF Authorize
<1>3. /\ ctx.mode = "attended" => ctx.session_consent
      /\ ctx.mode = "unattended" => ctx.unattended_enabled
      /\ requested \subseteq CommonCapabilities(ctx)
  BY DEF Authorize
<1>4. /\ Blank \notin {wide.operator_id, wide.device_id,
                       wide.operator_organization, wide.device_organization}
      /\ wide.operator_organization = wide.device_organization
      /\ wide.operator_enabled /\ wide.device_enabled /\ wide.operator_allowed
      /\ wide.grant_operator = wide.operator_id /\ wide.grant_device = wide.device_id
  BY <1>1 DEF Wider
<1>5. InWindow(wide) /\ ~wide.grant_revoked
  BY <1>2 DEF Wider, InWindow
<1>6. /\ wide.mode = "attended" => wide.session_consent
      /\ wide.mode = "unattended" => wide.unattended_enabled
  BY <1>3 DEF Wider
<1>7. less \subseteq CommonCapabilities(wide)
  BY <1>3 DEF Wider, CommonCapabilities
<1> QED
  BY <1>4, <1>5, <1>6, <1>7 DEF Authorize

\* What verify and authorize_connection agree to together, at whatever times
\* they are called and whatever the owner set in between: a session under
\* claims a trusted key signed for this very device and its organisation, for
\* no more than the grant, the device and the code know, inside a window of at
\* most MAX_LIFETIME_SECS, and with the consent its mode asks for.
THEOREM SessionIsWithinTheGrant ==
    ASSUME NEW token, NEW trusted, NEW device, NEW at \in Nat, NEW time \in Nat,
           NEW local, NEW requested,
           Verify(token, trusted, at, device) = "ok",
           AuthorizeConnection(token.claims, local, requested, time) = "ok"
    PROVE  LET c == token.claims
           IN  /\ token.kid \in trusted /\ token.signer = token.kid
               /\ c.device = device /\ local.device_id = device
               /\ c.org = local.org_id
               /\ requested # {}
               /\ requested \subseteq c.caps \cap local.local_capabilities \cap Capability
               /\ c.nbf <= time /\ time < c.exp
               /\ ~(c.exp - c.nbf > MaxLifetime)
               /\ local.device_enabled /\ ~local.grant_revoked
               /\ \/ c.mode = "attended" /\ local.session_consent
                  \/ c.mode = "unattended" /\ local.unattended_enabled
<1> DEFINE c == token.claims
           ctx == ConnectionContext(c, local, time)
<1>1. token.kid \in trusted /\ token.signer = token.kid
  BY DEF Verify, SignatureValid
<1>2. CheckClaims(c, at, device) = "ok"
  BY DEF Verify
<1>3. ~(c.exp - c.nbf > MaxLifetime) /\ c.device = device /\ WellFormed(c)
  BY <1>2 DEF CheckClaims
<1>4. Authorize(ctx, requested) = "ok" /\ local.device_id = c.device
  BY DEF AuthorizeConnection
<1>5. /\ ctx.operator_organization = ctx.device_organization
      /\ ctx.device_enabled /\ ~ctx.grant_revoked
      /\ InWindow(ctx)
      /\ ctx.mode = "attended" => ctx.session_consent
      /\ ctx.mode = "unattended" => ctx.unattended_enabled
      /\ requested # {} /\ requested \subseteq CommonCapabilities(ctx)
  BY <1>4 DEF Authorize
<1>6. /\ c.org = local.org_id
      /\ local.device_enabled /\ ~local.grant_revoked
      /\ c.mode = "attended" => local.session_consent
      /\ c.mode = "unattended" => local.unattended_enabled
      /\ requested # {}
  BY <1>5 DEF ConnectionContext
<1>7. c.nbf <= time /\ time < c.exp
  BY <1>5 DEF ConnectionContext, InWindow
<1>8. requested \subseteq c.caps \cap local.local_capabilities
  BY <1>5 DEF ConnectionContext, CommonCapabilities
<1>9. c.caps \subseteq Capability /\ c.mode \in {"attended", "unattended"}
  BY <1>3 DEF WellFormed, Modes
<1> QED
  BY <1>1, <1>3, <1>4, <1>6, <1>7, <1>8, <1>9

=============================================================================
