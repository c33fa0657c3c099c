-------------------------------- MODULE Grant --------------------------------
(***************************************************************************)
(* crates/grant: what a device does with a signed session grant.           *)
(*                                                                         *)
(* A token is [form, kid, signer, claims]: form says how far it parses,    *)
(* kid is the key it names, signer is the key whose signature over exactly *)
(* this kid and payload it carries (NoKey when the text was altered after  *)
(* signing).  Base64, JSON and Ed25519 are abstracted to those fields.     *)
(***************************************************************************)
EXTENDS AccessPolicy

CONSTANTS
    Capability,        \* the capability names the code knows (CAPABILITY_NAMES)
    NoKey,             \* stands for "no valid signature"
    MaxLifetime,       \* MAX_LIFETIME_SECS
    StartSkew          \* START_SKEW_SECS

ASSUME GrantConstants == MaxLifetime \in Nat /\ StartSkew \in Nat

Version == 1

\* A likely slip: capabilities the device does not know are let through.
WellFormedAnyCaps(claims) ==
    /\ claims.mode \in Modes
    /\ claims.caps # {}
    /\ Blank \notin {claims.jti, claims.org, claims.operator, claims.device}

\* The content check of check_claims.
WellFormed(claims) ==
    /\ claims.mode \in Modes
    /\ claims.caps # {} /\ claims.caps \subseteq Capability
    /\ Blank \notin {claims.jti, claims.org, claims.operator, claims.device}

CheckClaims(claims, now, expected_device) ==
    IF claims.v # Version
      THEN "Version"
    ELSE IF claims.exp <= claims.nbf \/ claims.exp - claims.nbf > MaxLifetime
      THEN "Lifetime"
    ELSE IF claims.nbf > now + StartSkew
      THEN "NotYetValid"
    ELSE IF now >= claims.exp
      THEN "Expired"
    ELSE IF claims.device # expected_device
      THEN "WrongDevice"
    ELSE IF ~WellFormed(claims)
      THEN "Content"
    ELSE "ok"

\* key.verify, with the trusted key that the token names.
SignatureValid(token) == token.signer = token.kid

Verify(token, trusted, now, expected_device) ==
    IF token.form = "too_long"
      THEN "TooLong"
    ELSE IF token.form = "malformed"
      THEN "Malformed"
    ELSE IF token.kid \notin trusted
      THEN "UnknownKey"
    ELSE IF token.form = "bad_signature"
      THEN "Malformed"
    ELSE IF ~SignatureValid(token)
      THEN "BadSignature"
    ELSE IF token.form = "bad_payload"
      THEN "Malformed"
    ELSE CheckClaims(token.claims, now, expected_device)

(***************************************************************************)
(* ReplayCache: a map from grant id to expiry, here a function whose       *)
(* domain is the set of remembered ids.                                    *)
(***************************************************************************)
EmptyCache == [j \in {} |-> 0]

\* A likely slip: entries are forgotten one second before they expire.
RetainedEarly(seen, now) == {j \in DOMAIN seen : seen[j] > now + 1}

\* accept first forgets every entry whose expiry is not after now ...
Retained(seen, now) == {j \in DOMAIN seen : seen[j] > now}

\* ... then refuses an id that is still remembered ...
IsReplay(seen, jti, now) == jti \in Retained(seen, now)

\* Likely slips: the entry lives from its arrival; nothing is ever purged.
CacheFromArrival(seen, jti, exp, now) ==
    LET kept == Retained(seen, now)
    IN  IF jti \in kept
          THEN [j \in kept |-> seen[j]]
          ELSE [j \in kept \cup {jti} |-> IF j = jti THEN now + MaxLifetime ELSE seen[j]]

CacheUnpurged(seen, jti, exp, now) ==
    IF jti \in Retained(seen, now)
      THEN seen
      ELSE [j \in DOMAIN seen \cup {jti} |-> IF j = jti THEN exp ELSE seen[j]]

\* ... and otherwise remembers it.  The purge is kept even when it refuses.
CacheAfter(seen, jti, exp, now) ==
    LET kept == Retained(seen, now)
    IN  IF jti \in kept
          THEN [j \in kept |-> seen[j]]
          ELSE [j \in kept \cup {jti} |-> IF j = jti THEN exp ELSE seen[j]]

(***************************************************************************)
(* authorize_connection: the claims and the device's own state become the  *)
(* context of the access policy.  operator_enabled and operator_allowed    *)
(* are constants of the code: the server decided them when it signed.      *)
(***************************************************************************)
ConnectionContext(claims, local, now) ==
    [operator_organization |-> claims.org,
     device_organization   |-> local.org_id,
     operator_id           |-> claims.operator,
     operator_enabled      |-> TRUE,
     device_enabled        |-> local.device_enabled,
     operator_allowed      |-> TRUE,
     grant_operator        |-> claims.operator,
     grant_device          |-> claims.device,
     device_id             |-> local.device_id,
     grant_not_before      |-> claims.nbf,
     grant_expires_at      |-> claims.exp,
     now                   |-> now,
     grant_revoked         |-> local.grant_revoked,
     mode                  |-> claims.mode,
     unattended_enabled    |-> local.unattended_enabled,
     session_consent       |-> local.session_consent,
     policy_capabilities   |-> claims.caps,
     grant_capabilities    |-> claims.caps,
     local_capabilities    |-> local.local_capabilities]

AuthorizeConnection(claims, local, requested, now) ==
    IF claims.device # local.device_id
      THEN "WrongDevice"
    ELSE IF ~(claims.caps \subseteq Capability) \/ claims.mode \notin Modes
      THEN "Content"
    ELSE Authorize(ConnectionContext(claims, local, now), requested)

=============================================================================
