---------------------------- MODULE AccessPolicy ----------------------------
(***************************************************************************)
(* crates/access-policy: the pure decision whether a requested set of      *)
(* capabilities may be used.  The code takes slices of capabilities and    *)
(* only asks for emptiness and membership, so they are sets here.  A name  *)
(* of an operator, device or organisation is a value; Blank stands for     *)
(* every string that is empty after trimming.                              *)
(***************************************************************************)
EXTENDS Naturals

CONSTANT Blank

\* The reasons of the enum Denial, in the order in which authorize tries them.
Denials == {"InvalidIdentity", "OrganizationMismatch", "Disabled",
            "OperatorNotAllowed", "WrongGrantBinding", "InvalidGrantTime",
            "Revoked", "ConsentRequired", "UnattendedDisabled",
            "EmptyRequest", "CapabilityDenied"}

Modes == {"attended", "unattended"}

\* The capabilities every one of the three parties agrees to.
CommonCapabilities(ctx) ==
    ctx.policy_capabilities \cap ctx.grant_capabilities \cap ctx.local_capabilities

\* A likely slip: the end of the window counted as part of it.
InWindowInclusive(ctx) == /\ ctx.grant_not_before < ctx.grant_expires_at
                          /\ ctx.now \in ctx.grant_not_before..ctx.grant_expires_at

\* The half-open window [not_before, expires_at).
InWindow(ctx) == /\ ctx.grant_not_before < ctx.grant_expires_at
                 /\ ctx.grant_not_before <= ctx.now
                 /\ ctx.now < ctx.grant_expires_at

Authorize(ctx, requested) ==
    IF Blank \in {ctx.operator_id, ctx.device_id,
                  ctx.operator_organization, ctx.device_organization}
      THEN "InvalidIdentity"
    ELSE IF ctx.operator_organization # ctx.device_organization
      THEN "OrganizationMismatch"
    ELSE IF ~ctx.operator_enabled \/ ~ctx.device_enabled
      THEN "Disabled"
    ELSE IF ~ctx.operator_allowed
      THEN "OperatorNotAllowed"
    ELSE IF ctx.grant_operator # ctx.operator_id \/ ctx.grant_device # ctx.device_id
      THEN "WrongGrantBinding"
    ELSE IF ~InWindow(ctx)
      THEN "InvalidGrantTime"
    ELSE IF ctx.grant_revoked
      THEN "Revoked"
    ELSE IF ctx.mode = "attended" /\ ~ctx.session_consent
      THEN "ConsentRequired"
    ELSE IF ctx.mode = "unattended" /\ ~ctx.unattended_enabled
      THEN "UnattendedDisabled"
    ELSE IF requested = {}
      THEN "EmptyRequest"
    ELSE IF ~(requested \subseteq CommonCapabilities(ctx))
      THEN "CapabilityDenied"
    ELSE "ok"

=============================================================================
