------------------------------ MODULE MCAccess ------------------------------
(***************************************************************************)
(* Two organisations that share a user: ann owns acme, bob is a member of  *)
(* acme and the owner of his own organisation.                             *)
(***************************************************************************)
EXTENDS Access, TLC

CONSTANTS ann, bob, acme, own, d1, d2, view

MCRoleOf == (acme :> (ann :> "owner" @@ bob :> "member"))
            @@ (own :> (ann :> "none" @@ bob :> "owner"))

TwoDevices == d1 :> acme @@ d2 :> own
GroupSymmetry == Permutations(Group)

=============================================================================
