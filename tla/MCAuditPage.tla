---------------------------- MODULE MCAuditPage ----------------------------
(***************************************************************************)
(* A small journal of two organisations and its page.                      *)
(***************************************************************************)
EXTENDS AuditPage

\* Requests and organisations are interchangeable; the properties are about
\* single states.
Symmetry == Permutations(Request) \cup Permutations(Org)

=============================================================================
