------------------------------ MODULE MCPanel ------------------------------
(***************************************************************************)
(* The panel with a few sessions and two organisations.                    *)
(***************************************************************************)
EXTENDS Panel, TLC

\* The properties do not tell sessions, organisations or slots apart, and are
\* about single states and steps.
Symmetry == Permutations(Session) \cup Permutations(Org) \cup Permutations(Slot)

=============================================================================
