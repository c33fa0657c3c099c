------------------------- MODULE MCAuthTransactions -------------------------
(***************************************************************************)
(* Three handlers of one account with a session and a pending one.         *)
(***************************************************************************)
EXTENDS AuthTransactions, TLC

\* Requests and emails are interchangeable; the properties are about single
\* states and steps.
Symmetry == Permutations(Request) \cup Permutations(Email \ LongEmail)

=============================================================================
