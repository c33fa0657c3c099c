------------------------------ MODULE GrantOnce ------------------------------
(***************************************************************************)
(* What the device side promises about session grants: while it runs, a    *)
(* grant opens at most one session, inside its own validity window on the  *)
(* device's clock, and never once it is on the revocation list.  A restart *)
(* forgets what was opened.                                                *)
(***************************************************************************)
EXTENDS Naturals

CONSTANTS Jti, NotBefore, ExpiresAt      \* grant ids and their windows

VARIABLES now, revoked, opened           \* opened[j]: sessions opened with j

vars == <<now, revoked, opened>>

Init == /\ now = 0
        /\ revoked = {}
        /\ opened = [j \in Jti |-> 0]

Open(j) == /\ opened[j] = 0
           /\ j \notin revoked
           /\ NotBefore[j] <= now
           /\ now < ExpiresAt[j]
           /\ opened' = [opened EXCEPT ![j] = 1]
           /\ UNCHANGED <<now, revoked>>

Revoke(j) == /\ revoked' = revoked \cup {j}
             /\ UNCHANGED <<now, opened>>

Tick == /\ now' = now + 1
        /\ UNCHANGED <<revoked, opened>>

Restart == /\ opened' = [j \in Jti |-> 0]
           /\ UNCHANGED <<now, revoked>>

Next == Tick \/ Restart \/ \E j \in Jti : Open(j) \/ Revoke(j)

Spec == Init /\ [][Next]_vars

=============================================================================
