------------------------------ MODULE EnrolOnce ------------------------------
(***************************************************************************)
(* What enrolment promises: a token enrols at most one device, into the    *)
(* organisation it was made for, a key belongs to at most one device, and  *)
(* both happen at once.                                                    *)
(***************************************************************************)
CONSTANTS Token, Key

VARIABLES issued,      \* issued[t]: the organisation of the token, if any
          used,        \* tokens that are spent
          devices      \* enrolled devices

vars == <<issued, used, devices>>

Init == used = {} /\ devices = {}

Enrol(t, k) ==
    /\ t \notin used
    /\ \A d \in devices : d.key # k
    /\ used' = used \cup {t}
    /\ devices' = devices \cup {[key |-> k, token |-> t, org |-> issued[t]]}
    /\ UNCHANGED issued

Issue == /\ \A t \in used : issued'[t] = issued[t]
         /\ UNCHANGED <<used, devices>>

Next == Issue \/ \E t \in Token, k \in Key : Enrol(t, k)

Spec == Init /\ [][Next]_vars

=============================================================================
