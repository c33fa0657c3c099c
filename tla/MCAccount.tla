------------------------------ MODULE MCAccount ------------------------------
(***************************************************************************)
(* One account on small instances.  A run covers several scenarios: each   *)
(* says how the account starts, which handlers its clients use, and the    *)
(* bounds that keep it small.  The scenario is chosen at the start and     *)
(* never changes.  In most of them the clock stands still, because their   *)
(* hazards are orders of steps.                                            *)
(***************************************************************************)
EXTENDS Account, TLC

CONSTANTS p1, p2, Scenarios

VARIABLE scenario

TwoPasswords == {p1, p2}

Row(secret, enabled) ==
    [hash |-> p1, failed |-> 0, locked_until |-> 0, secret |-> secret,
     mfa_enabled |-> enabled, last_step |-> 0]

PlainUser == Row(NoSecret, FALSE)
MfaUser == Row(1, TRUE)
BothUsers == {PlainUser, MfaUser}

\* Guesses and password changes, without a second factor; the clock runs.
Guessing ==
    [user |-> PlainUser, ops |-> {"login", "logout", "change_password"}, passwords |-> {p1, p2},
     time |-> 3, sessions |-> 2, secrets |-> 0, batches |-> 0, steps |-> {}]

\* Second steps and password changes.
SecondSteps ==
    [user |-> MfaUser, ops |-> {"login", "login_mfa", "change_password"},
     passwords |-> {p1, p2}, time |-> 2, sessions |-> 3, secrets |-> 1, batches |-> 1,
     steps |-> {2}]

\* Several second steps, with room for two sessions from one pending login.
Exchanges ==
    [user |-> MfaUser, ops |-> {"login", "login_mfa"},
     passwords |-> {p1}, time |-> 2, sessions |-> 4, secrets |-> 1, batches |-> 1,
     steps |-> {2, 3}]

\* The second factor is used and disabled, by a user who may mistype.
Using ==
    [user |-> MfaUser, ops |-> {"login", "login_mfa", "mfa_disable"},
     passwords |-> {p1, p2}, time |-> 2, sessions |-> 3, secrets |-> 1, batches |-> 1,
     steps |-> {2, 3}]

\* The second factor is enrolled, confirmed and disabled while its user logs in.
Enrolment ==
    [user |-> PlainUser,
     ops |-> {"login", "mfa_enroll", "mfa_confirm", "mfa_disable"},
     passwords |-> {p1}, time |-> 2, sessions |-> 2, secrets |-> 2, batches |-> 2,
     steps |-> {2, 3}]

PasswordScenarios == {Guessing, SecondSteps, Exchanges}
FactorScenarios == {Enrolment, Using}

MCInit == Init /\ scenario \in Scenarios /\ user = scenario.user

Within(s) ==
    /\ now' <= s.time
    /\ Len(sessions') <= s.sessions
    /\ drawn'.secrets <= s.secrets /\ drawn'.batches <= s.batches
    /\ \A r \in Request :
          /\ reqs'[r].op \in s.ops \cup {"none"}
          /\ reqs'[r].factor[1] = "totp" => reqs'[r].factor[3] \in s.steps
          /\ {reqs'[r].pw, reqs'[r].new} \subseteq s.passwords

MCNext == Next /\ Within(scenario) /\ UNCHANGED scenario

MCSpec == MCInit /\ [][MCNext]_<<vars, scenario>>

RequestSymmetry == Permutations(Request)

=============================================================================
