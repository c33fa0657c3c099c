------------------------------- MODULE Account -------------------------------
(***************************************************************************)
(* crates/control/src/auth.rs: one account, its sessions, its second       *)
(* factor and its recovery codes, used by several HTTP requests at a time. *)
(*                                                                         *)
(* A request is a process.  It keeps what it has read in its own record    *)
(* and every statement or transaction of its handler is one step, so that  *)
(* the steps of different requests interleave at each await.  A            *)
(* transaction is one step because every transaction that decides          *)
(* something updates the row of `users` first or ends with it, and that    *)
(* row lock orders them.  An answer that changes nothing (401, 403, 409,   *)
(* 400) is a stuttering step and is left out, unless a failure is counted. *)
(*                                                                         *)
(* What a request read may be out of date when it acts.  Each request      *)
(* carries, as history, the set of things that others committed in the     *)
(* meantime, and the properties say of each promise of the documentation   *)
(* which of them it takes to break it.                                     *)
(*                                                                         *)
(* One tick of the clock is one TOTP period.  The clock is read in the     *)
(* step of the statement next to it: a later reading would only find a     *)
(* lock that was read ended, or the window of a code moved, and no         *)
(* property depends on which of the codes near the present match.          *)
(* Passwords stand for their hashes; a TOTP code is the secret and the     *)
(* step it was computed from; a recovery code is the number of its batch.  *)
(***************************************************************************)
EXTENDS Integers, Sequences

CONSTANTS
    Request,          \* requests in progress at the same time
    Password,         \* passwords anybody may type
    Operations,       \* the handlers used in a run
    MaxFailedAttempts, LockoutTicks, PendingTtl, SessionTtl,
    MaxTime,          \* bound on the clock
    MaxSessions,      \* bound on the sessions ever created
    MaxSecrets,       \* bound on the TOTP secrets ever drawn
    MaxBatches,       \* bound on the recovery code batches ever drawn
    InitialUsers      \* the rows of `users` an account may start with

VARIABLES
    now,              \* the clock of the server and of its database
    user,             \* the row of `users`
    recovery,         \* unused recovery codes of the account
    sessions,         \* the rows of `sessions`, in order of creation
    reqs,             \* the requests in progress
    drawn,            \* how many secrets and batches were drawn so far
    spent,            \* history: factors that were accepted (see ConfirmCommit)
    failures,         \* history: failures since the last reset, the last one's time
    proved            \* history: secrets for which a code was shown to mfa_confirm

vars == <<now, user, recovery, sessions, reqs, drawn, spent, failures, proved>>
history == <<spent, failures, proved>>

NoSecret == 0
NoFactor == <<"none", 0, 0>>
StartTime == 2        \* the first TOTP steps are never 0

Totp(secret, step) == <<"totp", secret, step>>
RecoveryCode(batch) == <<"recovery", batch, 0>>

Factors ==
    {Totp(s, k) : s \in 1..MaxSecrets, k \in (StartTime - 1)..(MaxTime + 1)}
    \cup {RecoveryCode(b) : b \in 1..MaxBatches}

UserRow == [hash : Password, failed : 0..MaxFailedAttempts,
            locked_until : 0..(MaxTime + LockoutTicks),
            secret : NoSecret..MaxSecrets, mfa_enabled : BOOLEAN,
            last_step : 0..(MaxTime + 1)]

\* What others commit while a request is in progress: another password, a lock,
\* the second factor switched on or off, another secret, or the session that
\* the same pending login is exchanged for.
Events == {"hash", "lock", "mfa", "secret", "pending"}

\* pw, missed and from are history: the password the session goes back to,
\* what was committed while its login was in progress, and the pending session
\* it was exchanged for.
SessionRow == [kind : {"full", "mfa_pending"}, revoked : BOOLEAN, expires : Nat,
               pw : Password, missed : SUBSET {"hash", "pending"}, from : Nat]

AllOperations == {"login", "login_mfa", "change_password", "mfa_enroll",
                  "mfa_confirm", "mfa_disable", "logout"}

AnyPassword == CHOOSE pw \in Password : TRUE

NoRequest == [op |-> "none", phase |-> "idle", sid |-> 0,
              pw |-> AnyPassword, new |-> AnyPassword, factor |-> NoFactor,
              secret |-> NoSecret, flag |-> FALSE, missed |-> {}]

RequestState == [op : AllOperations \cup {"none"},
                 phase : {"idle", "read", "factor", "commit", "fail"},
                 sid : 0..MaxSessions, pw : Password, new : Password,
                 factor : Factors \cup {NoFactor},
                 secret : NoSecret..MaxSecrets, flag : BOOLEAN, missed : SUBSET Events]

ASSUME AccountConstants ==
    /\ Operations \subseteq AllOperations
    /\ {MaxFailedAttempts, LockoutTicks, PendingTtl, SessionTtl} \subseteq Nat \ {0}
    /\ {MaxTime, MaxSessions, MaxSecrets, MaxBatches} \subseteq Nat
    /\ MaxTime >= StartTime /\ MaxSessions > 0 /\ Password # {}

\* An account starts without failures, and with a secret if and only if it is
\* an account with an active second factor.
ASSUME FreshUsers ==
    \A u \in InitialUsers :
        /\ u \in UserRow
        /\ u.failed = 0 /\ u.locked_until = 0 /\ u.last_step = 0
        /\ u.mfa_enabled <=> u.secret # NoSecret
        /\ u.mfa_enabled => MaxBatches > 0

TypeOK ==
    /\ now \in StartTime..MaxTime
    /\ user \in UserRow
    /\ recovery \subseteq 1..MaxBatches
    /\ sessions \in Seq(SessionRow) /\ Len(sessions) <= MaxSessions
    /\ reqs \in [Request -> RequestState]
    /\ drawn \in [secrets : 0..MaxSecrets, batches : 0..MaxBatches]
    /\ spent \subseteq Factors
    /\ failures \in [count : 0..MaxFailedAttempts, at : 0..MaxTime]
    /\ proved \subseteq 1..MaxSecrets

Init ==
    /\ now = StartTime
    /\ user \in InitialUsers
    /\ drawn = [secrets |-> user.secret, batches |-> IF user.mfa_enabled THEN 1 ELSE 0]
    /\ recovery = 1..drawn.batches
    /\ sessions = <<[kind |-> "full", revoked |-> FALSE,
                     expires |-> StartTime + SessionTtl, pw |-> user.hash,
                     missed |-> {}, from |-> 0]>>
    /\ reqs = [r \in Request |-> NoRequest]
    /\ spent = {}
    /\ failures = [count |-> 0, at |-> 0]
    /\ proved = IF user.mfa_enabled THEN {user.secret} ELSE {}

-----------------------------------------------------------------------------
(***************************************************************************)
(* Helpers.                                                                *)
(***************************************************************************)
\* Slip: the lock ends one tick early.
LockEndsEarly == user.locked_until > now + 1

Locked == user.locked_until > now

\* Slip: an MFA user's password is enough.
NeverSecondFactor == FALSE

NeedsSecondFactor == user.mfa_enabled

\* Slip: the session stands for the current password.
SessionIsEnough(r) == TRUE

CurrentPassword(r) == reqs[r].pw = user.hash

Live(id, kind) == /\ sessions[id].kind = kind
                  /\ ~sessions[id].revoked
                  /\ sessions[id].expires > now

\* totp::verify with window 1: the matched step is the code's own.
TotpMatches(secret, factor) ==
    /\ factor[1] = "totp" /\ factor[2] = secret
    /\ factor[3] \in (now - 1)..(now + 1)

Unlocked(row) == [row EXCEPT !.failed = 0, !.locked_until = 0]

\* The row create_session inserts for request r.
NewSession(r, kind, ttl) ==
    [kind |-> kind, revoked |-> FALSE, expires |-> now + ttl, pw |-> reqs[r].pw,
     missed |-> reqs[r].missed \cap {"hash", "pending"}, from |-> reqs[r].sid]

Begin(r, fields) ==
    /\ reqs[r].phase = "idle"
    /\ fields.op \in Operations
    /\ reqs' = [reqs EXCEPT ![r] = fields]

Finish(r) == reqs' = [reqs EXCEPT ![r] = NoRequest]

\* A request that has read the account and will act on what it read.
Acting(r) == reqs[r].phase \in {"factor", "commit"}

\* Request r ends, and what it committed is news to those of `whom`.
Overtake(r, whom, what) ==
    reqs' = [q \in Request |->
                IF q = r THEN NoRequest
                ELSE IF q \in whom THEN [reqs[q] EXCEPT !.missed = @ \cup what]
                ELSE reqs[q]]
OvertakeAll(r, what) == Overtake(r, {q \in Request : Acting(q)}, what)

Goto(r, phase) == reqs' = [reqs EXCEPT ![r].phase = phase]
At(r, op, phase) == reqs[r].op = op /\ reqs[r].phase = phase

\* Slip: the old count is compared.
OldCountReachesLimit == user.failed >= MaxFailedAttempts

ReachesLimit == user.failed + 1 >= MaxFailedAttempts
LockEnd == now + LockoutTicks

\* register_failure: one UPDATE that counts and, at the limit, locks.  The
\* counter saturates at the limit here: beyond it nothing depends on it.
RegisterFailure(r) ==
    /\ reqs[r].phase = "fail"
    /\ user' = [user EXCEPT
                  !.failed = IF ReachesLimit THEN MaxFailedAttempts ELSE @ + 1,
                  !.locked_until = IF ReachesLimit THEN LockEnd ELSE @]
    /\ failures' = [count |-> IF failures.count < MaxFailedAttempts
                                THEN failures.count + 1 ELSE failures.count,
                    at |-> now]
    /\ OvertakeAll(r, IF ReachesLimit THEN {"lock"} ELSE {})
    /\ UNCHANGED <<now, recovery, sessions, drawn, spent, proved>>

ResetFailures == failures' = [count |-> 0, at |-> 0]

-----------------------------------------------------------------------------
(***************************************************************************)
(* POST /login                                                             *)
(***************************************************************************)
\* The row is read.  The Argon2 check that follows uses the hash and the MFA
\* flag that were read.
LoginRead(r, pw) ==
    /\ ~Locked
    /\ Begin(r, [NoRequest EXCEPT !.op = "login", !.pw = pw,
                    !.phase = IF pw = user.hash THEN "commit" ELSE "fail",
                    !.flag = NeedsSecondFactor])
    /\ UNCHANGED <<now, user, recovery, sessions, drawn, history>>

\* A locked account answers 401 after a dummy password check: no failure is
\* counted and the lock is not extended.
LoginRefused(r) == Locked /\ reqs[r].phase = "idle" /\ UNCHANGED vars

LoginCommit(r) ==
    /\ At(r, "login", "commit")
    /\ Len(sessions) < MaxSessions
    /\ IF reqs[r].flag
         THEN /\ sessions' = Append(sessions, NewSession(r, "mfa_pending", PendingTtl))
              /\ UNCHANGED <<user, failures>>
         ELSE /\ sessions' = Append(sessions, NewSession(r, "full", SessionTtl))
              /\ user' = Unlocked(user)
              /\ ResetFailures
    /\ Finish(r)
    /\ UNCHANGED <<now, recovery, drawn, spent, proved>>

(***************************************************************************)
(* POST /login/mfa                                                         *)
(***************************************************************************)
\* Slip: only the first step looks at the lock.
NeverRefused == FALSE

SecondStepRefused == Locked

LoginMfaRead(r, id, factor) ==
    /\ Live(id, "mfa_pending")
    /\ user.mfa_enabled
    /\ ~SecondStepRefused
    /\ factor[1] = "totp" => user.secret # NoSecret
    /\ Begin(r, [NoRequest EXCEPT !.op = "login_mfa", !.phase = "factor", !.sid = id,
                    !.pw = sessions[id].pw, !.factor = factor, !.secret = user.secret,
                    !.flag = TRUE, !.missed = sessions[id].missed \cap {"hash"}])
    /\ UNCHANGED <<now, user, recovery, sessions, drawn, history>>

\* Slip: the step that was accepted last is accepted again.
TotpAcceptedAgain(r) == /\ TotpMatches(reqs[r].secret, reqs[r].factor)
                        /\ user.last_step <= reqs[r].factor[3]

\* consume_totp, with the secret the request read, or the UPDATE of
\* recovery_codes.  mfa_disable comes here too, and spends its code even when
\* the password it also needs was wrong (flag = FALSE).
TotpAccepted(r) == /\ TotpMatches(reqs[r].secret, reqs[r].factor)
                   /\ user.last_step < reqs[r].factor[3]

RecoveryAccepted(r) == /\ reqs[r].factor[1] = "recovery"
                       /\ reqs[r].factor[2] \in recovery

ConsumeFactor(r) ==
    LET f == reqs[r].factor
        accepted == TotpAccepted(r) \/ RecoveryAccepted(r)
    IN  /\ reqs[r].phase = "factor"
        /\ user' = IF TotpAccepted(r) THEN [user EXCEPT !.last_step = f[3]] ELSE user
        /\ recovery' = IF RecoveryAccepted(r) THEN recovery \ {f[2]} ELSE recovery
        /\ spent' = IF accepted THEN spent \cup {f} ELSE spent
        /\ Goto(r, IF accepted /\ reqs[r].flag THEN "commit" ELSE "fail")
        /\ UNCHANGED <<now, sessions, drawn, failures, proved>>

\* Slip: the pending session is not revoked.
PendingKept(r) == sessions

PendingSpent(r) == [sessions EXCEPT ![reqs[r].sid].revoked = TRUE]

SameSecondStep(q, r) ==
    Acting(q) /\ reqs[q].op = "login_mfa" /\ reqs[q].sid = reqs[r].sid

LoginMfaCommit(r) ==
    /\ At(r, "login_mfa", "commit")
    /\ Len(sessions) < MaxSessions
    /\ sessions' = Append(PendingSpent(r), NewSession(r, "full", SessionTtl))
    /\ user' = Unlocked(user)
    /\ ResetFailures
    /\ Overtake(r, {q \in Request : SameSecondStep(q, r)}, {"pending"})
    /\ UNCHANGED <<now, recovery, drawn, spent, proved>>

-----------------------------------------------------------------------------
(***************************************************************************)
(* Handlers behind a bearer token.  authenticate is a statement of its own *)
(* and is not repeated: the session may be revoked right after it.         *)
(***************************************************************************)
Authenticate(r, op, id, pw, new, factor) ==
    /\ op \notin {"login", "login_mfa"}
    /\ Live(id, "full")
    /\ Begin(r, [NoRequest EXCEPT !.op = op, !.phase = "read", !.sid = id,
                                  !.pw = pw, !.new = new, !.factor = factor])
    /\ UNCHANGED <<now, user, recovery, sessions, drawn, history>>

LogoutRevoke(r) ==
    /\ At(r, "logout", "read")
    /\ sessions' = [sessions EXCEPT ![reqs[r].sid].revoked = TRUE]
    /\ Finish(r)
    /\ UNCHANGED <<now, user, recovery, drawn, history>>

\* change_password reads the hash, and checks it outside any transaction.
ChangeRead(r) ==
    /\ At(r, "change_password", "read")
    /\ Goto(r, IF CurrentPassword(r) THEN "commit" ELSE "fail")
    /\ UNCHANGED <<now, user, recovery, sessions, drawn, history>>

\* Slip: only pending sessions end.
RevokeOthersPending(id, new) ==
    [i \in DOMAIN sessions |->
        IF i = id THEN [sessions[i] EXCEPT !.pw = new]
                  ELSE [sessions[i] EXCEPT !.revoked = @ \/ sessions[i].kind = "mfa_pending"]]

\* Every other session of any kind ends.  History: the session that is kept
\* now belongs to the new password.
RevokeOthers(id, new) ==
    [i \in DOMAIN sessions |->
        IF i = id THEN [sessions[i] EXCEPT !.pw = new]
                  ELSE [sessions[i] EXCEPT !.revoked = TRUE]]

ChangeCommit(r) ==
    /\ At(r, "change_password", "commit")
    /\ user' = [Unlocked(user) EXCEPT !.hash = reqs[r].new]
    /\ sessions' = RevokeOthers(reqs[r].sid, reqs[r].new)
    /\ ResetFailures
    /\ OvertakeAll(r, {"hash"})
    /\ UNCHANGED <<now, recovery, drawn, spent, proved>>

\* Slip: an active second factor may be enrolled again.
MayAlwaysEnroll == TRUE

MayEnroll == ~user.mfa_enabled

\* mfa_enroll: the flag is read, then the fresh secret is written.
EnrollRead(r) ==
    /\ At(r, "mfa_enroll", "read")
    /\ IF MayEnroll THEN Goto(r, "commit") ELSE Finish(r)
    /\ UNCHANGED <<now, user, recovery, sessions, drawn, history>>

EnrollWrite(r) ==
    /\ At(r, "mfa_enroll", "commit")
    /\ drawn.secrets < MaxSecrets
    /\ drawn' = [drawn EXCEPT !.secrets = @ + 1]
    /\ user' = [user EXCEPT !.secret = drawn'.secrets]
    /\ OvertakeAll(r, {"secret"})
    /\ UNCHANGED <<now, recovery, sessions, history>>

\* mfa_confirm checks the code against the secret it read; the transaction
\* that follows does not look at the row again.
ConfirmRead(r) ==
    LET valid == /\ ~user.mfa_enabled
                 /\ user.secret # NoSecret
                 /\ TotpMatches(user.secret, reqs[r].factor)
    IN  /\ At(r, "mfa_confirm", "read")
        /\ IF valid THEN Goto(r, "commit") ELSE Finish(r)
        /\ proved' = IF valid THEN proved \cup {user.secret} ELSE proved
        /\ UNCHANGED <<now, user, recovery, sessions, drawn, spent, failures>>

ActiveRow(r) == [user EXCEPT !.mfa_enabled = TRUE, !.last_step = reqs[r].factor[3]]

\* History: a confirmation that missed another one sets the last accepted step
\* anew, possibly back, and what was accepted up to there is not spent any more.
ConfirmCommit(r) ==
    /\ At(r, "mfa_confirm", "commit")
    /\ drawn.batches < MaxBatches
    /\ drawn' = [drawn EXCEPT !.batches = @ + 1]
    /\ user' = ActiveRow(r)
    /\ recovery' = {drawn'.batches}
    /\ spent' = {reqs[r].factor}
                  \cup {f \in spent : f[1] = "recovery" \/ "mfa" \notin reqs[r].missed}
    /\ OvertakeAll(r, {"mfa"})
    /\ UNCHANGED <<now, sessions, failures, proved>>

\* mfa_disable reads the row; the password check's verdict is kept in flag,
\* and the code is consumed whatever it was.
DisableRead(r) ==
    /\ At(r, "mfa_disable", "read")
    /\ IF user.mfa_enabled /\ user.secret # NoSecret
         THEN reqs' = [reqs EXCEPT ![r].phase = "factor", ![r].secret = user.secret,
                                   ![r].flag = CurrentPassword(r)]
         ELSE Finish(r)
    /\ UNCHANGED <<now, user, recovery, sessions, drawn, history>>

\* Slip: the secret stays, for a later confirmation.
DisabledRowWithSecret == [user EXCEPT !.mfa_enabled = FALSE, !.last_step = 0]

DisabledRow == [user EXCEPT !.mfa_enabled = FALSE, !.secret = NoSecret, !.last_step = 0]

DisableCommit(r) ==
    /\ At(r, "mfa_disable", "commit")
    /\ user' = DisabledRow
    /\ recovery' = {}
    /\ OvertakeAll(r, {"mfa", "secret"})
    /\ UNCHANGED <<now, sessions, drawn, history>>

-----------------------------------------------------------------------------
\* The connection closes, the server stops or the database refuses: a request
\* ends between two of its steps and what it already committed stays.
Drop(r) ==
    /\ reqs[r].phase # "idle"
    /\ Finish(r)
    /\ UNCHANGED <<now, user, recovery, sessions, drawn, history>>

Tick ==
    /\ now < MaxTime
    /\ now' = now + 1
    /\ UNCHANGED <<user, recovery, sessions, reqs, drawn, history>>

\* Codes a client can have: of a drawn secret, for a step near the present,
\* or a drawn recovery code.
Presentable ==
    {Totp(s, k) : s \in 1..drawn.secrets, k \in (now - 1)..(now + 1)}
    \cup {RecoveryCode(b) : b \in 1..drawn.batches}

\* What each handler takes from its body; the other fields stay at a default.
Bodies(op) ==
    [pw : IF op \in {"change_password", "mfa_disable"} THEN Password ELSE {AnyPassword},
     new : IF op = "change_password" THEN Password ELSE {AnyPassword},
     factor : IF op \in {"mfa_confirm", "mfa_disable"}
                THEN {f \in Presentable : f[1] = "totp"} ELSE {NoFactor}]

Next ==
    \/ Tick
    \/ \E r \in Request :
          \/ \E pw \in Password : LoginRead(r, pw)
          \/ \E id \in DOMAIN sessions, f \in Presentable : LoginMfaRead(r, id, f)
          \/ \E op \in Operations \ {"login", "login_mfa"}, id \in DOMAIN sessions :
                \E b \in Bodies(op) : Authenticate(r, op, id, b.pw, b.new, b.factor)
          \/ LoginRefused(r) \/ LoginCommit(r) \/ ConsumeFactor(r) \/ LoginMfaCommit(r)
          \/ RegisterFailure(r) \/ LogoutRevoke(r)
          \/ ChangeRead(r) \/ ChangeCommit(r)
          \/ EnrollRead(r) \/ EnrollWrite(r)
          \/ ConfirmRead(r) \/ ConfirmCommit(r)
          \/ DisableRead(r) \/ DisableCommit(r)
          \/ Drop(r)

Spec == Init /\ [][Next]_vars

-----------------------------------------------------------------------------
(***************************************************************************)
(* What holds however requests interleave.  Where a promise of the         *)
(* documentation can be broken, the property says by which requests only:  *)
(* those that were past their look at the account when a certain other     *)
(* request committed.                                                      *)
(***************************************************************************)
\* The step in which request r writes what it decided on.
Commits(r) == reqs[r].phase = "commit" /\ reqs'[r].phase = "idle"

Opens(r) == Commits(r) /\ Len(sessions') > Len(sessions)

\* No failure is lost and none is counted twice, and the failure that reaches
\* the limit locks the account from that moment (register_failure), although
\* several wrong guesses may be checked at the same time.
FailuresLock ==
    /\ user.failed = failures.count
    /\ failures.count = MaxFailedAttempts
         => user.locked_until = failures.at + LockoutTicks

\* A locked account opens no session, "even for the right password", but for a
\* login or second step that had found it unlocked and was in progress when the
\* lock was set.
LockedOpensNoSession ==
    [][\A r \in Request :
          Opens(r) /\ user.locked_until > now => "lock" \in reqs[r].missed]_vars

\* Before its time a lock is lifted only by a password change, which shows the
\* password, and by a login that was in progress when the lock was set: the
\* failures that others go on with stay counted.
LockIsKept ==
    [][user.locked_until > now /\ user'.locked_until <= now
         => \E r \in Request : /\ Commits(r)
                               /\ \/ reqs[r].op = "change_password"
                                  \/ "lock" \in reqs[r].missed]_vars

\* A factor is accepted once: no TOTP step and no recovery code opens a second
\* session or disables the second factor after that, not even for two requests
\* that present it together (consume_totp).  Switching the second factor on or
\* off sets the last accepted step anew, possibly back: a request that was in
\* progress then may be accepted with a spent TOTP code, and a confirmation
\* that missed another one makes a fresh start for all (ConfirmCommit).
FactorOnce ==
    [][\A r \in Request :
          reqs[r].phase = "factor" /\ reqs'[r].phase = "commit"
          => \/ reqs[r].factor \notin spent
             \/ reqs[r].factor[1] = "totp" /\ "mfa" \in reqs[r].missed]_vars

\* After a password change the only sessions left from an earlier password are
\* those of logins that were already in progress when it committed: pending
\* second steps and sessions from other devices are gone (change_password).
OnlyOverlappingLoginsSurvive ==
    \A i \in DOMAIN sessions :
        Live(i, "full") /\ sessions[i].pw # user.hash => "hash" \in sessions[i].missed

\* "The current password is required" to set another: whoever sets one knew the
\* password in force, or one that was replaced while it was being checked.
CurrentPasswordIsRequired ==
    [][user'.hash # user.hash
         => \E r \in Request : /\ Commits(r) /\ reqs[r].op = "change_password"
                               /\ reqs[r].pw = user.hash \/ "hash" \in reqs[r].missed]_vars

\* A pending login is exchanged for one session; for another one only by a
\* second step that was in progress, with another factor, at the first exchange.
PendingIsSingleUse ==
    \A i, j \in DOMAIN sessions :
        i < j /\ sessions[i].from # 0 /\ sessions[i].from = sessions[j].from
        => "pending" \in sessions[j].missed

\* "A password-only login of an MFA user yields a session of kind mfa_pending",
\* unless the second factor was switched on while the password was checked.
PasswordAloneIsNotEnough ==
    [][\A r \in Request :
          Opens(r) /\ reqs[r].op = "login" /\ user.mfa_enabled
          => \/ sessions'[Len(sessions')].kind = "mfa_pending"
             \/ "mfa" \in reqs[r].missed]_vars

\* The account is guarded by a secret no code was shown for, or by none.
Unproved == user.mfa_enabled /\ user.secret \notin proved

\* A new secret "is stored but not yet active": a secret comes to guard the
\* account only after mfa_confirm has seen a code of it, unless an enrolment or
\* a confirmation missed that another one, or mfa_disable, committed.
ActiveSecretWasConfirmed ==
    [][~Unproved /\ Unproved'
         => \E r \in Request : /\ Commits(r)
                               /\ reqs[r].op \in {"mfa_enroll", "mfa_confirm"}
                               /\ reqs[r].missed \cap {"mfa", "secret"} # {}]_vars

\* "All other sessions end" (change_password): what the documentation says.
PasswordChangeEndsSessions ==
    \A i \in DOMAIN sessions : Live(i, "full") => sessions[i].pw = user.hash

-----------------------------------------------------------------------------
(***************************************************************************)
(* Why these properties hold: what a request read is still so, or it was   *)
(* overtaken by the request that changed it.                               *)
(***************************************************************************)
SigningIn(r) == reqs[r].op \in {"login", "login_mfa"} /\ Acting(r)

SurvivorsOverlapped ==
    \A i \in DOMAIN sessions :
        ~sessions[i].revoked /\ sessions[i].pw # user.hash => "hash" \in sessions[i].missed

StillSoOrMissed(r) ==
    /\ SigningIn(r) /\ user.locked_until > now => "lock" \in reqs[r].missed
    /\ SigningIn(r) \/ At(r, "change_password", "commit")
         => reqs[r].pw = user.hash \/ "hash" \in reqs[r].missed
    /\ At(r, "login", "commit")
         => reqs[r].sid = 0 /\ (reqs[r].flag = user.mfa_enabled \/ "mfa" \in reqs[r].missed)
    /\ reqs[r].phase = "factor" => user.mfa_enabled \/ "mfa" \in reqs[r].missed
    /\ At(r, "mfa_enroll", "commit") => ~user.mfa_enabled \/ "mfa" \in reqs[r].missed
    /\ At(r, "mfa_confirm", "commit")
         => /\ ~user.mfa_enabled \/ "mfa" \in reqs[r].missed
            /\ reqs[r].factor[2] = user.secret \/ "secret" \in reqs[r].missed
            /\ reqs[r].factor[2] \in proved

\* A second step holds a pending session that was not exchanged yet, or it
\* missed the exchange.
PendingHeldOrMissed(r) ==
    SigningIn(r) /\ reqs[r].op = "login_mfa" =>
        /\ reqs[r].sid \in DOMAIN sessions
        /\ (\E i \in DOMAIN sessions : sessions[i].from = reqs[r].sid)
             => "pending" \in reqs[r].missed

ExchangedIsRevoked ==
    \A i \in DOMAIN sessions : sessions[i].from # 0 =>
        /\ sessions[i].from \in DOMAIN sessions
        /\ sessions[sessions[i].from].revoked

\* A recovery code that was spent is gone.  A TOTP code that was spent is not
\* after the last accepted step if it is of the secret in force, or of the one
\* that a request holds which missed no switch.
Behind(secret) ==
    \A f \in spent : f[1] = "totp" /\ f[2] = secret => f[3] <= user.last_step

SpentStaysSpent ==
    /\ recovery \subseteq 1..drawn.batches /\ user.secret <= drawn.secrets
    /\ proved \subseteq 1..drawn.secrets
    /\ \A f \in spent :
          /\ f[1] = "recovery" => f[2] <= drawn.batches /\ f[2] \notin recovery
          /\ f[1] = "totp" => /\ f[2] <= drawn.secrets
                              /\ f[2] = user.secret => user.mfa_enabled
    /\ Behind(user.secret)

SecretHeldOrMissed(r) ==
    reqs[r].phase = "factor" =>
        /\ reqs[r].secret # NoSecret /\ reqs[r].secret = user.secret => user.mfa_enabled
        /\ reqs[r].secret <= drawn.secrets
        /\ "mfa" \notin reqs[r].missed => Behind(reqs[r].secret)

\* What a request holds is of the kind its handler needs.
RequestsInOrder ==
    \A r \in Request :
        /\ reqs[r].phase = "factor" => reqs[r].op \in {"login_mfa", "mfa_disable"}
        /\ reqs[r].op \in {"mfa_confirm", "mfa_disable"} => reqs[r].factor[1] = "totp"

AccountInv ==
    /\ TypeOK
    /\ RequestsInOrder
    /\ FailuresLock
    /\ SurvivorsOverlapped
    /\ ExchangedIsRevoked
    /\ PendingIsSingleUse
    /\ SpentStaysSpent
    /\ \A r \in Request :
          StillSoOrMissed(r) /\ PendingHeldOrMissed(r) /\ SecretHeldOrMissed(r)

=============================================================================
