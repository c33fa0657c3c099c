--------------------------- MODULE Account_proofs ---------------------------
(***************************************************************************)
(* Proofs about one account and any number of requests that interleave:    *)
(* types, failure counting, and what it takes to break each promise.       *)
(***************************************************************************)
EXTENDS Account, TLAPS

-----------------------------------------------------------------------------
(***************************************************************************)
(* Types.                                                                  *)
(***************************************************************************)
\* The local variables of a request that is not running are of their types.
LEMMA NoRequestType == NoRequest \in RequestState
<1>1. AnyPassword \in Password
  BY AccountConstants DEF AnyPassword
<1> QED
  BY <1>1, AccountConstants
  DEF NoRequest, RequestState, NoFactor, NoSecret, AllOperations, Events

\* A client presents codes of secrets and batches that exist.
LEMMA PresentableType == TypeOK => Presentable \subseteq Factors
<1> SUFFICES ASSUME TypeOK, NEW f \in Presentable PROVE f \in Factors
  OBVIOUS
<1>1. CASE f \in {Totp(s, k) : s \in 1..drawn.secrets, k \in (now - 1)..(now + 1)}
  <2>1. PICK s \in 1..drawn.secrets, k \in (now - 1)..(now + 1) : f = Totp(s, k)
    BY <1>1
  <2>2. s \in 1..MaxSecrets /\ k \in (StartTime - 1)..(MaxTime + 1)
    <3>1. now \in StartTime..MaxTime /\ drawn.secrets \in 0..MaxSecrets
      BY DEF TypeOK
    <3> QED
      BY <3>1, AccountConstants DEF StartTime
  <2> QED
    BY <2>1, <2>2 DEF Factors
<1>2. CASE f \in {RecoveryCode(b) : b \in 1..drawn.batches}
  <2>1. PICK b \in 1..drawn.batches : f = RecoveryCode(b)
    BY <1>2
  <2>2. b \in 1..MaxBatches
    <3>1. drawn.batches \in 0..MaxBatches
      BY DEF TypeOK
    <3> QED
      BY <3>1, AccountConstants
  <2> QED
    BY <2>1, <2>2 DEF Factors
<1> QED
  BY <1>1, <1>2 DEF Presentable

LEMMA InitTypes == Init => TypeOK
<1> SUFFICES ASSUME Init PROVE TypeOK
  OBVIOUS
<1>1. user \in UserRow /\ user.secret \in 0..MaxSecrets /\ user.hash \in Password
  BY FreshUsers DEF Init, UserRow, NoSecret
<1>2. now = 2 /\ now \in StartTime..MaxTime
  BY AccountConstants DEF Init, StartTime
<1>3. drawn \in [secrets : 0..MaxSecrets, batches : 0..MaxBatches]
  <2>1. user.mfa_enabled => MaxBatches > 0
    BY FreshUsers DEF Init
  <2> QED
    BY <1>1, <2>1, AccountConstants DEF Init
<1>4. recovery \subseteq 1..MaxBatches
  BY <1>3, AccountConstants DEF Init
<1>5. sessions \in Seq(SessionRow) /\ Len(sessions) <= MaxSessions
  <2>1. [kind |-> "full", revoked |-> FALSE, expires |-> StartTime + SessionTtl,
         pw |-> user.hash, missed |-> {}, from |-> 0] \in SessionRow
    BY <1>1, AccountConstants DEF SessionRow, StartTime
  <2> QED
    BY <2>1, AccountConstants DEF Init
<1>6. proved \subseteq 1..MaxSecrets
  BY <1>1, FreshUsers DEF Init, NoSecret
<1> QED
  BY <1>1, <1>2, <1>3, <1>4, <1>5, <1>6, NoRequestType, AccountConstants DEF Init, TypeOK

\* Ending a request, or moving it on, keeps the requests of their types.
LEMMA FinishType ==
    ASSUME TypeOK, NEW r \in Request, Finish(r)
    PROVE  reqs' \in [Request -> RequestState]
BY NoRequestType DEF TypeOK, Finish

LEMMA OvertakeType ==
    ASSUME TypeOK, NEW r \in Request, NEW whom, NEW what \in SUBSET Events,
           Overtake(r, whom, what)
    PROVE  reqs' \in [Request -> RequestState]
<1>1. reqs \in [Request -> RequestState]
  BY DEF TypeOK
<1>2. ASSUME NEW q \in Request
      PROVE  [reqs[q] EXCEPT !.missed = @ \cup what] \in RequestState
  <2>1. reqs[q] \in RequestState /\ reqs[q].missed \cup what \in SUBSET Events
    BY <1>1 DEF RequestState
  <2> QED
    BY <2>1 DEF RequestState
<1> QED
  BY <1>1, <1>2, NoRequestType DEF Overtake

LEMMA GotoType ==
    ASSUME TypeOK, NEW r \in Request,
           NEW phase \in {"idle", "read", "factor", "commit", "fail"}, Goto(r, phase)
    PROVE  reqs' \in [Request -> RequestState]
<1>1. reqs \in [Request -> RequestState] /\ reqs[r] \in RequestState
  BY DEF TypeOK
<1>2. [reqs[r] EXCEPT !.phase = phase] \in RequestState
  BY <1>1 DEF RequestState
<1> QED
  BY <1>1, <1>2 DEF Goto

\* The rows create_session adds are sessions.
LEMMA NewSessionType ==
    ASSUME TypeOK, NEW r \in Request, NEW kind \in {"full", "mfa_pending"}, NEW ttl \in Nat
    PROVE  NewSession(r, kind, ttl) \in SessionRow
<1>1. now \in Nat
  <2>1. now \in StartTime..MaxTime
    BY DEF TypeOK
  <2> QED
    BY <2>1 DEF StartTime
<1>2. reqs[r] \in RequestState
  BY DEF TypeOK
<1>3. reqs[r].pw \in Password /\ reqs[r].sid \in Nat
  BY <1>2 DEF RequestState
<1> QED
  BY <1>1, <1>3 DEF NewSession, SessionRow

LEMMA AppendType ==
    ASSUME NEW s \in Seq(SessionRow), NEW row \in SessionRow, Len(s) < MaxSessions
    PROVE  Append(s, row) \in Seq(SessionRow) /\ Len(Append(s, row)) <= MaxSessions
BY AccountConstants

\* Marking sessions keeps their number.
LEMMA MarkedType ==
    ASSUME TypeOK, NEW marked, DOMAIN marked = DOMAIN sessions,
           \A i \in DOMAIN sessions : marked[i] \in SessionRow,
           marked = [i \in DOMAIN sessions |-> marked[i]]
    PROVE  marked \in Seq(SessionRow) /\ Len(marked) = Len(sessions)
<1>1. Len(sessions) \in Nat /\ DOMAIN sessions = 1..Len(sessions)
  BY DEF TypeOK
<1>2. marked \in [1..Len(sessions) -> SessionRow]
  BY <1>1
<1> QED
  BY <1>1, <1>2

LEMMA UnlockedType ==
    ASSUME TypeOK
    PROVE  Unlocked(user) \in UserRow
<1>1. user \in UserRow
  BY DEF TypeOK
<1>2. 0 \in 0..MaxFailedAttempts /\ 0 \in 0..(MaxTime + LockoutTicks)
  BY AccountConstants
<1> QED
  BY <1>1, <1>2 DEF Unlocked, UserRow

LEMMA ResetType ==
    ASSUME ResetFailures
    PROVE  failures' \in [count : 0..MaxFailedAttempts, at : 0..MaxTime]
BY AccountConstants DEF ResetFailures

LEMMA BeginTypes ==
    ASSUME TypeOK, NEW r \in Request, NEW fields \in RequestState, Begin(r, fields),
           UNCHANGED <<now, user, recovery, sessions, drawn, history>>
    PROVE  TypeOK'
BY DEF TypeOK, Begin, history

LEMMA LoginReadTypes ==
    ASSUME TypeOK, NEW r \in Request, NEW pw \in Password, LoginRead(r, pw)
    PROVE  TypeOK'
<1>1. NeedsSecondFactor \in BOOLEAN
  BY DEF TypeOK, UserRow, NeedsSecondFactor
<1>2. [NoRequest EXCEPT !.op = "login", !.pw = pw,
          !.phase = IF pw = user.hash THEN "commit" ELSE "fail",
          !.flag = NeedsSecondFactor] \in RequestState
  BY <1>1, NoRequestType DEF RequestState, AllOperations
<1> QED
  BY <1>2, BeginTypes DEF LoginRead

\* The sessions there are have numbers a request can hold.
LEMMA SessionIds ==
    ASSUME TypeOK, NEW id \in DOMAIN sessions
    PROVE  id \in 0..MaxSessions /\ sessions[id] \in SessionRow
<1>1. sessions \in Seq(SessionRow) /\ Len(sessions) <= MaxSessions
  BY DEF TypeOK
<1>2. DOMAIN sessions = 1..Len(sessions) /\ Len(sessions) \in Nat
  BY <1>1
<1>3. id \in 0..MaxSessions
  BY <1>1, <1>2, AccountConstants
<1> QED
  BY <1>1, <1>2, <1>3

LEMMA LoginMfaReadTypes ==
    ASSUME TypeOK, NEW r \in Request, NEW id \in DOMAIN sessions, NEW f \in Presentable,
           LoginMfaRead(r, id, f)
    PROVE  TypeOK'
<1>1. f \in Factors /\ id \in 0..MaxSessions /\ sessions[id] \in SessionRow
  BY PresentableType, SessionIds
<1>2. user.secret \in NoSecret..MaxSecrets
  BY DEF TypeOK, UserRow
<1>3. [NoRequest EXCEPT !.op = "login_mfa", !.phase = "factor", !.sid = id,
          !.pw = sessions[id].pw, !.factor = f, !.secret = user.secret,
          !.flag = TRUE, !.missed = sessions[id].missed \cap {"hash"}] \in RequestState
  BY <1>1, <1>2, NoRequestType DEF RequestState, AllOperations, SessionRow, Events
<1> QED
  BY <1>3, BeginTypes DEF LoginMfaRead

LEMMA AuthenticateTypes ==
    ASSUME TypeOK, NEW r \in Request, NEW op \in Operations, NEW id \in DOMAIN sessions,
           NEW b \in Bodies(op), Authenticate(r, op, id, b.pw, b.new, b.factor)
    PROVE  TypeOK'
<1>1. id \in 0..MaxSessions /\ op \in AllOperations
  BY SessionIds, AccountConstants
<1>2. AnyPassword \in Password
  <2>1. Password # {}
    BY AccountConstants
  <2> QED
    BY <2>1 DEF AnyPassword
<1>3. b.pw \in Password /\ b.new \in Password
  BY <1>2 DEF Bodies
<1>4. b.factor \in Factors \cup {NoFactor}
  <2>1. b.factor \in (IF op \in {"mfa_confirm", "mfa_disable"}
                        THEN {f \in Presentable : f[1] = "totp"} ELSE {NoFactor})
    BY DEF Bodies
  <2> QED
    BY <2>1, PresentableType
<1>5. [NoRequest EXCEPT !.op = op, !.phase = "read", !.sid = id,
                        !.pw = b.pw, !.new = b.new, !.factor = b.factor] \in RequestState
  BY <1>1, <1>3, <1>4, NoRequestType DEF RequestState
<1> QED
  BY <1>5, BeginTypes DEF Authenticate

LEMMA RegisterFailureTypes ==
    ASSUME TypeOK, NEW r \in Request, RegisterFailure(r)
    PROVE  TypeOK'
<1>1. now \in 0..MaxTime /\ LockEnd \in 0..(MaxTime + LockoutTicks)
  <2>1. now \in StartTime..MaxTime
    BY DEF TypeOK
  <2> QED
    BY <2>1, AccountConstants DEF StartTime, LockEnd
<1>2. user \in UserRow /\ user.failed \in 0..MaxFailedAttempts
  BY DEF TypeOK, UserRow
<1>3. failures' \in [count : 0..MaxFailedAttempts, at : 0..MaxTime]
  <2>1. failures \in [count : 0..MaxFailedAttempts, at : 0..MaxTime]
    BY DEF TypeOK
  <2>2. failures' = [count |-> IF failures.count < MaxFailedAttempts
                                 THEN failures.count + 1 ELSE failures.count,
                     at |-> now]
    BY DEF RegisterFailure
  <2> QED
    BY <1>1, <2>1, <2>2, AccountConstants
<1>4. reqs' \in [Request -> RequestState]
  <2>1. (IF ReachesLimit THEN {"lock"} ELSE {}) \in SUBSET Events
    BY DEF Events
  <2> QED
    BY <2>1, OvertakeType DEF RegisterFailure, OvertakeAll
<1>5. CASE ReachesLimit
  <2>1. user' = [user EXCEPT !.failed = MaxFailedAttempts, !.locked_until = LockEnd]
    BY <1>5 DEF RegisterFailure
  <2>2. MaxFailedAttempts \in 0..MaxFailedAttempts
    BY AccountConstants
  <2>3. user' \in UserRow
    BY <1>1, <1>2, <2>1, <2>2 DEF UserRow
  <2> QED
    BY <2>3, <1>3, <1>4 DEF RegisterFailure, TypeOK
<1>6. CASE ~ReachesLimit
  <2>1. user' = [user EXCEPT !.failed = @ + 1, !.locked_until = @]
    BY <1>6 DEF RegisterFailure
  <2>2. user.failed + 1 \in 0..MaxFailedAttempts
    BY <1>2, <1>6, AccountConstants DEF ReachesLimit
  <2>3. user' \in UserRow
    BY <1>2, <2>1, <2>2 DEF UserRow
  <2> QED
    BY <2>3, <1>3, <1>4 DEF RegisterFailure, TypeOK
<1> QED
  BY <1>5, <1>6

LEMMA LoginCommitTypes ==
    ASSUME TypeOK, NEW r \in Request, LoginCommit(r)
    PROVE  TypeOK'
<1>1. PendingTtl \in Nat /\ SessionTtl \in Nat /\ sessions \in Seq(SessionRow)
  BY AccountConstants DEF TypeOK
<1>2. sessions' \in Seq(SessionRow) /\ Len(sessions') <= MaxSessions
  BY <1>1, NewSessionType, AppendType DEF LoginCommit
<1>3. user' \in UserRow /\ failures' \in [count : 0..MaxFailedAttempts, at : 0..MaxTime]
  BY UnlockedType, ResetType DEF LoginCommit, TypeOK
<1> QED
  BY <1>2, <1>3, FinishType DEF LoginCommit, TypeOK

LEMMA ConsumeFactorTypes ==
    ASSUME TypeOK, NEW r \in Request, ConsumeFactor(r)
    PROVE  TypeOK'
<1> DEFINE f == reqs[r].factor
<1>1. f \in Factors \cup {NoFactor} /\ user \in UserRow
  BY DEF TypeOK, RequestState
<1>2. TotpAccepted(r) => f \in Factors /\ f[3] \in 0..(MaxTime + 1)
  <2>1. TotpAccepted(r) => f[1] = "totp"
    BY DEF TotpAccepted, TotpMatches
  <2>2. ASSUME f \in Factors, f[1] = "totp" PROVE f[3] \in 0..(MaxTime + 1)
    BY <2>2, AccountConstants DEF Factors, Totp, RecoveryCode, StartTime
  <2>3. f = NoFactor => f[1] = "none"
    BY DEF NoFactor
  <2> QED
    BY <1>1, <2>1, <2>2, <2>3
<1>3. RecoveryAccepted(r) => f \in Factors
  BY <1>1 DEF RecoveryAccepted, NoFactor
<1>4. user' \in UserRow
  <2>1. CASE TotpAccepted(r)
    BY <1>1, <1>2, <2>1 DEF ConsumeFactor, UserRow
  <2>2. CASE ~TotpAccepted(r)
    BY <1>1, <2>2 DEF ConsumeFactor
  <2> QED
    BY <2>1, <2>2
<1>5. recovery' \subseteq recovery /\ spent' \subseteq Factors
  BY <1>2, <1>3 DEF ConsumeFactor, TypeOK
<1>6. reqs' \in [Request -> RequestState]
  BY GotoType DEF ConsumeFactor
<1> QED
  BY <1>4, <1>5, <1>6 DEF ConsumeFactor, TypeOK

\* Revoking one session, or all but one, gives sessions.
LEMMA RevokedType ==
    ASSUME TypeOK, NEW id
    PROVE  LET marked == [sessions EXCEPT ![id].revoked = TRUE]
           IN  marked \in Seq(SessionRow) /\ Len(marked) = Len(sessions)
<1> DEFINE marked == [sessions EXCEPT ![id].revoked = TRUE]
<1>1. DOMAIN marked = DOMAIN sessions /\ marked = [i \in DOMAIN sessions |-> marked[i]]
  OBVIOUS
<1>2. \A i \in DOMAIN sessions : marked[i] \in SessionRow
  <2>1. \A i \in DOMAIN sessions : sessions[i] \in SessionRow
    BY DEF TypeOK
  <2>2. \A i \in DOMAIN sessions : [sessions[i] EXCEPT !.revoked = TRUE] \in SessionRow
    BY <2>1 DEF SessionRow
  <2> QED
    BY <2>1, <2>2
<1> HIDE DEF marked
<1> QED
  BY <1>1, <1>2, MarkedType DEF marked

LEMMA LoginMfaCommitTypes ==
    ASSUME TypeOK, NEW r \in Request, LoginMfaCommit(r)
    PROVE  TypeOK'
<1>1. SessionTtl \in Nat /\ NewSession(r, "full", SessionTtl) \in SessionRow
  BY NewSessionType, AccountConstants
<1>2. PendingSpent(r) \in Seq(SessionRow) /\ Len(PendingSpent(r)) < MaxSessions
  BY RevokedType DEF PendingSpent, LoginMfaCommit
<1>3. sessions' \in Seq(SessionRow) /\ Len(sessions') <= MaxSessions
  BY <1>1, <1>2, AppendType DEF LoginMfaCommit
<1> QED
  BY <1>3, UnlockedType, ResetType, OvertakeType DEF LoginMfaCommit, Events, TypeOK

LEMMA LogoutTypes ==
    ASSUME TypeOK, NEW r \in Request, LogoutRevoke(r)
    PROVE  TypeOK'
BY RevokedType, FinishType DEF LogoutRevoke, history, TypeOK

LEMMA ChangeReadTypes ==
    ASSUME TypeOK, NEW r \in Request, ChangeRead(r)
    PROVE  TypeOK'
BY GotoType DEF ChangeRead, history, TypeOK

LEMMA RevokeOthersType ==
    ASSUME TypeOK, NEW r \in Request
    PROVE  LET marked == RevokeOthers(reqs[r].sid, reqs[r].new)
           IN  marked \in Seq(SessionRow) /\ Len(marked) = Len(sessions)
<1> DEFINE marked == RevokeOthers(reqs[r].sid, reqs[r].new)
<1>1. reqs[r].new \in Password
  BY DEF TypeOK, RequestState
<1>2. DOMAIN marked = DOMAIN sessions /\ marked = [i \in DOMAIN sessions |-> marked[i]]
  BY DEF RevokeOthers
<1>3. \A i \in DOMAIN sessions : sessions[i] \in SessionRow
  BY DEF TypeOK
<1>4. \A i \in DOMAIN sessions : marked[i] \in SessionRow
  BY <1>1, <1>3 DEF RevokeOthers, SessionRow
<1> HIDE DEF marked
<1> QED
  BY <1>2, <1>4, MarkedType DEF marked

LEMMA ChangeCommitTypes ==
    ASSUME TypeOK, NEW r \in Request, ChangeCommit(r)
    PROVE  TypeOK'
<1>1. reqs[r].new \in Password /\ reqs \in [Request -> RequestState]
  BY DEF TypeOK, RequestState
<1>2. user' \in UserRow
  BY <1>1, UnlockedType DEF ChangeCommit, UserRow
<1>3. sessions' \in Seq(SessionRow) /\ Len(sessions') = Len(sessions)
  BY RevokeOthersType DEF ChangeCommit
<1>4. reqs' \in [Request -> RequestState]
  BY OvertakeType DEF ChangeCommit, OvertakeAll, Events
<1> QED
  BY <1>2, <1>3, <1>4, ResetType DEF ChangeCommit, TypeOK

LEMMA EnrollTypes ==
    ASSUME TypeOK, NEW r \in Request, EnrollRead(r) \/ EnrollWrite(r)
    PROVE  TypeOK'
<1>1. CASE EnrollRead(r)
  BY <1>1, GotoType, FinishType DEF EnrollRead, history, TypeOK
<1>2. CASE EnrollWrite(r)
  <2>1. drawn.secrets + 1 \in 0..MaxSecrets
    <3>1. drawn.secrets \in 0..MaxSecrets /\ drawn.secrets < MaxSecrets
      BY <1>2 DEF EnrollWrite, TypeOK
    <3> QED
      BY <3>1, AccountConstants
  <2>2. /\ drawn' \in [secrets : 0..MaxSecrets, batches : 0..MaxBatches]
        /\ drawn'.secrets = drawn.secrets + 1
    BY <1>2, <2>1 DEF EnrollWrite, TypeOK
  <2>3. user' \in UserRow
    <3>1. user \in UserRow /\ drawn'.secrets \in NoSecret..MaxSecrets
      BY <2>1, <2>2 DEF TypeOK, NoSecret
    <3>2. [user EXCEPT !.secret = drawn'.secrets] \in UserRow
      BY <3>1 DEF UserRow
    <3> QED
      BY <1>2, <3>2 DEF EnrollWrite
  <2> QED
    BY <1>2, <2>2, <2>3, OvertakeType DEF EnrollWrite, OvertakeAll, Events, history, TypeOK
<1> QED
  BY <1>1, <1>2

LEMMA ConfirmReadTypes ==
    ASSUME TypeOK, NEW r \in Request, ConfirmRead(r)
    PROVE  TypeOK'
<1>1. reqs' \in [Request -> RequestState]
  BY GotoType, FinishType DEF ConfirmRead
<1>2. user.secret \in 0..MaxSecrets /\ MaxSecrets \in Nat
  BY AccountConstants DEF TypeOK, UserRow, NoSecret
<1>3. user.secret # NoSecret => user.secret \in 1..MaxSecrets
  BY <1>2 DEF NoSecret
<1>4. proved' \subseteq proved \cup ({user.secret} \ {NoSecret})
  BY DEF ConfirmRead
<1>5. proved' \subseteq 1..MaxSecrets
  BY <1>3, <1>4 DEF TypeOK
<1> QED
  BY <1>1, <1>5 DEF ConfirmRead, TypeOK

\* A request that confirms a secret holds a TOTP code, once it has read the row.
LEMMA ConfirmCommitTypes ==
    ASSUME TypeOK, NEW r \in Request, ConfirmCommit(r), reqs[r].factor[1] = "totp"
    PROVE  TypeOK'
<1> DEFINE f == reqs[r].factor
<1>1. f \in Factors
  <2>1. f \in Factors \cup {NoFactor} /\ NoFactor[1] = "none"
    BY DEF TypeOK, RequestState, NoFactor
  <2> QED
    BY <2>1
<1>2. f[3] \in 0..(MaxTime + 1)
  BY <1>1, AccountConstants DEF Factors, Totp, RecoveryCode, StartTime
<1>3. user' \in UserRow
  <2>1. user \in UserRow
    BY DEF TypeOK
  <2>2. [user EXCEPT !.mfa_enabled = TRUE, !.last_step = f[3]] \in UserRow
    BY <1>2, <2>1 DEF UserRow
  <2> QED
    BY <2>2 DEF ConfirmCommit, ActiveRow
<1>4. drawn.batches + 1 \in 1..MaxBatches
  <2>1. drawn.batches \in 0..MaxBatches
    BY DEF TypeOK
  <2>2. drawn.batches < MaxBatches
    BY DEF ConfirmCommit
  <2> QED
    BY <2>1, <2>2, AccountConstants
<1>5. /\ drawn' \in [secrets : 0..MaxSecrets, batches : 0..MaxBatches]
      /\ recovery' \subseteq 1..MaxBatches
  BY <1>4 DEF ConfirmCommit, TypeOK
<1> QED
  BY <1>1, <1>3, <1>5, OvertakeType DEF ConfirmCommit, OvertakeAll, Events, TypeOK

LEMMA DisableTypes ==
    ASSUME TypeOK, NEW r \in Request, DisableRead(r) \/ DisableCommit(r)
    PROVE  TypeOK'
<1>1. CASE DisableRead(r)
  <2>1. reqs' \in [Request -> RequestState]
    <3>1. reqs \in [Request -> RequestState] /\ reqs[r] \in RequestState
      BY DEF TypeOK
    <3>2. user.secret \in NoSecret..MaxSecrets
      BY DEF TypeOK, UserRow
    <3>3. [reqs[r] EXCEPT !.phase = "factor", !.secret = user.secret,
                          !.flag = CurrentPassword(r)] \in RequestState
      BY <3>1, <3>2 DEF RequestState, CurrentPassword
    <3>4. CASE user.mfa_enabled /\ user.secret # NoSecret
      <4>1. reqs' = [reqs EXCEPT ![r].phase = "factor", ![r].secret = user.secret,
                                 ![r].flag = CurrentPassword(r)]
        BY <1>1, <3>4 DEF DisableRead
      <4> QED
        BY <3>1, <3>3, <4>1
    <3>5. CASE ~(user.mfa_enabled /\ user.secret # NoSecret)
      BY <1>1, <3>5, FinishType DEF DisableRead
    <3> QED
      BY <3>4, <3>5
  <2> QED
    BY <1>1, <2>1 DEF DisableRead, history, TypeOK
<1>2. CASE DisableCommit(r)
  <2>1. 0 \in 0..(MaxTime + 1) /\ NoSecret \in NoSecret..MaxSecrets
    BY AccountConstants DEF NoSecret
  <2>2. user' \in UserRow
    BY <1>2, <2>1 DEF DisableCommit, DisabledRow, TypeOK, UserRow
  <2> QED
    BY <1>2, <2>2, OvertakeType DEF DisableCommit, OvertakeAll, Events, history, TypeOK
<1> QED
  BY <1>1, <1>2

\* A handler checks only factors it takes: its phases follow its operation.
LEMMA InOrderStep == TypeOK /\ RequestsInOrder /\ Next => RequestsInOrder'
<1> SUFFICES ASSUME TypeOK, RequestsInOrder, Next, NEW q \in Request
             PROVE  /\ reqs'[q].phase = "factor" => reqs'[q].op \in {"login_mfa", "mfa_disable"}
                    /\ reqs'[q].op \in {"mfa_confirm", "mfa_disable"}
                         => reqs'[q].factor[1] = "totp"
  BY DEF RequestsInOrder
<1> DEFINE InOrder ==
      /\ reqs'[q].phase = "factor" => reqs'[q].op \in {"login_mfa", "mfa_disable"}
      /\ reqs'[q].op \in {"mfa_confirm", "mfa_disable"} => reqs'[q].factor[1] = "totp"
<1>0. /\ reqs \in [Request -> RequestState] /\ reqs[q] \in RequestState
      /\ reqs[q].phase = "factor" => reqs[q].op \in {"login_mfa", "mfa_disable"}
      /\ reqs[q].op \in {"mfa_confirm", "mfa_disable"} => reqs[q].factor[1] = "totp"
  BY DEF TypeOK, RequestsInOrder
<1>1. ASSUME NEW r \in Request, Finish(r) PROVE InOrder
  BY <1>0, <1>1 DEF Finish, NoRequest
<1>2. ASSUME NEW r \in Request, NEW whom, NEW what, Overtake(r, whom, what) PROVE InOrder
  BY <1>0, <1>2 DEF Overtake, NoRequest, RequestState
<1>3. ASSUME NEW r \in Request, NEW phase \in {"commit", "fail"}, Goto(r, phase)
      PROVE  InOrder
  BY <1>0, <1>3 DEF Goto, RequestState
<1>4. ASSUME NEW r \in Request, NEW pw \in Password, LoginRead(r, pw) PROVE InOrder
  BY <1>0, <1>4 DEF LoginRead, Begin, NoRequest
<1>5. ASSUME NEW r \in Request, NEW id \in DOMAIN sessions, NEW f \in Presentable,
             LoginMfaRead(r, id, f)
      PROVE  InOrder
  BY <1>0, <1>5 DEF LoginMfaRead, Begin, NoRequest
<1>6. ASSUME NEW r \in Request,
             NEW op \in Operations \ {"login", "login_mfa"}, NEW id \in DOMAIN sessions,
             NEW b \in Bodies(op), Authenticate(r, op, id, b.pw, b.new, b.factor)
      PROVE  InOrder
  <2>1. op \in {"mfa_confirm", "mfa_disable"} => b.factor[1] = "totp"
    BY DEF Bodies
  <2>2. reqs' = [reqs EXCEPT ![r] =
                   [NoRequest EXCEPT !.op = op, !.phase = "read", !.sid = id,
                                     !.pw = b.pw, !.new = b.new, !.factor = b.factor]]
    BY <1>6 DEF Authenticate, Begin
  <2> QED
    BY <1>0, <2>1, <2>2 DEF NoRequest
<1>7. ASSUME NEW r \in Request, DisableRead(r) PROVE InOrder
  <2>1. CASE Finish(r)
    BY <1>1, <2>1
  <2>2. CASE ~Finish(r)
    <3>1. /\ reqs' = [reqs EXCEPT ![r].phase = "factor", ![r].secret = user.secret,
                                  ![r].flag = CurrentPassword(r)]
          /\ reqs[r].op = "mfa_disable"
      BY <1>7, <2>2 DEF DisableRead, At
    <3> QED
      BY <1>0, <3>1 DEF RequestState
  <2> QED
    BY <2>1, <2>2
<1>8. ASSUME UNCHANGED reqs PROVE InOrder
  BY <1>0, <1>8
<1>9. ASSUME NEW r \in Request,
             LoginCommit(r) \/ LogoutRevoke(r) \/ Drop(r)
      PROVE  InOrder
  BY <1>1, <1>9 DEF LoginCommit, LogoutRevoke, Drop
<1>10. ASSUME NEW r \in Request,
              \/ RegisterFailure(r) \/ LoginMfaCommit(r) \/ ChangeCommit(r)
              \/ EnrollWrite(r) \/ ConfirmCommit(r) \/ DisableCommit(r)
       PROVE  InOrder
  BY <1>2, <1>10 DEF RegisterFailure, LoginMfaCommit, ChangeCommit, EnrollWrite,
                     ConfirmCommit, DisableCommit, OvertakeAll
<1>11. ASSUME NEW r \in Request,
              ConsumeFactor(r) \/ ChangeRead(r) \/ EnrollRead(r) \/ ConfirmRead(r)
       PROVE  InOrder
  BY <1>1, <1>3, <1>11 DEF ConsumeFactor, ChangeRead, EnrollRead, ConfirmRead
<1> QED
  BY <1>4, <1>5, <1>6, <1>7, <1>8, <1>9, <1>10, <1>11 DEF Next, Tick, LoginRefused, vars

IndTypes == TypeOK /\ RequestsInOrder

LEMMA NextTypes == TypeOK /\ RequestsInOrder /\ [Next]_vars => TypeOK'
<1> SUFFICES ASSUME TypeOK, RequestsInOrder, [Next]_vars PROVE TypeOK'
  OBVIOUS
<1>1. CASE UNCHANGED vars
  BY <1>1 DEF vars, TypeOK
<1>2. CASE Tick
  <2>1. now \in StartTime..MaxTime
    BY DEF TypeOK
  <2>2. now' \in StartTime..MaxTime
    BY <1>2, <2>1, AccountConstants DEF Tick, StartTime
  <2> QED
    BY <1>2, <2>2 DEF Tick, history, TypeOK
<1>3. ASSUME NEW r \in Request, LoginRefused(r) PROVE TypeOK'
  BY <1>3 DEF LoginRefused, vars, TypeOK
<1>4. ASSUME NEW r \in Request, ConfirmCommit(r) PROVE TypeOK'
  BY <1>4, ConfirmCommitTypes DEF RequestsInOrder, ConfirmCommit, At
<1>5. ASSUME NEW r \in Request, Drop(r) PROVE TypeOK'
  BY <1>5, FinishType DEF Drop, history, TypeOK
<1> QED
  BY <1>1, <1>2, <1>3, <1>4, <1>5, LoginReadTypes, LoginMfaReadTypes, AuthenticateTypes,
     LoginCommitTypes, ConsumeFactorTypes, LoginMfaCommitTypes, RegisterFailureTypes,
     LogoutTypes, ChangeReadTypes, ChangeCommitTypes, EnrollTypes, ConfirmReadTypes,
     DisableTypes
  DEF Next

LEMMA InitIndTypes == Init => IndTypes
<1> SUFFICES ASSUME Init PROVE RequestsInOrder
  BY InitTypes DEF IndTypes
<1> QED
  BY DEF Init, RequestsInOrder, NoRequest

LEMMA NextIndTypes == IndTypes /\ [Next]_vars => IndTypes'
<1> SUFFICES ASSUME IndTypes, [Next]_vars PROVE IndTypes'
  OBVIOUS
<1>1. CASE UNCHANGED vars
  BY <1>1, NextTypes DEF vars, IndTypes, RequestsInOrder
<1>2. CASE Next
  BY <1>2, NextTypes, InOrderStep DEF IndTypes
<1> QED
  BY <1>1, <1>2

\* Counters, clocks, sessions and requests stay within their types and bounds,
\* whatever the number of requests and however they interleave.
THEOREM AccountTypeOK == Spec => []TypeOK
<1>1. IndTypes => TypeOK
  BY DEF IndTypes
<1> QED
  BY InitIndTypes, NextIndTypes, <1>1, PTL DEF Spec

-----------------------------------------------------------------------------
(***************************************************************************)
(* What happens to a request: it starts to act, it is overtaken by others  *)
(* while it acts, and it ends by its own commit.                           *)
(***************************************************************************)
\* A request starts to act by reading the account, and changes nothing by it.
LEMMA Starts ==
    ASSUME TypeOK, Next, NEW q \in Request, ~Acting(q), Acting(q)'
    PROVE  /\ \/ \E pw \in Password : LoginRead(q, pw)
              \/ \E id \in DOMAIN sessions, f \in Presentable : LoginMfaRead(q, id, f)
              \/ ChangeRead(q) \/ EnrollRead(q) \/ ConfirmRead(q) \/ DisableRead(q)
           /\ UNCHANGED <<now, user, recovery, sessions, drawn, spent, failures>>
<1>0. reqs \in [Request -> RequestState]
  BY DEF TypeOK
<1>1. ASSUME NEW r \in Request, Finish(r) PROVE FALSE
  BY <1>0, <1>1 DEF Finish, Acting, NoRequest
<1>2. ASSUME NEW r \in Request, NEW whom, NEW what, Overtake(r, whom, what) PROVE FALSE
  BY <1>0, <1>2 DEF Overtake, Acting, NoRequest, RequestState
<1>3. ASSUME NEW r \in Request, r # q, reqs'[q] = reqs[q] PROVE FALSE
  BY <1>3 DEF Acting
<1>4. ASSUME NEW r \in Request,
             \/ \E pw \in Password : LoginRead(r, pw)
             \/ \E id \in DOMAIN sessions, f \in Presentable : LoginMfaRead(r, id, f)
      PROVE  r = q
  BY <1>0, <1>3, <1>4 DEF LoginRead, LoginMfaRead, Begin
<1>5. ASSUME NEW r \in Request, ChangeRead(r) \/ EnrollRead(r) \/ ConfirmRead(r)
      PROVE  r = q
  BY <1>0, <1>1, <1>3, <1>5 DEF ChangeRead, EnrollRead, ConfirmRead, Goto
<1>6. ASSUME NEW r \in Request, DisableRead(r) PROVE r = q
  <2>1. CASE Finish(r)
    BY <1>1, <2>1
  <2>2. CASE ~Finish(r)
    <3>1. reqs' = [reqs EXCEPT ![r].phase = "factor", ![r].secret = user.secret,
                               ![r].flag = CurrentPassword(r)]
      BY <1>6, <2>2 DEF DisableRead
    <3> QED
      BY <1>0, <1>3, <3>1
  <2> QED
    BY <2>1, <2>2
<1>7. ASSUME NEW r \in Request,
             NEW op \in Operations \ {"login", "login_mfa"}, NEW id \in DOMAIN sessions,
             NEW b \in Bodies(op), Authenticate(r, op, id, b.pw, b.new, b.factor)
      PROVE  FALSE
  <2>1. reqs'[r].phase = "read"
    BY <1>0, <1>7 DEF Authenticate, Begin, NoRequest
  <2>2. r # q => reqs'[q] = reqs[q]
    BY <1>0, <1>7 DEF Authenticate, Begin
  <2> QED
    BY <1>3, <2>1, <2>2 DEF Acting
<1>8. ASSUME NEW r \in Request, ConsumeFactor(r) PROVE FALSE
  <2>1. r # q
    BY <1>8 DEF ConsumeFactor, Acting
  <2> QED
    BY <1>0, <1>3, <1>8, <2>1 DEF ConsumeFactor, Goto
<1>9. ASSUME NEW r \in Request, LoginCommit(r) \/ LogoutRevoke(r) \/ Drop(r) PROVE FALSE
  BY <1>1, <1>9 DEF LoginCommit, LogoutRevoke, Drop
<1>10. ASSUME NEW r \in Request,
              \/ RegisterFailure(r) \/ LoginMfaCommit(r) \/ ChangeCommit(r)
              \/ EnrollWrite(r) \/ ConfirmCommit(r) \/ DisableCommit(r)
       PROVE  FALSE
  BY <1>2, <1>10 DEF RegisterFailure, LoginMfaCommit, ChangeCommit, EnrollWrite,
                     ConfirmCommit, DisableCommit, OvertakeAll
<1>11. ASSUME UNCHANGED reqs PROVE FALSE
  BY <1>11 DEF Acting
<1>12. PICK r \in Request :
          \/ \E pw \in Password : LoginRead(r, pw)
          \/ \E id \in DOMAIN sessions, f \in Presentable : LoginMfaRead(r, id, f)
          \/ ChangeRead(r) \/ EnrollRead(r) \/ ConfirmRead(r) \/ DisableRead(r)
  BY <1>7, <1>8, <1>9, <1>10, <1>11 DEF Next, Tick, LoginRefused, vars
<1>13. r = q
  BY <1>4, <1>5, <1>6, <1>12
<1> QED
  BY <1>12, <1>13 DEF LoginRead, LoginMfaRead, ChangeRead, EnrollRead, ConfirmRead,
                      DisableRead, history

\* A request that stays in progress keeps what it read, and hears of every
\* change of the account that others make.
LEMMA News ==
    ASSUME TypeOK, Next, NEW q \in Request, Acting(q), Acting(q)'
    PROVE  /\ reqs'[q].op = reqs[q].op /\ reqs'[q].sid = reqs[q].sid
           /\ reqs'[q].pw = reqs[q].pw /\ reqs'[q].flag = reqs[q].flag
           /\ reqs'[q].factor = reqs[q].factor /\ reqs'[q].secret = reqs[q].secret
           /\ \/ reqs'[q].phase = reqs[q].phase
              \/ reqs[q].phase = "factor" /\ reqs'[q].phase = "commit"
           /\ reqs[q].missed \subseteq reqs'[q].missed
           /\ user'.hash = user.hash \/ "hash" \in reqs'[q].missed
           /\ user'.locked_until > now'
                => user.locked_until > now \/ "lock" \in reqs'[q].missed
           /\ user'.mfa_enabled = user.mfa_enabled \/ "mfa" \in reqs'[q].missed
           /\ user'.secret = user.secret \/ "secret" \in reqs'[q].missed
           /\ proved \subseteq proved'
<1>0. /\ reqs \in [Request -> RequestState] /\ reqs[q] \in RequestState /\ user \in UserRow
      /\ now \in Int /\ user.locked_until \in Int
  BY AccountConstants DEF TypeOK, UserRow, StartTime
<1> DEFINE Same(what) ==
             /\ reqs'[q].op = reqs[q].op /\ reqs'[q].sid = reqs[q].sid
             /\ reqs'[q].pw = reqs[q].pw /\ reqs'[q].flag = reqs[q].flag
             /\ reqs'[q].factor = reqs[q].factor /\ reqs'[q].secret = reqs[q].secret
             /\ \/ reqs'[q].phase = reqs[q].phase
                \/ reqs[q].phase = "factor" /\ reqs'[q].phase = "commit"
             /\ reqs[q].missed \cup what \subseteq reqs'[q].missed
           Heard ==
             /\ user'.hash = user.hash \/ "hash" \in reqs'[q].missed
             /\ user'.locked_until > now'
                  => user.locked_until > now \/ "lock" \in reqs'[q].missed
             /\ user'.mfa_enabled = user.mfa_enabled \/ "mfa" \in reqs'[q].missed
             /\ user'.secret = user.secret \/ "secret" \in reqs'[q].missed
<1>1. ASSUME NEW r \in Request, Finish(r) PROVE Same({})
  BY <1>0, <1>1 DEF Finish, Acting, NoRequest
<1>2. ASSUME NEW r \in Request, NEW what, OvertakeAll(r, what) PROVE Same(what)
  <2>1. q # r
    BY <1>2 DEF OvertakeAll, Overtake, Acting, NoRequest
  <2>2. reqs'[q] = [reqs[q] EXCEPT !.missed = @ \cup what]
    BY <1>2, <2>1 DEF OvertakeAll, Overtake
  <2> QED
    BY <1>0, <2>2 DEF RequestState
<1>3. ASSUME NEW r \in Request, LoginMfaCommit(r) PROVE Same({})
  <2>1. q # r
    BY <1>3 DEF LoginMfaCommit, Overtake, Acting, NoRequest
  <2>2. reqs'[q] = reqs[q] \/ reqs'[q] = [reqs[q] EXCEPT !.missed = @ \cup {"pending"}]
    BY <1>3, <2>1 DEF LoginMfaCommit, Overtake
  <2> QED
    BY <1>0, <2>2 DEF RequestState
<1>4. ASSUME NEW r \in Request, ConsumeFactor(r) PROVE Same({})
  <2>1. PICK phase \in {"commit", "fail"} : reqs' = [reqs EXCEPT ![r].phase = phase]
    BY <1>4 DEF ConsumeFactor, Goto
  <2>2. CASE r = q
    <3>1. reqs'[q] = [reqs[q] EXCEPT !.phase = phase] /\ reqs[q].phase = "factor"
      BY <1>0, <1>4, <2>1, <2>2 DEF ConsumeFactor
    <3>2. phase = "commit"
      BY <1>0, <3>1 DEF Acting, RequestState
    <3> QED
      BY <1>0, <3>1, <3>2 DEF RequestState
  <2>3. CASE r # q
    BY <1>0, <2>1, <2>3
  <2> QED
    BY <2>2, <2>3
<1>5. ASSUME reqs'[q] = reqs[q] PROVE Same({})
  BY <1>5
<1>6. ASSUME Tick PROVE Same({}) /\ Heard /\ proved \subseteq proved'
  BY <1>0, <1>5, <1>6 DEF Tick, history
<1>7. ASSUME UNCHANGED vars PROVE Same({}) /\ Heard /\ proved \subseteq proved'
  BY <1>5, <1>7 DEF vars
<1>8. ASSUME NEW r \in Request, RegisterFailure(r)
      PROVE  Same({}) /\ Heard /\ proved \subseteq proved'
  <2>1. CASE ReachesLimit
    <3>1. Same({"lock"})
      BY <1>2, <1>8, <2>1 DEF RegisterFailure
    <3>2. user' = [user EXCEPT !.failed = MaxFailedAttempts, !.locked_until = LockEnd]
      BY <1>8, <2>1 DEF RegisterFailure
    <3>3. /\ user'.hash = user.hash /\ user'.mfa_enabled = user.mfa_enabled
          /\ user'.secret = user.secret
      BY <1>0, <3>2 DEF UserRow
    <3> QED
      BY <1>8, <3>1, <3>3 DEF RegisterFailure
  <2>2. CASE ~ReachesLimit
    <3>1. OvertakeAll(r, {})
      BY <1>8, <2>2 DEF RegisterFailure
    <3>2. user' = [user EXCEPT !.failed = @ + 1, !.locked_until = @] /\ UNCHANGED now
      BY <1>8, <2>2 DEF RegisterFailure
    <3>3. /\ user'.hash = user.hash /\ user'.mfa_enabled = user.mfa_enabled
          /\ user'.secret = user.secret /\ user'.locked_until = user.locked_until
      BY <1>0, <3>2 DEF UserRow
    <3> QED
      BY <1>2, <1>8, <3>1, <3>2, <3>3 DEF RegisterFailure
  <2> QED
    BY <2>1, <2>2
<1>9. ASSUME NEW r \in Request, LoginCommit(r) \/ LoginMfaCommit(r)
      PROVE  Same({}) /\ Heard /\ proved \subseteq proved'
  <2>1. /\ user'.hash = user.hash /\ user'.mfa_enabled = user.mfa_enabled
        /\ user'.secret = user.secret /\ UNCHANGED <<now, proved>>
        /\ user'.locked_until = user.locked_until \/ user'.locked_until = 0
    BY <1>0, <1>9 DEF LoginCommit, LoginMfaCommit, Unlocked, UserRow
  <2>2. now >= 0
    BY DEF TypeOK, StartTime
  <2>3. Same({})
    BY <1>1, <1>3, <1>9 DEF LoginCommit
  <2> QED
    BY <1>0, <2>1, <2>2, <2>3
<1>10. ASSUME NEW r \in Request, ConsumeFactor(r)
       PROVE  Same({}) /\ Heard /\ proved \subseteq proved'
  <2>1. /\ user'.hash = user.hash /\ user'.mfa_enabled = user.mfa_enabled
        /\ user'.secret = user.secret /\ user'.locked_until = user.locked_until
        /\ UNCHANGED <<now, proved>>
    BY <1>0, <1>10 DEF ConsumeFactor, UserRow
  <2> QED
    BY <1>4, <1>10, <2>1
<1>11. ASSUME NEW r \in Request, ChangeCommit(r)
       PROVE  Same({}) /\ Heard /\ proved \subseteq proved'
  <2>1. /\ user'.mfa_enabled = user.mfa_enabled /\ user'.locked_until = 0
        /\ user'.secret = user.secret /\ UNCHANGED <<now, proved>>
    BY <1>0, <1>11 DEF ChangeCommit, Unlocked, UserRow
  <2>2. now >= 0
    BY DEF TypeOK, StartTime
  <2>3. Same({"hash"})
    BY <1>2, <1>11 DEF ChangeCommit
  <2> QED
    BY <1>0, <2>1, <2>2, <2>3
<1>12. ASSUME NEW r \in Request, EnrollWrite(r)
       PROVE  Same({}) /\ Heard /\ proved \subseteq proved'
  <2>1. /\ user'.mfa_enabled = user.mfa_enabled /\ user'.locked_until = user.locked_until
        /\ user'.hash = user.hash /\ UNCHANGED <<now, proved>>
    BY <1>0, <1>12 DEF EnrollWrite, history, UserRow
  <2>2. Same({"secret"})
    BY <1>2, <1>12 DEF EnrollWrite
  <2> QED
    BY <2>1, <2>2
<1>13. ASSUME NEW r \in Request, ConfirmCommit(r)
       PROVE  Same({}) /\ Heard /\ proved \subseteq proved'
  <2>1. /\ user'.secret = user.secret /\ user'.locked_until = user.locked_until
        /\ user'.hash = user.hash /\ UNCHANGED <<now, proved>>
    BY <1>0, <1>13 DEF ConfirmCommit, ActiveRow, UserRow
  <2>2. Same({"mfa"})
    BY <1>2, <1>13 DEF ConfirmCommit
  <2> QED
    BY <2>1, <2>2
<1>14. ASSUME NEW r \in Request, DisableCommit(r)
       PROVE  Same({}) /\ Heard /\ proved \subseteq proved'
  <2>1. /\ user'.locked_until = user.locked_until /\ user'.hash = user.hash
        /\ UNCHANGED <<now, proved>>
    BY <1>0, <1>14 DEF DisableCommit, DisabledRow, history, UserRow
  <2>2. Same({"mfa", "secret"})
    BY <1>2, <1>14 DEF DisableCommit
  <2> QED
    BY <2>1, <2>2
<1>15. ASSUME NEW r \in Request, LogoutRevoke(r) \/ Drop(r)
       PROVE  Same({}) /\ Heard /\ proved \subseteq proved'
  BY <1>1, <1>15 DEF LogoutRevoke, Drop, history
<1>16. ASSUME NEW r \in Request,
              \/ \E pw \in Password : LoginRead(r, pw)
              \/ \E id \in DOMAIN sessions, f \in Presentable : LoginMfaRead(r, id, f)
              \/ \E op \in Operations \ {"login", "login_mfa"}, id \in DOMAIN sessions :
                    \E b \in Bodies(op) : Authenticate(r, op, id, b.pw, b.new, b.factor)
       PROVE  Same({}) /\ Heard /\ proved \subseteq proved'
  <2>1. reqs[r].phase = "idle" /\ \A p \in Request \ {r} : reqs'[p] = reqs[p]
    BY <1>0, <1>16 DEF LoginRead, LoginMfaRead, Authenticate, Begin
  <2>2. UNCHANGED <<user, now, proved>>
    BY <1>16 DEF LoginRead, LoginMfaRead, Authenticate, history
  <2>3. reqs'[q] = reqs[q]
    BY <2>1 DEF Acting
  <2> QED
    BY <1>5, <2>2, <2>3
<1>17. ASSUME NEW r \in Request,
              ChangeRead(r) \/ EnrollRead(r) \/ ConfirmRead(r) \/ DisableRead(r)
       PROVE  Same({}) /\ Heard /\ proved \subseteq proved'
  <2>1. reqs[r].phase = "read"
    BY <1>17 DEF ChangeRead, EnrollRead, ConfirmRead, DisableRead, At
  <2>2. q # r
    BY <2>1 DEF Acting
  <2>3. \A p \in Request \ {r} : reqs'[p] = reqs[p]
    BY <1>0, <1>17 DEF ChangeRead, EnrollRead, ConfirmRead, DisableRead, Goto, Finish
  <2>4. UNCHANGED <<user, now>> /\ proved \subseteq proved'
    BY <1>17 DEF ChangeRead, EnrollRead, ConfirmRead, DisableRead, history
  <2> QED
    BY <1>5, <2>2, <2>3, <2>4
<1>18. Same({}) /\ Heard /\ proved \subseteq proved'
  <2> HIDE DEF Same, Heard
  <2> QED
    BY <1>6, <1>7, <1>8, <1>9, <1>10, <1>11, <1>12, <1>13, <1>14, <1>15, <1>16, <1>17
    DEF Next, LoginRefused
<1> QED
  BY <1>18

\* A request that writes what it decided on does so in the commit of its own
\* handler, or is dropped.
LEMMA Ends ==
    ASSUME TypeOK, [Next]_vars, NEW q \in Request, Commits(q)
    PROVE  \/ LoginCommit(q) \/ LoginMfaCommit(q) \/ ChangeCommit(q) \/ EnrollWrite(q)
           \/ ConfirmCommit(q) \/ DisableCommit(q) \/ Drop(q)
<1>0. reqs \in [Request -> RequestState] /\ reqs'[q].phase # reqs[q].phase
  BY DEF TypeOK, Commits
<1>1. \A r \in Request \ {q} : ~Finish(r) /\ \A phase : ~Goto(r, phase)
  BY <1>0 DEF Finish, Goto
<1>2. \A r \in Request \ {q} : \A whom, what : ~Overtake(r, whom, what)
  BY <1>0 DEF Overtake, RequestState
<1>3. \A r \in Request : \A fields : ~Begin(r, fields)
  <2> SUFFICES ASSUME NEW r \in Request, NEW fields, Begin(r, fields) PROVE FALSE
    OBVIOUS
  <2>1. CASE r = q
    BY <2>1 DEF Begin, Commits
  <2>2. CASE r # q
    BY <1>0, <2>2 DEF Begin
  <2> QED
    BY <2>1, <2>2
<1>4. \A r \in Request :
         /\ \A pw : ~LoginRead(r, pw)
         /\ \A id, f : ~LoginMfaRead(r, id, f)
         /\ \A op, id, pw, new, f : ~Authenticate(r, op, id, pw, new, f)
  BY <1>3 DEF LoginRead, LoginMfaRead, Authenticate
<1>5. \A r \in Request : ~LoginRefused(r) /\ ~Tick /\ ~UNCHANGED vars
  BY <1>0 DEF LoginRefused, Tick, vars
<1>6. \A r \in Request : /\ ~ConsumeFactor(r) /\ ~ChangeRead(r) /\ ~EnrollRead(r)
                         /\ ~ConfirmRead(r) /\ ~LogoutRevoke(r)
  BY <1>1 DEF ConsumeFactor, ChangeRead, EnrollRead, ConfirmRead, LogoutRevoke, At, Commits
<1>7. \A r \in Request : ~RegisterFailure(r)
  BY <1>2 DEF RegisterFailure, OvertakeAll, Commits
<1>8. \A r \in Request : ~DisableRead(r)
  <2> SUFFICES ASSUME NEW r \in Request, DisableRead(r) PROVE FALSE
    OBVIOUS
  <2>1. r # q
    BY DEF DisableRead, At, Commits
  <2> QED
    BY <1>0, <1>1, <2>1 DEF DisableRead
<1>9. PICK r \in Request :
         \/ LoginCommit(r) \/ LoginMfaCommit(r) \/ ChangeCommit(r) \/ EnrollWrite(r)
         \/ ConfirmCommit(r) \/ DisableCommit(r) \/ Drop(r)
  BY <1>4, <1>5, <1>6, <1>7, <1>8 DEF Next
<1>10. r = q
  BY <1>1, <1>2, <1>9 DEF LoginCommit, LoginMfaCommit, ChangeCommit, EnrollWrite,
                          ConfirmCommit, DisableCommit, Drop, OvertakeAll
<1> QED
  BY <1>9, <1>10

\* The column and the count of failures go up together and are reset together.
LEMMA FailuresLockStep == TypeOK /\ FailuresLock /\ Next => FailuresLock'
<1> SUFFICES ASSUME TypeOK, FailuresLock, Next PROVE FailuresLock'
  OBVIOUS
<1>1. /\ user.failed \in 0..MaxFailedAttempts /\ user.locked_until \in Nat
      /\ failures \in [count : 0..MaxFailedAttempts, at : 0..MaxTime] /\ now \in Nat
      /\ user \in UserRow
  BY AccountConstants DEF TypeOK, UserRow, StartTime
<1>2. ASSUME user'.failed = user.failed, user'.locked_until = user.locked_until,
             UNCHANGED failures
      PROVE  FailuresLock'
  BY <1>2 DEF FailuresLock
<1>3. ASSUME user'.failed = 0, ResetFailures PROVE FailuresLock'
  BY <1>3, AccountConstants DEF FailuresLock, ResetFailures
<1>4. ASSUME NEW r \in Request, RegisterFailure(r) PROVE FailuresLock'
  <2>1. failures' = [count |-> IF failures.count < MaxFailedAttempts
                                 THEN failures.count + 1 ELSE failures.count,
                     at |-> now]
    BY <1>4 DEF RegisterFailure
  <2>2. CASE ReachesLimit
    <3>1. user'.failed = MaxFailedAttempts /\ user'.locked_until = now + LockoutTicks
      BY <1>1, <1>4, <2>2 DEF RegisterFailure, LockEnd, UserRow
    <3>2. failures'.count = MaxFailedAttempts /\ failures'.at = now
      BY <1>1, <2>1, <2>2, AccountConstants DEF FailuresLock, ReachesLimit
    <3> QED
      BY <3>1, <3>2 DEF FailuresLock
  <2>3. CASE ~ReachesLimit
    <3>1. user'.failed = user.failed + 1
      BY <1>1, <1>4, <2>3 DEF RegisterFailure, UserRow
    <3>2. failures'.count = user.failed + 1 /\ failures'.count < MaxFailedAttempts
      BY <1>1, <2>1, <2>3, AccountConstants DEF FailuresLock, ReachesLimit
    <3> QED
      BY <3>1, <3>2, AccountConstants DEF FailuresLock
  <2> QED
    BY <2>2, <2>3
<1>5. ASSUME NEW r \in Request, LoginCommit(r) \/ LoginMfaCommit(r) \/ ChangeCommit(r)
      PROVE  FailuresLock'
  BY <1>1, <1>2, <1>3, <1>5 DEF LoginCommit, LoginMfaCommit, ChangeCommit, Unlocked, UserRow
<1>6. ASSUME NEW r \in Request,
             \/ ConsumeFactor(r) \/ EnrollWrite(r) \/ ConfirmCommit(r) \/ DisableCommit(r)
      PROVE  FailuresLock'
  <2>1. user'.failed = user.failed /\ user'.locked_until = user.locked_until
    BY <1>1, <1>6 DEF ConsumeFactor, EnrollWrite, ConfirmCommit, ActiveRow, DisableCommit,
                      DisabledRow, UserRow
  <2>2. UNCHANGED failures
    BY <1>6 DEF ConsumeFactor, EnrollWrite, ConfirmCommit, DisableCommit, history
  <2> QED
    BY <1>2, <2>1, <2>2
<1>7. ASSUME UNCHANGED <<user, failures>> PROVE FailuresLock'
  BY <1>2, <1>7
<1> QED
  BY <1>4, <1>5, <1>6, <1>7
  DEF Next, Tick, LoginRead, LoginMfaRead, Authenticate, LoginRefused, LogoutRevoke,
      ChangeRead, EnrollRead, ConfirmRead, DisableRead, Drop, history, vars

\* A row added by create_session is the last one; the others stay, but for the
\* pending session that the new one is exchanged for.
LEMMA SessionOpened ==
    ASSUME TypeOK, NEW r \in Request, LoginCommit(r) \/ LoginMfaCommit(r)
    PROVE  /\ Len(sessions') = Len(sessions) + 1 /\ Len(sessions) \in Nat
           /\ DOMAIN sessions = 1..Len(sessions)
           /\ DOMAIN sessions' = DOMAIN sessions \cup {Len(sessions')}
           /\ \A i \in DOMAIN sessions :
                 /\ sessions'[i].pw = sessions[i].pw /\ sessions'[i].from = sessions[i].from
                 /\ sessions'[i].missed = sessions[i].missed
                 /\ sessions[i].revoked => sessions'[i].revoked
           /\ sessions'[Len(sessions')].pw = reqs[r].pw
           /\ sessions'[Len(sessions')].from = reqs[r].sid
           /\ sessions'[Len(sessions')].missed = reqs[r].missed \cap {"hash", "pending"}
           /\ LoginCommit(r) => sessions'[Len(sessions')].kind =
                                  IF reqs[r].flag THEN "mfa_pending" ELSE "full"
           /\ LoginMfaCommit(r) /\ reqs[r].sid \in DOMAIN sessions
                => sessions'[reqs[r].sid].revoked
<1>0. sessions \in Seq(SessionRow) /\ \A i \in DOMAIN sessions : sessions[i] \in SessionRow
  BY DEF TypeOK
<1> DEFINE Row(kind, ttl) == NewSession(r, kind, ttl)
<1>1. \A kind, ttl : /\ Row(kind, ttl).pw = reqs[r].pw /\ Row(kind, ttl).from = reqs[r].sid
                     /\ Row(kind, ttl).missed = reqs[r].missed \cap {"hash", "pending"}
                     /\ Row(kind, ttl).kind = kind
  BY DEF NewSession
<1> HIDE DEF Row
<1>2. ASSUME NEW s \in Seq(SessionRow), NEW row, sessions' = Append(s, row)
      PROVE  /\ Len(sessions') = Len(s) + 1 /\ Len(s) \in Nat /\ DOMAIN s = 1..Len(s)
             /\ DOMAIN sessions' = DOMAIN s \cup {Len(sessions')}
             /\ \A i \in DOMAIN s : sessions'[i] = s[i]
             /\ sessions'[Len(sessions')] = row
  BY <1>2
<1>3. CASE LoginCommit(r)
  <2>1. PICK kind, ttl : /\ sessions' = Append(sessions, Row(kind, ttl))
                         /\ kind = IF reqs[r].flag THEN "mfa_pending" ELSE "full"
    BY <1>3 DEF LoginCommit, Row
  <2>2. ~LoginMfaCommit(r)
    BY <1>3 DEF LoginCommit, LoginMfaCommit, At
  <2> QED
    BY <1>0, <1>1, <1>2, <2>1, <2>2
<1>4. CASE LoginMfaCommit(r)
  <2>1. sessions' = Append(PendingSpent(r), Row("full", SessionTtl))
    BY <1>4 DEF LoginMfaCommit, Row
  <2>2. PendingSpent(r) \in Seq(SessionRow) /\ Len(PendingSpent(r)) = Len(sessions)
    BY RevokedType DEF PendingSpent
  <2>3. /\ DOMAIN PendingSpent(r) = DOMAIN sessions
        /\ \A i \in DOMAIN sessions :
              /\ PendingSpent(r)[i].pw = sessions[i].pw
              /\ PendingSpent(r)[i].from = sessions[i].from
              /\ PendingSpent(r)[i].missed = sessions[i].missed
              /\ sessions[i].revoked => PendingSpent(r)[i].revoked
        /\ reqs[r].sid \in DOMAIN sessions => PendingSpent(r)[reqs[r].sid].revoked
    BY <1>0 DEF PendingSpent, SessionRow
  <2>4. ~LoginCommit(r)
    BY <1>4 DEF LoginCommit, LoginMfaCommit, At
  <2> HIDE DEF PendingSpent
  <2> QED
    BY <1>1, <1>2, <2>1, <2>2, <2>3, <2>4
<1> QED
  BY <1>3, <1>4

\* Every other step leaves the rows and at most revokes some.
LEMMA SessionsMarked ==
    ASSUME TypeOK, Next, \A r \in Request : ~LoginCommit(r) /\ ~LoginMfaCommit(r)
    PROVE  /\ DOMAIN sessions' = DOMAIN sessions /\ Len(sessions') = Len(sessions)
           /\ \A i \in DOMAIN sessions :
                 /\ sessions'[i].from = sessions[i].from
                 /\ sessions'[i].missed = sessions[i].missed
                 /\ sessions[i].revoked => sessions'[i].revoked
           /\ (\A r \in Request : ~ChangeCommit(r))
                => /\ user'.hash = user.hash
                   /\ \A i \in DOMAIN sessions : sessions'[i].pw = sessions[i].pw
<1>0. /\ sessions \in Seq(SessionRow) /\ \A i \in DOMAIN sessions : sessions[i] \in SessionRow
      /\ user \in UserRow
  BY DEF TypeOK
<1>1. ASSUME NEW r \in Request, LogoutRevoke(r)
      PROVE  /\ DOMAIN sessions' = DOMAIN sessions /\ Len(sessions') = Len(sessions)
             /\ \A i \in DOMAIN sessions :
                   /\ sessions'[i].from = sessions[i].from
                   /\ sessions'[i].missed = sessions[i].missed
                   /\ sessions'[i].pw = sessions[i].pw
                   /\ sessions[i].revoked => sessions'[i].revoked
             /\ user'.hash = user.hash
  <2>1. Len(sessions') = Len(sessions)
    BY <1>1, RevokedType DEF LogoutRevoke
  <2> QED
    BY <1>0, <1>1, <2>1 DEF LogoutRevoke, SessionRow
<1>2. ASSUME NEW r \in Request, ChangeCommit(r)
      PROVE  /\ DOMAIN sessions' = DOMAIN sessions /\ Len(sessions') = Len(sessions)
             /\ \A i \in DOMAIN sessions :
                   /\ sessions'[i].from = sessions[i].from
                   /\ sessions'[i].missed = sessions[i].missed
                   /\ sessions[i].revoked => sessions'[i].revoked
  <2>1. Len(sessions') = Len(sessions)
    BY <1>2, RevokeOthersType DEF ChangeCommit
  <2>2. sessions' = RevokeOthers(reqs[r].sid, reqs[r].new)
    BY <1>2 DEF ChangeCommit
  <2> QED
    BY <1>0, <2>1, <2>2 DEF RevokeOthers, SessionRow
<1>3. ASSUME NEW r \in Request,
             \/ RegisterFailure(r) \/ ConsumeFactor(r) \/ EnrollWrite(r)
             \/ ConfirmCommit(r) \/ DisableCommit(r)
      PROVE  user'.hash = user.hash /\ UNCHANGED sessions
  <2>1. user'.hash = user.hash
    BY <1>0, <1>3 DEF RegisterFailure, ConsumeFactor, EnrollWrite, ConfirmCommit, ActiveRow,
                      DisableCommit, DisabledRow, UserRow
  <2> QED
    BY <1>3, <2>1 DEF RegisterFailure, ConsumeFactor, EnrollWrite, ConfirmCommit,
                      DisableCommit
<1>4. \/ \E r \in Request : LogoutRevoke(r) \/ ChangeCommit(r)
      \/ user'.hash = user.hash /\ UNCHANGED sessions
  <2> DEFINE Kept == UNCHANGED <<user, sessions>>
  <2>1. /\ Tick => Kept
        /\ UNCHANGED vars => Kept
        /\ \A r \in Request : LoginRefused(r) \/ Drop(r) => Kept
    BY DEF Tick, vars, LoginRefused, Drop
  <2>2. ASSUME NEW r \in Request, \E pw \in Password : LoginRead(r, pw)  PROVE Kept
    BY <2>2 DEF LoginRead
  <2>3. ASSUME NEW r \in Request,
               \E id \in DOMAIN sessions, f \in Presentable : LoginMfaRead(r, id, f)
        PROVE  Kept
    BY <2>3 DEF LoginMfaRead
  <2>4. ASSUME NEW r \in Request,
               \E op \in Operations \ {"login", "login_mfa"}, id \in DOMAIN sessions :
                  \E b \in Bodies(op) : Authenticate(r, op, id, b.pw, b.new, b.factor)
        PROVE  Kept
    BY <2>4 DEF Authenticate
  <2>5. ASSUME NEW r \in Request,
               ChangeRead(r) \/ EnrollRead(r) \/ ConfirmRead(r) \/ DisableRead(r)
        PROVE  Kept
    BY <2>5 DEF ChangeRead, EnrollRead, ConfirmRead, DisableRead
  <2> QED
    BY <1>3, <2>1, <2>2, <2>3, <2>4, <2>5 DEF Next
<1> QED
  BY <1>1, <1>2, <1>4

-----------------------------------------------------------------------------
(***************************************************************************)
(* The invariant.                                                          *)
(***************************************************************************)
LEMMA InitInv == Init => AccountInv
<1> SUFFICES ASSUME Init
             PROVE  /\ FailuresLock /\ SurvivorsOverlapped /\ ExchangedIsRevoked
                    /\ PendingIsSingleUse /\ SpentStaysSpent
                    /\ \A r \in Request : /\ StillSoOrMissed(r) /\ PendingHeldOrMissed(r)
                                          /\ SecretHeldOrMissed(r)
  BY InitIndTypes DEF IndTypes, AccountInv
<1>1. FailuresLock
  BY FreshUsers, AccountConstants DEF Init, FailuresLock
<1>2. SurvivorsOverlapped /\ ExchangedIsRevoked /\ PendingIsSingleUse
  BY DEF Init, SurvivorsOverlapped, ExchangedIsRevoked, PendingIsSingleUse
<1>3. SpentStaysSpent
  <2>1. /\ user.secret \in Nat /\ drawn.secrets = user.secret
        /\ user.mfa_enabled => user.secret \in 1..user.secret
    BY FreshUsers, AccountConstants DEF Init, UserRow, NoSecret
  <2>2. proved \subseteq 1..drawn.secrets /\ recovery = 1..drawn.batches /\ spent = {}
    BY <2>1 DEF Init
  <2> QED
    BY <2>1, <2>2 DEF SpentStaysSpent, Behind
<1>4. ASSUME NEW r \in Request
      PROVE  StillSoOrMissed(r) /\ PendingHeldOrMissed(r) /\ SecretHeldOrMissed(r)
  BY DEF Init, StillSoOrMissed, PendingHeldOrMissed, SecretHeldOrMissed, SigningIn, Acting,
         At, NoRequest
<1> QED
  BY <1>1, <1>2, <1>3, <1>4

\* What a request read is still so, or it heard of the change.
LEMMA StillSoStep ==
    ASSUME AccountInv, Next, NEW q \in Request
    PROVE  StillSoOrMissed(q)'
<1>0. /\ TypeOK /\ RequestsInOrder /\ SurvivorsOverlapped /\ StillSoOrMissed(q)
      /\ reqs \in [Request -> RequestState] /\ reqs[q] \in RequestState /\ user \in UserRow
  BY DEF AccountInv, TypeOK
<1>1. CASE ~Acting(q)'
  BY <1>1 DEF StillSoOrMissed, SigningIn, Acting, At
<1>2. CASE Acting(q) /\ Acting(q)'
  <2>1. CASE reqs'[q].phase = reqs[q].phase
    BY <1>0, <1>2, <2>1, News DEF StillSoOrMissed, SigningIn, At
  <2>2. CASE reqs[q].phase = "factor" /\ reqs'[q].phase = "commit"
    <3>1. reqs'[q].op \in {"login_mfa", "mfa_disable"}
      BY <1>0, <1>2, <2>2, News DEF RequestsInOrder
    <3> QED
      BY <1>0, <1>2, <2>2, <3>1, News DEF StillSoOrMissed, SigningIn, Acting, At
  <2> QED
    BY <1>0, <1>2, <2>1, <2>2, News
<1>3. CASE ~Acting(q) /\ Acting(q)'
  <2>0. UNCHANGED <<user, now>>
    BY <1>0, <1>3, Starts
  <2>1. ASSUME NEW pw \in Password, LoginRead(q, pw) PROVE StillSoOrMissed(q)'
    <3>1. reqs'[q] = [NoRequest EXCEPT !.op = "login", !.pw = pw,
                        !.phase = IF pw = user.hash THEN "commit" ELSE "fail",
                        !.flag = user.mfa_enabled]
      BY <1>0, <2>1 DEF LoginRead, Begin, NeedsSecondFactor
    <3>2. /\ reqs'[q].op = "login" /\ reqs'[q].pw = pw /\ reqs'[q].sid = 0
          /\ reqs'[q].phase = IF pw = user.hash THEN "commit" ELSE "fail"
          /\ reqs'[q].flag = user.mfa_enabled
      BY <3>1 DEF NoRequest
    <3>3. ~Locked
      BY <2>1 DEF LoginRead
    <3> QED
      BY <2>0, <3>2, <3>3 DEF StillSoOrMissed, SigningIn, Acting, At, Locked
  <2>2. ASSUME NEW id \in DOMAIN sessions, NEW f \in Presentable, LoginMfaRead(q, id, f)
        PROVE  StillSoOrMissed(q)'
    <3>1. /\ reqs'[q].op = "login_mfa" /\ reqs'[q].pw = sessions[id].pw
          /\ reqs'[q].phase = "factor"
          /\ reqs'[q].missed = sessions[id].missed \cap {"hash"}
      BY <1>0, <2>2 DEF LoginMfaRead, Begin, NoRequest
    <3>2. sessions[id].pw # user.hash => "hash" \in sessions[id].missed
      BY <1>0, <2>2 DEF LoginMfaRead, Live, SurvivorsOverlapped
    <3>3. ~Locked /\ user.mfa_enabled
      BY <2>2 DEF LoginMfaRead, SecondStepRefused
    <3> QED
      BY <2>0, <3>1, <3>2, <3>3 DEF StillSoOrMissed, SigningIn, Acting, At, Locked
  <2>3. ASSUME ChangeRead(q) PROVE StillSoOrMissed(q)'
    <3>1. /\ reqs[q].pw = user.hash /\ reqs[q].op = "change_password"
          /\ reqs' = [reqs EXCEPT ![q].phase = "commit"]
      BY <1>0, <1>3, <2>3 DEF ChangeRead, CurrentPassword, Goto, At, Acting, RequestState
    <3>2. reqs'[q].op = "change_password" /\ reqs'[q].pw = user.hash /\ reqs'[q].phase = "commit"
      BY <1>0, <3>1 DEF RequestState
    <3> QED
      BY <2>0, <3>2 DEF StillSoOrMissed, SigningIn, At
  <2>4. ASSUME EnrollRead(q) PROVE StillSoOrMissed(q)'
    <3>1. /\ ~user.mfa_enabled /\ reqs[q].op = "mfa_enroll"
          /\ reqs' = [reqs EXCEPT ![q].phase = "commit"]
      BY <1>0, <1>3, <2>4 DEF EnrollRead, MayEnroll, Goto, Finish, At, Acting, NoRequest
    <3>2. reqs'[q].op = "mfa_enroll" /\ reqs'[q].phase = "commit"
      BY <1>0, <3>1 DEF RequestState
    <3> QED
      BY <2>0, <3>1, <3>2 DEF StillSoOrMissed, SigningIn, At
  <2>5. ASSUME ConfirmRead(q) PROVE StillSoOrMissed(q)'
    <3>1. /\ ~user.mfa_enabled /\ TotpMatches(user.secret, reqs[q].factor)
          /\ reqs[q].op = "mfa_confirm" /\ proved' = proved \cup {user.secret}
          /\ reqs' = [reqs EXCEPT ![q].phase = "commit"]
      BY <1>0, <1>3, <2>5 DEF ConfirmRead, Goto, Finish, At, Acting, NoRequest
    <3>2. /\ reqs'[q].op = "mfa_confirm" /\ reqs'[q].phase = "commit"
          /\ reqs'[q].factor = reqs[q].factor
      BY <1>0, <3>1 DEF RequestState
    <3>3. reqs[q].factor[2] = user.secret
      BY <3>1 DEF TotpMatches
    <3> QED
      BY <2>0, <3>1, <3>2, <3>3 DEF StillSoOrMissed, SigningIn, At
  <2>6. ASSUME DisableRead(q) PROVE StillSoOrMissed(q)'
    <3>1. ~Finish(q)
      BY <1>0, <1>3 DEF Finish, Acting, NoRequest
    <3>2. /\ reqs' = [reqs EXCEPT ![q].phase = "factor", ![q].secret = user.secret,
                                  ![q].flag = CurrentPassword(q)]
          /\ user.mfa_enabled /\ reqs[q].op = "mfa_disable"
      BY <2>6, <3>1 DEF DisableRead, At
    <3>3. reqs'[q].op = "mfa_disable" /\ reqs'[q].phase = "factor"
      BY <1>0, <3>2 DEF RequestState
    <3> QED
      BY <2>0, <3>2, <3>3 DEF StillSoOrMissed, SigningIn, At
  <2> QED
    BY <1>0, <1>3, <2>1, <2>2, <2>3, <2>4, <2>5, <2>6, Starts
<1> QED
  BY <1>1, <1>2, <1>3

\* A session that is not revoked belongs to the current password or overlapped
\* the change that replaced it.
LEMMA SurvivorsStep ==
    ASSUME AccountInv, Next
    PROVE  SurvivorsOverlapped'
<1>0. /\ TypeOK /\ SurvivorsOverlapped /\ user \in UserRow
      /\ \A r \in Request : StillSoOrMissed(r)
      /\ \A i \in DOMAIN sessions : sessions[i] \in SessionRow
  BY DEF AccountInv, TypeOK
<1>1. ASSUME NEW r \in Request, LoginCommit(r) \/ LoginMfaCommit(r)
      PROVE  SurvivorsOverlapped'
  <2>1. user'.hash = user.hash
    BY <1>0, <1>1 DEF LoginCommit, LoginMfaCommit, Unlocked, UserRow
  <2>2. reqs[r].pw = user.hash \/ "hash" \in reqs[r].missed
    BY <1>0, <1>1 DEF LoginCommit, LoginMfaCommit, At, StillSoOrMissed, SigningIn, Acting
  <2> QED
    BY <1>0, <1>1, <2>1, <2>2, SessionOpened DEF SurvivorsOverlapped
<1>2. ASSUME NEW r \in Request, ChangeCommit(r) PROVE SurvivorsOverlapped'
  <2>1. user'.hash = reqs[r].new
    BY <1>0, <1>2 DEF ChangeCommit, Unlocked, UserRow
  <2>2. sessions' = RevokeOthers(reqs[r].sid, reqs[r].new)
    BY <1>2 DEF ChangeCommit
  <2> QED
    BY <1>0, <2>1, <2>2 DEF RevokeOthers, SurvivorsOverlapped, SessionRow
<1>3. CASE \A r \in Request : ~LoginCommit(r) /\ ~LoginMfaCommit(r) /\ ~ChangeCommit(r)
  BY <1>0, <1>3, SessionsMarked DEF SurvivorsOverlapped
<1> QED
  BY <1>1, <1>2, <1>3

\* A second step holds a pending session that was not exchanged yet, or it
\* heard of the exchange.
LEMMA PendingHeldStep ==
    ASSUME AccountInv, Next, NEW q \in Request
    PROVE  PendingHeldOrMissed(q)'
<1>0. /\ TypeOK /\ ExchangedIsRevoked /\ reqs \in [Request -> RequestState]
      /\ DOMAIN sessions = 1..Len(sessions) /\ Len(sessions) \in Nat
      /\ \A r \in Request : StillSoOrMissed(r) /\ PendingHeldOrMissed(r)
  BY DEF AccountInv, TypeOK
<1> SUFFICES ASSUME SigningIn(q)', reqs'[q].op = "login_mfa"
             PROVE  /\ reqs'[q].sid \in DOMAIN sessions'
                    /\ (\E i \in DOMAIN sessions' : sessions'[i].from = reqs'[q].sid)
                         => "pending" \in reqs'[q].missed
  BY DEF PendingHeldOrMissed
<1>1. CASE ~Acting(q)
  <2>1. PICK id \in DOMAIN sessions, f \in Presentable : LoginMfaRead(q, id, f)
    <3>1. ASSUME NEW pw \in Password, LoginRead(q, pw) PROVE FALSE
      BY <1>0, <3>1 DEF LoginRead, Begin, NoRequest
    <3>2. ASSUME ChangeRead(q) \/ EnrollRead(q) \/ ConfirmRead(q) \/ DisableRead(q)
          PROVE  reqs'[q].op # "login_mfa"
      BY <1>0, <3>2 DEF ChangeRead, EnrollRead, ConfirmRead, DisableRead, Goto, Finish, At,
                        NoRequest, RequestState
    <3> QED
      BY <1>0, <1>1, <3>1, <3>2, Starts DEF SigningIn
  <2>2. reqs'[q].sid = id /\ UNCHANGED sessions /\ ~sessions[id].revoked
    BY <1>0, <2>1 DEF LoginMfaRead, Begin, NoRequest, Live
  <2> QED
    BY <1>0, <2>2 DEF ExchangedIsRevoked
<1>2. CASE Acting(q)
  <2>1. /\ reqs'[q].sid = reqs[q].sid /\ reqs[q].sid \in DOMAIN sessions
        /\ reqs[q].missed \subseteq reqs'[q].missed
        /\ (\E i \in DOMAIN sessions : sessions[i].from = reqs[q].sid)
             => "pending" \in reqs'[q].missed
        /\ reqs[q].op = "login_mfa"
    BY <1>0, <1>2, News DEF SigningIn, PendingHeldOrMissed
  <2>2. CASE \A r \in Request : ~LoginCommit(r) /\ ~LoginMfaCommit(r)
    BY <1>0, <2>1, <2>2, SessionsMarked
  <2>3. ASSUME NEW r \in Request, LoginCommit(r)
        PROVE  sessions'[Len(sessions')].from # reqs[q].sid
    BY <1>0, <2>1, <2>3, SessionOpened DEF LoginCommit, StillSoOrMissed
  <2>4. ASSUME NEW r \in Request, LoginMfaCommit(r),
               sessions'[Len(sessions')].from = reqs[q].sid
        PROVE  "pending" \in reqs'[q].missed
    <3>1. SameSecondStep(q, r)
      BY <1>0, <1>2, <2>1, <2>4, SessionOpened DEF SameSecondStep
    <3>2. q # r
      BY <2>4 DEF LoginMfaCommit, Overtake, SigningIn, Acting, NoRequest
    <3>3. reqs'[q] = [reqs[q] EXCEPT !.missed = @ \cup {"pending"}]
      BY <2>4, <3>1, <3>2 DEF LoginMfaCommit, Overtake
    <3> QED
      BY <1>0, <3>3 DEF RequestState
  <2> QED
    BY <1>0, <2>1, <2>2, <2>3, <2>4, SessionOpened
<1> QED
  BY <1>1, <1>2

\* A pending session that was exchanged is revoked, and what is exchanged for it
\* once more comes from a second step that missed the exchange.
LEMMA ExchangeStep ==
    ASSUME AccountInv, Next
    PROVE  ExchangedIsRevoked' /\ PendingIsSingleUse'
<1>0. /\ TypeOK /\ ExchangedIsRevoked /\ PendingIsSingleUse
      /\ \A r \in Request : StillSoOrMissed(r) /\ PendingHeldOrMissed(r)
  BY DEF AccountInv
<1>1. CASE \A r \in Request : ~LoginCommit(r) /\ ~LoginMfaCommit(r)
  BY <1>0, <1>1, SessionsMarked DEF ExchangedIsRevoked, PendingIsSingleUse
<1>2. ASSUME NEW r \in Request, LoginCommit(r)
      PROVE  ExchangedIsRevoked' /\ PendingIsSingleUse'
  <2>1. reqs[r].sid = 0
    BY <1>0, <1>2 DEF LoginCommit, StillSoOrMissed
  <2> QED
    BY <1>0, <1>2, <2>1, SessionOpened DEF ExchangedIsRevoked, PendingIsSingleUse
<1>3. ASSUME NEW r \in Request, LoginMfaCommit(r)
      PROVE  ExchangedIsRevoked' /\ PendingIsSingleUse'
  <2>1. /\ reqs[r].sid \in DOMAIN sessions
        /\ (\E i \in DOMAIN sessions : sessions[i].from = reqs[r].sid)
             => "pending" \in reqs[r].missed
    BY <1>0, <1>3 DEF LoginMfaCommit, At, PendingHeldOrMissed, SigningIn, Acting
  <2>2. ExchangedIsRevoked'
    BY <1>0, <1>3, <2>1, SessionOpened DEF ExchangedIsRevoked
  <2>3. PendingIsSingleUse'
    BY <1>0, <1>3, <2>1, SessionOpened DEF PendingIsSingleUse
  <2> QED
    BY <2>2, <2>3
<1> QED
  BY <1>1, <1>2, <1>3

\* A factor is a TOTP code of a secret or a recovery code.
LEMMA FactorKinds ==
    ASSUME NEW f \in Factors
    PROVE  \/ f[1] = "totp" /\ f[2] \in 1..MaxSecrets /\ f[3] \in Int
           \/ f[1] = "recovery" /\ f[2] \in 1..MaxBatches
<1>1. CASE f \in {Totp(s, k) : s \in 1..MaxSecrets, k \in (StartTime - 1)..(MaxTime + 1)}
  <2>1. PICK s \in 1..MaxSecrets, k \in (StartTime - 1)..(MaxTime + 1) : f = Totp(s, k)
    BY <1>1
  <2>2. k \in Int /\ f[1] = "totp" /\ f[2] = s /\ f[3] = k
    BY <2>1, AccountConstants DEF Totp, StartTime
  <2> QED
    BY <2>1, <2>2
<1>2. CASE f \in {RecoveryCode(b) : b \in 1..MaxBatches}
  <2>1. PICK b \in 1..MaxBatches : f = RecoveryCode(b)
    BY <1>2
  <2>2. f[1] = "recovery" /\ f[2] = b
    BY <2>1 DEF RecoveryCode
  <2> QED
    BY <2>2
<1> QED
  BY <1>1, <1>2 DEF Factors

\* The other steps leave the second factor as it is.
LEMMA SecondFactorKept ==
    ASSUME TypeOK, Next,
           \A r \in Request : /\ ~ConsumeFactor(r) /\ ~EnrollWrite(r)
                              /\ ~ConfirmCommit(r) /\ ~DisableCommit(r)
    PROVE  /\ user'.secret = user.secret /\ user'.mfa_enabled = user.mfa_enabled
           /\ user'.last_step = user.last_step /\ UNCHANGED <<recovery, drawn, spent>>
           /\ proved' \subseteq proved \cup ({user.secret} \ {NoSecret})
<1>0. user \in UserRow
  BY DEF TypeOK
<1> DEFINE Kept ==
             /\ user'.secret = user.secret /\ user'.mfa_enabled = user.mfa_enabled
             /\ user'.last_step = user.last_step /\ UNCHANGED <<recovery, drawn, spent>>
             /\ proved' \subseteq proved \cup ({user.secret} \ {NoSecret})
<1>1. ASSUME NEW r \in Request,
             RegisterFailure(r) \/ LoginCommit(r) \/ LoginMfaCommit(r) \/ ChangeCommit(r)
      PROVE  Kept
  BY <1>0, <1>1 DEF RegisterFailure, LoginCommit, LoginMfaCommit, ChangeCommit, Unlocked,
                    UserRow
<1>2. ASSUME NEW r \in Request, ConfirmRead(r) PROVE Kept
  BY <1>2 DEF ConfirmRead
<1> QED
  BY <1>1, <1>2
  DEF Next, Tick, LoginRead, LoginMfaRead, Authenticate, LoginRefused, LogoutRevoke,
      ChangeRead, EnrollRead, DisableRead, Drop, history, vars

\* A factor that was spent stays so.
LEMMA SpentStep ==
    ASSUME AccountInv, Next
    PROVE  SpentStaysSpent'
<1>0. /\ TypeOK /\ RequestsInOrder /\ SpentStaysSpent /\ user \in UserRow
      /\ user.secret \in Nat /\ user.last_step \in Nat
      /\ drawn \in [secrets : 0..MaxSecrets, batches : 0..MaxBatches]
      /\ drawn.secrets \in Nat /\ drawn.batches \in Nat
      /\ \A f \in spent : \/ f[1] = "totp" /\ f[2] \in 1..MaxSecrets /\ f[3] \in Int
                          \/ f[1] = "recovery" /\ f[2] \in 1..MaxBatches
      /\ \A r \in Request : /\ StillSoOrMissed(r) /\ SecretHeldOrMissed(r)
                            /\ reqs[r] \in RequestState
                            /\ reqs[r].factor \in Factors \cup {NoFactor}
  <2>1. spent \subseteq Factors
    BY DEF AccountInv, TypeOK
  <2>2. user \in UserRow /\ user.secret \in Nat /\ user.last_step \in Nat
    BY AccountConstants DEF AccountInv, TypeOK, UserRow, NoSecret
  <2>3. /\ drawn \in [secrets : 0..MaxSecrets, batches : 0..MaxBatches]
        /\ drawn.secrets \in Nat /\ drawn.batches \in Nat
    BY AccountConstants DEF AccountInv, TypeOK
  <2>4. \A r \in Request : /\ StillSoOrMissed(r) /\ SecretHeldOrMissed(r)
                           /\ reqs[r] \in RequestState
                           /\ reqs[r].factor \in Factors \cup {NoFactor}
    BY DEF AccountInv, TypeOK, RequestState
  <2>5. TypeOK /\ RequestsInOrder /\ SpentStaysSpent
    BY DEF AccountInv
  <2> QED
    BY <2>1, <2>2, <2>3, <2>4, <2>5, FactorKinds
<1>1. ASSUME NEW r \in Request, ConsumeFactor(r) PROVE SpentStaysSpent'
  <2> DEFINE f == reqs[r].factor
  <2>0. UNCHANGED <<drawn, proved>>
    BY <1>1 DEF ConsumeFactor
  <2>1. CASE TotpAccepted(r)
    <3>1. /\ user' = [user EXCEPT !.last_step = f[3]] /\ spent' = spent \cup {f}
          /\ UNCHANGED recovery
      BY <1>1, <2>1 DEF ConsumeFactor, RecoveryAccepted, TotpAccepted, TotpMatches
    <3>2. /\ user'.last_step = f[3] /\ user'.secret = user.secret
          /\ user'.mfa_enabled = user.mfa_enabled
      BY <1>0, <3>1 DEF UserRow
    <3>3. /\ f[1] = "totp" /\ f[2] = reqs[r].secret /\ user.last_step < f[3]
          /\ f \in Factors
      BY <1>0, <2>1 DEF TotpAccepted, TotpMatches, NoFactor
    <3>4. f[2] \in 1..MaxSecrets /\ f[3] \in Int
      BY <3>3, FactorKinds
    <3>5. f[2] <= drawn.secrets /\ (f[2] = user.secret => user.mfa_enabled)
      BY <1>0, <1>1, <3>3, <3>4 DEF SecretHeldOrMissed, ConsumeFactor, NoSecret
    <3> HIDE DEF f
    <3>6. Behind(user.secret)'
      BY <1>0, <3>1, <3>2, <3>3, <3>4 DEF Behind, SpentStaysSpent
    <3> QED
      BY <1>0, <2>0, <3>1, <3>2, <3>3, <3>5, <3>6 DEF SpentStaysSpent
  <2>2. CASE RecoveryAccepted(r)
    <3>1. /\ f[1] = "recovery" /\ f[2] \in recovery /\ UNCHANGED user
          /\ spent' = spent \cup {f} /\ recovery' = recovery \ {f[2]}
      BY <1>1, <2>2 DEF ConsumeFactor, RecoveryAccepted, TotpAccepted, TotpMatches
    <3> HIDE DEF f
    <3>2. f[2] <= drawn.batches /\ f[2] \notin recovery'
      <4>1. f[2] \in 1..drawn.batches
        BY <1>0, <3>1 DEF SpentStaysSpent
      <4> QED
        BY <1>0, <3>1, <4>1
    <3>3. Behind(user.secret)'
      BY <1>0, <3>1 DEF SpentStaysSpent, Behind
    <3> QED
      BY <1>0, <2>0, <3>1, <3>2, <3>3 DEF SpentStaysSpent
  <2>3. CASE ~TotpAccepted(r) /\ ~RecoveryAccepted(r)
    <3>1. UNCHANGED <<user, recovery, spent, drawn, proved>>
      BY <1>1, <2>3 DEF ConsumeFactor
    <3> QED
      BY <1>0, <3>1 DEF SpentStaysSpent, Behind
  <2> QED
    BY <2>1, <2>2, <2>3
<1>2. ASSUME NEW r \in Request, EnrollWrite(r) PROVE SpentStaysSpent'
  <2>1. /\ drawn'.secrets = drawn.secrets + 1 /\ drawn'.batches = drawn.batches
        /\ user'.secret = drawn.secrets + 1 /\ user'.mfa_enabled = user.mfa_enabled
        /\ UNCHANGED <<recovery, spent, proved>>
    BY <1>0, <1>2 DEF EnrollWrite, history, UserRow
  <2> QED
    BY <1>0, <2>1 DEF SpentStaysSpent, Behind
<1>3. ASSUME NEW r \in Request, ConfirmCommit(r) PROVE SpentStaysSpent'
  <2> DEFINE f == reqs[r].factor
             kept == {g \in spent : g[1] = "recovery" \/ "mfa" \notin reqs[r].missed}
  <2>1. /\ drawn'.secrets = drawn.secrets /\ drawn'.batches = drawn.batches + 1
        /\ recovery' = {drawn.batches + 1} /\ spent' = {f} \cup kept
        /\ UNCHANGED proved
    BY <1>0, <1>3 DEF ConfirmCommit
  <2>2. /\ user'.secret = user.secret /\ user'.mfa_enabled = TRUE
        /\ user'.last_step = f[3]
    BY <1>0, <1>3 DEF ConfirmCommit, ActiveRow, UserRow
  <2>3. /\ f[1] = "totp" /\ f[2] \in proved
        /\ "mfa" \notin reqs[r].missed => ~user.mfa_enabled
    BY <1>0, <1>3 DEF ConfirmCommit, At, RequestsInOrder, StillSoOrMissed
  <2>4. f[3] \in Int
    BY <1>0, <2>3, FactorKinds DEF NoFactor
  <2>5. \A g \in kept : g[1] = "totp" => g[2] # user.secret
    BY <1>0, <2>3 DEF SpentStaysSpent
  <2>6. Behind(user.secret)'
    <3> HIDE DEF f, kept
    <3> QED
      BY <2>1, <2>2, <2>4, <2>5 DEF Behind
  <2>7. \A g \in kept : g \in spent
    OBVIOUS
  <2>8. \A g \in kept : g[1] = "recovery" => g[2] <= drawn'.batches /\ g[2] \notin recovery'
    <3>1. \A g \in kept : g[1] = "recovery" => g[2] \in Nat /\ g[2] <= drawn.batches
      BY <1>0, <2>7 DEF SpentStaysSpent
    <3> HIDE DEF kept
    <3> QED
      BY <1>0, <2>1, <3>1
  <2>9. \A g \in kept : g[1] = "totp" => g[2] <= drawn'.secrets
    BY <1>0, <2>1, <2>7 DEF SpentStaysSpent
  <2>10. f[2] <= drawn.secrets /\ proved' \subseteq 1..drawn'.secrets
    <3>1. f[2] \in 1..drawn.secrets /\ proved \subseteq 1..drawn.secrets
      BY <1>0, <2>3 DEF SpentStaysSpent
    <3> QED
      BY <1>0, <2>1, <3>1
  <2>11. recovery' \subseteq 1..drawn'.batches /\ user'.secret <= drawn'.secrets
    BY <1>0, <2>1, <2>2 DEF SpentStaysSpent
  <2> HIDE DEF f, kept
  <2> QED
    BY <2>1, <2>2, <2>3, <2>6, <2>8, <2>9, <2>10, <2>11 DEF SpentStaysSpent
<1>4. ASSUME NEW r \in Request, DisableCommit(r) PROVE SpentStaysSpent'
  <2>1. user'.secret = 0 /\ recovery' = {} /\ UNCHANGED <<drawn, spent, proved>>
    BY <1>0, <1>4 DEF DisableCommit, DisabledRow, history, UserRow, NoSecret
  <2>2. \A f \in spent : f[1] = "totp" => f[2] # 0
    BY <1>0
  <2>3. /\ \A f \in spent : /\ f[1] = "recovery" => f[2] <= drawn'.batches
                            /\ f[1] = "totp" => f[2] <= drawn'.secrets
        /\ proved' \subseteq 1..drawn'.secrets
    BY <2>1, <1>0 DEF SpentStaysSpent
  <2> QED
    BY <1>0, <2>1, <2>2, <2>3 DEF SpentStaysSpent, Behind
<1>5. CASE \A r \in Request : /\ ~ConsumeFactor(r) /\ ~EnrollWrite(r)
                              /\ ~ConfirmCommit(r) /\ ~DisableCommit(r)
  <2>1. /\ user'.secret = user.secret /\ user'.mfa_enabled = user.mfa_enabled
        /\ user'.last_step = user.last_step /\ UNCHANGED <<recovery, drawn, spent>>
        /\ proved' \subseteq proved \cup ({user.secret} \ {0})
    BY <1>0, <1>5, SecondFactorKept DEF NoSecret
  <2>2. proved' \subseteq 1..drawn'.secrets
    BY <1>0, <2>1 DEF SpentStaysSpent
  <2> QED
    BY <1>0, <2>1, <2>2 DEF SpentStaysSpent, Behind
<1> QED
  BY <1>1, <1>2, <1>3, <1>4, <1>5

\* The secret a request holds guards the account if it is the one in force, and
\* what was spent of it is behind the last accepted step, or a switch was missed.
LEMMA SecretHeldStep ==
    ASSUME AccountInv, Next, NEW q \in Request
    PROVE  SecretHeldOrMissed(q)'
<1>0. /\ TypeOK /\ SpentStaysSpent /\ SecretHeldOrMissed(q) /\ user \in UserRow
      /\ reqs \in [Request -> RequestState] /\ reqs[q] \in RequestState
      /\ user.secret \in Nat /\ user.last_step \in Nat /\ reqs[q].secret \in Nat
      /\ drawn.secrets \in Nat /\ drawn \in [secrets : 0..MaxSecrets, batches : 0..MaxBatches]
  <2>1. TypeOK /\ SpentStaysSpent /\ SecretHeldOrMissed(q)
    BY DEF AccountInv
  <2>2. user \in UserRow /\ user.secret \in Nat /\ user.last_step \in Nat
    BY <2>1, AccountConstants DEF TypeOK, UserRow, NoSecret
  <2>3. reqs[q] \in RequestState /\ reqs[q].secret \in Nat
    <3>1. reqs[q] \in RequestState
      BY <2>1 DEF TypeOK
    <3> QED
      BY <3>1, AccountConstants DEF RequestState, NoSecret
  <2>4. drawn.secrets \in Nat
    BY <2>1, AccountConstants DEF TypeOK
  <2> QED
    BY <2>1, <2>2, <2>3, <2>4 DEF TypeOK
<1> SUFFICES ASSUME reqs'[q].phase = "factor" PROVE SecretHeldOrMissed(q)'
  BY DEF SecretHeldOrMissed
<1>1. CASE ~Acting(q)
  <2>1. /\ reqs'[q].secret = user.secret /\ user.mfa_enabled
        /\ UNCHANGED <<user, drawn, spent>>
    <3>1. ASSUME NEW pw \in Password, LoginRead(q, pw) PROVE FALSE
      BY <1>0, <3>1 DEF LoginRead, Begin, NoRequest
    <3>2. ASSUME ChangeRead(q) \/ EnrollRead(q) \/ ConfirmRead(q) PROVE FALSE
      BY <1>0, <3>2 DEF ChangeRead, EnrollRead, ConfirmRead, Goto, Finish, NoRequest,
                        RequestState
    <3>3. ASSUME NEW id \in DOMAIN sessions, NEW f \in Presentable, LoginMfaRead(q, id, f)
          PROVE  reqs'[q].secret = user.secret /\ user.mfa_enabled
      BY <1>0, <3>3 DEF LoginMfaRead, Begin, NoRequest
    <3>4. ASSUME DisableRead(q) PROVE reqs'[q].secret = user.secret /\ user.mfa_enabled
      <4>1. ~Finish(q)
        BY <1>0 DEF Finish, NoRequest
      <4>2. /\ reqs' = [reqs EXCEPT ![q].phase = "factor", ![q].secret = user.secret,
                                    ![q].flag = CurrentPassword(q)]
            /\ user.mfa_enabled
        BY <3>4, <4>1 DEF DisableRead
      <4> QED
        BY <1>0, <4>2 DEF RequestState
    <3> QED
      BY <1>0, <1>1, <3>1, <3>2, <3>3, <3>4, Starts DEF Acting
  <2> QED
    BY <1>0, <2>1 DEF SecretHeldOrMissed, SpentStaysSpent, Behind
<1>2. CASE Acting(q)
  <2>1. /\ reqs[q].phase = "factor" /\ reqs'[q].secret = reqs[q].secret
        /\ reqs[q].missed \subseteq reqs'[q].missed
    BY <1>0, <1>2, News DEF Acting
  <2>2. /\ reqs[q].secret # 0 /\ reqs[q].secret = user.secret => user.mfa_enabled
        /\ reqs[q].secret <= drawn.secrets
        /\ "mfa" \notin reqs'[q].missed => Behind(reqs[q].secret)
    BY <1>0, <2>1 DEF SecretHeldOrMissed, NoSecret
  <2> SUFFICES /\ reqs[q].secret # 0 /\ reqs[q].secret = user'.secret => user'.mfa_enabled
               /\ reqs[q].secret <= drawn'.secrets
               /\ "mfa" \notin reqs'[q].missed
                    => \A f \in spent' : f[1] = "totp" /\ f[2] = reqs[q].secret
                                           => f[3] <= user'.last_step
    BY <2>1 DEF SecretHeldOrMissed, Behind, NoSecret
  <2>3. ASSUME NEW r \in Request, ConfirmCommit(r) \/ DisableCommit(r)
        PROVE  "mfa" \in reqs'[q].missed
    <3>1. PICK what \in {{"mfa"}, {"mfa", "secret"}} : OvertakeAll(r, what)
      BY <2>3 DEF ConfirmCommit, DisableCommit
    <3>2. q # r
      BY <3>1 DEF OvertakeAll, Overtake, NoRequest
    <3>3. reqs'[q] = [reqs[q] EXCEPT !.missed = @ \cup what]
      BY <1>2, <3>1, <3>2 DEF OvertakeAll, Overtake
    <3> QED
      BY <1>0, <3>3 DEF RequestState
  <2>4. ASSUME NEW r \in Request, ConfirmCommit(r)
        PROVE  user'.mfa_enabled = TRUE /\ drawn'.secrets = drawn.secrets
    BY <1>0, <2>4 DEF ConfirmCommit, ActiveRow, UserRow
  <2>5. ASSUME NEW r \in Request, DisableCommit(r)
        PROVE  user'.secret = 0 /\ drawn'.secrets = drawn.secrets
    BY <1>0, <2>5 DEF DisableCommit, DisabledRow, UserRow, NoSecret
  <2>6. ASSUME NEW r \in Request, EnrollWrite(r)
        PROVE  /\ drawn'.secrets = drawn.secrets + 1 /\ user'.secret = drawn.secrets + 1
               /\ user'.last_step = user.last_step /\ UNCHANGED spent
    BY <1>0, <2>6 DEF EnrollWrite, history, UserRow
  <2>7. ASSUME NEW r \in Request, ConsumeFactor(r)
        PROVE  /\ user'.secret = user.secret /\ user'.mfa_enabled = user.mfa_enabled
               /\ UNCHANGED drawn
               /\ \A f \in spent' \ spent : f[1] = "totp" => f[3] = user'.last_step
               /\ \A f \in spent : f[1] = "totp" /\ f[3] <= user.last_step
                                     => f[3] <= user'.last_step
    <3> DEFINE g == reqs[r].factor
    <3>1. /\ user'.secret = user.secret /\ user'.mfa_enabled = user.mfa_enabled
          /\ UNCHANGED drawn
      BY <1>0, <2>7 DEF ConsumeFactor, UserRow
    <3>2. CASE TotpAccepted(r)
      <4>1. user' = [user EXCEPT !.last_step = g[3]] /\ spent' = spent \cup {g}
        BY <2>7, <3>2 DEF ConsumeFactor
      <4>2. user'.last_step = g[3] /\ user.last_step < g[3]
        BY <1>0, <3>2, <4>1 DEF TotpAccepted, UserRow
      <4>3. g[3] \in Int /\ \A f \in spent : f[1] = "totp" => f[3] \in Int
        <5>1. g \in Factors \cup {NoFactor} /\ g[1] = "totp" /\ spent \subseteq Factors
          BY <1>0, <3>2 DEF TypeOK, RequestState, TotpAccepted, TotpMatches
        <5> QED
          BY <5>1, FactorKinds DEF NoFactor
      <4> HIDE DEF g
      <4> QED
        BY <1>0, <3>1, <4>1, <4>2, <4>3
    <3>3. CASE ~TotpAccepted(r)
      <4>1. UNCHANGED user /\ spent' \subseteq spent \cup {g}
        BY <2>7, <3>3 DEF ConsumeFactor
      <4>2. spent' = spent \/ g[1] = "recovery"
        BY <2>7, <3>3 DEF ConsumeFactor, RecoveryAccepted
      <4> HIDE DEF g
      <4> QED
        BY <3>1, <4>1, <4>2
    <3> QED
      BY <3>2, <3>3
  <2>8. CASE \E r \in Request : ConfirmCommit(r) \/ DisableCommit(r)
    BY <2>2, <2>3, <2>4, <2>5, <2>8
  <2>9. CASE \E r \in Request : EnrollWrite(r)
    BY <1>0, <2>2, <2>6, <2>9 DEF Behind
  <2>10. CASE \E r \in Request : ConsumeFactor(r)
    <3>1. spent \subseteq Factors
      BY <1>0 DEF TypeOK
    <3>2. user'.last_step \in Int
      <4>1. user' \in UserRow
        BY <1>0, <2>10, ConsumeFactorTypes DEF TypeOK
      <4> QED
        BY <4>1, AccountConstants DEF UserRow
    <3> QED
      BY <1>0, <2>2, <2>7, <2>10, <3>1, <3>2 DEF Behind
  <2>11. CASE \A r \in Request : /\ ~ConsumeFactor(r) /\ ~EnrollWrite(r)
                                 /\ ~ConfirmCommit(r) /\ ~DisableCommit(r)
    <3>1. /\ user'.secret = user.secret /\ user'.mfa_enabled = user.mfa_enabled
          /\ user'.last_step = user.last_step /\ UNCHANGED <<drawn, spent>>
      BY <1>0, <2>11, SecondFactorKept
    <3> QED
      BY <2>2, <3>1 DEF Behind
  <2> QED
    BY <2>8, <2>9, <2>10, <2>11
<1> QED
  BY <1>1, <1>2

LEMMA NextInv == AccountInv /\ [Next]_vars => AccountInv'
<1> SUFFICES ASSUME AccountInv, [Next]_vars PROVE AccountInv'
  OBVIOUS
<1>1. CASE UNCHANGED vars
  <2>1. /\ TypeOK' /\ RequestsInOrder' /\ FailuresLock' /\ SurvivorsOverlapped'
        /\ ExchangedIsRevoked' /\ PendingIsSingleUse'
    BY <1>1
    DEF vars, AccountInv, TypeOK, RequestsInOrder, FailuresLock, SurvivorsOverlapped,
        ExchangedIsRevoked, PendingIsSingleUse
  <2>2. SpentStaysSpent'
    BY <1>1 DEF vars, AccountInv, SpentStaysSpent, Behind
  <2>3. ASSUME NEW r \in Request
        PROVE  (StillSoOrMissed(r) /\ PendingHeldOrMissed(r) /\ SecretHeldOrMissed(r))'
    BY <1>1
    DEF vars, AccountInv, StillSoOrMissed, PendingHeldOrMissed, SecretHeldOrMissed, Behind,
        SigningIn, Acting, At
  <2> QED
    BY <2>1, <2>2, <2>3 DEF AccountInv
<1>2. CASE Next
  <2>1. TypeOK' /\ RequestsInOrder'
    BY <1>2, NextTypes, InOrderStep DEF AccountInv
  <2>2. FailuresLock'
    BY <1>2, FailuresLockStep DEF AccountInv
  <2> QED
    BY <1>2, <2>1, <2>2, StillSoStep, SurvivorsStep, PendingHeldStep, ExchangeStep, SpentStep,
       SecretHeldStep
    DEF AccountInv
<1> QED
  BY <1>1, <1>2

\* What a request read is still so, or it was overtaken by the one that changed
\* it: with any number of requests, interleaved in any way.
THEOREM AccountInvariant == Spec => []AccountInv
<1> QED
  BY InitInv, NextInv, PTL DEF Spec

-----------------------------------------------------------------------------
(***************************************************************************)
(* The promises.                                                           *)
(***************************************************************************)
\* No failure is lost or counted twice, and the one that reaches the limit
\* locks the account from that moment.
THEOREM AccountFailuresLock == Spec => []FailuresLock
<1>1. AccountInv => FailuresLock
  BY DEF AccountInv
<1> QED
  BY AccountInvariant, <1>1, PTL

\* Only logins that were in progress when the password changed leave a session
\* of an earlier password.
THEOREM AccountOnlyOverlappingLoginsSurvive == Spec => []OnlyOverlappingLoginsSurvive
<1>1. AccountInv => OnlyOverlappingLoginsSurvive
  BY DEF AccountInv, SurvivorsOverlapped, OnlyOverlappingLoginsSurvive, Live
<1> QED
  BY AccountInvariant, <1>1, PTL

\* A pending login is exchanged for another session only by a second step that
\* was in progress at the first exchange.
THEOREM AccountPendingIsSingleUse == Spec => []PendingIsSingleUse
<1>1. AccountInv => PendingIsSingleUse
  BY DEF AccountInv
<1> QED
  BY AccountInvariant, <1>1, PTL

\* Only the two logins add a session.
LEMMA OpensByLogin ==
    ASSUME AccountInv, [Next]_vars, NEW q \in Request, Opens(q)
    PROVE  /\ (LoginCommit(q) \/ LoginMfaCommit(q)) /\ Next /\ TypeOK
           /\ SigningIn(q) /\ reqs[q].phase = "commit" /\ StillSoOrMissed(q)
<1>0. TypeOK /\ StillSoOrMissed(q) /\ Commits(q) /\ Len(sessions') > Len(sessions)
  BY DEF AccountInv, Opens
<1>1. Next
  BY <1>0 DEF Commits, vars
<1>2. Len(sessions) \in Nat
  BY <1>0 DEF TypeOK
<1>3. ASSUME ~LoginCommit(q), ~LoginMfaCommit(q) PROVE FALSE
  <2>1. ~ChangeCommit(q)
    BY <1>0, <1>2, RevokeOthersType DEF ChangeCommit
  <2> QED
    BY <1>0, <1>2, <1>3, <2>1, Ends DEF EnrollWrite, ConfirmCommit, DisableCommit, Drop
<1> QED
  BY <1>0, <1>1, <1>3 DEF LoginCommit, LoginMfaCommit, SigningIn, Acting, At

\* A locked account opens no session but for a login or second step that was
\* in progress when the lock was set.
THEOREM AccountLockedOpensNoSession == Spec => LockedOpensNoSession
<1>1. AccountInv /\ [Next]_vars
      => \A r \in Request : Opens(r) /\ user.locked_until > now => "lock" \in reqs[r].missed
  BY OpensByLogin DEF StillSoOrMissed
<1> QED
  BY AccountInvariant, <1>1, PTL DEF Spec, LockedOpensNoSession

\* A lock is lifted before its time only by a password change and by a login
\* that was in progress when it was set.
THEOREM AccountLockIsKept == Spec => LockIsKept
<1>1. ASSUME AccountInv, [Next]_vars, user.locked_until > now, user'.locked_until <= now
      PROVE  \E r \in Request : /\ Commits(r)
                                /\ \/ reqs[r].op = "change_password"
                                   \/ "lock" \in reqs[r].missed
  <2>0. /\ TypeOK /\ user \in UserRow /\ now \in Int /\ user.locked_until \in Int
        /\ reqs \in [Request -> RequestState]
        /\ \A r \in Request : StillSoOrMissed(r)
    <3>1. TypeOK /\ \A r \in Request : StillSoOrMissed(r)
      BY <1>1 DEF AccountInv
    <3>2. user \in UserRow /\ user.locked_until \in Nat /\ now \in Nat
      BY <3>1, AccountConstants DEF TypeOK, UserRow, StartTime
    <3> QED
      BY <3>1, <3>2 DEF TypeOK
  <2>1. user'.locked_until # user.locked_until
    BY <1>1, <2>0
  <2>2. ASSUME NEW r \in Request, RegisterFailure(r) PROVE FALSE
    <3>1. user'.locked_until = IF ReachesLimit THEN now + LockoutTicks
                                               ELSE user.locked_until
      BY <2>0, <2>2 DEF RegisterFailure, LockEnd, UserRow
    <3> QED
      BY <1>1, <2>0, <2>1, <3>1, AccountConstants
  <2>3. ASSUME NEW r \in Request,
               ConsumeFactor(r) \/ EnrollWrite(r) \/ ConfirmCommit(r) \/ DisableCommit(r)
        PROVE  FALSE
    BY <2>0, <2>1, <2>3 DEF ConsumeFactor, EnrollWrite, ConfirmCommit, ActiveRow,
                            DisableCommit, DisabledRow, UserRow
  <2>4. ~UNCHANGED user
    BY <2>1
  <2>5. PICK r \in Request : LoginCommit(r) \/ LoginMfaCommit(r) \/ ChangeCommit(r)
    BY <1>1, <2>2, <2>3, <2>4
    DEF Next, Tick, LoginRead, LoginMfaRead, Authenticate, LoginRefused, LogoutRevoke,
        ChangeRead, EnrollRead, ConfirmRead, DisableRead, Drop, vars
  <2>6. Commits(r)
    BY <2>0, <2>5 DEF LoginCommit, LoginMfaCommit, ChangeCommit, At, Finish, Overtake,
                      OvertakeAll, NoRequest, Commits
  <2>7. reqs[r].op = "change_password" \/ "lock" \in reqs[r].missed
    BY <1>1, <2>0, <2>5 DEF LoginCommit, LoginMfaCommit, ChangeCommit, At, StillSoOrMissed,
                            SigningIn, Acting
  <2> QED
    BY <2>6, <2>7
<1> QED
  BY AccountInvariant, <1>1, PTL DEF Spec, LockIsKept

\* Whoever sets a password knew the one in force, or one that was replaced
\* while it was being checked.
THEOREM AccountCurrentPasswordIsRequired == Spec => CurrentPasswordIsRequired
<1>1. ASSUME AccountInv, [Next]_vars, user'.hash # user.hash
      PROVE  \E r \in Request : /\ Commits(r) /\ reqs[r].op = "change_password"
                                /\ reqs[r].pw = user.hash \/ "hash" \in reqs[r].missed
  <2>0. /\ TypeOK /\ user \in UserRow /\ reqs \in [Request -> RequestState]
        /\ \A r \in Request : StillSoOrMissed(r)
    BY <1>1 DEF AccountInv, TypeOK
  <2>1. Next
    BY <1>1 DEF vars
  <2>2. \A r \in Request : ~LoginCommit(r) /\ ~LoginMfaCommit(r)
    BY <1>1, <2>0 DEF LoginCommit, LoginMfaCommit, Unlocked, UserRow
  <2>3. PICK r \in Request : ChangeCommit(r)
    BY <1>1, <2>0, <2>1, <2>2, SessionsMarked
  <2>4. Commits(r)
    BY <2>0, <2>3 DEF ChangeCommit, At, Overtake, OvertakeAll, NoRequest, Commits
  <2> QED
    BY <2>0, <2>3, <2>4 DEF ChangeCommit, At, StillSoOrMissed
<1> QED
  BY AccountInvariant, <1>1, PTL DEF Spec, CurrentPasswordIsRequired

\* A password alone gives an account with a second factor a pending session,
\* unless the factor was switched on while the password was checked.
THEOREM AccountPasswordAloneIsNotEnough == Spec => PasswordAloneIsNotEnough
<1>1. ASSUME AccountInv, [Next]_vars, NEW r \in Request, Opens(r), reqs[r].op = "login",
             user.mfa_enabled
      PROVE  \/ sessions'[Len(sessions')].kind = "mfa_pending"
             \/ "mfa" \in reqs[r].missed
  <2>1. LoginCommit(r)
    BY <1>1, OpensByLogin DEF LoginMfaCommit, At
  <2>2. reqs[r].flag = user.mfa_enabled \/ "mfa" \in reqs[r].missed
    BY <1>1, <2>1, OpensByLogin DEF LoginCommit, StillSoOrMissed
  <2> QED
    BY <1>1, <2>1, <2>2, OpensByLogin, SessionOpened
<1>2. AccountInv /\ [Next]_vars
      => \A r \in Request :
            Opens(r) /\ reqs[r].op = "login" /\ user.mfa_enabled
            => \/ sessions'[Len(sessions')].kind = "mfa_pending"
               \/ "mfa" \in reqs[r].missed
  BY <1>1
<1> QED
  BY AccountInvariant, <1>2, PTL DEF Spec, PasswordAloneIsNotEnough

\* A secret comes to guard the account only after a code of it was shown, unless
\* an enrolment or a confirmation missed another one or a mfa_disable.
THEOREM AccountActiveSecretWasConfirmed == Spec => ActiveSecretWasConfirmed
<1>1. ASSUME AccountInv, [Next]_vars, ~Unproved, Unproved'
      PROVE  \E r \in Request : /\ Commits(r)
                                /\ reqs[r].op \in {"mfa_enroll", "mfa_confirm"}
                                /\ reqs[r].missed \cap {"mfa", "secret"} # {}
  <2>0. /\ TypeOK /\ user \in UserRow /\ reqs \in [Request -> RequestState]
        /\ \A r \in Request : StillSoOrMissed(r)
    BY <1>1 DEF AccountInv, TypeOK
  <2>1. Next
    BY <1>1 DEF vars, Unproved
  <2>2. \A r \in Request : ~ConsumeFactor(r)
    <3> SUFFICES ASSUME NEW r \in Request, ConsumeFactor(r) PROVE FALSE
      OBVIOUS
    <3>1. /\ user'.secret = user.secret /\ user'.mfa_enabled = user.mfa_enabled
          /\ proved' = proved
      BY <2>0 DEF ConsumeFactor, UserRow
    <3>2. user'.mfa_enabled /\ user'.secret \notin proved'
      BY <1>1 DEF Unproved
    <3>3. user.mfa_enabled /\ user.secret \notin proved
      BY <3>1, <3>2
    <3> QED
      BY <1>1, <3>3 DEF Unproved
  <2>3. \A r \in Request : ~DisableCommit(r)
    BY <1>1, <2>0 DEF DisableCommit, DisabledRow, UserRow, Unproved
  <2>4. PICK r \in Request : EnrollWrite(r) \/ ConfirmCommit(r)
    <3>1. proved \subseteq proved'
      <4>1. \A r \in Request : ConfirmRead(r) => proved \subseteq proved'
        BY DEF ConfirmRead
      <4>2. \A r \in Request :
               LoginCommit(r) \/ ConsumeFactor(r) \/ LoginMfaCommit(r) \/ RegisterFailure(r)
               => UNCHANGED proved
        BY DEF LoginCommit, ConsumeFactor, LoginMfaCommit, RegisterFailure
      <4>3. \A r \in Request :
               ChangeCommit(r) \/ EnrollWrite(r) \/ ConfirmCommit(r) \/ DisableCommit(r)
               => UNCHANGED proved
        BY DEF ChangeCommit, EnrollWrite, ConfirmCommit, DisableCommit, history
      <4> QED
        BY <2>1, <4>1, <4>2, <4>3
        DEF Next, Tick, LoginRead, LoginMfaRead, Authenticate, LoginRefused, LogoutRevoke,
            ChangeRead, EnrollRead, DisableRead, Drop, history, vars
    <3> QED
      BY <1>1, <2>0, <2>1, <2>2, <2>3, <3>1, SecondFactorKept DEF Unproved
  <2>5. Commits(r) /\ reqs[r].op \in {"mfa_enroll", "mfa_confirm"}
    BY <2>0, <2>4 DEF EnrollWrite, ConfirmCommit, At, Overtake, OvertakeAll, NoRequest,
                      Commits
  <2>6. CASE EnrollWrite(r)
    <3>1. user'.mfa_enabled = user.mfa_enabled
      BY <2>0, <2>6 DEF EnrollWrite, UserRow
    <3>2. "mfa" \in reqs[r].missed
      BY <1>1, <2>0, <2>6, <3>1 DEF EnrollWrite, StillSoOrMissed, Unproved
    <3> QED
      BY <2>5, <3>2
  <2>7. CASE ConfirmCommit(r)
    <3>1. user'.secret = user.secret /\ UNCHANGED proved
      BY <2>0, <2>7 DEF ConfirmCommit, ActiveRow, UserRow
    <3>2. "secret" \in reqs[r].missed
      BY <1>1, <2>0, <2>7, <3>1 DEF ConfirmCommit, StillSoOrMissed, Unproved
    <3> QED
      BY <2>5, <3>2
  <2> QED
    BY <2>4, <2>6, <2>7
<1> QED
  BY AccountInvariant, <1>1, PTL DEF Spec, ActiveSecretWasConfirmed

\* A request goes from its factor to its commit only when the factor is accepted.
LEMMA Accepts ==
    ASSUME TypeOK, [Next]_vars, NEW q \in Request,
           reqs[q].phase = "factor", reqs'[q].phase = "commit"
    PROVE  ConsumeFactor(q) /\ (TotpAccepted(q) \/ RecoveryAccepted(q))
<1>0. reqs \in [Request -> RequestState] /\ reqs'[q].phase # reqs[q].phase
  BY DEF TypeOK
<1>1. \A r \in Request : ~Finish(r)
  BY <1>0 DEF Finish, NoRequest
<1>2. \A r \in Request : \A whom, what : ~Overtake(r, whom, what)
  BY <1>0 DEF Overtake, NoRequest, RequestState
<1>3. \A r \in Request \ {q} : \A phase : ~Goto(r, phase)
  BY <1>0 DEF Goto
<1>4. \A r \in Request : \A fields : ~Begin(r, fields)
  <2> SUFFICES ASSUME NEW r \in Request, NEW fields, Begin(r, fields) PROVE FALSE
    OBVIOUS
  <2>1. r # q /\ reqs'[q] = reqs[q]
    BY <1>0 DEF Begin
  <2> QED
    BY <1>0, <2>1
<1>5. \A r \in Request :
         /\ \A pw : ~LoginRead(r, pw)
         /\ \A id, f : ~LoginMfaRead(r, id, f)
         /\ \A op, id, pw, new, f : ~Authenticate(r, op, id, pw, new, f)
  BY <1>4 DEF LoginRead, LoginMfaRead, Authenticate
<1>6. \A r \in Request : /\ ~LoginCommit(r) /\ ~LogoutRevoke(r) /\ ~Drop(r)
  BY <1>1 DEF LoginCommit, LogoutRevoke, Drop
<1>7. \A r \in Request :
         /\ ~LoginMfaCommit(r) /\ ~RegisterFailure(r) /\ ~ChangeCommit(r)
         /\ ~EnrollWrite(r) /\ ~ConfirmCommit(r) /\ ~DisableCommit(r)
  BY <1>2 DEF LoginMfaCommit, RegisterFailure, ChangeCommit, EnrollWrite, ConfirmCommit,
              DisableCommit, OvertakeAll
<1>8. \A r \in Request : ~ChangeRead(r) /\ ~EnrollRead(r) /\ ~ConfirmRead(r)
  BY <1>1, <1>3 DEF ChangeRead, EnrollRead, ConfirmRead, At
<1>9. \A r \in Request : ~DisableRead(r)
  <2> SUFFICES ASSUME NEW r \in Request, DisableRead(r) PROVE FALSE
    OBVIOUS
  <2>1. r # q
    BY DEF DisableRead, At
  <2> QED
    BY <1>0, <1>1, <2>1 DEF DisableRead
<1>10. \A r \in Request : ~LoginRefused(r) /\ ~Tick /\ ~UNCHANGED vars
  BY <1>0 DEF LoginRefused, Tick, vars
<1>11. PICK r \in Request : ConsumeFactor(r)
  BY <1>5, <1>6, <1>7, <1>8, <1>9, <1>10 DEF Next
<1>12. r = q
  BY <1>3, <1>11 DEF ConsumeFactor
<1>13. ASSUME ~TotpAccepted(q), ~RecoveryAccepted(q) PROVE FALSE
  <2>1. Goto(q, "fail")
    BY <1>11, <1>12, <1>13 DEF ConsumeFactor
  <2> QED
    BY <1>0, <2>1 DEF Goto, RequestState
<1> QED
  BY <1>11, <1>12, <1>13

\* A factor is accepted once, whatever the number of requests that present it,
\* but for a TOTP code shown by a request that was in progress when the second
\* factor was switched on or off.
THEOREM AccountFactorOnce == Spec => FactorOnce
<1>1. ASSUME AccountInv, [Next]_vars, NEW r \in Request,
             reqs[r].phase = "factor", reqs'[r].phase = "commit"
      PROVE  \/ reqs[r].factor \notin spent
             \/ reqs[r].factor[1] = "totp" /\ "mfa" \in reqs[r].missed
  <2> DEFINE f == reqs[r].factor
  <2>0. TypeOK /\ SpentStaysSpent /\ SecretHeldOrMissed(r) /\ user.last_step \in Int
    <3>1. TypeOK /\ SpentStaysSpent /\ SecretHeldOrMissed(r)
      BY <1>1 DEF AccountInv
    <3>2. user.last_step \in Nat
      BY <3>1, AccountConstants DEF TypeOK, UserRow
    <3> QED
      BY <3>1, <3>2
  <2>1. ConsumeFactor(r) /\ (TotpAccepted(r) \/ RecoveryAccepted(r))
    BY <1>1, <2>0, Accepts
  <2>2. CASE TotpAccepted(r)
    <3>1. f[1] = "totp" /\ f[2] = reqs[r].secret /\ user.last_step < f[3]
      BY <2>2 DEF TotpAccepted, TotpMatches
    <3>2. f[3] \in Int
      <4>1. f \in Factors
        BY <2>0, <3>1 DEF TypeOK, RequestState, NoFactor
      <4> QED
        BY <3>1, <4>1, FactorKinds
    <3>3. "mfa" \notin reqs[r].missed => f \notin spent
      BY <1>1, <2>0, <3>1, <3>2 DEF SecretHeldOrMissed, Behind
    <3> QED
      BY <3>1, <3>3
  <2>3. CASE RecoveryAccepted(r)
    BY <2>0, <2>3 DEF RecoveryAccepted, SpentStaysSpent
  <2> QED
    BY <2>1, <2>2, <2>3
<1>2. AccountInv /\ [Next]_vars
      => \A r \in Request :
            reqs[r].phase = "factor" /\ reqs'[r].phase = "commit"
            => \/ reqs[r].factor \notin spent
               \/ reqs[r].factor[1] = "totp" /\ "mfa" \in reqs[r].missed
  BY <1>1
<1> QED
  BY AccountInvariant, <1>2, PTL DEF Spec, FactorOnce

=============================================================================
