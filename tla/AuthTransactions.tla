--------------------------- MODULE AuthTransactions ---------------------------
(***************************************************************************)
(* The transactions of crates/control/src/auth.rs as the database runs     *)
(* them: `register`, which makes accounts, and the handlers that work on   *)
(* the rows of one account at the same time, with the locks they wait for  *)
(* and the connections of the pool they hold meanwhile.                    *)
(*                                                                         *)
(* A handler is a sequence of transactions, each a sequence of statements. *)
(* A statement sent to the pool is a transaction of its own.  A statement  *)
(* that writes a row waits for the row's lock, which is released at the    *)
(* end of the transaction.  Left out are the reads, which take a           *)
(* connection for one statement and wait for no lock, the first step of a  *)
(* login with MFA, which writes no row that is there, and what Account.tla *)
(* says of the rows' contents.                                             *)
(***************************************************************************)
EXTENDS Naturals, Sequences, FiniteSets

CONSTANTS Request,
          Session, Pending,   \* rows of `sessions`, of one user; kind mfa_pending
          Email, LongEmail,   \* LongEmail: of 201 to 254 characters
          NoArgument, Nobody,
          Connections         \* max_connections

ASSUME AuthTransactionsConstants ==
    /\ Pending \subseteq Session /\ LongEmail \subseteq Email
    /\ Nobody \notin Request
    /\ IsFiniteSet(Session)
    /\ Session \cap {"registration", "user", "recovery", "count", "insert", "record", "end", "none"} = {}
    /\ Connections \in Nat \ {0}

VARIABLES allow_registration, \* the setting
          accounts,           \* the emails of `users`
          live,               \* sessions without revoked_at
          holder,             \* the transaction that holds a lock
          reqs                \* handlers in progress, or their answers

vars == <<allow_registration, accounts, live, holder, reqs>>

\* "registration" is the advisory lock, "user" the row of the user and
\* "recovery" the rows of recovery_codes, which are always taken together.
Lock == {"registration", "user", "recovery"} \cup Session

Done(answer) == [op |-> "none", answer |-> answer]
Answers == {"none", "ok", "closed", "conflict", "internal"}

Running(r) == reqs[r].op # "none"

Init ==
    /\ allow_registration \in BOOLEAN
    /\ accounts = {}
    /\ live = Session
    /\ holder = [l \in Lock |-> Nobody]
    /\ reqs = [r \in Request |-> Done("none")]

-----------------------------------------------------------------------------
\* Slip: register counts the accounts without the advisory lock.
UnlockedRegister == << <<"count", "insert", "record">> >>

Register == << <<"registration", "count", "insert", "record">> >>

\* The handlers of one account, after their reads and checks.
Login == << <<"user", "record">> >>
LoginFailed == << <<"user">>, <<"record">> >>
Logout(s) == << <<s>> >>
MfaEnroll == << <<"user">> >>
MfaConfirm == << <<"user", "recovery", "record">> >>

\* A TOTP step or a recovery code is spent in a statement of its own.
LoginMfa(pending, factor) == << <<factor>>, <<pending, "user", "record">> >>

\* Slip: the codes are deleted before the user's row is changed.
MfaDisableReversed == << <<"user">>, <<"recovery", "user", "record">> >>

MfaDisable == << <<"user">>, <<"user", "recovery", "record">> >>

\* All other sessions, in the order in which the scan finds them.
Orders(S) == {f \in [1..Cardinality(S) -> S] : \A s \in S : \E i \in DOMAIN f : f[i] = s}

ChangePassword(s) ==
    { << <<"user">> \o others \o <<"record">> >> : others \in Orders(Session \ {s}) }

Plans(op, s) ==
    CASE op = "login"           -> {Login}
      [] op = "login_failed"    -> {LoginFailed}
      [] op = "login_mfa"       -> {LoginMfa(s, "user"), LoginMfa(s, "recovery")}
      [] op = "logout"          -> {Logout(s)}
      [] op = "change_password" -> ChangePassword(s)
      [] op = "mfa_enroll"      -> {MfaEnroll}
      [] op = "mfa_confirm"     -> {MfaConfirm}
      [] op = "mfa_disable"     -> {MfaDisable}

Arguments(op) ==
    CASE op \in {"login", "login_failed"} -> {NoArgument}
      [] op = "login_mfa" -> Pending \cap live
      [] OTHER -> live \ Pending

Operations == {"login", "login_failed", "login_mfa", "logout", "change_password",
               "mfa_enroll", "mfa_confirm", "mfa_disable"}

Begin(r, op, argument, plan) ==
    /\ ~Running(r)
    /\ reqs' = [reqs EXCEPT ![r] =
          [op |-> op, on |-> argument, plan |-> plan, tx |-> 1, stmt |-> 1, conn |-> FALSE]]
    /\ UNCHANGED <<allow_registration, accounts, live, holder>>

-----------------------------------------------------------------------------
Connected == {r \in Request : Running(r) /\ reqs[r].conn}

MayConnect(r) ==
    /\ Running(r) /\ ~reqs[r].conn
    /\ Cardinality(Connected) < Connections

\* pool.begin(), or a statement on the pool: wait for a connection.
Connect(r) ==
    /\ MayConnect(r)
    /\ reqs' = [reqs EXCEPT ![r].conn = TRUE]
    /\ UNCHANGED <<allow_registration, accounts, live, holder>>

\* The transaction that r is in.
Transaction(r) == reqs[r].plan[reqs[r].tx]

\* The next statement of r, "end" behind the last one of the transaction.
Statement(r) ==
    IF Running(r) /\ reqs[r].conn
      THEN IF reqs[r].stmt > Len(Transaction(r)) THEN "end" ELSE Transaction(r)[reqs[r].stmt]
      ELSE "none"

Forward(r) == reqs' = [reqs EXCEPT ![r].stmt = @ + 1]

\* Slip: pg_advisory_lock, which the session keeps.
KeepsAdvisory(r) ==
    holder' = [l \in Lock |-> IF holder[l] = r /\ l # "registration" THEN Nobody ELSE holder[l]]

\* What the transaction of r holds is released.
Release(r) == holder' = [l \in Lock |-> IF holder[l] = r THEN Nobody ELSE holder[l]]

\* An early return or an error: the transaction is rolled back.
Leave(r, answer) ==
    /\ reqs' = [reqs EXCEPT ![r] = Done(answer)]
    /\ Release(r)
    /\ UNCHANGED <<allow_registration, accounts, live>>

MayAcquire(r) == Statement(r) \in Lock /\ holder[Statement(r)] \in {Nobody, r}

\* An UPDATE or DELETE gets the lock of its row.
Acquire(r) ==
    /\ MayAcquire(r)
    /\ holder' = [holder EXCEPT ![Statement(r)] = r]
    /\ Forward(r)
    /\ UNCHANGED <<allow_registration, accounts, live>>

\* change_password touches no session that is revoked when it gets to it.
Skip(r) ==
    /\ reqs[r].op = "change_password"
    /\ Statement(r) \in Session \ live
    /\ Forward(r)
    /\ UNCHANGED <<allow_registration, accounts, live, holder>>

\* "The very first account (the administrator) may always be created."
Open == allow_registration \/ accounts = {}

Count(r) ==
    /\ Statement(r) = "count"
    /\ IF Open THEN Forward(r) /\ UNCHANGED <<allow_registration, accounts, live, holder>>
               ELSE Leave(r, "closed")

\* users_email_key; whoever could insert the same email waits for the lock.
Insert(r) ==
    /\ Statement(r) = "insert"
    /\ IF reqs[r].on \notin accounts
         THEN Forward(r) /\ UNCHANGED <<allow_registration, accounts, live, holder>>
         ELSE Leave(r, "conflict")

\* Slip: the event is written on the pool during the transaction.
OneMore == 1

\* The connections audit::record needs besides the one of its transaction.
More == 0

MayRecord(r) == Statement(r) = "record" /\ Cardinality(Connected) + More <= Connections

\* The event of a registration has the email as its target, and
\* audit_events allows 200 characters there.
Record(r) ==
    /\ MayRecord(r)
    /\ IF reqs[r].op = "register" /\ reqs[r].on \in LongEmail
         THEN Leave(r, "internal")
         ELSE Forward(r) /\ UNCHANGED <<allow_registration, accounts, live, holder>>

IsLast(r) == reqs[r].tx = Len(reqs[r].plan)

\* Which sessions the transaction of r ends.
Ended(r) ==
    CASE reqs[r].op = "change_password" -> Session \ {reqs[r].on}
      [] reqs[r].op = "logout" -> {reqs[r].on}
      [] reqs[r].op = "login_mfa" /\ IsLast(r) -> {reqs[r].on}
      [] OTHER -> {}

\* The commit, which is the answer after the last transaction.
Commit(r) ==
    /\ Statement(r) = "end"
    /\ accounts' = IF reqs[r].op = "register" THEN accounts \cup {reqs[r].on} ELSE accounts
    /\ live' = live \ Ended(r)
    /\ UNCHANGED allow_registration
    /\ Release(r)
    /\ reqs' = [reqs EXCEPT ![r] =
         IF IsLast(r) THEN Done("ok")
                      ELSE [reqs[r] EXCEPT !.tx = @ + 1, !.stmt = 1, !.conn = FALSE]]

Step(r) == Acquire(r) \/ Skip(r) \/ Count(r) \/ Insert(r) \/ Record(r) \/ Commit(r)

-----------------------------------------------------------------------------
\* r waits for a row that q holds.
Waits(r, q) == r # q /\ Statement(r) \in Lock /\ holder[Statement(r)] = q

\* r is one of some requests that all wait for each other in a circle.
Deadlocked(r) ==
    \E S \in SUBSET Request :
        /\ r \in S
        /\ \A q \in S : (\E p \in S : Waits(q, p)) /\ (\E p \in S : Waits(p, q))

\* The statement that r has come to is not waiting for anything, or r is in a
\* circle that deadlock_timeout breaks.
Ready(r) ==
    \/ MayConnect(r) \/ MayAcquire(r) \/ MayRecord(r)
    \/ Statement(r) \in {"count", "insert", "end"}
    \/ Deadlocked(r)

\* PostgreSQL: after deadlock_timeout one of the circle gets an error.
Victim(r) == Deadlocked(r) /\ Leave(r, "internal")

\* The client is gone and the handler is dropped.
Drop(r) == Running(r) /\ Leave(r, "none")

Next ==
    \E r \in Request :
        \/ \E e \in Email : Begin(r, "register", e, Register)
        \/ \E op \in Operations : \E argument \in Arguments(op) :
              \E plan \in Plans(op, argument) : Begin(r, op, argument, plan)
        \/ Connect(r) \/ Step(r) \/ Victim(r) \/ Drop(r)

Spec == Init /\ [][Next]_vars

-----------------------------------------------------------------------------
(***************************************************************************)
(* Properties.                                                             *)
(***************************************************************************)
Handler == [op : Operations \cup {"register"}, on : Email \cup Session \cup {NoArgument},
            plan : Seq(Seq(Lock \cup {"count", "insert", "record"})),
            tx : Nat, stmt : Nat, conn : BOOLEAN]

TypeOK ==
    /\ allow_registration \in BOOLEAN
    /\ accounts \subseteq Email
    /\ live \subseteq Session
    /\ holder \in [Lock -> Connected \cup {Nobody}]
    /\ reqs \in [Request -> Handler \cup [op : {"none"}, answer : Answers]]
    /\ \A r \in Request :
          Running(r)
          => /\ reqs[r].tx \in 1..Len(reqs[r].plan)
             /\ reqs[r].stmt \in 1..Len(Transaction(r)) + 1
             /\ reqs[r].op = "register" => reqs[r].on \in Email

\* "The very first account (the administrator) may always be created": while
\* registration is closed there is never a second one, however many ask at the
\* same time, and nobody is turned away before there is one.
FirstAccountOnly ==
    /\ ~allow_registration => \A e, f \in accounts : e = f
    /\ \A r \in Request : ~Running(r) /\ reqs[r].answer \in {"closed", "conflict"}
                            => accounts # {}

\* The only circles are those of a password change and second steps of logins
\* on sessions it ends; no other handler is made to fail by a deadlock.
OnlyTheseDeadlock ==
    \A r \in Request :
        Deadlocked(r) => reqs[r].op \in {"change_password", "login_mfa"}

\* A registration with an email that normalize_email accepts is answered as
\* openapi.yaml lists: 201, 403 or 409.
RegistrationIsAnswered ==
    [][\A r \in Request :
          Running(r) /\ reqs[r].op = "register" /\ ~Running(r)'
          => reqs'[r].answer # "internal"]_vars

\* While handlers are in progress, one of them can go on without a new request
\* or a client that gives up: however they hold locks and connections, they do
\* not all wait for each other, so each round of requests ends.
SomebodyGoesOn ==
    (\E r \in Request : Running(r))
    => \E r \in Request : Ready(r)

-----------------------------------------------------------------------------
\* Why there is no second first account: whoever counts holds the advisory
\* lock, and what it read stays true until its transaction ends.
RegistrationInv ==
    /\ FirstAccountOnly
    /\ \A r \in Request :
          Running(r) /\ reqs[r].op = "register"
          => /\ reqs[r].plan = Register /\ reqs[r].tx = 1
             /\ reqs[r].stmt > 1 => reqs[r].conn /\ holder["registration"] = r
             /\ reqs[r].stmt > 2 => Open

\* Why only these deadlock: a handler holds what earlier statements of its
\* transaction locked, and which those are follows from its operation.
LockInv ==
    \A r \in Request :
        /\ Running(r)
           => /\ reqs[r].plan \in IF reqs[r].op = "register" THEN {Register}
                                  ELSE Plans(reqs[r].op, reqs[r].on)
              /\ reqs[r].op = "login_mfa" => reqs[r].on \in Session
        /\ \A l \in Lock :
              holder[l] = r => \E i \in 1..(reqs[r].stmt - 1) : Transaction(r)[i] = l

\* Why somebody goes on: nobody has a connection that the pool does not have.
PoolInv == IsFiniteSet(Connected) /\ Cardinality(Connected) <= Connections

=============================================================================
