----------------------- MODULE AuthTransactions_proofs -----------------------
(***************************************************************************)
(* The first account is the only one that a closed registration lets in,   *)
(* for any number of requests, sessions and connections; and the types,    *)
(* which say among other things that only transactions hold locks.         *)
(***************************************************************************)
EXTENDS AuthTransactions, FiniteSetTheorems, WellFoundedInduction, TLAPS

StatementOf == Lock \cup {"count", "insert", "record"}

\* The orders of change_password are sequences.
LEMMA OrdersAreSequences ==
    ASSUME NEW S \in SUBSET Session, NEW f \in Orders(S)
    PROVE  f \in Seq(Session)
<1>1. Cardinality(S) \in Nat
  BY AuthTransactionsConstants, FS_Subset, FS_CardinalityType
<1>2. f \in [1..Cardinality(S) -> S]
  BY DEF Orders
<1>3. f \in [1..Cardinality(S) -> Session]
  BY <1>2
<1> QED BY <1>1, <1>3

\* Every plan is a sequence of transactions, at least one.
LEMMA PlanType ==
    ASSUME live \subseteq Session,
           NEW op \in Operations, NEW s \in Arguments(op), NEW plan \in Plans(op, s)
    PROVE  plan \in Seq(Seq(StatementOf)) /\ Len(plan) \in Nat \ {0}
<1> DEFINE OK(p) == p \in Seq(Seq(StatementOf)) /\ Len(p) \in Nat \ {0}
<1>1. \A f \in {"user", "recovery"}, t \in Session : OK(LoginMfa(t, f))
  BY DEF LoginMfa, StatementOf, Lock
<1>2. OK(Login) /\ OK(LoginFailed) /\ OK(MfaEnroll) /\ OK(MfaConfirm) /\ OK(MfaDisable)
  BY DEF Login, LoginFailed, MfaEnroll, MfaConfirm, MfaDisable, StatementOf, Lock
<1>3. \A t \in Session : OK(Logout(t))
  BY DEF Logout, StatementOf, Lock
<1>4. \A t : \A p \in ChangePassword(t) : OK(p)
  <2> SUFFICES ASSUME NEW t, NEW p \in ChangePassword(t) PROVE OK(p)
    OBVIOUS
  <2>1. PICK others \in Orders(Session \ {t}) : p = << <<"user">> \o others \o <<"record">> >>
    BY DEF ChangePassword
  <2>2. others \in Seq(StatementOf)
    <3>1. others \in Seq(Session)
      BY OrdersAreSequences
    <3> QED BY <3>1 DEF StatementOf, Lock
  <2>3. <<"user">> \in Seq(StatementOf) /\ <<"record">> \in Seq(StatementOf)
    BY DEF StatementOf, Lock
  <2>4. <<"user">> \o others \o <<"record">> \in Seq(StatementOf)
    BY <2>2, <2>3
  <2> QED BY <2>1, <2>4
<1> HIDE DEF OK
<1>5. op = "login_mfa" \/ op = "logout" => s \in Session
  BY AuthTransactionsConstants DEF Arguments
<1>6. OK(plan)
  BY <1>1, <1>2, <1>3, <1>4, <1>5 DEF Plans, Operations
<1> QED BY <1>6 DEF OK

LEMMA RegisterPlanType == Register \in Seq(Seq(StatementOf)) /\ Len(Register) = 1
BY DEF Register, StatementOf, Lock

-----------------------------------------------------------------------------
(***************************************************************************)
(* Types.                                                                  *)
(***************************************************************************)
\* What TypeOK says of a handler.
HandlerOK(h) ==
    /\ h \in Handler \cup [op : {"none"}, answer : Answers]
    /\ h.op # "none" => /\ h.tx \in 1..Len(h.plan)
                        /\ h.stmt \in 1..Len(h.plan[h.tx]) + 1
                        /\ h.op = "register" => h.on \in Email

LEMMA TypeOKIs ==
    TypeOK <=> /\ allow_registration \in BOOLEAN
               /\ accounts \subseteq Email
               /\ live \subseteq Session
               /\ holder \in [Lock -> Connected \cup {Nobody}]
               /\ reqs \in [Request -> Handler \cup [op : {"none"}, answer : Answers]]
               /\ \A r \in Request : HandlerOK(reqs[r])
BY DEF TypeOK, HandlerOK, Running, Transaction

\* A handler in progress is one of Handler.
LEMMA RunningHandler ==
    ASSUME NEW h, HandlerOK(h)
    PROVE  h.op # "none" <=> h \in Handler
BY DEF HandlerOK, Handler, Operations

LEMMA DoneOK ==
    ASSUME NEW answer \in Answers
    PROVE  HandlerOK(Done(answer)) /\ Done(answer).op = "none"
BY DEF HandlerOK, Done

\* Where a handler is when it has a statement to run.
LEMMA AtStatement ==
    ASSUME TypeOK, NEW r \in Request, Statement(r) # "none"
    PROVE  /\ Running(r) /\ reqs[r].conn /\ HandlerOK(reqs[r]) /\ reqs[r] \in Handler
           /\ Transaction(r) \in Seq(StatementOf)
           /\ Statement(r) # "end" => reqs[r].stmt \in 1..Len(Transaction(r))
<1>1. Running(r) /\ reqs[r].conn /\ HandlerOK(reqs[r])
  BY TypeOKIs DEF Statement
<1>2. reqs[r] \in Handler
  BY <1>1, RunningHandler DEF Running
<1>3. /\ reqs[r].plan \in Seq(Seq(StatementOf))
      /\ reqs[r].tx \in 1..Len(reqs[r].plan) /\ reqs[r].stmt \in 1..Len(Transaction(r)) + 1
  BY <1>1, <1>2 DEF Handler, HandlerOK, Running, Transaction, StatementOf
<1>4. Transaction(r) \in Seq(StatementOf)
  BY <1>3 DEF Transaction
<1>5. Statement(r) # "end" => reqs[r].stmt \in 1..Len(Transaction(r))
  BY <1>1, <1>3, <1>4 DEF Statement
<1> QED BY <1>1, <1>2, <1>4, <1>5

\* The change of one handler.
LEMMA HandlerChange ==
    ASSUME TypeOK, NEW r \in Request, NEW h, HandlerOK(h), reqs' = [reqs EXCEPT ![r] = h]
    PROVE  /\ reqs' \in [Request -> Handler \cup [op : {"none"}, answer : Answers]]
           /\ \A q \in Request : HandlerOK(reqs'[q])
           /\ reqs'[r] = h /\ \A q \in Request \ {r} : reqs'[q] = reqs[q]
           /\ Connected \ {r} \subseteq Connected'
           /\ h.op # "none" /\ h.conn => Connected \subseteq Connected'
BY TypeOKIs DEF HandlerOK, Connected, Running

\* What a step has to leave behind.
LEMMA TypeEnd ==
    ASSUME allow_registration' \in BOOLEAN, accounts' \subseteq Email, live' \subseteq Session,
           holder' \in [Lock -> Connected' \cup {Nobody}],
           reqs' \in [Request -> Handler \cup [op : {"none"}, answer : Answers]],
           \A q \in Request : HandlerOK(reqs'[q])
    PROVE  TypeOK'
BY DEF TypeOK, HandlerOK, Running, Transaction

LEMMA LeaveType ==
    ASSUME TypeOK, NEW r \in Request, NEW answer \in Answers, Leave(r, answer)
    PROVE  TypeOK'
<1>1. /\ reqs' = [reqs EXCEPT ![r] = Done(answer)]
      /\ UNCHANGED <<allow_registration, accounts, live>>
      /\ holder' = [l \in Lock |-> IF holder[l] = r THEN Nobody ELSE holder[l]]
  BY DEF Leave, Release
<1>2. holder' \in [Lock -> Connected' \cup {Nobody}]
  BY <1>1, TypeOKIs, DoneOK, HandlerChange
<1> QED BY <1>1, <1>2, TypeOKIs, DoneOK, HandlerChange, TypeEnd

\* The two ways in which a handler goes on, as records.
LEMMA HandlerForward ==
    ASSUME NEW O, NEW A, NEW P,
           NEW g \in [op : O, on : A, plan : P, tx : Nat, stmt : Nat, conn : BOOLEAN],
           NEW n \in Nat
    PROVE  [g EXCEPT !.stmt = n] \in
              [op : O, on : A, plan : P, tx : Nat, stmt : Nat, conn : BOOLEAN]
OBVIOUS

LEMMA HandlerNext ==
    ASSUME NEW O, NEW A, NEW P,
           NEW g \in [op : O, on : A, plan : P, tx : Nat, stmt : Nat, conn : BOOLEAN],
           NEW n \in Nat
    PROVE  /\ [g EXCEPT !.tx = n, !.stmt = 1, !.conn = FALSE] \in
                 [op : O, on : A, plan : P, tx : Nat, stmt : Nat, conn : BOOLEAN]
           /\ [g EXCEPT !.tx = n, !.stmt = 1, !.conn = FALSE].op = g.op
<1> DEFINE T == [op : O, on : A, plan : P, tx : Nat, stmt : Nat, conn : BOOLEAN]
<1>1. [g EXCEPT !.tx = n] \in T /\ [g EXCEPT !.tx = n].op = g.op
  OBVIOUS
<1>2. \A f \in T : [f EXCEPT !.stmt = 1] \in T /\ [f EXCEPT !.stmt = 1].op = f.op
  OBVIOUS
<1>3. \A f \in T : [f EXCEPT !.conn = FALSE] \in T /\ [f EXCEPT !.conn = FALSE].op = f.op
  OBVIOUS
<1> QED BY <1>1, <1>2, <1>3

\* One statement further.
LEMMA ForwardType ==
    ASSUME TypeOK, NEW r \in Request, Statement(r) \notin {"none", "end"}, Forward(r)
    PROVE  /\ reqs' \in [Request -> Handler \cup [op : {"none"}, answer : Answers]]
           /\ \A q \in Request : HandlerOK(reqs'[q])
           /\ Connected \subseteq Connected' /\ r \in Connected'
           /\ reqs'[r] \in Handler
           /\ reqs'[r].op = reqs[r].op /\ reqs'[r].plan = reqs[r].plan
           /\ reqs'[r].tx = reqs[r].tx /\ reqs'[r].stmt = reqs[r].stmt + 1
           /\ reqs'[r].conn /\ reqs'[r].on = reqs[r].on
           /\ \A q \in Request \ {r} : reqs'[q] = reqs[q]
<1> DEFINE h == [reqs[r] EXCEPT !.stmt = reqs[r].stmt + 1]
<1>1. reqs' = [reqs EXCEPT ![r] = h]
  BY TypeOKIs DEF Forward
<1>2. /\ Running(r) /\ HandlerOK(reqs[r]) /\ Transaction(r) \in Seq(StatementOf)
      /\ reqs[r].stmt \in 1..Len(Transaction(r)) /\ reqs[r] \in Handler /\ reqs[r].conn
  BY AtStatement
<1>3. PICK g \in Handler : g = reqs[r]
  BY <1>2
<1>4. [g EXCEPT !.stmt = g.stmt + 1] \in Handler
  <2>1. g.stmt + 1 \in Nat
    BY DEF Handler
  <2> QED BY <2>1, HandlerForward DEF Handler
<1>5. /\ h \in Handler /\ h.op = g.op /\ h.plan = g.plan /\ h.tx = g.tx
      /\ h.stmt = g.stmt + 1 /\ h.conn = g.conn /\ h.on = g.on
  BY <1>3, <1>4 DEF Handler
<1> HIDE DEF h
<1>6. HandlerOK(h)
  <2>1. g.stmt + 1 \in 1..Len(g.plan[g.tx]) + 1
    BY <1>2, <1>3 DEF Transaction
  <2> QED BY <1>2, <1>3, <1>5, <2>1 DEF HandlerOK, Running
<1>7. h.op # "none" /\ h.conn
  BY <1>2, <1>3, <1>5 DEF Running
<1> QED BY <1>1, <1>2, <1>3, <1>5, <1>6, <1>7, HandlerChange DEF Connected, Running

\* A transaction commits.
LEMMA CommitType ==
    ASSUME TypeOK, NEW r \in Request, Commit(r)
    PROVE  TypeOK'
<1>1. /\ Running(r) /\ HandlerOK(reqs[r]) /\ reqs[r] \in Handler
      /\ reqs[r].plan \in Seq(Seq(StatementOf)) /\ reqs[r].tx \in 1..Len(reqs[r].plan)
  BY AtStatement DEF Commit, Handler, HandlerOK, Running, StatementOf
<1>2. PICK g \in Handler : g = reqs[r]
  BY <1>1
<1> DEFINE n == [g EXCEPT !.tx = g.tx + 1, !.stmt = 1, !.conn = FALSE]
           h == IF IsLast(r) THEN Done("ok") ELSE n
<1>3. reqs' = [reqs EXCEPT ![r] = h]
  BY <1>2 DEF Commit
<1>4. n \in Handler
  <2>1. g.tx + 1 \in Nat
    BY DEF Handler
  <2> QED BY <2>1, HandlerNext DEF Handler
<1>5. n.op = g.op /\ n.plan = g.plan /\ n.tx = g.tx + 1 /\ n.stmt = 1 /\ n.on = g.on
  BY DEF Handler
<1> HIDE DEF n
<1>6. HandlerOK(h)
  <2>1. CASE IsLast(r)
    BY <2>1, DoneOK DEF Answers
  <2>2. CASE ~IsLast(r)
    <3> DEFINE P == g.plan
    <3>0. P \in Seq(Seq(StatementOf)) /\ g.tx \in 1..Len(P) /\ g.tx # Len(P)
      BY <1>1, <1>2, <2>2 DEF IsLast
    <3>1. n.tx \in 1..Len(n.plan) /\ n.plan[n.tx] \in Seq(StatementOf)
      <4>1. n.plan = P /\ n.tx = g.tx + 1
        BY <1>5
      <4> HIDE DEF P
      <4>2. g.tx + 1 \in 1..Len(P)
        BY <3>0
      <4>3. P[g.tx + 1] \in Seq(StatementOf)
        BY <3>0, <4>2
      <4> QED BY <4>1, <4>2, <4>3
    <3>2. n.stmt \in 1..Len(n.plan[n.tx]) + 1
      BY <1>5, <3>1
    <3>3. n.op = "register" => n.on \in Email
      BY <1>1, <1>2, <1>5 DEF HandlerOK, Running
    <3> QED BY <1>4, <2>2, <3>1, <3>2, <3>3 DEF HandlerOK
  <2> QED BY <2>1, <2>2
<1> HIDE DEF h
<1>7. holder' \in [Lock -> Connected' \cup {Nobody}]
  <2>1. Connected \ {r} \subseteq Connected'
    BY <1>3, <1>6, HandlerChange
  <2>2. holder' = [l \in Lock |-> IF holder[l] = r THEN Nobody ELSE holder[l]]
    BY DEF Commit, Release
  <2> QED BY <2>1, <2>2, TypeOKIs
<1>8. accounts' \subseteq Email
  <2>1. reqs[r].op = "register" => reqs[r].on \in Email
    BY <1>1 DEF HandlerOK, Running
  <2> QED BY <2>1, TypeOKIs DEF Commit
<1>9. live' \subseteq Session /\ allow_registration' \in BOOLEAN
  BY TypeOKIs DEF Commit
<1> QED BY <1>3, <1>6, <1>7, <1>8, <1>9, HandlerChange, TypeEnd

\* A handler begins.
LEMMA BeginType ==
    ASSUME TypeOK, NEW r \in Request, NEW op \in Operations \cup {"register"},
           NEW argument \in Email \cup Session \cup {NoArgument},
           op = "register" => argument \in Email,
           NEW plan \in Seq(Seq(StatementOf)), Len(plan) \in Nat \ {0},
           Begin(r, op, argument, plan)
    PROVE  TypeOK'
<1> DEFINE h == [op |-> op, on |-> argument, plan |-> plan, tx |-> 1, stmt |-> 1, conn |-> FALSE]
<1>1. reqs' = [reqs EXCEPT ![r] = h] /\ ~Running(r)
  BY DEF Begin
<1>2. h \in Handler
  <2> DEFINE A == Email \cup Session \cup {NoArgument}
             P == Seq(Seq(StatementOf))
             O == Operations \cup {"register"}
  <2>1. op \in O /\ argument \in A /\ plan \in P
    OBVIOUS
  <2> HIDE DEF A, P, O
  <2>2. h \in [op : O, on : A, plan : P, tx : Nat, stmt : Nat, conn : BOOLEAN]
    BY <2>1
  <2> QED BY <2>2 DEF A, P, O, Handler, StatementOf
<1>3. plan[1] \in Seq(StatementOf) /\ 1 \in 1..Len(plan)
  OBVIOUS
<1>4. HandlerOK(h)
  BY <1>2, <1>3 DEF HandlerOK
<1>5. r \notin Connected
  BY <1>1 DEF Connected
<1> HIDE DEF h
<1>6. holder' \in [Lock -> Connected' \cup {Nobody}]
  <2>1. holder' = holder /\ holder \in [Lock -> Connected \cup {Nobody}]
    BY TypeOKIs DEF Begin
  <2>2. Connected \ {r} \subseteq Connected'
    BY <1>1, <1>4, HandlerChange
  <2> QED BY <1>5, <2>1, <2>2
<1> QED BY <1>1, <1>4, <1>6, TypeOKIs, HandlerChange, TypeEnd DEF Begin

LEMMA ConnectType ==
    ASSUME TypeOK, NEW r \in Request, Connect(r)
    PROVE  TypeOK'
<1> DEFINE h == [reqs[r] EXCEPT !.conn = TRUE]
<1>1. reqs' = [reqs EXCEPT ![r] = h]
  BY DEF Connect, MayConnect
<1>2. Running(r) /\ HandlerOK(reqs[r]) /\ reqs[r] \in Handler
  BY TypeOKIs, RunningHandler DEF Connect, MayConnect, Running
<1>3. PICK g \in Handler : g = reqs[r]
  BY <1>2
<1>4. /\ h \in Handler /\ h.op = g.op /\ h.plan = g.plan /\ h.tx = g.tx
      /\ h.stmt = g.stmt /\ h.on = g.on
  BY <1>3 DEF Handler
<1> HIDE DEF h
<1>5. HandlerOK(h)
  BY <1>2, <1>3, <1>4 DEF HandlerOK
<1>6. Connected \subseteq Connected'
  <2>1. r \notin Connected
    BY DEF Connect, MayConnect, Connected
  <2> QED BY <1>1, <1>5, <2>1, HandlerChange
<1> QED BY <1>1, <1>5, <1>6, TypeOKIs, HandlerChange, TypeEnd DEF Connect, MayConnect

\* Statements.
LEMMA StepType ==
    ASSUME TypeOK, NEW r \in Request, Step(r)
    PROVE  TypeOK'
<1> USE AuthTransactionsConstants
<1>1. ASSUME Forward(r), UNCHANGED <<allow_registration, accounts, live, holder>>,
             Statement(r) \notin {"none", "end"}
      PROVE  TypeOK'
  BY <1>1, ForwardType, TypeOKIs, TypeEnd
<1>2. CASE Acquire(r)
  <2>1. Statement(r) \notin {"none", "end"}
    BY <1>2, AtStatement DEF Acquire, MayAcquire, Lock
  <2>2. holder' \in [Lock -> Connected' \cup {Nobody}]
    BY <1>2, <2>1, ForwardType, TypeOKIs DEF Acquire, MayAcquire
  <2> QED BY <1>2, <2>1, <2>2, ForwardType, TypeOKIs, TypeEnd DEF Acquire, MayAcquire
<1>3. CASE Skip(r)
  <2>1. Statement(r) \notin {"none", "end"}
    BY <1>3 DEF Skip
  <2> QED BY <1>1, <1>3, <2>1 DEF Skip
<1>4. CASE Count(r)
  BY <1>1, <1>4, LeaveType DEF Count, Answers
<1>5. CASE Insert(r)
  BY <1>1, <1>5, LeaveType DEF Insert, Answers
<1>6. CASE Record(r)
  BY <1>1, <1>6, LeaveType DEF Record, MayRecord, Answers
<1> QED BY <1>2, <1>3, <1>4, <1>5, <1>6, CommitType DEF Step

LEMMA TypeStep ==
    ASSUME TypeOK, [Next]_vars
    PROVE  TypeOK'
<1>1. CASE UNCHANGED vars
  <2>1. Connected' = Connected
    BY <1>1 DEF vars, Connected, Running
  <2> QED BY <1>1, <2>1, TypeOKIs, TypeEnd DEF vars
<1>2. ASSUME NEW r \in Request, NEW e \in Email, Begin(r, "register", e, Register)
      PROVE  TypeOK'
  <2>1. /\ "register" \in Operations \cup {"register"}
        /\ e \in Email \cup Session \cup {NoArgument}
        /\ Register \in Seq(Seq(StatementOf)) /\ Len(Register) \in Nat \ {0}
    BY <1>2, RegisterPlanType
  <2> QED BY <1>2, <2>1, BeginType
<1>3. ASSUME NEW r \in Request, NEW op \in Operations, NEW argument \in Arguments(op),
             NEW plan \in Plans(op, argument), Begin(r, op, argument, plan)
      PROVE  TypeOK'
  <2>1. live \subseteq Session
    BY TypeOKIs
  <2>2. argument \in Session \cup {NoArgument}
    BY <2>1, AuthTransactionsConstants DEF Arguments, Operations
  <2>3. plan \in Seq(Seq(StatementOf)) /\ Len(plan) \in Nat \ {0}
    BY <2>1, PlanType
  <2> QED BY <1>3, <2>2, <2>3, BeginType DEF Operations
<1>4. ASSUME NEW r \in Request, Victim(r) \/ Drop(r)
      PROVE  TypeOK'
  BY <1>4, LeaveType DEF Victim, Drop, Answers
<1> QED BY <1>1, <1>2, <1>3, <1>4, ConnectType, StepType DEF Next

\* Every variable keeps its type; in particular only a transaction that has a
\* connection ever holds a lock.
THEOREM AuthTransactionsTypeOK == Spec => []TypeOK
<1>1. Init => TypeOK
  <2> SUFFICES ASSUME Init PROVE TypeOK
    OBVIOUS
  <2>1. /\ reqs \in [Request -> Handler \cup [op : {"none"}, answer : Answers]]
        /\ \A r \in Request : HandlerOK(reqs[r])
    BY DoneOK DEF Init, Answers, HandlerOK, Done
  <2> QED BY <2>1, TypeOKIs DEF Init
<1>2. TypeOK /\ [Next]_vars => TypeOK'
  BY TypeStep
<1> QED BY <1>1, <1>2, PTL DEF Spec

-----------------------------------------------------------------------------
(***************************************************************************)
(* The first account.  RegisterOK is what RegistrationInv says of a        *)
(* handler h, given who holds the advisory lock and whether registration   *)
(* is open.                                                                *)
(***************************************************************************)
RegisterOK(r, h, lock, open) ==
    h.op = "register"
    => /\ h.plan = Register /\ h.tx = 1
       /\ h.stmt > 1 => h.conn /\ lock = r
       /\ h.stmt > 2 => open

LEMMA RegistrationIs ==
    RegistrationInv <=> /\ FirstAccountOnly
                        /\ \A r \in Request : RegisterOK(r, reqs[r], holder["registration"], Open)
BY DEF RegistrationInv, RegisterOK, Running

LEMMA RegistrationEnd ==
    ASSUME FirstAccountOnly',
           \A r \in Request :
              RegisterOK(r, reqs'[r], holder'["registration"],
                         allow_registration' \/ accounts' = {})
    PROVE  RegistrationInv'
BY DEF RegistrationInv, RegisterOK, Running, Open

\* A handler that is no registration has nothing to fulfil.
LEMMA DoneRegister ==
    ASSUME NEW r, NEW answer, NEW lock, NEW open
    PROVE  RegisterOK(r, Done(answer), lock, open)
BY DEF RegisterOK, Done

\* A transaction that ends releases no lock of another one.
LEMMA Released ==
    ASSUME NEW r, Release(r), holder["registration"] # r
    PROVE  holder'["registration"] = holder["registration"]
BY DEF Release, Lock

LEMMA LeaveRegistration ==
    ASSUME TypeOK, RegistrationInv, NEW r \in Request, NEW answer \in Answers,
           answer \in {"closed", "conflict"} => accounts # {}, Leave(r, answer)
    PROVE  RegistrationInv'
<1>1. /\ reqs' = [reqs EXCEPT ![r] = Done(answer)] /\ Release(r)
      /\ UNCHANGED <<allow_registration, accounts, live>>
  BY DEF Leave
<1>2. reqs'[r] = Done(answer) /\ \A q \in Request \ {r} : reqs'[q] = reqs[q]
  BY <1>1, DoneOK, HandlerChange
<1>3. FirstAccountOnly'
  BY <1>1, <1>2, RegistrationIs DEF FirstAccountOnly, Running, Done
<1>4. ASSUME NEW q \in Request
      PROVE  RegisterOK(q, reqs'[q], holder'["registration"], Open)
  <2>1. CASE q = r
    BY <1>2, <2>1, DoneRegister
  <2>2. CASE q # r
    <3>1. RegisterOK(q, reqs[q], holder["registration"], Open) /\ reqs'[q] = reqs[q]
      BY <1>2, <2>2, RegistrationIs
    <3>2. holder["registration"] = q => holder'["registration"] = q
      BY <1>1, <2>2, Released
    <3> QED BY <3>1, <3>2 DEF RegisterOK
  <2> QED BY <2>1, <2>2
<1> QED BY <1>1, <1>3, <1>4, RegistrationEnd DEF Open

\* The commit of a registration: its account is the first, or registration is open.
LEMMA CommitRegistration ==
    ASSUME TypeOK, RegistrationInv, NEW r \in Request, Commit(r)
    PROVE  RegistrationInv'
<1>1. /\ Release(r) /\ UNCHANGED allow_registration
      /\ Running(r) /\ HandlerOK(reqs[r]) /\ reqs[r] \in Handler
  BY AtStatement DEF Commit
<1>2. RegisterOK(r, reqs[r], holder["registration"], Open) /\ FirstAccountOnly
  BY RegistrationIs
<1>3. CASE reqs[r].op = "register"
  <2>1. reqs[r].plan = Register /\ reqs[r].tx = 1
    BY <1>2, <1>3 DEF RegisterOK
  <2>2. reqs[r].stmt > 4
    <3>1. Transaction(r) = <<"registration", "count", "insert", "record">>
      BY <2>1 DEF Transaction, Register
    <3>2. reqs[r].stmt \in 1..5
      BY <1>1, <3>1 DEF HandlerOK, Running, Transaction
    <3>3. reqs[r].stmt > Len(Transaction(r)) \/ Transaction(r)[reqs[r].stmt] = "end"
      BY DEF Commit, Statement
    <3>4. \A i \in 1..4 : <<"registration", "count", "insert", "record">>[i] # "end"
      OBVIOUS
    <3> QED BY <3>1, <3>2, <3>3, <3>4
  <2>3. Open /\ holder["registration"] = r
    BY <1>1, <1>2, <1>3, <2>2 DEF RegisterOK, Handler
  <2>4. reqs' = [reqs EXCEPT ![r] = Done("ok")] /\ accounts' = accounts \cup {reqs[r].on}
    BY <1>3, <2>1, RegisterPlanType DEF Commit, IsLast
  <2>5. reqs'[r] = Done("ok") /\ \A q \in Request \ {r} : reqs'[q] = reqs[q]
    BY <2>4, DoneOK, HandlerChange DEF Answers
  <2>6. FirstAccountOnly'
    BY <1>1, <1>2, <2>3, <2>4, <2>5 DEF FirstAccountOnly, Open, Running, Done
  <2>7. ASSUME NEW q \in Request
        PROVE  RegisterOK(q, reqs'[q], holder'["registration"],
                          allow_registration' \/ accounts' = {})
    <3>1. CASE q = r
      BY <2>5, <3>1, DoneRegister
    <3>2. CASE q # r
      <4>1. RegisterOK(q, reqs[q], r, Open) /\ reqs'[q] = reqs[q]
        BY <2>3, <2>5, <3>2, RegistrationIs
      <4>2. reqs[q].op = "register" => reqs[q].stmt \in Nat
        BY TypeOKIs, RunningHandler DEF Handler
      <4> QED BY <3>2, <4>1, <4>2 DEF RegisterOK
    <3> QED BY <3>1, <3>2
  <2> QED BY <2>6, <2>7, RegistrationEnd
<1>4. CASE reqs[r].op # "register"
  <2>1. accounts' = accounts
    BY <1>4 DEF Commit
  <2>2. PICK h : /\ reqs' = [reqs EXCEPT ![r] = h]
                 /\ h = Done("ok") \/ h = [reqs[r] EXCEPT !.tx = reqs[r].tx + 1, !.stmt = 1, !.conn = FALSE]
    BY DEF Commit
  <2>3. h.op # "register" /\ (h.op = "none" => h = Done("ok"))
    <3>1. PICK g \in Handler : g = reqs[r]
      BY <1>1
    <3>2. PICK n \in Nat : n = g.tx + 1
      BY DEF Handler
    <3>3. [g EXCEPT !.tx = n, !.stmt = 1, !.conn = FALSE].op = g.op
      BY HandlerNext DEF Handler
    <3>4. CASE h = Done("ok")
      BY <3>4 DEF Done
    <3>5. CASE h = [g EXCEPT !.tx = n, !.stmt = 1, !.conn = FALSE]
      <4>1. h.op = g.op
        BY <3>3, <3>5
      <4> QED BY <1>1, <1>4, <3>1, <4>1 DEF Running
    <3> QED BY <2>2, <3>1, <3>2, <3>4, <3>5
  <2>4. reqs'[r] = h /\ \A q \in Request \ {r} : reqs'[q] = reqs[q]
    BY <2>2, TypeOKIs
  <2>5. FirstAccountOnly'
    BY <1>1, <1>2, <2>1, <2>3, <2>4 DEF FirstAccountOnly, Running, Done
  <2>6. ASSUME NEW q \in Request
        PROVE  RegisterOK(q, reqs'[q], holder'["registration"], Open)
    <3>1. CASE q = r
      BY <2>3, <2>4, <3>1 DEF RegisterOK
    <3>2. CASE q # r
      <4>1. RegisterOK(q, reqs[q], holder["registration"], Open) /\ reqs'[q] = reqs[q]
        BY <2>4, <3>2, RegistrationIs
      <4>2. holder["registration"] = q => holder'["registration"] = q
        BY <1>1, <3>2, Released
      <4> QED BY <4>1, <4>2 DEF RegisterOK
    <3> QED BY <3>1, <3>2
  <2> QED BY <1>1, <2>1, <2>5, <2>6, RegistrationEnd DEF Open
<1> QED BY <1>3, <1>4

\* A statement before the commit: what is asked of the handler afterwards.
LEMMA ForwardRegistration ==
    ASSUME TypeOK, RegistrationInv, NEW r \in Request,
           Statement(r) \notin {"none", "end"}, Forward(r),
           UNCHANGED <<allow_registration, accounts>>,
           \A q \in Request \ {r} : holder["registration"] = q => holder'["registration"] = q,
           reqs[r].op = "register" => holder'["registration"] = r,
           reqs[r].op = "register" /\ reqs[r].stmt > 1 => Open
    PROVE  RegistrationInv'
<1>1. /\ reqs'[r].op = reqs[r].op /\ reqs'[r].plan = reqs[r].plan
      /\ reqs'[r].tx = reqs[r].tx /\ reqs'[r].stmt = reqs[r].stmt + 1
      /\ reqs'[r].conn /\ reqs[r].op # "none"
      /\ \A q \in Request \ {r} : reqs'[q] = reqs[q]
      /\ reqs[r].stmt \in Nat
  BY ForwardType, AtStatement DEF Running, Handler
<1>2. FirstAccountOnly'
  BY <1>1, RegistrationIs DEF FirstAccountOnly, Running
<1>3. ASSUME NEW q \in Request
      PROVE  RegisterOK(q, reqs'[q], holder'["registration"], Open)
  <2>1. RegisterOK(q, reqs[q], holder["registration"], Open)
    BY RegistrationIs
  <2>2. CASE q = r
    BY <1>1, <2>1, <2>2 DEF RegisterOK
  <2>3. CASE q # r
    BY <1>1, <2>1, <2>3 DEF RegisterOK
  <2> QED BY <2>2, <2>3
<1> QED BY <1>2, <1>3, RegistrationEnd DEF Open

\* Where a registration is, by its statement.
LEMMA RegistrationStatement ==
    ASSUME TypeOK, RegistrationInv, NEW r \in Request, Statement(r) \notin {"none", "end"},
           reqs[r].op = "register"
    PROVE  /\ reqs[r].stmt \in 1..4
           /\ Statement(r) = <<"registration", "count", "insert", "record">>[reqs[r].stmt]
           /\ reqs[r].stmt > 1 => holder["registration"] = r
           /\ reqs[r].stmt > 2 => Open
<1>1. /\ Transaction(r) = <<"registration", "count", "insert", "record">>
      /\ reqs[r].stmt > 1 => holder["registration"] = r
      /\ reqs[r].stmt > 2 => Open
  BY RegistrationIs DEF RegisterOK, Transaction, Register
<1>2. reqs[r].stmt \in 1..4
  BY <1>1, AtStatement
<1>3. Statement(r) = Transaction(r)[reqs[r].stmt]
  BY <1>1, <1>2, AtStatement DEF Statement
<1> QED BY <1>1, <1>2, <1>3

LEMMA StepRegistration ==
    ASSUME TypeOK, RegistrationInv, NEW r \in Request, Step(r)
    PROVE  RegistrationInv'
<1> USE AuthTransactionsConstants
<1>1. CASE Acquire(r)
  <2>1. Statement(r) \notin {"none", "end"} /\ Statement(r) \in Lock /\ Forward(r)
    BY <1>1 DEF Acquire, MayAcquire, Lock
  <2>2. /\ UNCHANGED <<allow_registration, accounts>>
        /\ holder[Statement(r)] \in {Nobody, r}
        /\ holder' = [holder EXCEPT ![Statement(r)] = r]
        /\ holder \in [Lock -> Connected \cup {Nobody}]
    BY <1>1, TypeOKIs DEF Acquire, MayAcquire
  <2>3. \A q \in Request \ {r} : holder["registration"] = q => holder'["registration"] = q
    BY <2>2
  <2>4. ASSUME reqs[r].op = "register"
        PROVE  reqs[r].stmt = 1 /\ Statement(r) = "registration"
    BY <2>1, <2>4, RegistrationStatement DEF Lock
  <2>5. reqs[r].op = "register" => holder'["registration"] = r
    BY <2>2, <2>4 DEF Lock
  <2> QED BY <2>1, <2>2, <2>3, <2>4, <2>5, ForwardRegistration
<1>2. CASE Skip(r)
  <2>1. Statement(r) \notin {"none", "end"} /\ reqs[r].op # "register"
    BY <1>2 DEF Skip
  <2> QED BY <1>2, <2>1, ForwardRegistration DEF Skip
<1>3. CASE Count(r) \/ Insert(r) \/ Record(r)
  <2>1. Statement(r) \in {"count", "insert", "record"}
    BY <1>3 DEF Count, Insert, Record, MayRecord
  <2>2. reqs[r].op = "register" => holder["registration"] = r /\ reqs[r].stmt > 1
    BY <2>1, RegistrationStatement
  <2>3. ASSUME Forward(r), UNCHANGED <<allow_registration, accounts, live, holder>>,
               Statement(r) = "count" => Open
        PROVE  RegistrationInv'
    <3>1. reqs[r].op = "register" => Open
      BY <2>1, <2>3, RegistrationStatement
    <3> QED BY <2>1, <2>2, <2>3, <3>1, ForwardRegistration
  <2>4. CASE Count(r)
    BY <2>3, <2>4, LeaveRegistration DEF Count, Open, Answers
  <2>5. CASE Insert(r)
    BY <2>3, <2>5, LeaveRegistration DEF Insert, Answers
  <2>6. CASE Record(r)
    BY <2>3, <2>6, LeaveRegistration DEF Record, MayRecord, Answers
  <2> QED BY <1>3, <2>4, <2>5, <2>6
<1> QED BY <1>1, <1>2, <1>3, CommitRegistration DEF Step

LEMMA RegistrationStep ==
    ASSUME TypeOK, RegistrationInv, [Next]_vars
    PROVE  RegistrationInv'
<1>1. CASE UNCHANGED vars
  BY <1>1 DEF vars, RegistrationInv, FirstAccountOnly, Running, Open
<1>2. ASSUME NEW r \in Request, NEW op, NEW argument, NEW plan, Begin(r, op, argument, plan),
             op # "none", op = "register" => plan = Register
      PROVE  RegistrationInv'
  <2> DEFINE h == [op |-> op, on |-> argument, plan |-> plan, tx |-> 1, stmt |-> 1, conn |-> FALSE]
  <2>1. /\ reqs'[r] = h /\ \A q \in Request \ {r} : reqs'[q] = reqs[q]
        /\ UNCHANGED <<allow_registration, accounts, live, holder>>
    BY <1>2, TypeOKIs DEF Begin
  <2>2. h.op = op /\ h.plan = plan /\ h.tx = 1 /\ h.stmt = 1
    OBVIOUS
  <2> HIDE DEF h
  <2>3. FirstAccountOnly'
    BY <1>2, <2>1, <2>2, RegistrationIs DEF FirstAccountOnly, Running
  <2>4. \A q \in Request : RegisterOK(q, reqs'[q], holder["registration"], Open)
    BY <1>2, <2>1, <2>2, RegistrationIs DEF RegisterOK
  <2> QED BY <2>1, <2>3, <2>4, RegistrationEnd DEF Open
<1>3. ASSUME NEW r \in Request, Connect(r)
      PROVE  RegistrationInv'
  <2>1. /\ reqs' = [reqs EXCEPT ![r].conn = TRUE]
        /\ UNCHANGED <<allow_registration, accounts, live, holder>>
        /\ Running(r) /\ ~reqs[r].conn /\ reqs[r] \in Handler
    BY <1>3, TypeOKIs, RunningHandler DEF Connect, MayConnect, Running
  <2>2. /\ reqs'[r].op = reqs[r].op /\ reqs'[r].plan = reqs[r].plan
        /\ reqs'[r].tx = reqs[r].tx /\ reqs'[r].stmt = reqs[r].stmt
        /\ reqs'[r].conn
        /\ \A q \in Request \ {r} : reqs'[q] = reqs[q]
    BY <2>1, TypeOKIs DEF Handler
  <2>3. FirstAccountOnly'
    BY <2>1, <2>2, RegistrationIs DEF FirstAccountOnly, Running
  <2>4. \A q \in Request : RegisterOK(q, reqs'[q], holder["registration"], Open)
    BY <2>2, RegistrationIs DEF RegisterOK
  <2> QED BY <2>1, <2>3, <2>4, RegistrationEnd DEF Open
<1>4. ASSUME NEW r \in Request, Victim(r) \/ Drop(r)
      PROVE  RegistrationInv'
  BY <1>4, LeaveRegistration DEF Victim, Drop, Answers
<1> QED BY <1>1, <1>2, <1>3, <1>4, StepRegistration DEF Next, Operations

\* The inductive invariant of `register`: whoever counts the accounts holds the
\* advisory lock, and what it counted stays true until its transaction ends.
THEOREM RegistrationInvariant == Spec => []RegistrationInv
<1>1. Init => RegistrationInv
  BY DEF Init, RegistrationInv, FirstAccountOnly, Running, Done
<1>2. TypeOK /\ RegistrationInv /\ [Next]_vars => RegistrationInv'
  BY RegistrationStep
<1> QED BY <1>1, <1>2, AuthTransactionsTypeOK, PTL DEF Spec

\* While registration is closed there is never a second account, however many
\* ask for the first one at the same time.
THEOREM OnlyTheFirstAccount == Spec => []FirstAccountOnly
<1>1. RegistrationInv => FirstAccountOnly
  BY DEF RegistrationInv
<1> QED BY <1>1, RegistrationInvariant, PTL

-----------------------------------------------------------------------------
(***************************************************************************)
(* Deadlocks.  LockOK is what LockInv says of the handler h of request r,  *)
(* given who holds which lock.                                             *)
(***************************************************************************)
PlanOK(h) ==
    /\ h.plan \in IF h.op = "register" THEN {Register} ELSE Plans(h.op, h.on)
    /\ h.op = "login_mfa" => h.on \in Session

LockOK(r, h, H) ==
    /\ h.op # "none" => PlanOK(h)
    /\ \A l \in Lock : H[l] = r => \E i \in 1..(h.stmt - 1) : h.plan[h.tx][i] = l

LEMMA LockInvIs == LockInv <=> \A r \in Request : LockOK(r, reqs[r], holder)
BY DEF LockInv, LockOK, PlanOK, Running, Transaction

\* A step of r gives no lock to another handler.
LEMMA LockEnd ==
    ASSUME LockInv, NEW r \in Request,
           \A q \in Request \ {r} : reqs'[q] = reqs[q],
           \A q \in Request \ {r}, l \in Lock : holder'[l] = q => holder[l] = q,
           LockOK(r, reqs'[r], holder')
    PROVE  LockInv'
<1>1. ASSUME NEW q \in Request \ {r} PROVE LockOK(q, reqs'[q], holder')
  BY LockInvIs DEF LockOK
<1>2. \A q \in Request : LockOK(q, reqs'[q], holder')
  BY <1>1
<1> QED BY <1>2 DEF LockInv, LockOK, PlanOK, Running, Transaction

\* Whoever is not connected holds nothing.
LEMMA UnconnectedHoldsNothing ==
    ASSUME TypeOK, NEW r \in Request, ~(Running(r) /\ reqs[r].conn), NEW l \in Lock
    PROVE  holder[l] # r
BY TypeOKIs, AuthTransactionsConstants DEF Connected

\* At the end of a transaction its locks are free.
LEMMA ReleasesLocks ==
    ASSUME NEW r \in Request, Release(r)
    PROVE  \A q \in Request, l \in Lock : holder'[l] = q => holder[l] = q /\ q # r
BY AuthTransactionsConstants DEF Release

LEMMA LeaveLock ==
    ASSUME TypeOK, LockInv, NEW r \in Request, NEW answer \in Answers, Leave(r, answer)
    PROVE  LockInv'
<1>1. reqs' = [reqs EXCEPT ![r] = Done(answer)] /\ Release(r)
  BY DEF Leave
<1>2. reqs'[r] = Done(answer) /\ \A q \in Request \ {r} : reqs'[q] = reqs[q]
  BY <1>1, DoneOK, HandlerChange
<1>3. LockOK(r, reqs'[r], holder')
  BY <1>1, <1>2, ReleasesLocks, DoneOK DEF LockOK
<1> QED BY <1>1, <1>2, <1>3, ReleasesLocks, LockEnd

\* The handler after the commit has its plan still, or is none any more.
LEMMA CommitLock ==
    ASSUME TypeOK, LockInv, NEW r \in Request, Commit(r)
    PROVE  LockInv'
<1>1. Running(r) /\ reqs[r] \in Handler /\ Release(r)
  BY AtStatement DEF Commit
<1>2. PICK g \in Handler : g = reqs[r]
  BY <1>1
<1> DEFINE n == [g EXCEPT !.tx = g.tx + 1, !.stmt = 1, !.conn = FALSE]
           h == IF IsLast(r) THEN Done("ok") ELSE n
<1>3. reqs' = [reqs EXCEPT ![r] = h]
  BY <1>2 DEF Commit
<1>4. n.op = g.op /\ n.plan = g.plan /\ n.on = g.on
  BY DEF Handler
<1> HIDE DEF n
<1>5. h.op # "none" => PlanOK(h)
  <2>1. LockOK(r, g, holder)
    BY <1>2, LockInvIs
  <2>2. CASE IsLast(r)
    BY <2>2 DEF Done
  <2>3. CASE ~IsLast(r)
    BY <1>1, <1>2, <1>4, <2>1, <2>3 DEF LockOK, PlanOK, Running
  <2> QED BY <2>2, <2>3
<1> HIDE DEF h
<1>6. reqs'[r] = h /\ \A q \in Request \ {r} : reqs'[q] = reqs[q]
  BY <1>3, TypeOKIs
<1>7. LockOK(r, h, holder')
  BY <1>1, <1>5, ReleasesLocks DEF LockOK
<1> QED BY <1>1, <1>6, <1>7, ReleasesLocks, LockEnd

\* One statement further: what r holds now it held before, or has just locked.
LEMMA ForwardLock ==
    ASSUME TypeOK, LockInv, NEW r \in Request, Statement(r) \notin {"none", "end"}, Forward(r),
           \A q \in Request, l \in Lock :
              holder'[l] = q => holder[l] = q \/ (q = r /\ l = Statement(r))
    PROVE  LockInv'
<1>1. /\ reqs'[r].op = reqs[r].op /\ reqs'[r].plan = reqs[r].plan /\ reqs'[r].on = reqs[r].on
      /\ reqs'[r].tx = reqs[r].tx /\ reqs'[r].stmt = reqs[r].stmt + 1
      /\ \A q \in Request \ {r} : reqs'[q] = reqs[q]
  BY ForwardType
<1>2. reqs[r].stmt \in Nat \ {0} /\ Statement(r) = reqs[r].plan[reqs[r].tx][reqs[r].stmt]
  <2>1. reqs[r].stmt \in 1..Len(Transaction(r)) /\ Transaction(r) \in Seq(StatementOf)
    BY AtStatement
  <2> QED BY <2>1 DEF Statement, Transaction
<1>3. LockOK(r, reqs[r], holder)
  BY LockInvIs
<1>4. reqs'[r].op # "none" => PlanOK(reqs'[r])
  BY <1>1, <1>3 DEF LockOK, PlanOK
<1>5. ASSUME NEW l \in Lock, holder'[l] = r
      PROVE  \E i \in 1..(reqs'[r].stmt - 1) : reqs'[r].plan[reqs'[r].tx][i] = l
  <2>1. CASE holder[l] = r
    <3>1. PICK i \in 1..(reqs[r].stmt - 1) : reqs[r].plan[reqs[r].tx][i] = l
      BY <1>3, <2>1 DEF LockOK
    <3>2. i \in 1..(reqs'[r].stmt - 1)
      BY <1>1, <1>2
    <3> QED BY <1>1, <3>1, <3>2
  <2>2. CASE l = Statement(r)
    <3>1. reqs[r].stmt \in 1..(reqs'[r].stmt - 1)
      BY <1>1, <1>2
    <3> QED BY <1>1, <1>2, <2>2, <3>1
  <2> QED BY <1>5, <2>1, <2>2
<1>6. LockOK(r, reqs'[r], holder')
  BY <1>4, <1>5 DEF LockOK
<1> QED BY <1>1, <1>6, LockEnd

LEMMA StepLock ==
    ASSUME TypeOK, LockInv, NEW r \in Request, Step(r)
    PROVE  LockInv'
<1> USE AuthTransactionsConstants
<1>1. ASSUME Forward(r), holder' = holder, Statement(r) \notin {"none", "end"}
      PROVE  LockInv'
  BY <1>1, ForwardLock
<1>2. CASE Acquire(r)
  <2>1. Statement(r) \in Lock /\ Statement(r) \notin {"none", "end"} /\ Forward(r)
    BY <1>2 DEF Acquire, MayAcquire, Lock
  <2>2. \A q \in Request, l \in Lock :
           holder'[l] = q => holder[l] = q \/ (q = r /\ l = Statement(r))
    BY <1>2, TypeOKIs DEF Acquire, MayAcquire
  <2> QED BY <2>1, <2>2, ForwardLock
<1>3. CASE Skip(r)
  <2>1. Statement(r) \notin {"none", "end"}
    BY <1>3 DEF Skip
  <2> QED BY <1>1, <1>3, <2>1 DEF Skip
<1>4. CASE Count(r)
  BY <1>1, <1>4, LeaveLock DEF Count, Answers
<1>5. CASE Insert(r)
  BY <1>1, <1>5, LeaveLock DEF Insert, Answers
<1>6. CASE Record(r)
  BY <1>1, <1>6, LeaveLock DEF Record, MayRecord, Answers
<1> QED BY <1>2, <1>3, <1>4, <1>5, <1>6, CommitLock DEF Step

LEMMA LockStep ==
    ASSUME TypeOK, LockInv, [Next]_vars
    PROVE  LockInv'
<1>1. CASE UNCHANGED vars
  BY <1>1 DEF vars, LockInv, Running, Transaction
<1>2. ASSUME NEW r \in Request, NEW op, NEW argument, NEW plan, Begin(r, op, argument, plan),
             plan \in IF op = "register" THEN {Register} ELSE Plans(op, argument),
             op = "login_mfa" => argument \in Session
      PROVE  LockInv'
  <2> DEFINE h == [op |-> op, on |-> argument, plan |-> plan, tx |-> 1, stmt |-> 1, conn |-> FALSE]
  <2>1. /\ reqs'[r] = h /\ \A q \in Request \ {r} : reqs'[q] = reqs[q]
        /\ holder' = holder /\ ~Running(r)
    BY <1>2, TypeOKIs DEF Begin
  <2>2. PlanOK(h)
    BY <1>2 DEF PlanOK
  <2> HIDE DEF h
  <2>3. LockOK(r, reqs'[r], holder')
    BY <2>1, <2>2, UnconnectedHoldsNothing DEF LockOK
  <2> QED BY <2>1, <2>3, LockEnd
<1>3. ASSUME NEW r \in Request, Connect(r)
      PROVE  LockInv'
  <2>1. /\ reqs' = [reqs EXCEPT ![r].conn = TRUE] /\ holder' = holder
        /\ Running(r) /\ ~reqs[r].conn /\ reqs[r] \in Handler
    BY <1>3, TypeOKIs, RunningHandler DEF Connect, MayConnect, Running
  <2>2. /\ reqs'[r].op = reqs[r].op /\ reqs'[r].plan = reqs[r].plan /\ reqs'[r].on = reqs[r].on
        /\ \A q \in Request \ {r} : reqs'[q] = reqs[q]
    BY <2>1, TypeOKIs DEF Handler
  <2>3. LockOK(r, reqs[r], holder)
    BY LockInvIs
  <2>4. LockOK(r, reqs'[r], holder')
    BY <2>1, <2>2, <2>3, UnconnectedHoldsNothing DEF LockOK, PlanOK
  <2> QED BY <2>1, <2>2, <2>4, LockEnd
<1>4. ASSUME NEW r \in Request, Victim(r) \/ Drop(r)
      PROVE  LockInv'
  BY <1>4, LeaveLock DEF Victim, Drop, Answers
<1>5. ASSUME NEW r \in Request, NEW e \in Email, Begin(r, "register", e, Register)
      PROVE  LockInv'
  BY <1>2, <1>5
<1>6. ASSUME NEW r \in Request, NEW op \in Operations, NEW argument \in Arguments(op),
             NEW plan \in Plans(op, argument), Begin(r, op, argument, plan)
      PROVE  LockInv'
  <2>1. op # "register" /\ (op = "login_mfa" => argument \in Session)
    BY <1>6, AuthTransactionsConstants DEF Operations, Arguments
  <2> QED BY <1>2, <1>6, <2>1
<1> QED BY <1>1, <1>3, <1>4, <1>5, <1>6, StepLock DEF Next

\* A handler holds what earlier statements of its transaction locked, and which
\* those are follows from its operation.
THEOREM LocksFollowThePlan == Spec => []LockInv
<1>1. Init => LockInv
  <2> SUFFICES ASSUME Init PROVE LockInv
    OBVIOUS
  <2>1. \A r \in Request : LockOK(r, reqs[r], holder)
    BY AuthTransactionsConstants DEF Init, LockOK, Done
  <2> QED BY <2>1, LockInvIs
<1>2. TypeOK /\ LockInv /\ [Next]_vars => LockInv'
  BY LockStep
<1> QED BY <1>1, <1>2, AuthTransactionsTypeOK, PTL DEF Spec

-----------------------------------------------------------------------------
\* The transactions of a plan that is no password change.
ShortTransactions(h) ==
    {<<"registration", "count", "insert", "record">>, <<"user", "record">>, <<"user">>,
     <<"record">>, <<h.on>>, <<"user", "recovery", "record">>}

MfaTransactions(h) == {<<"user">>, <<"recovery">>, <<h.on, "user", "record">>}

LEMMA TransactionOf ==
    ASSUME NEW h \in Handler, HandlerOK(h), PlanOK(h), h.op # "change_password"
    PROVE  h.plan[h.tx] \in IF h.op = "login_mfa" THEN MfaTransactions(h) ELSE ShortTransactions(h)
<1>1. h.op # "none" /\ h.op \in Operations \cup {"register"} /\ h.tx \in 1..Len(h.plan)
  BY DEF Handler, HandlerOK, Operations
<1>2. CASE h.op = "register"
  BY <1>1, <1>2 DEF PlanOK, Register, ShortTransactions
<1>3. CASE h.op = "login_mfa"
  <2>1. h.plan = LoginMfa(h.on, "user") \/ h.plan = LoginMfa(h.on, "recovery")
    BY <1>3 DEF PlanOK, Plans
  <2> QED BY <1>1, <1>3, <2>1 DEF LoginMfa, MfaTransactions
<1>4. CASE h.op \in {"login", "login_failed", "logout"}
  <2>1. h.plan \in {Login, LoginFailed, Logout(h.on)}
    BY <1>4 DEF PlanOK, Plans
  <2> QED BY <1>1, <1>4, <2>1 DEF Login, LoginFailed, Logout, ShortTransactions
<1>5. CASE h.op \in {"mfa_enroll", "mfa_confirm", "mfa_disable"}
  <2>1. h.plan \in {MfaEnroll, MfaConfirm, MfaDisable}
    BY <1>5 DEF PlanOK, Plans
  <2> QED BY <1>1, <1>5, <2>1 DEF MfaEnroll, MfaConfirm, MfaDisable, ShortTransactions
<1> QED BY <1>1, <1>2, <1>3, <1>4, <1>5 DEF Operations

\* A second lock of one transaction is that of the recovery codes, except in a
\* password change and a second step of a login.
LEMMA SecondLock ==
    ASSUME NEW h \in Handler, HandlerOK(h), PlanOK(h),
           h.op \notin {"change_password", "login_mfa"},
           NEW i \in 1..(h.stmt - 1), h.plan[h.tx][i] \in Lock,
           h.stmt \in 1..Len(h.plan[h.tx]), h.plan[h.tx][h.stmt] \in Lock
    PROVE  h.plan[h.tx][h.stmt] = "recovery"
<1>1. PICK t \in ShortTransactions(h) : t = h.plan[h.tx]
  BY TransactionOf
<1>2. {"count", "insert", "record"} \cap Lock = {}
  BY AuthTransactionsConstants DEF Lock
<1>3. i \in 1..Len(t) /\ h.stmt \in 1..Len(t) /\ i < h.stmt /\ t[i] \in Lock /\ t[h.stmt] \in Lock
  BY <1>1
<1>4. CASE t = <<"registration", "count", "insert", "record">>
  <2>1. h.stmt \in {2, 3, 4}
    BY <1>3, <1>4
  <2> QED BY <1>2, <1>3, <1>4, <2>1
<1>5. CASE t = <<"user", "record">>
  <2>1. h.stmt = 2
    BY <1>3, <1>5
  <2> QED BY <1>2, <1>3, <1>5, <2>1
<1>6. CASE t \in {<<"user">>, <<"record">>, <<h.on>>}
  BY <1>3, <1>6
<1>7. CASE t = <<"user", "recovery", "record">>
  <2>1. h.stmt \in {2, 3}
    BY <1>3, <1>7
  <2> QED BY <1>1, <1>2, <1>3, <1>7, <2>1
<1> QED BY <1>1, <1>4, <1>5, <1>6, <1>7 DEF ShortTransactions

\* Behind the lock of the recovery codes there is no other one.
LEMMA NoLockAfterRecovery ==
    ASSUME NEW h \in Handler, HandlerOK(h), PlanOK(h),
           NEW i \in 1..(h.stmt - 1), h.plan[h.tx][i] = "recovery",
           h.stmt \in 1..Len(h.plan[h.tx])
    PROVE  h.plan[h.tx][h.stmt] \notin Lock
<1> DEFINE t == h.plan[h.tx]
<1>1. i \in 1..Len(t) /\ i < h.stmt
  OBVIOUS
<1>2. {"count", "insert", "record"} \cap Lock = {} /\ "recovery" \notin Session
  BY AuthTransactionsConstants DEF Lock
<1>3. CASE h.op = "change_password"
  <2>1. PICK others \in Orders(Session \ {h.on}) : h.plan = << <<"user">> \o others \o <<"record">> >>
    BY <1>3 DEF PlanOK, Plans, ChangePassword
  <2>2. others \in Seq(Session) /\ h.tx = 1
    BY <1>3, <2>1, OrdersAreSequences DEF HandlerOK
  <2>3. t = <<"user">> \o others \o <<"record">>
    BY <2>1, <2>2
  <2> HIDE DEF t
  <2>4. \A k \in 1..Len(t) : t[k] \in {"user", "record"} \cup Session
    BY <2>2, <2>3
  <2> QED BY <1>1, <1>2, <2>4 DEF t
<1>4. CASE h.op = "login_mfa"
  <2>1. h.on \in Session /\ t \in MfaTransactions(h)
    BY <1>4, TransactionOf DEF PlanOK
  <2>2. h.stmt \in 1..Len(t) /\ t[i] = "recovery"
    OBVIOUS
  <2> HIDE DEF t
  <2>3. t # <<h.on, "user", "record">>
    BY <1>1, <1>2, <2>1, <2>2
  <2>4. Len(t) = 1
    BY <2>1, <2>3 DEF MfaTransactions
  <2> QED BY <1>1, <2>2, <2>4
<1>5. CASE h.op \notin {"change_password", "login_mfa"}
  <2>1. t \in ShortTransactions(h)
    BY <1>5, TransactionOf
  <2>2. h.stmt \in 1..Len(t) /\ t[i] = "recovery"
    OBVIOUS
  <2> HIDE DEF t
  <2>3. Len(t) = 1 => FALSE
    BY <1>1, <2>2
  <2>4. t \notin {<<"registration", "count", "insert", "record">>, <<"user", "record">>}
    BY <1>1, <2>2
  <2>5. t = <<"user", "recovery", "record">>
    BY <2>1, <2>3, <2>4 DEF ShortTransactions
  <2>6. t[h.stmt] = "record"
    <3>1. i = 2
      BY <1>1, <2>2, <2>5
    <3> QED BY <1>1, <2>2, <2>5, <3>1
  <2> QED BY <1>2, <2>6 DEF t
<1> QED BY <1>3, <1>4, <1>5

\* A member of a circle waits for a lock and holds another one.
LEMMA InCircle ==
    ASSUME TypeOK, LockInv, NEW q \in Request, NEW p \in Request, Waits(q, p),
           NEW o \in Request, Waits(o, q)
    PROVE  /\ reqs[q] \in Handler /\ HandlerOK(reqs[q]) /\ PlanOK(reqs[q])
           /\ reqs[q].stmt \in 1..Len(Transaction(q))
           /\ Statement(q) = Transaction(q)[reqs[q].stmt] /\ Statement(q) \in Lock
           /\ Statement(o) \in Lock
           /\ \E i \in 1..(reqs[q].stmt - 1) : Transaction(q)[i] = Statement(o)
<1> USE AuthTransactionsConstants
<1>1. Statement(q) \in Lock /\ Statement(q) \notin {"none", "end"}
  BY DEF Waits, Lock
<1>2. /\ Running(q) /\ HandlerOK(reqs[q]) /\ reqs[q] \in Handler /\ Transaction(q) \in Seq(StatementOf)
      /\ reqs[q].stmt \in 1..Len(Transaction(q))
  BY <1>1, AtStatement
<1>3. Statement(q) = Transaction(q)[reqs[q].stmt]
  BY <1>1, <1>2 DEF Statement
<1>4. LockOK(q, reqs[q], holder)
  BY LockInvIs
<1>5. Statement(o) \in Lock /\ holder[Statement(o)] = q
  BY DEF Waits
<1> QED BY <1>1, <1>2, <1>3, <1>4, <1>5 DEF LockOK, Running, Transaction

\* A deadlock needs a handler that waits for a lock while it holds another one.
\* Outside of password changes and second steps of logins that lock is always
\* that of the recovery codes, whose holder has no lock left to wait for.
LEMMA CirclesAreOfThese ==
    ASSUME TypeOK, LockInv
    PROVE  OnlyTheseDeadlock
<1> SUFFICES ASSUME NEW r \in Request, Deadlocked(r),
                    reqs[r].op \notin {"change_password", "login_mfa"}
             PROVE  FALSE
  BY DEF OnlyTheseDeadlock
<1>1. PICK S \in SUBSET Request :
        /\ r \in S
        /\ \A q \in S : (\E p \in S : Waits(q, p)) /\ (\E p \in S : Waits(p, q))
  BY DEF Deadlocked
<1>2. PICK p \in S, o \in S : Waits(r, p) /\ Waits(o, r)
  BY <1>1
<1>3. Statement(r) = "recovery"
  <2>1. /\ reqs[r] \in Handler /\ HandlerOK(reqs[r]) /\ PlanOK(reqs[r])
        /\ reqs[r].stmt \in 1..Len(Transaction(r))
        /\ Statement(r) = Transaction(r)[reqs[r].stmt] /\ Statement(r) \in Lock
        /\ Statement(o) \in Lock
        /\ \E i \in 1..(reqs[r].stmt - 1) : Transaction(r)[i] = Statement(o)
    <3>1. p \in Request /\ o \in Request
      BY <1>2
    <3> QED BY <1>2, <3>1, InCircle
  <2>2. PICK i \in 1..(reqs[r].stmt - 1) : Transaction(r)[i] \in Lock
    BY <2>1
  <2> QED BY <2>1, <2>2, SecondLock DEF Transaction
<1>4. PICK q \in S : Waits(p, q)
  BY <1>1
<1>5. /\ reqs[p] \in Handler /\ HandlerOK(reqs[p]) /\ PlanOK(reqs[p])
      /\ reqs[p].stmt \in 1..Len(Transaction(p))
      /\ Statement(p) = Transaction(p)[reqs[p].stmt] /\ Statement(p) \in Lock
      /\ \E i \in 1..(reqs[p].stmt - 1) : Transaction(p)[i] = Statement(r)
  <2>1. p \in Request /\ q \in Request
    BY <1>2, <1>4
  <2> QED BY <1>2, <1>4, <2>1, InCircle
<1>6. PICK i \in 1..(reqs[p].stmt - 1) : Transaction(p)[i] = "recovery"
  BY <1>3, <1>5
<1> QED BY <1>5, <1>6, NoLockAfterRecovery DEF Transaction

\* The only deadlocks are those of a password change and second steps of logins
\* on the sessions it ends, however many requests and sessions there are.
THEOREM NoOtherDeadlock == Spec => []OnlyTheseDeadlock
BY AuthTransactionsTypeOK, LocksFollowThePlan, CirclesAreOfThese, PTL

-----------------------------------------------------------------------------
(***************************************************************************)
(* Progress.                                                               *)
(***************************************************************************)

LEMMA PoolStep ==
    ASSUME TypeOK, PoolInv, [Next]_vars
    PROVE  PoolInv'
<1>1. ASSUME Connected' \subseteq Connected
      PROVE  PoolInv'
  <2>1. IsFiniteSet(Connected') /\ Cardinality(Connected') <= Cardinality(Connected)
    BY <1>1, FS_Subset DEF PoolInv
  <2>2. Cardinality(Connected') \in Nat /\ Cardinality(Connected) \in Nat
    BY <2>1, FS_CardinalityType DEF PoolInv
  <2> QED BY <2>1, <2>2, AuthTransactionsConstants DEF PoolInv
<1>2. CASE UNCHANGED vars
  BY <1>1, <1>2 DEF vars, Connected, Running
<1>3. ASSUME NEW r \in Request, \A q \in Request \ {r} : reqs'[q] = reqs[q],
             Running(r)' /\ reqs'[r].conn => r \in Connected
      PROVE  PoolInv'
  BY <1>1, <1>3 DEF Connected, Running
<1>4. ASSUME NEW r \in Request, NEW op, NEW argument, NEW plan, Begin(r, op, argument, plan)
      PROVE  PoolInv'
  BY <1>3, <1>4, TypeOKIs DEF Begin
<1>5. ASSUME NEW r \in Request, NEW answer \in Answers, Leave(r, answer)
      PROVE  PoolInv'
  BY <1>3, <1>5, TypeOKIs DEF Leave, Done, Running
<1>6. ASSUME NEW r \in Request, Forward(r), Statement(r) \notin {"none", "end"}
      PROVE  PoolInv'
  BY <1>3, <1>6, AtStatement, ForwardType DEF Connected
<1>7. ASSUME NEW r \in Request, Commit(r)
      PROVE  PoolInv'
  <2>1. r \in Connected
    BY <1>7, AtStatement DEF Commit, Connected
  <2>2. \A q \in Request \ {r} : reqs'[q] = reqs[q]
    BY <1>7, TypeOKIs DEF Commit
  <2> QED BY <1>3, <2>1, <2>2
<1>8. ASSUME NEW r \in Request, Connect(r)
      PROVE  PoolInv'
  <2>1. Connected' \subseteq Connected \cup {r}
    BY <1>8, TypeOKIs DEF Connect, Connected, Running
  <2>2. r \notin Connected /\ Cardinality(Connected) < Connections /\ Cardinality(Connected) \in Nat
    BY <1>8, FS_CardinalityType DEF Connect, MayConnect, Connected, PoolInv
  <2>3. /\ IsFiniteSet(Connected \cup {r})
        /\ Cardinality(Connected \cup {r}) = Cardinality(Connected) + 1
    BY <2>2, FS_AddElement DEF PoolInv
  <2>4. /\ IsFiniteSet(Connected') /\ Cardinality(Connected') \in Nat
        /\ Cardinality(Connected') <= Cardinality(Connected) + 1
    BY <2>1, <2>3, FS_Subset, FS_CardinalityType
  <2> QED BY <2>2, <2>4, AuthTransactionsConstants DEF PoolInv
<1>9. ASSUME NEW r \in Request, Step(r)
      PROVE  PoolInv'
  <2>1. CASE Acquire(r)
    <3>1. Statement(r) \notin {"none", "end"} /\ Forward(r)
      BY <2>1, AuthTransactionsConstants DEF Acquire, MayAcquire, Lock
    <3> QED BY <1>6, <3>1
  <2>2. CASE Skip(r)
    BY <1>6, <2>2, AuthTransactionsConstants DEF Skip
  <2>3. CASE Count(r)
    BY <1>5, <1>6, <2>3 DEF Count, Answers
  <2>4. CASE Insert(r)
    BY <1>5, <1>6, <2>4 DEF Insert, Answers
  <2>5. CASE Record(r)
    BY <1>5, <1>6, <2>5 DEF Record, MayRecord, Answers
  <2> QED BY <1>7, <1>9, <2>1, <2>2, <2>3, <2>4, <2>5 DEF Step
<1>10. ASSUME NEW r \in Request, Victim(r) \/ Drop(r)
       PROVE  PoolInv'
  BY <1>5, <1>10 DEF Victim, Drop, Answers
<1> QED BY <1>2, <1>4, <1>8, <1>9, <1>10 DEF Next

\* The transactions in progress never hold more connections than the pool has.
THEOREM PoolIsBounded == Spec => []PoolInv
<1>1. Init => PoolInv
  <2> SUFFICES ASSUME Init PROVE PoolInv
    OBVIOUS
  <2>1. Connected = {}
    BY DEF Init, Connected, Running, Done
  <2> QED BY <2>1, FS_EmptySet, AuthTransactionsConstants DEF PoolInv
<1>2. TypeOK /\ PoolInv /\ [Next]_vars => PoolInv'
  BY PoolStep
<1> QED BY <1>1, <1>2, AuthTransactionsTypeOK, PTL DEF Spec

\* Of some sets that are subsets of a finite one, one has no other inside.
LEMMA SmallestSet ==
    ASSUME NEW S, IsFiniteSet(S), NEW F \in SUBSET SUBSET S, F # {}
    PROVE  \E A \in F : \A B \in F : B \subseteq A => B = A
<1>1. FiniteSubsetsOf(S) = SUBSET S
  BY FS_FiniteSubsetsOfFinite
<1>2. IsWellFoundedOn(StrictSubsetOrdering(S), SUBSET S)
  BY <1>1, FS_StrictSubsetOrderingWellFounded
<1>3. \E A \in F : \A B \in F : ~ (<<B, A>> \in StrictSubsetOrdering(S))
  BY <1>2, WFMin
<1> QED BY <1>3 DEF StrictSubsetOrdering

\* A handler that is not ready although it is connected waits for another one.
LEMMA NotReadyWaits ==
    ASSUME TypeOK, PoolInv, NEW r \in Connected, ~Ready(r)
    PROVE  \E q \in Connected : Waits(r, q)
<1>1. r \in Request /\ Running(r) /\ reqs[r].conn
  BY DEF Connected
<1>2. Statement(r) \in StatementOf \cup {"end"}
  <2>1. HandlerOK(reqs[r]) /\ reqs[r] \in Handler
    BY <1>1, TypeOKIs, RunningHandler DEF Running
  <2>2. /\ reqs[r].plan \in Seq(Seq(StatementOf))
        /\ reqs[r].tx \in 1..Len(reqs[r].plan) /\ reqs[r].stmt \in 1..Len(Transaction(r)) + 1
    BY <1>1, <2>1 DEF Handler, HandlerOK, Running, Transaction, StatementOf
  <2>3. Transaction(r) \in Seq(StatementOf)
    BY <2>2 DEF Transaction
  <2> QED BY <1>1, <2>2, <2>3 DEF Statement
<1>3. Statement(r) # "record"
  <2>1. Cardinality(Connected) \in Nat /\ Cardinality(Connected) <= Connections
    BY FS_CardinalityType DEF PoolInv
  <2> QED BY <2>1 DEF Ready, MayRecord, More
<1>4. Statement(r) \in Lock /\ holder[Statement(r)] \notin {Nobody, r}
  BY <1>2, <1>3 DEF Ready, MayAcquire, StatementOf
<1>5. holder[Statement(r)] \in Connected
  BY <1>4, TypeOKIs
<1> QED BY <1>4, <1>5 DEF Waits

LEMMA CircleDeadlocks ==
    ASSUME NEW A \in SUBSET Request, NEW q \in A,
           \A x \in A : (\E p \in A : Waits(x, p)) /\ (\E p \in A : Waits(p, x))
    PROVE  Deadlocked(q)
BY DEF Deadlocked

\* Were nobody ready, every connected handler would wait for another one, and
\* those of a smallest set that wait for each other would be a circle.
LEMMA NotAllWait ==
    ASSUME TypeOK, PoolInv
    PROVE  SomebodyGoesOn
<1> SUFFICES ASSUME NEW r \in Request, Running(r), \A q \in Request : ~Ready(q)
             PROVE  FALSE
  BY DEF SomebodyGoesOn
<1>1. Connected # {}
  <2> SUFFICES ASSUME Connected = {} PROVE FALSE
    OBVIOUS
  <2>1. Cardinality(Connected) = 0
    BY FS_EmptySet
  <2>2. MayConnect(r)
    BY <2>1, AuthTransactionsConstants DEF MayConnect, Connected
  <2> QED BY <2>2 DEF Ready
<1> DEFINE Closed(A) == A # {} /\ \A q \in A : \E p \in A : Waits(q, p)
           F == {A \in SUBSET Connected : Closed(A)}
<1>2. Closed(Connected)
  BY <1>1, NotReadyWaits DEF Connected
<1>3. PICK A \in F : \A B \in F : B \subseteq A => B = A
  <2>1. F \in SUBSET SUBSET Connected /\ F # {}
    BY <1>2
  <2> HIDE DEF F
  <2> QED BY <2>1, SmallestSet DEF PoolInv
<1> DEFINE B == {q \in A : \E p \in A : Waits(p, q)}
<1>4. B = A
  <2>1. B # {} /\ \A q \in B : \E p \in B : Waits(q, p)
    BY <1>3
  <2>2. B \in F
    BY <1>3, <2>1
  <2> QED BY <1>3, <2>2
<1>5. PICK q \in A : TRUE
  BY <1>3
<1>6. A \in SUBSET Request
  BY <1>3 DEF Connected
<1>7. \A x \in A : (\E p \in A : Waits(x, p)) /\ (\E p \in A : Waits(p, x))
  <2>1. \A x \in A : \E p \in A : Waits(x, p)
    BY <1>3
  <2>2. \A x \in B : \E p \in A : Waits(p, x)
    OBVIOUS
  <2> HIDE DEF F, B, Closed
  <2> QED BY <1>4, <2>1, <2>2
<1> HIDE DEF F, B, Closed
<1>8. q \in Request /\ Deadlocked(q)
  BY <1>5, <1>6, <1>7, CircleDeadlocks
<1>9. Ready(q)
  BY <1>8 DEF Ready
<1> QED BY <1>8, <1>9

\* While handlers are in progress, one of them can go on, for any number of
\* requests and connections: they never all wait for each other.
THEOREM TheRoundGoesOn == Spec => []SomebodyGoesOn
BY AuthTransactionsTypeOK, PoolIsBounded, NotAllWait, PTL

-----------------------------------------------------------------------------
(***************************************************************************)
(* A handler that goes on comes closer to its end.                         *)
(***************************************************************************)
\* The same handler, further on: in a later transaction, at a later statement,
\* or at the same one with the connection it waited for.
Further(h, g) ==
    /\ g.op = h.op /\ g.on = h.on /\ g.plan = h.plan
    /\ \/ g.tx > h.tx
       \/ g.tx = h.tx /\ g.stmt > h.stmt
       \/ g.tx = h.tx /\ g.stmt = h.stmt /\ g.conn /\ ~h.conn

\* Whatever step happens, a handler in progress stays as it is, ends, or is
\* further on in the plan it began with: nothing makes it run a statement of
\* auth.rs twice.
NeverBack ==
    [][\A r \in Request :
          Running(r) => reqs'[r] = reqs[r] \/ ~Running(r)' \/ Further(reqs[r], reqs'[r])]_vars

LEMMA ForwardIsFurther ==
    ASSUME TypeOK, NEW r \in Request, Statement(r) \notin {"none", "end"}, Forward(r)
    PROVE  Further(reqs[r], reqs'[r])
<1>1. reqs[r] \in Handler
  BY AtStatement
<1>2. reqs[r].stmt \in Nat
  BY <1>1 DEF Handler
<1> QED BY <1>2, ForwardType DEF Further

LEMMA CommitIsFurther ==
    ASSUME TypeOK, NEW r \in Request, Commit(r)
    PROVE  ~Running(r)' \/ Further(reqs[r], reqs'[r])
<1>1. reqs[r] \in Handler /\ reqs \in [Request -> Handler \cup [op : {"none"}, answer : Answers]]
  BY AtStatement, TypeOKIs DEF Commit
<1>2. PICK g \in Handler : g = reqs[r]
  BY <1>1
<1>3. CASE IsLast(r)
  BY <1>1, <1>3 DEF Commit, Running, Done
<1>4. CASE ~IsLast(r)
  <2> DEFINE n == [g EXCEPT !.tx = g.tx + 1, !.stmt = 1, !.conn = FALSE]
  <2>1. reqs'[r] = n
    BY <1>1, <1>2, <1>4 DEF Commit
  <2>2. n.op = g.op /\ n.on = g.on /\ n.plan = g.plan /\ n.tx = g.tx + 1 /\ g.tx \in Nat
    BY DEF Handler
  <2> HIDE DEF n
  <2> QED BY <1>2, <2>1, <2>2 DEF Further
<1> QED BY <1>3, <1>4

LEMMA ConnectIsFurther ==
    ASSUME TypeOK, NEW r \in Request, Connect(r)
    PROVE  Further(reqs[r], reqs'[r])
<1>1. /\ reqs \in [Request -> Handler \cup [op : {"none"}, answer : Answers]]
      /\ HandlerOK(reqs[r]) /\ Running(r) /\ ~reqs[r].conn
  BY TypeOKIs DEF Connect, MayConnect
<1>2. PICK g \in Handler : g = reqs[r]
  BY <1>1, RunningHandler DEF Running
<1> DEFINE h == [g EXCEPT !.conn = TRUE]
<1>3. reqs'[r] = h
  BY <1>1, <1>2 DEF Connect
<1>4. h.op = g.op /\ h.on = g.on /\ h.plan = g.plan /\ h.tx = g.tx /\ h.stmt = g.stmt /\ h.conn
  BY DEF Handler
<1> HIDE DEF h
<1> QED BY <1>1, <1>2, <1>3, <1>4 DEF Further

\* A rollback ends the handler.
LEMMA LeaveEnds ==
    ASSUME TypeOK, NEW r \in Request, NEW answer, Leave(r, answer)
    PROVE  ~Running(r)'
BY TypeOKIs DEF Leave, Done, Running

LEMMA StepIsFurther ==
    ASSUME TypeOK, NEW r \in Request, Step(r)
    PROVE  ~Running(r)' \/ Further(reqs[r], reqs'[r])
<1> USE AuthTransactionsConstants
<1>1. CASE Acquire(r)
  <2>1. Statement(r) \notin {"none", "end"}
    BY <1>1 DEF Acquire, MayAcquire, Lock
  <2> QED BY <1>1, <2>1, ForwardIsFurther DEF Acquire
<1>2. CASE Skip(r)
  <2>1. Statement(r) \notin {"none", "end"}
    BY <1>2 DEF Skip
  <2> QED BY <1>2, <2>1, ForwardIsFurther DEF Skip
<1>3. CASE Count(r)
  BY <1>3, LeaveEnds, ForwardIsFurther DEF Count
<1>4. CASE Insert(r)
  BY <1>4, LeaveEnds, ForwardIsFurther DEF Insert
<1>5. CASE Record(r)
  BY <1>5, LeaveEnds, ForwardIsFurther DEF Record, MayRecord
<1> QED BY <1>1, <1>2, <1>3, <1>4, <1>5, CommitIsFurther DEF Step

\* A step changes one request only.
LEMMA OthersStay ==
    ASSUME TypeOK, NEW r \in Request, NEW q \in Request \ {r},
           \/ \E op, argument, plan : Begin(r, op, argument, plan)
           \/ Connect(r) \/ Step(r) \/ Victim(r) \/ Drop(r)
    PROVE  reqs'[q] = reqs[q]
BY TypeOKIs DEF Begin, Connect, Step, Acquire, Skip, Count, Insert, Record, Commit,
                Victim, Drop, Leave, Forward

\* No handler of auth.rs ever goes back: with TheRoundGoesOn, a round of
\* requests to which no new one is added ends after finitely many steps.
THEOREM HandlersNeverGoBack == Spec => NeverBack
<1>1. TypeOK /\ [Next]_vars =>
         [\A r \in Request :
             Running(r) => reqs'[r] = reqs[r] \/ ~Running(r)' \/ Further(reqs[r], reqs'[r])]_vars
  <2> SUFFICES ASSUME TypeOK, Next, NEW q \in Request, Running(q), reqs'[q] # reqs[q]
               PROVE  ~Running(q)' \/ Further(reqs[q], reqs'[q])
    OBVIOUS
  <2>1. PICK r \in Request :
           \/ \E op, argument, plan : Begin(r, op, argument, plan)
           \/ Connect(r) \/ Step(r) \/ Victim(r) \/ Drop(r)
    BY DEF Next
  <2>2. q = r
    BY <2>1, OthersStay
  <2>3. ~ \E op, argument, plan : Begin(q, op, argument, plan)
    BY DEF Begin
  <2>4. CASE Victim(q) \/ Drop(q)
    BY <2>4, LeaveEnds DEF Victim, Drop
  <2> QED BY <2>1, <2>2, <2>3, <2>4, ConnectIsFurther, StepIsFurther
<1> QED BY <1>1, AuthTransactionsTypeOK, PTL DEF Spec, NeverBack

=============================================================================
