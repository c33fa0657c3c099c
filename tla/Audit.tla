-------------------------------- MODULE Audit --------------------------------
(***************************************************************************)
(* crates/control/src/audit.rs and the handlers that call `record`.        *)
(*                                                                         *)
(* A handler changes something and records it in one of two ways.  "tx":   *)
(* both in one transaction (register, login, login_mfa, change_password,   *)
(* mfa_confirm, mfa_disable, create_org, enroll, issue_grant).             *)
(* "separate": the change commits, then the event is inserted in a         *)
(* statement of its own (all the others).  What the change was is left     *)
(* out; a change is known by the request that made it, also when it left   *)
(* the row as it was.                                                      *)
(*                                                                         *)
(* The id of an event is drawn from the table's sequence when the INSERT   *)
(* runs and its row is visible when the transaction commits, so events may *)
(* become visible out of the order of their ids, and an id whose           *)
(* transaction fails is never used.                                        *)
(***************************************************************************)
EXTENDS Integers, FiniteSets, Sequences

CONSTANTS Org,
          Request,         \* requests that change something, each handled once
          NoLimit,         \* list_events without ?limit
          DefaultLimit,    \* DEFAULT_LIMIT
          MaxLimit         \* MAX_LIMIT

ASSUME AuditConstants ==
    /\ DefaultLimit \in Nat /\ MaxLimit \in Nat
    /\ DefaultLimit \in 1..MaxLimit
    /\ NoLimit \notin Int

VARIABLES lastId,          \* the sequence of audit_events.id
          events,          \* audit_events that are committed; `by` is history
          changes,         \* requests whose change is committed
          reqs             \* handlers in progress and their answers

journal == <<lastId, events, changes, reqs>>

Way == {"tx", "separate"}
Phase == {"idle", "changed", "recorded", "ok", "error"}

Handler == [phase : Phase, way : Way, org : Org, id : Nat]

JournalTypeOK ==
    /\ lastId \in Nat
    /\ events \subseteq [id : 1..lastId, org : Org, by : Request]
    /\ changes \subseteq Request
    /\ reqs \in [Request -> Handler]

JournalInit ==
    /\ lastId = 0
    /\ events = {}
    /\ changes = {}
    /\ \E o \in Org : reqs = [r \in Request |-> [phase |-> "idle", way |-> "tx", org |-> o, id |-> 0]]

-----------------------------------------------------------------------------
\* Slip: every handler runs its statements on the pool.
CommitsAlone(way) == TRUE

\* Whether the change commits before the event is written.
CommitsFirst(way) == way = "separate"

\* The statements of the handler up to audit::record.
Change(r, way, o) ==
    /\ reqs[r].phase = "idle"
    /\ reqs' = [reqs EXCEPT ![r] = [phase |-> "changed", way |-> way, org |-> o, id |-> 0]]
    /\ changes' = IF CommitsFirst(way) THEN changes \cup {r} ELSE changes
    /\ UNCHANGED <<lastId, events>>

\* The INSERT of `record`: nextval, not yet committed.
Record(r) ==
    /\ reqs[r].phase = "changed"
    /\ lastId' = lastId + 1
    /\ reqs' = [reqs EXCEPT ![r].phase = "recorded", ![r].id = lastId + 1]
    /\ UNCHANGED <<events, changes>>

\* The commit and the answer.
Commit(r) ==
    /\ reqs[r].phase = "recorded"
    /\ events' = events \cup {[id |-> reqs[r].id, org |-> reqs[r].org, by |-> r]}
    /\ changes' = changes \cup {r}
    /\ reqs' = [reqs EXCEPT ![r].phase = "ok"]
    /\ UNCHANGED lastId

\* A statement fails, or the client is gone and the handler is dropped: what
\* is not committed is rolled back.
Abort(r) ==
    /\ reqs[r].phase \in {"changed", "recorded"}
    /\ reqs' = [reqs EXCEPT ![r].phase = "error"]
    /\ UNCHANGED <<lastId, events, changes>>

JournalNext ==
    \E r \in Request :
        \/ \E way \in Way, o \in Org : Change(r, way, o)
        \/ Record(r) \/ Commit(r) \/ Abort(r)

-----------------------------------------------------------------------------
\* Slip: the limit of the request is taken as it is.
Unclamped(requested) == IF requested = NoLimit THEN DefaultLimit ELSE requested

ClampLimit(requested) ==
    LET wanted == IF requested = NoLimit THEN DefaultLimit ELSE requested
    IN  IF wanted < 1 THEN 1 ELSE IF wanted > MaxLimit THEN MaxLimit ELSE wanted

\* Slip: the cursor's own event is on the next page again.
IdUpTo(e, before) == before = 0 \/ e.id <= before

\* The condition on ?before (0 when it is absent).
IsBefore(e, before) == before = 0 \/ e.id < before

\* ORDER BY id DESC: how many of the rows come before e, and their list.
Rank(rows, e) == Cardinality({f \in rows : f.id > e.id})

NewestFirst(rows) ==
    [i \in 1..Cardinality(rows) |-> CHOOSE e \in rows : Rank(rows, e) = i - 1]

\* The rows list_events reads: the newest `limit` of the organisation.
PageOf(org, before, limit) ==
    LET older == {e \in events : e.org = org /\ IsBefore(e, before)}
    IN  {e \in older : Rank(older, e) < limit}

\* next_before of a page, 0 for null.
NextBefore(list, limit) == IF Len(list) = limit THEN list[Len(list)].id ELSE 0

-----------------------------------------------------------------------------
(***************************************************************************)
(* Properties.                                                             *)
(***************************************************************************)

\* "An entry is written right after the action it describes, inside the same
\* transaction where the handler has one": a request that is answered without
\* an error has its change and exactly one event, an event never reports a
\* change that was rolled back, and a handler with a transaction leaves both
\* or neither, whatever fails.
EventsTellWhatHappened ==
    /\ \A r \in Request :
          reqs[r].phase = "ok" => r \in changes /\ \E e \in events : e.by = r
    /\ \A e \in events : e.by \in changes /\ e.org = reqs[e.by].org
    /\ \A r \in changes : reqs[r].way = "tx" => \E e \in events : e.by = r

\* Why: what a handler has written by now follows from its phase, and an id
\* that was drawn belongs to one handler.
AuditInv ==
    /\ JournalTypeOK
    /\ EventsTellWhatHappened
    /\ \A r \in Request :
          /\ reqs[r].phase = "idle" => r \notin changes
          /\ reqs[r].phase # "ok" => \A e \in events : e.by # r
          /\ reqs[r].phase \in {"changed", "recorded"}
               => (r \in changes <=> reqs[r].way = "separate")
          /\ reqs[r].id \in 0..lastId
          /\ reqs[r].phase \in {"recorded", "ok"} => reqs[r].id > 0
          /\ \A e \in events : e.by = r => e.id = reqs[r].id
    /\ \A r, q \in Request :
          r # q /\ reqs[r].id = reqs[q].id => reqs[r].id = 0

=============================================================================
