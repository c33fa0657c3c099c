------------------------------ MODULE AuditPage ------------------------------
(***************************************************************************)
(* panel/src/pages/Audit.tsx over the journal of Audit.tla: the audit page *)
(* of the panel, which loads the first page when it is opened, when the    *)
(* organisation is switched and on Refresh, and a further one on "Load     *)
(* more".                                                                  *)
(*                                                                         *)
(* The answers of the loads in flight arrive in any order, and the page    *)
(* applies each of them.  `busy` keeps the user from asking for more       *)
(* during a load, but neither from refreshing nor from switching.          *)
(***************************************************************************)
EXTENDS Audit, SequencesExt

CONSTANTS PageLimit,       \* `limit` of api.audit
          MaxLoads         \* bound on the loads in flight

VARIABLES org,             \* the selected organisation
          shown,           \* `events` of the component, in order
          next,            \* `next` of the component, 0 for null
          busy,
          loads,           \* requests in flight, and their answers
          asOf,            \* history: its events when the first page was read
          overlapped       \* history: a load began while another was in flight

page == <<org, shown, next, busy, loads, asOf, overlapped>>
vars == <<journal, page>>

ASSUME AuditPageConstants ==
    PageLimit \in Int /\ MaxLoads \in Nat \ {0}

Slot == 1..MaxLoads
NoLoad == [state |-> "none"]
Sent(o, before) == [state |-> "sent", org |-> o, before |-> before]

Init ==
    /\ JournalInit
    /\ org \in Org
    /\ shown = <<>> /\ next = 0 /\ busy = TRUE
    /\ loads = [l \in Slot |-> IF l = 1 THEN Sent(org, 0) ELSE NoLoad]
    /\ asOf = {} /\ overlapped = FALSE

Free == {l \in Slot : loads[l] = NoLoad}
InFlight == Slot \ Free

\* `load`: setBusy(true) and a request for the organisation of this render.
Load(o, before) ==
    /\ Free # {}
    /\ busy' = TRUE
    /\ loads' = [loads EXCEPT ![CHOOSE l \in Free : TRUE] = Sent(o, before)]
    /\ overlapped' = (overlapped \/ InFlight # {})

\* The effect on org.id: the table is emptied and loaded again.
SelectOrg(o) ==
    /\ o # org
    /\ org' = o
    /\ shown' = <<>> /\ next' = 0
    /\ asOf' = {}
    /\ Load(o, 0)
    /\ UNCHANGED journal

Refresh ==
    /\ Load(org, 0)
    /\ UNCHANGED <<journal, org, shown, next, asOf>>

\* "Load more" is there while there is a cursor, and disabled while busy.
More ==
    /\ next # 0 /\ ~busy
    /\ Load(org, next)
    /\ UNCHANGED <<journal, org, shown, next, asOf>>

\* The user leaves the tab and comes back: a new component, which the answers
\* to the old one do not reach.
Reopen ==
    /\ shown' = <<>> /\ next' = 0 /\ busy' = TRUE
    /\ loads' = [l \in Slot |-> IF l = 1 THEN Sent(org, 0) ELSE NoLoad]
    /\ asOf' = {} /\ overlapped' = FALSE
    /\ UNCHANGED <<journal, org>>

\* list_events reads the journal for load l.
Serve(l) ==
    /\ loads[l].state = "sent"
    /\ LET limit == ClampLimit(PageLimit)
           list == NewestFirst(PageOf(loads[l].org, loads[l].before, limit))
       IN  loads' = [loads EXCEPT ![l] =
               [state |-> "answered", org |-> loads[l].org, before |-> loads[l].before,
                events |-> list, next |-> NextBefore(list, limit), journal |-> {e \in events : e.org = loads[l].org}]]
    /\ UNCHANGED <<journal, org, shown, next, busy, asOf, overlapped>>

\* The table once the answer is applied: a further page is appended.
Applied(answer) ==
    IF answer.before = 0 THEN answer.events ELSE shown \o answer.events

\* The answer of load l is applied, whatever the page asked for since.
Arrive(l) ==
    /\ loads[l].state = "answered"
    /\ shown' = Applied(loads[l])
    /\ next' = loads[l].next
    /\ asOf' = IF loads[l].before = 0 THEN loads[l].journal ELSE asOf
    /\ busy' = FALSE
    /\ loads' = [loads EXCEPT ![l] = NoLoad]
    /\ UNCHANGED <<journal, org, overlapped>>

\* Slip: only a load that succeeds resets busy.
StaysBusy == busy

\* `finally`: busy ends with an error, too.
BusyAfterError == FALSE

\* The request fails on its way, at the server or on the way back.
LoadFails(l) ==
    /\ loads[l].state \in {"sent", "answered"}
    /\ busy' = BusyAfterError
    /\ loads' = [loads EXCEPT ![l] = NoLoad]
    /\ UNCHANGED <<journal, org, shown, next, asOf, overlapped>>

Next ==
    \/ JournalNext /\ UNCHANGED page
    \/ \E o \in Org : SelectOrg(o)
    \/ Refresh \/ More \/ Reopen
    \/ \E l \in Slot : Serve(l) \/ Arrive(l) \/ LoadFails(l)

Spec == Init /\ [][Next]_vars

-----------------------------------------------------------------------------
(***************************************************************************)
(* Properties.                                                             *)
(***************************************************************************)
TypeOK ==
    /\ JournalTypeOK
    /\ org \in Org /\ next \in 0..lastId /\ busy \in BOOLEAN
    /\ overlapped \in BOOLEAN
    /\ asOf \subseteq events /\ ToSet(shown) \subseteq events
    /\ \A l \in Slot : loads[l].state \in {"none", "sent", "answered"}
    /\ \A l \in Slot : loads[l].state = "answered" => Len(loads[l].events) <= MaxLimit

\* As long as no load overlaps another, the table is the journal of the
\* selected organisation, newest first, without a repetition and without a
\* hole: of the events that were there when its first page was read, those down
\* to the last one shown, and all of them when there is no more to load.  Events
\* that committed since may be missing, whatever their ids.
TableIsTheJournal ==
    ~overlapped =>
        /\ \A i \in DOMAIN shown : shown[i].org = org
        /\ \A i, j \in DOMAIN shown : i < j => shown[i].id > shown[j].id
        /\ \A e \in asOf : (next # 0 => e.id >= Last(shown).id) => e \in ToSet(shown)

\* The page is never left busy, with "Load more" disabled for good, and without
\* an overlap it is not idle during a load either, so that one page is never
\* asked for twice.
BusyMeansLoading ==
    /\ busy => InFlight # {}
    /\ ~overlapped /\ InFlight # {} => busy

-----------------------------------------------------------------------------
(***************************************************************************)
(* Why.  A list has no hole, with respect to some events and a cursor,     *)
(* when it has all of them down to the cursor, newest first, and the       *)
(* cursor, unless it is 0, is the id of its last event.                    *)
(***************************************************************************)
NoHole(list, cursor, of) ==
    /\ \A i, j \in DOMAIN list : i < j => list[i].id > list[j].id
    /\ cursor # 0 => list # <<>> /\ cursor = list[Len(list)].id
    /\ \A e \in of : (cursor # 0 => e.id >= cursor) => e \in ToSet(list)

\* A load in flight asks for a page of an organisation; its answer has no hole
\* in what was before that page.
LoadInv(load) ==
    /\ load.state \in {"sent", "answered"}
    /\ load.org \in Org /\ load.before \in 0..lastId
    /\ load.state = "answered" =>
         /\ load.journal \subseteq {e \in events : e.org = load.org}
         /\ load.events \in Seq({e \in load.journal : IsBefore(e, load.before)})
         /\ Len(load.events) <= MaxLimit
         /\ load.next \in 0..lastId
         /\ NoHole(load.events, load.next, {e \in load.journal : IsBefore(e, load.before)})

\* While no load overlaps another, the one in flight is for the first page or
\* for the one behind what is shown, and the table has no hole.
PageInv ==
    /\ TypeOK /\ BusyMeansLoading
    /\ shown \in Seq(events)
    /\ DOMAIN loads = Slot
    /\ \A l \in InFlight : LoadInv(loads[l])
    /\ ~overlapped =>
         /\ asOf \subseteq {e \in events : e.org = org}
         /\ \A i \in DOMAIN shown : shown[i].org = org
         /\ NoHole(shown, next, asOf)
         /\ \A l \in InFlight :
               /\ loads[l].org = org /\ loads[l].before \in {0, next}
               /\ loads[l].state = "answered" /\ loads[l].before # 0
                    => asOf \subseteq loads[l].journal
               /\ \A k \in InFlight : k = l

=============================================================================
