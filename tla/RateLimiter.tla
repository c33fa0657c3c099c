----------------------------- MODULE RateLimiter -----------------------------
(***************************************************************************)
(* crates/control/src/limiter.rs: the per-address limit in front of the    *)
(* endpoints an anonymous caller can reach.                                *)
(*                                                                         *)
(* The middleware reads the clock, then waits for the mutex of the table:  *)
(* requests may be checked in another order than their times, and a time   *)
(* may be out of date when it is used.  The clock is the system's plus an  *)
(* offset, and may be corrected in both directions; `elapsed` is the time  *)
(* that really passed.                                                     *)
(***************************************************************************)
EXTENDS Integers, Sequences, FiniteSets

CONSTANTS
    Address, NoAddress,
    Request,             \* requests in progress at the same time
    TrustForwardedFor,
    Limit,               \* RateLimiter.max, never 0: the router turns 0 into u32::MAX
    Window,              \* RateLimiter.window_secs
    MaxTracked,          \* MAX_TRACKED
    MaxDelay,            \* ticks a request may wait for the mutex
    MaxTime,             \* bound on the time that passes
    MaxCorrections       \* bound on the ticks the clock is set back and forward in all

ASSUME LimiterConstants ==
    /\ NoAddress \notin Address
    /\ {Limit, Window, MaxTracked} \subseteq Nat \ {0}
    /\ {MaxDelay, MaxTime, MaxCorrections} \subseteq Nat
    /\ TrustForwardedFor \in BOOLEAN

VARIABLES
    elapsed,             \* real time
    back, ahead,         \* how far the clock has been set back, and forward, in all
    windows,             \* the table: start and count for the tracked addresses
    reqs,                \* requests that have read the clock
    opened,              \* history: the last window opened for each address
    admitted,            \* history: when requests of each address were let through
    promise              \* history: the time each address was told to wait for

vars == <<elapsed, back, ahead, windows, reqs, opened, admitted, promise>>
history == <<opened, admitted, promise>>

Entry == [tracked : BOOLEAN, start : Int, count : 0..Limit]
NoEntry == [tracked |-> FALSE, start |-> 0, count |-> 0]
\* at is the clock's reading; read, history, the real time of it.
Idle == [phase |-> "idle", address |-> NoAddress, at |-> 0, read |-> 0]

TypeOK ==
    /\ elapsed \in 0..MaxTime /\ {back, ahead} \subseteq 0..MaxCorrections
    /\ windows \in [Address -> Entry]
    /\ reqs \in [Request -> [phase : {"idle", "waiting"},
                             address : Address \cup {NoAddress}, at : Int,
                             read : 0..MaxTime]]
    /\ opened \in [Address -> [ever : BOOLEAN, start : Int, elapsed : 0..MaxTime]]
    /\ admitted \in [Address -> Seq(0..MaxTime)]
    /\ promise \in [Address -> [until : Int, since : Nat]]

Init ==
    /\ elapsed = 0 /\ back = 0 /\ ahead = 0
    /\ windows = [a \in Address |-> NoEntry]
    /\ reqs = [r \in Request |-> Idle]
    /\ opened = [a \in Address |-> [ever |-> FALSE, start |-> 0, elapsed |-> 0]]
    /\ admitted = [a \in Address |-> <<>>]
    /\ promise = [a \in Address |-> [until |-> 0, since |-> 0]]

-----------------------------------------------------------------------------
Now == elapsed - back + ahead

Tracked == {a \in Address : windows[a].tracked}

\* client_address: NoAddress also stands for a header that is missing or is no
\* address.
ClientAddress(forwarded, peer) ==
    IF TrustForwardedFor /\ forwarded # NoAddress THEN forwarded ELSE peer

Arrive(r, forwarded, peer) ==
    /\ reqs[r].phase = "idle"
    /\ ClientAddress(forwarded, peer) # NoAddress   \* otherwise it is not limited
    /\ reqs' = [reqs EXCEPT ![r] = [phase |-> "waiting", at |-> Now, read |-> elapsed,
                                    address |-> ClientAddress(forwarded, peer)]]
    /\ UNCHANGED <<elapsed, back, ahead, windows, history>>

\* Slips: a window is over one tick early, or never; every window is purged;
\* none is; the wait is one tick short.
LiveTooShort(entry, at) == entry.tracked /\ at + 1 < entry.start + Window
LiveForever(entry, at) == entry.tracked
PurgeAll(at) == [a \in Address |-> NoEntry]
PurgeNone(at) == windows
WaitTooShort(entry, at) == entry.start + Window - at - 1

Live(entry, at) == entry.tracked /\ at < entry.start + Window

\* The table as it is when a request of time `at` looks at it.
Purged(at) ==
    IF Cardinality(Tracked) >= MaxTracked
      THEN [a \in Address |-> IF Live(windows[a], at) THEN windows[a] ELSE NoEntry]
      ELSE windows

\* The entry of an address, with a new window when there is none or it is over.
Current(a, at) ==
    IF Live(Purged(at)[a], at) THEN Purged(at)[a]
                               ELSE [tracked |-> TRUE, start |-> at, count |-> 0]

RetryAfter(entry, at) == entry.start + Window - at

\* The history of the last admissions is as long as BurstBound needs it.
Remember(times) ==
    LET all == Append(times, elapsed)
    IN  IF Len(all) > 2 * Limit + 1 THEN Tail(all) ELSE all

\* RateLimiter::check, under the mutex.
Check(r) ==
    LET a == reqs[r].address
        at == reqs[r].at
        entry == Current(a, at)
        isNew == ~Live(Purged(at)[a], at)
    IN  /\ reqs[r].phase = "waiting"
        /\ reqs' = [reqs EXCEPT ![r] = Idle]
        /\ opened' = IF isNew
                       THEN [opened EXCEPT ![a] = [ever |-> TRUE, start |-> at,
                                                   elapsed |-> elapsed]]
                       ELSE opened
        /\ \/ /\ entry.count < Limit
              /\ windows' = [Purged(at) EXCEPT ![a] = [entry EXCEPT !.count = @ + 1]]
              /\ admitted' = [admitted EXCEPT ![a] = Remember(@)]
              /\ promise' = [promise EXCEPT ![a].since =
                               IF @ < Limit THEN @ + 1 ELSE Limit]
           \/ /\ entry.count >= Limit
              /\ windows' = [Purged(at) EXCEPT ![a] = entry]
              /\ promise' = [promise EXCEPT ![a] =
                               [until |-> at + RetryAfter(entry, at), since |-> 0]]
              /\ UNCHANGED admitted
        /\ UNCHANGED <<elapsed, back, ahead>>

Tick ==
    /\ elapsed < MaxTime
    /\ \A r \in Request :
          reqs[r].phase = "waiting" => reqs[r].read >= elapsed + 1 - MaxDelay
    /\ elapsed' = elapsed + 1
    /\ UNCHANGED <<back, ahead, windows, reqs, history>>

\* The system's clock is corrected.
SetBack ==
    /\ back + ahead < MaxCorrections
    /\ back' = back + 1
    /\ UNCHANGED <<elapsed, ahead, windows, reqs, history>>

SetForward ==
    /\ back + ahead < MaxCorrections
    /\ ahead' = ahead + 1
    /\ UNCHANGED <<elapsed, back, windows, reqs, history>>

Next ==
    \/ Tick
    \/ SetBack
    \/ SetForward
    \/ \E r \in Request :
          \/ \E forwarded, peer \in Address \cup {NoAddress} : Arrive(r, forwarded, peer)
          \/ Check(r)

Spec == Init /\ [][Next]_vars

-----------------------------------------------------------------------------
\* The check of r refuses it: its address is told anew when to come back.
Refused(r) ==
    /\ reqs[r].phase = "waiting" /\ reqs'[r].phase = "idle"
    /\ promise'[reqs[r].address].since = 0

\* Two windows of an address open at least a window's length apart, less what
\* a request may wait for the mutex and what the clock was corrected by: dropping
\* an entry of the full table never gives an address a new allowance early.
WindowsApart ==
    [][\A a \in Address :
          opened[a].ever /\ opened'[a] # opened[a]
          => elapsed >= opened[a].elapsed + Window - MaxDelay - back - ahead]_vars

\* So any 2 * Limit + 1 admissions of one address span that time: around the
\* boundary of two fixed windows an address gets twice the limit, never more.
BurstBound ==
    \A a \in Address :
        Len(admitted[a]) > 2 * Limit
        => admitted[a][2 * Limit + 1]
             >= admitted[a][1] + Window - MaxDelay - back - ahead

\* An address is refused only for what was let through for that address, within
\* a window's length and the delays above: no other address, no purge and no
\* correction of the clock shuts it out for longer.
RefusedForOwnRequests ==
    [][\A r \in Request :
          Refused(r) =>
            LET times == admitted[reqs[r].address]
            IN  /\ Len(times) >= Limit
                /\ times[Len(times) - Limit + 1] > elapsed - Window - MaxDelay - back]_vars

\* "the time until the window ends": a client that comes back when the server's
\* clock shows the time it was told is let in, unless others behind its address
\* used the limit up since.  The promise is measured on the server's readings: a
\* client that counts the seconds of Retry-After itself comes too early when the
\* clock was set back after the answer.
RetryAfterIsHonest ==
    [][\A r \in Request :
          LET told == promise[reqs[r].address]
          IN  Refused(r) /\ told.until > 0 /\ reqs[r].at >= told.until
              => told.since >= Limit]_vars

\* The table outgrows MAX_TRACKED by addresses whose windows are not over, and
\* by nothing else.
OnlyLiveWindowsBeyondTheTable ==
    [][\A r \in Request :
          reqs'[r] # reqs[r] /\ reqs[r].phase = "waiting"
          /\ Cardinality(Tracked') > MaxTracked
          => \A a \in Tracked' : reqs[r].at < windows'[a].start + Window]_vars

\* Why windows are apart: an address without an entry had a window that is over.
WindowsInv ==
    /\ TypeOK
    /\ \A r \in Request :
          reqs[r].phase = "waiting"
          => /\ reqs[r].address \in Address
             /\ elapsed - MaxDelay <= reqs[r].read /\ reqs[r].read <= elapsed
             /\ reqs[r].read - back <= reqs[r].at /\ reqs[r].at <= reqs[r].read + ahead
    /\ \A a \in Address :
          /\ opened[a].ever => opened[a].start >= opened[a].elapsed - MaxDelay - back
          /\ windows[a].tracked => opened[a].ever /\ windows[a].start = opened[a].start
          /\ opened[a].ever /\ ~windows[a].tracked => opened[a].start + Window <= elapsed + ahead

\* All but the last k of the times are at most t.
AllButLast(times, k, t) ==
    \A i \in 1..Len(times) : i <= Len(times) - k => times[i] <= t

\* Why bursts are bounded: of the last admissions, those counted by the entry
\* were in the window in force, and at most Limit in the window before.
BurstInv ==
    /\ WindowsInv /\ BurstBound
    /\ \A a \in Address :
          LET earlier == opened[a].elapsed - (Window - MaxDelay - back - ahead)
          IN  /\ Len(admitted[a]) <= 2 * Limit + 1
              /\ ~opened[a].ever => admitted[a] = <<>>
              /\ opened[a].elapsed <= elapsed
              /\ AllButLast(admitted[a], 0, elapsed)
              /\ AllButLast(admitted[a], Limit, opened[a].elapsed)
              /\ windows[a].tracked
                 => /\ AllButLast(admitted[a], windows[a].count, opened[a].elapsed)
                    /\ AllButLast(admitted[a], windows[a].count + Limit, earlier)

\* The last k of the times are at least t.
LastFrom(times, k, t) ==
    /\ k <= Len(times)
    /\ \A i \in 1..Len(times) : i > Len(times) - k => times[i] >= t

\* Between the start of a window and a later reading the clock advanced by the
\* time that passed, less what it was set back.
FarFromStart(a, r) ==
    reqs[r].phase = "waiting" /\ opened[a].ever /\ reqs[r].read > opened[a].elapsed
    => reqs[r].at - opened[a].start >= reqs[r].read - opened[a].elapsed - back

\* Why refusals are deserved: what an entry counts are the last admissions of
\* its own address, since its window opened; and when the window ends after the
\* time the address was told, all of them came since.
RefusalInv ==
    /\ BurstInv
    /\ \A a \in Address :
          /\ opened[a].ever => opened[a].start <= opened[a].elapsed + ahead
          /\ \A r \in Request : FarFromStart(a, r)
          /\ windows[a].tracked
             => /\ LastFrom(admitted[a], windows[a].count, opened[a].elapsed)
                /\ windows[a].start + Window > promise[a].until
                   => windows[a].count <= promise[a].since

=============================================================================
