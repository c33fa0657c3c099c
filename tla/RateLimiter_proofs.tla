-------------------------- MODULE RateLimiter_proofs --------------------------
(***************************************************************************)
(* Proofs about the rate limiter: windows of an address open apart, bursts *)
(* are bounded, refusals are deserved and end when they were said to, and  *)
(* the table holds live windows, for every limit, window and table.        *)
(***************************************************************************)
EXTENDS RateLimiter, FiniteSetTheorems, TLAPS

-----------------------------------------------------------------------------
LEMMA InitWindows == Init => WindowsInv
BY LimiterConstants DEF Init, WindowsInv, TypeOK, Entry, NoEntry, Idle

\* The table keeps its type when entries are dropped, and what it keeps it had.
LEMMA PurgedEntries ==
    ASSUME TypeOK, NEW at \in Int
    PROVE  /\ Purged(at) \in [Address -> Entry]
           /\ \A b \in Address :
                 \/ Purged(at)[b] = windows[b]
                 \/ Purged(at)[b] = NoEntry /\ ~Live(windows[b], at)
<1>1. NoEntry \in Entry /\ windows \in [Address -> Entry]
  BY LimiterConstants DEF NoEntry, Entry, TypeOK
<1> QED
  BY <1>1 DEF Purged

\* The entry a request is counted in, and the table it leaves.
LEMMA CheckedEntry ==
    ASSUME WindowsInv, NEW r \in Request, Check(r)
    PROVE  LET a == reqs[r].address
               at == reqs[r].at
               entry == Current(a, at)
           IN  /\ a \in Address /\ at \in Int /\ entry \in Entry /\ entry.tracked
               /\ windows' \in [Address -> Entry]
               /\ \A b \in Address \ {a} : windows'[b] = Purged(at)[b]
               /\ windows'[a].tracked /\ windows'[a].start = entry.start
               /\ \/ /\ entry = windows[a] /\ windows[a].tracked /\ opened' = opened
                  \/ /\ entry = [tracked |-> TRUE, start |-> at, count |-> 0]
                     /\ ~Live(windows[a], at)
                     /\ opened' = [opened EXCEPT ![a] =
                                     [ever |-> TRUE, start |-> at, elapsed |-> elapsed]]
<1> DEFINE a == reqs[r].address
           at == reqs[r].at
           entry == Current(a, at)
<1>1. a \in Address /\ at \in Int /\ TypeOK
  BY DEF WindowsInv, Check, TypeOK
<1>2. /\ Purged(at) \in [Address -> Entry] /\ windows \in [Address -> Entry]
      /\ \A b \in Address : \/ Purged(at)[b] = windows[b]
                            \/ Purged(at)[b] = NoEntry /\ ~Live(windows[b], at)
  BY <1>1, PurgedEntries DEF TypeOK
<1>3. [tracked |-> TRUE, start |-> at, count |-> 0] \in Entry
  BY <1>1, LimiterConstants DEF Entry
<1>4. CASE Live(Purged(at)[a], at)
  <2>1. entry = Purged(at)[a] /\ entry.tracked /\ opened' = opened
    BY <1>4 DEF Current, Check, Live
  <2>2. entry = windows[a] /\ entry \in Entry
    BY <1>1, <1>2, <1>4, <2>1 DEF Live, NoEntry
  <2>3. windows'[a] \in Entry /\ windows'[a].tracked /\ windows'[a].start = entry.start
    <3>1. CASE windows' = [Purged(at) EXCEPT ![a] = [entry EXCEPT !.count = @ + 1]]
               /\ entry.count < Limit
      <4>1. [entry EXCEPT !.count = @ + 1] \in Entry
        BY <2>2, <3>1, LimiterConstants DEF Entry
      <4> QED
        BY <1>1, <1>2, <2>1, <2>2, <3>1, <4>1 DEF Entry
    <3>2. CASE windows' = [Purged(at) EXCEPT ![a] = entry]
      BY <1>1, <1>2, <2>1, <2>2, <3>2
    <3> QED
      BY <3>1, <3>2 DEF Check
  <2>4. /\ windows' \in [Address -> Entry]
        /\ \A b \in Address \ {a} : windows'[b] = Purged(at)[b]
    BY <1>1, <1>2, <2>3 DEF Check
  <2> QED
    BY <1>1, <2>1, <2>2, <2>3, <2>4
<1>5. CASE ~Live(Purged(at)[a], at)
  <2>1. /\ entry = [tracked |-> TRUE, start |-> at, count |-> 0]
        /\ opened' = [opened EXCEPT ![a] = [ever |-> TRUE, start |-> at, elapsed |-> elapsed]]
    BY <1>5 DEF Current, Check
  <2>2. entry \in Entry /\ ~Live(windows[a], at)
    BY <1>1, <1>2, <1>3, <1>5, <2>1
  <2>3. windows'[a] \in Entry /\ windows'[a].tracked /\ windows'[a].start = entry.start
    <3>1. CASE windows' = [Purged(at) EXCEPT ![a] = [entry EXCEPT !.count = @ + 1]]
               /\ entry.count < Limit
      <4>1. [entry EXCEPT !.count = @ + 1] \in Entry
        BY <2>2, <3>1, LimiterConstants DEF Entry
      <4> QED
        BY <1>1, <1>2, <2>1, <2>2, <3>1, <4>1 DEF Entry
    <3>2. CASE windows' = [Purged(at) EXCEPT ![a] = entry]
      BY <1>1, <1>2, <2>1, <2>2, <3>2
    <3> QED
      BY <3>1, <3>2 DEF Check
  <2>4. /\ windows' \in [Address -> Entry]
        /\ \A b \in Address \ {a} : windows'[b] = Purged(at)[b]
    BY <1>1, <1>2, <2>3 DEF Check
  <2> QED
    BY <1>1, <2>1, <2>2, <2>3, <2>4
<1> QED
  BY <1>4, <1>5

\* What is remembered of the admissions: the new one is the last, and the
\* oldest may be forgotten.
LEMMA RememberedTimes ==
    ASSUME TypeOK, NEW times \in Seq(0..MaxTime)
    PROVE  /\ Remember(times) \in Seq(0..MaxTime) /\ Len(Remember(times)) \in Nat
           /\ Len(times) <= 2 * Limit + 1 => Len(Remember(times)) <= 2 * Limit + 1
           /\ \E shift \in {0, 1} :
                 /\ Len(Remember(times)) = Len(times) + 1 - shift
                 /\ \A i \in 1..Len(Remember(times)) :
                       Remember(times)[i] = IF i = Len(Remember(times)) THEN elapsed
                                            ELSE times[i + shift]
<1> DEFINE all == Append(times, elapsed)
<1>1. /\ all \in Seq(0..MaxTime) /\ Len(all) = Len(times) + 1 /\ Len(times) \in Nat
      /\ \A i \in 1..Len(all) : all[i] = IF i = Len(all) THEN elapsed ELSE times[i]
  <2>1. elapsed \in 0..MaxTime /\ Len(times) \in Nat
    BY DEF TypeOK
  <2>2. all \in Seq(0..MaxTime) /\ Len(all) = Len(times) + 1
    BY <2>1
  <2>3. \A i \in 1..Len(all) : all[i] = IF i = Len(all) THEN elapsed ELSE times[i]
    BY <2>1, <2>2
  <2> QED
    BY <2>1, <2>2, <2>3
<1>0. Limit \in Nat
  BY LimiterConstants
<1>2. CASE Len(all) > 2 * Limit + 1
  <2>1. Remember(times) = Tail(all)
    BY <1>2 DEF Remember
  <2>2. /\ Tail(all) \in Seq(0..MaxTime) /\ Len(Tail(all)) = Len(times)
        /\ \A i \in 1..Len(Tail(all)) : Tail(all)[i] = all[i + 1]
    BY <1>1
  <2>3. \A i \in 1..Len(times) :
           Tail(all)[i] = IF i = Len(times) THEN elapsed ELSE times[i + 1]
    BY <1>1, <2>2
  <2> DEFINE last == Remember(times)
  <2>4. /\ last \in Seq(0..MaxTime) /\ Len(last) = Len(times)
        /\ \A i \in 1..Len(last) : last[i] = IF i = Len(last) THEN elapsed ELSE times[i + 1]
    BY <2>1, <2>2, <2>3
  <2> HIDE DEF last
  <2>5. \E shift \in {0, 1} :
           /\ Len(last) = Len(times) + 1 - shift
           /\ \A i \in 1..Len(last) :
                 last[i] = IF i = Len(last) THEN elapsed ELSE times[i + shift]
    BY <1>1, <2>4
  <2> QED
    BY <1>1, <2>4, <2>5 DEF last
<1>3. CASE ~(Len(all) > 2 * Limit + 1)
  BY <1>0, <1>1, <1>3 DEF Remember
<1> QED
  BY <1>2, <1>3

LEMMA CheckTypes ==
    ASSUME WindowsInv, NEW r \in Request, Check(r)
    PROVE  TypeOK'
<1> DEFINE a == reqs[r].address
           at == reqs[r].at
           entry == Current(a, at)
<1>1. TypeOK /\ a \in Address /\ at \in Int /\ entry.start \in Int
  BY CheckedEntry DEF WindowsInv, Entry
<1>2. windows' \in [Address -> Entry]
  BY CheckedEntry
<1>3. reqs' \in [Request -> [phase : {"idle", "waiting"},
                             address : Address \cup {NoAddress}, at : Int,
                             read : 0..MaxTime]]
  <2>1. Idle \in [phase : {"idle", "waiting"}, address : Address \cup {NoAddress},
                  at : Int, read : 0..MaxTime]
    BY LimiterConstants DEF Idle
  <2>2. reqs' = [reqs EXCEPT ![r] = Idle]
    BY DEF Check
  <2> QED
    BY <1>1, <2>1, <2>2 DEF TypeOK
<1>4. opened' \in [Address -> [ever : BOOLEAN, start : Int, elapsed : 0..MaxTime]]
  BY <1>1 DEF Check, TypeOK
<1>5. admitted' \in [Address -> Seq(0..MaxTime)]
  <2>1. admitted[a] \in Seq(0..MaxTime)
    BY <1>1 DEF TypeOK
  <2>2. Remember(admitted[a]) \in Seq(0..MaxTime)
    BY <1>1, <2>1, RememberedTimes
  <2>3. admitted \in [Address -> Seq(0..MaxTime)]
    BY <1>1 DEF TypeOK
  <2>4. admitted' = [admitted EXCEPT ![a] = Remember(@)] \/ admitted' = admitted
    BY DEF Check
  <2> QED
    BY <1>1, <2>2, <2>3, <2>4
<1>6. promise' \in [Address -> [until : Int, since : Nat]]
  <2>1. [until |-> at + RetryAfter(entry, at), since |-> 0] \in [until : Int, since : Nat]
    BY <1>1, LimiterConstants DEF RetryAfter
  <2>2. promise[a] \in [until : Int, since : Nat] /\ Limit \in Nat
    BY <1>1, LimiterConstants DEF TypeOK
  <2>3. [promise[a] EXCEPT !.since = IF @ < Limit THEN @ + 1 ELSE Limit]
          \in [until : Int, since : Nat]
    BY <2>2
  <2>4. CASE promise' = [promise EXCEPT ![a].since = IF @ < Limit THEN @ + 1 ELSE Limit]
    BY <1>1, <2>3, <2>4 DEF TypeOK
  <2>5. CASE promise' = [promise EXCEPT ![a] =
                           [until |-> at + RetryAfter(entry, at), since |-> 0]]
    BY <1>1, <2>1, <2>5 DEF TypeOK
  <2> QED
    BY <2>4, <2>5 DEF Check
<1> QED
  BY <1>1, <1>2, <1>3, <1>4, <1>5, <1>6 DEF Check, TypeOK

\* How far the reading of a request that waits is from the present.
LEMMA ReadingBounds ==
    ASSUME WindowsInv, NEW r \in Request, reqs[r].phase = "waiting"
    PROVE  /\ reqs[r].address \in Address /\ reqs[r].at \in Int
           /\ elapsed - MaxDelay - back <= reqs[r].at /\ reqs[r].at <= elapsed + ahead
<1>1. /\ elapsed - MaxDelay <= reqs[r].read /\ reqs[r].read <= elapsed
      /\ reqs[r].read - back <= reqs[r].at /\ reqs[r].at <= reqs[r].read + ahead
      /\ reqs[r].address \in Address
  BY DEF WindowsInv
<1>2. /\ reqs[r].read \in Int /\ reqs[r].at \in Int
      /\ elapsed \in Int /\ back \in Int /\ ahead \in Int /\ MaxDelay \in Int
  BY LimiterConstants DEF WindowsInv, TypeOK
<1> QED
  BY <1>1, <1>2

\* When a request opens a window, the one before it is over at its time.
LEMMA OpenedOver ==
    ASSUME WindowsInv, NEW r \in Request, Check(r), opened[reqs[r].address].ever,
           ~Live(windows[reqs[r].address], reqs[r].at)
    PROVE  opened[reqs[r].address].start + Window <= elapsed + ahead
<1>1. /\ reqs[r].address \in Address /\ reqs[r].at \in Int /\ reqs[r].at <= elapsed + ahead
      /\ elapsed \in Int /\ ahead \in Int /\ Window \in Int
      /\ opened[reqs[r].address].start \in Int
  <2>1. reqs[r].address \in Address /\ reqs[r].at \in Int /\ reqs[r].at <= elapsed + ahead
    BY ReadingBounds DEF Check
  <2> QED
    BY <2>1, LimiterConstants DEF WindowsInv, TypeOK
<1> QED
  BY <1>1 DEF WindowsInv, Live

LEMMA NextWindows == WindowsInv /\ [Next]_vars => WindowsInv'
<1> SUFFICES ASSUME WindowsInv, [Next]_vars PROVE WindowsInv'
  OBVIOUS
<1>0. /\ TypeOK /\ elapsed \in Nat /\ back \in Nat /\ ahead \in Nat
      /\ Window \in Nat /\ MaxDelay \in Nat /\ MaxTime \in Nat /\ MaxCorrections \in Nat
  BY LimiterConstants DEF WindowsInv, TypeOK
<1>1. CASE UNCHANGED vars
  BY <1>1 DEF vars, WindowsInv, TypeOK
<1>2. CASE Tick
  <2>1. TypeOK'
    BY <1>0, <1>2 DEF Tick, TypeOK, history
  <2>2. /\ UNCHANGED <<back, ahead, windows, reqs, opened>> /\ elapsed' = elapsed + 1
        /\ \A r \in Request :
              reqs[r].phase = "waiting" => reqs[r].read >= elapsed + 1 - MaxDelay
    BY <1>2 DEF Tick, history
  <2>3. ASSUME NEW r \in Request, reqs[r].phase = "waiting"
        PROVE  elapsed' - MaxDelay <= reqs[r].read /\ reqs[r].read <= elapsed'
    BY <1>0, <2>2, <2>3 DEF WindowsInv, TypeOK
  <2>4. ASSUME NEW a \in Address, opened[a].start + Window <= elapsed + ahead
        PROVE  opened[a].start + Window <= elapsed' + ahead
    BY <1>0, <2>2, <2>4 DEF TypeOK
  <2> QED
    BY <2>1, <2>2, <2>3, <2>4 DEF WindowsInv
<1>3. CASE SetBack \/ SetForward
  <2>1. TypeOK'
    BY <1>0, <1>3 DEF SetBack, SetForward, TypeOK, history
  <2>2. /\ UNCHANGED <<elapsed, windows, reqs, opened>>
        /\ back <= back' /\ ahead <= ahead' /\ back' \in Nat /\ ahead' \in Nat
    BY <1>0, <1>3 DEF SetBack, SetForward, history
  <2>3. ASSUME NEW r \in Request, reqs[r].phase = "waiting"
        PROVE  reqs[r].read - back' <= reqs[r].at /\ reqs[r].at <= reqs[r].read + ahead'
    <3>1. reqs[r].read - back <= reqs[r].at /\ reqs[r].at <= reqs[r].read + ahead
      BY <2>3 DEF WindowsInv
    <3>2. reqs[r].read \in Int /\ reqs[r].at \in Int
      BY <1>0 DEF TypeOK
    <3> QED
      BY <1>0, <2>2, <3>1, <3>2
  <2>4. ASSUME NEW a \in Address
        PROVE  /\ opened[a].ever => opened[a].start >= opened[a].elapsed - MaxDelay - back'
               /\ opened[a].start + Window <= elapsed + ahead
                  => opened[a].start + Window <= elapsed + ahead'
    <3>1. opened[a].start \in Int /\ opened[a].elapsed \in Int
      BY <1>0 DEF TypeOK
    <3>2. opened[a].ever => opened[a].elapsed - MaxDelay - back <= opened[a].start
      BY <1>0, <3>1 DEF WindowsInv
    <3> QED
      BY <1>0, <2>2, <3>1, <3>2
  <2> QED
    BY <2>1, <2>2, <2>3, <2>4 DEF WindowsInv
<1>4. ASSUME NEW r \in Request, NEW forwarded \in Address \cup {NoAddress},
             NEW peer \in Address \cup {NoAddress}, Arrive(r, forwarded, peer)
      PROVE  WindowsInv'
  <2>1. ClientAddress(forwarded, peer) \in Address /\ Now \in Int /\ elapsed \in 0..MaxTime
    BY <1>0, <1>4 DEF Arrive, ClientAddress, Now, TypeOK
  <2>2. TypeOK'
    BY <1>0, <1>4, <2>1 DEF Arrive, TypeOK, history
  <2>3. ASSUME NEW q \in Request, reqs'[q].phase = "waiting"
        PROVE  /\ reqs'[q].address \in Address
               /\ elapsed - MaxDelay <= reqs'[q].read /\ reqs'[q].read <= elapsed
               /\ reqs'[q].read - back <= reqs'[q].at /\ reqs'[q].at <= reqs'[q].read + ahead
    <3>1. CASE q = r
      BY <1>0, <1>4, <2>1, <3>1 DEF Arrive, Now, TypeOK
    <3>2. CASE q # r
      BY <1>0, <1>4, <2>3, <3>2 DEF Arrive, WindowsInv, TypeOK
    <3> QED
      BY <3>1, <3>2
  <2> QED
    BY <1>4, <2>2, <2>3 DEF Arrive, WindowsInv, history
<1>5. ASSUME NEW r \in Request, Check(r) PROVE WindowsInv'
  <2> DEFINE a == reqs[r].address
             at == reqs[r].at
  <2>1. TypeOK'
    BY <1>5, CheckTypes
  <2>2. ASSUME NEW q \in Request, reqs'[q].phase = "waiting"
        PROVE  /\ reqs'[q].address \in Address
               /\ elapsed' - MaxDelay <= reqs'[q].read /\ reqs'[q].read <= elapsed'
               /\ reqs'[q].read - back' <= reqs'[q].at
               /\ reqs'[q].at <= reqs'[q].read + ahead'
    <3>1. reqs'[q] = reqs[q] /\ UNCHANGED <<elapsed, back, ahead>>
      BY <1>0, <1>5, <2>2 DEF Check, TypeOK, Idle
    <3> QED
      BY <2>2, <3>1 DEF WindowsInv
  <2>3. /\ a \in Address /\ at \in Int
        /\ elapsed - MaxDelay - back <= at /\ at <= elapsed + ahead
        /\ UNCHANGED <<elapsed, back, ahead>>
    BY <1>5, ReadingBounds DEF Check
  <2>4. ASSUME NEW b \in Address
        PROVE  /\ opened'[b].ever => opened'[b].start >= opened'[b].elapsed - MaxDelay - back'
               /\ windows'[b].tracked => opened'[b].ever /\ windows'[b].start = opened'[b].start
               /\ opened'[b].ever /\ ~windows'[b].tracked
                    => opened'[b].start + Window <= elapsed' + ahead'
    <3>1. CASE b = a
      <4>1. CASE /\ Current(a, at) = windows[a] /\ windows[a].tracked /\ opened' = opened
        <5>1. windows'[a].tracked /\ windows'[a].start = windows[a].start
          BY <1>5, <4>1, CheckedEntry
        <5>2. /\ opened[a].ever /\ windows[a].start = opened[a].start
              /\ opened[a].start >= opened[a].elapsed - MaxDelay - back
          BY <2>3, <4>1 DEF WindowsInv
        <5> QED
          BY <2>3, <3>1, <4>1, <5>1, <5>2
      <4>2. CASE /\ Current(a, at) = [tracked |-> TRUE, start |-> at, count |-> 0]
                 /\ opened' = [opened EXCEPT ![a] =
                                 [ever |-> TRUE, start |-> at, elapsed |-> elapsed]]
        <5>1. opened'[a] = [ever |-> TRUE, start |-> at, elapsed |-> elapsed]
          BY <1>0, <2>3, <4>2 DEF TypeOK
        <5>2. windows'[a].tracked /\ windows'[a].start = at
          BY <1>5, <4>2, CheckedEntry
        <5> QED
          BY <2>3, <3>1, <5>1, <5>2
      <4> QED
        BY <1>5, <4>1, <4>2, CheckedEntry
    <3>2. CASE b # a
      <4>1. opened'[b] = opened[b] /\ windows'[b] = Purged(at)[b]
        BY <1>0, <1>5, <2>3, <3>2, CheckedEntry DEF Check, TypeOK
      <4>2. CASE Purged(at)[b] = windows[b]
        BY <2>3, <4>1, <4>2 DEF WindowsInv
      <4>3. CASE Purged(at)[b] = NoEntry /\ ~Live(windows[b], at)
        <5>1. opened[b].start \in Int /\ windows[b].start \in Int
          BY <1>0 DEF TypeOK, Entry
        <5> QED
          BY <1>0, <2>3, <4>1, <4>3, <5>1 DEF WindowsInv, Live, NoEntry
      <4> QED
        BY <1>0, <2>3, <4>2, <4>3, PurgedEntries
    <3> QED
      BY <3>1, <3>2
  <2> QED
    BY <2>1, <2>2, <2>4 DEF WindowsInv
<1> QED
  BY <1>1, <1>2, <1>3, <1>4, <1>5 DEF Next

\* Windows of one address open apart, whatever the order in which requests get
\* the mutex, whatever is purged and however the clock is corrected.
THEOREM LimiterWindowsApart == Spec => WindowsApart
<1> DEFINE Apart == \A a \in Address :
                       opened[a].ever /\ opened'[a] # opened[a]
                       => elapsed >= opened[a].elapsed + Window - MaxDelay - back - ahead
<1>1. ASSUME WindowsInv, [Next]_vars PROVE Apart
  <2> SUFFICES ASSUME NEW a \in Address, opened[a].ever, opened'[a] # opened[a]
               PROVE  elapsed >= opened[a].elapsed + Window - MaxDelay - back - ahead
    OBVIOUS
  <2>0. /\ elapsed \in Int /\ back \in Int /\ ahead \in Int /\ Window \in Int /\ MaxDelay \in Int
        /\ opened[a].start \in Int /\ opened[a].elapsed \in Int
        /\ opened \in [Address -> [ever : BOOLEAN, start : Int, elapsed : 0..MaxTime]]
    BY <1>1, LimiterConstants DEF WindowsInv, TypeOK
  <2>1. PICK r \in Request : Check(r)
    BY <1>1 DEF Next, Tick, SetBack, SetForward, Arrive, vars, history
  <2>2. a = reqs[r].address /\ ~Live(windows[a], reqs[r].at)
    BY <1>1, <2>0, <2>1, CheckedEntry
  <2>3. opened[a].start + Window <= elapsed + ahead
    BY <1>1, <2>1, <2>2, OpenedOver
  <2>4. opened[a].start >= opened[a].elapsed - MaxDelay - back
    BY <1>1 DEF WindowsInv
  <2> QED
    BY <2>0, <2>3, <2>4
<1> QED
  BY InitWindows, NextWindows, <1>1, PTL DEF Spec, WindowsApart

-----------------------------------------------------------------------------
(***************************************************************************)
(* Bursts.                                                                 *)
(***************************************************************************)
LEMMA TimesAreInts ==
    ASSUME NEW times \in Seq(0..MaxTime), NEW i \in 1..Len(times)
    PROVE  times[i] \in Int /\ times[i] \in Nat
<1>1. Len(times) \in Nat /\ times \in [1..Len(times) -> 0..MaxTime] /\ MaxTime \in Nat
  BY LimiterConstants
<1> QED
  BY <1>1

LEMMA WeakerBound ==
    ASSUME NEW times \in Seq(0..MaxTime), NEW k \in Nat, NEW l \in Nat, k <= l,
           NEW t \in Int, NEW u \in Int, t <= u, AllButLast(times, k, t)
    PROVE  AllButLast(times, l, u)
<1> SUFFICES ASSUME NEW i \in 1..Len(times), i <= Len(times) - l PROVE times[i] <= u
  BY DEF AllButLast
<1>1. times[i] \in Int /\ Len(times) \in Nat
  BY TimesAreInts
<1>2. times[i] <= t
  BY <1>1 DEF AllButLast
<1> QED
  BY <1>1, <1>2

\* One more admission is one more of the last ones.
LEMMA RememberBound ==
    ASSUME TypeOK, NEW times \in Seq(0..MaxTime), NEW k \in Nat,
           NEW t \in Int, AllButLast(times, k, t)
    PROVE  AllButLast(Remember(times), k + 1, t)
<1> DEFINE now == Remember(times)
<1>1. PICK shift \in {0, 1} :
         /\ Len(now) = Len(times) + 1 - shift
         /\ \A i \in 1..Len(now) : now[i] = IF i = Len(now) THEN elapsed ELSE times[i + shift]
  BY RememberedTimes
<1>2. Len(times) \in Nat /\ Len(now) \in Nat
  BY RememberedTimes
<1> HIDE DEF now
<1> SUFFICES ASSUME NEW i \in 1..Len(now), i <= Len(now) - (k + 1) PROVE now[i] <= t
  BY DEF AllButLast, now
<1>3. now[i] = times[i + shift] /\ i + shift \in 1..Len(times) /\ i + shift <= Len(times) - k
  BY <1>1, <1>2
<1> QED
  BY <1>3 DEF AllButLast

\* The new admission is the last of the times, and with it there are at most
\* as many as BurstBound looks at.
LEMMA RememberedBounds ==
    ASSUME TypeOK, NEW times \in Seq(0..MaxTime), Len(times) <= 2 * Limit + 1,
           AllButLast(times, 0, elapsed)
    PROVE  LET now == Remember(times)
           IN  /\ AllButLast(now, 0, elapsed)
               /\ Len(now) > 2 * Limit => /\ Len(now) = 2 * Limit + 1
                                          /\ now[2 * Limit + 1] = elapsed
<1> DEFINE now == Remember(times)
<1>1. PICK shift \in {0, 1} :
         /\ Len(now) = Len(times) + 1 - shift
         /\ \A i \in 1..Len(now) : now[i] = IF i = Len(now) THEN elapsed ELSE times[i + shift]
  BY RememberedTimes
<1>2. /\ Len(times) \in Nat /\ Len(now) \in Nat /\ Limit \in Nat /\ Len(now) <= 2 * Limit + 1
      /\ elapsed \in Int
  <2>1. elapsed \in Int /\ Limit \in Nat
    BY LimiterConstants DEF TypeOK
  <2> QED
    BY <2>1, RememberedTimes
<1> HIDE DEF now
<1>3. ASSUME NEW i \in 1..Len(now) PROVE now[i] <= elapsed
  <2>1. CASE i = Len(now)
    BY <1>1, <1>2, <2>1
  <2>2. CASE i # Len(now)
    <3>1. i + shift \in 1..Len(times) /\ now[i] = times[i + shift]
      BY <1>1, <1>2, <2>2
    <3>2. i + shift <= Len(times) - 0
      BY <1>2, <3>1
    <3> QED
      BY <3>1, <3>2 DEF AllButLast
  <2> QED
    BY <2>1, <2>2
<1>4. ASSUME Len(now) > 2 * Limit
      PROVE  Len(now) = 2 * Limit + 1 /\ now[2 * Limit + 1] = elapsed
  <2>1. Len(now) = 2 * Limit + 1 /\ Len(now) \in 1..Len(now)
    BY <1>2, <1>4
  <2> QED
    BY <1>1, <2>1
<1>5. AllButLast(now, 0, elapsed)
  BY <1>3 DEF AllButLast
<1> QED
  BY <1>4, <1>5 DEF now

\* What holds of one address.
Bounded(a) ==
    LET earlier == opened[a].elapsed - (Window - MaxDelay - back - ahead)
    IN  /\ Len(admitted[a]) <= 2 * Limit + 1
        /\ ~opened[a].ever => admitted[a] = <<>>
        /\ opened[a].elapsed <= elapsed
        /\ AllButLast(admitted[a], 0, elapsed)
        /\ AllButLast(admitted[a], Limit, opened[a].elapsed)
        /\ windows[a].tracked
           => /\ AllButLast(admitted[a], windows[a].count, opened[a].elapsed)
              /\ AllButLast(admitted[a], windows[a].count + Limit, earlier)

LEMMA InitBurst == Init => BurstInv
<1> SUFFICES ASSUME Init, NEW a \in Address
             PROVE  Bounded(a) /\ ~(Len(admitted[a]) > 2 * Limit)
  BY InitWindows DEF BurstInv, Bounded, BurstBound
<1>1. admitted[a] = <<>> /\ Len(admitted[a]) = 0 /\ Limit \in Nat
  BY LimiterConstants DEF Init
<1> QED
  BY <1>1 DEF Init, Bounded, AllButLast, NoEntry

\* Time that passes, and a clock that is corrected, only loosen the bounds.
LEMMA LooserBurst ==
    ASSUME BurstInv, NEW a \in Address,
           TypeOK', elapsed <= elapsed', back <= back' /\ ahead <= ahead',
           admitted'[a] = admitted[a], opened'[a] = opened[a],
           windows'[a] = windows[a] \/ ~windows'[a].tracked
    PROVE  /\ Bounded(a)'
           /\ Len(admitted'[a]) > 2 * Limit
              => admitted'[a][2 * Limit + 1] >= admitted'[a][1] + Window - MaxDelay - back' - ahead'
<1>0. TypeOK
  BY DEF BurstInv, WindowsInv
<1>1. /\ elapsed \in Nat /\ back \in Nat /\ ahead \in Nat
      /\ elapsed' \in Nat /\ back' \in Nat /\ ahead' \in Nat
      /\ Limit \in Nat /\ Window \in Nat /\ MaxDelay \in Nat
      /\ opened[a].elapsed \in Nat /\ windows[a].count \in Nat
  <2>1. elapsed \in Nat /\ back \in Nat /\ ahead \in Nat
    BY <1>0, LimiterConstants DEF TypeOK
  <2>5. elapsed' \in Nat /\ back' \in Nat /\ ahead' \in Nat
    BY LimiterConstants DEF TypeOK
  <2>2. opened[a].elapsed \in 0..MaxTime
    BY <1>0 DEF TypeOK
  <2>3. windows[a] \in Entry
    BY <1>0 DEF TypeOK
  <2>4. windows[a].count \in Nat
    BY <2>3, LimiterConstants DEF Entry
  <2> QED
    BY <2>1, <2>2, <2>4, <2>5, LimiterConstants
<1>8. admitted[a] \in Seq(0..MaxTime) /\ Len(admitted[a]) \in Nat
  BY <1>0 DEF TypeOK
<1> DEFINE before == opened[a].elapsed - (Window - MaxDelay - back - ahead)
           after == opened[a].elapsed - (Window - MaxDelay - back' - ahead')
<1>2. before \in Int /\ after \in Int /\ before <= after
  BY <1>1
<1>3. Bounded(a)
  BY DEF BurstInv, Bounded
<1>4. AllButLast(admitted[a], 0, elapsed')
  BY <1>1, <1>3, <1>8, WeakerBound DEF Bounded
<1>5. windows[a].tracked => AllButLast(admitted[a], windows[a].count + Limit, after)
  <2>1. windows[a].tracked => AllButLast(admitted[a], windows[a].count + Limit, before)
    BY <1>3 DEF Bounded
  <2>2. windows[a].count + Limit \in Nat
    BY <1>1
  <2> HIDE DEF before, after
  <2> QED
    BY <1>2, <1>8, <2>1, <2>2, WeakerBound
<1>6. Bounded(a)'
  <2>1. /\ Len(admitted[a]) <= 2 * Limit + 1
        /\ ~opened[a].ever => admitted[a] = <<>>
        /\ AllButLast(admitted[a], Limit, opened[a].elapsed)
        /\ windows[a].tracked
             => AllButLast(admitted[a], windows[a].count, opened[a].elapsed)
    BY <1>3 DEF Bounded
  <2>2. opened[a].elapsed <= elapsed'
    BY <1>1, <1>3 DEF Bounded
  <2>3. /\ Len(admitted'[a]) <= 2 * Limit + 1
        /\ ~opened'[a].ever => admitted'[a] = <<>>
        /\ opened'[a].elapsed <= elapsed' /\ AllButLast(admitted'[a], 0, elapsed')
        /\ AllButLast(admitted'[a], Limit, opened'[a].elapsed)
    BY <1>4, <2>1, <2>2
  <2>4. windows'[a].tracked
        => /\ AllButLast(admitted'[a], windows'[a].count, opened'[a].elapsed)
           /\ AllButLast(admitted'[a], windows'[a].count + Limit,
                          opened'[a].elapsed - (Window - MaxDelay - back' - ahead'))
    <3>1. CASE windows'[a] = windows[a]
      BY <1>5, <2>1, <3>1
    <3>2. CASE ~windows'[a].tracked
      BY <3>2
    <3> QED
      BY <3>1, <3>2
  <2> QED
    BY <2>3, <2>4 DEF Bounded
<1>7. ASSUME Len(admitted[a]) > 2 * Limit
      PROVE  admitted[a][2 * Limit + 1] >= admitted[a][1] + Window - MaxDelay - back' - ahead'
  <2>1. admitted[a][2 * Limit + 1] \in Int /\ admitted[a][1] \in Int
    <3>1. 1 \in 1..Len(admitted[a]) /\ 2 * Limit + 1 \in 1..Len(admitted[a])
      BY <1>1, <1>7, <1>8
    <3> QED
      BY <1>8, <3>1, TimesAreInts
  <2>2. admitted[a][2 * Limit + 1] >= admitted[a][1] + Window - MaxDelay - back - ahead
    BY <1>7 DEF BurstInv, BurstBound
  <2> QED
    BY <1>1, <2>1, <2>2
<1> QED
  BY <1>6, <1>7

\* The admissions of an address before a request is counted in its entry.
LEMMA BeforeCheck ==
    ASSUME BurstInv, NEW r \in Request, Check(r)
    PROVE  LET a == reqs[r].address
               entry == Current(a, reqs[r].at)
           IN  /\ opened'[a].ever /\ opened'[a].elapsed \in Nat /\ opened'[a].elapsed <= elapsed
               /\ AllButLast(admitted[a], entry.count, opened'[a].elapsed)
               /\ AllButLast(admitted[a], entry.count + Limit,
                             opened'[a].elapsed - (Window - MaxDelay - back - ahead))
<1> DEFINE a == reqs[r].address
           at == reqs[r].at
           entry == Current(a, at)
<1>1. WindowsInv /\ TypeOK /\ a \in Address /\ Bounded(a)
  BY CheckedEntry DEF BurstInv, WindowsInv, Bounded
<1>0. /\ elapsed \in Nat /\ back \in Nat /\ ahead \in Nat
      /\ Window \in Nat /\ MaxDelay \in Nat /\ Limit \in Nat
      /\ opened[a].elapsed \in Nat
  <2>1. opened[a].elapsed \in 0..MaxTime
    BY <1>1 DEF TypeOK
  <2> QED
    BY <1>1, <2>1, LimiterConstants DEF TypeOK
<1>2. /\ elapsed \in Nat /\ back \in Nat /\ ahead \in Nat
      /\ Window \in Nat /\ MaxDelay \in Nat /\ Limit \in Nat
      /\ admitted[a] \in Seq(0..MaxTime) /\ opened[a].elapsed \in Nat
      /\ opened \in [Address -> [ever : BOOLEAN, start : Int, elapsed : 0..MaxTime]]
  BY <1>0, <1>1 DEF TypeOK
<1>3. CASE entry = windows[a] /\ windows[a].tracked /\ opened' = opened
  <2>1. opened[a].ever
    BY <1>1, <1>3 DEF WindowsInv
  <2> QED
    BY <1>1, <1>2, <1>3, <2>1 DEF Bounded
<1>4. CASE /\ entry = [tracked |-> TRUE, start |-> at, count |-> 0]
           /\ ~Live(windows[a], at)
           /\ opened' = [opened EXCEPT ![a] = [ever |-> TRUE, start |-> at, elapsed |-> elapsed]]
  <2>1. opened'[a].ever /\ opened'[a].elapsed = elapsed /\ entry.count = 0
    BY <1>1, <1>2, <1>4
  <2>2. AllButLast(admitted[a], 0, elapsed)
    BY <1>1 DEF Bounded
  <2>3. AllButLast(admitted[a], Limit, elapsed - (Window - MaxDelay - back - ahead))
    <3>1. CASE opened[a].ever
      <4>1. opened[a].start + Window <= elapsed + ahead
        BY <1>1, <1>4, <3>1, OpenedOver
      <4>2. opened[a].start >= opened[a].elapsed - MaxDelay - back /\ opened[a].start \in Int
        BY <1>1, <3>1 DEF WindowsInv, TypeOK
      <4>3. opened[a].elapsed <= elapsed - (Window - MaxDelay - back - ahead)
        BY <1>0, <4>1, <4>2
      <4>4. AllButLast(admitted[a], Limit, opened[a].elapsed)
        BY <1>1 DEF Bounded
      <4>5. elapsed - (Window - MaxDelay - back - ahead) \in Int
        BY <1>0
      <4> QED
        BY <1>2, <4>3, <4>4, <4>5, WeakerBound
    <3>2. CASE ~opened[a].ever
      <4>1. admitted[a] = <<>>
        BY <1>1, <3>2 DEF Bounded
      <4> QED
        BY <4>1 DEF AllButLast
    <3> QED
      BY <3>1, <3>2
  <2> QED
    BY <1>2, <2>1, <2>2, <2>3
<1> QED
  BY <1>1, <1>3, <1>4, CheckedEntry

LEMMA CheckBurst ==
    ASSUME BurstInv, NEW r \in Request, NEW a \in Address, a = reqs[r].address, Check(r)
    PROVE  /\ Bounded(a)'
           /\ Len(admitted'[a]) > 2 * Limit
              => admitted'[a][2 * Limit + 1] >= admitted'[a][1] + Window - MaxDelay - back' - ahead'
<1> DEFINE entry == Current(a, reqs[r].at)
           opens == opened'[a].elapsed
           earlier == opens - (Window - MaxDelay - back - ahead)
<1>1. WindowsInv /\ TypeOK /\ a \in Address /\ Bounded(a) /\ TypeOK'
  BY CheckedEntry, CheckTypes DEF BurstInv, WindowsInv, Bounded
<1>2. /\ elapsed \in Nat /\ back \in Nat /\ ahead \in Nat
      /\ Window \in Nat /\ MaxDelay \in Nat /\ Limit \in Nat
      /\ admitted[a] \in Seq(0..MaxTime) /\ Len(admitted[a]) \in Nat
      /\ Len(admitted[a]) <= 2 * Limit + 1
      /\ AllButLast(admitted[a], 0, elapsed)
  <2>1. /\ elapsed \in Nat /\ back \in Nat /\ ahead \in Nat
        /\ Window \in Nat /\ MaxDelay \in Nat /\ Limit \in Nat
    BY <1>1, LimiterConstants DEF TypeOK
  <2>2. admitted[a] \in Seq(0..MaxTime) /\ Len(admitted[a]) \in Nat
    <3>1. admitted[a] \in Seq(0..MaxTime)
      BY <1>1 DEF TypeOK
    <3> QED
      BY <3>1
  <2>3. Len(admitted[a]) <= 2 * Limit + 1 /\ AllButLast(admitted[a], 0, elapsed)
    BY <1>1 DEF Bounded
  <2> QED
    BY <2>1, <2>2, <2>3
<1>3. /\ opened'[a].ever /\ opens \in Nat /\ opens <= elapsed
      /\ AllButLast(admitted[a], entry.count, opens)
      /\ AllButLast(admitted[a], entry.count + Limit, earlier)
  BY BeforeCheck
<1>4. entry.count \in 0..Limit /\ entry.count \in Nat /\ earlier \in Int
  <2>1. entry \in Entry
    BY <1>1, CheckedEntry
  <2> QED
    BY <1>2, <1>3, <2>1 DEF Entry
<1>5. UNCHANGED <<elapsed, back, ahead>> /\ windows'[a].tracked
  BY <1>1, CheckedEntry DEF Check
<1>6. CASE /\ entry.count >= Limit
           /\ windows' = [Purged(reqs[r].at) EXCEPT ![a] = entry]
           /\ UNCHANGED admitted
  <2>1. windows'[a] = entry
    BY <1>1, <1>6, PurgedEntries DEF TypeOK
  <2>2. AllButLast(admitted[a], Limit, opens)
    <3>1. entry.count <= Limit /\ opens \in Int /\ opens <= opens
      BY <1>3, <1>4
    <3> HIDE DEF opens, entry
    <3> QED
      BY <1>2, <1>3, <1>4, <3>1, WeakerBound
  <2> QED
    <3>1. Bounded(a)'
      BY <1>2, <1>3, <1>5, <1>6, <2>1, <2>2 DEF Bounded
    <3>2. Len(admitted[a]) > 2 * Limit
          => admitted[a][2 * Limit + 1] >= admitted[a][1] + Window - MaxDelay - back - ahead
      BY <1>1 DEF BurstInv, BurstBound
    <3> QED
      BY <1>5, <1>6, <3>1, <3>2
<1>7. CASE /\ entry.count < Limit
           /\ windows' = [Purged(reqs[r].at) EXCEPT ![a] = [entry EXCEPT !.count = @ + 1]]
           /\ admitted' = [admitted EXCEPT ![a] = Remember(@)]
  <2> DEFINE times == admitted'[a]
             count == entry.count + 1
  <2>1. windows'[a].count = count /\ count \in Nat /\ count <= Limit
    <3>1. entry \in Entry /\ Purged(reqs[r].at) \in [Address -> Entry] /\ reqs[r].at \in Int
      BY <1>1, CheckedEntry, PurgedEntries
    <3>2. windows'[a] = [entry EXCEPT !.count = @ + 1]
      BY <1>1, <1>7, <3>1
    <3>3. windows'[a].count = count
      BY <3>1, <3>2 DEF Entry
    <3>4. Limit \in Nat /\ entry.count \in Nat /\ entry.count < Limit
      BY <1>4, <1>7, LimiterConstants
    <3> QED
      BY <3>3, <3>4
  <2>2. times = Remember(admitted[a])
    BY <1>1, <1>7 DEF TypeOK
  <2>3. /\ times \in Seq(0..MaxTime) /\ Len(times) \in Nat /\ Len(times) <= 2 * Limit + 1
        /\ \E shift \in {0, 1} :
              /\ Len(times) = Len(admitted[a]) + 1 - shift
              /\ \A i \in 1..Len(times) :
                    times[i] = IF i = Len(times) THEN elapsed ELSE admitted[a][i + shift]
    BY <1>1, <1>2, <2>2, RememberedTimes
  <2>4. /\ AllButLast(times, count, opens)
        /\ AllButLast(times, count + Limit, earlier)
    <3>1. AllButLast(times, entry.count + 1, opens)
      <4>1. opens \in Int /\ AllButLast(admitted[a], entry.count, opens)
        BY <1>3
      <4> QED
        BY <1>1, <1>2, <1>4, <2>2, <4>1, RememberBound
    <3>2. AllButLast(times, entry.count + Limit + 1, earlier)
      <4>1. entry.count + Limit \in Nat
        BY <1>2, <1>4
      <4> QED
        BY <1>1, <1>2, <1>3, <1>4, <2>2, <4>1, RememberBound
    <3>3. entry.count + Limit + 1 = count + Limit
      BY <1>2, <1>4
    <3> QED
      BY <3>1, <3>2, <3>3
  <2> HIDE DEF times, count
  <2>5. AllButLast(times, Limit, opens)
    <3>1. times \in Seq(0..MaxTime) /\ AllButLast(times, count, opens) /\ opens \in Int
      <4>1. opens \in Int
        BY <1>3
      <4>2. times \in Seq(0..MaxTime)
        BY <2>3
      <4> QED
        BY <2>4, <4>1, <4>2
    <3> QED
      BY <1>2, <2>1, <3>1, WeakerBound
  <2>6. /\ AllButLast(times, 0, elapsed)
        /\ Len(times) > 2 * Limit => /\ Len(times) = 2 * Limit + 1
                                     /\ times[2 * Limit + 1] = elapsed
    BY <1>1, <1>2, <2>2, RememberedBounds
  <2>7. Bounded(a)'
    <3>1. Len(times) <= 2 * Limit + 1
      BY <2>3
    <3>2. windows'[a].count = count /\ elapsed' = elapsed /\ back' = back /\ ahead' = ahead
      BY <1>5, <2>1
    <3> QED
      BY <1>3, <2>4, <2>5, <2>6, <3>1, <3>2 DEF Bounded, times
  <2>8. ASSUME Len(times) > 2 * Limit
        PROVE  times[2 * Limit + 1] >= times[1] + Window - MaxDelay - back - ahead
    <3>1. Len(times) = 2 * Limit + 1 /\ times[2 * Limit + 1] = elapsed
      BY <2>6, <2>8
    <3>2. 1 \in 1..Len(times) /\ 1 <= Len(times) - (count + Limit)
      BY <1>2, <2>1, <3>1
    <3>3. times[1] <= earlier
      BY <2>4, <3>2 DEF AllButLast
    <3>4. times[1] \in Int
      BY <2>3, <3>2, TimesAreInts
    <3> QED
      BY <1>2, <1>3, <3>1, <3>3, <3>4
  <2> QED
    BY <1>5, <2>7, <2>8 DEF times
<1> QED
  BY <1>6, <1>7 DEF Check

LEMMA NextBurst == BurstInv /\ [Next]_vars => BurstInv'
<1> SUFFICES ASSUME BurstInv, [Next]_vars PROVE BurstInv'
  OBVIOUS
<1>1. WindowsInv' /\ WindowsInv /\ TypeOK /\ TypeOK'
  BY NextWindows DEF BurstInv, WindowsInv
<1>2. elapsed \in Nat /\ back \in Nat /\ ahead \in Nat
  BY <1>1 DEF TypeOK
<1> DEFINE Good(a) ==
             /\ Bounded(a)
             /\ Len(admitted[a]) > 2 * Limit
                => admitted[a][2 * Limit + 1] >= admitted[a][1] + Window - MaxDelay - back - ahead
<1>3. (\A a \in Address : Good(a)') => BurstInv'
  BY <1>1 DEF BurstInv, BurstBound, Bounded
<1>4. CASE /\ elapsed <= elapsed' /\ back <= back' /\ ahead <= ahead'
           /\ UNCHANGED <<windows, opened, admitted>>
  <2>1. \A a \in Address : Good(a)'
    BY <1>1, <1>4, LooserBurst
  <2> QED
    BY <1>3, <2>1
<1>5. ASSUME NEW r \in Request, Check(r) PROVE BurstInv'
  <2> SUFFICES ASSUME NEW b \in Address PROVE Good(b)'
    BY <1>3
  <2>1. CASE b = reqs[r].address
    BY <1>5, <2>1, CheckBurst
  <2>2. CASE b # reqs[r].address
    <3>1. reqs[r].address \in Address /\ reqs[r].at \in Int /\ windows'[b] = Purged(reqs[r].at)[b]
      BY <1>1, <1>5, <2>2, CheckedEntry
    <3>2. windows'[b] = windows[b] \/ ~windows'[b].tracked
      BY <1>1, <3>1, PurgedEntries DEF NoEntry
    <3>3. /\ elapsed <= elapsed' /\ back <= back' /\ ahead <= ahead'
          /\ admitted'[b] = admitted[b] /\ opened'[b] = opened[b]
      <4>1. UNCHANGED <<elapsed, back, ahead>>
        BY <1>5 DEF Check
      <4>2. admitted'[b] = admitted[b]
        BY <1>1, <1>5, <2>2, <3>1 DEF Check, TypeOK
      <4>3. opened'[b] = opened[b]
        BY <1>1, <1>5, <2>2, <3>1 DEF Check, TypeOK
      <4> QED
        BY <1>2, <4>1, <4>2, <4>3
    <3> QED
      BY <1>1, <3>2, <3>3, LooserBurst
  <2> QED
    BY <2>1, <2>2
<1> QED
  BY <1>2, <1>4, <1>5 DEF Next, Tick, SetBack, SetForward, Arrive, vars, history

\* An address gets at most twice the limit within a window's length, for every
\* limit, window, table and number of requests.
THEOREM LimiterBurstBound == Spec => []BurstBound
<1>1. BurstInv => BurstBound
  BY DEF BurstInv
<1> QED
  BY InitBurst, NextBurst, <1>1, PTL DEF Spec

-----------------------------------------------------------------------------
(***************************************************************************)
(* Refusals.                                                               *)
(***************************************************************************)
\* What RefusalInv says of one address.
Counted(a) ==
    /\ opened[a].ever => opened[a].start <= opened[a].elapsed + ahead
    /\ windows[a].tracked
       => /\ LastFrom(admitted[a], windows[a].count, opened[a].elapsed)
          /\ windows[a].start + Window > promise[a].until
             => windows[a].count <= promise[a].since

\* Only a full history forgets its oldest admission.
LEMMA RememberGrows ==
    ASSUME TypeOK, NEW times \in Seq(0..MaxTime), Len(times) <= 2 * Limit
    PROVE  Len(Remember(times)) = Len(times) + 1
<1>1. /\ Append(times, elapsed) \in Seq(0..MaxTime)
      /\ Len(Append(times, elapsed)) = Len(times) + 1
  BY DEF TypeOK
<1>2. Limit \in Nat /\ Len(times) \in Nat
  BY LimiterConstants
<1> QED
  BY <1>1, <1>2 DEF Remember

\* With a new admission, one more of the last ones is at least t.
LEMMA RememberFrom ==
    ASSUME TypeOK, NEW times \in Seq(0..MaxTime), NEW k \in Nat, k < Limit,
           NEW t \in Int, t <= elapsed, LastFrom(times, k, t)
    PROVE  LastFrom(Remember(times), k + 1, t)
<1> DEFINE now == Remember(times)
<1>1. PICK shift \in {0, 1} :
         /\ Len(now) = Len(times) + 1 - shift
         /\ \A i \in 1..Len(now) : now[i] = IF i = Len(now) THEN elapsed ELSE times[i + shift]
  BY RememberedTimes
<1>2. Len(times) \in Nat /\ Len(now) \in Nat /\ Limit \in Nat /\ k <= Len(times)
  BY RememberedTimes, LimiterConstants DEF LastFrom
<1>3. k + 1 <= Len(now)
  <2>1. CASE Len(times) <= 2 * Limit
    <3>1. Len(now) = Len(times) + 1
      BY <2>1, RememberGrows
    <3> QED
      BY <1>2, <3>1
  <2>2. CASE ~(Len(times) <= 2 * Limit)
    BY <1>1, <1>2, <2>2
  <2> QED
    BY <2>1, <2>2
<1> HIDE DEF now
<1>4. ASSUME NEW i \in 1..Len(now), i > Len(now) - (k + 1)
      PROVE  now[i] >= t
  <2>1. CASE i = Len(now)
    BY <1>1, <2>1
  <2>2. CASE i # Len(now)
    <3>1. /\ now[i] = times[i + shift]
          /\ i + shift \in 1..Len(times) /\ i + shift > Len(times) - k
      BY <1>1, <1>2, <1>4, <2>2
    <3> QED
      BY <3>1 DEF LastFrom
  <2> QED
    BY <2>1, <2>2
<1> QED
  BY <1>3, <1>4 DEF LastFrom, now

LEMMA InitRefusal == Init => RefusalInv
<1> SUFFICES ASSUME Init, NEW a \in Address
             PROVE  Counted(a) /\ \A r \in Request : FarFromStart(a, r)
  BY InitBurst DEF RefusalInv, Counted
<1> QED
  BY DEF Init, Counted, FarFromStart, NoEntry

\* An address whose requests are not the one that is checked.
LEMMA OtherCounted ==
    ASSUME RefusalInv, NEW a \in Address, ahead <= ahead', ahead' \in Nat,
           admitted'[a] = admitted[a], opened'[a] = opened[a], promise'[a] = promise[a],
           windows'[a] = windows[a] \/ ~windows'[a].tracked
    PROVE  Counted(a)'
<1>1. Counted(a)
  BY DEF RefusalInv, Counted
<1>2. opened[a].ever => opened[a].start <= opened[a].elapsed + ahead'
  <2>1. opened[a].start \in Int /\ opened[a].elapsed \in Int /\ ahead \in Int
    BY DEF RefusalInv, BurstInv, WindowsInv, TypeOK
  <2> QED
    BY <1>1, <2>1 DEF Counted
<1> QED
  BY <1>1, <1>2 DEF Counted

\* The admissions a request finds in its entry.
LEMMA EntryCounts ==
    ASSUME RefusalInv, NEW r \in Request, Check(r)
    PROVE  LET a == reqs[r].address
               entry == Current(a, reqs[r].at)
           IN  /\ opened'[a].ever /\ opened'[a].elapsed \in Nat /\ opened'[a].elapsed <= elapsed
               /\ opened'[a].start <= opened'[a].elapsed + ahead
               /\ LastFrom(admitted[a], entry.count, opened'[a].elapsed)
               /\ entry.start + Window > promise[a].until => entry.count <= promise[a].since
<1> DEFINE a == reqs[r].address
           at == reqs[r].at
           entry == Current(a, at)
<1>1. BurstInv /\ WindowsInv /\ TypeOK /\ a \in Address /\ Counted(a)
  BY CheckedEntry DEF RefusalInv, BurstInv, WindowsInv, Counted
<1>2. /\ opened'[a].ever /\ opened'[a].elapsed \in Nat /\ opened'[a].elapsed <= elapsed
      /\ opened \in [Address -> [ever : BOOLEAN, start : Int, elapsed : 0..MaxTime]]
      /\ at <= elapsed + ahead
  BY <1>1, BeforeCheck, ReadingBounds DEF TypeOK, Check
<1>3. CASE entry = windows[a] /\ windows[a].tracked /\ opened' = opened
  BY <1>1, <1>2, <1>3 DEF Counted
<1>4. CASE /\ entry = [tracked |-> TRUE, start |-> at, count |-> 0]
           /\ opened' = [opened EXCEPT ![a] = [ever |-> TRUE, start |-> at, elapsed |-> elapsed]]
  <2>1. opened'[a].start = at /\ opened'[a].elapsed = elapsed /\ entry.count = 0
    BY <1>1, <1>2, <1>4
  <2>2. admitted[a] \in Seq(0..MaxTime) /\ Len(admitted[a]) \in Nat
    BY <1>1 DEF TypeOK
  <2>3. LastFrom(admitted[a], 0, elapsed)
    BY <2>2 DEF LastFrom
  <2>4. promise[a].since \in Nat
    BY <1>1 DEF TypeOK
  <2>5. 0 <= promise[a].since
    BY <2>4
  <2> QED
    BY <1>2, <2>1, <2>3, <2>5
<1> QED
  BY <1>1, <1>3, <1>4, CheckedEntry

LEMMA CheckCounted ==
    ASSUME RefusalInv, NEW r \in Request, NEW a \in Address, a = reqs[r].address, Check(r)
    PROVE  Counted(a)'
<1> DEFINE at == reqs[r].at
           entry == Current(a, at)
           opens == opened'[a].elapsed
<1>1. WindowsInv /\ TypeOK /\ at \in Int /\ entry \in Entry
  BY CheckedEntry DEF RefusalInv, BurstInv, WindowsInv
<1>2. /\ opened'[a].start <= opens + ahead /\ ahead' = ahead /\ opens \in Nat /\ opens <= elapsed
      /\ LastFrom(admitted[a], entry.count, opens)
      /\ entry.start + Window > promise[a].until => entry.count <= promise[a].since
  BY EntryCounts DEF Check
<1>3. /\ entry.count \in Nat /\ entry.start \in Int /\ Limit \in Nat /\ Window \in Nat
      /\ promise[a].since \in Nat /\ admitted[a] \in Seq(0..MaxTime)
  <2>1. entry.count \in Nat /\ entry.start \in Int /\ Limit \in Nat /\ Window \in Nat
    BY <1>1, LimiterConstants DEF Entry
  <2>2. promise[a].since \in Nat /\ admitted[a] \in Seq(0..MaxTime)
    BY <1>1 DEF TypeOK
  <2> QED
    BY <2>1, <2>2
<1>4. Purged(at) \in [Address -> Entry] /\ promise \in [Address -> [until : Int, since : Nat]]
  BY <1>1, PurgedEntries DEF TypeOK
<1>5. CASE /\ windows' = [Purged(at) EXCEPT ![a] = entry]
           /\ promise' = [promise EXCEPT ![a] =
                            [until |-> at + RetryAfter(entry, at), since |-> 0]]
           /\ UNCHANGED admitted
  <2>1. windows'[a] = entry /\ promise'[a].until = at + RetryAfter(entry, at)
    BY <1>4, <1>5
  <2>2. promise'[a].until = entry.start + Window
    BY <1>1, <1>3, <2>1 DEF RetryAfter
  <2>3. ~(windows'[a].start + Window > promise'[a].until)
    BY <1>3, <2>1, <2>2
  <2>4. admitted'[a] = admitted[a]
    BY <1>5
  <2> QED
    BY <1>2, <2>1, <2>3, <2>4 DEF Counted
<1>6. CASE /\ entry.count < Limit
           /\ windows' = [Purged(at) EXCEPT ![a] = [entry EXCEPT !.count = @ + 1]]
           /\ admitted' = [admitted EXCEPT ![a] = Remember(@)]
           /\ promise' = [promise EXCEPT ![a].since = IF @ < Limit THEN @ + 1 ELSE Limit]
  <2>1. windows'[a].count = entry.count + 1 /\ windows'[a].start = entry.start
    <3>1. windows'[a] = [entry EXCEPT !.count = @ + 1]
      BY <1>4, <1>6
    <3> QED
      BY <1>1, <3>1 DEF Entry
  <2>2. /\ promise'[a].until = promise[a].until
        /\ promise'[a].since = IF promise[a].since < Limit THEN promise[a].since + 1 ELSE Limit
    BY <1>4, <1>6
  <2>3. admitted'[a] = Remember(admitted[a])
    BY <1>1, <1>6 DEF TypeOK
  <2>4. LastFrom(admitted'[a], entry.count + 1, opens)
    <3>1. LastFrom(Remember(admitted[a]), entry.count + 1, opens)
      <4>1. opens \in Int
        BY <1>2
      <4> HIDE DEF opens, entry
      <4> QED
        BY <1>1, <1>2, <1>3, <1>6, <4>1, RememberFrom
    <3> QED
      BY <2>3, <3>1
  <2>5. windows'[a].start + Window > promise'[a].until
        => windows'[a].count <= promise'[a].since
    <3>1. entry.count <= promise[a].since => windows'[a].count <= promise'[a].since
      BY <1>3, <1>6, <2>1, <2>2
    <3> QED
      BY <1>2, <2>1, <2>2, <3>1
  <2> QED
    BY <1>2, <2>1, <2>4, <2>5 DEF Counted
<1> QED
  BY <1>5, <1>6 DEF Check

\* Readings after the start of a window stay far enough from it: a new reading is
\* the clock's, and a window that opens is later than all readings.
LEMMA FarStep ==
    ASSUME RefusalInv, [Next]_vars, NEW a \in Address, NEW q \in Request
    PROVE  FarFromStart(a, q)'
<1>0. WindowsInv /\ TypeOK /\ WindowsInv' /\ FarFromStart(a, q)
  BY NextWindows DEF RefusalInv, BurstInv, WindowsInv
<1>1. /\ elapsed \in Int /\ back \in Int /\ back' \in Int /\ ahead \in Int
      /\ opened[a].start \in Int /\ opened[a].elapsed \in Int
      /\ reqs[q].at \in Int /\ reqs[q].read \in Int
  <2>1. /\ elapsed \in Int /\ back \in Int /\ ahead \in Int
        /\ opened[a].start \in Int /\ opened[a].elapsed \in Int
        /\ reqs[q].at \in Int /\ reqs[q].read \in Int
    BY <1>0, LimiterConstants DEF TypeOK
  <2>2. back' \in Int
    BY <1>0, LimiterConstants DEF WindowsInv, TypeOK
  <2> QED
    BY <2>1, <2>2
<1> SUFFICES ASSUME reqs'[q].phase = "waiting", opened'[a].ever,
                    reqs'[q].read > opened'[a].elapsed
             PROVE  reqs'[q].at - opened'[a].start
                      >= reqs'[q].read - opened'[a].elapsed - back'
  BY DEF FarFromStart
<1>2. CASE reqs'[q] = reqs[q] /\ opened'[a] = opened[a] /\ back <= back'
  <2>1. reqs[q].at - opened[a].start >= reqs[q].read - opened[a].elapsed - back
    BY <1>0, <1>2 DEF FarFromStart
  <2> QED
    BY <1>1, <1>2, <2>1
<1>3. ASSUME NEW r \in Request, NEW forwarded \in Address \cup {NoAddress},
             NEW peer \in Address \cup {NoAddress}, Arrive(r, forwarded, peer)
      PROVE  reqs'[q].at - opened'[a].start >= reqs'[q].read - opened'[a].elapsed - back'
  <2>1. UNCHANGED <<opened, back>>
    BY <1>3 DEF Arrive, history
  <2>2. CASE q = r
    <3>1. reqs'[q].at = elapsed - back + ahead /\ reqs'[q].read = elapsed
      BY <1>0, <1>3, <2>2 DEF Arrive, Now, TypeOK
    <3>2. opened[a].start <= opened[a].elapsed + ahead
      BY <2>1 DEF RefusalInv
    <3> QED
      BY <1>1, <2>1, <3>1, <3>2
  <2>3. CASE q # r
    BY <1>0, <1>1, <1>2, <1>3, <2>1, <2>3 DEF Arrive, TypeOK
  <2> QED
    BY <2>2, <2>3
<1>4. ASSUME NEW r \in Request, Check(r)
      PROVE  reqs'[q].at - opened'[a].start >= reqs'[q].read - opened'[a].elapsed - back'
  <2>1. reqs'[q] = reqs[q] /\ back' = back /\ reqs[q].read <= elapsed
    BY <1>0, <1>4 DEF Check, Idle, TypeOK, WindowsInv
  <2>2. opened'[a] = opened[a] \/ opened'[a].elapsed = elapsed
    BY <1>0, <1>4 DEF Check, TypeOK
  <2> QED
    BY <1>1, <1>2, <2>1, <2>2
<1>5. CASE UNCHANGED <<reqs, opened>> /\ back <= back'
  BY <1>2, <1>5
<1>6. Tick \/ SetBack \/ SetForward \/ UNCHANGED vars
      => UNCHANGED <<reqs, opened>> /\ back <= back'
  BY <1>1 DEF Tick, SetBack, SetForward, vars, history
<1> QED
  BY <1>3, <1>4, <1>5, <1>6 DEF Next

LEMMA NextRefusal == RefusalInv /\ [Next]_vars => RefusalInv'
<1> SUFFICES ASSUME RefusalInv, [Next]_vars PROVE RefusalInv'
  OBVIOUS
<1>1. BurstInv' /\ WindowsInv /\ TypeOK /\ ahead \in Nat
  <2>1. BurstInv' /\ WindowsInv /\ TypeOK
    BY NextBurst DEF RefusalInv, BurstInv, WindowsInv
  <2> QED
    BY <2>1, LimiterConstants DEF TypeOK
<1>2. (\A a \in Address : Counted(a)') => RefusalInv'
  BY <1>1, FarStep DEF RefusalInv, Counted
<1>3. CASE ahead <= ahead' /\ ahead' \in Nat /\ UNCHANGED <<windows, opened, admitted, promise>>
  BY <1>2, <1>3, OtherCounted
<1>4. ASSUME NEW r \in Request, Check(r) PROVE RefusalInv'
  <2> SUFFICES ASSUME NEW b \in Address PROVE Counted(b)'
    BY <1>2
  <2>1. CASE b = reqs[r].address
    BY <1>4, <2>1, CheckCounted
  <2>2. CASE b # reqs[r].address
    <3>1. /\ reqs[r].address \in Address /\ reqs[r].at \in Int
          /\ windows'[b] = Purged(reqs[r].at)[b]
      BY <1>1, <1>4, <2>2, CheckedEntry
    <3>2. windows'[b] = windows[b] \/ ~windows'[b].tracked
      BY <1>1, <3>1, PurgedEntries DEF NoEntry
    <3>3. admitted'[b] = admitted[b] /\ opened'[b] = opened[b]
      BY <1>1, <1>4, <2>2, <3>1 DEF Check, TypeOK
    <3>4. promise'[b] = promise[b] /\ ahead' = ahead
      BY <1>1, <1>4, <2>2, <3>1 DEF Check, TypeOK
    <3> QED
      BY <1>1, <3>2, <3>3, <3>4, OtherCounted
  <2> QED
    BY <2>1, <2>2
<1> QED
  BY <1>1, <1>3, <1>4 DEF Next, Tick, SetBack, SetForward, Arrive, vars, history

\* A request that is refused is one whose entry is full, in a window that is
\* not over at its time.
LEMMA RefusedEntry ==
    ASSUME RefusalInv, [Next]_vars, NEW r \in Request, Refused(r)
    PROVE  LET a == reqs[r].address
           IN  /\ a \in Address /\ windows[a].tracked /\ windows[a].count = Limit
               /\ reqs[r].at < windows[a].start + Window
<1> DEFINE a == reqs[r].address
           at == reqs[r].at
           entry == Current(a, at)
<1>1. BurstInv /\ WindowsInv /\ TypeOK
  BY DEF RefusalInv, BurstInv, WindowsInv
<1>2. Check(r)
  <2>1. reqs[r].phase = "waiting" /\ reqs'[r].phase = "idle" /\ reqs'[r] # reqs[r]
    BY DEF Refused
  <2>2. ASSUME NEW q \in Request, Check(q) PROVE q = r
    BY <1>1, <2>1, <2>2 DEF Check, TypeOK
  <2>3. ASSUME NEW q \in Request, NEW f, NEW p, Arrive(q, f, p) PROVE FALSE
    BY <1>1, <2>1, <2>3 DEF Arrive, TypeOK
  <2> QED
    BY <2>1, <2>2, <2>3 DEF Next, Tick, SetBack, SetForward, vars, history
<1>3. a \in Address /\ entry \in Entry /\ Limit \in Nat \ {0}
  BY <1>1, <1>2, CheckedEntry, LimiterConstants
<1>4. entry.count >= Limit
  <2>1. ASSUME promise' = [promise EXCEPT ![a].since = IF @ < Limit THEN @ + 1 ELSE Limit]
        PROVE  FALSE
    <3>1. /\ promise'[a].since = IF promise[a].since < Limit THEN promise[a].since + 1 ELSE Limit
          /\ promise[a].since \in Nat
      BY <1>1, <1>3, <2>1 DEF TypeOK
    <3> QED
      BY <1>3, <3>1 DEF Refused
  <2> QED
    BY <1>2, <2>1 DEF Check
<1>5. entry.count = Limit
  BY <1>3, <1>4 DEF Entry
<1>6. entry # [tracked |-> TRUE, start |-> at, count |-> 0]
  BY <1>3, <1>5
<1>7. Live(Purged(at)[a], at) /\ entry = Purged(at)[a] /\ entry = windows[a] /\ windows[a].tracked
  BY <1>1, <1>2, <1>6, CheckedEntry DEF Current
<1> QED
  BY <1>3, <1>5, <1>7 DEF Live

\* Whoever is refused had its whole limit within a window's length, less the
\* delays: nobody is shut out for the requests of others.
THEOREM LimiterRefusesForOwnRequests == Spec => RefusedForOwnRequests
<1> DEFINE Deserved(r) ==
             LET times == admitted[reqs[r].address]
             IN  /\ Len(times) >= Limit
                 /\ times[Len(times) - Limit + 1] > elapsed - Window - MaxDelay - back
<1>1. ASSUME RefusalInv, [Next]_vars, NEW r \in Request, Refused(r)
      PROVE  Deserved(r)
  <2> DEFINE a == reqs[r].address
             at == reqs[r].at
             times == admitted[a]
             first == Len(times) - Limit + 1
  <2>1. WindowsInv /\ TypeOK
    BY <1>1 DEF RefusalInv, BurstInv, WindowsInv
  <2>2. /\ a \in Address /\ windows[a].tracked /\ windows[a].count = Limit
        /\ at < windows[a].start + Window
    BY <1>1, RefusedEntry
  <2>3. /\ opened[a].ever /\ windows[a].start = opened[a].start
        /\ elapsed - MaxDelay <= reqs[r].read
    BY <1>1, <2>1, <2>2 DEF WindowsInv, Refused
  <2>4. LastFrom(times, Limit, opened[a].elapsed) /\ FarFromStart(a, r)
    BY <1>1, <2>2, <2>3 DEF RefusalInv
  <2>5. /\ elapsed \in Nat /\ back \in Nat /\ ahead \in Nat /\ Window \in Nat /\ MaxDelay \in Nat
        /\ Limit \in Nat \ {0}
    BY <2>1, LimiterConstants DEF TypeOK
  <2>6. opened[a].start \in Int /\ opened[a].elapsed \in Int /\ at \in Int
    BY <2>1, <2>2 DEF TypeOK
  <2>7. times \in Seq(0..MaxTime) /\ Len(times) \in Nat
    BY <2>1, <2>2 DEF TypeOK
  <2>8. Len(times) >= Limit /\ first \in 1..Len(times) /\ first > Len(times) - Limit
    BY <2>4, <2>5, <2>7 DEF LastFrom
  <2>9. times[first] >= opened[a].elapsed /\ times[first] \in Int
    BY <2>4, <2>7, <2>8, TimesAreInts DEF LastFrom
  <2> HIDE DEF first
  <2>10. times[first] > elapsed - Window - MaxDelay - back
    <3>1. reqs[r].read \in Int /\ reqs[r].phase = "waiting" /\ Window > 0
      BY <1>1, <2>1, LimiterConstants DEF Refused, TypeOK
    <3>2. CASE reqs[r].read <= opened[a].elapsed
      BY <2>3, <2>5, <2>6, <2>9, <3>1, <3>2
    <3>3. CASE reqs[r].read > opened[a].elapsed
      <4>1. at - opened[a].start >= reqs[r].read - opened[a].elapsed - back
        BY <2>3, <2>4, <3>1, <3>3 DEF FarFromStart
      <4>2. at < opened[a].start + Window
        BY <2>2, <2>3
      <4> QED
        BY <2>3, <2>5, <2>6, <2>9, <3>1, <4>1, <4>2
    <3> QED
      BY <2>6, <3>1, <3>2, <3>3
  <2> QED
    BY <2>8, <2>10 DEF first
<1>2. RefusalInv /\ [Next]_vars => \A r \in Request : Refused(r) => Deserved(r)
  BY <1>1
<1> QED
  BY InitRefusal, NextRefusal, <1>2, PTL DEF Spec, RefusedForOwnRequests

\* A client that comes back when it was told to is let in, unless requests of
\* its own address used up the limit since.
THEOREM LimiterRetryAfterIsHonest == Spec => RetryAfterIsHonest
<1> DEFINE Honest(r) ==
             LET told == promise[reqs[r].address]
             IN  Refused(r) /\ told.until > 0 /\ reqs[r].at >= told.until
                 => told.since >= Limit
<1>1. ASSUME RefusalInv, [Next]_vars, NEW r \in Request PROVE Honest(r)
  <2> DEFINE a == reqs[r].address
             at == reqs[r].at
  <2> SUFFICES ASSUME Refused(r), at >= promise[a].until PROVE promise[a].since >= Limit
    OBVIOUS
  <2>1. TypeOK
    BY <1>1 DEF RefusalInv, BurstInv, WindowsInv
  <2>2. /\ a \in Address /\ windows[a].tracked /\ windows[a].count = Limit
        /\ at < windows[a].start + Window
    BY <1>1, RefusedEntry
  <2>3. /\ promise[a].until \in Int /\ promise[a].since \in Nat /\ at \in Int
        /\ windows[a].start + Window \in Int /\ Limit \in Nat
    <3>1. windows[a] \in Entry
      BY <2>1, <2>2 DEF TypeOK
    <3>2. windows[a].start \in Int /\ Window \in Nat /\ Limit \in Nat
      BY <3>1, LimiterConstants DEF Entry
    <3>3. promise[a].until \in Int /\ promise[a].since \in Nat /\ at \in Int
      BY <2>1, <2>2 DEF TypeOK
    <3> QED
      BY <3>2, <3>3
  <2>4. windows[a].start + Window > promise[a].until
    BY <2>2, <2>3
  <2>5. windows[a].count <= promise[a].since
    BY <1>1, <2>2, <2>4 DEF RefusalInv
  <2> QED
    BY <2>2, <2>3, <2>5
<1>2. RefusalInv /\ [Next]_vars => \A r \in Request : Honest(r)
  BY <1>1
<1> QED
  BY InitRefusal, NextRefusal, <1>2, PTL DEF Spec, RetryAfterIsHonest

-----------------------------------------------------------------------------
(***************************************************************************)
(* The size of the table.                                                  *)
(***************************************************************************)
\* A check adds its own address at most.
LEMMA TrackedGrows ==
    ASSUME WindowsInv, NEW r \in Request, Check(r)
    PROVE  Tracked' \subseteq Tracked \cup {reqs[r].address}
<1>1. TypeOK /\ reqs[r].at \in Int
  BY CheckedEntry DEF WindowsInv
<1>2. ASSUME NEW b \in Address, b # reqs[r].address, windows'[b].tracked
      PROVE  windows[b].tracked
  <2>1. windows'[b] = Purged(reqs[r].at)[b]
    BY <1>2, CheckedEntry
  <2>2. Purged(reqs[r].at)[b] = windows[b] \/ ~Purged(reqs[r].at)[b].tracked
    BY <1>1, PurgedEntries DEF NoEntry
  <2> QED
    BY <1>2, <2>1, <2>2
<1> QED
  BY <1>2 DEF Tracked

LEMMA TrackedIsFinite == Spec => [](WindowsInv /\ IsFiniteSet(Tracked))
<1>1. Init => IsFiniteSet(Tracked)
  <2>1. Init => Tracked = {}
    BY DEF Init, Tracked, NoEntry
  <2> QED
    BY <2>1, FS_EmptySet
<1>2. ASSUME WindowsInv, IsFiniteSet(Tracked), [Next]_vars PROVE IsFiniteSet(Tracked')
  <2>1. CASE UNCHANGED windows
    BY <1>2, <2>1 DEF Tracked
  <2>2. ASSUME NEW r \in Request, Check(r) PROVE IsFiniteSet(Tracked')
    BY <1>2, <2>2, TrackedGrows, FS_AddElement, FS_Subset
  <2> QED
    BY <1>2, <2>1, <2>2 DEF Next, Tick, SetBack, SetForward, Arrive, vars, history
<1>3. WindowsInv /\ IsFiniteSet(Tracked) /\ [Next]_vars => IsFiniteSet(Tracked)'
  BY <1>2
<1> QED
  BY InitWindows, NextWindows, <1>1, <1>3, PTL DEF Spec

\* The table outgrows its bound by addresses whose windows are not over only,
\* however many addresses there are.
THEOREM LimiterTableIsOfLiveWindows == Spec => OnlyLiveWindowsBeyondTheTable
<1> DEFINE Lives(r) == reqs'[r] # reqs[r] /\ reqs[r].phase = "waiting"
                       /\ Cardinality(Tracked') > MaxTracked
                       => \A a \in Tracked' : reqs[r].at < windows'[a].start + Window
<1>1. ASSUME WindowsInv, IsFiniteSet(Tracked), [Next]_vars, NEW r \in Request
      PROVE  Lives(r)
  <2> SUFFICES ASSUME reqs'[r] # reqs[r], reqs[r].phase = "waiting",
                      Cardinality(Tracked') > MaxTracked, NEW b \in Tracked'
               PROVE  reqs[r].at < windows'[b].start + Window
    OBVIOUS
  <2> DEFINE a == reqs[r].address
             at == reqs[r].at
             entry == Current(a, at)
  <2>1. TypeOK
    BY <1>1 DEF WindowsInv
  <2>2. Check(r)
    <3>1. ASSUME NEW q \in Request, Check(q) PROVE q = r
      BY <2>1, <3>1 DEF Check, TypeOK
    <3>2. ASSUME NEW q \in Request, NEW f, NEW p, Arrive(q, f, p) PROVE FALSE
      BY <2>1, <3>2 DEF Arrive, TypeOK
    <3> QED
      BY <1>1, <3>1, <3>2 DEF Next, Tick, SetBack, SetForward, vars, history
  <2>3. a \in Address /\ at \in Int /\ entry \in Entry /\ windows'[a].start = entry.start
    BY <1>1, <2>2, CheckedEntry
  <2>4. Cardinality(Tracked) >= MaxTracked
    <3>1. /\ IsFiniteSet(Tracked \cup {a})
          /\ Cardinality(Tracked \cup {a}) <= Cardinality(Tracked) + 1
      <4>1. Cardinality(Tracked) \in Nat
        BY <1>1, FS_CardinalityType
      <4>2. /\ IsFiniteSet(Tracked \cup {a})
            /\ Cardinality(Tracked \cup {a}) =
                 IF a \in Tracked THEN Cardinality(Tracked) ELSE Cardinality(Tracked) + 1
        BY <1>1, FS_AddElement
      <4> QED
        BY <4>1, <4>2
    <3>2. Cardinality(Tracked') <= Cardinality(Tracked \cup {a})
      BY <1>1, <2>2, <3>1, TrackedGrows, FS_Subset
    <3>3. /\ Cardinality(Tracked) \in Nat /\ Cardinality(Tracked') \in Nat
          /\ Cardinality(Tracked \cup {a}) \in Nat /\ MaxTracked \in Nat
      BY <1>1, <2>2, <3>1, TrackedGrows, FS_Subset, FS_CardinalityType, LimiterConstants
    <3> QED
      BY <3>1, <3>2, <3>3
  <2>5. CASE b # a
    <3>1. b \in Address /\ windows'[b].tracked /\ windows'[b] = Purged(at)[b]
      BY <1>1, <2>2, <2>5, CheckedEntry DEF Tracked
    <3>2. Purged(at)[b] = IF Live(windows[b], at) THEN windows[b] ELSE NoEntry
      BY <2>4, <3>1 DEF Purged
    <3> QED
      BY <3>1, <3>2 DEF Live, NoEntry
  <2>6. CASE b = a
    <3>1. CASE Live(Purged(at)[a], at)
      BY <2>3, <2>6, <3>1 DEF Current, Live
    <3>2. CASE ~Live(Purged(at)[a], at)
      <4>1. entry.start = at
        BY <3>2 DEF Current
      <4> QED
        BY <2>3, <2>6, <4>1, LimiterConstants
    <3> QED
      BY <3>1, <3>2
  <2> QED
    BY <2>5, <2>6
<1>2. WindowsInv /\ IsFiniteSet(Tracked) /\ [Next]_vars => \A r \in Request : Lives(r)
  BY <1>1
<1> QED
  BY TrackedIsFinite, <1>2, PTL DEF Spec, OnlyLiveWindowsBeyondTheTable

=============================================================================
