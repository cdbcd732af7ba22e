------------------------- MODULE TaskSchedulerProofs -------------------------
(***************************************************************************)
(* The scheduler for any number of slots, any periods and any width of the *)
(* time base.  The invariant Kept counts every slot's age from the true    *)
(* time; the lemmas say when a difference of wrapping times is a true one. *)
(***************************************************************************)
EXTENDS TaskScheduler, TLAPS

\* The slot has had its turn in this cycle.
Scanned(s) == s < i \/ (s = i /\ pc = "handler")

\* How far the time base has moved since the cycle read it.
Lag == Sub(TimeBase, now)

\* What a slot may be ahead: nothing, or the one run on a stamp of the future.
Ahead(s) == IF early[s] THEN reload[s] + MaxBusy ELSE 0

\* The last conjunct says why such a run happens once per start: the stamp it
\* leaves is the sample, and no stamp that is not newer is ahead of a sample.
SlotKept(s) ==
  /\ Age(s) < reload[s] + MaxBusy + busy
  /\ credit[s] >= Age(s) - Ahead(s)
  /\ pc # "main" /\ Scanned(s) => Age(s) < reload[s] + Lag
  /\ pc # "main" /\ early[s] => Age(s) >= Lag

Kept ==
  /\ TypeOK
  /\ pc # "main" => Lag <= busy
  /\ \A s \in Slots : run_flag[s] => SlotKept(s)

-----------------------------------------------------------------------------
(* Differences of wrapping times *)

\* A difference of two times is a time.
LEMMA SubType == ASSUME NEW a \in Time, NEW b \in Time
                 PROVE  /\ Sub(a, b) \in Time /\ Sub(a, a) = 0
                        /\ Sub(a, b) \in Nat /\ Sub(a, b) < W
  BY PeriodsAssumption DEF Sub, Time

\* A sum of two times is a time.
LEMMA AddType == ASSUME NEW a \in Time, NEW p \in Nat, p <= W
                 PROVE  Add(a, p) \in Time
  BY PeriodsAssumption DEF Add, Time

\* A millisecond ages everything by one, short of a full turn of the clock.
LEMMA TickAges == ASSUME NEW a \in Time, NEW b \in Time, Sub(a, b) + 1 < W
                  PROVE  Sub(Add(a, 1), b) = Sub(a, b) + 1
  BY PeriodsAssumption DEF Sub, Add, Time

\* Seen from a time t, the difference of two others is that of their ages;
\* it wraps when the first is the older one.
LEMMA SubAges ==
  ASSUME NEW t \in Time, NEW n \in Time, NEW l \in Time
  PROVE  Sub(n, l) = IF Sub(t, n) <= Sub(t, l) THEN Sub(t, l) - Sub(t, n)
                                               ELSE Sub(t, l) - Sub(t, n) + W
  BY PeriodsAssumption DEF Sub, Time

\* A stamp moved on by p is p younger.
LEMMA SubAdd == ASSUME NEW n \in Time, NEW l \in Time,
                       NEW p \in Nat, p <= Sub(n, l)
                PROVE  Add(l, p) \in Time /\ Sub(n, Add(l, p)) = Sub(n, l) - p
  BY PeriodsAssumption DEF Sub, Add, Time

\* What the assumptions say of the period of a slot.
LEMMA PeriodBounds ==
  ASSUME TypeOK, NEW s \in Slots
  PROVE  /\ reload[s] \in Nat /\ reload[s] > 0
         /\ 2 * (reload[s] + MaxBusy) <= W
         /\ reload[s] + 2 * MaxBusy <= MaxCredit
         /\ busy \in Nat /\ busy <= MaxBusy /\ MaxBusy \in Nat
         /\ W \in Nat /\ MaxCredit \in Nat
  <1>1. reload[s] \in Periods
    BY DEF TypeOK
  <1>2. reload[s] \in Nat \ {0}
    BY <1>1, PeriodsAssumption
  <1>3. busy \in 0..MaxBusy
    BY DEF TypeOK
  <1> QED
    BY <1>1, <1>2, <1>3, PeriodsAssumption, BusyAssumption

\* A pass is shorter than a turn of the clock.
LEMMA ClockBounds == MaxBusy \in Nat /\ MaxBusy + 1 < W /\ W \in Nat
  <1>1. 0 \in Slots
    BY SlotsAssumption DEF Slots
  <1>2. Period[0] \in Periods
    BY <1>1, PeriodsAssumption
  <1>3. Period[0] \in Nat \ {0}
    BY <1>2, PeriodsAssumption
  <1> QED
    BY <1>2, <1>3, PeriodsAssumption, BusyAssumption

-----------------------------------------------------------------------------
(* The invariant *)

\* The start: every slot has just been stamped.
LEMMA InitKept == Init => Kept
  <1> SUFFICES ASSUME Init PROVE Kept
    OBVIOUS
  <1>1. TypeOK
    BY SlotsAssumption, PeriodsAssumption, BusyAssumption
    DEF Init, TypeOK, Slots, Time
  <1>2. \A s \in Slots : SlotKept(s)
    <2> TAKE s \in Slots
    <2>1. Age(s) = 0 /\ credit[s] = 0 /\ Ahead(s) = 0
      BY DEF Init, Age, Sub, Ahead
    <2> QED
      BY <1>1, <2>1, PeriodBounds DEF Init, SlotKept
  <1> QED
    BY <1>1, <1>2 DEF Init, Kept

\* The interrupt ages every slot and the cycle's sample alike.
LEMMA TickKept == Kept /\ SysTick_Handler => Kept'
  <1> SUFFICES ASSUME Kept, SysTick_Handler PROVE Kept'
    OBVIOUS
  <1> USE DEF Kept
  <1>1. TypeOK'
    <2>1. TimeBase' \in Time
      BY AddType, PeriodsAssumption, 1 \in Nat DEF SysTick_Handler, TypeOK, Time
    <2> QED
      BY <2>1, PeriodsAssumption DEF SysTick_Handler, TypeOK, list
  <1>2. (pc # "main" => Lag <= busy)'
    <2>1. /\ TimeBase \in Time /\ now \in Time /\ busy \in Nat
          /\ TimeBase' = Add(TimeBase, 1) /\ busy' = busy + 1
          /\ now' = now /\ pc' = pc /\ busy + 1 <= MaxBusy
      BY PeriodsAssumption DEF SysTick_Handler, TypeOK
    <2>2. ASSUME pc # "main" PROVE Lag' = Lag + 1
      BY <2>1, <2>2, TickAges, ClockBounds, SubType DEF Lag, Time
    <2> QED
      BY <2>1, <2>2, SubType DEF Lag, Time
  <1>3. ASSUME NEW s \in Slots, run_flag[s] PROVE SlotKept(s)'
    <2>1. SlotKept(s)
      BY <1>3
    <2>2. /\ TimeBase \in Time /\ now \in Time /\ last_tick[s] \in Time
          /\ credit[s] \in Int
          /\ TimeBase' = Add(TimeBase, 1) /\ busy' = busy + 1
          /\ UNCHANGED <<now, pc, i, last_tick, reload, early>>
          /\ busy < MaxBusy
          /\ credit'[s] = IF credit[s] < MaxCredit THEN credit[s] + 1
                                                   ELSE credit[s]
      BY DEF SysTick_Handler, TypeOK, list
    <2>5. Age(s) \in Nat /\ Lag \in Nat
      BY <2>2, SubType DEF Age, Lag
    <2>6. Age(s) + 1 < W
      BY <2>1, <2>2, <2>5, PeriodBounds DEF SlotKept, Kept
    <2>3. Age(s)' = Age(s) + 1
      BY <2>2, <2>6, TickAges DEF Age
    <2>4. pc # "main" => Lag' = Lag + 1
      BY <2>2, <2>5, TickAges, ClockBounds, PeriodBounds DEF Lag, Kept
    <2>7. Ahead(s)' = Ahead(s) /\ Ahead(s) \in Nat
      BY <2>2, PeriodBounds DEF Ahead, Kept
    <2>8. credit'[s] >= Age(s)' - Ahead(s)'
      BY <2>1, <2>2, <2>3, <2>5, <2>7, PeriodBounds DEF SlotKept
    <2>9. UNCHANGED Scanned(s)
      BY <2>2 DEF Scanned
    <2> QED
      BY <2>1, <2>2, <2>3, <2>4, <2>5, <2>8, <2>9, PeriodBounds DEF SlotKept
  <1> QED
    BY <1>1, <1>2, <1>3 DEF SysTick_Handler, list

\* A slot that is started begins a period now; no other is touched.
LEMMA RestartKept ==
  ASSUME Kept, NEW s \in Slots, AnyCaller, Restart(s),
         reload' \in [Slots -> Periods],
         \A x \in Slots \ {s} : reload'[x] = reload[x]
  PROVE  Kept'
  <1>1. TypeOK /\ TimeBase \in Time
    BY DEF Kept, TypeOK
  <1>2. TypeOK'
    BY <1>1 DEF TypeOK, Restart
  <1>3. (pc # "main" => Lag <= busy)'
    BY DEF Kept, Restart, Lag
  <1>4. ASSUME NEW x \in Slots, run_flag'[x] PROVE SlotKept(x)'
    <2>1. CASE x = s
      <3>1. Age(x)' = 0 /\ credit'[x] = 0 /\ ~early'[x] /\ Ahead(x)' = 0
        BY <1>1, <2>1, SubType DEF Restart, Age, TypeOK, Ahead
      <3>2. Lag' \in Nat
        BY <1>2, SubType DEF Lag, TypeOK
      <3>3. reload'[x] \in Nat \ {0}
        <4>1. reload'[x] \in Periods
          OBVIOUS
        <4> QED
          BY <4>1, PeriodsAssumption
      <3> QED
        BY <1>1, <3>1, <3>2, <3>3, PeriodBounds DEF SlotKept, Restart
    <2>2. CASE x # s
      <3>1. SlotKept(x)
        BY <1>1, <1>4, <2>2 DEF Kept, Restart, TypeOK
      <3>2. /\ Age(x)' = Age(x) /\ Lag' = Lag /\ credit'[x] = credit[x]
            /\ early'[x] = early[x] /\ Ahead(x)' = Ahead(x)
        BY <1>1, <2>2 DEF Restart, Age, Lag, TypeOK, Ahead
      <3> QED
        BY <2>2, <3>1, <3>2 DEF SlotKept, Scanned, Restart
    <2> QED
      BY <2>1, <2>2
  <1> QED
    BY <1>2, <1>3, <1>4 DEF Kept

\* The three calls of the interface.
LEMMA CallsKept ==
  ASSUME Kept, NEW s \in Slots,
         \/ Task_Run(s) \/ Task_Stop(s)
         \/ \E p \in Periods : Task_Create(s, p)
  PROVE  Kept'
  <1>1. TypeOK
    BY DEF Kept
  <1>2. CASE Task_Run(s)
    BY <1>1, <1>2, RestartKept DEF Task_Run, TypeOK
  <1>3. ASSUME NEW p \in Periods, Task_Create(s, p) PROVE Kept'
    BY <1>1, <1>3, RestartKept DEF Task_Create, TypeOK
  <1>4. CASE Task_Stop(s)
    <2>1. TypeOK'
      BY <1>1, <1>4 DEF Task_Stop, TypeOK, history
    <2>2. ASSUME NEW x \in Slots, run_flag'[x] PROVE SlotKept(x)'
      <3>1. run_flag[x]
        BY <1>1, <1>4, <2>2 DEF Task_Stop, TypeOK
      <3> QED
        BY <1>4, <3>1 DEF Kept, Task_Stop, SlotKept, Scanned, Age, Lag,
                          Ahead, history
    <2> QED
      BY <1>4, <2>1, <2>2 DEF Kept, Task_Stop, Lag
  <1> QED
    BY <1>2, <1>3, <1>4

\* The sample is taken and no slot has had its turn.
LEMMA BeginKept == Kept /\ BeginCycle => Kept'
  <1> SUFFICES ASSUME Kept, BeginCycle PROVE Kept'
    OBVIOUS
  <1>1. TypeOK
    BY DEF Kept
  <1>2. TypeOK'
    BY <1>1 DEF TypeOK, BeginCycle, list, history
  <1>3. Lag' = 0 /\ busy' \in Nat
    BY <1>1, <1>2, SubType DEF BeginCycle, Lag, TypeOK
  <1>4. ASSUME NEW s \in Slots, run_flag'[s] PROVE SlotKept(s)'
    <2>1. SlotKept(s) /\ ~Scanned(s)'
      BY <1>4 DEF Kept, BeginCycle, list, Scanned, Slots
    <2>2. Age(s) \in Nat /\ Age(s)' = Age(s) /\ Ahead(s)' = Ahead(s)
      BY <1>1, SubType DEF TypeOK, BeginCycle, list, history, Age, Ahead
    <2> QED
      BY <1>3, <2>1, <2>2 DEF BeginCycle, list, history, SlotKept
  <1> QED
    BY <1>2, <1>3, <1>4 DEF Kept

\* A slot that is not due has been served within its period.
LEMMA SkipKept == Kept /\ SkipSlot => Kept'
  <1> SUFFICES ASSUME Kept, SkipSlot PROVE Kept'
    OBVIOUS
  <1>1. TypeOK
    BY DEF Kept
  <1>2. TypeOK'
    BY <1>1 DEF TypeOK, SkipSlot, list, history
  <1>3. ASSUME NEW s \in Slots, run_flag'[s] PROVE SlotKept(s)'
    <2>1. SlotKept(s) /\ run_flag[s]
      BY <1>3 DEF Kept, SkipSlot, list
    <2>2. CASE s = i
      <3>1. /\ TimeBase \in Time /\ now \in Time /\ last_tick[s] \in Time
            /\ Age(s) \in Nat /\ Lag \in Nat
        BY <1>1, SubType DEF TypeOK, Age, Lag
      <3>2. Sub(now, last_tick[s]) < reload[s]
        BY <1>1, <2>1, <2>2, <3>1, SubType, PeriodBounds DEF SkipSlot, Due
      <3>3. Age(s) < reload[s] + Lag
        <4>1. Sub(now, last_tick[s]) = IF Lag <= Age(s) THEN Age(s) - Lag
                                       ELSE Age(s) - Lag + W
          BY <3>1, SubAges DEF Age, Lag
        <4> QED
          BY <1>1, <3>1, <3>2, <4>1, PeriodBounds
      <3> QED
        BY <2>1, <3>3 DEF SkipSlot, list, history, SlotKept, Age, Lag, Ahead
    <2>3. CASE s # i
      BY <1>1, <2>1, <2>3 DEF SkipSlot, list, history, SlotKept, Scanned, Age,
                              Lag, Ahead, TypeOK, Slots
    <2> QED
      BY <2>2, <2>3
  <1> QED
    BY <1>2, <1>3 DEF Kept, SkipSlot, list, Lag

\* After its handler a slot has had its turn.
LEMMA ReturnKept == Kept /\ HandlerReturns => Kept'
  <1> SUFFICES ASSUME Kept, HandlerReturns PROVE Kept'
    OBVIOUS
  <1>1. TypeOK
    BY DEF Kept
  <1>2. TypeOK'
    BY <1>1 DEF TypeOK, HandlerReturns, list, history
  <1>3. ASSUME NEW s \in Slots, run_flag'[s] PROVE SlotKept(s)'
    <2>1. SlotKept(s)
      BY <1>3 DEF Kept, HandlerReturns, list
    <2>2. Scanned(s)' => Scanned(s)
      BY <1>1 DEF HandlerReturns, Scanned, TypeOK, Slots
    <2> QED
      BY <2>1, <2>2 DEF HandlerReturns, list, history, SlotKept, Age, Lag,
                         Ahead
  <1> QED
    BY <1>2, <1>3 DEF Kept, HandlerReturns, list, Lag

\* At the end of the cycle every slot has had its turn.
LEMMA EndKept == Kept /\ EndCycle => Kept'
  <1> SUFFICES ASSUME Kept, EndCycle PROVE Kept'
    OBVIOUS
  <1>1. TypeOK
    BY DEF Kept
  <1>2. TypeOK'
    BY <1>1, ClockBounds DEF TypeOK, EndCycle, list, history, Time
  <1>3. ASSUME NEW s \in Slots, run_flag'[s] PROVE SlotKept(s)'
    <2>1. SlotKept(s)
      BY <1>3 DEF Kept, EndCycle, list
    <2>2. Scanned(s) /\ pc # "main"
      BY <1>1, SlotsAssumption DEF EndCycle, Scanned, TypeOK, Slots
    <2>3. Age(s) \in Nat /\ Lag \in Nat
      BY <1>1, SubType DEF TypeOK, Age, Lag
    <2>4. Age(s) < reload[s] + MaxBusy
      BY <1>1, <2>1, <2>2, <2>3, PeriodBounds DEF Kept, SlotKept
    <2>5. /\ Age(s)' = Age(s) /\ Ahead(s)' = Ahead(s)
          /\ UNCHANGED <<credit, reload>> /\ busy' = 0 /\ pc' = "main"
      BY DEF EndCycle, list, history, Age, Ahead
    <2> QED
      BY <1>1, <2>1, <2>3, <2>4, <2>5, PeriodBounds DEF SlotKept
  <1> QED
    BY <1>2, <1>3 DEF Kept, EndCycle

\* What a run makes of the age of the slot, and whether it was early.
LEMMA RunAges ==
  ASSUME Kept, RunSlot
  PROVE  /\ i \in Slots /\ run_flag[i] /\ NextStamp(i) \in Time
         /\ ~StampedAfterSample(i) =>
              /\ Age(i) >= reload[i] + Lag
              /\ Sub(TimeBase, NextStamp(i)) <= Age(i) - reload[i]
              /\ Sub(TimeBase, NextStamp(i)) < reload[i] + Lag
              /\ Sub(TimeBase, NextStamp(i)) >= Lag
         /\ StampedAfterSample(i) => Sub(TimeBase, NextStamp(i)) = Lag
  <1>1. TypeOK /\ i \in Slots /\ run_flag[i]
    BY DEF Kept, RunSlot, Due
  <1> DEFINE l == last_tick[i]
             p == reload[i]
             next == Add(l, p)
  <1>2. /\ TimeBase \in Time /\ now \in Time /\ l \in Time
        /\ Age(i) \in Nat /\ Lag \in Nat /\ Lag <= MaxBusy
        /\ Sub(now, l) \in Nat /\ p <= Sub(now, l)
        /\ p \in Nat /\ p > 0 /\ 2 * (p + MaxBusy) <= W
        /\ MaxBusy \in Nat /\ W \in Nat
    <2>1. /\ TimeBase \in Time /\ now \in Time /\ l \in Time
      BY <1>1 DEF TypeOK
    <2>2. Lag <= busy /\ p <= Sub(now, l)
      BY DEF Kept, RunSlot, Due
    <2>3. Age(i) \in Nat /\ Lag \in Nat /\ Sub(now, l) \in Nat
      BY <2>1, SubType DEF Age, Lag
    <2> QED
      BY <1>1, <2>1, <2>2, <2>3, PeriodBounds
  <1>3. Sub(now, l) = IF Lag <= Age(i) THEN Age(i) - Lag ELSE Age(i) - Lag + W
    BY <1>2, SubAges DEF Age, Lag
  <1>4. next \in Time /\ Sub(now, next) = Sub(now, l) - p
    BY <1>2, SubAdd
  <1>5. NextStamp(i) = IF Sub(now, next) >= p THEN now ELSE next
    BY DEF NextStamp
  <1>6. NextStamp(i) \in Time
    BY <1>2, <1>4, <1>5
  <1>7. ASSUME ~StampedAfterSample(i)
        PROVE  /\ Age(i) >= p + Lag
               /\ Sub(TimeBase, NextStamp(i)) <= Age(i) - p
               /\ Sub(TimeBase, NextStamp(i)) < p + Lag
               /\ Sub(TimeBase, NextStamp(i)) >= Lag
    <2>1. Lag <= Age(i)
      BY <1>2, <1>7 DEF StampedAfterSample, Age, Lag
    <2>2. Age(i) >= p + Lag
      BY <1>2, <1>3, <2>1
    <2>3. CASE Sub(now, next) >= p
      <3>1. Sub(TimeBase, NextStamp(i)) = Lag
        BY <1>5, <2>3 DEF Lag
      <3> QED
        BY <1>2, <2>2, <3>1
    <2>4. CASE ~(Sub(now, next) >= p)
      <3>1. Sub(TimeBase, NextStamp(i)) = Age(i) - p
        <4>1. p <= Sub(TimeBase, l)
          BY <1>2, <2>2 DEF Age
        <4>2. Sub(TimeBase, next) = Sub(TimeBase, l) - p
          BY <1>2, <4>1, SubAdd
        <4> QED
          BY <1>5, <2>4, <4>2 DEF Age
      <3>2. Age(i) - Lag - p < p
        BY <1>2, <1>3, <1>4, <2>1, <2>4
      <3> QED
        BY <1>2, <2>2, <3>1, <3>2
    <2> QED
      BY <2>2, <2>3, <2>4
  <1>8. ASSUME StampedAfterSample(i)
        PROVE  Sub(TimeBase, NextStamp(i)) = Lag
    <2>1. Age(i) < Lag
      BY <1>8 DEF StampedAfterSample, Age, Lag
    <2>2. Sub(now, next) >= p
      BY <1>2, <1>3, <1>4, <2>1
    <2> QED
      BY <1>5, <2>2 DEF Lag
  <1> QED
    BY <1>1, <1>6, <1>7, <1>8

\* A run uses up its period.  One on a stamp of the future was not paid for:
\* it is the first of its kind since the slot was started.
LEMMA RunKept == Kept /\ RunSlot => Kept'
  <1> SUFFICES ASSUME Kept, RunSlot PROVE Kept'
    OBVIOUS
  <1>1. TypeOK /\ i \in Slots /\ run_flag[i] /\ NextStamp(i) \in Time
    BY RunAges DEF Kept
  <1>2. Lag \in Nat
    BY <1>1, SubType DEF TypeOK, Lag
  <1>3. /\ reload[i] \in Nat /\ credit[i] \in Int /\ Age(i) \in Nat
        /\ MaxBusy \in Nat /\ Lag <= MaxBusy
    <2>1. Lag <= busy
      BY DEF Kept, RunSlot
    <2> QED
      BY <1>1, <1>2, <2>1, PeriodBounds, SubType DEF TypeOK, Age
  <1>4. TypeOK'
    <2>1. credit' \in [Slots -> Int]
      BY <1>1, <1>3 DEF TypeOK, RunSlot
    <2>2. last_tick' \in [Slots -> Time]
      BY <1>1 DEF TypeOK, RunSlot
    <2>3. early' \in [Slots -> BOOLEAN]
      <3>1. StampedAfterSample(i) \in BOOLEAN
        BY DEF StampedAfterSample
      <3>2. (early[i] \/ StampedAfterSample(i)) \in BOOLEAN
        OBVIOUS
      <3> QED
        BY <1>1, <3>2 DEF TypeOK, RunSlot
    <2> QED
      BY <1>1, <2>1, <2>2, <2>3 DEF TypeOK, RunSlot
  <1>5. ASSUME NEW s \in Slots, run_flag'[s] PROVE SlotKept(s)'
    <2>1. SlotKept(s)
      BY <1>5 DEF Kept, RunSlot
    <2>2. CASE s = i
      <3>1. /\ Age(s)' = Sub(TimeBase, NextStamp(i)) /\ Lag' = Lag
            /\ credit'[s] = credit[i] - reload[i] /\ reload' = reload
            /\ early'[s] = (early[i] \/ StampedAfterSample(i))
        BY <1>1, <2>2 DEF RunSlot, Age, Lag, TypeOK
      <3>2. Age(s)' \in Nat
        BY <1>1, <3>1, SubType DEF TypeOK
      <3>3. /\ credit'[s] >= Age(s)' - Ahead(s)'
            /\ Lag <= Age(s)' /\ Age(s)' < reload[i] + Lag
        <4>1. CASE StampedAfterSample(i)
          <5>1. ~early[i]
            BY <1>2, <1>3, <2>1, <2>2, <4>1
            DEF SlotKept, StampedAfterSample, Age, Lag, RunSlot
          <5>2. credit[i] >= Age(i)
            BY <1>3, <2>1, <2>2, <5>1 DEF SlotKept, Ahead
          <5>3. Ahead(s)' = reload[i] + MaxBusy
            BY <2>2, <3>1, <4>1 DEF Ahead
          <5>4. Age(s)' = Lag
            BY <3>1, <4>1, RunAges
          <5>5. reload[i] > 0
            BY <1>1, PeriodBounds
          <5> QED
            BY <1>2, <1>3, <3>1, <5>2, <5>3, <5>4, <5>5
        <4>2. CASE ~StampedAfterSample(i)
          <5>1. Ahead(s)' = Ahead(i) /\ Ahead(i) \in Nat
            <6>1. early'[s] <=> early[i]
              BY <3>1, <4>2
            <6>2. reload'[s] = reload[i]
              BY <2>2, <3>1
            <6>3. Ahead(s)' = Ahead(i)
              BY <6>1, <6>2 DEF Ahead
            <6> QED
              BY <1>3, <6>3 DEF Ahead
          <5>2. credit[i] >= Age(i) - Ahead(i)
            BY <2>1, <2>2 DEF SlotKept
          <5>3. /\ Age(s)' <= Age(i) - reload[i] /\ Age(s)' >= Lag
                /\ Age(s)' < reload[i] + Lag
            BY <3>1, <4>2, RunAges
          <5> QED
            BY <1>2, <1>3, <3>1, <3>2, <5>1, <5>2, <5>3
        <4> QED
          BY <4>1, <4>2
      <3>4. busy' = busy /\ busy \in Nat
        BY <1>1, PeriodBounds DEF RunSlot
      <3> QED
        BY <1>2, <1>3, <2>2, <3>1, <3>2, <3>3, <3>4 DEF SlotKept
    <2>3. CASE s # i
      BY <1>1, <2>1, <2>3 DEF RunSlot, SlotKept, Scanned, Age, Lag, Ahead, TypeOK
    <2> QED
      BY <2>2, <2>3
  <1> QED
    BY <1>4, <1>5 DEF Kept, RunSlot, Lag

-----------------------------------------------------------------------------
(* The theorems *)

\* Kept is kept by every step, one lemma per kind of step.
LEMMA StepKept == Kept /\ [Next]_vars => Kept'
  <1> SUFFICES ASSUME Kept, [Next]_vars PROVE Kept'
    OBVIOUS
  <1>1. CASE UNCHANGED vars
    BY <1>1 DEF Kept, TypeOK, SlotKept, Scanned, Age, Lag, Ahead, vars
  <1>2. CASE SysTick_Handler
    BY <1>2, TickKept
  <1>3. ASSUME NEW s \in Slots, \/ Task_Run(s) \/ Task_Stop(s)
                               \/ \E p \in Periods : Task_Create(s, p)
        PROVE  Kept'
    BY <1>3, CallsKept
  <1>4. CASE BeginCycle
    BY <1>4, BeginKept
  <1>5. CASE SkipSlot
    BY <1>5, SkipKept
  <1>6. CASE RunSlot
    BY <1>6, RunKept
  <1>7. CASE HandlerReturns
    BY <1>7, ReturnKept
  <1>8. CASE EndCycle
    BY <1>8, EndKept
  <1> QED
    BY <1>1, <1>2, <1>3, <1>4, <1>5, <1>6, <1>7, <1>8 DEF Next

\* So it holds in every reachable state.
LEMMA AlwaysKept == Spec => []Kept
  BY InitKept, StepKept, PTL DEF Spec

\* The scheduler keeps its types for every number of slots and every width
\* of the time base.
THEOREM SchedulerTypes == Spec => []TypeOK
  <1>1. Kept => TypeOK
    BY DEF Kept
  <1> QED
    BY <1>1, AlwaysKept, PTL

\* No slot starves: each is served by its period and two passes of the main
\* loop, whatever the others do and wherever the time base wraps.
THEOREM SlotsArePunctual == Spec => []Punctual
  <1>1. Kept => Punctual
    <2> SUFFICES ASSUME Kept, NEW s \in Slots, run_flag[s]
                 PROVE  Age(s) < reload[s] + 2 * MaxBusy
      BY DEF Punctual
    <2>1. Age(s) \in Nat
      BY SubType DEF Kept, TypeOK, Age
    <2> QED
      BY <2>1, PeriodBounds DEF Kept, SlotKept
  <1> QED
    BY <1>1, AlwaysKept, PTL

\* A slot runs at most once per period that has passed since it was started,
\* however late it is served.  One that a handler of a cycle in progress has
\* started may be one run ahead, and stays so at most: never two.
THEOREM RunsAlwaysFit == Spec => []RunsFitPeriods
  <1>1. Kept => RunsFitPeriods
    <2> SUFFICES ASSUME Kept, NEW s \in Slots, run_flag[s]
                 PROVE  credit[s] >= IF early[s] THEN -(reload[s] + MaxBusy)
                                                 ELSE 0
      BY DEF RunsFitPeriods
    <2>1. Age(s) \in Nat /\ credit[s] \in Int
      BY SubType DEF Kept, TypeOK, Age
    <2>2. credit[s] >= Age(s) - Ahead(s)
      BY DEF Kept, SlotKept
    <2>3. reload[s] \in Nat /\ MaxBusy \in Nat
      BY PeriodBounds DEF Kept
    <2> QED
      BY <2>1, <2>2, <2>3 DEF Ahead
  <1> QED
    BY <1>1, AlwaysKept, PTL

\* No slot runs before its period is over but for one stamped after the
\* sample of the cycle.
THEOREM SlotsNeverEarly == Spec => NeverEarly
  <1>1. Kept /\ [Next]_vars =>
          [pc = "scan" /\ pc' = "handler"
             => Age(i) >= reload[i] \/ StampedAfterSample(i)]_vars
    <2> SUFFICES ASSUME Kept, Next, pc = "scan", pc' = "handler"
                 PROVE  Age(i) >= reload[i] \/ StampedAfterSample(i)
      BY DEF vars
    <2>1. RunSlot
      BY DEF Next, SysTick_Handler, Task_Run, Task_Stop, Task_Create, Restart,
             AnyCaller, BeginCycle, SkipSlot, HandlerReturns, EndCycle
    <2>2. i \in Slots /\ TypeOK
      BY <2>1, RunAges DEF Kept
    <2>3. Lag \in Nat /\ Age(i) \in Nat /\ reload[i] \in Nat
      BY <2>2, SubType, PeriodBounds DEF TypeOK, Lag, Age
    <2> QED
      BY <2>1, <2>3, RunAges
  <1> QED
    BY <1>1, AlwaysKept, PTL DEF Spec, NeverEarly
=============================================================================
