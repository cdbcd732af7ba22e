---------------------------- MODULE TaskScheduler ----------------------------
(***************************************************************************)
(* The cooperative scheduler of the application                            *)
(* (APP/Mcal/src/Mcal_TimerTask.c): slots with a period, a millisecond     *)
(* time base that an interrupt advances at any moment and that wraps, and  *)
(* one Task_Handle_Cycle per pass of the main loop.                        *)
(***************************************************************************)
EXTENDS Integers

CONSTANTS
  Task_Timer_MaxNum,   \* the number of slots: 5
  Period,     \* the period each slot is registered with at the start
  Periods,    \* the periods Task_Create may be called with
  W,          \* the values of the uint32_t time base, 2^32
  MaxBusy,    \* bound: milliseconds one pass of the main loop takes at most
  MaxCredit   \* bound: where the history variable credit saturates

ASSUME SlotsAssumption == Task_Timer_MaxNum \in Nat \ {0}

\* In the order they are scanned.
Slots == 0..(Task_Timer_MaxNum - 1)

ASSUME PeriodsAssumption ==
  /\ Periods \subseteq Nat \ {0} /\ Period \in [Slots -> Periods]
  /\ W \in Nat \ {0} /\ MaxBusy \in Nat /\ MaxCredit \in Nat

\* Every wait of the main loop is bounded, so a pass is far shorter than the
\* 49 days after which the time base is back where it was.
ASSUME BusyAssumption ==
  \A p \in Periods : /\ 2 * (p + MaxBusy) <= W
                     /\ p + 2 * MaxBusy <= MaxCredit

Time == 0..(W - 1)

VARIABLES
  TimeBase,
  run_flag, reload, last_tick,   \* the fields of task_list
  pc,         \* "main" outside of Task_Handle_Cycle, "scan", or "handler"
  i, now,     \* its locals
  busy,       \* milliseconds this pass has taken so far
  credit,     \* history: per slot, the time since it was started less a
              \* period for each of its runs
  early       \* history: per slot, it has run on a stamp ahead of now since
              \* it was started

vars == <<TimeBase, run_flag, reload, last_tick, pc, i, now, busy, credit,
          early>>
list == <<run_flag, reload, last_tick>>
history == <<credit, early>>

\* The time base is kept in a wider type.
Mutant_Add(a, b) == a + b

\* Sums and differences of uint32_t.
Add(a, b) == IF a + b < W THEN a + b ELSE a + b - W
Sub(a, b) == IF b <= a THEN a - b ELSE a - b + W

\* Mcal_TimerTask_Init
Init ==
  /\ TimeBase = 0
  /\ run_flag = [s \in Slots |-> TRUE] /\ reload = Period
  /\ last_tick = [s \in Slots |-> 0]
  /\ pc = "main" /\ i = 0 /\ now = 0 /\ busy = 0
  /\ credit = [s \in Slots |-> 0] /\ early = [s \in Slots |-> FALSE]

\* One millisecond, at any point of the main loop.
SysTick_Handler ==
  /\ busy < MaxBusy
  /\ TimeBase' = Add(TimeBase, 1)
  /\ busy' = busy + 1
  /\ credit' = [s \in Slots |-> IF credit[s] < MaxCredit THEN credit[s] + 1
                                                         ELSE credit[s]]
  /\ UNCHANGED <<list, pc, i, now, early>>

-----------------------------------------------------------------------------
(* The calls open to the rest of the main loop and to the handlers.  A slot  *)
(* or a period out of range is refused without an effect.                    *)

AnyCaller == pc \in {"main", "handler"}

Restart(s) ==
  /\ run_flag' = [run_flag EXCEPT ![s] = TRUE]
  /\ last_tick' = [last_tick EXCEPT ![s] = TimeBase]
  /\ credit' = [credit EXCEPT ![s] = 0]
  /\ early' = [early EXCEPT ![s] = FALSE]
  /\ UNCHANGED <<TimeBase, pc, i, now, busy>>

Task_Create(s, p) ==
  /\ AnyCaller /\ Restart(s)
  /\ reload' = [reload EXCEPT ![s] = p]

\* The stamp of the time before the slot was suspended is kept.
Mutant_Task_Run(s) ==
  /\ AnyCaller
  /\ run_flag' = [run_flag EXCEPT ![s] = TRUE]
  /\ credit' = [credit EXCEPT ![s] = 0]
  /\ early' = [early EXCEPT ![s] = FALSE]
  /\ UNCHANGED <<TimeBase, pc, i, now, busy, reload, last_tick>>

Task_Run(s) ==
  /\ AnyCaller /\ Restart(s)
  /\ UNCHANGED reload

Task_Stop(s) ==
  /\ AnyCaller
  /\ run_flag' = [run_flag EXCEPT ![s] = FALSE]
  /\ UNCHANGED <<TimeBase, reload, last_tick, pc, i, now, busy, history>>

-----------------------------------------------------------------------------
(* Task_Handle_Cycle *)

\* The time is read once for all slots.
BeginCycle ==
  /\ pc = "main"
  /\ now' = TimeBase /\ i' = 0 /\ pc' = "scan"
  /\ UNCHANGED <<TimeBase, list, busy, history>>

\* Absolute times are compared.
Mutant_Due(s) == run_flag[s] /\ now >= Add(last_tick[s], reload[s])

Due(s) == run_flag[s] /\ Sub(now, last_tick[s]) >= reload[s]

SkipSlot ==
  /\ pc = "scan" /\ i \in Slots /\ ~Due(i)
  /\ i' = i + 1
  /\ UNCHANGED <<TimeBase, list, pc, now, busy, history>>

\* Once the time base has moved past now, a slot that a handler of this very
\* cycle starts carries a stamp of the future.
StampedAfterSample(s) == Sub(TimeBase, last_tick[s]) < Sub(TimeBase, now)

\* A slot that is late is served once for every period it has missed.
Mutant_NextStamp(s) == Add(last_tick[s], reload[s])

\* The period ends where it should have, or now if a whole one was missed.
NextStamp(s) ==
  LET next == Add(last_tick[s], reload[s])
  IN  IF Sub(now, next) >= reload[s] THEN now ELSE next

RunSlot ==
  /\ pc = "scan" /\ i \in Slots /\ Due(i)
  /\ last_tick' = [last_tick EXCEPT ![i] = NextStamp(i)]
  /\ credit' = [credit EXCEPT ![i] = @ - reload[i]]
  /\ early' = [early EXCEPT ![i] = @ \/ StampedAfterSample(i)]
  /\ pc' = "handler"
  /\ UNCHANGED <<TimeBase, run_flag, reload, i, now, busy>>

\* The handler returns; the loop goes on with the next slot.
HandlerReturns ==
  /\ pc = "handler"
  /\ pc' = "scan" /\ i' = i + 1
  /\ UNCHANGED <<TimeBase, list, now, busy, history>>

EndCycle ==
  /\ pc = "scan" /\ i \notin Slots
  /\ pc' = "main" /\ i' = 0 /\ now' = 0 /\ busy' = 0
  /\ UNCHANGED <<TimeBase, list, history>>

Next ==
  \/ SysTick_Handler
  \/ \E s \in Slots : \/ Task_Run(s) \/ Task_Stop(s)
                      \/ \E p \in Periods : Task_Create(s, p)
  \/ BeginCycle \/ SkipSlot \/ RunSlot \/ HandlerReturns \/ EndCycle

Spec == Init /\ [][Next]_vars

-----------------------------------------------------------------------------
(* Properties *)

TypeOK ==
  /\ TimeBase \in Time /\ now \in Time
  /\ run_flag \in [Slots -> BOOLEAN] /\ reload \in [Slots -> Periods]
  /\ last_tick \in [Slots -> Time]
  /\ pc \in {"main", "scan", "handler"} /\ i \in Nat
  /\ pc = "handler" => i \in Slots
  /\ busy \in 0..MaxBusy
  /\ credit \in [Slots -> Int] /\ early \in [Slots -> BOOLEAN]

\* How long ago the current period of a slot began.
Age(s) == Sub(TimeBase, last_tick[s])

\* A slot never runs before its period is over, wherever the time base wraps
\* and wherever it advances during the scan.  The one exception in the code:
\* Task_Run or Task_Create of a handler that another slot's scan follows.  Its
\* comment (Mcal_TimerTask.c:85) says that the period restarts from now.
NeverEarly ==
  [][pc = "scan" /\ pc' = "handler"
       => Age(i) >= reload[i] \/ StampedAfterSample(i)]_vars

\* Since it was started, a slot has run at most once per elapsed period:
\* catching up for lateness never runs it ahead of the true time.  The one
\* exception in the code is the case NeverEarly names: a slot that a handler
\* of the cycle has started is run at once and stamped with the sample.  It
\* is one run ahead from then on, and the age of that sample, but not more:
\* it happens once per start and never adds up.
RunsFitPeriods ==
  \A s \in Slots : run_flag[s] =>
    credit[s] >= IF early[s] THEN -(reload[s] + MaxBusy) ELSE 0

\* No slot starves, whatever the others do: one that is not suspended has
\* been served by its period plus the time of two passes of the main loop.
Punctual ==
  \A s \in Slots : run_flag[s] => Age(s) < reload[s] + 2 * MaxBusy
=============================================================================
